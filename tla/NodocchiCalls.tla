---------------------------- MODULE NodocchiCalls ----------------------------
(***************************************************************************)
(* NodocchiAgent with its call decision: bot-core/src/agents/nodocchi.rs   *)
(* around call_decision.rs.  Where a chi or pon is offered, the position's *)
(* call is what the call decision selects, each time the agent decides.    *)
(* After a call the server asks for the discard, which the agent decides   *)
(* like any other.                                                         *)
(***************************************************************************)
EXTENDS NodocchiDecision, CallDecision, SequencesExt

VARIABLE called_from     \* the shanten of the hand that has just called, None if it has not

callsVars == <<vars, callVars, called_from>>

\* A position in which calls are offered: it is not our turn.
Offered(t) ==
    [hora |-> FALSE, ryukyoku |-> "absent", call |-> None, reach |-> FALSE,
     shanten |-> <<>>, selected |-> None, dahai |-> <<>>, pass |-> TRUE,
     defence |-> [family \in Families |-> None],
     reachers |-> IF t.reached THEN 1 ELSE 0, dealer_reacher |-> FALSE,
     open_hands |-> t.open_hands, wait |-> None, total |-> None, value |-> None,
     safe |-> {}, kans |-> {}, own_reached |-> "no", own_draw |-> FALSE,
     remaining |-> 0, types |-> 0, offense |-> None]

CallsInit ==
    /\ CallInit
    /\ called_from = None
    /\ IF table = None THEN Init
       ELSE /\ position = Offered(table)
            /\ diagnostics = FALSE /\ stage = "start"
            /\ push_pull = None /\ decision = None /\ acted = None

\* decide_instrumented asks for a call after hora and ryukyoku.
ConsiderCalls ==
    /\ stage = "start" /\ ~position.hora /\ ~DeclaresRyukyoku
    /\ phase # "done"
    /\ CallNext
    /\ position' = IF phase' = "done" THEN [position EXCEPT !.call = called'] ELSE position
    /\ UNCHANGED <<diagnostics, stage, push_pull, decision, acted, called_from>>

Decides ==
    \/ DeclareHora
    \/ DeclareRyukyoku
    \/ MakeCall
    \/ FoldEarly
    \/ SelectNormalDiscard
    \/ ChooseByMode
    \/ DiscardFirstLegal
    \/ Pass

\* The calls are considered anew.
RestartCalls ==
    /\ phase' = IF table = None THEN "done" ELSE "prepare"
    /\ next' = 1
    /\ sources' = <<>> /\ reasons' = <<>> /\ passes' = {} /\ gates' = <<>>
    /\ counts' = [kind \in Kinds |-> 0]
    /\ called' = None /\ why' = None
    /\ UNCHANGED table

DecidePosition ==
    /\ phase = "done"
    /\ \/ Decides /\ UNCHANGED <<callVars, called_from>>
       \/ Diagnose /\ RestartCalls /\ UNCHANGED called_from

\* The server accepts the call and asks for a discard from the hand that is left; tiles
\* the call forbids are not among the legal ones.
CalledHand == CHOOSE c \in {table.calls[i] : i \in Candidates} : c.name = called

\* What the normal selection prefers after the call.  From one shanten the call decision
\* has asked this very selection.
FollowUps(t, c) == IF t.shanten = 1 THEN {c.discard} ELSE Cohort(AfterCall(t, c))

AskForDiscard ==
    /\ stage = "decided" /\ diagnostics
    /\ decision.source = "Call" /\ table # None
    /\ \E tile \in FollowUps(table, CalledHand) :
          position' = [position EXCEPT
                         !.call = None, !.pass = FALSE, !.selected = tile,
                         !.shanten = CalledHand.discards, !.safe = CalledHand.safe,
                         !.dahai = SetToSeq(DOMAIN CalledHand.discards),
                         !.wait = CalledHand.wait, !.total = CalledHand.total,
                         !.value = CalledHand.push_value]
    /\ called_from' = table.shanten
    /\ table' = None
    /\ diagnostics' = FALSE /\ stage' = "start"
    /\ push_pull' = None /\ decision' = None /\ acted' = None
    /\ UNCHANGED <<phase, next, sources, reasons, passes, counts, gates, called, why>>

CallsNext ==
    \/ ConsiderCalls
    \/ DecidePosition
    \/ AskForDiscard

CallsSpec == CallsInit /\ [][CallsNext]_callsVars

-----------------------------------------------------------------------------
(* Whoever calls at one shanten plays on: the discard the call asks for is not   *)
(* folded, the threats being what they were.                                     *)
OneShantenCallIsPlayedOn == called_from = 1 /\ push_pull # None => push_pull.mode = "Push"

=============================================================================
