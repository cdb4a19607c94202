--------------------------- MODULE NodocchiDecision ---------------------------
(***************************************************************************)
(* One decision of NodocchiAgent: bot-core/src/agents/nodocchi.rs.  The    *)
(* agent plays the position with act(); afterwards the same position is    *)
(* diagnosed, as the scenario tools do.  act() may fold early, before the  *)
(* expensive selection of a discard; diagnose() never does.                *)
(***************************************************************************)
EXTENDS KanDecision

\* What the agent may be asked: with kans, facing what the table shows, or neither.
CONSTANTS PlainPositions, KanPositions, FacingPositions

(***************************************************************************)
(* A position is what the server offers (hora, ryukyoku, calls, kans,      *)
(* dahai), what the table shows, and what the evaluations come to:         *)
(*   ryukyoku  "absent", or whether nine terminals would be declared       *)
(*   call      the call the call decision selects, or None                 *)
(*   reach     riichi is legal and the riichi decision selects it          *)
(*   shanten   of the hand after each discard that can be evaluated        *)
(*   selected  the discard the normal selection prefers, or None           *)
(*   dahai     the legal discards, in the order of the offer               *)
(*   pass      whether doing nothing is legal                              *)
(*   defence   the discard each defence prefers, or None                   *)
(*   the rest  see PushPull and KanDecision                                *)
(***************************************************************************)
Families == {"reach", "open_hand", "combined"}

Dahai(p) == {p.dahai[i] : i \in DOMAIN p.dahai}

\* The normal selection picks among the discards that are legal and can be
\* evaluated, and compares shanten first.
Selects(p) == IF Discards(p) = {} THEN p.selected = None ELSE p.selected \in Cohort(p)

IsPosition(p) ==
    /\ {"reachers", "dealer_reacher", "open_hands", "safe"} \subseteq DOMAIN p
    /\ p.dealer_reacher \in BOOLEAN
    /\ p.wait # None => p.wait.remaining \in Nat
    /\ p.total \in Nat \cup {None}
    /\ p.value \in Nat \cup {None}
    /\ p.ryukyoku \in {"absent", "declare", "continue"}
    /\ p.reachers \in 0 .. 3
    /\ p.dealer_reacher => p.reachers >= 1
    /\ p.open_hands \in OpenHands
    /\ p.own_reached \in OwnReached
    /\ Discards(p) \subseteq Dahai(p)
    /\ \A tile \in Discards(p) : p.shanten[tile] \in Int
    /\ Dahai(p) \subseteq TileTypes
    /\ Selects(p)
    /\ \A family \in Families : p.defence[family] \in Dahai(p) \cup {None}
    /\ p.pass \/ Dahai(p) # {}

ASSUME PositionAssumption ==
    /\ \A p \in PlainPositions : IsPosition(p)
    /\ \A p \in KanPositions : IsPosition(p)
    /\ \A p \in FacingPositions : IsPosition(p)

VARIABLES
    position,     \* ctx and legal_actions
    diagnostics,  \* whether this pass collects diagnostics
    stage,        \* where decide_instrumented is
    push_pull,    \* the push/pull verdict, None until there is one
    decision,     \* the action of this pass and where it came from, or None
    acted         \* the decision act() played

vars == <<position, diagnostics, stage, push_pull, decision, acted>>

Play(source, action) == [source |-> source, action |-> action]
Discard(source, tile) == Play(source, <<"Dahai", tile>>)
Declared(kan) == Play("Kan", <<"Kan", kan.kind, kan.tile>>)

(***************************************************************************)
(* select_action_for_push_pull_mode: the options of a mode in their order, *)
(* each None or a play.  `selected' is the normal discard, None if it has  *)
(* not been selected.                                                      *)
(***************************************************************************)
\* No play is "no play".
ASSUME PlayAssumption ==
    \A source \in {"NormalDiscard", "Defence"}, tile \in TileTypes : Discard(source, tile) # None

ReachOption(p) == IF p.reach THEN Play("Reach", <<"Reach">>) ELSE None

KanOption(p, mode, selected) ==
    LET kan == KanChoice(p, mode, selected) IN IF kan = None THEN None ELSE Declared(kan)

NormalOption(selected) == IF selected = None THEN None ELSE Discard("NormalDiscard", selected)

\* evaluate_fold_defense routes by the threats.
Family(p) ==
    CASE ThreatKind(p) = "Combined" -> "combined"
      [] ThreatKind(p) = "Reach"    -> "reach"
      [] OTHER                      -> "open_hand"

DefenceOption(p, family) ==
    IF p.defence[family] = None THEN None ELSE Discard("Defence", p.defence[family])

FirstOf(a, b, c) ==
    CASE a # None            -> a
      [] a = None /\ b # None -> b
      [] OTHER                -> c

ByMode(p, mode, selected) ==
    CASE mode = "Push" ->
            IF ReachOption(p) # None THEN ReachOption(p)
            ELSE FirstOf(KanOption(p, mode, selected), NormalOption(selected),
                         DefenceOption(p, "reach"))
      [] mode = "Neutral" ->
            FirstOf(KanOption(p, mode, selected), NormalOption(selected),
                    DefenceOption(p, "reach"))
      [] mode = "Fold" ->
            FirstOf(KanOption(p, mode, selected), DefenceOption(p, Family(p)),
                    NormalOption(selected))

\* try_early_fold: the play of a fold that no normal discard can change, or None.
EarlyPlay(p) == IF EarlyFold(p) = None THEN None ELSE ByMode(p, "Fold", None)

-----------------------------------------------------------------------------
Init ==
    /\ position \in PlainPositions \/ position \in KanPositions \/ position \in FacingPositions
    /\ diagnostics = FALSE
    /\ stage = "start"
    /\ push_pull = None
    /\ decision = None
    /\ acted = None

Decide(verdict, play) ==
    /\ stage' = "decided"
    /\ push_pull' = verdict
    /\ decision' = play
    /\ UNCHANGED <<position, diagnostics, acted>>

DeclaresRyukyoku == position.ryukyoku = "declare"

DeclareHora ==
    /\ stage = "start"
    /\ position.hora
    /\ Decide(None, Play("Hora", <<"Hora">>))

DeclareRyukyoku ==
    /\ stage = "start"
    /\ ~position.hora
    /\ DeclaresRyukyoku
    /\ Decide(None, Play("Ryukyoku", <<"Ryukyoku">>))

MakeCall ==
    /\ stage = "start"
    /\ ~position.hora
    /\ ~DeclaresRyukyoku
    /\ position.call # None
    /\ Decide(None, Play("Call", <<"Call", position.call>>))

MustDiscard ==
    /\ stage = "start"
    /\ ~position.hora
    /\ ~DeclaresRyukyoku
    /\ position.call = None

FoldsEarly == ~diagnostics /\ EarlyPlay(position) # None

FoldEarly ==
    /\ MustDiscard
    /\ FoldsEarly
    /\ Decide(EarlyFold(position), EarlyPlay(position))

\* Both entry points of the selection, for play and for diagnosis, are this one discard.
SelectNormalDiscard ==
    /\ MustDiscard
    /\ ~FoldsEarly
    /\ stage' = "selected"
    /\ push_pull' = DecidePushPull(position, position.selected)
    /\ UNCHANGED <<position, diagnostics, decision, acted>>

Chosen == ByMode(position, push_pull.mode, position.selected)

ChooseByMode ==
    /\ stage = "selected"
    /\ Chosen # None
    /\ Decide(push_pull, Chosen)

DiscardFirstLegal ==
    /\ stage = "selected"
    /\ Chosen = None
    /\ Dahai(position) # {}
    /\ Decide(push_pull, Discard("LegalDahaiFallback", position.dahai[1]))

Pass ==
    /\ stage = "selected"
    /\ Chosen = None
    /\ Dahai(position) = {}
    /\ Decide(push_pull, Play("None", <<"None">>))

\* diagnose() decides again, with diagnostics.
Diagnose ==
    /\ stage = "decided"
    /\ ~diagnostics
    /\ diagnostics' = TRUE
    /\ acted' = decision
    /\ stage' = "start"
    /\ push_pull' = None
    /\ decision' = None
    /\ UNCHANGED position

Next ==
    \/ DeclareHora
    \/ DeclareRyukyoku
    \/ MakeCall
    \/ FoldEarly
    \/ SelectNormalDiscard
    \/ ChooseByMode
    \/ DiscardFirstLegal
    \/ Pass
    \/ Diagnose

Spec == Init /\ [][Next]_vars

-----------------------------------------------------------------------------
Decided == stage = "decided"

(* A diagnosis reports the action that was played, and where it came from: the   *)
(* early fold changes nothing but the time it takes (the contract of diagnose).  *)
DiagnosisAgrees == diagnostics /\ Decided => decision = acted

(* What is folded early is folded for the same reason after the selection, for   *)
(* every discard the selection could have preferred.                             *)
EarlyFoldIsFinal ==
    EarlyFold(position) # None =>
        \A tile \in Cohort(position) : DecidePushPull(position, tile) = EarlyFold(position)

(* While folding, nothing is risked that a defence could have avoided: no        *)
(* riichi, no kan but the concealed one of a hand that is in riichi already, and *)
(* the discard of the defence against everybody who attacks, if it has one.      *)
FullDefence(p) ==
    IF p.reachers = 0 THEN p.defence["open_hand"]
    ELSE IF p.open_hands = "none" THEN p.defence["reach"] ELSE p.defence["combined"]

FoldKeepsToTheDefence ==
    Decided /\ push_pull # None /\ push_pull.mode = "Fold" =>
        \/ /\ decision.source = "Kan"
           /\ decision.action[2] = "ankan"
           /\ position.own_reached = "yes"
        \/ /\ decision.source = "Defence"
           /\ decision.action = <<"Dahai", FullDefence(position)>>
        \/ /\ decision.source \in {"NormalDiscard", "LegalDahaiFallback", "None"}
           /\ FullDefence(position) = None

(* A kan is declared before riichi only while nobody is in riichi, and an added  *)
(* kan only if nobody can rob it.                                                *)
KanTakesNoRisk ==
    Decided /\ decision.source = "Kan" /\ position.own_reached # "yes" =>
        /\ position.reachers = 0
        /\ \E kan \in position.kans : /\ Declared(kan) = decision
                                      /\ kan.kind = "kakan" => kan.hard_safe

(* A threat that grows never turns a fold into a push: one more riichi, one by   *)
(* the dealer, an open hand that gets worse, a tile that is no longer safe.      *)
WorseOpenHands(level) ==
    CASE level = "none" -> OpenHands [] level = "caution" -> {"caution", "danger"}
      [] level = "danger" -> {"danger"}

Worse(p, reachers, dealer, open_hands, safe) ==
    [p EXCEPT !.reachers = reachers, !.dealer_reacher = dealer,
              !.open_hands = open_hands, !.safe = safe]

GrowingThreatNeverInvites ==
    push_pull # None /\ push_pull.mode = "Fold" =>
        \A reachers \in position.reachers .. 3, dealer \in BOOLEAN,
           open_hands \in WorseOpenHands(position.open_hands), safe \in SUBSET position.safe :
            (position.dealer_reacher => dealer) /\ (dealer => reachers >= 1) =>
                DecidePushPull(Worse(position, reachers, dealer, open_hands, safe),
                               position.selected).mode = "Fold"

=============================================================================
