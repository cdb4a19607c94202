----------------------------- MODULE CallDecision -----------------------------
(***************************************************************************)
(* Which chi or pon to make, if any: bot-core/src/call_decision.rs.  The   *)
(* offered calls are prepared in their order, as far as that is cheap.     *)
(* Then each is evaluated, while another thread evaluates what passing is  *)
(* worth if that will be asked for.  Then the calls that leave no tenpai   *)
(* are compared with passing, what survives goes through push/pull, and    *)
(* one of the eligible calls is taken.                                     *)
(*                                                                         *)
(* A table is what the decision reads of the context and of the hand:      *)
(*   reached, drawn   an opponent is in riichi; there is a drawn tile      *)
(*   melds            how many melds we have, or None                      *)
(*   shanten          of our hand                                          *)
(*   source_known     the seat that discarded is known                     *)
(*   draws            draws left to us after a call, or None               *)
(*   open_hands       the threat of the open hands (see PushPull)          *)
(*   pass             what passing is worth in each comparison, or None    *)
(*   parallel         there is more than one processor                     *)
(*   calls            the calls offered                                    *)
(* and a call is what evaluating it comes to:                              *)
(*   name                 of the action                                    *)
(*   key                  <<meld and hand left, their red fives>>, None if *)
(*                        the consumed tiles make no meld                  *)
(*   discards, discard    shanten after each legal discard, and the one    *)
(*                        that the selection for this call prefers         *)
(*   rank                 of that discard for the comparator of discards   *)
(*   wait, yaku           tenpai: the wait with its permanent furiten and  *)
(*                        that of missed wins (history), and what is known *)
(*                        of the yaku of its live tiles                    *)
(*   total, push_value    what push/pull reads of the hand                 *)
(*   safe                 the discards no threat can win on                *)
(*   value                of the hand, None if it is not known             *)
(*   han, ron_yaku        whether all tenpai reached have enough han, and  *)
(*                        whether all their waits have a yaku              *)
(***************************************************************************)
EXTENDS PushPull, Sequences

CONSTANT CallTables

\* What a call is compared with passing as, and the reason if it is better.
CallHigher == [Iishanten      |-> "EligibleIishantenSelfTsumo",
               TwoShanten     |-> "EligibleTwoShantenSelfTsumo",
               TwoShantenStay |-> "EligibleTwoShantenStaySelfTsumo",
               ThreeShanten   |-> "EligibleThreeShantenSelfTsumo"]

Kinds == DOMAIN CallHigher

\* CallDecisionReason
Reasons ==
    {"EligibleTenpai", "EligibleIishantenSelfTsumo", "EligibleTwoShantenSelfTsumo",
     "EligibleTwoShantenSpeed", "EligibleTwoShantenStaySelfTsumo",
     "EligibleThreeShantenSelfTsumo", "EligibleThreeShantenSpeed", "OpponentReached",
     "UnexpectedDrawnTile", "InvalidConsumed", "FixedMeldCountUnknown",
     "FixedMeldCountOverflow", "CurrentShantenNotCallable", "PostCallNotIishanten",
     "PostCallNotTwoShanten", "NoPostCallDiscard", "PostCallNotTenpai",
     "IishantenSelfTsumoUnknown", "ReactionSourceUnknown", "PassSelfTsumoNotLower",
     "NoLiveAcceptance", "TooFewLiveWaits", "CannotRon", "YakuMissing", "HandValueUnknown",
     "PostCallNotPush", "PostCallEvaluationUnavailable"}

\* The draws that the policies which prefer speed ask for; enough han is 3 and 4.
Speed         == [TwoShanten |-> "EligibleTwoShantenSpeed", ThreeShanten |-> "EligibleThreeShantenSpeed"]
SpeedMinDraws == [TwoShanten |-> 10, ThreeShanten |-> 12]

MinLiveWaitRemaining == 3
MaxMelds == 4

Fields == {"name", "key", "discards", "discard", "rank", "wait", "yaku", "total",
           "push_value", "safe", "value", "han", "ron_yaku"}

IsCall(c) ==
    /\ DOMAIN c = Fields /\ c.name # None
    /\ c.rank \in Int /\ c.value \in Int \cup {None}
    /\ {c.total, c.push_value} \subseteq Nat \cup {None}
    /\ c.wait # None => c.wait.remaining \in Nat
    /\ \A tile \in DOMAIN c.discards : c.discards[tile] \in Nat
    /\ c.discard \in IF DOMAIN c.discards = {} THEN {None}
                     ELSE {t \in DOMAIN c.discards :
                              \A u \in DOMAIN c.discards : c.discards[t] <= c.discards[u]}
    /\ DOMAIN c.discards \cup c.safe \subseteq TileTypes
    /\ c.yaku \subseteq {"present", "absent", "unknown"}
    /\ {c.han, c.ron_yaku} \subseteq {"at_least", "below", "unknown"}

\* Calls with the same key leave the same hand behind the same meld, and an action is
\* one call, however often it is offered.
SameState(a, b) == [a EXCEPT !.name = b.name] = b

IsTable(t) ==
    /\ \A i \in DOMAIN t.calls : IsCall(t.calls[i])
    /\ \A i, j \in DOMAIN t.calls :
          t.calls[i].key = t.calls[j].key /\ t.calls[i].key # None
              => SameState(t.calls[i], t.calls[j])
    /\ \A i, j \in DOMAIN t.calls :
          t.calls[i].name = t.calls[j].name => t.calls[i] = t.calls[j]
    /\ t.calls \in Seq({t.calls[i] : i \in DOMAIN t.calls})
    /\ t.pass \in [Kinds -> Int \cup {None}]
    /\ t.melds \in 0 .. MaxMelds \cup {None} /\ t.draws \in Int \cup {None}
    /\ {t.reached, t.drawn, t.source_known, t.parallel} \subseteq BOOLEAN
    /\ t.open_hands \in OpenHands

ASSUME TableAssumption == \A t \in CallTables : IsTable(t) /\ t.calls # <<>>

\* No reason, comparison or table is the marker for nothing.
ASSUME MarkerAssumption == None \notin Reasons \cup Kinds /\ None \notin CallTables

VARIABLES
    table,     \* what is decided about, None where no call is offered
    phase,     \* "prepare", "evaluate", "compare", "gate", "select" or "done"
    next,      \* the candidate, or the policy, that comes next
    sources,   \* of each prepared candidate, the candidate whose result it will share
    reasons,   \* of each prepared candidate, why it is or is not called, as far as known
    passes,    \* the comparisons the other thread has evaluated passing for
    counts,    \* history: how often passing was evaluated for each comparison
    gates,     \* the push/pull verdicts by candidate, None where there is none
    called,    \* the call selected, or None
    why        \* the reason reported

callVars == <<table, phase, next, sources, reasons, passes, counts, gates, called, why>>

-----------------------------------------------------------------------------
(* One candidate. *)

First(S) == CHOOSE i \in S : \A j \in S : i <= j

\* What the first rule that applies says, or None.  A rule is a condition and a reason.
FirstMatch(rules) ==
    LET met == {i \in DOMAIN rules : rules[i][1]}
    IN  IF met = {} THEN None ELSE rules[First(met)][2]

\* prepare_call_candidate, up to the evaluation of the hand that is left.
EarlyReason(t, c) ==
    FirstMatch(<<<<t.reached,                 "OpponentReached">>,
               <<t.drawn,                   "UnexpectedDrawnTile">>,
               <<c.key = None,              "InvalidConsumed">>,
               <<t.melds = None,            "FixedMeldCountUnknown">>,
               <<t.melds = MaxMelds,        "FixedMeldCountOverflow">>,
               <<t.shanten \notin 1 .. 3,   "CurrentShantenNotCallable">>>>)

\* post_call_min_shanten; None without a legal discard.
PostShanten(c) == IF c.discard = None THEN None ELSE c.discards[c.discard]

\* What a call is compared with: how its hand goes on from here, without the call.
Kind(t, c) ==
    CASE t.shanten = 1 /\ PostShanten(c) = 1 -> "Iishanten"
      [] t.shanten = 2 /\ PostShanten(c) = 1 -> "TwoShanten"
      [] t.shanten = 2 /\ PostShanten(c) = 2 -> "TwoShantenStay"
      [] t.shanten = 3 /\ PostShanten(c) = 2 -> "ThreeShanten"
      [] OTHER -> None

\* Mutant: one live tile without a yaku is excused if another has one.
Mutant_WaitYaku(c) ==
    FirstMatch(<<<<"present" \in c.yaku, "EligibleTenpai">>,
               <<"absent" \in c.yaku,  "YakuMissing">>,
               <<"unknown" \in c.yaku, "HandValueUnknown">>,
               <<TRUE,                 "EligibleTenpai">>>>)

\* live_wait_yaku_reason
WaitYaku(c) ==
    FirstMatch(<<<<"absent" \in c.yaku,  "YakuMissing">>,
               <<"unknown" \in c.yaku, "HandValueUnknown">>,
               <<TRUE,                 "EligibleTenpai">>>>)

\* The hand after the call and its discard, as push/pull sees it.  Nobody is in
\* riichi: an opponent in riichi has ended the decision before.
AfterCall(t, c) ==
    [reachers |-> 0, dealer_reacher |-> FALSE, open_hands |-> t.open_hands,
     shanten |-> c.discards, safe |-> c.safe,
     wait |-> c.wait, total |-> c.total, value |-> c.push_value]

\* Mutant: the hand after the call is judged as if nobody attacked.
Mutant_PostCallVerdict(t, c) ==
    DecidePushPull([AfterCall(t, c) EXCEPT !.open_hands = "none"], c.discard)

PostCallVerdict(t, c) == DecidePushPull(AfterCall(t, c), c.discard)

\* can_ron: neither permanent furiten nor that of missed wins, both known.
CanRon(wait) == {wait.furiten, wait.history} = {"no"}

\* evaluate_post_call_conditions for a tenpai, then push/pull.
TenpaiReason(t, c) ==
    LET reason == FirstMatch(<<<<c.wait.remaining = 0,                    "NoLiveAcceptance">>,
                             <<c.wait.remaining < MinLiveWaitRemaining, "TooFewLiveWaits">>,
                             <<~CanRon(c.wait),                         "CannotRon">>,
                             <<TRUE,                                    WaitYaku(c)>>>>)
    IN  IF reason = "EligibleTenpai" /\ PostCallVerdict(t, c).mode # "Push"
        THEN "PostCallNotPush" ELSE reason

\* evaluate_prepared_call_candidate.  What will be compared with passing is put down
\* as one shanten too many, or as unknown, until it is.
Evaluated(t, c) ==
    LET post == PostShanten(c)
    IN  CASE post = None                                -> "NoPostCallDiscard"
          [] t.shanten = 1 /\ post = 0 /\ c.wait # None -> TenpaiReason(t, c)
          [] t.shanten = 1 /\ post = 0 /\ c.wait = None -> "PostCallNotTenpai"
          [] t.shanten = 1 /\ post \notin {0, None}     -> "PostCallNotTenpai"
          [] t.shanten = 2 /\ post \in {1, 2}           -> "IishantenSelfTsumoUnknown"
          [] t.shanten = 2 /\ post \notin {1, 2, None}  -> "PostCallNotIishanten"
          [] t.shanten = 3 /\ post = 2                  -> "IishantenSelfTsumoUnknown"
          [] t.shanten = 3 /\ post \notin {2, None}     -> "PostCallNotTwoShanten"

-----------------------------------------------------------------------------
(* The comparison with passing. *)

\* compare_call_pass_self_tsumo_values
Compared(t, c, kind) ==
    LET pass == t.pass[kind]
    IN  CASE ~t.source_known -> "ReactionSourceUnknown"
          [] t.source_known /\ (c.value = None \/ pass = None) -> "IishantenSelfTsumoUnknown"
          [] t.source_known /\ c.value # None /\ pass # None ->
                IF c.value > pass THEN CallHigher[kind] ELSE "PassSelfTsumoNotLower"

\* The speed policies turn a call that is known to be worth no more than passing.
PrefersSpeed(t, c, kind) ==
    /\ kind \in DOMAIN Speed
    /\ t.draws # None
    /\ t.draws >= SpeedMinDraws[kind]
    /\ c.han = "at_least"

\* The bodies of the apply_*_self_tsumo_policy functions for one candidate.
PolicyReason(t, c, kind) ==
    LET reason == Compared(t, c, kind)
    IN  IF reason = "PassSelfTsumoNotLower" /\ PrefersSpeed(t, c, kind) THEN Speed[kind]
        ELSE IF kind = "TwoShantenStay" /\ reason = CallHigher[kind]
             THEN [at_least |-> reason, below |-> "YakuMissing",
                   unknown  |-> "HandValueUnknown"][c.ron_yaku]
             ELSE reason

\* is_call_pass_eligible_reason
ComparedReasons == {CallHigher[kind] : kind \in Kinds} \cup {Speed[kind] : kind \in DOMAIN Speed}

-----------------------------------------------------------------------------
Candidates == DOMAIN table.calls

CallInit ==
    /\ table \in CallTables \cup {None}
    /\ phase = IF table = None THEN "done" ELSE "prepare"
    /\ next = 1
    /\ sources = <<>> /\ reasons = <<>> /\ passes = {} /\ gates = <<>>
    /\ counts = [kind \in Kinds |-> 0]
    /\ called = None /\ why = None

\* Mutant: the red five is not part of the key.
Mutant_Twins(c) ==
    {j \in DOMAIN sources : /\ sources[j] = j /\ c.key # None /\ table.calls[j].key # None
                            /\ table.calls[j].key[1] = c.key[1]}

\* The candidates prepared so far that leave the same state as a call, and that are not
\* twins of another themselves.
Twins(c) == {j \in DOMAIN sources : sources[j] = j /\ c.key # None /\ table.calls[j].key = c.key}

\* One step of a pass over the candidates or the policies; the last leads on.
Step(last, to) ==
    IF next < last THEN next' = next + 1 /\ UNCHANGED phase ELSE next' = 1 /\ phase' = to

PrepareCall ==
    /\ phase = "prepare"
    /\ LET c == table.calls[next]
       IN  IF Twins(c) # {}
           THEN /\ sources' = Append(sources, CHOOSE j \in Twins(c) : TRUE)
                /\ reasons' = Append(reasons, None)
           ELSE /\ sources' = Append(sources, next)
                /\ reasons' = Append(reasons, EarlyReason(table, c))
    /\ Step(Len(table.calls), "evaluate")
    /\ UNCHANGED <<table, passes, counts, gates, called, why>>

\* The calls that go on to be evaluated.
Open == {i \in Candidates : sources[i] = i /\ EarlyReason(table, table.calls[i]) = None}

\* Mutant: passing is evaluated for every comparison the shanten allows.
Mutant_Required ==
    IF ~table.source_known \/ Open = {} THEN {}
    ELSE <<{"Iishanten"}, {"TwoShanten", "TwoShantenStay"}, {"ThreeShanten"}>>[table.shanten]

\* pass_continuations_required
Required ==
    IF ~table.source_known THEN {}
    ELSE {Kind(table, table.calls[i]) : i \in Open} \ {None}

\* Whether passing is evaluated by another thread, beside the calls.
Overlaps == table.parallel /\ Required # {}

\* The order in which the other thread evaluates them.
PassOrder == <<"Iishanten", "ThreeShanten", "TwoShanten", "TwoShantenStay">>

EvaluateCall ==
    /\ phase = "evaluate"
    /\ next \in Candidates
    /\ reasons' = IF next \in Open
                  THEN [reasons EXCEPT ![next] = Evaluated(table, table.calls[next])]
                  ELSE reasons
    /\ next' = next + 1
    /\ UNCHANGED <<table, phase, sources, passes, counts, gates, called, why>>

CountPass(kind) == counts' = [counts EXCEPT ![kind] = @ + 1]

EvaluatePass ==
    /\ phase = "evaluate"
    /\ Overlaps
    /\ Required \ passes # {}
    /\ LET kind == PassOrder[First({k \in DOMAIN PassOrder : PassOrder[k] \in Required \ passes})]
       IN  passes' = passes \cup {kind} /\ CountPass(kind)
    /\ UNCHANGED <<table, phase, next, sources, reasons, gates, called, why>>

\* The threads meet, and the twins get their results (into_call_candidates).
Join ==
    /\ phase = "evaluate"
    /\ next \notin Candidates
    /\ Overlaps => passes = Required
    /\ reasons' = [i \in Candidates |-> reasons[sources[i]]]
    /\ phase' = "compare"
    /\ next' = 1
    /\ UNCHANGED <<table, sources, passes, counts, gates, called, why>>

Policies == <<"Iishanten", "TwoShanten", "TwoShantenStay", "ThreeShanten">>

\* What evaluating a candidate, or the candidate it is a twin of, came to.
Result(i) == table.calls[sources[i]]

\* The candidates that carry a diagnostic of a comparison.
ToCompare(kind) == {i \in Candidates : sources[i] \in Open /\ Kind(table, Result(i)) = kind}

\* One of the apply_*_self_tsumo_policy functions.  It evaluates passing itself if the
\* other thread has not.
ApplyPolicy ==
    /\ phase = "compare"
    /\ LET kind == Policies[next]
       IN  /\ reasons' = [i \in Candidates |->
                             IF i \in ToCompare(kind)
                             THEN PolicyReason(table, Result(i), kind) ELSE reasons[i]]
           /\ IF ToCompare(kind) # {} /\ table.source_known /\ kind \notin passes
              THEN CountPass(kind) ELSE UNCHANGED counts
    /\ Step(Len(Policies), "gate")
    /\ UNCHANGED <<table, sources, passes, gates, called, why>>

\* apply_post_call_push_pull_gate, for one candidate; a twin reads the verdict of its
\* source.
GateCall ==
    /\ phase = "gate"
    /\ IF reasons[next] \in ComparedReasons
       THEN LET verdict == IF sources[next] # next THEN gates[sources[next]]
                           ELSE PostCallVerdict(table, table.calls[next])
            IN  /\ gates' = Append(gates, verdict)
                /\ reasons' =
                     IF verdict # None /\ verdict.mode = "Push" THEN reasons
                     ELSE [reasons EXCEPT ![next] = IF verdict = None
                                                    THEN "PostCallEvaluationUnavailable"
                                                    ELSE "PostCallNotPush"]
       ELSE gates' = Append(gates, None) /\ UNCHANGED reasons
    /\ Step(Len(table.calls), "select")
    /\ UNCHANGED <<table, sources, passes, counts, called, why>>

For(reason) == {i \in Candidates : reasons[i] = reason}

\* The first of the best by a number, higher being better; 0 if there is none.
FirstBest(S, number(_)) ==
    IF S = {} THEN 0
    ELSE LET best == {i \in S : \A j \in S : number(i) >= number(j)}
         IN  First(best)

\* The order in which select_eligible_candidate asks for calls that won a comparison.
Precedence == <<CallHigher["Iishanten"], CallHigher["TwoShanten"], CallHigher["ThreeShanten"],
                Speed["TwoShanten"], Speed["ThreeShanten"], CallHigher["TwoShantenStay"]>>

\* Mutant: calls that keep two shanten are compared with those that advance by value.
Mutant_SelectedIndex ==
    IF For("EligibleTenpai") # {}
    THEN FirstBest(For("EligibleTenpai"), LAMBDA i : Result(i).rank)
    ELSE FirstBest(UNION {For(reason) : reason \in ComparedReasons},
                   LAMBDA i : Result(i).value)

\* select_eligible_candidate; 0 if nothing is eligible.
SelectedIndex ==
    IF For("EligibleTenpai") # {}
    THEN FirstBest(For("EligibleTenpai"), LAMBDA i : Result(i).rank)
    ELSE LET winners == {k \in DOMAIN Precedence : For(Precedence[k]) # {}}
         IN  IF winners = {} THEN 0
             ELSE FirstBest(For(Precedence[First(winners)]), LAMBDA i : Result(i).value)

SelectCall ==
    /\ phase = "select"
    /\ called' = IF SelectedIndex = 0 THEN None ELSE table.calls[SelectedIndex].name
    /\ why' = reasons[IF SelectedIndex = 0 THEN 1 ELSE SelectedIndex]
    /\ phase' = "done"
    /\ UNCHANGED <<table, next, sources, reasons, passes, counts, gates>>

CallNext ==
    \/ PrepareCall
    \/ EvaluateCall
    \/ EvaluatePass
    \/ Join
    \/ ApplyPolicy
    \/ GateCall
    \/ SelectCall

-----------------------------------------------------------------------------
CallDone == table # None /\ phase = "done"

\* What a call comes to on its own: no twin, no other thread, no other call.
OnItsOwn(t, c) ==
    LET early    == EarlyReason(t, c)
        compared == PolicyReason(t, c, Kind(t, c))
    IN  CASE early # None -> early
          [] early = None /\ Kind(t, c) = None -> Evaluated(t, c)
          [] early = None /\ Kind(t, c) # None ->
                IF compared \in ComparedReasons /\ PostCallVerdict(t, c).mode # "Push"
                THEN "PostCallNotPush" ELSE compared

(* Neither the results shared between calls that leave the same hand, nor the    *)
(* thread that evaluates passing beside them, nor the order of the policies      *)
(* changes what any call comes to.                                               *)
ShortcutsChangeNothing ==
    CallDone => \A i \in Candidates : reasons[i] = OnItsOwn(table, table.calls[i])

(* Passing, the most expensive evaluation, is done once for a comparison that    *)
(* some call asks for, by whichever thread, and never for another.               *)
PassIsEvaluatedOnce ==
    CallDone =>
        \A kind \in Kinds :
            counts[kind] =
                IF table.source_known /\ \E i \in Candidates :
                       /\ EarlyReason(table, table.calls[i]) = None
                       /\ Kind(table, table.calls[i]) = kind
                THEN 1 ELSE 0

(* A call is made only into a hand that is played on: a tenpai that can win on   *)
(* every live tile, or a hand known to be worth more than passing by the same    *)
(* measure, or an advancing one that is fast and valuable.                       *)
GoodTenpai(c) ==
    /\ c.wait # None
    /\ c.wait.furiten = "no" /\ c.wait.history = "no"
    /\ c.wait.remaining >= 3
    /\ c.yaku \subseteq {"present"}

WorthMore(t, c, kind) ==
    /\ c.value > t.pass[kind]
    /\ kind = "TwoShantenStay" => c.ron_yaku = "at_least"

FastAndValuable(t, c, kind) ==
    /\ t.draws # None /\ c.han = "at_least"
    /\ \/ kind = "TwoShanten"   /\ t.draws >= 10
       \/ kind = "ThreeShanten" /\ t.draws >= 12

CallIsJustified ==
    CallDone /\ called # None =>
        \E c \in {table.calls[i] : i \in Candidates} :
            LET kind == Kind(table, c)
            IN  /\ c.name = called
                /\ ~table.reached /\ ~table.drawn /\ c.key # None /\ table.melds \in 0 .. 3
                /\ DecidePushPull(AfterCall(table, c), c.discard).mode = "Push"
                /\ \/ PostShanten(c) = 0 /\ GoodTenpai(c)
                   \/ /\ kind # None /\ table.source_known
                      /\ c.value # None /\ table.pass[kind] # None
                      /\ WorthMore(table, c, kind) \/ FastAndValuable(table, c, kind)

(* Among the calls that would be made on their own, a tenpai goes first, a hand  *)
(* that advances before one that does not, and within these the better one.      *)
Makes(i) == OnItsOwn(table, table.calls[i]) \in ComparedReasons \cup {"EligibleTenpai"}

NoBetterCallIsLeft ==
    CallDone =>
        IF \E i \in Candidates : Makes(i)
        THEN \E i \in Candidates :
                /\ table.calls[i].name = called /\ Makes(i)
                /\ \A j \in Candidates : Makes(j) =>
                      LET mine == table.calls[i] other == table.calls[j]
                      IN  /\ PostShanten(mine) <= PostShanten(other)
                          /\ PostShanten(mine) = PostShanten(other) =>
                                IF PostShanten(mine) = 0 THEN mine.rank >= other.rank
                                ELSE mine.value >= other.value
        ELSE called = None

=============================================================================
