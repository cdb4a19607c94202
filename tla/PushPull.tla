------------------------------ MODULE PushPull ------------------------------
(***************************************************************************)
(* Push or fold: bot-core/src/push_pull.rs.  Pure operators over the       *)
(* position our seat decides in.  What the evaluations of the hand come to *)
(* is part of the position; which of them are read, and in what order, is  *)
(* what the operators say.                                                 *)
(***************************************************************************)
EXTENDS Integers, FiniteSets

CONSTANTS
    TileTypes,     \* tile types that can be discarded
    None           \* no tile, no value, no evaluation

ThreatKinds == {"Reach", "ActionableOpenHand", "Combined"}
OpenHands   == {"none", "caution", "danger"}
Modes       == {"Push", "Neutral", "Fold"}
Furiten     == {"no", "yes", "unknown"}

ASSUME NoneAssumption == None \notin TileTypes \cup Int \cup ThreatKinds

(***************************************************************************)
(* The thresholds, all inclusive.  Values of a one-shanten hand are in     *)
(* points; the code multiplies both sides by the same scale.               *)
(***************************************************************************)
StrongTenpaiMinRemaining        == 6
FuritenStrongTenpaiMinRemaining == 8
TenpaiPushWeightedTotalMin(p)   == IF p.dealer_reacher THEN 23400 ELSE 15600

\* An open hand is a threat from "caution" on; a riichi always is.
HasOpenHandThreat(p) == p.open_hands # "none"

ThreatKind(p) ==
    CASE p.reachers >= 1 /\ HasOpenHandThreat(p)  -> "Combined"
      [] p.reachers >= 1 /\ ~HasOpenHandThreat(p) -> "Reach"
      [] p.reachers = 0 /\ HasOpenHandThreat(p)   -> "ActionableOpenHand"
      [] OTHER                                    -> None

HasClearThreat(p) == ThreatKind(p) # None

OnlyOpenHands(p) == ThreatKind(p) = "ActionableOpenHand"
OnlyCaution(p)   == OnlyOpenHands(p) /\ p.open_hands = "caution"

\* The value of a one-shanten hand counts against one riichi or open hands alone.
IishantenUsesValue(p) ==
    \/ ThreatKind(p) = "Reach" /\ p.reachers < 2
    \/ OnlyOpenHands(p)

IishantenPushMin(p) ==
    CASE p.dealer_reacher                    -> 1500
      [] ~p.dealer_reacher /\ OnlyCaution(p) -> 750
      [] OTHER                               -> 1000

\* p.wait is the wait of the selected discard, None if it leaves no tenpai.
IsStrongTenpai(p) ==
    /\ p.wait # None
    /\ \/ /\ p.wait.furiten = "no"
          /\ p.total # None
          /\ p.total >= TenpaiPushWeightedTotalMin(p)
       \/ /\ p.wait.furiten = "no"
          /\ p.total = None
          /\ p.wait.remaining >= StrongTenpaiMinRemaining
       \/ /\ p.wait.furiten = "yes"
          /\ p.wait.remaining >= FuritenStrongTenpaiMinRemaining

IsValuableIishanten(p) ==
    IishantenUsesValue(p) /\ p.value # None /\ p.value >= IishantenPushMin(p)

\* Whether a discard, if selected, cannot deal into any of the threats.
HardSafe(p, tile) == HasClearThreat(p) /\ tile \in p.safe

Verdict(mode, reason) == [mode |-> mode, reason |-> reason]

Verdicts ==
    {Verdict("Push", r) : r \in {"no_threat", "strong_tenpai", "safe_tenpai", "caution_tenpai",
                                 "valuable_iishanten", "safe_iishanten", "safe_two_shanten"}}
    \cup {Verdict("Fold", r) : r \in {"missing_offense", "weak_tenpai", "iishanten",
                                      "two_or_more_shanten"}}

ASSUME VerdictAssumption == None \notin Verdicts

\* Mutant: the exception for a safe discard holds against open hands of any kind.
Mutant_TwoOrMoreShanten(p, shanten, hard_safe) ==
    IF HasOpenHandThreat(p) /\ shanten = 2 /\ hard_safe
    THEN Verdict("Push", "safe_two_shanten")
    ELSE Verdict("Fold", "two_or_more_shanten")

TwoOrMoreShanten(p, shanten, hard_safe) ==
    IF OnlyOpenHands(p) /\ shanten = 2 /\ hard_safe
    THEN Verdict("Push", "safe_two_shanten")
    ELSE Verdict("Fold", "two_or_more_shanten")

Tenpai(p, hard_safe) ==
    CASE IsStrongTenpai(p)                   -> Verdict("Push", "strong_tenpai")
      [] ~IsStrongTenpai(p) /\ hard_safe     -> Verdict("Push", "safe_tenpai")
      [] ~IsStrongTenpai(p) /\ ~hard_safe /\ OnlyCaution(p)
                                             -> Verdict("Push", "caution_tenpai")
      [] OTHER                               -> Verdict("Fold", "weak_tenpai")

Iishanten(p, hard_safe) ==
    CASE IsValuableIishanten(p)              -> Verdict("Push", "valuable_iishanten")
      [] ~IsValuableIishanten(p) /\ OnlyOpenHands(p) /\ hard_safe
                                             -> Verdict("Push", "safe_iishanten")
      [] OTHER                               -> Verdict("Fold", "iishanten")

(***************************************************************************)
(* decide_push_pull for the discard that was selected, None if the hand    *)
(* could not be evaluated.                                                 *)
(***************************************************************************)
DecidePushPull(p, selected) ==
    LET shanten   == p.shanten[selected]
        hard_safe == HardSafe(p, selected)
    IN  CASE ~HasClearThreat(p)                 -> Verdict("Push", "no_threat")
          [] HasClearThreat(p) /\ selected = None -> Verdict("Fold", "missing_offense")
          [] HasClearThreat(p) /\ selected # None ->
                CASE shanten <= 0 -> Tenpai(p, hard_safe)
                  [] shanten = 1  -> Iishanten(p, hard_safe)
                  [] OTHER        -> TwoOrMoreShanten(p, shanten, hard_safe)

(***************************************************************************)
(* What can be said before a discard is selected.  The cohort is the set   *)
(* of legal discards with the fewest shanten.                              *)
(***************************************************************************)
Discards(p) == DOMAIN p.shanten

Cohort(p) ==
    {tile \in Discards(p) : \A other \in Discards(p) : p.shanten[tile] <= p.shanten[other]}

\* Mutant: the fold does not wait for a discard that might be safe.
Mutant_EarlyFold(p) ==
    IF HasClearThreat(p) /\ Discards(p) # {} /\ \A tile \in Discards(p) : p.shanten[tile] >= 2
    THEN Verdict("Fold", "two_or_more_shanten")
    ELSE None

\* early_two_or_more_shanten_fold: a verdict no choice within the cohort can
\* change, or None.
EarlyFold(p) ==
    IF /\ HasClearThreat(p)
       /\ Discards(p) # {}
       /\ \A tile \in Discards(p) : p.shanten[tile] >= 2
       /\ ~ (/\ OnlyOpenHands(p)
             /\ \E tile \in Cohort(p) : p.shanten[tile] = 2 /\ HardSafe(p, tile))
    THEN Verdict("Fold", "two_or_more_shanten")
    ELSE None

=============================================================================
