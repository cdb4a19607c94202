----------------------------- MODULE KanDecision -----------------------------
(***************************************************************************)
(* Whether to declare a kan: bot-core/src/kan_decision.rs.  A candidate is *)
(* a legal kan with what the code finds out about it:                      *)
(*   formed   the kan can be built from the hand and the melds             *)
(*   hard_safe  no opponent can complete a hand with the added tile        *)
(*   hand     the evaluation of the hand after it                          *)
(* An evaluation has shanten, remaining and types (acceptance) and offense *)
(* (None, or the mode and the weighted total, None if not known).          *)
(***************************************************************************)
EXTENDS PushPull

KanKinds     == {"ankan", "kakan", "daiminkan"}
OffenseModes == {"reach", "damaten", "unknown"}
OwnReached   == {"yes", "no", "unknown"}

\* compare_offense_value: only values known on the same scale are compared.
KeepsValue(before, after) ==
    /\ before.offense # None
    /\ after.offense # None
    /\ before.offense.mode = after.offense.mode
    /\ before.offense.mode # "unknown"
    /\ before.offense.total # None
    /\ after.offense.total # None
    /\ after.offense.total >= before.offense.total

\* compare_post_kan_hand: fewer shanten is not comparable either.
NoRegression(before, after) ==
    /\ after.shanten = before.shanten
    /\ after.remaining >= before.remaining
    /\ after.types >= before.types
    /\ KeepsValue(before, after)

\* The hand after the selected discard, which the kan is compared with.
Baseline(p, selected) ==
    [shanten |-> p.shanten[selected], remaining |-> p.remaining,
     types |-> p.types, offense |-> p.offense]

\* Mutant: the mode is not asked for.
Mutant_InAnyMode(p, mode, selected, kan) ==
    /\ p.reachers = 0
    /\ p.own_draw
    /\ kan.formed
    /\ kan.kind = "kakan" => kan.hard_safe
    /\ selected # None
    /\ NoRegression(Baseline(p, selected), kan.hand)

BeforeOwnReach(p, mode, selected, kan) ==
    /\ p.reachers = 0
    /\ mode = "Push"
    /\ p.own_draw
    /\ kan.formed
    /\ kan.kind = "kakan" => kan.hard_safe
    /\ selected # None
    /\ NoRegression(Baseline(p, selected), kan.hand)

\* evaluate_kan_candidate.  Seat unknown is neither reached nor not reached.
Eligible(p, mode, selected, kan) ==
    \/ p.own_reached = "yes" /\ kan.kind = "ankan" /\ kan.formed
    \/ /\ p.own_reached = "no"
       /\ kan.kind \in {"ankan", "kakan"}
       /\ BeforeOwnReach(p, mode, selected, kan)

TheOnly(S) == IF Cardinality(S) = 1 THEN CHOOSE kan \in S : TRUE ELSE None

\* evaluate_kan_decision: two eligible kans are as good as none.
KanChoice(p, mode, selected) ==
    TheOnly({kan \in p.kans : Eligible(p, mode, selected, kan)})

=============================================================================
