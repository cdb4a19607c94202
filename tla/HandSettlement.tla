--------------------------- MODULE HandSettlement ---------------------------
(***************************************************************************)
(* From the readings of a winning hand to the points that change hands     *)
(* (bot-logic/src/normal_score.rs, payment.rs, scoring_selection.rs,       *)
(* hand_value.rs, hand_settlement.rs).  One hand has several readings, some *)
(* of them limit hands (yakuman); the selector meets them one by one and   *)
(* keeps the best.  How many ura dora the hand has may be unknown.  The    *)
(* payment is then settled with the counters of the table, in the width of *)
(* u32.                                                                    *)
(*                                                                         *)
(* A reading is what its han and fu, or its multiplier, say of it.  They   *)
(* come in any order here; which one comes first only decides between      *)
(* readings that are worth the same.                                       *)
(***************************************************************************)
EXTENDS Integers

CONSTANTS
  NormalReadings,   \* the readings with han and fu that may occur
  Multipliers,      \* the multipliers of yakuman readings that may occur
  MaxUra,           \* most han of ura dora
  Counters,         \* values of the counters for honba and kyotaku
  MaxU32,           \* largest number of the payments' type
  None

FinalFu == {25} \cup {fu \in 20..250 : fu % 10 = 0}

ASSUME ReadingAssumption ==
  /\ NormalReadings \subseteq [yaku_han : Nat \ {0}, bonus : Nat, fu : FinalFu]
  /\ Multipliers \subseteq Nat \ {0}
  /\ MaxUra \in Nat /\ Counters \subseteq Nat
ASSUME WidthAssumption == MaxU32 \in Nat
ASSUME NoneAssumption == None \notin NormalReadings /\ None \notin Nat

------------------------------------------------------------------------------
(* Basic points (normal_score.rs) and payments (payment.rs). *)

\* fu * 2^(han + 2), cut off at mangan.
CalculatedBasicPoints(han, fu) ==
  LET points == fu * <<8, 16, 32, 64>>[han]
  IN  IF points > 2000 THEN 2000 ELSE points

\* Mutant: thirteen han and more are counted on.
Mutant_BasicPoints(han, fu) ==
  IF han <= 4 THEN CalculatedBasicPoints(han, fu)
  ELSE IF han = 5 THEN 2000
  ELSE IF han <= 7 THEN 3000
  ELSE IF han <= 10 THEN 4000
  ELSE IF han <= 12 THEN 6000
  ELSE 8000 + 1000 * (han - 13)

\* limit_by_han
BasicPoints(han, fu) ==
  IF han <= 4 THEN CalculatedBasicPoints(han, fu)
  ELSE IF han = 5 THEN 2000
  ELSE IF han <= 7 THEN 3000
  ELSE IF han <= 10 THEN 4000
  ELSE IF han <= 12 THEN 6000
  ELSE 8000

CeilToPaymentUnit(points) == ((points + 99) \div 100) * 100

\* What one payer pays, and whether that fits.
Share(basic, multiplier) == CeilToPaymentUnit(basic * multiplier)

\* A breakdown is 0 where the code has no such payer.
Breakdown(basic, dealer, tsumo) ==
  [ron             |-> IF tsumo THEN 0 ELSE Share(basic, IF dealer THEN 6 ELSE 4),
   from_dealer     |-> IF tsumo /\ ~dealer THEN Share(basic, 2) ELSE 0,
   from_non_dealer |-> IF ~tsumo THEN 0 ELSE Share(basic, IF dealer THEN 2 ELSE 1)]

\* How many pay as non-dealers.
NonDealers(dealer) == IF dealer THEN 3 ELSE 2

PaymentTotal(basic, dealer, tsumo) ==
  LET breakdown == Breakdown(basic, dealer, tsumo)
  IN  breakdown.ron + breakdown.from_dealer + NonDealers(dealer) * breakdown.from_non_dealer

\* evaluate_payment fails when a step does not fit; each step is at most the last.
PaymentFits(basic, dealer, tsumo) == PaymentTotal(basic, dealer, tsumo) <= MaxU32

------------------------------------------------------------------------------
(* The selection (scoring_selection.rs, hand_value.rs). *)

VARIABLES
  dealer, tsumo,      \* of the winner
  context,            \* what is known of it: "complete", "incomplete" or "no_seat"
  ura, ura_known,     \* han of ura dora, and whether they are known
  normals, yakumans,  \* readings to be considered
  all_normals, all_yakumans,  \* history: the readings of the hand
  best_normal, best_yakuman, unknown_normal,
  normal_error, yakuman_error,
  outcome,            \* None, or what evaluate_hand_value returns
  honba, kyotaku,     \* the counters of the table, None if unknown
  settlement          \* "pending", or what evaluate_hand_settlement returns

hand == <<dealer, tsumo, context, ura, ura_known, all_normals, all_yakumans, honba, kyotaku>>
selector == <<best_normal, best_yakuman, unknown_normal>>
errors == <<normal_error, yakuman_error>>
vars == <<hand, normals, yakumans, selector, errors, outcome, settlement>>

NormalBasic(reading, ura_han) ==
  BasicPoints(reading.yaku_han + reading.bonus + ura_han, reading.fu)
NormalTotal(reading, ura_han) == PaymentTotal(NormalBasic(reading, ura_han), dealer, tsumo)
YakumanBasic(multiplier) == 8000 * multiplier
YakumanTotal(multiplier) == PaymentTotal(YakumanBasic(multiplier), dealer, tsumo)

Init ==
  /\ dealer \in BOOLEAN /\ tsumo \in BOOLEAN
  /\ context \in {"complete", "incomplete", "no_seat"}
  /\ ura \in 0..MaxUra /\ ura_known \in BOOLEAN
  /\ all_normals \in SUBSET NormalReadings /\ all_yakumans \in SUBSET Multipliers
  /\ normals = all_normals /\ yakumans = all_yakumans
  /\ best_normal = None /\ best_yakuman = None /\ unknown_normal = FALSE
  /\ normal_error = "none" /\ yakuman_error = FALSE
  /\ outcome = None /\ settlement = "pending"
  /\ honba \in Counters \cup {None} /\ kyotaku \in Counters \cup {None}

\* normal_score_is_better
NormalIsBetter(reading, best) ==
  LET total == NormalTotal(reading, ura)
      best_total == NormalTotal(best, ura)
      han == reading.yaku_han + reading.bonus
      best_han == best.yaku_han + best.bonus
  IN  \/ total > best_total
      \/ total = best_total /\ han > best_han
      \/ total = best_total /\ han = best_han /\ reading.fu > best.fu

\* Scoring asks for a complete context before it reads anything.
NormalNeedsContext ==
  /\ normal_error = "none" /\ context # "complete"
  /\ normal_error' = "incomplete_context"
  /\ normals' = {}
  /\ UNCHANGED <<hand, yakumans, selector, yakuman_error, outcome, settlement>>

\* scoring_state and consider_normal.  The first error ends the enumeration.
ConsiderNormal(reading) ==
  /\ context = "complete" /\ reading \in normals
  /\ \/ /\ ~ura_known
        /\ unknown_normal' = TRUE
        /\ normals' = normals \ {reading}
        /\ UNCHANGED <<best_normal, normal_error>>
     \/ /\ ura_known /\ PaymentFits(NormalBasic(reading, ura), dealer, tsumo)
        /\ best_normal' =
             IF best_normal # None /\ ~NormalIsBetter(reading, best_normal)
             THEN best_normal ELSE reading
        /\ normals' = normals \ {reading}
        /\ UNCHANGED <<unknown_normal, normal_error>>
     \/ /\ ura_known /\ ~PaymentFits(NormalBasic(reading, ura), dealer, tsumo)
        /\ normal_error' = "payment"
        /\ normals' = {}
        /\ UNCHANGED <<best_normal, unknown_normal>>
  /\ UNCHANGED <<hand, yakumans, best_yakuman, yakuman_error, outcome, settlement>>

NormalsDone == normals = {} /\ (context # "complete" => normal_error # "none")

\* A yakuman needs the seat only.
YakumanNeedsSeat ==
  /\ NormalsDone /\ outcome = None
  /\ context = "no_seat" /\ ~yakuman_error
  /\ yakuman_error' = TRUE /\ yakumans' = {}
  /\ UNCHANGED <<hand, normals, selector, normal_error, outcome, settlement>>

\* consider_yakuman: the payment, then the multiplier, which is the same order.
ConsiderYakuman(multiplier) ==
  /\ NormalsDone /\ context # "no_seat" /\ multiplier \in yakumans
  /\ IF PaymentFits(YakumanBasic(multiplier), dealer, tsumo)
     THEN /\ best_yakuman' =
               IF /\ best_yakuman # None
                  /\ \/ YakumanTotal(multiplier) < YakumanTotal(best_yakuman)
                     \/ /\ YakumanTotal(multiplier) = YakumanTotal(best_yakuman)
                        /\ multiplier <= best_yakuman
               THEN best_yakuman ELSE multiplier
          /\ yakumans' = yakumans \ {multiplier}
          /\ UNCHANGED yakuman_error
     ELSE yakuman_error' = TRUE /\ yakumans' = {} /\ UNCHANGED best_yakuman
  /\ UNCHANGED <<hand, normals, best_normal, unknown_normal, normal_error, outcome, settlement>>

YakumansDone == yakumans = {} /\ (context = "no_seat" => yakuman_error)

Outcome(kind, basic) == [kind |-> kind, basic |-> basic]

\* ScoringSelector::finish
Selection(normal, unknown) ==
  IF /\ best_yakuman # None
     /\ normal # None => NormalTotal(normal, ura) <= YakumanTotal(best_yakuman)
  THEN Outcome("yakuman", YakumanBasic(best_yakuman))
  ELSE IF best_yakuman = None /\ unknown THEN Outcome("indeterminate", 0)
  ELSE IF normal # None THEN Outcome("normal", NormalBasic(normal, ura))
  ELSE Outcome("no_candidate", 0)

\* evaluate_hand_value: an incomplete context only matters without a yakuman.
Finish ==
  /\ NormalsDone /\ YakumansDone /\ outcome = None
  /\ outcome' =
       IF yakuman_error \/ normal_error = "payment"
          \/ (normal_error = "incomplete_context" /\ best_yakuman = None)
       THEN Outcome("error", 0)
       ELSE IF normal_error = "incomplete_context" THEN Selection(None, FALSE)
       ELSE Selection(best_normal, unknown_normal)
  /\ UNCHANGED <<hand, normals, yakumans, selector, errors, settlement>>

------------------------------------------------------------------------------
(* The settlement (hand_settlement.rs). *)

HonbaShare == honba * (IF tsumo THEN 100 ELSE 300)
HonbaTotal == HonbaShare * (IF tsumo THEN 3 ELSE 1)
Received(basic) == PaymentTotal(basic, dealer, tsumo) + HonbaTotal + kyotaku

\* Mutant: the sticks on the table are added without a check.
Mutant_SettlementFits(basic) ==
  HonbaTotal <= MaxU32 /\ PaymentTotal(basic, dealer, tsumo) + HonbaTotal <= MaxU32

\* The checked steps of settle; each is at most the last.
SettlementFits(basic) == Received(basic) <= MaxU32

Settle ==
  /\ outcome # None /\ settlement = "pending"
  /\ settlement' =
       IF outcome.kind \notin {"normal", "yakuman"} THEN "unknown_payment"
       ELSE IF honba = None \/ kyotaku = None THEN "incomplete_table_state"
       ELSE IF ~SettlementFits(outcome.basic) THEN "overflow"
       ELSE "settled"
  /\ UNCHANGED <<hand, normals, yakumans, selector, errors, outcome>>

\* settled_pay_ron, settled_pay_from_dealer, settled_pay_from_non_dealer: plain
\* additions of two numbers in the width of u32.
Wrapped(points) == IF points > MaxU32 THEN points - (MaxU32 + 1) ELSE points
SettledPayment == Breakdown(outcome.basic, dealer, tsumo)
SettledRon == IF tsumo THEN 0 ELSE Wrapped(SettledPayment.ron + HonbaShare)
SettledFromDealer ==
  IF tsumo /\ ~dealer THEN Wrapped(SettledPayment.from_dealer + HonbaShare) ELSE 0
SettledFromNonDealer ==
  IF tsumo THEN Wrapped(SettledPayment.from_non_dealer + HonbaShare) ELSE 0

------------------------------------------------------------------------------

Next ==
  \/ NormalNeedsContext
  \/ \E reading \in NormalReadings : ConsiderNormal(reading)
  \/ YakumanNeedsSeat
  \/ \E multiplier \in Multipliers : ConsiderYakuman(multiplier)
  \/ Finish
  \/ Settle

Spec == Init /\ [][Next]_vars

------------------------------------------------------------------------------
(* Properties. *)

\* A known value is the best of all readings for every number of ura dora the hand
\* could have: an unknown ura dora is passed over only where it cannot matter.
KnownValueIsBest ==
  outcome # None /\ outcome.kind \in {"normal", "yakuman"} =>
    LET total == PaymentTotal(outcome.basic, dealer, tsumo) IN
    /\ \A multiplier \in all_yakumans : YakumanTotal(multiplier) <= total
    /\ \A reading \in all_normals, possible \in 0..MaxUra :
         (ura_known => possible = ura) => NormalTotal(reading, possible) <= total

\* What is settled balances: the winner receives what the others pay and what lies
\* on the table, and none of the payers' amounts, which are added without a check,
\* wraps around.
SettlementBalances ==
  settlement = "settled" =>
    /\ Received(outcome.basic) =
         SettledRon + SettledFromDealer + NonDealers(dealer) * SettledFromNonDealer + kyotaku
    /\ Received(outcome.basic) <= MaxU32
==============================================================================
