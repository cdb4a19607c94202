----------------------- MODULE HandSettlementProofs -----------------------
(***************************************************************************)
(* For any readings, counters and width: a known value is the best there   *)
(* is, and what is settled balances.                                       *)
(***************************************************************************)
EXTENDS HandSettlement, TLAPS

------------------------------------------------------------------------------
(* Arithmetic of payments. *)

\* Rounding up to the payment unit keeps the order and never loses points.
LEMMA CeilIsMonotone ==
  ASSUME NEW a \in Nat, NEW b \in Nat, a <= b
  PROVE  /\ CeilToPaymentUnit(a) \in Nat
         /\ CeilToPaymentUnit(a) <= CeilToPaymentUnit(b)
<1>1. (a + 99) \div 100 \in Nat /\ (b + 99) \div 100 \in Nat
  OBVIOUS
<1>2. (a + 99) \div 100 <= (b + 99) \div 100
  OBVIOUS
<1>3. QED
  BY <1>1, <1>2 DEF CeilToPaymentUnit

\* What a payer pays grows with the basic points.
LEMMA ShareIsMonotone ==
  ASSUME NEW a \in Nat, NEW b \in Nat, a <= b, NEW m \in {1, 2, 4, 6}
  PROVE  Share(a, m) \in Nat /\ Share(b, m) \in Nat /\ Share(a, m) <= Share(b, m)
<1>1. a * m \in Nat /\ b * m \in Nat /\ a * m <= b * m
  OBVIOUS
<1>2. QED
  BY <1>1, CeilIsMonotone DEF Share

\* The total of a payment grows with the basic points.
LEMMA TotalIsMonotone ==
  ASSUME NEW a \in Nat, NEW b \in Nat, a <= b, NEW d \in BOOLEAN, NEW t \in BOOLEAN
  PROVE  /\ PaymentTotal(a, d, t) \in Nat
         /\ PaymentTotal(a, d, t) <= PaymentTotal(b, d, t)
<1>1. \A m \in {1, 2, 4, 6} :
        Share(a, m) \in Nat /\ Share(b, m) \in Nat /\ Share(a, m) <= Share(b, m)
  BY ShareIsMonotone
<1>2. CASE t /\ d
  BY <1>1, <1>2 DEF PaymentTotal, Breakdown, NonDealers
<1>3. CASE t /\ ~d
  BY <1>1, <1>3 DEF PaymentTotal, Breakdown, NonDealers
<1>4. CASE ~t
  BY <1>1, <1>4 DEF PaymentTotal, Breakdown, NonDealers
<1>5. QED
  BY <1>2, <1>3, <1>4

\* No reading with han and fu has more basic points than a yakuman.
LEMMA BasicPointsBound ==
  ASSUME NEW han \in Nat \ {0}, NEW fu \in FinalFu
  PROVE  BasicPoints(han, fu) \in Nat /\ BasicPoints(han, fu) <= 8000
<1>1. fu \in Nat
  BY DEF FinalFu
<1>2. CASE han > 4
  BY <1>2 DEF BasicPoints
<1>3. CASE han <= 4
  <2>1. <<8, 16, 32, 64>>[han] \in {8, 16, 32, 64}
    BY <1>3
  <2>2. fu * <<8, 16, 32, 64>>[han] \in Nat
    BY <1>1, <2>1
  <2>3. CalculatedBasicPoints(han, fu) \in Nat /\ CalculatedBasicPoints(han, fu) <= 2000
    BY <2>2 DEF CalculatedBasicPoints
  <2>4. QED
    BY <1>3, <2>3 DEF BasicPoints
<1>4. QED
  BY <1>2, <1>3

\* The basic points of a reading, whatever its ura dora.
LEMMA NormalBasicBound ==
  ASSUME NEW reading \in NormalReadings, NEW han \in Nat
  PROVE  NormalBasic(reading, han) \in Nat /\ NormalBasic(reading, han) <= 8000
<1>1. reading.yaku_han \in Nat \ {0} /\ reading.bonus \in Nat /\ reading.fu \in FinalFu
  BY ReadingAssumption
<1>2. reading.yaku_han + reading.bonus + han \in Nat \ {0}
  BY <1>1
<1>3. QED
  BY <1>1, <1>2, BasicPointsBound DEF NormalBasic

\* A yakuman is worth at least as much as any other reading: an unknown ura dora
\* cannot change that.
LEMMA YakumanDominates ==
  ASSUME NEW reading \in NormalReadings, NEW han \in Nat, NEW m \in Multipliers,
         dealer \in BOOLEAN, tsumo \in BOOLEAN
  PROVE  NormalTotal(reading, han) <= YakumanTotal(m)
<1>1. NormalBasic(reading, han) \in Nat /\ NormalBasic(reading, han) <= 8000
  BY NormalBasicBound
<1>2. m \in Nat \ {0}
  BY ReadingAssumption
<1>3. YakumanBasic(m) \in Nat /\ 8000 <= YakumanBasic(m)
  BY <1>2 DEF YakumanBasic
<1>4. NormalBasic(reading, han) <= YakumanBasic(m)
  BY <1>1, <1>3
<1>5. QED
  BY <1>1, <1>3, <1>4, TotalIsMonotone DEF NormalTotal, YakumanTotal

------------------------------------------------------------------------------
(* The inductive invariant. *)

ValueKinds == {"normal", "yakuman"}

TypeOK ==
  /\ dealer \in BOOLEAN /\ tsumo \in BOOLEAN
  /\ ura \in 0..MaxUra /\ ura_known \in BOOLEAN
  /\ all_normals \subseteq NormalReadings /\ all_yakumans \subseteq Multipliers
  /\ normals \subseteq all_normals /\ yakumans \subseteq all_yakumans
  /\ best_normal \in all_normals \cup {None}
  /\ best_yakuman \in all_yakumans \cup {None}
  /\ honba \in Counters \cup {None} /\ kyotaku \in Counters \cup {None}

\* What was considered is not better than what was kept, or made the value unknown.
\* After an incomplete context nothing was considered.
NormalsJudged ==
  /\ best_normal # None => ura_known
  /\ normal_error = "none" =>
       \A reading \in all_normals \ normals :
         IF ura_known
         THEN best_normal # None /\ NormalTotal(reading, ura) <= NormalTotal(best_normal, ura)
         ELSE unknown_normal = TRUE
YakumansJudged ==
  ~yakuman_error =>
    \A multiplier \in all_yakumans \ yakumans :
      best_yakuman # None /\ YakumanTotal(multiplier) <= YakumanTotal(best_yakuman)
ErrorsAreNamed == normal_error \in {"none", "incomplete_context", "payment"}

OutcomeOK ==
  outcome # None /\ outcome.kind \in ValueKinds => outcome.basic \in Nat

SettledWasChecked ==
  settlement = "settled" =>
    /\ outcome # None /\ outcome.kind \in ValueKinds
    /\ honba # None /\ kyotaku # None
    /\ SettlementFits(outcome.basic)

IInv ==
  /\ TypeOK /\ NormalsJudged /\ YakumansJudged /\ ErrorsAreNamed
  /\ OutcomeOK /\ SettledWasChecked /\ KnownValueIsBest

\* The invariant holds initially.
LEMMA InitIsSound == Init => IInv
<1> SUFFICES ASSUME Init PROVE IInv
  OBVIOUS
<1>1. TypeOK
  BY DEF Init, TypeOK
<1>2. NormalsJudged /\ YakumansJudged
  BY DEF Init, NormalsJudged, YakumansJudged
<1>3. ErrorsAreNamed
  BY DEF Init, ErrorsAreNamed
<1>4. OutcomeOK /\ SettledWasChecked /\ KnownValueIsBest
  BY DEF Init, OutcomeOK, SettledWasChecked, KnownValueIsBest
<1>5. QED
  BY <1>1, <1>2, <1>3, <1>4 DEF IInv

\* Totals of readings are numbers.
LEMMA NormalTotalIsNat ==
  ASSUME IInv, NEW reading \in NormalReadings, NEW han \in Nat
  PROVE  NormalTotal(reading, han) \in Nat
<1>1. NormalBasic(reading, han) \in Nat /\ dealer \in BOOLEAN /\ tsumo \in BOOLEAN
  BY NormalBasicBound DEF IInv, TypeOK
<1>2. NormalBasic(reading, han) <= NormalBasic(reading, han)
  BY <1>1
<1>3. QED
  BY <1>1, <1>2, TotalIsMonotone DEF NormalTotal

\* What a yakuman pays, whatever its multiple, is a natural number.
LEMMA YakumanTotalIsNat ==
  ASSUME IInv, NEW m \in Multipliers
  PROVE  YakumanTotal(m) \in Nat
<1>1. YakumanBasic(m) \in Nat /\ dealer \in BOOLEAN /\ tsumo \in BOOLEAN
  BY ReadingAssumption DEF IInv, TypeOK, YakumanBasic
<1>2. YakumanBasic(m) <= YakumanBasic(m)
  BY <1>1
<1>3. QED
  BY <1>1, <1>2, TotalIsMonotone DEF YakumanTotal

\* The comparison of readings orders them by their payment first.
LEMMA KeptIsNotWorse ==
  ASSUME IInv, NEW reading \in NormalReadings, NEW best \in NormalReadings
  PROVE  /\ NormalIsBetter(reading, best) => NormalTotal(best, ura) <= NormalTotal(reading, ura)
         /\ ~NormalIsBetter(reading, best) => NormalTotal(reading, ura) <= NormalTotal(best, ura)
<1>1. ura \in Nat
  BY ReadingAssumption DEF IInv, TypeOK
<1>2. NormalTotal(reading, ura) \in Nat /\ NormalTotal(best, ura) \in Nat
  BY <1>1, NormalTotalIsNat
<1>3. QED
  BY <1>2 DEF NormalIsBetter

\* Every step keeps the types.
LEMMA TypesAreKept == IInv /\ [Next]_vars => TypeOK'
<1> SUFFICES ASSUME IInv, [Next]_vars PROVE TypeOK'
  OBVIOUS
<1> USE DEF IInv, TypeOK, hand, selector, errors
<1>1. CASE NormalNeedsContext
  BY <1>1 DEF NormalNeedsContext
<1>2. ASSUME NEW reading \in NormalReadings, ConsiderNormal(reading)
      PROVE  TypeOK'
  BY <1>2 DEF ConsiderNormal
<1>3. CASE YakumanNeedsSeat
  BY <1>3 DEF YakumanNeedsSeat
<1>4. ASSUME NEW multiplier \in Multipliers, ConsiderYakuman(multiplier)
      PROVE  TypeOK'
  BY <1>4 DEF ConsiderYakuman
<1>5. CASE Finish
  BY <1>5 DEF Finish
<1>6. CASE Settle
  BY <1>6 DEF Settle
<1>7. CASE UNCHANGED vars
  BY <1>7 DEF vars
<1>8. QED
  BY <1>1, <1>2, <1>3, <1>4, <1>5, <1>6, <1>7 DEF Next

\* What was kept stays at least as good as what was considered.
LEMMA NormalsStayJudged == IInv /\ [Next]_vars => NormalsJudged'
<1> SUFFICES ASSUME IInv, [Next]_vars PROVE NormalsJudged'
  OBVIOUS
<1> USE DEF hand, selector, errors
<1>1. CASE NormalNeedsContext
  BY <1>1 DEF NormalNeedsContext, IInv, NormalsJudged
<1>2. ASSUME NEW reading \in NormalReadings, ConsiderNormal(reading)
      PROVE  NormalsJudged'
  <2>1. reading \in normals /\ normals \subseteq all_normals /\ all_normals \subseteq NormalReadings
    BY <1>2 DEF ConsiderNormal, IInv, TypeOK
  <2>2. dealer' = dealer /\ tsumo' = tsumo /\ ura' = ura /\ ura_known' = ura_known
        /\ all_normals' = all_normals
    BY <1>2 DEF ConsiderNormal
  <2>0. ura \in Nat
    BY ReadingAssumption DEF IInv, TypeOK
  <2>3. CASE ~ura_known
    BY <1>2, <2>1, <2>2, <2>3 DEF ConsiderNormal, IInv, NormalsJudged, NormalTotal
  <2>4. CASE ura_known /\ normal_error' # "none"
    BY <1>2, <2>2, <2>4 DEF ConsiderNormal, IInv, NormalsJudged
  <2>5. CASE ura_known /\ normal_error' = "none"
    <3>1. normals' = normals \ {reading} /\ normal_error = "none"
          /\ best_normal' = IF best_normal # None /\ ~NormalIsBetter(reading, best_normal)
                            THEN best_normal ELSE reading
      BY <1>2, <2>5 DEF ConsiderNormal
    <3>2. best_normal' \in NormalReadings /\ best_normal' # None
      BY <2>1, <3>1, NoneAssumption DEF IInv, TypeOK
    <3>3. NormalTotal(reading, ura) <= NormalTotal(best_normal', ura)
      <4>1. CASE best_normal # None /\ ~NormalIsBetter(reading, best_normal)
        BY <3>1, <3>2, <4>1, KeptIsNotWorse
      <4>2. CASE ~(best_normal # None /\ ~NormalIsBetter(reading, best_normal))
        <5>1. best_normal' = reading
          BY <3>1, <4>2
        <5>2. NormalTotal(reading, ura) \in Nat
          BY <2>0, NormalTotalIsNat
        <5>3. QED
          BY <5>1, <5>2
      <4>3. QED
        BY <4>1, <4>2
    <3>4. ASSUME NEW other \in all_normals \ normals
          PROVE  NormalTotal(other, ura) <= NormalTotal(best_normal', ura)
      <4>1. best_normal # None /\ NormalTotal(other, ura) <= NormalTotal(best_normal, ura)
        BY <2>5, <3>1 DEF IInv, NormalsJudged
      <4>2. best_normal \in NormalReadings
        BY <4>1, <2>1 DEF IInv, TypeOK
      <4>3. NormalTotal(best_normal, ura) <= NormalTotal(best_normal', ura)
        <5>1. CASE ~NormalIsBetter(reading, best_normal)
          <6>1. NormalTotal(best_normal, ura) \in Nat
            BY <2>0, <4>2, NormalTotalIsNat
          <6>2. QED
            BY <3>1, <4>1, <5>1, <6>1
        <5>2. CASE NormalIsBetter(reading, best_normal)
          BY <3>1, <4>1, <4>2, <5>2, KeptIsNotWorse
        <5>3. QED
          BY <5>1, <5>2
      <4>4. NormalTotal(other, ura) \in Nat /\ NormalTotal(best_normal, ura) \in Nat
            /\ NormalTotal(best_normal', ura) \in Nat
        BY <2>0, <2>1, <3>2, <4>2, NormalTotalIsNat
      <4>5. QED
        BY <4>1, <4>3, <4>4
    <3>5. \A r \in all_normals \ normals' : NormalTotal(r, ura) <= NormalTotal(best_normal', ura)
      BY <3>1, <3>3, <3>4
    <3>6. QED
      BY <2>2, <2>5, <3>2, <3>5 DEF NormalsJudged, NormalTotal
  <2>6. QED
    BY <2>3, <2>4, <2>5
<1>3. CASE YakumanNeedsSeat
  BY <1>3 DEF YakumanNeedsSeat, IInv, NormalsJudged, NormalTotal
<1>4. ASSUME NEW multiplier \in Multipliers, ConsiderYakuman(multiplier)
      PROVE  NormalsJudged'
  BY <1>4 DEF ConsiderYakuman, IInv, NormalsJudged, NormalTotal
<1>5. CASE Finish
  BY <1>5 DEF Finish, IInv, NormalsJudged, NormalTotal
<1>6. CASE Settle
  BY <1>6 DEF Settle, IInv, NormalsJudged, NormalTotal
<1>7. CASE UNCHANGED vars
  BY <1>7 DEF vars, IInv, NormalsJudged, NormalTotal
<1>8. QED
  BY <1>1, <1>2, <1>3, <1>4, <1>5, <1>6, <1>7 DEF Next

\* The yakuman that was kept pays at least as much as those considered.
LEMMA YakumansStayJudged == IInv /\ [Next]_vars => YakumansJudged'
<1> SUFFICES ASSUME IInv, [Next]_vars PROVE YakumansJudged'
  OBVIOUS
<1> USE DEF hand, selector, errors
<1>1. CASE NormalNeedsContext
  BY <1>1 DEF NormalNeedsContext, IInv, YakumansJudged, YakumanTotal
<1>2. ASSUME NEW reading \in NormalReadings, ConsiderNormal(reading)
      PROVE  YakumansJudged'
  BY <1>2 DEF ConsiderNormal, IInv, YakumansJudged, YakumanTotal
<1>3. CASE YakumanNeedsSeat
  BY <1>3 DEF YakumanNeedsSeat, IInv, YakumansJudged
<1>4. ASSUME NEW multiplier \in Multipliers, ConsiderYakuman(multiplier)
      PROVE  YakumansJudged'
  <2>1. dealer' = dealer /\ tsumo' = tsumo /\ all_yakumans' = all_yakumans
    BY <1>4 DEF ConsiderYakuman
  <2>2. CASE ~PaymentFits(YakumanBasic(multiplier), dealer, tsumo)
    BY <1>4, <2>2 DEF ConsiderYakuman, YakumansJudged
  <2>3. CASE PaymentFits(YakumanBasic(multiplier), dealer, tsumo)
    <3>1. /\ yakumans' = yakumans \ {multiplier} /\ yakuman_error' = yakuman_error
          /\ best_yakuman' \in {best_yakuman, multiplier}
          /\ best_yakuman = None => best_yakuman' = multiplier
          /\ best_yakuman # None /\ best_yakuman' = best_yakuman =>
               \/ multiplier = best_yakuman
               \/ YakumanTotal(multiplier) < YakumanTotal(best_yakuman)
               \/ YakumanTotal(multiplier) = YakumanTotal(best_yakuman)
          /\ best_yakuman # None /\ best_yakuman' # best_yakuman =>
               ~(YakumanTotal(multiplier) < YakumanTotal(best_yakuman))
      BY <1>4, <2>3 DEF ConsiderYakuman
    <3>2. multiplier \in Multipliers /\ multiplier # None
      BY NoneAssumption, ReadingAssumption
    <3>3. all_yakumans \subseteq Multipliers /\ best_yakuman \in all_yakumans \cup {None}
      BY DEF IInv, TypeOK
    <3>4. \A m \in Multipliers : YakumanTotal(m) \in Nat
      BY YakumanTotalIsNat
    <3>5. best_yakuman' # None /\ YakumanTotal(multiplier) <= YakumanTotal(best_yakuman')
      BY <3>1, <3>2, <3>3, <3>4
    <3>6. ~yakuman_error =>
            \A m \in all_yakumans \ yakumans : YakumanTotal(m) <= YakumanTotal(best_yakuman')
      BY <3>1, <3>2, <3>3, <3>4 DEF IInv, YakumansJudged
    <3>7. QED
      BY <2>1, <3>1, <3>5, <3>6 DEF YakumansJudged, YakumanTotal
  <2>4. QED
    BY <2>2, <2>3
<1>5. CASE Finish
  BY <1>5 DEF Finish, IInv, YakumansJudged, YakumanTotal
<1>6. CASE Settle
  BY <1>6 DEF Settle, IInv, YakumansJudged, YakumanTotal
<1>7. CASE UNCHANGED vars
  BY <1>7 DEF vars, IInv, YakumansJudged, YakumanTotal
<1>8. QED
  BY <1>1, <1>2, <1>3, <1>4, <1>5, <1>6, <1>7 DEF Next

\* The errors that a step may report.
LEMMA ErrorsStayNamed == IInv /\ [Next]_vars => ErrorsAreNamed'
  BY DEF IInv, ErrorsAreNamed, Next, vars, errors, NormalNeedsContext, ConsiderNormal,
     YakumanNeedsSeat, ConsiderYakuman, Finish, Settle

------------------------------------------------------------------------------
(* The end of the selection. *)

\* A step that reports no value leaves the one there is alone.
LEMMA OutcomeIsFinal ==
  ASSUME IInv, [Next]_vars, ~Finish
  PROVE  /\ outcome' = outcome /\ dealer' = dealer /\ tsumo' = tsumo
         /\ ura' = ura /\ ura_known' = ura_known
         /\ all_normals' = all_normals /\ all_yakumans' = all_yakumans
         /\ honba' = honba /\ kyotaku' = kyotaku
  BY DEF Next, vars, hand, NormalNeedsContext, ConsiderNormal, YakumanNeedsSeat,
     ConsiderYakuman, Settle

\* Finish reports the best reading, or none.
LEMMA FinishKnowsTheBest ==
  ASSUME IInv, Finish
  PROVE  OutcomeOK' /\ KnownValueIsBest'
<1> DEFINE Kept == IF normal_error = "incomplete_context" THEN None ELSE best_normal
<1>1. /\ dealer' = dealer /\ tsumo' = tsumo /\ ura' = ura /\ ura_known' = ura_known
      /\ all_normals' = all_normals /\ all_yakumans' = all_yakumans
  BY DEF Finish, hand
<1>2. ura \in Nat /\ all_normals \subseteq NormalReadings /\ all_yakumans \subseteq Multipliers
      /\ 0..MaxUra \subseteq Nat
  BY ReadingAssumption DEF IInv, TypeOK
<1>3. \A m \in Multipliers : YakumanTotal(m) \in Nat /\ YakumanBasic(m) \in Nat
  BY YakumanTotalIsNat, ReadingAssumption DEF YakumanBasic
<1>4. \A r \in NormalReadings : NormalTotal(r, ura) \in Nat /\ NormalBasic(r, ura) \in Nat
  BY <1>2, NormalTotalIsNat, NormalBasicBound
<1>5. \A r \in NormalReadings, m \in Multipliers, possible \in 0..MaxUra :
        NormalTotal(r, possible) <= YakumanTotal(m)
  BY <1>2, YakumanDominates DEF IInv, TypeOK
<1>6. CASE outcome' # None /\ outcome'.kind \in ValueKinds
  <2>1. /\ ~yakuman_error /\ normal_error # "payment"
        /\ normal_error = "incomplete_context" => best_yakuman # None
        /\ normals = {} /\ yakumans = {}
    BY <1>6 DEF Finish, Outcome, ValueKinds, NormalsDone, YakumansDone
  <2> PICK unknown : outcome' = Selection(Kept, unknown)
    <3>1. CASE normal_error = "incomplete_context"
      BY <2>1, <3>1 DEF Finish
    <3>2. CASE normal_error # "incomplete_context"
      BY <2>1, <3>2 DEF Finish
    <3>3. QED
      BY <3>1, <3>2
  <2>2. \A m \in all_yakumans :
          best_yakuman # None /\ YakumanTotal(m) <= YakumanTotal(best_yakuman)
    BY <2>1 DEF IInv, YakumansJudged
  <2>3. Kept # None => Kept \in NormalReadings /\ ura_known
    BY <1>2 DEF IInv, TypeOK, NormalsJudged
  <2>4. CASE outcome'.kind = "yakuman"
    <3>1. best_yakuman # None /\ outcome' = Outcome("yakuman", YakumanBasic(best_yakuman))
      BY <2>1, <2>4 DEF Selection, Outcome
    <3>2. best_yakuman \in Multipliers
      BY <1>2, <3>1 DEF IInv, TypeOK
    <3>3. PaymentTotal(outcome'.basic, dealer, tsumo) = YakumanTotal(best_yakuman)
      BY <3>1 DEF Outcome, YakumanTotal
    <3>4. QED
      BY <1>1, <1>2, <1>3, <1>5, <2>2, <3>1, <3>2, <3>3
      DEF OutcomeOK, KnownValueIsBest, Outcome, YakumanTotal, NormalTotal
  <2>5. CASE outcome'.kind = "normal"
    <3>1. /\ Kept # None /\ outcome' = Outcome("normal", NormalBasic(Kept, ura))
          /\ best_yakuman # None => ~(NormalTotal(Kept, ura) <= YakumanTotal(best_yakuman))
      BY <2>1, <2>5 DEF Selection, Outcome
    <3>2. Kept = best_normal /\ normal_error = "none" /\ Kept \in NormalReadings /\ ura_known
      BY <2>1, <2>3, <3>1 DEF IInv, ErrorsAreNamed
    <3>3. PaymentTotal(outcome'.basic, dealer, tsumo) = NormalTotal(Kept, ura)
      BY <3>1 DEF Outcome, NormalTotal
    <3>4. \A r \in all_normals : NormalTotal(r, ura) <= NormalTotal(Kept, ura)
      BY <2>1, <3>2 DEF IInv, NormalsJudged
    <3>5. \A m \in all_yakumans : YakumanTotal(m) <= NormalTotal(Kept, ura)
      BY <1>2, <1>3, <1>4, <2>2, <3>1, <3>2 DEF IInv, TypeOK
    <3>6. QED
      BY <1>1, <1>2, <1>4, <3>1, <3>2, <3>3, <3>4, <3>5
      DEF OutcomeOK, KnownValueIsBest, Outcome, YakumanTotal, NormalTotal
  <2>6. QED
    BY <1>6, <2>4, <2>5 DEF ValueKinds
<1>7. CASE ~(outcome' # None /\ outcome'.kind \in ValueKinds)
  BY <1>7 DEF OutcomeOK, KnownValueIsBest, ValueKinds
<1>8. QED
  BY <1>6, <1>7

\* The value that was reported stays the best, since the hand does not change.
LEMMA ValueStaysBest == IInv /\ [Next]_vars => OutcomeOK' /\ KnownValueIsBest'
<1> SUFFICES ASSUME IInv, [Next]_vars PROVE OutcomeOK' /\ KnownValueIsBest'
  OBVIOUS
<1>1. CASE Finish
  BY <1>1, FinishKnowsTheBest
<1>2. CASE ~Finish
  BY <1>2, OutcomeIsFinal DEF IInv, OutcomeOK, KnownValueIsBest, YakumanTotal, NormalTotal
<1>3. QED
  BY <1>1, <1>2

\* Only what fits is settled, and it is not touched afterwards.
LEMMA SettledStaysChecked == IInv /\ [Next]_vars => SettledWasChecked'
<1> SUFFICES ASSUME IInv, [Next]_vars PROVE SettledWasChecked'
  OBVIOUS
<1>1. CASE Finish
  BY <1>1 DEF Finish, IInv, SettledWasChecked
<1>2. CASE Settle
  <2>1. honba' = honba /\ kyotaku' = kyotaku /\ dealer' = dealer /\ tsumo' = tsumo
        /\ outcome' = outcome /\ outcome # None
    BY <1>2 DEF Settle, hand
  <2>2. settlement' = "settled" =>
          /\ outcome.kind \in ValueKinds /\ honba # None /\ kyotaku # None
          /\ SettlementFits(outcome.basic)
    BY <1>2 DEF Settle, ValueKinds
  <2>3. QED
    BY <2>1, <2>2 DEF SettledWasChecked, SettlementFits, Received, HonbaTotal, HonbaShare
<1>3. CASE ~Finish /\ ~Settle
  <2>1. settlement' = settlement
    BY <1>3 DEF Next, vars, NormalNeedsContext, ConsiderNormal, YakumanNeedsSeat, ConsiderYakuman
  <2>2. QED
    BY <1>3, <2>1, OutcomeIsFinal
    DEF IInv, SettledWasChecked, SettlementFits, Received, HonbaTotal, HonbaShare
<1>4. QED
  BY <1>1, <1>2, <1>3

\* The invariant is inductive.
LEMMA InvariantIsInductive == IInv /\ [Next]_vars => IInv'
  BY TypesAreKept, NormalsStayJudged, YakumansStayJudged, ErrorsStayNamed, ValueStaysBest,
     SettledStaysChecked DEF IInv

\* The invariant holds in every state.
THEOREM SelectionIsSound == Spec => []IInv
<1>1. Init => IInv
  BY InitIsSound
<1>2. IInv /\ [Next]_vars => IInv'
  BY InvariantIsInductive
<1>3. QED
  BY <1>1, <1>2, PTL DEF Spec

\* The value of a hand is the best of its readings for every number of ura dora it
\* could have, whatever the order in which they are met and whichever are unknown.
THEOREM BestValue == Spec => []KnownValueIsBest
<1>1. IInv => KnownValueIsBest
  BY DEF IInv
<1>2. QED
  BY <1>1, SelectionIsSound, PTL

------------------------------------------------------------------------------
(* The settlement. *)

\* An amount that is no more than what the winner receives does not wrap around, and
\* the amounts add up to what the winner receives.
LEMMA CheckedTotalBalances == IInv => SettlementBalances
<1> SUFFICES ASSUME IInv, settlement = "settled"
             PROVE  /\ Received(outcome.basic) =
                          SettledRon + SettledFromDealer
                          + NonDealers(dealer) * SettledFromNonDealer + kyotaku
                    /\ Received(outcome.basic) <= MaxU32
  BY DEF SettlementBalances
<1>1. /\ outcome.basic \in Nat /\ honba \in Nat /\ kyotaku \in Nat
      /\ dealer \in BOOLEAN /\ tsumo \in BOOLEAN /\ MaxU32 \in Nat
      /\ SettlementFits(outcome.basic)
  BY ReadingAssumption, WidthAssumption DEF IInv, TypeOK, OutcomeOK, SettledWasChecked
<1> DEFINE share(m) == Share(outcome.basic, m)
<1>2. \A m \in {1, 2, 4, 6} : share(m) \in Nat
  <2>1. outcome.basic <= outcome.basic
    BY <1>1
  <2>2. QED
    BY <1>1, <2>1, ShareIsMonotone
<1>3. HonbaShare \in Nat
  BY <1>1 DEF HonbaShare
<1> HIDE DEF share
<1> DEFINE times == IF tsumo THEN 3 ELSE 1
<1>8. HonbaTotal = HonbaShare * times
  BY DEF HonbaTotal
<1>9. HonbaTotal \in Nat /\ HonbaTotal = IF tsumo THEN 3 * HonbaShare ELSE HonbaShare
  <2>1. CASE tsumo
    <3>1. times = 3
      BY <2>1
    <3>2. QED
      BY <1>3, <1>8, <2>1, <3>1
  <2>2. CASE ~tsumo
    <3>1. times = 1
      BY <2>2
    <3>2. QED
      BY <1>3, <1>8, <2>2, <3>1
  <2>3. QED
    BY <2>1, <2>2
<1>4. CASE tsumo /\ dealer
  <2>1. PaymentTotal(outcome.basic, dealer, tsumo) = 3 * share(2)
    BY <1>2, <1>4 DEF PaymentTotal, Breakdown, NonDealers, share
  <2>2. 3 * share(2) + 3 * HonbaShare + kyotaku <= MaxU32
    BY <1>1, <1>2, <1>3, <1>4, <1>9, <2>1 DEF SettlementFits, Received
  <2>3. share(2) + HonbaShare <= MaxU32
    BY <1>1, <1>2, <1>3, <2>2
  <2>4. SettledRon = 0 /\ SettledFromDealer = 0
        /\ SettledFromNonDealer = share(2) + HonbaShare /\ NonDealers(dealer) = 3
    BY <1>4, <2>3, <1>1, <1>2, <1>3
    DEF SettledRon, SettledFromDealer, SettledFromNonDealer, SettledPayment, Wrapped,
        Breakdown, NonDealers, share
  <2>5. Received(outcome.basic) = 3 * share(2) + 3 * HonbaShare + kyotaku
    BY <1>3, <1>4, <1>1, <1>2, <1>9, <2>1 DEF Received
  <2>6. QED
    BY <1>1, <1>2, <1>3, <2>2, <2>4, <2>5
<1>5. CASE tsumo /\ ~dealer
  <2>1. PaymentTotal(outcome.basic, dealer, tsumo) = share(2) + 2 * share(1)
    BY <1>2, <1>5 DEF PaymentTotal, Breakdown, NonDealers, share
  <2>2. share(2) + 2 * share(1) + 3 * HonbaShare + kyotaku <= MaxU32
    BY <1>1, <1>2, <1>3, <1>5, <1>9, <2>1 DEF SettlementFits, Received
  <2>3. share(2) + HonbaShare <= MaxU32 /\ share(1) + HonbaShare <= MaxU32
    BY <1>1, <1>2, <1>3, <2>2
  <2>4. SettledRon = 0 /\ SettledFromDealer = share(2) + HonbaShare
        /\ SettledFromNonDealer = share(1) + HonbaShare /\ NonDealers(dealer) = 2
    BY <1>5, <2>3, <1>1, <1>2, <1>3
    DEF SettledRon, SettledFromDealer, SettledFromNonDealer, SettledPayment, Wrapped,
        Breakdown, NonDealers, share
  <2>5. Received(outcome.basic) = share(2) + 2 * share(1) + 3 * HonbaShare + kyotaku
    BY <1>3, <1>5, <1>1, <1>2, <1>9, <2>1 DEF Received
  <2>6. QED
    BY <1>1, <1>2, <1>3, <2>2, <2>4, <2>5
<1>6. CASE ~tsumo
  <2>1. PICK m \in {4, 6} : m = IF dealer THEN 6 ELSE 4
    OBVIOUS
  <2>2. PaymentTotal(outcome.basic, dealer, tsumo) = share(m)
    BY <1>2, <1>6, <2>1 DEF PaymentTotal, Breakdown, NonDealers, share
  <2>3. share(m) + HonbaShare + kyotaku <= MaxU32
    BY <1>1, <1>2, <1>3, <1>6, <1>9, <2>2 DEF SettlementFits, Received
  <2>4. SettledRon = share(m) + HonbaShare /\ SettledFromDealer = 0
        /\ SettledFromNonDealer = 0 /\ NonDealers(dealer) \in Nat
    BY <1>6, <2>1, <2>3, <1>1, <1>2, <1>3
    DEF SettledRon, SettledFromDealer, SettledFromNonDealer, SettledPayment, Wrapped,
        Breakdown, NonDealers, share
  <2>5. Received(outcome.basic) = share(m) + HonbaShare + kyotaku
    BY <1>3, <1>6, <1>1, <1>2, <1>9, <2>2 DEF Received
  <2>6. QED
    BY <1>1, <1>2, <1>3, <2>3, <2>4, <2>5
<1>7. QED
  BY <1>1, <1>4, <1>5, <1>6

\* For every value of a hand and of the counters: the settlement balances, and the
\* unchecked additions of the payers' amounts stay within the width.
THEOREM SettlementIsBalanced == Spec => []SettlementBalances
<1>1. IInv => SettlementBalances
  BY CheckedTotalBalances
<1>2. QED
  BY <1>1, SelectionIsSound, PTL
=============================================================================
