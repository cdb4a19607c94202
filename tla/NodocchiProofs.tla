---------------------------- MODULE NodocchiProofs ----------------------------
(***************************************************************************)
(* NodocchiAgent.  For every set of positions: folding early gives the     *)
(* verdict of the full selection, and diagnose() the decision of act().    *)
(* For every set of tables at which calls are offered: what each call      *)
(* comes to does not depend on the results it shares nor on the thread     *)
(* beside it, passing is evaluated once, and the call that is made is      *)
(* justified and the best.  The agent that makes it would make it again    *)
(* when asked for diagnostics, and plays on from one shanten.  For every   *)
(* view of the table: the discard of a fold is the safest there is.        *)
(***************************************************************************)
EXTENDS NodocchiDefence, FiniteSetTheorems, WellFoundedInduction, TLAPS

(***************************************************************************)
(* A decision without calls.                                               *)
(***************************************************************************)

Positions == PlainPositions \cup KanPositions \cup FacingPositions

LEMMA PositionsAreSo == \A p \in Positions : IsPosition(p)
  BY PositionAssumption DEF Positions

\* What is known of the threats, of the value of the hand and of the defences.
Judged(p) ==
    /\ {"reachers", "dealer_reacher", "open_hands", "safe"} \subseteq DOMAIN p
    /\ p.reachers \in 0 .. 3 /\ p.dealer_reacher \in BOOLEAN /\ p.open_hands \in OpenHands
    /\ p.total \in Nat \cup {None} /\ p.value \in Nat \cup {None}
    /\ \A family \in Families : p.defence[family] \in TileTypes \cup {None}

LEMMA PositionsAreJudged == \A p : IsPosition(p) => Judged(p)
  BY DEF IsPosition, Judged

\* What is known of the discards that can be evaluated.
Evaluates(p) ==
    /\ Discards(p) \subseteq TileTypes
    /\ \A tile \in Discards(p) : p.shanten[tile] \in Int
    /\ Selects(p)

LEMMA PositionsEvaluate == \A p : IsPosition(p) => Evaluates(p)
  BY DEF IsPosition, Evaluates

(***************************************************************************)
(* A verdict given early is the one of every discard of the cohort: two or *)
(* more shanten leave a single exception, which the early fold rules out.  *)
(***************************************************************************)
LEMMA EarlyVerdict ==
    ASSUME NEW p, Evaluates(p), EarlyFold(p) # None, NEW tile \in Cohort(p)
    PROVE  /\ DecidePushPull(p, tile) = EarlyFold(p)
           /\ EarlyFold(p).mode = "Fold"
<1>1. /\ HasClearThreat(p)
      /\ \A t \in Discards(p) : p.shanten[t] >= 2
      /\ ~ (OnlyOpenHands(p) /\ p.shanten[tile] = 2 /\ HardSafe(p, tile))
      /\ EarlyFold(p) = Verdict("Fold", "two_or_more_shanten")
  BY DEF EarlyFold
<1>2. tile \in Discards(p) /\ tile # None
  BY NoneAssumption DEF Evaluates, Cohort
<1>3. p.shanten[tile] \in Int /\ p.shanten[tile] >= 2
  BY <1>1, <1>2 DEF Evaluates
<1>4. ~(p.shanten[tile] <= 0) /\ p.shanten[tile] # 1
  BY <1>3
<1>5. DecidePushPull(p, tile) = TwoOrMoreShanten(p, p.shanten[tile], HardSafe(p, tile))
  BY <1>1, <1>2, <1>4 DEF DecidePushPull
<1>6. TwoOrMoreShanten(p, p.shanten[tile], HardSafe(p, tile))
        = Verdict("Fold", "two_or_more_shanten")
  BY <1>1 DEF TwoOrMoreShanten
<1>7. EarlyFold(p).mode = "Fold"
  BY <1>1 DEF Verdict
<1> QED
  BY <1>1, <1>5, <1>6, <1>7

\* A kan declared while folding is one of a hand in riichi; it does not depend on
\* the normal discard.
LEMMA KanWhileFolding ==
    ASSUME NEW p, NEW a, NEW b
    PROVE  KanOption(p, "Fold", a) = KanOption(p, "Fold", b)
<1>1. \A kan : Eligible(p, "Fold", a, kan) = Eligible(p, "Fold", b, kan)
  BY DEF Eligible, BeforeOwnReach
<1>2. {kan \in p.kans : Eligible(p, "Fold", a, kan)} = {kan \in p.kans : Eligible(p, "Fold", b, kan)}
  BY <1>1
<1>3. KanChoice(p, "Fold", a) = KanChoice(p, "Fold", b)
  BY <1>2 DEF KanChoice
<1> QED
  BY <1>3 DEF KanOption

LEMMA EarlyPlayIsFinal ==
    ASSUME NEW p, Evaluates(p), EarlyPlay(p) # None
    PROVE  EarlyPlay(p) = ByMode(p, DecidePushPull(p, p.selected).mode, p.selected)
<1>1. EarlyFold(p) # None /\ EarlyPlay(p) = ByMode(p, "Fold", None)
  BY DEF EarlyPlay
<1>2. p.selected \in Cohort(p)
  BY <1>1 DEF EarlyFold, Evaluates, Selects
<1>3. DecidePushPull(p, p.selected).mode = "Fold"
  BY <1>1, <1>2, EarlyVerdict
<1> DEFINE kan     == KanOption(p, "Fold", None)
           defence == DefenceOption(p, Family(p))
<1>4. ByMode(p, "Fold", None) = FirstOf(kan, defence, None)
  BY DEF ByMode, NormalOption
<1>5. ByMode(p, "Fold", p.selected) = FirstOf(kan, defence, NormalOption(p.selected))
  BY KanWhileFolding DEF ByMode
<1>6. FirstOf(kan, defence, None) # None
  BY <1>1, <1>4
<1>7. FirstOf(kan, defence, None) = FirstOf(kan, defence, NormalOption(p.selected))
  BY <1>6 DEF FirstOf
<1> QED
  BY <1>1, <1>3, <1>4, <1>5, <1>7

-----------------------------------------------------------------------------
(***************************************************************************)
(* What a pass comes to, whether it folds early or not.                    *)
(***************************************************************************)
Outcome(p) ==
    IF p.hora THEN Play("Hora", <<"Hora">>)
    ELSE IF p.ryukyoku = "declare" THEN Play("Ryukyoku", <<"Ryukyoku">>)
    ELSE IF p.call # None THEN Play("Call", <<"Call", p.call>>)
    ELSE LET chosen == ByMode(p, DecidePushPull(p, p.selected).mode, p.selected)
         IN  IF chosen # None THEN chosen
             ELSE IF Dahai(p) # {} THEN Discard("LegalDahaiFallback", p.dahai[1])
             ELSE Play("None", <<"None">>)

Declares(p) == p.hora \/ p.ryukyoku = "declare" \/ p.call # None

OutcomeInv ==
    /\ position \in Positions
    /\ stage = "selected" => /\ ~Declares(position)
                             /\ push_pull = DecidePushPull(position, position.selected)
    /\ Decided => decision = Outcome(position)
    /\ diagnostics => acted = Outcome(position)

LEMMA OutcomeInit == Init => OutcomeInv
  BY DEF Init, Positions, OutcomeInv, Decided

LEMMA OutcomeStep == OutcomeInv /\ [Next]_vars => OutcomeInv'
<1> SUFFICES ASSUME OutcomeInv, [Next]_vars PROVE OutcomeInv'
  OBVIOUS
<1> USE DEF OutcomeInv, Decided
<1>1. CASE DeclareHora
  BY <1>1 DEF DeclareHora, Decide, Outcome
<1>2. CASE DeclareRyukyoku
  BY <1>2 DEF DeclareRyukyoku, DeclaresRyukyoku, Decide, Outcome
<1>3. CASE MakeCall
  BY <1>3 DEF MakeCall, DeclaresRyukyoku, Decide, Outcome
<1>4. CASE FoldEarly
  <2>1. EarlyPlay(position) # None /\ IsPosition(position)
    BY <1>4, PositionsAreSo DEF FoldEarly, FoldsEarly
  <2>2. EarlyPlay(position) = Outcome(position)
    BY <1>4, <2>1, PositionsEvaluate, EarlyPlayIsFinal DEF FoldEarly, MustDiscard, DeclaresRyukyoku, Outcome
  <2> QED
    BY <1>4, <2>2 DEF FoldEarly, Decide
<1>5. CASE SelectNormalDiscard
  BY <1>5 DEF SelectNormalDiscard, MustDiscard, DeclaresRyukyoku, Declares
<1>6. CASE ChooseByMode
  BY <1>6 DEF ChooseByMode, Chosen, Decide, Outcome, Declares
<1>7. CASE DiscardFirstLegal
  BY <1>7 DEF DiscardFirstLegal, Chosen, Decide, Outcome, Declares
<1>8. CASE Pass
  BY <1>8 DEF Pass, Chosen, Decide, Outcome, Declares
<1>9. CASE Diagnose
  BY <1>9 DEF Diagnose
<1>10. CASE UNCHANGED vars
  BY <1>10 DEF vars
<1> QED
  BY <1>1, <1>2, <1>3, <1>4, <1>5, <1>6, <1>7, <1>8, <1>9, <1>10 DEF Next

(***************************************************************************)
(* diagnose() reports what act() played, although only act() folds early.  *)
(***************************************************************************)
THEOREM DiagnosisCorrect == Spec => []DiagnosisAgrees
<1>1. OutcomeInv => DiagnosisAgrees
  BY DEF OutcomeInv, DiagnosisAgrees
<1> QED
  BY <1>1, OutcomeInit, OutcomeStep, PTL DEF Spec

(***************************************************************************)
(* Whatever discard the selection would have preferred, an early fold is   *)
(* what push/pull would have said of it.                                   *)
(***************************************************************************)
THEOREM EarlyFoldCorrect == Spec => []EarlyFoldIsFinal
<1>1. position \in Positions => EarlyFoldIsFinal
  BY PositionsAreSo, PositionsEvaluate, EarlyVerdict DEF EarlyFoldIsFinal
<1>2. OutcomeInv => EarlyFoldIsFinal
  BY <1>1 DEF OutcomeInv
<1> QED
  BY <1>2, OutcomeInit, OutcomeStep, PTL DEF Spec

-----------------------------------------------------------------------------
(***************************************************************************)
(* Where a play comes from: an option of the mode of push_pull, for the    *)
(* discard that was selected or for none, or a fallback if there is no     *)
(* option at all.                                                          *)
(***************************************************************************)
Fallbacks == {"LegalDahaiFallback", "None"}

ModeInv ==
    /\ push_pull \in Verdicts \cup {None}
    /\ stage = "selected" => push_pull \in Verdicts
    /\ Decided /\ push_pull = None => decision.source \in {"Hora", "Ryukyoku", "Call"}
    /\ Decided /\ push_pull # None =>
          \/ /\ decision # None
             /\ \E selected : decision = ByMode(position, push_pull.mode, selected)
          \/ /\ decision.source \in Fallbacks
             /\ ByMode(position, push_pull.mode, position.selected) = None

LEMMA VerdictTypes ==
    ASSUME NEW p, NEW selected PROVE DecidePushPull(p, selected) \in Verdicts
<1>1. \A shanten, safe : TwoOrMoreShanten(p, shanten, safe) \in Verdicts
  BY DEF TwoOrMoreShanten, Verdicts
<1>2. \A safe : Tenpai(p, safe) \in Verdicts
  BY DEF Tenpai, Verdicts
<1>3. \A safe : Iishanten(p, safe) \in Verdicts
  BY DEF Iishanten, Verdicts
<1>4. Verdict("Push", "no_threat") \in Verdicts /\ Verdict("Fold", "missing_offense") \in Verdicts
  BY DEF Verdicts
<1> DEFINE shanten == p.shanten[selected]
           evaluated == CASE shanten <= 0 -> Tenpai(p, HardSafe(p, selected))
                          [] shanten = 1  -> Iishanten(p, HardSafe(p, selected))
                          [] OTHER -> TwoOrMoreShanten(p, shanten, HardSafe(p, selected))
<1>5. evaluated \in Verdicts
  BY <1>1, <1>2, <1>3
<1> QED
  BY <1>4, <1>5 DEF DecidePushPull

LEMMA ModeInit == Init => ModeInv
  BY DEF Init, ModeInv, Decided

LEMMA ModeStep == ModeInv /\ [Next]_vars => ModeInv'
<1> SUFFICES ASSUME ModeInv, [Next]_vars PROVE ModeInv'
  OBVIOUS
<1> USE VerdictAssumption DEF ModeInv, Decided
<1>1. CASE DeclareHora
  BY <1>1 DEF DeclareHora, Decide, Play
<1>2. CASE DeclareRyukyoku
  BY <1>2 DEF DeclareRyukyoku, Decide, Play
<1>3. CASE MakeCall
  BY <1>3 DEF MakeCall, Decide, Play
<1>4. CASE FoldEarly
  <2>1. EarlyFold(position) # None /\ EarlyPlay(position) # None
    BY <1>4 DEF FoldEarly, FoldsEarly, EarlyPlay
  <2>2. EarlyFold(position).mode = "Fold"
    BY <2>1 DEF EarlyFold, Verdict
  <2>3. EarlyPlay(position) = ByMode(position, EarlyFold(position).mode, None)
    BY <2>1, <2>2 DEF EarlyPlay
  <2>4. EarlyFold(position) \in Verdicts
    BY <2>1 DEF EarlyFold, Verdicts
  <2> QED
    BY <1>4, <2>1, <2>3, <2>4 DEF FoldEarly, Decide
<1>5. CASE SelectNormalDiscard
  BY <1>5, VerdictTypes DEF SelectNormalDiscard
<1>6. CASE ChooseByMode
  BY <1>6 DEF ChooseByMode, Chosen, Decide
<1>7. CASE DiscardFirstLegal
  BY <1>7 DEF DiscardFirstLegal, Chosen, Decide, Discard, Play, Fallbacks
<1>8. CASE Pass
  BY <1>8 DEF Pass, Chosen, Decide, Play, Fallbacks
<1>9. CASE Diagnose
  BY <1>9 DEF Diagnose
<1>10. CASE UNCHANGED vars
  BY <1>10 DEF vars
<1> QED
  BY <1>1, <1>2, <1>3, <1>4, <1>5, <1>6, <1>7, <1>8, <1>9, <1>10 DEF Next

\* A kan is played only if it is eligible for the mode and some normal discard.
LEMMA PlayedKanIsEligible ==
    ASSUME NEW p, NEW mode, NEW selected,
           KanOption(p, mode, selected) # None
    PROVE  \E kan \in p.kans : /\ KanOption(p, mode, selected) = Declared(kan)
                              /\ Eligible(p, mode, selected, kan)
<1> DEFINE eligible == {kan \in p.kans : Eligible(p, mode, selected, kan)}
           kan      == TheOnly(eligible)
<1>1. KanChoice(p, mode, selected) = kan
  BY DEF KanChoice
<1>2. kan # None /\ KanOption(p, mode, selected) = Declared(kan)
  BY <1>1 DEF KanOption
<1>3. Cardinality(eligible) = 1 /\ kan = CHOOSE k \in eligible : TRUE
  BY <1>2 DEF TheOnly
<1>4. eligible # {}
  BY <1>3, FS_EmptySet
<1>5. kan \in eligible
  BY <1>3, <1>4
<1> QED
  BY <1>2, <1>5

LEMMA Sources ==
    /\ \A kan : Declared(kan).source = "Kan" /\ Declared(kan).action[2] = kan.kind
    /\ \A source, tile : /\ Discard(source, tile).source = source
                         /\ Discard(source, tile).action = <<"Dahai", tile>>
    /\ \A source, action : Play(source, action).source = source
  BY DEF Declared, Discard, Play

(***************************************************************************)
(* Options of a mode, by source.                                           *)
(***************************************************************************)
LEMMA OptionsOfFold ==
    ASSUME NEW p, NEW selected, NEW play,
           play = ByMode(p, "Fold", selected), play # None
    PROVE  \/ play = KanOption(p, "Fold", selected)
           \/ play = DefenceOption(p, Family(p))
           \/ play = NormalOption(selected) /\ DefenceOption(p, Family(p)) = None
  BY DEF ByMode, FirstOf

(***************************************************************************)
(* A fold plays the discard of the defence against everybody who attacks,  *)
(* unless the hand is in riichi and declares a concealed kan, or there is  *)
(* no such discard.                                                        *)
(***************************************************************************)
LEMMA FamilyIsFull ==
    ASSUME NEW p, Judged(p) PROVE p.defence[Family(p)] = FullDefence(p)
<1>1. p.reachers \in Nat
  BY DEF Judged
<1>2. CASE p.reachers = 0
  <2>1. None # "Combined" /\ None # "Reach"
    BY NoneAssumption DEF ThreatKinds
  <2>2. Family(p) = "open_hand"
    BY <1>2, <2>1 DEF Family, ThreatKind
  <2> QED
    BY <1>2, <2>2 DEF FullDefence
<1>3. CASE p.reachers # 0 /\ p.open_hands = "none"
  BY <1>1, <1>3 DEF FullDefence, Family, ThreatKind, HasOpenHandThreat, OpenHands
<1>4. CASE p.reachers # 0 /\ p.open_hands # "none"
  BY <1>1, <1>4 DEF FullDefence, Family, ThreatKind, HasOpenHandThreat, OpenHands
<1> QED
  BY <1>2, <1>3, <1>4

LEMMA FoldInv == ModeInv /\ Judged(position) => FoldKeepsToTheDefence
<1> SUFFICES ASSUME ModeInv, Judged(position), Decided, push_pull # None, push_pull.mode = "Fold"
             PROVE  FoldKeepsToTheDefence
  BY DEF FoldKeepsToTheDefence
<1> DEFINE defence == DefenceOption(position, Family(position))
<1>2. /\ defence # None => defence = Discard("Defence", FullDefence(position))
      /\ defence = None => FullDefence(position) = None
  <2>1. Family(position) \in Families
    BY DEF Family, Families
  <2>2. FullDefence(position) \in TileTypes \cup {None}
    BY <2>1, FamilyIsFull DEF Judged
  <2> QED
    BY <2>2, FamilyIsFull, PlayAssumption DEF DefenceOption
<1>3. CASE decision # None /\ \E selected : decision = ByMode(position, "Fold", selected)
  <2>1. PICK selected : decision = ByMode(position, "Fold", selected)
    BY <1>3
  <2>2. CASE decision = KanOption(position, "Fold", selected)
    <3>1. PICK kan \in position.kans : /\ decision = Declared(kan)
                                       /\ Eligible(position, "Fold", selected, kan)
      BY <1>3, <2>2, PlayedKanIsEligible
    <3>2. position.own_reached = "yes" /\ kan.kind = "ankan"
      BY <3>1 DEF Eligible, BeforeOwnReach
    <3> QED
      BY <3>1, <3>2, Sources DEF FoldKeepsToTheDefence
  <2>3. CASE decision = defence
    BY <1>2, <1>3, <2>3, Sources DEF FoldKeepsToTheDefence
  <2>4. CASE decision = NormalOption(selected) /\ defence = None
    BY <1>2, <1>3, <2>4, Sources DEF FoldKeepsToTheDefence, NormalOption
  <2> QED
    BY <1>3, <2>1, <2>2, <2>3, <2>4, OptionsOfFold
<1>4. CASE decision.source \in Fallbacks /\ ByMode(position, "Fold", position.selected) = None
  <2>1. defence = None
    BY <1>4 DEF ByMode, FirstOf
  <2> QED
    BY <1>2, <1>4, <2>1 DEF FoldKeepsToTheDefence, Fallbacks
<1> QED
  BY <1>3, <1>4 DEF ModeInv

\* A fold plays the discard of the full defence or a concealed kan in riichi, unless there is
\* no such discard (decide_instrumented).
THEOREM FoldCorrect == Spec => []FoldKeepsToTheDefence
<1>1. OutcomeInv /\ ModeInv => FoldKeepsToTheDefence
  BY FoldInv, PositionsAreSo, PositionsAreJudged DEF OutcomeInv
<1> QED
  BY <1>1, OutcomeInit, OutcomeStep, ModeInit, ModeStep, PTL DEF Spec

(***************************************************************************)
(* Before riichi a kan is declared against nobody in riichi, and an added  *)
(* kan only if it cannot be robbed.                                        *)
(***************************************************************************)
LEMMA KanInv == ModeInv => KanTakesNoRisk
<1> SUFFICES ASSUME ModeInv, Decided, decision.source = "Kan", position.own_reached # "yes"
             PROVE  KanTakesNoRisk
  BY DEF KanTakesNoRisk
<1>1. push_pull # None
  BY DEF ModeInv
<1>2. PICK selected : decision # None /\ decision = ByMode(position, push_pull.mode, selected)
  BY <1>1 DEF ModeInv, Fallbacks
<1> DEFINE mode == push_pull.mode
<1>3. \/ decision = KanOption(position, mode, selected)
      \/ decision = ReachOption(position)
      \/ decision = NormalOption(selected)
      \/ decision = DefenceOption(position, "reach")
      \/ decision = DefenceOption(position, Family(position))
      \/ mode \notin Modes
  BY <1>2 DEF ByMode, FirstOf, Modes
<1>4. mode \in Modes
  <2>1. \A v \in Verdicts : v.mode \in Modes
    BY DEF Verdicts, Verdict, Modes
  <2> QED
    BY <1>1, <2>1 DEF ModeInv
<1>5. decision = KanOption(position, mode, selected)
  BY <1>2, <1>3, <1>4, Sources DEF ReachOption, NormalOption, DefenceOption
<1>6. PICK kan \in position.kans : /\ decision = Declared(kan)
                                   /\ Eligible(position, mode, selected, kan)
  BY <1>2, <1>5, PlayedKanIsEligible
<1>7. position.reachers = 0 /\ (kan.kind = "kakan" => kan.hard_safe)
  BY <1>6 DEF Eligible, BeforeOwnReach
<1> QED
  BY <1>6, <1>7 DEF KanTakesNoRisk

\* A kan before riichi is declared only against nobody in riichi, an added one only if it cannot
\* be robbed (kan_decision.rs).
THEOREM KanCorrect == Spec => []KanTakesNoRisk
  BY KanInv, ModeInit, ModeStep, PTL DEF Spec


-----------------------------------------------------------------------------
(***************************************************************************)
(* A threat that grows.  Each way to push needs a threat that is small     *)
(* enough; none of them opens when the threat grows.                       *)
(***************************************************************************)
Grows(p, q) ==
    /\ q.shanten = p.shanten /\ q.wait = p.wait /\ q.total = p.total /\ q.value = p.value
    /\ q.reachers \in p.reachers .. 3
    /\ q.dealer_reacher \in BOOLEAN
    /\ p.dealer_reacher => q.dealer_reacher
    /\ q.open_hands \in WorseOpenHands(p.open_hands)
    /\ q.safe \subseteq p.safe

LEMMA WorseGrows ==
    ASSUME NEW p, Judged(p), NEW r \in p.reachers .. 3, NEW d \in BOOLEAN,
           NEW o \in WorseOpenHands(p.open_hands), NEW s \in SUBSET p.safe,
           p.dealer_reacher => d
    PROVE  Grows(p, Worse(p, r, d, o, s))
<1> DEFINE q == Worse(p, r, d, o, s)
<1>1. q.reachers = r /\ q.dealer_reacher = d /\ q.open_hands = o /\ q.safe = s
  BY DEF Judged, Worse
<1>2. q.shanten = p.shanten /\ q.wait = p.wait /\ q.total = p.total /\ q.value = p.value
  BY DEF Worse
<1> QED
  BY <1>1, <1>2 DEF Grows

LEMMA ThreatGrows ==
    ASSUME NEW p, NEW q, Judged(p), Grows(p, q), HasClearThreat(p)
    PROVE  /\ HasClearThreat(q)
           /\ OnlyOpenHands(q) => OnlyOpenHands(p)
           /\ OnlyCaution(q) => OnlyCaution(p)
           /\ IishantenUsesValue(q) => IishantenUsesValue(p)
<1>1. p.reachers \in Nat /\ q.reachers \in Nat /\ p.reachers <= q.reachers
  BY DEF Judged, Grows
<1>2. p.open_hands \in OpenHands /\ q.open_hands \in WorseOpenHands(p.open_hands)
  BY DEF Judged, Grows
<1>3. /\ p.open_hands # "none" => q.open_hands # "none"
      /\ q.open_hands = "caution" => p.open_hands \in {"none", "caution"}
  BY <1>2 DEF OpenHands, WorseOpenHands
<1>4. None \notin ThreatKinds
  BY NoneAssumption
<1>5. p.reachers >= 1 \/ HasOpenHandThreat(p)
  BY <1>1, <1>4 DEF HasClearThreat, ThreatKind
<1>6. q.reachers >= 1 \/ HasOpenHandThreat(q)
  BY <1>1, <1>3, <1>5 DEF HasOpenHandThreat
<1>7. HasClearThreat(q)
  BY <1>1, <1>4, <1>6 DEF HasClearThreat, ThreatKind, ThreatKinds
<1>8. OnlyOpenHands(q) => q.reachers = 0
  BY <1>1, <1>4 DEF OnlyOpenHands, ThreatKind, ThreatKinds
<1>9. OnlyOpenHands(q) => OnlyOpenHands(p)
  BY <1>1, <1>5, <1>8 DEF OnlyOpenHands, ThreatKind
<1>10. OnlyCaution(q) => OnlyCaution(p)
  BY <1>3, <1>5, <1>8, <1>9, <1>1 DEF OnlyCaution, HasOpenHandThreat
<1>11. ThreatKind(q) = "Reach" => ThreatKind(p) = "Reach" \/ OnlyOpenHands(p)
  <2>1. ThreatKind(q) = "Reach" => q.open_hands = "none"
    BY <1>4 DEF ThreatKind, ThreatKinds, HasOpenHandThreat
  <2>2. q.open_hands = "none" => p.open_hands = "none"
    BY <1>3
  <2> QED
    BY <1>1, <1>5, <2>1, <2>2 DEF ThreatKind, HasOpenHandThreat
<1>12. IishantenUsesValue(q) => IishantenUsesValue(p)
  <2>1. CASE OnlyOpenHands(q)
    BY <2>1, <1>9 DEF IishantenUsesValue
  <2>2. CASE ThreatKind(q) = "Reach" /\ q.reachers < 2
    <3>1. p.reachers < 2
      BY <1>1, <2>2
    <3> QED
      BY <1>11, <2>2, <3>1 DEF IishantenUsesValue
  <2> QED
    BY <2>1, <2>2 DEF IishantenUsesValue
<1> QED
  BY <1>7, <1>9, <1>10, <1>12

LEMMA NoNewExcuse ==
    ASSUME NEW p, NEW q, Judged(p), Grows(p, q), HasClearThreat(p)
    PROVE  /\ IsStrongTenpai(q) => IsStrongTenpai(p)
           /\ IsValuableIishanten(q) => IsValuableIishanten(p)
           /\ \A tile : HardSafe(q, tile) => HardSafe(p, tile)
<1>1. p.total \in Nat \cup {None} /\ p.value \in Nat \cup {None}
  BY DEF Judged
<1>2. q.wait = p.wait /\ q.total = p.total /\ q.value = p.value /\ q.safe \subseteq p.safe
  BY DEF Grows
<1>3. p.dealer_reacher \in BOOLEAN /\ q.dealer_reacher \in BOOLEAN
      /\ (p.dealer_reacher => q.dealer_reacher)
  BY DEF Judged, Grows
<1>4. /\ TenpaiPushWeightedTotalMin(p) \in Nat
      /\ TenpaiPushWeightedTotalMin(q) \in Nat
      /\ TenpaiPushWeightedTotalMin(p) <= TenpaiPushWeightedTotalMin(q)
  BY <1>3 DEF TenpaiPushWeightedTotalMin
<1>5. p.total # None /\ p.total >= TenpaiPushWeightedTotalMin(q)
        => p.total >= TenpaiPushWeightedTotalMin(p)
  BY <1>1, <1>4
<1>6. IsStrongTenpai(q) => IsStrongTenpai(p)
  BY <1>2, <1>5 DEF IsStrongTenpai
<1>7. OnlyCaution(q) => OnlyCaution(p)
  BY ThreatGrows
<1>8. /\ IishantenPushMin(p) \in Nat
      /\ IishantenPushMin(q) \in Nat
      /\ IishantenPushMin(p) <= IishantenPushMin(q)
  <2>1. CASE q.dealer_reacher
    BY <2>1 DEF IishantenPushMin
  <2>2. CASE ~q.dealer_reacher /\ OnlyCaution(q)
    BY <2>2, <1>3, <1>7 DEF IishantenPushMin
  <2>3. CASE ~q.dealer_reacher /\ ~OnlyCaution(q)
    BY <2>3, <1>3 DEF IishantenPushMin
  <2> QED
    BY <2>1, <2>2, <2>3
<1>9. p.value # None /\ p.value >= IishantenPushMin(q) => p.value >= IishantenPushMin(p)
  BY <1>1, <1>8
<1>10. IsValuableIishanten(q) => IsValuableIishanten(p)
  BY <1>2, <1>9, ThreatGrows DEF IsValuableIishanten
<1> QED
  BY <1>2, <1>6, <1>10 DEF HardSafe

LEMMA FoldStays ==
    ASSUME NEW p, NEW q, NEW tile, Judged(p), Grows(p, q),
           DecidePushPull(p, tile).mode = "Fold"
    PROVE  DecidePushPull(q, tile).mode = "Fold"
<1> DEFINE shanten == p.shanten[tile]
<1>1. HasClearThreat(p)
  BY DEF DecidePushPull, Verdict
<1>2. HasClearThreat(q) /\ q.shanten = p.shanten
  BY <1>1, ThreatGrows DEF Grows
<1>3. CASE tile = None
  BY <1>2, <1>3 DEF DecidePushPull, Verdict
<1>4. CASE tile # None /\ shanten <= 0
  <2>1. DecidePushPull(p, tile) = Tenpai(p, HardSafe(p, tile))
    BY <1>1, <1>4 DEF DecidePushPull
  <2>2. ~IsStrongTenpai(p) /\ ~HardSafe(p, tile) /\ ~OnlyCaution(p)
    BY <2>1 DEF Tenpai, Verdict
  <2>3. ~IsStrongTenpai(q) /\ ~HardSafe(q, tile) /\ ~OnlyCaution(q)
    BY <1>1, <2>2, ThreatGrows, NoNewExcuse
  <2>4. DecidePushPull(q, tile) = Tenpai(q, HardSafe(q, tile))
    BY <1>2, <1>4 DEF DecidePushPull
  <2> QED
    BY <2>3, <2>4 DEF Tenpai, Verdict
<1>5. CASE tile # None /\ ~(shanten <= 0) /\ shanten = 1
  <2>1. DecidePushPull(p, tile) = Iishanten(p, HardSafe(p, tile))
    BY <1>1, <1>5 DEF DecidePushPull
  <2>2. ~IsValuableIishanten(p) /\ ~(OnlyOpenHands(p) /\ HardSafe(p, tile))
    BY <2>1 DEF Iishanten, Verdict
  <2>3. ~IsValuableIishanten(q) /\ ~(OnlyOpenHands(q) /\ HardSafe(q, tile))
    BY <1>1, <2>2, ThreatGrows, NoNewExcuse
  <2>4. DecidePushPull(q, tile) = Iishanten(q, HardSafe(q, tile))
    BY <1>2, <1>5 DEF DecidePushPull
  <2> QED
    BY <2>3, <2>4 DEF Iishanten, Verdict
<1>6. CASE tile # None /\ ~(shanten <= 0) /\ shanten # 1
  <2>1. DecidePushPull(p, tile) = TwoOrMoreShanten(p, shanten, HardSafe(p, tile))
    BY <1>1, <1>6 DEF DecidePushPull
  <2>2. ~(OnlyOpenHands(p) /\ shanten = 2 /\ HardSafe(p, tile))
    BY <2>1 DEF TwoOrMoreShanten, Verdict
  <2>3. ~(OnlyOpenHands(q) /\ shanten = 2 /\ HardSafe(q, tile))
    BY <1>1, <2>2, ThreatGrows, NoNewExcuse
  <2>4. DecidePushPull(q, tile) = TwoOrMoreShanten(q, shanten, HardSafe(q, tile))
    BY <1>2, <1>6 DEF DecidePushPull
  <2> QED
    BY <2>3, <2>4 DEF TwoOrMoreShanten, Verdict
<1> QED
  BY <1>3, <1>4, <1>5, <1>6

(***************************************************************************)
(* The verdict of a pass, early or not, is that of the selected discard.   *)
(***************************************************************************)
VerdictInv ==
    /\ position \in Positions
    /\ push_pull # None => push_pull = DecidePushPull(position, position.selected)

LEMMA VerdictInit == Init => VerdictInv
  BY DEF Init, Positions, VerdictInv

LEMMA VerdictStep == VerdictInv /\ [Next]_vars => VerdictInv'
<1> SUFFICES ASSUME VerdictInv, [Next]_vars PROVE VerdictInv'
  OBVIOUS
<1> USE DEF VerdictInv
<1>1. CASE FoldEarly
  <2>1. EarlyFold(position) # None /\ IsPosition(position)
    BY <1>1, PositionsAreSo DEF FoldEarly, FoldsEarly, EarlyPlay
  <2>2. position.selected \in Cohort(position)
    BY <2>1 DEF EarlyFold, IsPosition, Selects
  <2> QED
    BY <1>1, <2>1, <2>2, PositionsEvaluate, EarlyVerdict DEF FoldEarly, Decide
<1>2. CASE SelectNormalDiscard
  BY <1>2 DEF SelectNormalDiscard
<1>3. CASE DeclareHora \/ DeclareRyukyoku \/ MakeCall
  BY <1>3 DEF DeclareHora, DeclareRyukyoku, MakeCall, Decide
<1>4. CASE ChooseByMode \/ DiscardFirstLegal \/ Pass
  BY <1>4 DEF ChooseByMode, DiscardFirstLegal, Pass, Decide
<1>5. CASE Diagnose
  BY <1>5 DEF Diagnose
<1>6. CASE UNCHANGED vars
  BY <1>6 DEF vars
<1> QED
  BY <1>1, <1>2, <1>3, <1>4, <1>5, <1>6 DEF Next

(***************************************************************************)
(* Where a hand is folded, it is folded against every larger threat.       *)
(***************************************************************************)
THEOREM GrowingThreatCorrect == Spec => []GrowingThreatNeverInvites
<1>1. VerdictInv => GrowingThreatNeverInvites
  <2>1. VerdictInv => Judged(position)
    BY PositionsAreSo, PositionsAreJudged DEF VerdictInv
  <2> QED
    BY <2>1, WorseGrows, FoldStays DEF VerdictInv, GrowingThreatNeverInvites
<1> QED
  BY <1>1, VerdictInit, VerdictStep, PTL DEF Spec

(***************************************************************************)
(* The call decision.                                                      *)
(***************************************************************************)

\* A table of the constants.
LEMMA TablesAreSo ==
    ASSUME NEW t \in CallTables
    PROVE  /\ Len(t.calls) \in Nat \ {0} /\ DOMAIN t.calls = 1 .. Len(t.calls)
           /\ \A i \in DOMAIN t.calls : IsCall(t.calls[i])
           /\ \A i, j \in DOMAIN t.calls :
                 t.calls[i].key = t.calls[j].key /\ t.calls[i].key # None
                     => SameState(t.calls[i], t.calls[j])
           /\ \A i, j \in DOMAIN t.calls :
                 t.calls[i].name = t.calls[j].name => t.calls[i] = t.calls[j]
           /\ t.pass \in [Kinds -> Int \cup {None}]
           /\ t.melds \in 0 .. MaxMelds \cup {None} /\ t.draws \in Int \cup {None}
           /\ {t.reached, t.drawn, t.source_known, t.parallel} \subseteq BOOLEAN
           /\ t # None
<1>1. IsTable(t) /\ t.calls # <<>> /\ t # None
  BY TableAssumption, MarkerAssumption
<1>2. t.calls \in Seq({t.calls[i] : i \in DOMAIN t.calls})
  BY <1>1 DEF IsTable
<1>3. PICK S : t.calls \in Seq(S)
  BY <1>2
<1>4. Len(t.calls) \in Nat /\ DOMAIN t.calls = 1 .. Len(t.calls) /\ Len(t.calls) # 0
  BY <1>1, <1>3
<1> QED
  BY <1>1, <1>4 DEF IsTable

-----------------------------------------------------------------------------
(* The first of several numbers. *)

LEMMA FirstIsLeast ==
    ASSUME NEW S \in SUBSET Nat, S # {}
    PROVE  First(S) \in S /\ \A j \in S : First(S) <= j
<1>1. \E i \in S : \A j \in S : i <= j
  <2>1. IsWellFoundedOn(OpToRel(<, Nat), Nat)
    BY NatLessThanWellFounded
  <2>2. PICK i \in S : \A j \in S : ~(<<j, i>> \in OpToRel(<, Nat))
    BY <2>1, WFMin
  <2>3. \A j \in S : ~(j < i)
    BY <2>2 DEF OpToRel
  <2> QED
    BY <2>3
<1> QED
  BY <1>1 DEF First

\* The first rule that applies.
Applies(rules, i) == rules[i][1]

LEMMA FirstRule ==
    ASSUME NEW rules, NEW n \in Nat, DOMAIN rules = 1 .. n
    PROVE  \/ /\ FirstMatch(rules) = None
              /\ \A i \in 1 .. n : ~Applies(rules, i)
           \/ \E i \in 1 .. n : /\ FirstMatch(rules) = rules[i][2]
                               /\ Applies(rules, i)
                               /\ \A j \in 1 .. (i - 1) : ~Applies(rules, j)
<1> DEFINE met == {i \in DOMAIN rules : rules[i][1]}
<1>1. FirstMatch(rules) = IF met = {} THEN None ELSE rules[First(met)][2]
  BY DEF FirstMatch
<1>2. CASE met = {}
  BY <1>1, <1>2 DEF Applies
<1>3. CASE met # {}
  <2>1. met \in SUBSET Nat
    OBVIOUS
  <2>2. First(met) \in met /\ \A j \in met : First(met) <= j
    BY <1>3, <2>1, FirstIsLeast
  <2>3. First(met) \in 1 .. n /\ Applies(rules, First(met))
    BY <2>2 DEF Applies
  <2>4. ASSUME NEW j \in 1 .. (First(met) - 1), Applies(rules, j) PROVE FALSE
    <3>1. First(met) \in Nat /\ j \in 1 .. n /\ ~(First(met) <= j)
      BY <2>3
    <3>2. j \in met
      BY <2>4, <3>1 DEF Applies
    <3> QED
      BY <2>2, <3>1, <3>2
  <2> QED
    BY <1>1, <1>3, <2>3, <2>4
<1> QED
  BY <1>2, <1>3

-----------------------------------------------------------------------------
(* What the reasons mean. *)

EarlyReasons == {"OpponentReached", "UnexpectedDrawnTile", "InvalidConsumed",
                 "FixedMeldCountUnknown", "FixedMeldCountOverflow", "CurrentShantenNotCallable"}

LEMMA EarlyMeans ==
    ASSUME NEW t, NEW c
    PROVE  /\ EarlyReason(t, c) \in EarlyReasons \cup {None}
           /\ EarlyReason(t, c) = None =>
                 /\ ~t.reached /\ ~t.drawn /\ c.key # None
                 /\ t.melds # None /\ t.melds # MaxMelds /\ t.shanten \in 1 .. 3
<1> DEFINE rules == <<<<t.reached,                 "OpponentReached">>,
                      <<t.drawn,                   "UnexpectedDrawnTile">>,
                      <<c.key = None,              "InvalidConsumed">>,
                      <<t.melds = None,            "FixedMeldCountUnknown">>,
                      <<t.melds = MaxMelds,        "FixedMeldCountOverflow">>,
                      <<t.shanten \notin 1 .. 3,   "CurrentShantenNotCallable">>>>
<1>1. /\ DOMAIN rules = 1 .. 6
      /\ \A i \in 1 .. 6 : rules[i][2] \in EarlyReasons
  BY DEF EarlyReasons
<1>2. /\ Applies(rules, 1) <=> t.reached
      /\ Applies(rules, 2) <=> t.drawn
      /\ Applies(rules, 3) <=> c.key = None
      /\ Applies(rules, 4) <=> t.melds = None
      /\ Applies(rules, 5) <=> t.melds = MaxMelds
      /\ Applies(rules, 6) <=> t.shanten \notin 1 .. 3
  BY DEF Applies
<1>3. EarlyReason(t, c) = FirstMatch(rules)
  BY DEF EarlyReason
<1> HIDE DEF rules
<1>4. \/ FirstMatch(rules) = None /\ \A i \in 1 .. 6 : ~Applies(rules, i)
      \/ FirstMatch(rules) \in EarlyReasons
  BY <1>1, FirstRule
<1>5. None \notin EarlyReasons
  <2>1. EarlyReasons \subseteq Reasons
    BY DEF EarlyReasons, Reasons
  <2> QED
    BY <2>1, MarkerAssumption
<1> QED
  BY <1>2, <1>3, <1>4, <1>5

TenpaiReasons == {"NoLiveAcceptance", "TooFewLiveWaits", "CannotRon", "YakuMissing",
                  "HandValueUnknown", "PostCallNotPush"}

LEMMA YakuMeans ==
    ASSUME NEW c
    PROVE  \/ WaitYaku(c) \in TenpaiReasons
           \/ WaitYaku(c) = "EligibleTenpai" /\ "absent" \notin c.yaku /\ "unknown" \notin c.yaku
<1> DEFINE rules == <<<<"absent" \in c.yaku,  "YakuMissing">>,
                      <<"unknown" \in c.yaku, "HandValueUnknown">>,
                      <<TRUE,                 "EligibleTenpai">>>>
<1>1. /\ DOMAIN rules = 1 .. 3
      /\ rules[1][2] = "YakuMissing" /\ rules[2][2] = "HandValueUnknown"
      /\ rules[3][2] = "EligibleTenpai"
  OBVIOUS
<1>2. /\ Applies(rules, 1) <=> "absent" \in c.yaku
      /\ Applies(rules, 2) <=> "unknown" \in c.yaku
      /\ Applies(rules, 3)
  BY DEF Applies
<1>3. WaitYaku(c) = FirstMatch(rules)
  BY DEF WaitYaku
<1> HIDE DEF rules
<1>4. \E i \in 1 .. 3 : /\ FirstMatch(rules) = rules[i][2]
                       /\ \A j \in 1 .. (i - 1) : ~Applies(rules, j)
  <2>1. \/ \A i \in 1 .. 3 : ~Applies(rules, i)
        \/ \E i \in 1 .. 3 : /\ FirstMatch(rules) = rules[i][2]
                            /\ \A j \in 1 .. (i - 1) : ~Applies(rules, j)
    BY <1>1, FirstRule
  <2> QED
    BY <1>2, <2>1
<1> QED
  BY <1>1, <1>2, <1>3, <1>4 DEF TenpaiReasons

LEMMA TenpaiMeans ==
    ASSUME NEW t, NEW c, IsCall(c), c.wait # None
    PROVE  \/ TenpaiReason(t, c) \in TenpaiReasons
           \/ /\ TenpaiReason(t, c) = "EligibleTenpai" /\ GoodTenpai(c)
              /\ PostCallVerdict(t, c).mode = "Push"
<1> DEFINE rules == <<<<c.wait.remaining = 0,                    "NoLiveAcceptance">>,
                      <<c.wait.remaining < MinLiveWaitRemaining, "TooFewLiveWaits">>,
                      <<~CanRon(c.wait),                         "CannotRon">>,
                      <<TRUE,                                    WaitYaku(c)>>>>
<1>1. /\ DOMAIN rules = 1 .. 4
      /\ rules[1][2] = "NoLiveAcceptance" /\ rules[2][2] = "TooFewLiveWaits"
      /\ rules[3][2] = "CannotRon" /\ rules[4][2] = WaitYaku(c)
  OBVIOUS
<1>2. /\ Applies(rules, 2) <=> c.wait.remaining < MinLiveWaitRemaining
      /\ Applies(rules, 3) <=> ~CanRon(c.wait)
      /\ Applies(rules, 4)
  BY DEF Applies
<1>3. TenpaiReason(t, c) =
        IF FirstMatch(rules) = "EligibleTenpai" /\ PostCallVerdict(t, c).mode # "Push"
        THEN "PostCallNotPush" ELSE FirstMatch(rules)
  BY DEF TenpaiReason
<1> HIDE DEF rules
<1>4. \E i \in 1 .. 4 : /\ FirstMatch(rules) = rules[i][2]
                       /\ \A j \in 1 .. (i - 1) : ~Applies(rules, j)
  <2>1. \/ \A i \in 1 .. 4 : ~Applies(rules, i)
        \/ \E i \in 1 .. 4 : /\ FirstMatch(rules) = rules[i][2]
                            /\ \A j \in 1 .. (i - 1) : ~Applies(rules, j)
    BY <1>1, FirstRule
  <2> QED
    BY <1>2, <2>1
<1>5. \/ FirstMatch(rules) \in TenpaiReasons
      \/ /\ FirstMatch(rules) = WaitYaku(c)
         /\ ~(c.wait.remaining < MinLiveWaitRemaining) /\ CanRon(c.wait)
  BY <1>1, <1>2, <1>4 DEF TenpaiReasons
<1>6. CASE FirstMatch(rules) \in TenpaiReasons
  BY <1>3, <1>6 DEF TenpaiReasons
<1>7. CASE /\ FirstMatch(rules) = WaitYaku(c)
           /\ ~(c.wait.remaining < MinLiveWaitRemaining) /\ CanRon(c.wait)
  <2>1. CASE WaitYaku(c) \in TenpaiReasons
    BY <1>3, <1>7, <2>1 DEF TenpaiReasons
  <2>2. CASE WaitYaku(c) = "EligibleTenpai" /\ "absent" \notin c.yaku /\ "unknown" \notin c.yaku
    <3>1. c.wait.remaining >= 3
      BY <1>7 DEF IsCall, MinLiveWaitRemaining
    <3>2. c.yaku \subseteq {"present"}
      BY <2>2 DEF IsCall
    <3>3. GoodTenpai(c)
      BY <1>7, <3>1, <3>2 DEF GoodTenpai, CanRon
    <3> QED
      BY <1>3, <1>7, <2>2, <3>3 DEF TenpaiReasons
  <2> QED
    BY <2>1, <2>2, YakuMeans
<1> QED
  BY <1>5, <1>6, <1>7

\* Reasons that end the evaluation of a call, or that a comparison will replace.
EvaluatedReasons ==
    TenpaiReasons \cup {"NoPostCallDiscard", "PostCallNotTenpai", "PostCallNotIishanten",
                       "PostCallNotTwoShanten", "IishantenSelfTsumoUnknown"}

LEMMA EvaluatedMeans ==
    ASSUME NEW t, NEW c, IsCall(c), t.shanten \in 1 .. 3
    PROVE  \/ Evaluated(t, c) \in EvaluatedReasons
           \/ /\ Evaluated(t, c) = "EligibleTenpai" /\ GoodTenpai(c)
              /\ t.shanten = 1 /\ PostShanten(c) = 0
              /\ PostCallVerdict(t, c).mode = "Push"
<1>1. CASE t.shanten = 1 /\ PostShanten(c) = 0 /\ c.wait # None
  <2>1. PostShanten(c) # None
    BY <1>1, NoneAssumption
  <2>2. Evaluated(t, c) = TenpaiReason(t, c)
    BY <1>1, <2>1 DEF Evaluated
  <2> QED
    BY <1>1, <2>2, TenpaiMeans DEF EvaluatedReasons
<1>2. CASE PostShanten(c) = None
  BY <1>2, NoneAssumption DEF Evaluated, EvaluatedReasons
<1>3. CASE PostShanten(c) # None /\ ~(t.shanten = 1 /\ PostShanten(c) = 0 /\ c.wait # None)
  <2>1. CASE t.shanten = 1
    BY <1>3, <2>1 DEF Evaluated, EvaluatedReasons
  <2>2. CASE t.shanten = 2
    BY <1>3, <2>2 DEF Evaluated, EvaluatedReasons
  <2>3. CASE t.shanten = 3
    BY <1>3, <2>3 DEF Evaluated, EvaluatedReasons
  <2> QED
    BY <2>1, <2>2, <2>3
<1> QED
  BY <1>1, <1>2, <1>3

-----------------------------------------------------------------------------
(* Calls that leave the same hand come to the same.                              *)

LEMMA TwinsAreAlike ==
    ASSUME NEW a, NEW b, IsCall(a), IsCall(b), SameState(a, b)
    PROVE  /\ a.key = b.key /\ a.discards = b.discards /\ a.discard = b.discard
           /\ a.rank = b.rank /\ a.wait = b.wait /\ a.yaku = b.yaku /\ a.total = b.total
           /\ a.push_value = b.push_value /\ a.safe = b.safe /\ a.value = b.value
           /\ a.han = b.han /\ a.ron_yaku = b.ron_yaku
<1>1. DOMAIN a = Fields /\ b = [a EXCEPT !.name = b.name]
  BY DEF IsCall, SameState
<1>2. \A field \in Fields : field # "name" => b[field] = a[field]
  BY <1>1
<1> QED
  BY <1>2 DEF Fields

LEMMA TwinsComeToTheSame ==
    ASSUME NEW t, NEW a, NEW b, IsCall(a), IsCall(b), SameState(a, b)
    PROVE  /\ EarlyReason(t, a) = EarlyReason(t, b)
           /\ PostShanten(a) = PostShanten(b) /\ Kind(t, a) = Kind(t, b)
           /\ Evaluated(t, a) = Evaluated(t, b)
           /\ \A kind : PolicyReason(t, a, kind) = PolicyReason(t, b, kind)
           /\ PostCallVerdict(t, a) = PostCallVerdict(t, b)
<1>1. /\ a.key = b.key /\ a.discards = b.discards /\ a.discard = b.discard
      /\ a.wait = b.wait /\ a.yaku = b.yaku /\ a.total = b.total
      /\ a.push_value = b.push_value /\ a.safe = b.safe /\ a.value = b.value
      /\ a.han = b.han /\ a.ron_yaku = b.ron_yaku
  BY TwinsAreAlike
<1>2. EarlyReason(t, a) = EarlyReason(t, b)
  BY <1>1 DEF EarlyReason
<1>3. PostShanten(a) = PostShanten(b)
  BY <1>1 DEF PostShanten
<1>4. Kind(t, a) = Kind(t, b)
  BY <1>3 DEF Kind
<1>5. AfterCall(t, a) = AfterCall(t, b)
  BY <1>1 DEF AfterCall
<1>6. PostCallVerdict(t, a) = PostCallVerdict(t, b)
  BY <1>1, <1>5 DEF PostCallVerdict
<1>7. WaitYaku(a) = WaitYaku(b)
  BY <1>1 DEF WaitYaku
<1>8. TenpaiReason(t, a) = TenpaiReason(t, b)
  BY <1>1, <1>6, <1>7 DEF TenpaiReason
<1>9. Evaluated(t, a) = Evaluated(t, b)
  BY <1>1, <1>3, <1>8 DEF Evaluated
<1>10. ASSUME NEW kind PROVE PolicyReason(t, a, kind) = PolicyReason(t, b, kind)
  <2>1. Compared(t, a, kind) = Compared(t, b, kind)
    BY <1>1 DEF Compared
  <2>2. PrefersSpeed(t, a, kind) <=> PrefersSpeed(t, b, kind)
    BY <1>1 DEF PrefersSpeed
  <2> QED
    BY <1>1, <2>1, <2>2 DEF PolicyReason
<1> QED
  BY <1>2, <1>3, <1>4, <1>6, <1>9, <1>10

-----------------------------------------------------------------------------
(* What a comparison comes to. *)

LEMMA KindMeans ==
    ASSUME NEW t, NEW c
    PROVE  /\ Kind(t, c) \in Kinds \cup {None}
           /\ Kind(t, c) = "Iishanten" => t.shanten = 1 /\ PostShanten(c) = 1
           /\ Kind(t, c) = "TwoShanten" => t.shanten = 2 /\ PostShanten(c) = 1
           /\ Kind(t, c) = "TwoShantenStay" => t.shanten = 2 /\ PostShanten(c) = 2
           /\ Kind(t, c) = "ThreeShanten" => t.shanten = 3 /\ PostShanten(c) = 2
           /\ t.shanten = 1 /\ PostShanten(c) = 0 => Kind(t, c) = None
  BY MarkerAssumption DEF Kind, Kinds, CallHigher

\* The reason for a call that wins its comparison with passing.
Wins(t, c, kind, reason) ==
    /\ t.source_known /\ c.value # None /\ t.pass[kind] # None
    /\ \/ reason = CallHigher[kind] /\ c.value > t.pass[kind]
          /\ (kind = "TwoShantenStay" => c.ron_yaku = "at_least")
       \/ /\ kind \in DOMAIN Speed /\ reason = Speed[kind] /\ c.value <= t.pass[kind]
          /\ t.draws # None /\ t.draws >= SpeedMinDraws[kind] /\ c.han = "at_least"

LosingReasons == {"ReactionSourceUnknown", "IishantenSelfTsumoUnknown", "PassSelfTsumoNotLower",
                  "YakuMissing", "HandValueUnknown"}

LEMMA PolicyMeans ==
    ASSUME NEW t, NEW c, IsCall(c), t.source_known \in BOOLEAN,
           t.pass \in [Kinds -> Int \cup {None}], NEW kind \in Kinds
    PROVE  \/ PolicyReason(t, c, kind) \in LosingReasons
           \/ Wins(t, c, kind, PolicyReason(t, c, kind))
<1> DEFINE higher == CallHigher[kind]
<1>1. higher \notin LosingReasons
  BY DEF CallHigher, Kinds, LosingReasons
<1>2. c.value \in Int \cup {None} /\ t.pass[kind] \in Int \cup {None}
      /\ c.ron_yaku \in {"at_least", "below", "unknown"}
  BY DEF IsCall
<1>3. \/ Compared(t, c, kind) \in {"ReactionSourceUnknown", "IishantenSelfTsumoUnknown"}
      \/ /\ t.source_known /\ c.value # None /\ t.pass[kind] # None
         /\ \/ Compared(t, c, kind) = higher /\ c.value > t.pass[kind]
            \/ Compared(t, c, kind) = "PassSelfTsumoNotLower" /\ c.value <= t.pass[kind]
  BY <1>2 DEF Compared
<1>4. CASE Compared(t, c, kind) \in {"ReactionSourceUnknown", "IishantenSelfTsumoUnknown"}
  <2>1. PolicyReason(t, c, kind) = Compared(t, c, kind)
    BY <1>1, <1>4 DEF PolicyReason, LosingReasons
  <2> QED
    BY <1>4, <2>1 DEF LosingReasons
<1>5. CASE /\ t.source_known /\ c.value # None /\ t.pass[kind] # None
           /\ Compared(t, c, kind) = higher /\ c.value > t.pass[kind]
  <2>1. CASE kind # "TwoShantenStay"
    <3>1. PolicyReason(t, c, kind) = higher
      BY <1>1, <1>5, <2>1 DEF PolicyReason, LosingReasons
    <3> QED
      BY <1>5, <2>1, <3>1 DEF Wins
  <2>2. CASE kind = "TwoShantenStay"
    <3>1. PolicyReason(t, c, kind) =
            [at_least |-> higher, below |-> "YakuMissing", unknown |-> "HandValueUnknown"][c.ron_yaku]
      BY <1>1, <1>5, <2>2 DEF PolicyReason, LosingReasons
    <3>2. CASE c.ron_yaku = "at_least"
      BY <1>5, <2>2, <3>1, <3>2 DEF Wins
    <3>3. CASE c.ron_yaku # "at_least"
      BY <1>2, <3>1, <3>3 DEF LosingReasons
    <3> QED
      BY <3>2, <3>3
  <2> QED
    BY <2>1, <2>2
<1>6. CASE /\ t.source_known /\ c.value # None /\ t.pass[kind] # None
           /\ Compared(t, c, kind) = "PassSelfTsumoNotLower" /\ c.value <= t.pass[kind]
  <2>1. CASE PrefersSpeed(t, c, kind)
    <3>1. PolicyReason(t, c, kind) = Speed[kind]
      BY <1>6, <2>1 DEF PolicyReason
    <3> QED
      BY <1>6, <2>1, <3>1 DEF Wins, PrefersSpeed
  <2>2. CASE ~PrefersSpeed(t, c, kind)
    <3>1. PolicyReason(t, c, kind) = "PassSelfTsumoNotLower"
      BY <1>1, <1>6, <2>2 DEF PolicyReason, LosingReasons
    <3> QED
      BY <3>1 DEF LosingReasons
  <2> QED
    BY <2>1, <2>2
<1> QED
  BY <1>3, <1>4, <1>5, <1>6

-----------------------------------------------------------------------------
(* A call on its own, before and after the comparisons and the gate. *)

Base(t, c) == IF EarlyReason(t, c) = None THEN Evaluated(t, c) ELSE EarlyReason(t, c)

\* The first k - 1 policies have been applied.
AfterPolicies(k, t, c) ==
    IF EarlyReason(t, c) = None /\ \E j \in 1 .. (k - 1) : Policies[j] = Kind(t, c)
    THEN PolicyReason(t, c, Kind(t, c)) ELSE Base(t, c)

LEMMA ReasonsDiffer ==
    /\ ComparedReasons \cap (LosingReasons \cup EarlyReasons \cup EvaluatedReasons) = {}
    /\ "EligibleTenpai" \notin ComparedReasons
    /\ "EligibleTenpai" \notin LosingReasons \cup EarlyReasons \cup EvaluatedReasons
    /\ None \notin LosingReasons \cup EarlyReasons \cup EvaluatedReasons \cup ComparedReasons
    /\ "PostCallNotPush" \notin ComparedReasons \cup {"EligibleTenpai", None}
<1>1. ComparedReasons =
        {"EligibleIishantenSelfTsumo", "EligibleTwoShantenSelfTsumo", "EligibleTwoShantenStaySelfTsumo",
         "EligibleThreeShantenSelfTsumo", "EligibleTwoShantenSpeed", "EligibleThreeShantenSpeed"}
  BY DEF ComparedReasons, Kinds, CallHigher, Speed
<1>2. ComparedReasons \cup LosingReasons \cup EarlyReasons \cup EvaluatedReasons
        \cup {"PostCallNotPush"} \subseteq Reasons
  BY <1>1 DEF LosingReasons, EarlyReasons, EvaluatedReasons, TenpaiReasons, Reasons
<1>3. None \notin Reasons
  BY MarkerAssumption
<1>4. ComparedReasons \cap (LosingReasons \cup EarlyReasons \cup EvaluatedReasons) = {}
  BY <1>1 DEF LosingReasons, EarlyReasons, EvaluatedReasons, TenpaiReasons
<1>5. /\ "EligibleTenpai" \notin ComparedReasons
      /\ "EligibleTenpai" \notin LosingReasons \cup EarlyReasons \cup EvaluatedReasons
      /\ "PostCallNotPush" \notin ComparedReasons \cup {"EligibleTenpai"}
  BY <1>1 DEF LosingReasons, EarlyReasons, EvaluatedReasons, TenpaiReasons
<1> QED
  BY <1>2, <1>3, <1>4, <1>5

LEMMA PoliciesCoverKinds ==
    /\ DOMAIN Policies = 1 .. 4
    /\ \A j \in 1 .. 4 : Policies[j] \in Kinds
    /\ \A kind \in Kinds : \E j \in 1 .. 4 : Policies[j] = kind
    /\ \A i, j \in 1 .. 4 : Policies[i] = Policies[j] => i = j
  BY DEF Policies, Kinds, CallHigher

LEMMA OwnIs ==
    ASSUME NEW t \in CallTables, NEW i \in DOMAIN t.calls
    PROVE  LET c == t.calls[i]
               compared == AfterPolicies(5, t, c)
           IN  OnItsOwn(t, c) =
                 IF compared \in ComparedReasons /\ PostCallVerdict(t, c).mode # "Push"
                 THEN "PostCallNotPush" ELSE compared
<1> DEFINE c == t.calls[i]
           compared == AfterPolicies(5, t, c)
<1>1. IsCall(c)
  BY TablesAreSo
<1> HIDE DEF c
<1>2. CASE EarlyReason(t, c) # None
  <2>1. compared = EarlyReason(t, c) /\ OnItsOwn(t, c) = EarlyReason(t, c)
    BY <1>2 DEF AfterPolicies, Base, OnItsOwn
  <2>2. compared \notin ComparedReasons
    BY <1>2, <2>1, EarlyMeans, ReasonsDiffer
  <2> QED
    BY <2>1, <2>2 DEF c
<1>3. CASE EarlyReason(t, c) = None /\ Kind(t, c) = None
  <2>1. \A j \in 1 .. 4 : Policies[j] # Kind(t, c)
    BY <1>3, PoliciesCoverKinds, MarkerAssumption
  <2>2. compared = Evaluated(t, c) /\ OnItsOwn(t, c) = Evaluated(t, c)
    BY <1>3, <2>1 DEF AfterPolicies, Base, OnItsOwn
  <2>3. Evaluated(t, c) \in EvaluatedReasons \cup {"EligibleTenpai"}
    BY <1>1, <1>3, EarlyMeans, EvaluatedMeans
  <2>4. compared \notin ComparedReasons
    BY <2>2, <2>3, ReasonsDiffer
  <2> QED
    BY <2>2, <2>4 DEF c
<1>4. CASE EarlyReason(t, c) = None /\ Kind(t, c) # None
  <2>1. \E j \in 1 .. (5 - 1) : Policies[j] = Kind(t, c)
    BY <1>4, KindMeans, PoliciesCoverKinds
  <2>2. compared = PolicyReason(t, c, Kind(t, c))
    BY <1>4, <2>1 DEF AfterPolicies
  <2> QED
    BY <1>4, <2>2 DEF OnItsOwn, c
<1> QED
  BY <1>2, <1>3, <1>4

\* Which calls are made on their own, and why.
LEMMA OwnMeans ==
    ASSUME NEW t \in CallTables, NEW i \in DOMAIN t.calls
    PROVE  LET c == t.calls[i]
               own == OnItsOwn(t, c)
           IN  \/ own \notin ComparedReasons \cup {"EligibleTenpai"}
               \/ /\ own = "EligibleTenpai" /\ GoodTenpai(c) /\ t.shanten = 1 /\ PostShanten(c) = 0
                  /\ EarlyReason(t, c) = None /\ PostCallVerdict(t, c).mode = "Push"
               \/ /\ own \in ComparedReasons /\ Kind(t, c) \in Kinds /\ Wins(t, c, Kind(t, c), own)
                  /\ EarlyReason(t, c) = None /\ PostCallVerdict(t, c).mode = "Push"
<1> DEFINE c == t.calls[i]
           own == OnItsOwn(t, c)
<1>1. /\ IsCall(c) /\ t.source_known \in BOOLEAN /\ t.pass \in [Kinds -> Int \cup {None}]
  BY TablesAreSo
<1> HIDE DEF c
<1>2. CASE EarlyReason(t, c) # None
  <2>1. own \in EarlyReasons
    BY <1>2, EarlyMeans DEF OnItsOwn
  <2> QED
    BY <2>1, ReasonsDiffer DEF c
<1>3. CASE EarlyReason(t, c) = None /\ Kind(t, c) = None
  <2>1. own = Evaluated(t, c) /\ t.shanten \in 1 .. 3
    BY <1>3, EarlyMeans DEF OnItsOwn
  <2>2. CASE own \in EvaluatedReasons
    BY <2>2, ReasonsDiffer DEF c
  <2>3. CASE own \notin EvaluatedReasons
    BY <1>1, <1>3, <2>1, <2>3, EvaluatedMeans DEF c
  <2> QED
    BY <2>2, <2>3
<1>4. CASE EarlyReason(t, c) = None /\ Kind(t, c) # None
  <2> DEFINE compared == PolicyReason(t, c, Kind(t, c))
  <2>1. own = IF compared \in ComparedReasons /\ PostCallVerdict(t, c).mode # "Push"
              THEN "PostCallNotPush" ELSE compared
    BY <1>4 DEF OnItsOwn
  <2>2. Kind(t, c) \in Kinds
    BY <1>4, KindMeans
  <2>3. compared \in LosingReasons \/ Wins(t, c, Kind(t, c), compared)
    BY <1>1, <2>2, PolicyMeans
  <2> HIDE DEF compared, own
  <2>4. CASE compared \in LosingReasons
    <3>1. own \notin ComparedReasons \cup {"EligibleTenpai"}
      BY <2>1, <2>4, ReasonsDiffer
    <3> QED
      BY <3>1 DEF own, c
  <2>5. CASE Wins(t, c, Kind(t, c), compared)
    <3>1. compared \in ComparedReasons
      BY <2>2, <2>5 DEF Wins, ComparedReasons
    <3>2. CASE PostCallVerdict(t, c).mode # "Push"
      <4>1. own \notin ComparedReasons \cup {"EligibleTenpai"}
        BY <2>1, <3>1, <3>2, ReasonsDiffer
      <4> QED
        BY <4>1 DEF own, c
    <3>3. CASE PostCallVerdict(t, c).mode = "Push"
      <4>1. own = compared
        BY <2>1, <3>3
      <4>2. /\ own \in ComparedReasons /\ Kind(t, c) \in Kinds /\ Wins(t, c, Kind(t, c), own)
            /\ EarlyReason(t, c) = None /\ PostCallVerdict(t, c).mode = "Push"
        BY <1>4, <2>2, <2>5, <3>1, <3>3, <4>1
      <4> QED
        BY <4>2 DEF own, c
    <3> QED
      BY <3>2, <3>3
  <2> QED
    BY <2>3, <2>4, <2>5
<1> QED
  BY <1>2, <1>3, <1>4

-----------------------------------------------------------------------------
(* The decision step by step. *)

Offer(i) == table.calls[i]
Early(i) == EarlyReason(table, Offer(i))

\* The first k calls: each its own source, or a twin of an earlier one.
SourcesOK(k) ==
    \A i \in 1 .. k : /\ sources[i] \in 1 .. i /\ sources[sources[i]] = sources[i]
                      /\ sources[i] # i => SameState(Offer(sources[i]), Offer(i))

PrepareInv ==
    /\ next \in Candidates
    /\ sources \in Seq(Nat) /\ Len(sources) = next - 1 /\ SourcesOK(next - 1)
    /\ reasons \in Seq(Reasons \cup {None}) /\ Len(reasons) = next - 1
    /\ \A i \in 1 .. (next - 1) : sources[i] = i => reasons[i] = Early(i)
    /\ passes = {} /\ gates = <<>> /\ counts = [kind \in Kinds |-> 0]

Prepared == sources \in Seq(Nat) /\ Len(sources) = Len(table.calls) /\ SourcesOK(Len(table.calls))

EvaluateInv ==
    /\ next \in 1 .. (Len(table.calls) + 1) /\ Prepared /\ DOMAIN reasons = Candidates
    /\ \A i \in Candidates : sources[i] = i =>
          reasons[i] = IF i < next THEN Base(table, Offer(i)) ELSE Early(i)
    /\ passes \in SUBSET Required /\ (~Overlaps => passes = {})
    /\ gates = <<>> /\ counts = [kind \in Kinds |-> IF kind \in passes THEN 1 ELSE 0]

Finished == {Policies[j] : j \in 1 .. (next - 1)}

CompareInv ==
    /\ next \in 1 .. 4 /\ Prepared /\ DOMAIN reasons = Candidates
    /\ \A i \in Candidates : reasons[i] = AfterPolicies(next, table, Offer(i))
    /\ passes \in {{}, Required} /\ gates = <<>>
    /\ counts = [kind \in Kinds |-> IF kind \in passes \cup (Required \cap Finished) THEN 1 ELSE 0]

CountsFinal == counts = [kind \in Kinds |-> IF kind \in Required THEN 1 ELSE 0]

GateInv ==
    /\ next \in Candidates /\ Prepared /\ DOMAIN reasons = Candidates /\ CountsFinal
    /\ \A i \in Candidates :
          reasons[i] = IF i < next THEN OnItsOwn(table, Offer(i)) ELSE AfterPolicies(5, table, Offer(i))
    /\ gates \in Seq(Verdicts \cup {None}) /\ Len(gates) = next - 1
    /\ \A i \in 1 .. (next - 1) :
          gates[i] = IF AfterPolicies(5, table, Offer(i)) \in ComparedReasons
                     THEN PostCallVerdict(table, Offer(i)) ELSE None

SelectInv ==
    /\ Prepared /\ DOMAIN reasons = Candidates /\ CountsFinal
    /\ \A i \in Candidates : reasons[i] = OnItsOwn(table, Offer(i))

DoneInv ==
    SelectInv /\ called = IF SelectedIndex = 0 THEN None ELSE Offer(SelectedIndex).name

\* One part for each phase.
CallInv ==
    table # None =>
        /\ table \in CallTables
        /\ \/ phase = "prepare" /\ PrepareInv
           \/ phase = "evaluate" /\ EvaluateInv
           \/ phase = "compare" /\ CompareInv
           \/ phase = "gate" /\ GateInv
           \/ phase = "select" /\ SelectInv
           \/ phase = "done" /\ DoneInv

LEMMA OffersAreSo ==
    ASSUME table \in CallTables
    PROVE  /\ Len(table.calls) \in Nat /\ Len(table.calls) > 0
           /\ Candidates = 1 .. Len(table.calls)
           /\ \A i \in Candidates : IsCall(Offer(i))
           /\ \A i, j \in Candidates :
                 Offer(i).key = Offer(j).key /\ Offer(i).key # None => SameState(Offer(i), Offer(j))
           /\ \A i, j \in Candidates : Offer(i).name = Offer(j).name => Offer(i) = Offer(j)
  BY TablesAreSo DEF Candidates, Offer

\* A candidate and the one whose result it shares.
LEMMA ResultsAgree ==
    ASSUME table \in CallTables, Prepared, NEW i \in Candidates
    PROVE  /\ sources[i] \in Candidates /\ sources[i] <= i /\ sources[sources[i]] = sources[i]
           /\ Early(sources[i]) = Early(i)
           /\ Kind(table, Offer(sources[i])) = Kind(table, Offer(i))
           /\ Base(table, Offer(sources[i])) = Base(table, Offer(i))
           /\ \A k : AfterPolicies(k, table, Offer(sources[i])) = AfterPolicies(k, table, Offer(i))
           /\ \A kind : PolicyReason(table, Offer(sources[i]), kind) = PolicyReason(table, Offer(i), kind)
           /\ PostCallVerdict(table, Offer(sources[i])) = PostCallVerdict(table, Offer(i))
           /\ Result(i).value = Offer(i).value /\ Result(i).rank = Offer(i).rank
<1>1. i \in 1 .. Len(table.calls) /\ Candidates = 1 .. Len(table.calls) /\ Len(table.calls) \in Nat
  BY OffersAreSo
<1>2. /\ sources[i] \in 1 .. i /\ sources[sources[i]] = sources[i]
      /\ sources[i] # i => SameState(Offer(sources[i]), Offer(i))
  BY <1>1 DEF Prepared, SourcesOK
<1>3. sources[i] \in Candidates /\ sources[i] <= i
  BY <1>1, <1>2
<1> DEFINE a == Offer(sources[i])
           b == Offer(i)
<1>4. IsCall(a) /\ IsCall(b)
  BY <1>3, OffersAreSo
<1>5. Result(i) = a
  BY DEF Result, Offer
<1>6. CASE sources[i] = i
  BY <1>2, <1>3, <1>5, <1>6
<1>7. CASE sources[i] # i
  <2> HIDE DEF a, b
  <2>1. SameState(a, b)
    BY <1>2, <1>7 DEF a, b
  <2>2. /\ EarlyReason(table, a) = EarlyReason(table, b)
        /\ Kind(table, a) = Kind(table, b) /\ Evaluated(table, a) = Evaluated(table, b)
        /\ \A kind : PolicyReason(table, a, kind) = PolicyReason(table, b, kind)
        /\ PostCallVerdict(table, a) = PostCallVerdict(table, b)
    BY <1>4, <2>1, TwinsComeToTheSame
  <2>3. a.value = b.value /\ a.rank = b.rank
    BY <1>4, <2>1, TwinsAreAlike
  <2>4. Base(table, a) = Base(table, b)
    BY <2>2 DEF Base
  <2>5. \A k : AfterPolicies(k, table, a) = AfterPolicies(k, table, b)
    BY <2>2, <2>4 DEF AfterPolicies
  <2> QED
    BY <1>2, <1>3, <1>5, <2>2, <2>3, <2>4, <2>5 DEF a, b, Early
<1> QED
  BY <1>6, <1>7

\* What passing has to be evaluated for.
LEMMA RequiredIs ==
    ASSUME table \in CallTables, Prepared
    PROVE  /\ Required \subseteq Kinds
           /\ \A i \in Candidates : sources[i] \in Open <=> Early(i) = None
           /\ \A kind \in Kinds :
                 /\ ToCompare(kind) = {i \in Candidates : Early(i) = None /\ Kind(table, Offer(i)) = kind}
                 /\ kind \in Required <=> table.source_known /\ ToCompare(kind) # {}
<1>1. \A i \in Candidates : sources[i] \in Open <=> Early(i) = None
  BY ResultsAgree DEF Open, Early, Offer
<1>2. ASSUME NEW kind \in Kinds
      PROVE  ToCompare(kind) = {i \in Candidates : Early(i) = None /\ Kind(table, Offer(i)) = kind}
  <2>1. \A i \in Candidates : Kind(table, Result(i)) = Kind(table, Offer(i))
    BY ResultsAgree DEF Result, Offer
  <2> QED
    BY <1>1, <2>1 DEF ToCompare
<1>3. Required \subseteq Kinds
  <2>1. \A i \in Open : Kind(table, table.calls[i]) \in Kinds \cup {None}
    BY KindMeans
  <2> QED
    BY <2>1 DEF Required
<1>4. ASSUME NEW kind \in Kinds
      PROVE  kind \in Required <=> table.source_known /\ ToCompare(kind) # {}
  <2>1. kind # None
    BY MarkerAssumption
  <2>2. kind \in Required <=> table.source_known /\ \E i \in Open : Kind(table, Offer(i)) = kind
    BY <2>1 DEF Required, Offer
  <2>3. ASSUME NEW i \in Open, Kind(table, Offer(i)) = kind PROVE i \in ToCompare(kind)
    BY <1>2, <2>3 DEF Open, Early, Offer
  <2>4. ASSUME NEW i \in ToCompare(kind)
        PROVE  sources[i] \in Open /\ Kind(table, Offer(sources[i])) = kind
    BY <2>4 DEF ToCompare, Result, Offer
  <2> QED
    BY <2>2, <2>3, <2>4
<1> QED
  BY <1>1, <1>2, <1>3, <1>4

\* What depends on the calls and their sources only.
LEMMA SameCalls ==
    ASSUME table' = table, sources' = sources
    PROVE  /\ Candidates' = Candidates /\ Prepared' = Prepared /\ Open' = Open
           /\ Required' = Required /\ Overlaps' = Overlaps
<1>1. Candidates' = Candidates
  BY DEF Candidates
<1>2. Prepared' = Prepared
  BY DEF Prepared, SourcesOK, Offer
<1>3. Open' = Open
  BY <1>1 DEF Open
<1>4. Required' = Required
  BY <1>3 DEF Required
<1> QED
  BY <1>1, <1>2, <1>3, <1>4 DEF Overlaps

LEMMA PreparingKeepsInv ==
    ASSUME table \in CallTables, phase = "prepare", PrepareInv, PrepareCall
    PROVE  CallInv'
<1> DEFINE n == Len(table.calls)
           c == Offer(next)
           last == sources'[next]
<1>1. n \in Nat /\ Candidates = 1 .. n /\ next \in 1 .. n /\ DOMAIN sources = 1 .. (next - 1)
  BY OffersAreSo DEF PrepareInv
<1>2. /\ table' = table /\ passes' = {} /\ gates' = <<>> /\ counts' = [kind \in Kinds |-> 0]
  BY DEF PrepareCall, PrepareInv
<1>3. PICK source, reason :
        /\ sources' = Append(sources, source) /\ reasons' = Append(reasons, reason)
        /\ \/ source \in Twins(c) /\ reason = None
           \/ source = next /\ reason = Early(next)
  <2>1. CASE Twins(c) # {}
    BY <2>1 DEF PrepareCall, Offer
  <2>2. CASE Twins(c) = {}
    BY <2>2 DEF PrepareCall, Offer, Early
  <2> QED
    BY <2>1, <2>2
<1>4. /\ source \in 1 .. next /\ reason \in Reasons \cup {None}
      /\ source # next => /\ source \in 1 .. (next - 1) /\ sources[source] = source
                          /\ SameState(Offer(source), Offer(next))
      /\ source = next => reason = Early(next)
  <2>1. CASE source \in Twins(c)
    <3>1. /\ source \in DOMAIN sources /\ sources[source] = source
          /\ c.key # None /\ Offer(source).key = c.key /\ reason = None
      <4>1. reason = None
        <5>1. source # next
          BY <1>1, <2>1 DEF Twins
        <5> QED
          BY <1>3, <5>1
      <4> QED
        BY <2>1, <4>1 DEF Twins, Offer
    <3>2. source \in Candidates /\ next \in Candidates
      BY <1>1, <3>1
    <3>3. SameState(Offer(source), Offer(next))
      BY <3>1, <3>2, OffersAreSo
    <3> QED
      BY <1>1, <3>1, <3>3
  <2>2. CASE source = next /\ reason = Early(next)
    <3>1. Early(next) \in Reasons \cup {None}
      BY EarlyMeans DEF Early, EarlyReasons, Reasons
    <3> QED
      BY <1>1, <2>2, <3>1
  <2> QED
    BY <1>3, <2>1, <2>2
<1>5. /\ sources' \in Seq(Nat) /\ Len(sources') = next
      /\ \A i \in 1 .. (next - 1) : sources'[i] = sources[i]
      /\ sources'[next] = source
  BY <1>1, <1>3, <1>4 DEF PrepareInv
<1>6. /\ reasons' \in Seq(Reasons \cup {None}) /\ Len(reasons') = next /\ DOMAIN reasons' = 1 .. next
      /\ \A i \in 1 .. (next - 1) : reasons'[i] = reasons[i]
      /\ reasons'[next] = reason
  BY <1>1, <1>3, <1>4 DEF PrepareInv
<1>7. ASSUME NEW i \in 1 .. next
      PROVE  /\ sources'[i] \in 1 .. i /\ sources'[sources'[i]] = sources'[i]
             /\ sources'[i] # i => SameState(Offer(sources'[i]), Offer(i))
             /\ sources'[i] = i => reasons'[i] = Early(i)
  <2>1. CASE i = next
    <3>1. CASE source = next
      BY <1>4, <1>5, <1>6, <2>1, <3>1
    <3>2. CASE source # next
      BY <1>4, <1>5, <2>1, <3>2
    <3> QED
      BY <3>1, <3>2
  <2>2. CASE i # next
    <3>1. i \in 1 .. (next - 1)
      BY <1>1, <2>2
    <3>2. /\ sources[i] \in 1 .. i /\ sources[sources[i]] = sources[i]
          /\ sources[i] # i => SameState(Offer(sources[i]), Offer(i))
          /\ sources[i] = i => reasons[i] = Early(i)
      BY <3>1 DEF PrepareInv, SourcesOK
    <3>3. sources[i] \in 1 .. (next - 1)
      BY <1>1, <3>1, <3>2
    <3> QED
      BY <1>5, <1>6, <3>1, <3>2, <3>3
  <2> QED
    BY <2>1, <2>2
<1>8. CASE next < n
  <2>1. next' = next + 1 /\ phase' = "prepare"
    BY <1>8 DEF PrepareCall, Step
  <2>2. next' \in Candidates' /\ next' - 1 = next
    BY <1>1, <1>2, <1>8, <2>1 DEF Candidates
  <2>3. SourcesOK(next - 1)'
    BY <1>2, <1>7, <2>2 DEF SourcesOK, Offer
  <2>4. \A i \in 1 .. (next' - 1) : sources'[i] = i => reasons'[i] = Early(i)'
    BY <1>2, <1>7, <2>2 DEF Early, Offer
  <2>5. PrepareInv'
    BY <1>2, <1>5, <1>6, <2>2, <2>3, <2>4 DEF PrepareInv
  <2> QED
    BY <1>2, <2>1, <2>5 DEF CallInv
<1>9. CASE ~(next < n)
  <2>1. next' = 1 /\ phase' = "evaluate" /\ next = n
    BY <1>1, <1>9 DEF PrepareCall, Step
  <2>2. Prepared'
    BY <1>2, <1>5, <1>7, <2>1 DEF Prepared, SourcesOK, Offer
  <2>3. DOMAIN reasons' = Candidates' /\ next' \in 1 .. (Len(table'.calls) + 1)
    BY <1>1, <1>2, <1>6, <2>1 DEF Candidates
  <2>4. \A i \in Candidates' : sources'[i] = i =>
           reasons'[i] = IF i < next' THEN Base(table, Offer(i))' ELSE Early(i)'
    <3>1. \A i \in 1 .. n : ~(i < 1)
      BY <1>1
    <3> QED
      BY <1>1, <1>2, <1>7, <2>1, <3>1 DEF Early, Offer, Candidates
  <2>5. EvaluateInv'
    BY <1>2, <2>2, <2>3, <2>4 DEF EvaluateInv
  <2> QED
    BY <1>2, <2>1, <2>5 DEF CallInv
<1> QED
  BY <1>8, <1>9

LEMMA EvaluatingKeepsInv ==
    ASSUME table \in CallTables, phase = "evaluate", EvaluateInv, EvaluateCall
    PROVE  CallInv'
<1>1. /\ table' = table /\ phase' = phase /\ sources' = sources /\ passes' = passes
      /\ counts' = counts /\ gates' = gates /\ next' = next + 1 /\ next \in Candidates
      /\ reasons' = IF next \in Open
                    THEN [reasons EXCEPT ![next] = Evaluated(table, table.calls[next])]
                    ELSE reasons
  BY DEF EvaluateCall
<1>2. Len(table.calls) \in Nat /\ Candidates = 1 .. Len(table.calls) /\ Candidates' = Candidates
  BY <1>1, OffersAreSo DEF Candidates
<1>3. DOMAIN reasons = Candidates
  BY DEF EvaluateInv
<1>4. ASSUME NEW i \in Candidates, sources[i] = i
      PROVE  reasons'[i] = IF i < next + 1 THEN Base(table, Offer(i)) ELSE Early(i)
  <2>1. reasons[i] = IF i < next THEN Base(table, Offer(i)) ELSE Early(i)
    BY <1>4 DEF EvaluateInv
  <2>2. CASE i # next
    <3>1. reasons'[i] = reasons[i] /\ (i < next + 1 <=> i < next)
      BY <1>1, <1>2, <1>3, <2>2
    <3> QED
      BY <2>1, <3>1
  <2>3. CASE i = next /\ next \in Open
    <3>1. reasons'[i] = Evaluated(table, Offer(i)) /\ Early(i) = None /\ i < next + 1
      BY <1>1, <1>2, <1>3, <2>3 DEF Open, Early, Offer
    <3> QED
      BY <3>1 DEF Base, Early
  <2>4. CASE i = next /\ next \notin Open
    <3>1. reasons'[i] = Early(i) /\ Early(i) # None /\ i < next + 1
      BY <1>1, <1>2, <1>4, <2>1, <2>4 DEF Open, Early, Offer
    <3> QED
      BY <3>1 DEF Base, Early
  <2> QED
    BY <2>2, <2>3, <2>4
<1>5. DOMAIN reasons' = Candidates
  BY <1>1, <1>3
<1>6. next' \in 1 .. (Len(table.calls) + 1)
  BY <1>1, <1>2
<1>7. Prepared' /\ Required' = Required /\ Overlaps' = Overlaps
  BY <1>1, SameCalls DEF EvaluateInv
<1>8. \A i \in Candidates' : sources'[i] = i =>
         reasons'[i] = IF i < next' THEN Base(table, Offer(i))' ELSE Early(i)'
  BY <1>1, <1>2, <1>4 DEF Early, Offer
<1>9. EvaluateInv'
  BY <1>1, <1>2, <1>5, <1>6, <1>7, <1>8 DEF EvaluateInv
<1> QED
  BY <1>1, <1>9 DEF CallInv

LEMMA PassingKeepsInv ==
    ASSUME table \in CallTables, phase = "evaluate", EvaluateInv, EvaluatePass
    PROVE  CallInv'
<1> DEFINE places == {k \in DOMAIN PassOrder : PassOrder[k] \in Required \ passes}
           kind == PassOrder[First(places)]
<1>1. /\ table' = table /\ phase' = phase /\ sources' = sources /\ next' = next
      /\ reasons' = reasons /\ gates' = gates
      /\ passes' = passes \cup {kind} /\ counts' = [counts EXCEPT ![kind] = @ + 1]
      /\ Overlaps /\ Required \ passes # {}
  BY DEF EvaluatePass, CountPass
<1>2. Required \subseteq Kinds
  BY RequiredIs DEF EvaluateInv
<1>3. kind \in Required \ passes
  <2>1. DOMAIN PassOrder = 1 .. 4 /\ \A k \in Kinds : \E j \in 1 .. 4 : PassOrder[j] = k
    BY DEF PassOrder, Kinds, CallHigher
  <2>2. places # {} /\ places \in SUBSET Nat
    BY <1>1, <1>2, <2>1
  <2>3. First(places) \in places
    BY <2>2, FirstIsLeast
  <2> QED
    BY <2>3
<1> HIDE DEF kind
<1>4. counts' = [k \in Kinds |-> IF k \in passes' THEN 1 ELSE 0]
  <2>1. counts = [k \in Kinds |-> IF k \in passes THEN 1 ELSE 0]
    BY DEF EvaluateInv
  <2>2. counts[kind] = 0
    BY <1>2, <1>3, <2>1
  <2>3. counts' = [counts EXCEPT ![kind] = 1]
    BY <1>1, <2>2
  <2>4. \A k \in Kinds : counts'[k] = IF k \in passes \cup {kind} THEN 1 ELSE 0
    BY <1>2, <1>3, <2>1, <2>3
  <2> QED
    BY <1>1, <2>1, <2>3, <2>4
<1>5. Prepared' /\ Required' = Required /\ Overlaps' = Overlaps
  BY <1>1, SameCalls DEF EvaluateInv
<1>6. passes' \in SUBSET Required' /\ (~Overlaps' => passes' = {})
  BY <1>1, <1>3, <1>5 DEF EvaluateInv
<1>7. EvaluateInv'
  BY <1>1, <1>4, <1>5, <1>6 DEF EvaluateInv, Candidates, Early, Offer
<1> QED
  BY <1>1, <1>7 DEF CallInv

LEMMA JoiningKeepsInv ==
    ASSUME table \in CallTables, phase = "evaluate", EvaluateInv, Join
    PROVE  CallInv'
<1>1. /\ table' = table /\ phase' = "compare" /\ next' = 1 /\ sources' = sources
      /\ passes' = passes /\ counts' = counts /\ gates' = gates /\ next \notin Candidates
      /\ reasons' = [i \in Candidates |-> reasons[sources[i]]]
      /\ (Overlaps => passes = Required)
  BY DEF Join
<1>2. Len(table.calls) \in Nat /\ Candidates = 1 .. Len(table.calls) /\ Candidates' = Candidates
  BY <1>1, OffersAreSo DEF Candidates
<1>3. next = Len(table.calls) + 1
  BY <1>1, <1>2 DEF EvaluateInv
<1>4. ASSUME NEW i \in Candidates
      PROVE  reasons'[i] = AfterPolicies(1, table, Offer(i))
  <2>1. /\ sources[i] \in Candidates /\ sources[sources[i]] = sources[i]
        /\ Base(table, Offer(sources[i])) = Base(table, Offer(i))
    BY ResultsAgree DEF EvaluateInv
  <2>2. reasons[sources[i]] = Base(table, Offer(sources[i]))
    <3>1. reasons[sources[i]] = IF sources[i] < next THEN Base(table, Offer(sources[i])) ELSE Early(sources[i])
      BY <2>1 DEF EvaluateInv
    <3>2. sources[i] < next
      BY <1>2, <1>3, <2>1
    <3> QED
      BY <3>1, <3>2
  <2>3. AfterPolicies(1, table, Offer(i)) = Base(table, Offer(i))
    BY DEF AfterPolicies
  <2> QED
    BY <1>1, <2>1, <2>2, <2>3
<1>5. Prepared' /\ Required' = Required
  BY <1>1, SameCalls DEF EvaluateInv
<1>6. passes' \in {{}, Required'}
  BY <1>1, <1>5 DEF EvaluateInv
<1>7. Finished' = {}
  BY <1>1 DEF Finished
<1>8. counts' = [kind \in Kinds |-> IF kind \in passes' \cup (Required' \cap Finished') THEN 1 ELSE 0]
  BY <1>1, <1>7 DEF EvaluateInv
<1>9. \A i \in Candidates' : reasons'[i] = AfterPolicies(next, table, Offer(i))'
  BY <1>1, <1>2, <1>4 DEF AfterPolicies, Base, Offer
<1>10. DOMAIN reasons' = Candidates' /\ next' \in 1 .. 4 /\ gates' = <<>>
  BY <1>1, <1>2 DEF EvaluateInv
<1>11. CompareInv'
  BY <1>5, <1>6, <1>8, <1>9, <1>10 DEF CompareInv
<1> QED
  BY <1>1, <1>11 DEF CallInv

LEMMA OnePolicyMore ==
    ASSUME NEW t, NEW c, NEW k \in 1 .. 4
    PROVE  AfterPolicies(k + 1, t, c) =
             IF EarlyReason(t, c) = None /\ Policies[k] = Kind(t, c)
             THEN PolicyReason(t, c, Kind(t, c)) ELSE AfterPolicies(k, t, c)
<1> DEFINE applied(m) == \E j \in 1 .. (m - 1) : Policies[j] = Kind(t, c)
<1>1. applied(k + 1) <=> applied(k) \/ Policies[k] = Kind(t, c)
  <2>1. \A j : j \in 1 .. (k + 1 - 1) <=> j \in 1 .. (k - 1) \/ j = k
    OBVIOUS
  <2>2. ASSUME applied(k + 1) PROVE applied(k) \/ Policies[k] = Kind(t, c)
    <3>1. PICK j \in 1 .. (k + 1 - 1) : Policies[j] = Kind(t, c)
      BY <2>2
    <3> QED
      BY <2>1, <3>1
  <2>3. ASSUME applied(k) PROVE applied(k + 1)
    <3>1. PICK j \in 1 .. (k - 1) : Policies[j] = Kind(t, c)
      BY <2>3
    <3>2. j \in 1 .. (k + 1 - 1)
      BY <2>1, <3>1
    <3> QED
      BY <3>1, <3>2
  <2>4. ASSUME Policies[k] = Kind(t, c) PROVE applied(k + 1)
    <3>1. k \in 1 .. (k + 1 - 1)
      OBVIOUS
    <3> QED
      BY <2>4, <3>1
  <2> QED
    BY <2>2, <2>3, <2>4
<1>2. \A m : AfterPolicies(m, t, c) = IF EarlyReason(t, c) = None /\ applied(m)
                                     THEN PolicyReason(t, c, Kind(t, c)) ELSE Base(t, c)
  BY DEF AfterPolicies
<1> HIDE DEF applied
<1>3. AfterPolicies(k + 1, t, c) = IF EarlyReason(t, c) = None /\ applied(k + 1)
                                  THEN PolicyReason(t, c, Kind(t, c)) ELSE Base(t, c)
  BY <1>2
<1>4. AfterPolicies(k, t, c) = IF EarlyReason(t, c) = None /\ applied(k)
                              THEN PolicyReason(t, c, Kind(t, c)) ELSE Base(t, c)
  BY <1>2
<1> QED
  BY <1>1, <1>3, <1>4, Zenon

LEMMA PolicyKeepsInv ==
    ASSUME table \in CallTables, phase = "compare", CompareInv, ApplyPolicy
    PROVE  CallInv'
<1> DEFINE kind == Policies[next]
           done == Finished \cup {kind}
<1>1. /\ table' = table /\ sources' = sources /\ passes' = passes /\ gates' = gates
      /\ reasons' = [i \in Candidates |->
                        IF i \in ToCompare(kind) THEN PolicyReason(table, Result(i), kind) ELSE reasons[i]]
      /\ IF ToCompare(kind) # {} /\ table.source_known /\ kind \notin passes
         THEN counts' = [counts EXCEPT ![kind] = @ + 1] ELSE counts' = counts
      /\ IF next < 4 THEN next' = next + 1 /\ phase' = phase ELSE next' = 1 /\ phase' = "gate"
  BY DEF ApplyPolicy, CountPass, Step, Policies
<1>2. Len(table.calls) \in Nat /\ Candidates = 1 .. Len(table.calls) /\ Candidates' = Candidates
  BY <1>1, OffersAreSo DEF Candidates
<1>3. next \in 1 .. 4 /\ kind \in Kinds /\ Prepared
  BY PoliciesCoverKinds DEF CompareInv
<1>4. /\ Required \subseteq Kinds
      /\ ToCompare(kind) = {i \in Candidates : Early(i) = None /\ Kind(table, Offer(i)) = kind}
      /\ kind \in Required <=> table.source_known /\ ToCompare(kind) # {}
  BY <1>3, RequiredIs
<1>5. ASSUME NEW i \in Candidates
      PROVE  reasons'[i] = AfterPolicies(next + 1, table, Offer(i))
  <2>1. PolicyReason(table, Result(i), kind) = PolicyReason(table, Offer(i), kind)
    BY <1>3, ResultsAgree DEF Result, Offer
  <2>2. reasons[i] = AfterPolicies(next, table, Offer(i))
    BY DEF CompareInv
  <2>3. AfterPolicies(next + 1, table, Offer(i)) =
          IF Early(i) = None /\ kind = Kind(table, Offer(i))
          THEN PolicyReason(table, Offer(i), Kind(table, Offer(i))) ELSE AfterPolicies(next, table, Offer(i))
    BY <1>3, OnePolicyMore DEF Early
  <2> QED
    BY <1>1, <1>4, <2>1, <2>2, <2>3
<1>6. counts' = [k \in Kinds |-> IF k \in passes \cup (Required \cap done) THEN 1 ELSE 0]
  <2>1. counts = [k \in Kinds |-> IF k \in passes \cup (Required \cap Finished) THEN 1 ELSE 0]
    BY DEF CompareInv
  <2>2. kind \notin Finished
    BY <1>3, PoliciesCoverKinds DEF Finished
  <2> HIDE DEF kind
  <2>3. CASE kind \in Required /\ kind \notin passes
    <3>1. counts[kind] = 0
      BY <1>3, <2>1, <2>2, <2>3
    <3>2. counts' = [counts EXCEPT ![kind] = 1]
      BY <1>1, <1>4, <2>3, <3>1
    <3>3. \A k \in Kinds : counts'[k] = IF k \in passes \cup (Required \cap done) THEN 1 ELSE 0
      BY <1>3, <2>1, <2>3, <3>2
    <3> QED
      BY <2>1, <3>2, <3>3
  <2>4. CASE ~(kind \in Required /\ kind \notin passes)
    <3>1. counts' = counts
      BY <1>1, <1>4, <2>4
    <3>2. passes \cup (Required \cap done) = passes \cup (Required \cap Finished)
      BY <2>4
    <3> QED
      BY <2>1, <3>1, <3>2
  <2> QED
    BY <2>3, <2>4
<1>7. Prepared' /\ Required' = Required
  BY <1>1, <1>3, SameCalls
<1>8. DOMAIN reasons' = Candidates' /\ gates' = <<>> /\ passes' \in {{}, Required'}
  BY <1>1, <1>2, <1>7 DEF CompareInv
<1>9. CASE next < 4
  <2>1. next' = next + 1 /\ phase' = "compare" /\ next' \in 1 .. 4
    BY <1>1, <1>3, <1>9
  <2>2. Finished' = done
    BY <1>3, <2>1 DEF Finished
  <2>3. counts' = [k \in Kinds |-> IF k \in passes' \cup (Required' \cap Finished') THEN 1 ELSE 0]
    BY <1>1, <1>6, <1>7, <2>2
  <2>4. \A i \in Candidates' : reasons'[i] = AfterPolicies(next, table, Offer(i))'
    BY <1>1, <1>2, <1>5, <2>1 DEF AfterPolicies, Base, Offer
  <2>5. CompareInv'
    BY <1>7, <1>8, <2>1, <2>3, <2>4 DEF CompareInv
  <2> QED
    BY <1>1, <2>1, <2>5 DEF CallInv
<1>10. CASE ~(next < 4)
  <2>1. next = 4 /\ next' = 1 /\ phase' = "gate"
    BY <1>1, <1>3, <1>10
  <2>2. done = Kinds
    BY <2>1, PoliciesCoverKinds DEF Finished
  <2>3. passes \cup (Required \cap done) = Required
    BY <1>4, <2>2 DEF CompareInv
  <2>4. CountsFinal'
    BY <1>6, <1>7, <2>3 DEF CountsFinal
  <2>5. \A i \in Candidates' :
          reasons'[i] = IF i < next' THEN OnItsOwn(table, Offer(i))' ELSE AfterPolicies(5, table, Offer(i))'
    <3>1. \A i \in Candidates : ~(i < 1) /\ reasons'[i] = AfterPolicies(5, table, Offer(i))
      BY <1>2, <1>5, <2>1
    <3> QED
      BY <1>1, <1>2, <2>1, <3>1 DEF AfterPolicies, Base, Offer
  <2>6. next' \in Candidates' /\ gates' \in Seq(Verdicts \cup {None}) /\ Len(gates') = next' - 1
        /\ next' - 1 = 0
    BY <1>2, <1>8, <2>1, OffersAreSo
  <2>7. GateInv'
    BY <1>7, <1>8, <2>4, <2>5, <2>6 DEF GateInv
  <2> QED
    BY <1>1, <2>1, <2>7 DEF CallInv
<1> QED
  BY <1>9, <1>10

LEMMA GateKeepsInv ==
    ASSUME table \in CallTables, phase = "gate", GateInv, GateCall
    PROVE  CallInv'
<1> DEFINE n == Len(table.calls)
           compared(i) == AfterPolicies(5, table, Offer(i))
           verdict == PostCallVerdict(table, Offer(next))
<1>1. /\ table' = table /\ sources' = sources /\ passes' = passes /\ counts' = counts
      /\ IF next < n THEN next' = next + 1 /\ phase' = phase ELSE next' = 1 /\ phase' = "select"
  BY DEF GateCall, Step
<1>2. n \in Nat /\ Candidates = 1 .. n /\ Candidates' = Candidates /\ next \in 1 .. n
  BY <1>1, OffersAreSo DEF Candidates, GateInv
<1>3. /\ Prepared /\ DOMAIN reasons = Candidates /\ Len(gates) = next - 1
      /\ gates \in Seq(Verdicts \cup {None}) /\ reasons[next] = compared(next)
  BY <1>2 DEF GateInv
<1>4. verdict \in Verdicts /\ verdict # None
  BY VerdictTypes, VerdictAssumption DEF PostCallVerdict
<1>5. OnItsOwn(table, Offer(next)) =
        IF compared(next) \in ComparedReasons /\ verdict.mode # "Push"
        THEN "PostCallNotPush" ELSE compared(next)
  BY <1>2, OwnIs DEF Candidates, Offer
<1>6. ASSUME sources[next] # next, compared(next) \in ComparedReasons
      PROVE  gates[sources[next]] = verdict
  <2>1. /\ sources[next] \in 1 .. (next - 1)
        /\ compared(sources[next]) = compared(next)
        /\ PostCallVerdict(table, Offer(sources[next])) = verdict
    BY <1>2, <1>3, <1>6, ResultsAgree
  <2>2. gates[sources[next]] = IF compared(sources[next]) \in ComparedReasons
                               THEN PostCallVerdict(table, Offer(sources[next])) ELSE None
    BY <2>1 DEF GateInv
  <2> QED
    BY <1>6, <2>1, <2>2
<1> DEFINE own == OnItsOwn(table, Offer(next))
           Gated == /\ DOMAIN reasons' = Candidates
                    /\ \A i \in Candidates : reasons'[i] = IF i = next THEN own ELSE reasons[i]
<1> HIDE DEF verdict, compared, own
<1>7. PICK gate : /\ gates' = Append(gates, gate)
                  /\ gate = IF compared(next) \in ComparedReasons THEN verdict ELSE None
                  /\ Gated
  <2>1. CASE compared(next) \in ComparedReasons
    <3>1. gates' = Append(gates, verdict)
          /\ reasons' = IF verdict # None /\ verdict.mode = "Push" THEN reasons
                        ELSE [reasons EXCEPT ![next] = IF verdict = None
                                                       THEN "PostCallEvaluationUnavailable"
                                                       ELSE "PostCallNotPush"]
      <4>1. CASE sources[next] # next
        BY <1>3, <1>6, <2>1, <4>1 DEF GateCall
      <4>2. CASE sources[next] = next
        BY <1>3, <2>1, <4>2 DEF GateCall, Offer, verdict
      <4> QED
        BY <4>1, <4>2
    <3>2. Gated
      <4>1. CASE verdict.mode = "Push"
        <5>1. own = reasons[next]
          BY <1>3, <1>5, <4>1 DEF own
        <5>2. reasons' = reasons
          BY <1>4, <3>1, <4>1
        <5> QED
          BY <1>2, <1>3, <5>1, <5>2
      <4>2. CASE verdict.mode # "Push"
        BY <1>2, <1>3, <1>4, <1>5, <2>1, <3>1, <4>2 DEF own
      <4> QED
        BY <4>1, <4>2
    <3> QED
      BY <2>1, <3>1, <3>2
  <2>2. CASE compared(next) \notin ComparedReasons
    <3>1. gates' = Append(gates, None) /\ reasons' = reasons
      BY <1>3, <2>2 DEF GateCall
    <3>2. own = reasons[next]
      BY <1>3, <1>5, <2>2 DEF own
    <3>3. Gated
      BY <1>2, <1>3, <3>1, <3>2
    <3> QED
      BY <2>2, <3>1, <3>3
  <2> QED
    BY <2>1, <2>2
<1>8. /\ gates' \in Seq(Verdicts \cup {None}) /\ Len(gates') = next
      /\ \A i \in 1 .. next : gates'[i] = IF compared(i) \in ComparedReasons
                                         THEN PostCallVerdict(table, Offer(i)) ELSE None
  <2>1. gates' \in Seq(Verdicts \cup {None}) /\ Len(gates') = next
    BY <1>2, <1>3, <1>4, <1>7
  <2>2. ASSUME NEW i \in 1 .. next
        PROVE  gates'[i] = IF compared(i) \in ComparedReasons
                           THEN PostCallVerdict(table, Offer(i)) ELSE None
    <3>1. CASE i = next
      <4>1. gates'[i] = gate
        BY <1>2, <1>3, <1>7, <3>1
      <4> QED
        BY <1>7, <3>1, <4>1 DEF verdict
    <3>2. CASE i # next
      <4>1. gates'[i] = gates[i] /\ i \in 1 .. (next - 1)
        BY <1>2, <1>3, <1>7, <3>2
      <4> QED
        BY <4>1 DEF GateInv, compared
    <3> QED
      BY <3>1, <3>2
  <2> QED
    BY <2>1, <2>2
<1>9. /\ DOMAIN reasons' = Candidates
      /\ \A i \in Candidates : reasons'[i] = IF i < next + 1 THEN OnItsOwn(table, Offer(i)) ELSE compared(i)
  <2>1. DOMAIN reasons' = Candidates
    BY <1>7
  <2>2. ASSUME NEW i \in Candidates
        PROVE  reasons'[i] = IF i < next + 1 THEN OnItsOwn(table, Offer(i)) ELSE compared(i)
    <3>1. CASE i = next
      BY <1>2, <1>7, <3>1 DEF own
    <3>2. CASE i # next
      <4>1. reasons'[i] = reasons[i] /\ (i < next + 1 <=> i < next)
        BY <1>2, <1>3, <1>7, <3>2
      <4> QED
        BY <4>1 DEF GateInv, compared
    <3> QED
      BY <3>1, <3>2
  <2> QED
    BY <2>1, <2>2
<1>10. Prepared' /\ CountsFinal'
  <2>1. Prepared' /\ Required' = Required
    BY <1>1, <1>3, SameCalls
  <2> QED
    BY <1>1, <2>1 DEF GateInv, CountsFinal
<1>11. CASE next < n
  <2>1. next' = next + 1 /\ phase' = "gate" /\ next' \in Candidates' /\ next' - 1 = next
    BY <1>1, <1>2, <1>11
  <2>2. \A i \in Candidates' :
          reasons'[i] = IF i < next' THEN OnItsOwn(table, Offer(i))' ELSE AfterPolicies(5, table, Offer(i))'
    BY <1>1, <1>2, <1>9, <2>1 DEF compared, AfterPolicies, Base, OnItsOwn, Offer
  <2>3. \A i \in 1 .. (next' - 1) :
          gates'[i] = IF AfterPolicies(5, table, Offer(i))' \in ComparedReasons
                      THEN PostCallVerdict(table, Offer(i))' ELSE None
    BY <1>1, <1>8, <2>1 DEF compared, AfterPolicies, Base, PostCallVerdict, Offer
  <2>4. GateInv'
    BY <1>2, <1>8, <1>9, <1>10, <2>1, <2>2, <2>3 DEF GateInv
  <2> QED
    BY <1>1, <2>1, <2>4 DEF CallInv
<1>12. CASE ~(next < n)
  <2>1. phase' = "select" /\ next = n
    BY <1>1, <1>2, <1>12
  <2>2. \A i \in Candidates' : reasons'[i] = OnItsOwn(table, Offer(i))'
    <3>1. \A i \in Candidates : i < next + 1
      BY <1>2, <2>1
    <3> QED
      BY <1>1, <1>2, <1>9, <3>1 DEF OnItsOwn, Offer
  <2>3. SelectInv'
    BY <1>2, <1>9, <1>10, <2>2 DEF SelectInv
  <2> QED
    BY <1>1, <2>1, <2>3 DEF CallInv
<1> QED
  BY <1>11, <1>12

LEMMA SameSelection ==
    ASSUME table' = table, sources' = sources, reasons' = reasons
    PROVE  SelectedIndex' = SelectedIndex
<1>1. \A reason : For(reason)' = For(reason)
  BY DEF For, Candidates
<1>2. \A i : Result(i)' = Result(i)
  BY DEF Result
<1> QED
  BY <1>1, <1>2 DEF SelectedIndex, FirstBest

LEMMA SelectKeepsInv ==
    ASSUME table \in CallTables, phase = "select", SelectInv, SelectCall
    PROVE  CallInv'
<1>1. /\ table' = table /\ sources' = sources /\ reasons' = reasons /\ counts' = counts
      /\ phase' = "done"
      /\ called' = IF SelectedIndex = 0 THEN None ELSE Offer(SelectedIndex).name
  BY DEF SelectCall, Offer
<1>2. Candidates' = Candidates /\ Prepared' = Prepared /\ Required' = Required
      /\ SelectedIndex' = SelectedIndex
  BY <1>1, SameCalls, SameSelection
<1>3. SelectInv'
  BY <1>1, <1>2 DEF SelectInv, CountsFinal, Offer
<1>4. DoneInv'
  BY <1>1, <1>2, <1>3 DEF DoneInv, Offer
<1> QED
  BY <1>1, <1>4 DEF CallInv

LEMMA StartOfCalls ==
    ASSUME table' \in CallTables, next' = 1, sources' = <<>>, reasons' = <<>>, passes' = {},
           gates' = <<>>, counts' = [kind \in Kinds |-> 0], phase' = "prepare"
    PROVE  CallInv'
<1>1. next' \in Candidates' /\ next' - 1 = 0
  BY TablesAreSo DEF Candidates
<1>2. PrepareInv'
  BY <1>1 DEF PrepareInv, SourcesOK
<1> QED
  BY <1>2 DEF CallInv

LEMMA SameCallVars == CallInv /\ UNCHANGED callVars => CallInv'
<1> SUFFICES ASSUME CallInv, UNCHANGED callVars PROVE CallInv'
  OBVIOUS
<1>1. /\ table' = table /\ phase' = phase /\ next' = next /\ sources' = sources
      /\ reasons' = reasons /\ passes' = passes /\ counts' = counts /\ gates' = gates
      /\ called' = called
  BY DEF callVars
<1>2. /\ Candidates' = Candidates /\ Prepared' = Prepared /\ Required' = Required
      /\ Overlaps' = Overlaps /\ SelectedIndex' = SelectedIndex
  BY <1>1, SameCalls, SameSelection
<1>3. PrepareInv' = PrepareInv
  BY <1>1, <1>2 DEF PrepareInv, SourcesOK, Early, Offer
<1>4. EvaluateInv' = EvaluateInv
  BY <1>1, <1>2 DEF EvaluateInv, Early, Offer
<1>5. CompareInv' = CompareInv
  BY <1>1, <1>2 DEF CompareInv, Finished, Offer
<1>6. CountsFinal' = CountsFinal
  BY <1>1, <1>2 DEF CountsFinal
<1>7. GateInv' = GateInv
  BY <1>1, <1>2, <1>6 DEF GateInv, Offer
<1>8. SelectInv' = SelectInv
  BY <1>1, <1>2, <1>6 DEF SelectInv, Offer
<1>9. DoneInv' = DoneInv
  BY <1>1, <1>2, <1>8 DEF DoneInv, Offer
<1> QED
  BY <1>1, <1>3, <1>4, <1>5, <1>7, <1>8, <1>9 DEF CallInv

LEMMA CallInvInit == CallsInit => CallInv
<1> SUFFICES ASSUME CallsInit, table # None PROVE CallInv
  BY DEF CallInv
<1>1. /\ table \in CallTables /\ phase = "prepare" /\ next = 1 /\ sources = <<>> /\ reasons = <<>>
      /\ passes = {} /\ gates = <<>> /\ counts = [kind \in Kinds |-> 0]
  BY DEF CallsInit, CallInit
<1>2. next \in Candidates /\ next - 1 = 0
  BY <1>1, TablesAreSo DEF Candidates
<1>3. PrepareInv
  BY <1>1, <1>2 DEF PrepareInv, SourcesOK
<1> QED
  BY <1>1, <1>3 DEF CallInv

LEMMA CallInvStep == CallInv /\ [CallsNext]_callsVars => CallInv'
<1> SUFFICES ASSUME CallInv, [CallsNext]_callsVars PROVE CallInv'
  OBVIOUS
<1>1. CASE ConsiderCalls
  <2>1. CallNext /\ phase # "done"
    BY <1>1 DEF ConsiderCalls
  <2>2. table' = table
    BY <2>1 DEF CallNext, PrepareCall, EvaluateCall, EvaluatePass, Join, ApplyPolicy, GateCall, SelectCall
  <2>3. CASE table = None
    BY <2>2, <2>3 DEF CallInv
  <2>4. CASE table # None
    <3>1. table \in CallTables
      BY <2>4 DEF CallInv
    <3>2. CASE PrepareCall
      <4>1. phase = "prepare" /\ PrepareInv
        BY <2>4, <3>2 DEF CallInv, PrepareCall
      <4> QED
        BY <3>1, <3>2, <4>1, PreparingKeepsInv
    <3>3. CASE EvaluateCall \/ EvaluatePass \/ Join
      <4>1. phase = "evaluate" /\ EvaluateInv
        BY <2>4, <3>3 DEF CallInv, EvaluateCall, EvaluatePass, Join
      <4> QED
        BY <3>1, <3>3, <4>1, EvaluatingKeepsInv, PassingKeepsInv, JoiningKeepsInv
    <3>4. CASE ApplyPolicy
      <4>1. phase = "compare" /\ CompareInv
        BY <2>4, <3>4 DEF CallInv, ApplyPolicy
      <4> QED
        BY <3>1, <3>4, <4>1, PolicyKeepsInv
    <3>5. CASE GateCall
      <4>1. phase = "gate" /\ GateInv
        BY <2>4, <3>5 DEF CallInv, GateCall
      <4> QED
        BY <3>1, <3>5, <4>1, GateKeepsInv
    <3>6. CASE SelectCall
      <4>1. phase = "select" /\ SelectInv
        BY <2>4, <3>6 DEF CallInv, SelectCall
      <4> QED
        BY <3>1, <3>6, <4>1, SelectKeepsInv
    <3> QED
      BY <2>1, <3>2, <3>3, <3>4, <3>5, <3>6 DEF CallNext
  <2> QED
    BY <2>3, <2>4
<1>2. CASE DecidePosition
  <2>1. CASE UNCHANGED callVars
    BY <2>1, SameCallVars
  <2>2. CASE RestartCalls
    <3>1. CASE table = None
      BY <2>2, <3>1 DEF RestartCalls, CallInv
    <3>2. CASE table # None
      <4>1. table \in CallTables
        BY <3>2 DEF CallInv
      <4> QED
        BY <2>2, <3>2, <4>1, StartOfCalls DEF RestartCalls
    <3> QED
      BY <3>1, <3>2
  <2> QED
    BY <1>2, <2>1, <2>2 DEF DecidePosition
<1>3. CASE AskForDiscard
  BY <1>3 DEF AskForDiscard, CallInv
<1>4. CASE UNCHANGED callsVars
  BY <1>4, SameCallVars DEF callsVars
<1> QED
  BY <1>1, <1>2, <1>3, <1>4 DEF CallsNext

(* The whole decision, phase by phase: which candidate shares whose result, what *)
(* every candidate stands at, how often passing has been evaluated for each      *)
(* comparison and what the gate has said.                                        *)
THEOREM CallInvCorrect == CallsSpec => []CallInv
  BY CallInvInit, CallInvStep, PTL DEF CallsSpec

-----------------------------------------------------------------------------
(* What holds when the decision is done. *)

LEMMA DoneMeans ==
    ASSUME CallInv, CallDone
    PROVE  table \in CallTables /\ DoneInv
  BY DEF CallInv, CallDone

(* Neither the results shared between calls that leave the same hand, nor the    *)
(* thread that evaluates passing beside them, nor the order of the policies      *)
(* changes what any call comes to.                                               *)
THEOREM ShortcutsCorrect == CallsSpec => []ShortcutsChangeNothing
<1>1. CallInv => ShortcutsChangeNothing
  BY DoneMeans DEF ShortcutsChangeNothing, DoneInv, SelectInv, Offer
<1> QED
  BY <1>1, CallInvCorrect, PTL

(* Passing is evaluated once for each comparison that some call asks for, and    *)
(* for no other.                                                                 *)
THEOREM PassOnceCorrect == CallsSpec => []PassIsEvaluatedOnce
<1>1. CallInv => PassIsEvaluatedOnce
  <2> SUFFICES ASSUME CallInv, CallDone, NEW kind \in Kinds
               PROVE  counts[kind] =
                        IF table.source_known /\ \E i \in Candidates :
                               /\ EarlyReason(table, table.calls[i]) = None
                               /\ Kind(table, table.calls[i]) = kind
                        THEN 1 ELSE 0
    BY DEF PassIsEvaluatedOnce
  <2>1. table \in CallTables /\ Prepared /\ CountsFinal
    BY DoneMeans DEF DoneInv, SelectInv
  <2>2. /\ ToCompare(kind) = {i \in Candidates : Early(i) = None /\ Kind(table, Offer(i)) = kind}
        /\ kind \in Required <=> table.source_known /\ ToCompare(kind) # {}
    BY <2>1, RequiredIs
  <2>3. counts[kind] = IF kind \in Required THEN 1 ELSE 0
    BY <2>1 DEF CountsFinal
  <2>4. ToCompare(kind) # {} <=> \E i \in Candidates :
                                    /\ EarlyReason(table, table.calls[i]) = None
                                    /\ Kind(table, table.calls[i]) = kind
    BY <2>2 DEF Early, Offer
  <2> QED
    BY <2>2, <2>3, <2>4
<1> QED
  BY <1>1, CallInvCorrect, PTL

-----------------------------------------------------------------------------
(* The call that is selected. *)

\* Of finitely many numbers one is greatest.
LEMMA BestExists ==
    ASSUME NEW n \in Nat, NEW S \in SUBSET (1 .. n), S # {}, NEW f \in [S -> Int]
    PROVE  \E i \in S : \A j \in S : f[i] >= f[j]
<1> DEFINE upto(k) == {i \in S : i <= k}
           best(k) == \E i \in upto(k) : \A j \in upto(k) : f[i] >= f[j]
           bad == {k \in 0 .. n : upto(k) # {} /\ ~best(k)}
<1>0. \A i \in S : i \in 1 .. n
  OBVIOUS
<1>1. ASSUME bad # {} PROVE FALSE
  <2> DEFINE k == First(bad)
  <2>1. k \in bad /\ \A j \in bad : k <= j
    <3>1. bad \in SUBSET Nat
      OBVIOUS
    <3> HIDE DEF bad
    <3> QED
      BY <1>1, <3>1, FirstIsLeast
  <2>2. k \in 1 .. n
    <3> HIDE DEF k
    <3>1. k \in 0 .. n /\ \E i \in S : i <= k
      BY <2>1
    <3> QED
      BY <1>0, <3>1
  <2>3. upto(k) = IF k \in S THEN upto(k - 1) \cup {k} ELSE upto(k - 1)
    <3> HIDE DEF k
    <3>1. \A i \in S : i <= k <=> i <= k - 1 \/ i = k
      BY <1>0, <2>2
    <3>2. ~(k <= k - 1) /\ k <= k
      BY <2>2
    <3>3. CASE k \in S
      BY <3>1, <3>2, <3>3
    <3>4. CASE k \notin S
      BY <3>1, <3>2, <3>4
    <3> QED
      BY <3>3, <3>4
  <2>4. k - 1 \notin bad /\ k - 1 \in 0 .. n
    <3> HIDE DEF bad, k
    <3> QED
      BY <2>1, <2>2
  <2> HIDE DEF k
  <2>5. CASE k \notin S
    BY <2>1, <2>3, <2>4, <2>5
  <2>6. CASE k \in S /\ upto(k - 1) = {}
    <3>1. upto(k) = {k}
      BY <2>3, <2>6
    <3> QED
      BY <2>1, <3>1
  <2>7. CASE k \in S /\ upto(k - 1) # {}
    <3>1. PICK m \in upto(k - 1) : \A j \in upto(k - 1) : f[m] >= f[j]
      BY <2>4, <2>7
    <3>2. CASE f[m] >= f[k]
      <4>1. m \in upto(k) /\ \A j \in upto(k) : f[m] >= f[j]
        BY <2>3, <2>7, <3>1, <3>2
      <4> QED
        BY <2>1, <4>1
    <3>3. CASE ~(f[m] >= f[k])
      <4>1. f[k] \in Int /\ f[m] \in Int /\ \A j \in upto(k - 1) : f[j] \in Int
        BY <2>7, <3>1
      <4>2. k \in upto(k) /\ \A j \in upto(k) : f[k] >= f[j]
        BY <2>3, <2>7, <3>1, <3>3, <4>1
      <4> QED
        BY <2>1, <4>2
    <3> QED
      BY <3>2, <3>3
  <2> QED
    BY <2>5, <2>6, <2>7
<1>2. upto(n) = S
  <2>1. \A i \in S : i <= n
    BY <1>0
  <2> QED
    BY <2>1
<1> QED
  BY <1>1, <1>2

\* Where the precedence puts a winner of a comparison.
LEMMA WinnersAreRanked ==
    ASSUME NEW t, NEW c, IsCall(c), t.pass \in [Kinds -> Int \cup {None}],
           NEW reason, Kind(t, c) \in Kinds, Wins(t, c, Kind(t, c), reason)
    PROVE  /\ c.value \in Int
           /\ \/ t.shanten = 1 /\ PostShanten(c) = 1 /\ reason = Precedence[1]
              \/ /\ t.shanten = 2 /\ PostShanten(c) = 1 /\ t.pass["TwoShanten"] \in Int
                 /\ \/ reason = Precedence[2] /\ c.value > t.pass["TwoShanten"]
                    \/ reason = Precedence[4] /\ c.value <= t.pass["TwoShanten"]
              \/ t.shanten = 2 /\ PostShanten(c) = 2 /\ reason = Precedence[6]
              \/ /\ t.shanten = 3 /\ PostShanten(c) = 2 /\ t.pass["ThreeShanten"] \in Int
                 /\ \/ reason = Precedence[3] /\ c.value > t.pass["ThreeShanten"]
                    \/ reason = Precedence[5] /\ c.value <= t.pass["ThreeShanten"]
<1> DEFINE kind == Kind(t, c)
<1>1. c.value \in Int /\ t.pass[kind] \in Int
  BY DEF Wins, IsCall
<1>2. kind \in {"Iishanten", "TwoShanten", "TwoShantenStay", "ThreeShanten"}
  BY DEF Kinds, CallHigher
<1> HIDE DEF kind
<1>3. /\ Precedence[1] = CallHigher["Iishanten"] /\ Precedence[2] = CallHigher["TwoShanten"]
      /\ Precedence[3] = CallHigher["ThreeShanten"] /\ Precedence[4] = Speed["TwoShanten"]
      /\ Precedence[5] = Speed["ThreeShanten"] /\ Precedence[6] = CallHigher["TwoShantenStay"]
  BY DEF Precedence
<1>4. \/ reason = CallHigher[kind] /\ c.value > t.pass[kind]
      \/ kind \in {"TwoShanten", "ThreeShanten"} /\ reason = Speed[kind] /\ c.value <= t.pass[kind]
  BY DEF Wins, Speed, kind
<1>5. CASE kind = "Iishanten"
  BY <1>1, <1>3, <1>4, <1>5, KindMeans DEF kind
<1>6. CASE kind = "TwoShanten"
  BY <1>1, <1>3, <1>4, <1>6, KindMeans DEF kind
<1>7. CASE kind = "TwoShantenStay"
  BY <1>1, <1>3, <1>4, <1>7, KindMeans DEF kind
<1>8. CASE kind = "ThreeShanten"
  BY <1>1, <1>3, <1>4, <1>8, KindMeans DEF kind
<1> QED
  BY <1>2, <1>5, <1>6, <1>7, <1>8

LEMMA PrecedenceIsInjective ==
    /\ DOMAIN Precedence = 1 .. 6
    /\ \A j, k \in 1 .. 6 : Precedence[j] = Precedence[k] => j = k
    /\ \A reason \in ComparedReasons : \E k \in 1 .. 6 : reason = Precedence[k]
    /\ \A k \in 1 .. 6 : Precedence[k] \in ComparedReasons
<1>1. ComparedReasons =
        {"EligibleIishantenSelfTsumo", "EligibleTwoShantenSelfTsumo", "EligibleTwoShantenStaySelfTsumo",
         "EligibleThreeShantenSelfTsumo", "EligibleTwoShantenSpeed", "EligibleThreeShantenSpeed"}
  BY DEF ComparedReasons, Kinds, CallHigher, Speed
<1> QED
  BY <1>1 DEF Precedence, CallHigher, Speed

\* The first of the best of some candidates, by their rank or by their value.
LEMMA FirstOfBest ==
    ASSUME NEW n \in Nat, NEW S \in SUBSET (1 .. n), S # {}, NEW f \in [S -> Int]
    PROVE  LET best == {i \in S : \A j \in S : f[i] >= f[j]}
           IN  First(best) \in S /\ \A j \in S : f[First(best)] >= f[j]
<1> DEFINE best == {i \in S : \A j \in S : f[i] >= f[j]}
<1>1. best # {}
  BY BestExists
<1>2. best \in SUBSET Nat
  <2>1. \A i \in S : i \in Nat
    OBVIOUS
  <2> QED
    BY <2>1
<1>3. First(best) \in best
  <2> HIDE DEF best
  <2> QED
    BY <1>1, <1>2, FirstIsLeast
<1> QED
  BY <1>3

\* i is as good as j.
AsGood(i, j) ==
    /\ PostShanten(Offer(i)) <= PostShanten(Offer(j))
    /\ PostShanten(Offer(i)) = PostShanten(Offer(j)) =>
          IF PostShanten(Offer(i)) = 0 THEN Offer(i).rank >= Offer(j).rank
          ELSE Offer(i).value >= Offer(j).value

LEMMA TenpaiIsSelected ==
    ASSUME table \in CallTables, SelectInv, For("EligibleTenpai") # {}
    PROVE  /\ SelectedIndex \in For("EligibleTenpai")
           /\ \A j \in For("EligibleTenpai") : Offer(SelectedIndex).rank >= Offer(j).rank
<1> DEFINE S == For("EligibleTenpai")
           f == [i \in S |-> Result(i).rank]
           best == {i \in S : \A j \in S : Result(i).rank >= Result(j).rank}
<1>1. Len(table.calls) \in Nat /\ S \in SUBSET (1 .. Len(table.calls))
  BY OffersAreSo DEF For
<1>2. \A i \in S : i \in Candidates /\ Result(i).rank = Offer(i).rank /\ Offer(i).rank \in Int
  BY ResultsAgree, OffersAreSo DEF For, SelectInv, IsCall
<1>3. f \in [S -> Int]
  BY <1>2
<1>4. SelectedIndex = First(best)
  BY DEF SelectedIndex, FirstBest
<1>5. {i \in S : \A j \in S : f[i] >= f[j]} = best
  OBVIOUS
<1> HIDE DEF S
<1>6. S # {}
  BY DEF S
<1> HIDE DEF f, best
<1>7. First(best) \in S /\ \A j \in S : f[First(best)] >= f[j]
  <2>1. LET most == {i \in S : \A j \in S : f[i] >= f[j]}
        IN  First(most) \in S /\ \A j \in S : f[First(most)] >= f[j]
    BY <1>1, <1>3, <1>6, FirstOfBest
  <2> QED
    BY <1>5, <2>1
<1>8. \A j \in S : f[j] = Offer(j).rank
  BY <1>2 DEF f
<1> QED
  BY <1>4, <1>7, <1>8 DEF S

\* The calls that are made on their own, at the end.
LEMMA MadeCalls ==
    ASSUME table \in CallTables, SelectInv, NEW i \in Candidates
    PROVE  /\ Makes(i) <=> reasons[i] \in ComparedReasons \cup {"EligibleTenpai"}
           /\ Makes(i) => Early(i) = None /\ PostCallVerdict(table, Offer(i)).mode = "Push"
           /\ reasons[i] = "EligibleTenpai" =>
                 GoodTenpai(Offer(i)) /\ table.shanten = 1 /\ PostShanten(Offer(i)) = 0
           /\ reasons[i] \in ComparedReasons =>
                 /\ Kind(table, Offer(i)) \in Kinds
                 /\ Wins(table, Offer(i), Kind(table, Offer(i)), reasons[i])
<1> DEFINE own == OnItsOwn(table, Offer(i))
<1>1. reasons[i] = own
  BY DEF SelectInv
<1>2. i \in DOMAIN table.calls
  BY DEF Candidates
<1>3. \/ own \notin ComparedReasons \cup {"EligibleTenpai"}
      \/ /\ own = "EligibleTenpai" /\ GoodTenpai(Offer(i)) /\ table.shanten = 1
         /\ PostShanten(Offer(i)) = 0
         /\ Early(i) = None /\ PostCallVerdict(table, Offer(i)).mode = "Push"
      \/ /\ own \in ComparedReasons /\ Kind(table, Offer(i)) \in Kinds
         /\ Wins(table, Offer(i), Kind(table, Offer(i)), own)
         /\ Early(i) = None /\ PostCallVerdict(table, Offer(i)).mode = "Push"
  BY <1>2, OwnMeans DEF Offer, Early
<1>4. "EligibleTenpai" \notin ComparedReasons
  BY ReasonsDiffer
<1>5. Makes(i) <=> own \in ComparedReasons \cup {"EligibleTenpai"}
  BY DEF Makes, Offer
<1> HIDE DEF own
<1> QED
  BY <1>1, <1>3, <1>4, <1>5

LEMMA WinnersAreMade ==
    ASSUME table \in CallTables, SelectInv, NEW i \in Candidates, reasons[i] \in ComparedReasons
    PROVE  /\ Offer(i).value \in Int
           /\ \/ table.shanten = 1 /\ PostShanten(Offer(i)) = 1 /\ reasons[i] = Precedence[1]
              \/ /\ table.shanten = 2 /\ PostShanten(Offer(i)) = 1 /\ table.pass["TwoShanten"] \in Int
                 /\ \/ reasons[i] = Precedence[2] /\ Offer(i).value > table.pass["TwoShanten"]
                    \/ reasons[i] = Precedence[4] /\ Offer(i).value <= table.pass["TwoShanten"]
              \/ table.shanten = 2 /\ PostShanten(Offer(i)) = 2 /\ reasons[i] = Precedence[6]
              \/ /\ table.shanten = 3 /\ PostShanten(Offer(i)) = 2 /\ table.pass["ThreeShanten"] \in Int
                 /\ \/ reasons[i] = Precedence[3] /\ Offer(i).value > table.pass["ThreeShanten"]
                    \/ reasons[i] = Precedence[5] /\ Offer(i).value <= table.pass["ThreeShanten"]
<1>1. IsCall(Offer(i)) /\ table.pass \in [Kinds -> Int \cup {None}]
  BY OffersAreSo, TablesAreSo
<1>2. Kind(table, Offer(i)) \in Kinds /\ Wins(table, Offer(i), Kind(table, Offer(i)), reasons[i])
  BY MadeCalls
<1> QED
  BY <1>1, <1>2, WinnersAreRanked

LEMMA WinnerIsSelected ==
    ASSUME table \in CallTables, SelectInv, For("EligibleTenpai") = {}
    PROVE  \/ SelectedIndex = 0 /\ \A k \in 1 .. 6 : For(Precedence[k]) = {}
           \/ \E k \in 1 .. 6 :
                 /\ SelectedIndex \in For(Precedence[k])
                 /\ \A l \in 1 .. (k - 1) : For(Precedence[l]) = {}
                 /\ \A j \in For(Precedence[k]) : Offer(SelectedIndex).value >= Offer(j).value
<1> DEFINE winners == {k \in DOMAIN Precedence : For(Precedence[k]) # {}}
<1>1. DOMAIN Precedence = 1 .. 6
  BY PrecedenceIsInjective
<1>2. CASE winners = {}
  BY <1>1, <1>2 DEF SelectedIndex
<1>3. CASE winners # {}
  <2> DEFINE k == First(winners)
             S == For(Precedence[k])
             f == [i \in S |-> Result(i).value]
             best == {i \in S : \A j \in S : Result(i).value >= Result(j).value}
  <2>1. k \in winners /\ \A l \in winners : k <= l
    <3>1. \A l \in winners : l \in Nat
      BY <1>1
    <3>2. winners \in SUBSET Nat
      BY <3>1
    <3> HIDE DEF winners
    <3> QED
      BY <1>3, <3>2, FirstIsLeast
  <2>2. SelectedIndex = IF S = {} THEN 0 ELSE First(best)
    BY <1>3 DEF SelectedIndex, FirstBest
  <2> HIDE DEF k
  <2>3. k \in 1 .. 6 /\ S # {} /\ \A l \in 1 .. (k - 1) : For(Precedence[l]) = {}
    <3>1. k \in 1 .. 6 /\ S # {}
      BY <1>1, <2>1
    <3>2. \A l \in 1 .. (k - 1) : l \in DOMAIN Precedence /\ ~(k <= l)
      BY <1>1, <3>1
    <3> QED
      BY <2>1, <3>1, <3>2
  <2>4. Len(table.calls) \in Nat /\ S \in SUBSET (1 .. Len(table.calls))
    BY OffersAreSo DEF For
  <2>5. \A i \in S : Result(i).value = Offer(i).value /\ Offer(i).value \in Int
    <3>1. \A i \in S : i \in Candidates /\ reasons[i] \in ComparedReasons
      BY <2>3, PrecedenceIsInjective DEF For
    <3>2. \A i \in S : Offer(i).value \in Int
      BY <3>1, WinnersAreMade
    <3>3. \A i \in S : Result(i).value = Offer(i).value
      BY <3>1, ResultsAgree DEF SelectInv
    <3> QED
      BY <3>2, <3>3
  <2>6. f \in [S -> Int]
    BY <2>5
  <2>7. {i \in S : \A j \in S : f[i] >= f[j]} = best
    OBVIOUS
  <2> HIDE DEF f, best, S
  <2>8. First(best) \in S /\ \A j \in S : f[First(best)] >= f[j]
    <3>1. LET most == {i \in S : \A j \in S : f[i] >= f[j]}
          IN  First(most) \in S /\ \A j \in S : f[First(most)] >= f[j]
      BY <2>3, <2>4, <2>6, FirstOfBest
    <3> QED
      BY <2>7, <3>1
  <2>9. \A j \in S : f[j] = Offer(j).value
    BY <2>5 DEF f
  <2> QED
    BY <2>2, <2>3, <2>8, <2>9 DEF S
<1> QED
  BY <1>2, <1>3

LEMMA SelectedIsBest ==
    ASSUME CallInv, CallDone
    PROVE  \/ called = None /\ \A i \in Candidates : ~Makes(i)
           \/ /\ SelectedIndex \in Candidates /\ Makes(SelectedIndex)
              /\ called = Offer(SelectedIndex).name
              /\ \A j \in Candidates : Makes(j) => AsGood(SelectedIndex, j)
<1> DEFINE s == SelectedIndex
<1>1. table \in CallTables /\ SelectInv
      /\ called = IF s = 0 THEN None ELSE Offer(s).name
  BY DoneMeans DEF DoneInv
<1>2. \A i \in Candidates : i # 0
  BY <1>1, OffersAreSo
<1>3. \A i \in Candidates : Makes(i) <=> reasons[i] \in ComparedReasons \cup {"EligibleTenpai"}
  BY <1>1, MadeCalls
<1> HIDE DEF s
<1>4. CASE For("EligibleTenpai") # {}
  <2>1. /\ s \in Candidates /\ reasons[s] = "EligibleTenpai"
        /\ \A j \in For("EligibleTenpai") : Offer(s).rank >= Offer(j).rank
    BY <1>1, <1>4, TenpaiIsSelected DEF For, s
  <2>2. table.shanten = 1 /\ PostShanten(Offer(s)) = 0 /\ Makes(s)
    BY <1>1, <1>3, <2>1, MadeCalls
  <2>3. ASSUME NEW j \in Candidates, Makes(j) PROVE AsGood(s, j)
    <3>1. CASE reasons[j] = "EligibleTenpai"
      <4>1. PostShanten(Offer(j)) = 0 /\ Offer(s).rank >= Offer(j).rank
        BY <1>1, <2>1, <3>1, MadeCalls DEF For
      <4> QED
        BY <2>2, <4>1 DEF AsGood
    <3>2. CASE reasons[j] \in ComparedReasons
      <4>1. PostShanten(Offer(j)) = 1
        BY <1>1, <2>2, <3>2, WinnersAreMade
      <4> QED
        BY <2>2, <4>1 DEF AsGood
    <3> QED
      BY <1>3, <2>3, <3>1, <3>2
  <2> QED
    BY <1>1, <1>2, <2>1, <2>2, <2>3 DEF s
<1>5. CASE For("EligibleTenpai") = {} /\ \A k \in 1 .. 6 : For(Precedence[k]) = {}
  <2>1. \A i \in Candidates : ~Makes(i)
    BY <1>3, <1>5, PrecedenceIsInjective DEF For
  <2>2. s = 0
    <3>1. ~\E k \in 1 .. 6 : s \in For(Precedence[k])
      BY <1>5
    <3> QED
      BY <1>1, <1>5, <3>1, WinnerIsSelected DEF s
  <2> QED
    BY <1>1, <2>1, <2>2
<1>6. CASE For("EligibleTenpai") = {} /\ ~\A k \in 1 .. 6 : For(Precedence[k]) = {}
  <2>1. PICK k \in 1 .. 6 : /\ s \in For(Precedence[k])
                            /\ \A l \in 1 .. (k - 1) : For(Precedence[l]) = {}
                            /\ \A j \in For(Precedence[k]) : Offer(s).value >= Offer(j).value
    BY <1>1, <1>6, WinnerIsSelected DEF s
  <2>2. s \in Candidates /\ reasons[s] = Precedence[k] /\ reasons[s] \in ComparedReasons /\ Makes(s)
    BY <1>3, <2>1, PrecedenceIsInjective DEF For
  <2>3. ASSUME NEW j \in Candidates, Makes(j) PROVE AsGood(s, j)
    <3>1. reasons[j] \in ComparedReasons
      BY <1>3, <1>6, <2>3 DEF For
    <3>2. PICK l \in 1 .. 6 : reasons[j] = Precedence[l]
      BY <3>1, PrecedenceIsInjective
    <3>3. ~(l < k)
      <4>1. j \in For(Precedence[l])
        BY <3>2 DEF For
      <4>2. l \notin 1 .. (k - 1)
        BY <2>1, <4>1
      <4> QED
        BY <4>2
    <3>4. \A m \in 1 .. 6 : /\ reasons[s] = Precedence[m] <=> m = k
                            /\ reasons[j] = Precedence[m] <=> m = l
      BY <2>2, <3>2, PrecedenceIsInjective
    <3>5. l = k => Offer(s).value >= Offer(j).value
      BY <2>1, <3>2 DEF For
    <3> DEFINE mine == Offer(s)
               other == Offer(j)
    <3> HIDE DEF mine, other
    <3>6. /\ mine.value \in Int
          /\ \/ table.shanten = 1 /\ PostShanten(mine) = 1 /\ k = 1
             \/ /\ table.shanten = 2 /\ PostShanten(mine) = 1 /\ table.pass["TwoShanten"] \in Int
                /\ \/ k = 2 /\ mine.value > table.pass["TwoShanten"]
                   \/ k = 4 /\ mine.value <= table.pass["TwoShanten"]
             \/ table.shanten = 2 /\ PostShanten(mine) = 2 /\ k = 6
             \/ /\ table.shanten = 3 /\ PostShanten(mine) = 2 /\ table.pass["ThreeShanten"] \in Int
                /\ \/ k = 3 /\ mine.value > table.pass["ThreeShanten"]
                   \/ k = 5 /\ mine.value <= table.pass["ThreeShanten"]
      BY <1>1, <2>2, <3>4, WinnersAreMade DEF mine
    <3>7. /\ other.value \in Int
          /\ \/ table.shanten = 1 /\ PostShanten(other) = 1 /\ l = 1
             \/ /\ table.shanten = 2 /\ PostShanten(other) = 1 /\ table.pass["TwoShanten"] \in Int
                /\ \/ l = 2 /\ other.value > table.pass["TwoShanten"]
                   \/ l = 4 /\ other.value <= table.pass["TwoShanten"]
             \/ table.shanten = 2 /\ PostShanten(other) = 2 /\ l = 6
             \/ /\ table.shanten = 3 /\ PostShanten(other) = 2 /\ table.pass["ThreeShanten"] \in Int
                /\ \/ l = 3 /\ other.value > table.pass["ThreeShanten"]
                   \/ l = 5 /\ other.value <= table.pass["ThreeShanten"]
      BY <1>1, <3>1, <3>4, WinnersAreMade DEF other
    <3>8. /\ PostShanten(mine) <= PostShanten(other)
          /\ PostShanten(mine) = PostShanten(other) =>
                PostShanten(mine) # 0 /\ mine.value >= other.value
      BY <3>3, <3>5, <3>6, <3>7 DEF mine, other
    <3> QED
      BY <3>8 DEF AsGood, mine, other
  <2> QED
    BY <1>1, <1>2, <2>2, <2>3 DEF s
<1> QED
  BY <1>4, <1>5, <1>6

(* The call that is made is justified: a tenpai that can win on every live tile, *)
(* or a hand worth more than passing, or a fast and valuable one, and each is a  *)
(* hand that push/pull goes on with.                                             *)
THEOREM JustifiedCorrect == CallsSpec => []CallIsJustified
<1>1. CallInv => CallIsJustified
  <2> SUFFICES ASSUME CallInv, CallDone, called # None
               PROVE  \E c \in {table.calls[i] : i \in Candidates} :
                         LET kind == Kind(table, c)
                         IN  /\ c.name = called
                             /\ ~table.reached /\ ~table.drawn /\ c.key # None /\ table.melds \in 0 .. 3
                             /\ DecidePushPull(AfterCall(table, c), c.discard).mode = "Push"
                             /\ \/ PostShanten(c) = 0 /\ GoodTenpai(c)
                                \/ /\ kind # None /\ table.source_known
                                   /\ c.value # None /\ table.pass[kind] # None
                                   /\ WorthMore(table, c, kind) \/ FastAndValuable(table, c, kind)
    BY DEF CallIsJustified
  <2> DEFINE s == SelectedIndex
             c == Offer(s)
             kind == Kind(table, c)
  <2>1. table \in CallTables /\ SelectInv
    BY DoneMeans DEF DoneInv
  <2>2. s \in Candidates /\ Makes(s) /\ called = c.name
    BY SelectedIsBest
  <2>3. Early(s) = None /\ PostCallVerdict(table, c).mode = "Push"
        /\ reasons[s] \in ComparedReasons \cup {"EligibleTenpai"}
    BY <2>1, <2>2, MadeCalls
  <2>4. ~table.reached /\ ~table.drawn /\ c.key # None /\ table.melds \in 0 .. 3
    <3>1. /\ ~table.reached /\ ~table.drawn /\ c.key # None
          /\ table.melds # None /\ table.melds # MaxMelds
      BY <2>3, EarlyMeans DEF Early
    <3>2. table.melds \in 0 .. MaxMelds \cup {None}
      BY <2>1, TablesAreSo
    <3> QED
      BY <3>1, <3>2 DEF MaxMelds
  <2>5. DecidePushPull(AfterCall(table, c), c.discard).mode = "Push"
    BY <2>3 DEF PostCallVerdict
  <2>6. \/ PostShanten(c) = 0 /\ GoodTenpai(c)
        \/ /\ kind # None /\ table.source_known /\ c.value # None /\ table.pass[kind] # None
           /\ WorthMore(table, c, kind) \/ FastAndValuable(table, c, kind)
    <3>1. CASE reasons[s] = "EligibleTenpai"
      BY <2>1, <2>2, <3>1, MadeCalls
    <3>2. CASE reasons[s] \in ComparedReasons
      <4>1. kind \in Kinds /\ Wins(table, c, kind, reasons[s])
        BY <2>1, <2>2, <3>2, MadeCalls
      <4>2. kind # None
        BY <4>1, MarkerAssumption
      <4> HIDE DEF kind, c
      <4>3. WorthMore(table, c, kind) \/ FastAndValuable(table, c, kind)
        BY <4>1 DEF Wins, WorthMore, FastAndValuable, Speed, SpeedMinDraws
      <4> QED
        BY <4>1, <4>2, <4>3 DEF Wins
    <3> QED
      BY <2>3, <3>1, <3>2
  <2>7. c \in {table.calls[i] : i \in Candidates}
    BY <2>2 DEF Offer
  <2> HIDE DEF c
  <2> QED
    BY <2>2, <2>4, <2>5, <2>6, <2>7
<1> QED
  BY <1>1, CallInvCorrect, PTL

(* No call that would be made on its own is better than the one that is made.    *)
THEOREM BestCallCorrect == CallsSpec => []NoBetterCallIsLeft
<1>1. CallInv => NoBetterCallIsLeft
  <2> SUFFICES ASSUME CallInv, CallDone PROVE NoBetterCallIsLeft
    BY DEF NoBetterCallIsLeft
  <2>1. CASE called = None /\ \A i \in Candidates : ~Makes(i)
    BY <2>1 DEF NoBetterCallIsLeft
  <2>2. CASE /\ SelectedIndex \in Candidates /\ Makes(SelectedIndex)
             /\ called = Offer(SelectedIndex).name
             /\ \A j \in Candidates : Makes(j) => AsGood(SelectedIndex, j)
    BY <2>2 DEF NoBetterCallIsLeft, AsGood, Offer
  <2> QED
    BY <2>1, <2>2, SelectedIsBest
<1> QED
  BY <1>1, CallInvCorrect, PTL

-----------------------------------------------------------------------------
(* The agent around the decision.  What it selects depends on the table alone.   *)

OwnFor(t, reason) == {i \in DOMAIN t.calls : OnItsOwn(t, t.calls[i]) = reason}

OwnIndex(t) ==
    IF OwnFor(t, "EligibleTenpai") # {}
    THEN FirstBest(OwnFor(t, "EligibleTenpai"), LAMBDA i : t.calls[i].rank)
    ELSE LET winners == {k \in DOMAIN Precedence : OwnFor(t, Precedence[k]) # {}}
         IN  IF winners = {} THEN 0
             ELSE FirstBest(OwnFor(t, Precedence[First(winners)]), LAMBDA i : t.calls[i].value)

OwnChoice(t) == IF OwnIndex(t) = 0 THEN None ELSE t.calls[OwnIndex(t)].name

LEMMA SelectionIsOwn ==
    ASSUME table \in CallTables, SelectInv
    PROVE  SelectedIndex = OwnIndex(table)
<1>1. \A reason : For(reason) = OwnFor(table, reason)
  BY DEF For, OwnFor, SelectInv, Candidates, Offer
<1>2. \A i \in Candidates : Result(i).rank = table.calls[i].rank /\ Result(i).value = table.calls[i].value
  BY ResultsAgree DEF SelectInv, Offer
<1> DEFINE T == For("EligibleTenpai")
           winners == {k \in DOMAIN Precedence : For(Precedence[k]) # {}}
           W == For(Precedence[First(winners)])
           bestT == {i \in T : \A j \in T : Result(i).rank >= Result(j).rank}
           bestW == {i \in W : \A j \in W : Result(i).value >= Result(j).value}
           ownT == {i \in T : \A j \in T : table.calls[i].rank >= table.calls[j].rank}
           ownW == {i \in W : \A j \in W : table.calls[i].value >= table.calls[j].value}
<1>3. bestT = ownT /\ bestW = ownW
  <2>1. T \subseteq Candidates /\ W \subseteq Candidates
    BY DEF For
  <2> HIDE DEF T, W
  <2> QED
    BY <1>2, <2>1
<1>4. winners = {k \in DOMAIN Precedence : OwnFor(table, Precedence[k]) # {}}
  BY <1>1
<1>5. SelectedIndex = IF T # {} THEN First(bestT)
                      ELSE IF winners = {} THEN 0 ELSE IF W = {} THEN 0 ELSE First(bestW)
  BY DEF SelectedIndex, FirstBest
<1>6. OwnIndex(table) = IF T # {} THEN First(ownT)
                        ELSE IF winners = {} THEN 0 ELSE IF W = {} THEN 0 ELSE First(ownW)
  <2>1. T = OwnFor(table, "EligibleTenpai") /\ W = OwnFor(table, Precedence[First(winners)])
    BY <1>1
  <2> HIDE DEF T, W, winners
  <2> QED
    BY <1>4, <2>1 DEF OwnIndex, FirstBest
<1> QED
  BY <1>3, <1>5, <1>6

\* The positions at which the calls of a table are offered, and the one at which the
\* agent decides once it has considered them.
OfferedWith(t, call) == [Offered(t) EXCEPT !.call = call]
Asked(t) == OfferedWith(t, OwnChoice(t))

LEMMA OfferedWithIs ==
    ASSUME NEW t, NEW call
    PROVE  /\ OfferedWith(t, call).call = call
           /\ \A other : [OfferedWith(t, call) EXCEPT !.call = other] = OfferedWith(t, other)
           /\ Evaluates(OfferedWith(t, call))
<1>1. /\ OfferedWith(t, call).call = call
      /\ OfferedWith(t, call).shanten = <<>> /\ OfferedWith(t, call).selected = None
  BY DEF OfferedWith, Offered
<1>2. \A other : [OfferedWith(t, call) EXCEPT !.call = other] = OfferedWith(t, other)
  BY DEF OfferedWith, Offered
<1>3. Evaluates(OfferedWith(t, call))
  BY <1>1 DEF Evaluates, Selects, Discards
<1> QED
  BY <1>1, <1>2, <1>3

\* Only a selected call is ever made.
LEMMA OutcomeCalls ==
    ASSUME NEW p, p.call = None
    PROVE  Outcome(p).source # "Call"
<1> DEFINE chosen == ByMode(p, DecidePushPull(p, p.selected).mode, p.selected)
<1>1. DecidePushPull(p, p.selected).mode \in {"Push", "Fold"}
  <2>1. \A v \in Verdicts : v.mode \in {"Push", "Fold"}
    BY DEF Verdicts, Verdict
  <2> QED
    BY <2>1, VerdictTypes
<1>2. /\ ReachOption(p) # None => ReachOption(p).source = "Reach"
      /\ \A mode : KanOption(p, mode, p.selected) # None => KanOption(p, mode, p.selected).source = "Kan"
      /\ NormalOption(p.selected) # None => NormalOption(p.selected).source = "NormalDiscard"
      /\ \A family : DefenceOption(p, family) # None => DefenceOption(p, family).source = "Defence"
  BY DEF ReachOption, KanOption, NormalOption, DefenceOption, Declared, Play, Discard
<1>3. \A a, b, c : FirstOf(a, b, c) \in {a, b, c}
  BY DEF FirstOf
<1>4. \/ chosen = None
      \/ chosen.source \in {"Reach", "Kan", "NormalDiscard", "Defence"}
  BY <1>1, <1>2, <1>3 DEF ByMode
<1>5. CASE p.hora \/ p.ryukyoku = "declare"
  BY <1>5 DEF Outcome, Play
<1>6. CASE ~p.hora /\ p.ryukyoku # "declare" /\ chosen # None
  <2>1. Outcome(p) = chosen
    BY <1>6 DEF Outcome
  <2> QED
    BY <1>4, <1>6, <2>1
<1>7. CASE ~p.hora /\ p.ryukyoku # "declare" /\ chosen = None
  BY <1>7 DEF Outcome, Discard, Play
<1> QED
  BY <1>5, <1>6, <1>7

\* Push/pull reads the same of both positions.
ReadAlike(p, q) ==
    /\ p.reachers = q.reachers /\ p.dealer_reacher = q.dealer_reacher
    /\ p.open_hands = q.open_hands /\ p.shanten = q.shanten /\ p.safe = q.safe
    /\ p.wait = q.wait /\ p.total = q.total /\ p.value = q.value

LEMMA SameVerdict ==
    ASSUME NEW p, NEW q, NEW tile, ReadAlike(p, q)
    PROVE  DecidePushPull(p, tile) = DecidePushPull(q, tile)
<1> USE DEF ReadAlike
<1>1. ThreatKind(p) = ThreatKind(q) /\ (HasClearThreat(p) <=> HasClearThreat(q))
      /\ (OnlyOpenHands(p) <=> OnlyOpenHands(q)) /\ (OnlyCaution(p) <=> OnlyCaution(q))
  BY DEF ThreatKind, HasOpenHandThreat, HasClearThreat, OnlyOpenHands, OnlyCaution
<1>2. HardSafe(p, tile) <=> HardSafe(q, tile)
  BY <1>1 DEF HardSafe
<1>3. IsStrongTenpai(p) <=> IsStrongTenpai(q)
  BY DEF IsStrongTenpai, TenpaiPushWeightedTotalMin
<1>4. IishantenPushMin(p) = IishantenPushMin(q)
  BY <1>1 DEF IishantenPushMin
<1>5. IsValuableIishanten(p) <=> IsValuableIishanten(q)
  BY <1>1, <1>4 DEF IsValuableIishanten, IishantenUsesValue
<1>6. Tenpai(p, HardSafe(p, tile)) = Tenpai(q, HardSafe(q, tile))
  BY <1>1, <1>2, <1>3, Zenon DEF Tenpai
<1>7. Iishanten(p, HardSafe(p, tile)) = Iishanten(q, HardSafe(q, tile))
  BY <1>1, <1>2, <1>5, Zenon DEF Iishanten
<1>8. \A shanten : TwoOrMoreShanten(p, shanten, HardSafe(p, tile))
                   = TwoOrMoreShanten(q, shanten, HardSafe(q, tile))
  BY <1>1, <1>2, Zenon DEF TwoOrMoreShanten
<1> QED
  BY <1>1, <1>6, <1>7, <1>8 DEF DecidePushPull

\* The position in which the discard after a call is asked for.
AskedFor(t, c, call, tile, dahai) ==
    [OfferedWith(t, call) EXCEPT
       !.call = None, !.pass = FALSE, !.selected = tile,
       !.shanten = c.discards, !.safe = c.safe, !.dahai = dahai,
       !.wait = c.wait, !.total = c.total, !.value = c.push_value]

LEMMA AskedHand ==
    ASSUME NEW t, ~t.reached, NEW c, NEW call, NEW tile, NEW dahai
    PROVE  /\ AskedFor(t, c, call, tile, dahai).selected = tile
           /\ AskedFor(t, c, call, tile, dahai).shanten = c.discards
           /\ DecidePushPull(AskedFor(t, c, call, tile, dahai), tile)
                = DecidePushPull(AfterCall(t, c), tile)
<1> DEFINE q == AskedFor(t, c, call, tile, dahai)
           a == AfterCall(t, c)
<1>1. /\ q.reachers = 0 /\ q.dealer_reacher = FALSE /\ q.open_hands = t.open_hands
      /\ q.selected = tile /\ q.shanten = c.discards /\ q.safe = c.safe
      /\ q.wait = c.wait /\ q.total = c.total /\ q.value = c.push_value
  BY DEF Offered, OfferedWith, AskedFor
<1>2. /\ a.reachers = 0 /\ a.dealer_reacher = FALSE /\ a.open_hands = t.open_hands
      /\ a.shanten = c.discards /\ a.safe = c.safe
      /\ a.wait = c.wait /\ a.total = c.total /\ a.value = c.push_value
  BY DEF AfterCall
<1> HIDE DEF a, q
<1>3. DecidePushPull(q, tile) = DecidePushPull(a, tile)
  <2>1. ReadAlike(q, a)
    BY <1>1, <1>2, Zenon DEF ReadAlike
  <2> QED
    BY <2>1, SameVerdict
<1> QED
  BY <1>1, <1>3 DEF a, q

CalledInv ==
    /\ table = None => phase = "done"
    /\ table # None =>
          /\ called_from = None
          /\ \E call : position = OfferedWith(table, call)
          /\ phase = "done" => position = Asked(table)
    /\ stage # "start" => phase = "done"
    /\ Evaluates(position)
    /\ stage = "start" => push_pull = None
    /\ stage = "selected" => ~Declares(position) /\ push_pull # None
    /\ push_pull # None => push_pull = DecidePushPull(position, position.selected)
    /\ Decided => decision = Outcome(position)
    /\ diagnostics => acted = Outcome(IF table = None THEN position ELSE Asked(table))
    /\ called_from = 1 => DecidePushPull(position, position.selected).mode = "Push"

LEMMA CalledInvInit == CallsInit => CalledInv
<1> SUFFICES ASSUME CallsInit PROVE CalledInv
  OBVIOUS
<1>1. /\ phase = IF table = None THEN "done" ELSE "prepare"
      /\ called_from = None /\ called_from # 1
  BY NoneAssumption DEF CallsInit, CallInit
<1>2. stage = "start" /\ push_pull = None /\ diagnostics = FALSE
  BY DEF CallsInit, Init
<1>3. CASE table = None
  <2>1. Evaluates(position)
    BY <1>3, PositionAssumption, PositionsEvaluate DEF CallsInit, Init
  <2> QED
    BY <1>1, <1>2, <1>3, <2>1 DEF CalledInv, Decided
<1>4. CASE table # None
  <2>1. position = OfferedWith(table, None)
    <3>1. position = Offered(table)
      BY <1>4 DEF CallsInit
    <3> DEFINE o == Offered(table)
               names == {"hora", "ryukyoku", "call", "reach", "shanten", "selected", "dahai", "pass",
                         "defence", "reachers", "dealer_reacher", "open_hands", "wait", "total",
                         "value", "safe", "kans", "own_reached", "own_draw", "remaining", "types",
                         "offense"}
    <3>2. o = [name \in names |-> o[name]] /\ o.call = None
      BY DEF Offered
    <3> HIDE DEF o, names
    <3>3. [o EXCEPT !.call = None] = o
      BY <3>2
    <3> QED
      BY <3>1, <3>3 DEF o, OfferedWith
  <2>2. Evaluates(position)
    BY <2>1, OfferedWithIs
  <2> QED
    BY <1>1, <1>2, <1>4, <2>1, <2>2 DEF CalledInv, Decided
<1> QED
  BY <1>3, <1>4

LEMMA ConsideringKeepsInv ==
    ASSUME CallInv, CalledInv, ConsiderCalls
    PROVE  CalledInv'
<1>1. /\ stage = "start" /\ phase # "done" /\ CallNext
      /\ position' = IF phase' = "done" THEN [position EXCEPT !.call = called'] ELSE position
      /\ diagnostics' = diagnostics /\ stage' = stage /\ push_pull' = push_pull
      /\ acted' = acted /\ called_from' = called_from
  BY DEF ConsiderCalls
<1>2. table # None /\ table' = table
  BY <1>1 DEF CalledInv, CallNext, PrepareCall, EvaluateCall, EvaluatePass, Join, ApplyPolicy, GateCall,
              SelectCall
<1>3. PICK call : position = OfferedWith(table, call)
  BY <1>2 DEF CalledInv
<1>4. called_from' = None /\ called_from' # 1 /\ push_pull' = None
  BY <1>1, <1>2, NoneAssumption DEF CalledInv
<1>5. CASE phase' # "done"
  BY <1>1, <1>2, <1>3, <1>4, <1>5 DEF CalledInv, Decided
<1>6. CASE phase' = "done"
  <2>1. SelectCall
    BY <1>1, <1>6 DEF CallNext, PrepareCall, EvaluateCall, EvaluatePass, Join, ApplyPolicy, GateCall, Step
  <2>2. table \in CallTables /\ SelectInv
    BY <1>2, <2>1 DEF CallInv, SelectCall
  <2>3. called' = OwnChoice(table)
    BY <2>1, <2>2, SelectionIsOwn DEF SelectCall, OwnChoice
  <2>4. position' = Asked(table)
    BY <1>1, <1>3, <1>6, <2>3, OfferedWithIs DEF Asked
  <2>5. Evaluates(position') /\ \E c : position' = OfferedWith(table, c)
    BY <2>4, OfferedWithIs DEF Asked
  <2> QED
    BY <1>1, <1>2, <1>4, <1>6, <2>4, <2>5 DEF CalledInv, Decided
<1> QED
  BY <1>5, <1>6

LEMMA DecidingKeepsInv ==
    ASSUME CalledInv, phase = "done", Decides, UNCHANGED <<callVars, called_from>>
    PROVE  CalledInv'
<1> DEFINE verdict == DecidePushPull(position, position.selected)
<1>1. /\ table' = table /\ phase' = phase /\ called_from' = called_from
      /\ position' = position /\ diagnostics' = diagnostics /\ acted' = acted
  BY DEF callVars, Decides, DeclareHora, DeclareRyukyoku, MakeCall, FoldEarly, SelectNormalDiscard,
         ChooseByMode, DiscardFirstLegal, Pass, Decide
<1>2. /\ stage' \in {"selected", "decided"}
      /\ push_pull' # None => push_pull' = verdict
      /\ stage' = "selected" => ~Declares(position) /\ push_pull' # None
      /\ stage' = "decided" => decision' = Outcome(position)
  <2>1. CASE DeclareHora
    BY <2>1 DEF DeclareHora, Decide, Outcome
  <2>2. CASE DeclareRyukyoku
    BY <2>2 DEF DeclareRyukyoku, DeclaresRyukyoku, Decide, Outcome
  <2>3. CASE MakeCall
    BY <2>3 DEF MakeCall, DeclaresRyukyoku, Decide, Outcome
  <2>4. CASE FoldEarly
    <3>1. EarlyPlay(position) # None /\ EarlyFold(position) # None /\ Evaluates(position)
      BY <2>4 DEF FoldEarly, FoldsEarly, EarlyPlay, CalledInv
    <3>2. EarlyPlay(position) = Outcome(position)
      BY <2>4, <3>1, EarlyPlayIsFinal DEF FoldEarly, MustDiscard, DeclaresRyukyoku, Outcome
    <3>3. position.selected \in Cohort(position)
      BY <3>1 DEF EarlyFold, Evaluates, Selects
    <3>4. EarlyFold(position) = verdict
      BY <3>1, <3>3, EarlyVerdict
    <3> QED
      BY <2>4, <3>2, <3>4 DEF FoldEarly, Decide
  <2>5. CASE SelectNormalDiscard
    <3>1. verdict # None
      BY VerdictTypes, VerdictAssumption
    <3> QED
      BY <2>5, <3>1 DEF SelectNormalDiscard, MustDiscard, DeclaresRyukyoku, Declares
  <2>6. CASE ChooseByMode \/ DiscardFirstLegal \/ Pass
    <3>1. ~Declares(position) /\ push_pull = verdict
      BY <2>6 DEF ChooseByMode, DiscardFirstLegal, Pass, CalledInv
    <3> QED
      BY <2>6, <3>1 DEF ChooseByMode, DiscardFirstLegal, Pass, Chosen, Decide, Outcome, Declares
  <2> QED
    BY <2>1, <2>2, <2>3, <2>4, <2>5, <2>6 DEF Decides
<1> HIDE DEF verdict
<1> QED
  BY <1>1, <1>2 DEF CalledInv, Decided, verdict

LEMMA DiagnosingKeepsInv ==
    ASSUME CalledInv, phase = "done", Diagnose, RestartCalls, UNCHANGED called_from
    PROVE  CalledInv'
<1>1. /\ table' = table /\ called_from' = called_from /\ position' = position
      /\ phase' = IF table = None THEN "done" ELSE "prepare"
      /\ stage' = "start" /\ push_pull' = None /\ acted' = decision /\ Decided
  BY DEF Diagnose, RestartCalls, Decided
<1>2. acted' = Outcome(IF table = None THEN position ELSE Asked(table))
  BY <1>1 DEF CalledInv
<1> QED
  BY <1>1, <1>2 DEF CalledInv, Decided

\* The call that is made is the one of the table, and the agent would push after it.
LEMMA CalledHandIs ==
    ASSUME CallInv, CalledInv, AskForDiscard
    PROVE  /\ phase = "done" /\ position = Asked(table)
           /\ IsCall(CalledHand) /\ ~table.reached
           /\ PostCallVerdict(table, CalledHand).mode = "Push"
<1> DEFINE c == CalledHand
<1>1. Decided /\ table # None /\ decision.source = "Call"
  BY DEF AskForDiscard, Decided
<1>2. phase = "done" /\ position = Asked(table) /\ CallDone
  BY <1>1 DEF CalledInv, Decided, CallDone
<1>3. table \in CallTables
  BY <1>2, DoneMeans
<1>4. called # None
  <2>1. decision = Outcome(position)
    BY <1>1 DEF CalledInv
  <2>2. position.call # None
    BY <1>1, <2>1, OutcomeCalls
  <2>3. position.call = OwnChoice(table)
    BY <1>2, OfferedWithIs DEF Asked
  <2>4. DoneInv
    BY <1>2, DoneMeans
  <2>5. SelectedIndex = OwnIndex(table)
    BY <1>3, <2>4, SelectionIsOwn DEF DoneInv
  <2> QED
    BY <2>2, <2>3, <2>4, <2>5 DEF DoneInv, OwnChoice, Offer
<1>5. /\ IsCall(c) /\ ~table.reached
      /\ PostCallVerdict(table, c).mode = "Push"
  <2>1. /\ SelectedIndex \in Candidates /\ Makes(SelectedIndex)
        /\ called = Offer(SelectedIndex).name
    BY <1>2, <1>4, SelectedIsBest
  <2>2. c = Offer(SelectedIndex)
    <3>1. Offer(SelectedIndex) \in {table.calls[i] : i \in Candidates}
      BY <2>1 DEF Offer
    <3>2. c \in {table.calls[i] : i \in Candidates} /\ c.name = called
      BY <2>1, <3>1 DEF CalledHand
    <3>3. PICK j \in Candidates : c = Offer(j)
      BY <3>2 DEF Offer
    <3> QED
      BY <1>3, <2>1, <3>2, <3>3, OffersAreSo
  <2>3. SelectInv
    BY <1>2, DoneMeans DEF DoneInv
  <2>4. Early(SelectedIndex) = None /\ PostCallVerdict(table, Offer(SelectedIndex)).mode = "Push"
    BY <1>3, <2>1, <2>3, MadeCalls
  <2>5. ~table.reached
    BY <2>4, EarlyMeans DEF Early
  <2>6. IsCall(Offer(SelectedIndex))
    BY <1>3, <2>1, OffersAreSo
  <2> QED
    BY <2>2, <2>4, <2>5, <2>6
<1> QED
  BY <1>2, <1>5

LEMMA AskingKeepsInv ==
    ASSUME CallInv, CalledInv, AskForDiscard
    PROVE  CalledInv'
<1> DEFINE c == CalledHand
<1>1. /\ Decided /\ table # None /\ decision.source = "Call"
      /\ called_from' = table.shanten /\ table' = None /\ phase' = phase
      /\ diagnostics' = FALSE /\ stage' = "start" /\ push_pull' = None
  BY DEF AskForDiscard, Decided
<1>2. phase = "done" /\ position = Asked(table)
  BY CalledHandIs
<1>5. IsCall(c) /\ ~table.reached /\ PostCallVerdict(table, c).mode = "Push"
  BY CalledHandIs
<1>6. PICK tile \in FollowUps(table, c) :
        position' = [position EXCEPT
                       !.call = None, !.pass = FALSE, !.selected = tile,
                       !.shanten = c.discards, !.safe = c.safe,
                       !.dahai = SetToSeq(DOMAIN c.discards),
                       !.wait = c.wait, !.total = c.total, !.value = c.push_value]
  BY DEF AskForDiscard
<1> HIDE DEF c
<1>7. /\ position'.selected = tile /\ position'.shanten = c.discards
      /\ DecidePushPull(position', tile) = DecidePushPull(AfterCall(table, c), tile)
  <2>1. position' = AskedFor(table, c, OwnChoice(table), tile, SetToSeq(DOMAIN c.discards))
    BY <1>2, <1>6, Zenon DEF Asked, AskedFor
  <2> QED
    BY <1>5, <2>1, AskedHand
<1>8. Evaluates(position')
  <2>1. Discards(position') = DOMAIN c.discards /\ DOMAIN c.discards \subseteq TileTypes
        /\ \A t \in DOMAIN c.discards : c.discards[t] \in Int
    BY <1>5, <1>7 DEF Discards, IsCall
  <2>2. Selects(position')
    <3>1. CASE table.shanten = 1
      <4>1. tile = c.discard
        BY <1>6, <3>1 DEF FollowUps
      <4> QED
        BY <1>5, <1>7, <4>1 DEF Selects, Cohort, Discards, IsCall
    <3>2. CASE table.shanten # 1
      <4>1. tile \in Cohort(AfterCall(table, c))
        BY <1>6, <3>2 DEF FollowUps
      <4>2. AfterCall(table, c).shanten = c.discards
        BY DEF AfterCall
      <4> QED
        BY <1>7, <4>1, <4>2 DEF Selects, Cohort, Discards
    <3> QED
      BY <3>1, <3>2
  <2> QED
    BY <1>7, <2>1, <2>2 DEF Evaluates
<1>9. called_from' = 1 => DecidePushPull(position', position'.selected).mode = "Push"
  <2>1. table.shanten = 1 => tile = c.discard
    BY <1>6 DEF FollowUps
  <2> QED
    BY <1>1, <1>5, <1>7, <2>1 DEF PostCallVerdict
<1> QED
  BY <1>1, <1>2, <1>8, <1>9 DEF CalledInv, Decided

LEMMA CalledInvStep == CallInv /\ CalledInv /\ [CallsNext]_callsVars => CalledInv'
<1> SUFFICES ASSUME CallInv, CalledInv, [CallsNext]_callsVars PROVE CalledInv'
  OBVIOUS
<1>1. CASE ConsiderCalls
  BY <1>1, ConsideringKeepsInv
<1>2. CASE DecidePosition
  BY <1>2, DecidingKeepsInv, DiagnosingKeepsInv DEF DecidePosition
<1>3. CASE AskForDiscard
  BY <1>3, AskingKeepsInv
<1>4. CASE UNCHANGED callsVars
  BY <1>4 DEF callsVars, vars, callVars, CalledInv, Decided
<1> QED
  BY <1>1, <1>2, <1>3, <1>4 DEF CallsNext

LEMMA CalledInvCorrect == CallsSpec => []CalledInv
  BY CallInvCorrect, CalledInvInit, CalledInvStep, PTL DEF CallsSpec

(* Asked again, with diagnostics, the agent makes the call it made: the decision *)
(* about the calls depends on nothing but the table, whichever thread was first. *)
THEOREM CallsDiagnosisCorrect == CallsSpec => []DiagnosisAgrees
<1>1. CalledInv => DiagnosisAgrees
  <2> SUFFICES ASSUME CalledInv, diagnostics, Decided PROVE decision = acted
    BY DEF DiagnosisAgrees
  <2>1. table # None => position = Asked(table)
    BY DEF CalledInv, Decided
  <2> QED
    BY <2>1 DEF CalledInv
<1> QED
  BY <1>1, CalledInvCorrect, PTL

(* Whoever calls at one shanten plays on: the verdict on the hand after the call *)
(* is the one the call was made by.                                              *)
THEOREM PlayedOnCorrect == CallsSpec => []OneShantenCallIsPlayedOn
<1>1. CalledInv => OneShantenCallIsPlayedOn
  BY DEF CalledInv, OneShantenCallIsPlayedOn
<1> QED
  BY <1>1, CalledInvCorrect, PTL

(***************************************************************************)
(* What is asked after a call is judged like any other position, and a     *)
(* verdict is reached in no other way.                                     *)
(***************************************************************************)
JudgedInv == Judged(position) /\ ModeInv

LEMMA JudgedInvInit == CallsInit => JudgedInv
<1> SUFFICES ASSUME CallsInit PROVE JudgedInv
  OBVIOUS
<1>1. CASE table = None
  <2>1. Init
    BY <1>1 DEF CallsInit
  <2> QED
    BY <2>1, PositionAssumption, PositionsAreJudged, ModeInit DEF Init, JudgedInv
<1>2. CASE table # None
  <2>1. position = Offered(table) /\ stage = "start" /\ push_pull = None
    BY <1>2 DEF CallsInit
  <2>2. IsTable(table)
    BY <1>2, TableAssumption DEF CallsInit, CallInit
  <2>3. Judged(position)
    BY <2>1, <2>2 DEF Offered, Judged, IsTable
  <2> QED
    BY <2>1, <2>3 DEF JudgedInv, ModeInv, Decided
<1> QED
  BY <1>1, <1>2

LEMMA JudgedInvStep == CallInv /\ CalledInv /\ JudgedInv /\ [CallsNext]_callsVars => JudgedInv'
<1> SUFFICES ASSUME CallInv, CalledInv, JudgedInv, [CallsNext]_callsVars PROVE JudgedInv'
  OBVIOUS
<1>1. CASE ConsiderCalls
  <2>1. stage' = "start" /\ push_pull' = push_pull
    BY <1>1 DEF ConsiderCalls
  <2>2. position' \in {position, [position EXCEPT !.call = called']}
    BY <1>1 DEF ConsiderCalls
  <2>3. Judged(position')
    <3>1. \A p, c : Judged(p) => Judged([p EXCEPT !.call = c])
      <4> SUFFICES ASSUME NEW p, NEW c, Judged(p) PROVE Judged([p EXCEPT !.call = c])
        OBVIOUS
      <4> DEFINE q == [p EXCEPT !.call = c]
      <4>1. DOMAIN q = DOMAIN p
        OBVIOUS
      <4>2. /\ q.reachers = p.reachers /\ q.dealer_reacher = p.dealer_reacher
            /\ q.open_hands = p.open_hands /\ q.total = p.total /\ q.value = p.value
            /\ q.defence = p.defence
        OBVIOUS
      <4> HIDE DEF q
      <4> QED
        BY <4>1, <4>2 DEF Judged, q
    <3>2. Judged(position)
      BY DEF JudgedInv
    <3> QED
      BY <2>2, <3>1, <3>2
  <2> QED
    BY <2>1, <2>3 DEF JudgedInv, ModeInv, Decided
<1>2. CASE DecidePosition
  <2>1. Next /\ position' = position
    BY <1>2 DEF DecidePosition, Decides, Next, DeclareHora, DeclareRyukyoku, MakeCall, FoldEarly,
                SelectNormalDiscard, ChooseByMode, DiscardFirstLegal, Pass, Decide, Diagnose
  <2> QED
    BY <2>1, ModeStep DEF JudgedInv, Judged
<1>3. CASE AskForDiscard
  <2>1. stage' = "start" /\ push_pull' = None
    BY <1>3 DEF AskForDiscard
  <2>2. IsCall(CalledHand)
    BY <1>3, CalledHandIs
  <2>3. Judged(position')
    BY <1>3, <2>2 DEF AskForDiscard, JudgedInv, Judged, IsCall
  <2> QED
    BY <2>1, <2>3 DEF JudgedInv, ModeInv, Decided
<1>4. CASE UNCHANGED callsVars
  BY <1>4 DEF callsVars, vars, JudgedInv, ModeInv, Decided
<1> QED
  BY <1>1, <1>2, <1>3, <1>4 DEF CallsNext

LEMMA JudgedInvCorrect == CallsSpec => []JudgedInv
  BY CallInvCorrect, CalledInvCorrect, JudgedInvInit, JudgedInvStep, PTL DEF CallsSpec

(* After a call, too, a fold keeps to the defence against everybody who attacks. *)
THEOREM CallsFoldCorrect == CallsSpec => []FoldKeepsToTheDefence
  BY FoldInv, JudgedInvCorrect, PTL DEF JudgedInv

(* A hand that is folded after a call is folded against every larger threat.     *)
THEOREM CallsGrowingThreatCorrect == CallsSpec => []GrowingThreatNeverInvites
<1>1. CalledInv /\ JudgedInv => GrowingThreatNeverInvites
  BY WorseGrows, FoldStays DEF CalledInv, JudgedInv, GrowingThreatNeverInvites
<1> QED
  BY <1>1, CalledInvCorrect, JudgedInvCorrect, PTL

(* A fold that does not wait for the selection of a discard is the verdict of    *)
(* every discard the selection could prefer, after a call as well.               *)
THEOREM CallsEarlyFoldCorrect == CallsSpec => []EarlyFoldIsFinal
<1>1. CalledInv => EarlyFoldIsFinal
  BY EarlyVerdict DEF CalledInv, EarlyFoldIsFinal
<1> QED
  BY <1>1, CalledInvCorrect, PTL

-----------------------------------------------------------------------------
(***************************************************************************)
(* The discard of a fold.                                                  *)
(***************************************************************************)

\* A finite set has a greatest element of an order that compares all of its elements.
LEMMA GreatestExists ==
    ASSUME NEW S, IsFiniteSet(S), S # {}, NEW R,
           \A x, y \in S : <<x, y>> \in R \/ <<y, x>> \in R,
           \A x, y, z \in S : <<x, y>> \in R /\ <<y, z>> \in R => <<x, z>> \in R
    PROVE  \E x \in S : \A y \in S : <<x, y>> \in R
<1> DEFINE leads(T) == \E x \in T : \A y \in T : <<x, y>> \in R
           bad      == {T \in SUBSET S : T # {} /\ ~leads(T)}
           sizes    == {Cardinality(T) : T \in bad}
<1> SUFFICES ASSUME ~leads(S) PROVE FALSE
  OBVIOUS
<1>1. \A T \in SUBSET S : IsFiniteSet(T) /\ Cardinality(T) \in Nat
  BY FS_Subset, FS_CardinalityType
<1>2. sizes \in SUBSET Nat /\ sizes # {}
  <2>1. S \in bad
    OBVIOUS
  <2>2. \A T \in bad : Cardinality(T) \in Nat
    BY <1>1
  <2> HIDE DEF bad
  <2> QED
    BY <2>1, <2>2
<1>3. PICK T \in bad : \A U \in bad : Cardinality(T) <= Cardinality(U)
  <2>1. First(sizes) \in sizes /\ \A size \in sizes : First(sizes) <= size
    <3> HIDE DEF sizes
    <3> QED
      BY <1>2, FirstIsLeast
  <2>2. \A U \in bad : Cardinality(U) \in sizes
    OBVIOUS
  <2>3. PICK T \in bad : Cardinality(T) = First(sizes)
    <3> HIDE DEF bad
    <3> QED
      BY <2>1
  <2> HIDE DEF bad, sizes
  <2> QED
    BY <2>1, <2>2, <2>3
<1>4. PICK x \in T : TRUE
  BY <1>3
<1> DEFINE rest == T \ {x}
<1>5. rest \in SUBSET S /\ Cardinality(rest) = Cardinality(T) - 1 /\ Cardinality(T) \in Nat
  BY <1>1, <1>3, <1>4, FS_RemoveElement
<1>6. rest \notin bad
  <2>1. ~(Cardinality(T) <= Cardinality(rest))
    BY <1>5
  <2> HIDE DEF bad, rest
  <2> QED
    BY <1>3, <2>1
<1>7. CASE rest = {}
  <2>1. T = {x}
    BY <1>4, <1>7
  <2> QED
    BY <1>3, <2>1
<1>8. CASE rest # {}
  <2>1. PICK m \in rest : \A y \in rest : <<m, y>> \in R
    BY <1>5, <1>6, <1>8
  <2>2. m \in T /\ m \in S /\ x \in S /\ \A y \in T : y \in S /\ (y = x \/ y \in rest)
    BY <1>3, <1>4, <2>1
  <2>3. CASE <<m, x>> \in R
    <3>1. \A y \in T : <<m, y>> \in R
      BY <2>1, <2>2, <2>3
    <3> QED
      BY <1>3, <2>2, <3>1
  <2>4. CASE <<x, m>> \in R
    <3>1. <<x, x>> \in R
      BY <2>2
    <3>2. \A y \in T : <<x, y>> \in R
      BY <2>1, <2>2, <2>4, <3>1
    <3> QED
      BY <1>3, <1>4, <3>2
  <2> QED
    BY <2>2, <2>3, <2>4
<1> QED
  BY <1>7, <1>8

\* The extremes of finitely many small numbers.
LEMMA MaxIs ==
    ASSUME NEW n \in Nat, NEW S \in SUBSET (0 .. n), S # {}
    PROVE  Max(S) \in S /\ \A i \in S : Max(S) >= i
<1>1. IsFiniteSet(S)
  <2>1. IsFiniteSet(0 .. n)
    BY FS_Interval
  <2> QED
    BY <2>1, FS_Subset
<1> DEFINE R == {p \in S \X S : p[1] >= p[2]}
<1>2. \A x, y \in S : x \in Int /\ y \in Int /\ (<<x, y>> \in R <=> x >= y)
  OBVIOUS
<1> HIDE DEF R
<1>3. \E x \in S : \A y \in S : <<x, y>> \in R
  <2>1. \A x, y \in S : <<x, y>> \in R \/ <<y, x>> \in R
    <3>1. \A x, y \in Int : x >= y \/ y >= x
      OBVIOUS
    <3> QED
      BY <1>2, <3>1
  <2>2. \A x, y, z \in S : <<x, y>> \in R /\ <<y, z>> \in R => <<x, z>> \in R
    BY <1>2
  <2> QED
    BY <1>1, <2>1, <2>2, GreatestExists
<1> QED
  BY <1>2, <1>3 DEF Max

LEMMA MinIs ==
    ASSUME NEW S \in SUBSET Nat, S # {}
    PROVE  Min(S) \in S /\ \A i \in S : Min(S) <= i
<1>1. \E x \in S : \A y \in S : x <= y
  BY FirstIsLeast
<1> QED
  BY <1>1 DEF Min

\* What is picked from the offer.
LEMMA FirstLegalIs ==
    ASSUME NEW v, v.dahai \in Seq(Legal(v)), NEW tiles
    PROVE  /\ Legal(v) \cap tiles = {} => FirstLegal(v, tiles) = None
           /\ Legal(v) \cap tiles # {} => FirstLegal(v, tiles) \in Legal(v) \cap tiles
<1> DEFINE places == {i \in DOMAIN v.dahai : v.dahai[i] \in tiles}
<1>1. Legal(v) = {v.dahai[i] : i \in DOMAIN v.dahai} /\ DOMAIN v.dahai = 1 .. Len(v.dahai)
  BY DEF Legal, ToSet
<1>2. CASE Legal(v) \cap tiles # {}
  <2>1. places \in SUBSET Nat /\ places # {}
    BY <1>1, <1>2
  <2>2. Min(places) \in places
    BY <2>1, MinIs
  <2> QED
    BY <1>1, <1>2, <2>2 DEF FirstLegal
<1> QED
  BY <1>2 DEF FirstLegal

-----------------------------------------------------------------------------
\* Only finitely many tiles are offered.
LEMMA LegalIsFinite ==
    ASSUME NEW v, v.dahai \in Seq(Legal(v))
    PROVE  IsFiniteSet(Legal(v))
<1> DEFINE n == Len(v.dahai)
           f == [i \in 1 .. n |-> v.dahai[i]]
<1>1. Legal(v) = {v.dahai[i] : i \in 1 .. n} /\ n \in Nat
  BY DEF Legal, ToSet
<1>2. f \in Surjection(1 .. n, Legal(v))
  BY <1>1 DEF Surjection
<1>3. IsFiniteSet(1 .. n)
  BY <1>1, FS_Interval
<1> QED
  BY <1>2, <1>3, FS_Surjection

\* The tiles no target can win on, and those all targets have shown they cannot or will not.
SafeTile(v, tile, targets) == \A player \in targets : RonSafe(v, tile, player)
CoveredTile(v, tile, targets) == \A player \in targets : Covered(v, tile, player)

LEMMA SafeFirst ==
    ASSUME NEW v, v.dahai \in Seq(Legal(v)), NEW targets, targets # {}
    PROVE  /\ SafeChoice(v, targets) # None =>
                 SafeChoice(v, targets) \in Legal(v) /\ SafeTile(v, SafeChoice(v, targets), targets)
           /\ SafeChoice(v, targets) = None => None \in Legal(v) \/ \A tile \in Legal(v) : ~SafeTile(v, tile, targets)
<1>1. SafeAgainst(v, targets) = {tile \in Legal(v) : SafeTile(v, tile, targets)}
  BY DEF SafeAgainst, SafeTile
<1>2. Legal(v) \cap SafeAgainst(v, targets) = SafeAgainst(v, targets)
  BY <1>1
<1> QED
  BY <1>1, <1>2, FirstLegalIs DEF SafeChoice

\* Some tile that was let pass is the one most targets cannot win on.
LEMMA PassedNext ==
    ASSUME NEW v, v.dahai \in Seq(Legal(v)), NEW targets, IsFiniteSet(targets), None \notin Legal(v)
    PROVE  /\ PassedChoice(v, targets) # None => PassedChoice(v, targets) \in PassedAgainst(v, targets)
           /\ PassedChoice(v, targets) = None => PassedAgainst(v, targets) = {}
<1> DEFINE passed == PassedAgainst(v, targets)
           best   == {tile \in passed : \A other \in passed :
                         RonSafeCount(v, other, targets) <= RonSafeCount(v, tile, targets)}
<1>1. passed \subseteq Legal(v)
  BY DEF PassedAgainst
<1>2. Legal(v) \cap best = best /\ PassedChoice(v, targets) = FirstLegal(v, best)
  BY <1>1 DEF PassedChoice
<1>3. passed # {} => best # {}
  <2>1. \A tile : RonSafeCount(v, tile, targets) \in Nat
    <3> TAKE tile
    <3>1. {player \in targets : RonSafe(v, tile, player)} \in SUBSET targets
      OBVIOUS
    <3> QED
      BY <3>1, FS_Subset, FS_CardinalityType DEF RonSafeCount
  <2> DEFINE R == {p \in passed \X passed :
                     RonSafeCount(v, p[2], targets) <= RonSafeCount(v, p[1], targets)}
  <2>2. IsFiniteSet(passed)
    <3>1. IsFiniteSet(Legal(v))
      BY LegalIsFinite
    <3> QED
      BY <1>1, <3>1, FS_Subset
  <2>3. \A x, y \in passed : <<x, y>> \in R <=> RonSafeCount(v, y, targets) <= RonSafeCount(v, x, targets)
    OBVIOUS
  <2> HIDE DEF R, passed
  <2>4. \A x, y \in passed : <<x, y>> \in R \/ <<y, x>> \in R
    <3>1. \A x, y \in Nat : x <= y \/ y <= x
      OBVIOUS
    <3> QED
      BY <2>1, <2>3, <3>1
  <2>5. \A x, y, z \in passed : <<x, y>> \in R /\ <<y, z>> \in R => <<x, z>> \in R
    BY <2>1, <2>3
  <2>6. passed # {} => \E x \in passed : \A y \in passed : <<x, y>> \in R
    BY <2>2, <2>4, <2>5, GreatestExists
  <2> QED
    BY <2>3, <2>6
<1> HIDE DEF best, passed
<1>4. best \subseteq passed
  BY DEF best
<1> QED
  BY <1>1, <1>2, <1>3, <1>4, FirstLegalIs DEF passed

LEMMA OpponentsAreFinite ==
    ASSUME NEW v, IsView(v)
    PROVE  \A targets \in SUBSET Opponents(v) : IsFiniteSet(targets)
<1>1. IsFiniteSet(0 .. 3)
  <2>1. \A n \in Nat : IsFiniteSet(0 .. n)
    BY FS_Interval
  <2> QED
    BY <2>1
<1>2. Opponents(v) \subseteq 0 .. 3
  BY DEF IsView
<1>3. \A targets \in SUBSET Opponents(v) : targets \in SUBSET (0 .. 3)
  BY <1>2
<1> QED
  BY <1>1, <1>3, FS_Subset

\* Ratios are compared by their cross products.
LEMMA RatioOrder ==
    ASSUME NEW a \in Nat \X (Nat \ {0}), NEW b \in Nat \X (Nat \ {0}), NEW c \in Nat \X (Nat \ {0})
    PROVE  /\ ~RatioLess(a, b) \/ ~RatioLess(b, a)
           /\ ~RatioLess(a, b) /\ ~RatioLess(b, c) => ~RatioLess(a, c)
<1>1. \A x, y, z, u, w \in Nat, t \in Nat \ {0} :
         x * t >= y * w /\ y * u >= z * t => (x * u) * t >= (z * w) * t
  <2> TAKE x, y, z, u, w \in Nat, t \in Nat \ {0}
  <2> HAVE x * t >= y * w /\ y * u >= z * t
  <2>1. x * t \in Nat /\ y * w \in Nat /\ y * u \in Nat /\ z * t \in Nat
    OBVIOUS
  <2>2. (x * t) * u >= (y * w) * u
    <3>1. \A p, q, r \in Nat : p >= q => p * r >= q * r
      OBVIOUS
    <3> QED
      BY <2>1, <3>1
  <2>3. (y * u) * w >= (z * t) * w
    <3>1. \A p, q, r \in Nat : p >= q => p * r >= q * r
      OBVIOUS
    <3> QED
      BY <2>1, <3>1
  <2>4. (x * t) * u = (x * u) * t /\ (y * w) * u = (y * u) * w /\ (z * t) * w = (z * w) * t
    OBVIOUS
  <2>5. (x * u) * t \in Nat /\ (y * u) * w \in Nat /\ (z * w) * t \in Nat
    OBVIOUS
  <2> QED
    BY <2>2, <2>3, <2>4, <2>5
<1>2. \A x, y \in Nat, t \in Nat \ {0} : x * t >= y * t => x >= y
  OBVIOUS
<1>3. /\ a[1] \in Nat /\ b[1] \in Nat /\ c[1] \in Nat
      /\ a[2] \in Nat \ {0} /\ b[2] \in Nat \ {0} /\ c[2] \in Nat \ {0}
  OBVIOUS
<1>4. /\ a[1] * b[2] \in Nat /\ b[1] * a[2] \in Nat /\ b[1] * c[2] \in Nat /\ c[1] * b[2] \in Nat
      /\ a[1] * c[2] \in Nat /\ c[1] * a[2] \in Nat
  BY <1>3
<1>5. ~RatioLess(a, b) \/ ~RatioLess(b, a)
  BY <1>4 DEF RatioLess
<1>6. ASSUME ~RatioLess(a, b), ~RatioLess(b, c) PROVE ~RatioLess(a, c)
  <2>1. a[1] * b[2] >= b[1] * a[2] /\ b[1] * c[2] >= c[1] * b[2]
    BY <1>4, <1>6 DEF RatioLess
  <2>2. (a[1] * c[2]) * b[2] >= (c[1] * a[2]) * b[2]
    BY <1>1, <1>3, <2>1
  <2>3. a[1] * c[2] >= c[1] * a[2]
    BY <1>2, <1>3, <1>4, <2>2
  <2> QED
    BY <1>4, <2>3 DEF RatioLess
<1> QED
  BY <1>5, <1>6

\* What a view says of the risks, if they can be compared.
LEMMA RisksAre ==
    ASSUME NEW v, IsView(v), NEW targets \in SUBSET Opponents(v), RiskIsKnown(v, targets)
    PROVE  \A tile \in Legal(v), player \in targets :
              /\ Risk(v, tile, player) \in Nat \X (Nat \ {0})
              /\ RonSafe(v, tile, player) => Risk(v, tile, player)[1] = 0
<1> TAKE tile \in Legal(v), player \in targets
<1>1. v.risk[player] # None /\ v.risk[player].total > 0 /\ player \in Opponents(v)
  BY DEF RiskIsKnown
<1>2. /\ v.risk[player].total \in Nat
      /\ v.risk[player].wins[tile] \in 0 .. v.risk[player].total
      /\ RonSafe(v, tile, player) => v.risk[player].wins[tile] = 0
  BY <1>1 DEF IsView
<1> QED
  BY <1>1, <1>2 DEF Risk

\* Somebody is the one against whom a tile is worst.
LEMMA WorstExists ==
    ASSUME NEW v, IsView(v), NEW targets \in SUBSET Opponents(v), targets # {},
           RiskIsKnown(v, targets), NEW tile \in Legal(v)
    PROVE  \E worst \in targets : \A player \in targets :
              ~RatioLess(Risk(v, tile, worst), Risk(v, tile, player))
<1> DEFINE R == {p \in targets \X targets : ~RatioLess(Risk(v, tile, p[1]), Risk(v, tile, p[2]))}
<1>1. \A x, y \in targets : <<x, y>> \in R <=> ~RatioLess(Risk(v, tile, x), Risk(v, tile, y))
  OBVIOUS
<1>2. \A x \in targets : Risk(v, tile, x) \in Nat \X (Nat \ {0})
  BY RisksAre
<1> HIDE DEF R
<1>3. \A x, y \in targets : <<x, y>> \in R \/ <<y, x>> \in R
  BY <1>1, <1>2, RatioOrder
<1>4. \A x, y, z \in targets : <<x, y>> \in R /\ <<y, z>> \in R => <<x, z>> \in R
  BY <1>1, <1>2, RatioOrder
<1>5. IsFiniteSet(targets)
  BY OpponentsAreFinite
<1> QED
  BY <1>1, <1>3, <1>4, <1>5, GreatestExists

\* A tile all of whose risks are below some risk of another comes first.
LEMMA LowerIsLess ==
    ASSUME NEW v, IsView(v), NEW targets \in SUBSET Opponents(v),
           RiskIsKnown(v, targets), NEW tile \in Legal(v), NEW other \in Legal(v),
           NEW worst \in targets,
           \A player \in targets : ~RatioLess(Risk(v, other, worst), Risk(v, other, player)),
           \A player \in targets : RatioLess(Risk(v, tile, player), Risk(v, other, worst))
    PROVE  VectorLess(v, tile, other, targets)
<1> DEFINE risk == Risk(v, other, worst)
<1>1. AtLeast(v, tile, targets, risk) = {}
  BY DEF AtLeast
<1>2. Cardinality(AtLeast(v, tile, targets, risk)) = 0
  BY <1>1, FS_EmptySet
<1>3. worst \in AtLeast(v, other, targets, risk)
  BY DEF AtLeast
<1>4. IsFiniteSet(AtLeast(v, other, targets, risk))
  <2>1. AtLeast(v, other, targets, risk) \in SUBSET targets /\ IsFiniteSet(targets)
    BY OpponentsAreFinite DEF AtLeast
  <2> QED
    BY <2>1, FS_Subset
<1>5. Cardinality(AtLeast(v, other, targets, risk)) \in Nat \ {0}
  BY <1>3, <1>4, FS_EmptySet, FS_CardinalityType
<1>6. \A player \in targets : ~RatioLess(risk, Risk(v, tile, player))
  BY RisksAre, RatioOrder
<1> QED
  BY <1>2, <1>5, <1>6 DEF VectorLess

\* The comparison of the risks never answers with a tile whose worst risk another one stays
\* below.
LEMMA RiskIsLeast ==
    ASSUME NEW v, IsView(v), NEW targets \in SUBSET Opponents(v), targets # {},
           RiskIsKnown(v, targets), RiskChoice(v, targets) # None, NEW tile \in Legal(v)
    PROVE  LET played == RiskChoice(v, targets)
           IN  /\ played \in Legal(v)
               /\ \A worst \in targets :
                     (\A player \in targets : ~RatioLess(Risk(v, played, worst), Risk(v, played, player)))
                        => \E player \in targets :
                              ~RatioLess(Risk(v, tile, player), Risk(v, played, worst))
<1> DEFINE played == RiskChoice(v, targets)
           least  == {t \in Legal(v) : \A o \in Legal(v) : ~VectorLess(v, o, t, targets)}
<1>1. v.dahai \in Seq(Legal(v)) /\ Legal(v) \cap least = least
  BY DEF IsView
<1>2. played \in least
  BY <1>1, FirstLegalIs DEF RiskChoice
<1> QED
  BY <1>2, LowerIsLess

-----------------------------------------------------------------------------
(* The heuristics.  What `safer' means if hands cannot be counted.               *)

\* The value of an honor to one target, and to several.
LEMMA HonorValueIs ==
    ASSUME NEW v, NEW tile, NEW player
    PROVE  /\ HonorValue(v, tile, player) \in 0 .. 2 \cup {None}
           /\ v.round_wind # None /\ v.oya # None => HonorValue(v, tile, player) \in 0 .. 2
           /\ v.round_wind = None \/ v.oya = None =>
                 HonorValue(v, tile, player) \in {1, None}
<1> DEFINE winds == {<<"round", v.round_wind>>, <<"seat", SeatWind(v, player)>>}
           S == {wind \in winds : wind[2] = tile[2]}
<1>1. IsFiniteSet(winds) /\ Cardinality(winds) \in 0 .. 2
  <2> DEFINE a == <<"round", v.round_wind>>
             b == <<"seat", SeatWind(v, player)>>
  <2>1. IsFiniteSet({a}) /\ Cardinality({a}) = 1
    BY FS_Singleton
  <2>2. winds = {a} \cup {b}
    OBVIOUS
  <2> HIDE DEF a, b, winds
  <2> QED
    BY <2>1, <2>2, FS_AddElement
<1>2. Cardinality(S) \in 0 .. 2
  <2>1. S \in SUBSET winds
    OBVIOUS
  <2> HIDE DEF S, winds
  <2> QED
    BY <1>1, <2>1, FS_Subset, FS_CardinalityType
<1> HIDE DEF S
<1>3. HonorValue(v, tile, player) =
        CASE IsDragon(tile) -> 1
          [] ~IsDragon(tile) /\ (v.round_wind = None \/ v.oya = None) -> None
          [] ~IsDragon(tile) /\ v.round_wind # None /\ v.oya # None -> Cardinality(S)
  BY DEF HonorValue, S
<1> QED
  BY <1>2, <1>3

LEMMA HonorValueAmongIs ==
    ASSUME NEW v, NEW tile, NEW targets, targets # {},
           \A player \in targets : HonorValue(v, tile, player) # None
    PROVE  /\ \E player \in targets : HonorValueAmong(v, tile, targets) = HonorValue(v, tile, player)
           /\ \A player \in targets : HonorValueAmong(v, tile, targets) >= HonorValue(v, tile, player)
           /\ HonorValueAmong(v, tile, targets) \in 0 .. 2
           /\ HonorValueAmong(v, tile, targets) # None
<1> DEFINE values == {HonorValue(v, tile, player) : player \in targets} \ {None}
<1>1. \A player \in targets : HonorValue(v, tile, player) \in 0 .. 2
  BY HonorValueIs
<1>2. None \notin 0 .. 2
  BY NoneAssumption
<1>3. values \in SUBSET (0 .. 2) /\ values # {} /\ \A player \in targets : HonorValue(v, tile, player) \in values
  BY <1>1
<1>4. Max(values) \in values /\ \A value \in values : Max(values) >= value
  BY <1>3, MaxIs
<1>5. HonorValueAmong(v, tile, targets) = Max(values)
  BY <1>3 DEF HonorValueAmong
<1> QED
  BY <1>2, <1>3, <1>4, <1>5

\* The suji of one target, and of several.
LEMMA SujiIs ==
    ASSUME NEW v, NEW tile
    PROVE  /\ \A player : SujiRank(v, tile, player) \in 0 .. 2
           /\ \A targets : targets # {} =>
                 /\ \E player \in targets : SujiRankAmong(v, tile, targets) = SujiRank(v, tile, player)
                 /\ \A player \in targets : SujiRankAmong(v, tile, targets) <= SujiRank(v, tile, player)
<1>1. \A player : SujiRank(v, tile, player) \in 0 .. 2
  <2> TAKE player
  <2> DEFINE partners == {route.partner : route \in Routes(tile)} \ {None}
             found    == partners \cap v.seats[player].river
  <2>1. SujiRank(v, tile, player) = CASE found = {} -> 0
                                      [] found # {} /\ found = partners -> 2
                                      [] found # {} /\ found # partners -> 1
    BY DEF SujiRank
  <2> HIDE DEF found, partners
  <2> QED
    BY <2>1
<1>2. ASSUME NEW targets, targets # {}
      PROVE  /\ \E player \in targets : SujiRankAmong(v, tile, targets) = SujiRank(v, tile, player)
             /\ \A player \in targets : SujiRankAmong(v, tile, targets) <= SujiRank(v, tile, player)
  <2> DEFINE ranks == {SujiRank(v, tile, player) : player \in targets}
  <2>1. ranks \in SUBSET Nat /\ ranks # {}
    BY <1>1, <1>2
  <2>2. Min(ranks) \in ranks /\ \A rank \in ranks : Min(ranks) <= rank
    BY <2>1, MinIs
  <2>3. SujiRankAmong(v, tile, targets) = Min(ranks)
    BY <1>2 DEF SujiRankAmong
  <2> QED
    BY <2>2, <2>3
<1> QED
  BY <1>1, <1>2

\* A suited tile that is better against each target left to the heuristic is better
\* against all of them.
LEMMA BetterSuited ==
    ASSUME NEW v, NEW tile, NEW other, NEW few, NEW all, few # {}, few \subseteq all,
           \A player \in few : SuitedRank(v, tile, {player}) > SuitedRank(v, other, {player})
    PROVE  /\ SuitedRank(v, tile, few) > SuitedRank(v, other, all)
           /\ SuitedRank(v, tile, few) \in 0 .. 4 /\ SuitedRank(v, other, all) \in 0 .. 4
<1> DEFINE wall(t) == CASE WallRank(v, t) = 2 -> 4 [] WallRank(v, t) = 1 -> 3 [] OTHER -> 0
<1>1. \A t, targets : SuitedRank(v, t, targets) = IF wall(t) # 0 THEN wall(t)
                                                   ELSE SujiRankAmong(v, t, targets)
  BY DEF SuitedRank
<1>2. \A t : wall(t) \in {0, 3, 4}
  OBVIOUS
<1> HIDE DEF wall
<1>3. \A t, player : SujiRankAmong(v, t, {player}) = SujiRank(v, t, player)
  <2> TAKE t, player
  <2>1. {player} # {}
    OBVIOUS
  <2> QED
    BY <2>1, SujiIs
<1>4. PICK p \in few : SujiRankAmong(v, tile, few) = SujiRank(v, tile, p)
  BY SujiIs
<1>5. /\ SujiRankAmong(v, other, all) <= SujiRank(v, other, p)
      /\ SujiRankAmong(v, other, all) \in 0 .. 2
  <2>1. all # {} /\ p \in all
    BY <1>4
  <2> QED
    BY <2>1, SujiIs
<1>6. SujiRank(v, tile, p) \in 0 .. 2 /\ SujiRank(v, other, p) \in 0 .. 2
  BY SujiIs
<1>7. SuitedRank(v, tile, {p}) > SuitedRank(v, other, {p})
  BY <1>4
<1> QED
  BY <1>1, <1>2, <1>3, <1>4, <1>5, <1>6, <1>7

LEMMA HonorRankType ==
    ASSUME NEW v, IsView(v) PROVE \A tile : HonorRank(v, tile) \in 0 .. 3
<1> TAKE tile
<1>1. VisibleCount(v, tile) \in 0 .. 4
  BY DEF VisibleCount, IsView
<1>2. {VisibleCount(v, tile), 3} \in SUBSET Nat /\ {VisibleCount(v, tile), 3} # {}
  BY <1>1
<1>3. HonorRank(v, tile) \in {VisibleCount(v, tile), 3} /\ HonorRank(v, tile) <= 3
  BY <1>2, MinIs DEF HonorRank
<1> QED
  BY <1>1, <1>3

LEMMA TargetValueType ==
    ASSUME NEW v, NEW tile, NEW targets
    PROVE  TargetHonorValue(v, tile, targets) \in 0 .. 2 \cup {None}
<1> DEFINE few    == HeuristicTargets(v, tile, targets)
           values == {HonorValue(v, tile, player) : player \in few} \ {None}
<1>1. values \in SUBSET (0 .. 2)
  BY HonorValueIs
<1>2. values # {} => Max(values) \in 0 .. 2
  <2> HIDE DEF values
  <2>1. values # {} => Max(values) \in values
    BY <1>1, MaxIs
  <2> QED
    BY <1>1, <2>1
<1>3. TargetHonorValue(v, tile, targets) = IF values = {} THEN None ELSE Max(values)
  BY DEF TargetHonorValue, HonorValueAmong
<1> QED
  BY <1>2, <1>3

\* The honor that is chosen was seen most often; while the winds are known none of those
\* seen as often is worth less to the targets.
LEMMA HonorIsBest ==
    ASSUME NEW v, IsView(v), NEW targets,
           \A t \in Legal(v) : ~CoveredTile(v, t, targets),
           HonorChoice(v, targets) # None, NEW tile \in Legal(v), IsHonor(tile)
    PROVE  LET played == HonorChoice(v, targets)
           IN  /\ played \in Legal(v) /\ IsHonor(played)
               /\ HonorRank(v, tile) <= HonorRank(v, played)
               /\ HonorRank(v, tile) = HonorRank(v, played) /\ v.round_wind # None /\ v.oya # None =>
                     TargetHonorValue(v, played, targets) <= TargetHonorValue(v, tile, targets)
<1> DEFINE played   == HonorChoice(v, targets)
           honors   == {t \in Legal(v) : IsHonor(t)}
           group    == {i \in DOMAIN v.dahai : /\ v.dahai[i] \in honors
                                               /\ \A other \in honors :
                                                     HonorRank(v, other) <= HonorRank(v, v.dahai[i])}
           value(i) == TargetHonorValue(v, v.dahai[i], targets)
           run      == {i \in group : \A j \in group : j <= i => value(j) # None}
           least    == {i \in run : \A j \in run : value(i) <= value(j)}
<1>1. /\ v.dahai \in Seq(Legal(v)) /\ DOMAIN v.dahai \subseteq Nat
      /\ Legal(v) = {v.dahai[i] : i \in DOMAIN v.dahai}
  BY DEF IsView, Legal, ToSet
<1>2. /\ run = {} => played = v.dahai[Min(group)]
      /\ run # {} => played = FirstLegal(v, {v.dahai[i] : i \in least})
  <2>1. honors # {}
    OBVIOUS
  <2> HIDE DEF honors
  <2> QED
    BY <2>1 DEF HonorChoice, honors
<1>3. group # {}
  <2> DEFINE ranks == {HonorRank(v, t) : t \in honors}
  <2>1. ranks \in SUBSET (0 .. 3) /\ ranks # {}
    BY HonorRankType
  <2>2. PICK t \in honors : Max(ranks) = HonorRank(v, t) /\ \A rank \in ranks : Max(ranks) >= rank
    <3>1. Max(ranks) \in ranks /\ \A rank \in ranks : Max(ranks) >= rank
      <4> HIDE DEF ranks
      <4> QED
        BY <2>1, MaxIs
    <3> QED
      BY <3>1
  <2>3. \A other \in honors : HonorRank(v, other) <= HonorRank(v, t)
    BY <2>2, HonorRankType
  <2>4. PICK i \in DOMAIN v.dahai : v.dahai[i] = t
    BY <1>1
  <2>5. i \in group
    BY <2>3, <2>4
  <2> QED
    BY <2>5
<1>4. run # {} => least # {}
  <2> DEFINE values == {value(i) : i \in run}
  <2>1. \A i \in run : value(i) \in 0 .. 2
    <3>1. \A i \in run : i \in group /\ i \in Nat /\ (i <= i => value(i) # None)
      BY <1>1
    <3>2. \A i \in run : value(i) # None
      <4> HIDE DEF run, group, value
      <4> QED
        BY <3>1
    <3> QED
      BY <3>2, TargetValueType
  <2> HIDE DEF run, value
  <2>2. values \in SUBSET Nat /\ (run # {} => values # {})
    BY <2>1
  <2>3. run # {} => Min(values) \in values /\ \A number \in values : Min(values) <= number
    <3> HIDE DEF values
    <3> QED
      BY <2>2, MinIs
  <2>4. run # {} => \E i \in run : \A j \in run : value(i) <= value(j)
    BY <2>3
  <2> QED
    BY <2>4
<1>5. \E i \in group : /\ played = v.dahai[i]
                       /\ run # {} => \E k \in least : played = v.dahai[k]
  <2>1. CASE run = {}
    <3>1. group \in SUBSET Nat
      BY <1>1
    <3>2. Min(group) \in group
      BY <1>3, <3>1, MinIs
    <3> QED
      BY <1>2, <2>1, <3>2
  <2>2. CASE run # {}
    <3> DEFINE picked == {v.dahai[i] : i \in least}
    <3>1. least \subseteq group
      OBVIOUS
    <3>2. picked \subseteq Legal(v) /\ picked # {}
      <4> HIDE DEF least, group
      <4>1. group \subseteq DOMAIN v.dahai
        BY DEF group
      <4> QED
        BY <1>1, <1>4, <2>2, <3>1, <4>1
    <3>3. Legal(v) \cap picked = picked
      BY <3>2
    <3>4. played \in picked
      <4> HIDE DEF picked, run
      <4> QED
        BY <1>1, <1>2, <2>2, <3>2, <3>3, FirstLegalIs DEF picked
    <3> HIDE DEF least, group
    <3> QED
      BY <2>2, <3>1, <3>4
  <2> QED
    BY <2>1, <2>2
<1>6. PICK i \in group : played = v.dahai[i] /\ (run # {} => \E k \in least : played = v.dahai[k])
  BY <1>5
<1>7. played \in Legal(v) /\ IsHonor(played) /\ HonorRank(v, tile) <= HonorRank(v, played)
  <2> HIDE DEF run, least, played
  <2> QED
    BY <1>6
<1>8. ASSUME HonorRank(v, tile) = HonorRank(v, played), v.round_wind # None, v.oya # None
      PROVE  TargetHonorValue(v, played, targets) <= TargetHonorValue(v, tile, targets)
  <2>1. \A t \in Legal(v) : TargetHonorValue(v, t, targets) # None
    <3> TAKE t \in Legal(v)
    <3>1. HeuristicTargets(v, t, targets) # {}
      BY DEF HeuristicTargets, CoveredTile
    <3>2. \A player : HonorValue(v, t, player) # None
      BY <1>8, HonorValueIs, NoneAssumption
    <3> QED
      BY <3>1, <3>2, HonorValueAmongIs DEF TargetHonorValue
  <2>2. run = group
    <3>1. \A j \in group : value(j) # None
      BY <1>1, <2>1
    <3> HIDE DEF group, value
    <3> QED
      BY <3>1
  <2>3. PICK k \in least : played = v.dahai[k]
    BY <1>3, <1>6, <2>2
  <2>4. PICK j \in DOMAIN v.dahai : v.dahai[j] = tile
    BY <1>1
  <2>5. j \in group
    <3> HIDE DEF played, run, least
    <3> QED
      BY <1>6, <1>8, <2>4
  <2>6. value(k) <= value(j)
    <3> HIDE DEF value, group
    <3> QED
      BY <2>2, <2>3, <2>5
  <2> QED
    BY <2>3, <2>4, <2>6
<1> QED
  BY <1>7, <1>8

\* The suited tile that is chosen is safer than none at all, and no other is safer.
LEMMA SuitedIsBest ==
    ASSUME NEW v, IsView(v), NEW targets, SuitedChoice(v, targets) # None
    PROVE  LET played == SuitedChoice(v, targets)
           IN  /\ played \in Legal(v) /\ ~IsHonor(played)
               /\ \A tile \in Legal(v) :
                     ~IsHonor(tile) /\ TargetSuitedRank(v, tile, targets) # NoSafety =>
                        TargetSuitedRank(v, tile, targets) <= TargetSuitedRank(v, played, targets)
               /\ TargetSuitedRank(v, played, targets) # NoSafety
<1> DEFINE suited == {tile \in Legal(v) : ~IsHonor(tile) /\ TargetSuitedRank(v, tile, targets) # NoSafety}
           best   == {tile \in suited : \A other \in suited :
                        TargetSuitedRank(v, other, targets) <= TargetSuitedRank(v, tile, targets)}
<1>1. SuitedChoice(v, targets) = FirstLegal(v, best)
  BY DEF SuitedChoice
<1>2. v.dahai \in Seq(Legal(v)) /\ Legal(v) \cap best = best
  BY DEF IsView
<1>3. SuitedChoice(v, targets) \in best
  <2> HIDE DEF best
  <2> QED
    BY <1>1, <1>2, FirstLegalIs
<1> QED
  BY <1>3

\* The heuristics never answer with a tile while another one is safer against every
\* target.
LEMMA HeuristicIsSafest ==
    ASSUME NEW v, IsView(v), Attackers(v) # {}, ~RiskIsKnown(v, Attackers(v)),
           \A t \in Legal(v) : ~CoveredTile(v, t, Attackers(v)),
           NEW family, LegacyChoice(v, family, Attackers(v)) # None,
           NEW tile \in Legal(v)
    PROVE  LET played == LegacyChoice(v, family, Attackers(v))
           IN  /\ played \in Legal(v)
               /\ \E player \in Attackers(v) : ~SaferFor(v, tile, played, player)
<1> DEFINE targets == Attackers(v)
           played  == LegacyChoice(v, family, targets)
           few     == HeuristicTargets(v, tile, targets)
<1>1. \/ played = HonorChoice(v, targets) /\ HonorChoice(v, targets) # None
      \/ played = SuitedChoice(v, targets) /\ SuitedChoice(v, targets) # None
  BY DEF LegacyChoice
<1>2. /\ HonorChoice(v, targets) # None => HonorChoice(v, targets) \in Legal(v) /\ IsHonor(HonorChoice(v, targets))
      /\ SuitedChoice(v, targets) # None => SuitedChoice(v, targets) \in Legal(v) /\ ~IsHonor(SuitedChoice(v, targets))
  <2>1. HonorChoice(v, targets) # None => \E t \in Legal(v) : IsHonor(t)
    <3>1. {t \in Legal(v) : IsHonor(t)} = {} => HonorChoice(v, targets) = None
      BY DEF HonorChoice
    <3> QED
      BY <3>1
  <2> QED
    BY <2>1, HonorIsBest, SuitedIsBest
<1>p. played \in Legal(v)
  BY <1>1, <1>2
<1> SUFFICES ASSUME \A player \in targets : SaferFor(v, tile, played, player)
             PROVE  FALSE
  BY <1>p
<1>3. few # {} /\ few \subseteq targets
  BY DEF HeuristicTargets, CoveredTile
<1>4. HeuristicTargets(v, played, targets) = targets
  BY DEF HeuristicTargets, SaferFor
<1>5. \A player \in few :
         \/ /\ IsHonor(tile) /\ IsHonor(played)
            /\ \/ HonorRank(v, tile) > HonorRank(v, played)
               \/ /\ HonorRank(v, tile) = HonorRank(v, played)
                  /\ HonorValue(v, tile, player) # None
                  /\ HonorValue(v, played, player) # None
                  /\ HonorValue(v, tile, player) < HonorValue(v, played, player)
         \/ /\ ~IsHonor(tile) /\ ~IsHonor(played)
            /\ SuitedRank(v, tile, {player}) > SuitedRank(v, played, {player})
  BY DEF HeuristicTargets, Covered, SaferFor
<1> HIDE DEF played, few
<1>6. CASE IsHonor(tile) /\ IsHonor(played)
  <2>1. played = HonorChoice(v, targets) /\ HonorChoice(v, targets) # None
    BY <1>1, <1>2, <1>6
  <2>2. HonorRank(v, tile) <= HonorRank(v, played)
    BY <1>6, <2>1, HonorIsBest
  <2>3. \A player \in few :
           /\ HonorRank(v, tile) = HonorRank(v, played)
           /\ HonorValue(v, tile, player) # None /\ HonorValue(v, played, player) # None
           /\ HonorValue(v, tile, player) < HonorValue(v, played, player)
    BY <1>5, <1>6, <2>2, HonorRankType
  <2>4. HonorRank(v, tile) = HonorRank(v, played)
    BY <1>3, <2>3
  <2>5. v.round_wind # None /\ v.oya # None
    <3> SUFFICES ASSUME v.round_wind = None \/ v.oya = None PROVE FALSE
      OBVIOUS
    <3>1. PICK player \in few : TRUE
      BY <1>3
    <3>2. HonorValue(v, tile, player) = 1 /\ HonorValue(v, played, player) = 1
      BY <2>3, <3>1, HonorValueIs
    <3> QED
      BY <2>3, <3>1, <3>2
  <2>6. TargetHonorValue(v, played, targets) <= TargetHonorValue(v, tile, targets)
    BY <1>6, <2>1, <2>4, <2>5, HonorIsBest
  <2>7. \A t, player : HonorValue(v, t, player) \in 0 .. 2 /\ HonorValue(v, t, player) # None
    BY <2>5, HonorValueIs, NoneAssumption
  <2>8. PICK player \in few : TargetHonorValue(v, tile, targets) = HonorValue(v, tile, player)
    BY <1>3, <2>7, HonorValueAmongIs DEF TargetHonorValue, few
  <2>9. /\ TargetHonorValue(v, played, targets) >= HonorValue(v, played, player)
        /\ TargetHonorValue(v, played, targets) \in 0 .. 2
    BY <1>3, <1>4, <2>7, <2>8, HonorValueAmongIs DEF TargetHonorValue
  <2> QED
    BY <2>3, <2>6, <2>7, <2>8, <2>9
<1>7. CASE ~IsHonor(tile) /\ ~IsHonor(played)
  <2>1. played = SuitedChoice(v, targets) /\ SuitedChoice(v, targets) # None
    BY <1>1, <1>2, <1>7
  <2>2. \A player \in few : SuitedRank(v, tile, {player}) > SuitedRank(v, played, {player})
    BY <1>5, <1>7
  <2>3. /\ SuitedRank(v, tile, few) > SuitedRank(v, played, targets)
        /\ SuitedRank(v, tile, few) \in 0 .. 4 /\ SuitedRank(v, played, targets) \in 0 .. 4
    BY <1>3, <2>2, BetterSuited
  <2>4. /\ TargetSuitedRank(v, tile, targets) > TargetSuitedRank(v, played, targets)
        /\ TargetSuitedRank(v, tile, targets) \in 0 .. 4
        /\ TargetSuitedRank(v, played, targets) \in 0 .. 4
    BY <1>4, <2>3 DEF TargetSuitedRank, few
  <2>5. TargetSuitedRank(v, tile, targets) <= TargetSuitedRank(v, played, targets)
    BY <1>7, <2>1, <2>4, SuitedIsBest DEF NoSafety
  <2> QED
    BY <2>4, <2>5
<1> QED
  BY <1>3, <1>5, <1>6, <1>7

(***************************************************************************)
(* What FoldPlaysTheSafest asks of the discard of a defence.               *)
(***************************************************************************)
IsSafest(v, played) ==
    \A tile \in Legal(v) :
       /\ SafeTile(v, tile, Attackers(v)) => SafeTile(v, played, Attackers(v))
       /\ CoveredTile(v, tile, Attackers(v)) => CoveredTile(v, played, Attackers(v))
       /\ ~CoveredTile(v, played, Attackers(v)) /\ RiskIsKnown(v, Attackers(v)) =>
             \E worst \in Attackers(v) : \A player \in Attackers(v) :
                ~RatioLess(Risk(v, tile, worst), Risk(v, played, player))
       /\ \E player \in Attackers(v) : ~SaferFor(v, tile, played, player)

\* The discard with the least risks is the safest while no tile is covered.
LEMMA RiskIsSafest ==
    ASSUME NEW v, IsView(v), Attackers(v) # {}, RiskIsKnown(v, Attackers(v)),
           \A t \in Legal(v) : ~CoveredTile(v, t, Attackers(v)),
           RiskChoice(v, Attackers(v)) # None
    PROVE  IsSafest(v, RiskChoice(v, Attackers(v)))
<1> DEFINE targets == Attackers(v)
           played  == RiskChoice(v, targets)
<1>0. targets \in SUBSET Opponents(v)
  BY DEF Attackers, Reachers, ActionableOpenHands
<1>1. played \in Legal(v)
  <2>1. Legal(v) # {}
    <3>1. FirstLegal(v, {t \in Legal(v) : \A o \in Legal(v) : ~VectorLess(v, o, t, targets)}) # None
      BY DEF RiskChoice
    <3> QED
      BY <3>1 DEF FirstLegal
  <2> QED
    BY <1>0, <2>1, RiskIsLeast
<1>2. \A tile \in Legal(v), player \in targets : Risk(v, tile, player) \in Nat \X (Nat \ {0})
  BY <1>0, RisksAre
<1>3. PICK worst \in targets : \A player \in targets :
                                  ~RatioLess(Risk(v, played, worst), Risk(v, played, player))
  BY <1>0, <1>1, WorstExists
<1> DEFINE most == Risk(v, played, worst)
<1> SUFFICES ASSUME NEW tile \in Legal(v)
             PROVE  /\ \E bad \in targets : \A player \in targets :
                          ~RatioLess(Risk(v, tile, bad), Risk(v, played, player))
                    /\ \E player \in targets : ~SaferFor(v, tile, played, player)
  BY DEF IsSafest, SafeTile, CoveredTile, Covered
<1>4. PICK bad \in targets : ~RatioLess(Risk(v, tile, bad), most)
  BY <1>0, <1>3, RiskIsLeast
<1>5. \A player \in targets : ~RatioLess(Risk(v, tile, bad), Risk(v, played, player))
  BY <1>1, <1>2, <1>3, <1>4, RatioOrder
<1>6. ASSUME \A player \in targets : SaferFor(v, tile, played, player) PROVE FALSE
  <2>1. \A player \in targets :
           RonSafe(v, tile, player) \/ RatioLess(Risk(v, tile, player), Risk(v, played, player))
    BY <1>6 DEF SaferFor
  <2>2. RonSafe(v, tile, bad)
    BY <1>5, <2>1
  <2>3. Risk(v, tile, bad)[1] = 0
    BY <1>0, <2>2, RisksAre
  <2>4. PICK p \in targets : ~RonSafe(v, tile, p)
    BY DEF CoveredTile, Covered
  <2>5. RatioLess(Risk(v, tile, p), Risk(v, played, p))
    BY <2>1, <2>4
  <2>6. ~RatioLess(Risk(v, tile, bad), Risk(v, played, p))
    BY <1>5
  <2>7. \A a, b, c \in Nat \X (Nat \ {0}) : a[1] = 0 /\ RatioLess(b, c) => RatioLess(a, c)
    <3> TAKE a, b, c \in Nat \X (Nat \ {0})
    <3> HAVE a[1] = 0 /\ RatioLess(b, c)
    <3>1. a[2] \in Nat \ {0} /\ c[2] \in Nat \ {0} /\ b[1] \in Nat /\ b[2] \in Nat \ {0} /\ c[1] \in Nat
      OBVIOUS
    <3>2. b[1] * c[2] \in Nat /\ b[1] * c[2] < c[1] * b[2]
      BY <3>1 DEF RatioLess
    <3>3. c[1] # 0
      BY <3>1, <3>2
    <3>4. a[1] * c[2] = 0 /\ c[1] * a[2] > 0
      BY <3>1, <3>3
    <3> QED
      BY <3>4 DEF RatioLess
  <2> QED
    BY <1>1, <1>2, <2>3, <2>5, <2>6, <2>7
<1> QED
  BY <1>5, <1>6

\* Stage by stage: the defence against all attackers answers with the safest discard.
LEMMA DefenceIsSafest ==
    ASSUME NEW v, IsView(v), None \notin Legal(v), NEW family,
           Targets(v, family) = Attackers(v), DefenceChoice(v, family) # None
    PROVE  IsSafest(v, DefenceChoice(v, family))
<1> DEFINE targets == Attackers(v)
           played  == DefenceChoice(v, family)
<1>0. targets \in SUBSET Opponents(v) /\ IsFiniteSet(targets)
  BY OpponentsAreFinite DEF Attackers, Reachers, ActionableOpenHands
<1>1. targets # {} /\ v.dahai \in Seq(Legal(v))
  BY DEF DefenceChoice, IsView
<1>2. \/ SafeChoice(v, targets) # None /\ played = SafeChoice(v, targets)
      \/ /\ SafeChoice(v, targets) = None
         /\ PassedChoice(v, targets) # None /\ played = PassedChoice(v, targets)
      \/ /\ SafeChoice(v, targets) = None /\ PassedChoice(v, targets) = None
         /\ RiskIsKnown(v, targets) /\ played = RiskChoice(v, targets)
      \/ /\ SafeChoice(v, targets) = None /\ PassedChoice(v, targets) = None
         /\ ~RiskIsKnown(v, targets) /\ played = LegacyChoice(v, family, targets)
  <2> HIDE DEF targets
  <2>1. Targets(v, family) = targets /\ ~(targets = {} \/ v.dahai = <<>>)
    BY DEF DefenceChoice, targets
  <2>2. played = CASE SafeChoice(v, targets) # None -> SafeChoice(v, targets)
                   [] SafeChoice(v, targets) = None /\ PassedChoice(v, targets) # None
                                                    -> PassedChoice(v, targets)
                   [] /\ SafeChoice(v, targets) = None
                      /\ PassedChoice(v, targets) = None
                      /\ RiskIsKnown(v, targets)    -> RiskChoice(v, targets)
                   [] OTHER                         -> LegacyChoice(v, family, targets)
    BY <2>1 DEF DefenceChoice
  <2> QED
    BY <2>2
<1>3. SafeChoice(v, targets) = None => \A tile \in Legal(v) : ~SafeTile(v, tile, targets)
  BY <1>1, SafeFirst
<1>4. SafeChoice(v, targets) = None /\ PassedChoice(v, targets) = None =>
         \A tile \in Legal(v) : ~CoveredTile(v, tile, targets)
  <2> SUFFICES ASSUME SafeChoice(v, targets) = None, PassedChoice(v, targets) = None,
                      NEW tile \in Legal(v), CoveredTile(v, tile, targets)
               PROVE  FALSE
    OBVIOUS
  <2>1. tile \in PassedAgainst(v, targets)
    BY <1>3 DEF PassedAgainst, CoveredTile, SafeTile
  <2>2. PassedAgainst(v, targets) = {}
    BY <1>0, <1>1, PassedNext
  <2> QED
    BY <2>1, <2>2
<1>5. CASE SafeChoice(v, targets) # None /\ played = SafeChoice(v, targets)
  <2>1. SafeTile(v, played, targets)
    BY <1>1, <1>5, SafeFirst
  <2>2. CoveredTile(v, played, targets)
    BY <2>1 DEF SafeTile, CoveredTile, Covered
  <2> QED
    BY <1>1, <2>1, <2>2 DEF IsSafest, SaferFor, CoveredTile
<1>6. CASE /\ SafeChoice(v, targets) = None
           /\ PassedChoice(v, targets) # None /\ played = PassedChoice(v, targets)
  <2>1. played \in PassedAgainst(v, targets)
    BY <1>0, <1>1, <1>6, PassedNext
  <2>2. CoveredTile(v, played, targets)
    BY <2>1 DEF PassedAgainst, CoveredTile
  <2> QED
    BY <1>1, <1>3, <1>6, <2>2 DEF IsSafest, SaferFor, CoveredTile
<1>7. CASE /\ SafeChoice(v, targets) = None /\ PassedChoice(v, targets) = None
           /\ RiskIsKnown(v, targets) /\ played = RiskChoice(v, targets)
  BY <1>1, <1>4, <1>7, RiskIsSafest
<1>8. CASE /\ SafeChoice(v, targets) = None /\ PassedChoice(v, targets) = None
           /\ ~RiskIsKnown(v, targets) /\ played = LegacyChoice(v, family, targets)
  BY <1>1, <1>3, <1>4, <1>8, HeuristicIsSafest DEF IsSafest
<1> QED
  BY <1>2, <1>5, <1>6, <1>7, <1>8
(***************************************************************************)
(* A fold asks the defence against everybody who attacks.                  *)
(***************************************************************************)
LEMMA RoutesToAll ==
    ASSUME NEW p, NEW v, Faces(p, v), p.reachers \in Nat
    PROVE  Targets(v, Family(p)) = Attackers(v)
<1>1. /\ p.reachers = Cardinality(Reachers(v)) /\ p.open_hands = OpenHandLevel(v)
      /\ IsFiniteSet(Reachers(v))
  <2>1. IsFiniteSet(Opponents(v)) /\ Reachers(v) \subseteq Opponents(v)
    BY OpponentsAreFinite DEF Faces, Reachers
  <2> QED
    BY <2>1, FS_Subset DEF Faces
<1>2. p.reachers >= 1 <=> Reachers(v) # {}
  BY <1>1, FS_EmptySet
<1>3. HasOpenHandThreat(p) <=> ActionableOpenHands(v) # {}
  BY <1>1 DEF HasOpenHandThreat, OpenHandLevel
<1>4. None # "Combined" /\ None # "Reach"
  BY NoneAssumption DEF ThreatKinds
<1>5. /\ Reachers(v) # {} /\ ActionableOpenHands(v) # {} => Family(p) = "combined"
      /\ Reachers(v) # {} /\ ActionableOpenHands(v) = {} => Family(p) = "reach"
      /\ Reachers(v) = {} => Family(p) = "open_hand"
  BY <1>2, <1>3, <1>4 DEF Family, ThreatKind
<1> QED
  BY <1>5 DEF Targets, Attackers

\* Only a fold plays the discard of a defence: a push discards what it prefers.
LEMMA DefenceFolds ==
    ASSUME NEW p, NEW v, IsPosition(p), Faces(p, v), Outcome(p).source = "Defence"
    PROVE  /\ DefenceChoice(v, Family(p)) # None
           /\ Outcome(p).action = <<"Dahai", DefenceChoice(v, Family(p))>>
<1> DEFINE mode   == DecidePushPull(p, p.selected).mode
           chosen == ByMode(p, mode, p.selected)
<1>1. mode \in {"Push", "Fold"}
  <2>1. \A verdict \in Verdicts : verdict.mode \in {"Push", "Fold"}
    BY DEF Verdicts, Verdict
  <2> QED
    BY <2>1, VerdictTypes
<1>2. Outcome(p) = chosen /\ chosen # None
  BY Sources DEF Outcome
<1>3. /\ ReachOption(p) # None => ReachOption(p).source = "Reach"
      /\ KanOption(p, mode, p.selected) # None => KanOption(p, mode, p.selected).source = "Kan"
      /\ NormalOption(p.selected) # None => NormalOption(p.selected).source = "NormalDiscard"
  BY Sources DEF ReachOption, KanOption, NormalOption
<1>4. \A family \in Families : p.defence[family] = DefenceChoice(v, family)
  BY DEF Faces
<1>5. mode = "Fold"
  <2> SUFFICES ASSUME mode = "Push" PROVE FALSE
    BY <1>1
  <2>1. NormalOption(p.selected) = None /\ DefenceOption(p, "reach") # None
    BY <1>2, <1>3 DEF ByMode, FirstOf
  <2>2. DefenceChoice(v, "reach") # None
    BY <1>4, <2>1 DEF DefenceOption, Families
  <2>3. Discards(p) # {}
    <3>1. v.dahai # <<>> /\ v.dahai \in Seq(Legal(v)) /\ Discards(p) = Legal(v)
      BY <2>2 DEF DefenceChoice, Faces, IsView
    <3>2. Legal(v) # {}
      BY <3>1
    <3> QED
      BY <3>1, <3>2
  <2>4. p.selected \in Discards(p) /\ Discards(p) \subseteq TileTypes
    BY <2>3, PositionsEvaluate DEF Evaluates, Selects, Cohort
  <2>5. NormalOption(p.selected) # None
    BY <2>4, NoneAssumption, PlayAssumption DEF NormalOption
  <2> QED
    BY <2>1, <2>5
<1>6. chosen = DefenceOption(p, Family(p))
  BY <1>2, <1>3, <1>5, OptionsOfFold
<1>7. Family(p) \in Families
  BY DEF Family, Families
<1> QED
  BY <1>2, <1>4, <1>6, <1>7, Sources DEF DefenceOption

\* Only what the agent is asked facing the table has a view: neither an offer of calls
\* nor the hand after one.
ViewInv == "view" \in DOMAIN position => position \in FacingPositions

LEMMA OffersHaveNoView ==
    ASSUME NEW t, NEW call PROVE "view" \notin DOMAIN OfferedWith(t, call)
  BY DEF OfferedWith, Offered

LEMMA ViewInvInit == CallsInit => ViewInv
  <1>1. ASSUME table # None, position = Offered(table) PROVE "view" \notin DOMAIN position
    BY <1>1 DEF Offered
  <1> QED
    BY <1>1, FacingAssumption DEF CallsInit, Init, ViewInv

LEMMA ViewInvStep == CalledInv /\ CalledInv' /\ ViewInv /\ [CallsNext]_callsVars => ViewInv'
<1> SUFFICES ASSUME CalledInv, CalledInv', ViewInv, [CallsNext]_callsVars PROVE ViewInv'
  OBVIOUS
<1>1. CASE ConsiderCalls
  <2>1. table # None /\ table' = table
    BY <1>1 DEF ConsiderCalls, CalledInv, CallNext, PrepareCall, EvaluateCall, EvaluatePass, Join,
                ApplyPolicy, GateCall, SelectCall
  <2>2. PICK call : position' = OfferedWith(table, call)
    BY <2>1 DEF CalledInv
  <2> QED
    BY <2>2, OffersHaveNoView DEF ViewInv
<1>2. CASE DecidePosition
  <2>1. position' = position
    BY <1>2 DEF DecidePosition, Decides, DeclareHora, DeclareRyukyoku, MakeCall, FoldEarly,
                SelectNormalDiscard, ChooseByMode, DiscardFirstLegal, Pass, Decide, Diagnose
  <2> QED
    BY <2>1 DEF ViewInv
<1>3. CASE AskForDiscard
  <2>1. PICK call : position = OfferedWith(table, call)
    BY <1>3 DEF AskForDiscard, CalledInv
  <2>2. DOMAIN position' = DOMAIN position
    BY <1>3 DEF AskForDiscard
  <2> QED
    BY <2>1, <2>2, OffersHaveNoView DEF ViewInv
<1>4. CASE UNCHANGED callsVars
  BY <1>4 DEF callsVars, vars, ViewInv
<1> QED
  BY <1>1, <1>2, <1>3, <1>4 DEF CallsNext

(* Who folds discards the safest tile there is against everybody who attacks:    *)
(* whatever the table shows, and in whatever way it attacks.                     *)
THEOREM FoldDiscardCorrect == CallsSpec => []FoldPlaysTheSafest
<1>1. CalledInv /\ ViewInv => FoldPlaysTheSafest
  <2> SUFFICES ASSUME CalledInv, ViewInv, Decided, "view" \in DOMAIN position,
                      decision.source = "Defence"
               PROVE  FoldPlaysTheSafest
    BY DEF FoldPlaysTheSafest
  <2> DEFINE v      == position.view
             family == Family(position)
             played == DefenceChoice(v, family)
  <2>1. IsPosition(position) /\ Faces(position, v) /\ decision = Outcome(position)
    BY PositionAssumption, FacingAssumption DEF ViewInv, CalledInv
  <2>2. played # None /\ decision.action = <<"Dahai", played>>
    BY <2>1, DefenceFolds
  <2>3. Targets(v, family) = Attackers(v)
    <3>1. position.reachers \in Nat
      BY <2>1 DEF IsPosition
    <3> QED
      BY <2>1, <3>1, RoutesToAll
  <2>4. IsView(v) /\ None \notin Legal(v)
    BY <2>1, NoneAssumption DEF Faces, IsPosition, Discards, Dahai, Legal
  <2> HIDE DEF v, family
  <2>5. IsSafest(v, played)
    BY <2>2, <2>3, <2>4, DefenceIsSafest
  <2> HIDE DEF played
  <2>6. decision.action[2] = played
    BY <2>2
  <2> QED
    BY <2>5, <2>6 DEF FoldPlaysTheSafest, IsSafest, SafeTile, CoveredTile, v
<1> QED
  BY <1>1, CallInvCorrect, CalledInvCorrect, ViewInvInit, ViewInvStep, PTL DEF CallsSpec
=============================================================================
