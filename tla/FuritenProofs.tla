--------------------------- MODULE FuritenProofs ---------------------------
(***************************************************************************)
(* The verdict on winning by a discard, for every set of tiles: it holds   *)
(* at the table, and nothing more could be said from what is known.        *)
(***************************************************************************)
EXTENDS Furiten, TLAPS

\* The two steps of the judgement spelled out: some axis says yes, all say no, or
\* neither (combine_furiten).
LEMMA CanRonAnswers ==
  ASSUME NEW permanent \in Answers,
         NEW history \in [same_turn : Answers, riichi_missed_win : Answers]
  PROVE  /\ CanRon(permanent, history) \in Answers
         /\ CanRon(permanent, history) = "no" <=>
              "yes" \in {permanent, history.same_turn, history.riichi_missed_win}
         /\ CanRon(permanent, history) = "yes" <=>
              {permanent, history.same_turn, history.riichi_missed_win} = {"no"}
<1>1. /\ history.same_turn \in Answers /\ history.riichi_missed_win \in Answers
  OBVIOUS
<1>2. CASE "yes" \in {permanent, history.same_turn, history.riichi_missed_win}
  BY <1>1, <1>2 DEF CanRon, Combine, Not, Answers
<1>3. CASE {permanent, history.same_turn, history.riichi_missed_win} = {"no"}
  BY <1>1, <1>3 DEF CanRon, Combine, Not, Answers
<1>4. CASE /\ "yes" \notin {permanent, history.same_turn, history.riichi_missed_win}
           /\ {permanent, history.same_turn, history.riichi_missed_win} # {"no"}
  BY <1>1, <1>4 DEF CanRon, Combine, Not, Answers
<1>5. QED
  BY <1>2, <1>3, <1>4

\* What is known of our river decides the permanent axis (permanent_furiten_for_waits).
LEMMA PermanentFuritenAnswers ==
  ASSUME NEW structural_waits, NEW own
  PROVE  /\ PermanentFuriten(structural_waits, own) \in Answers
         /\ PermanentFuriten(structural_waits, own) = "yes" <=>
              structural_waits \cap own.tiles # {}
         /\ PermanentFuriten(structural_waits, own) = "no" <=>
              structural_waits \cap own.tiles = {} /\ own.river_known
BY DEF PermanentFuriten, Answers

\* The verdict reached before a discard from the facts of that moment holds after it:
\* the discard is in our river, and our draw lifted the furiten of the turn.
LEMMA DiscardKeepsVerdictHolds ==
  ASSUME NEW tile \in Tiles, NEW next_waits, NEW dead, NEW declares, NEW k \in Knowledge,
         Discard(tile, next_waits, dead, declares, k)
  PROVE  VerdictHolds'
<1> DEFINE history == HistoryAfterOwnDiscard(k)
           own == WithDiscard(k.own, tile)
           permanent == PermanentFuriten(next_waits, own)
<1>1. CASE next_waits = {}
  BY <1>1 DEF Discard, VerdictHolds
<1>2. CASE next_waits # {}
  <2>1. verdict' = CanRon(permanent, history)
    BY <1>2 DEF Discard, Verdict, StructuralWaits
  <2>2. /\ own.tiles \subseteq river'
        /\ own.river_known => own.tiles = river'
    <3>1. k.own \in {OwnDiscards(river, TRUE), NoDiscardsKnown}
      BY DEF Knowledge
    <3>2. CASE k.own = OwnDiscards(river, TRUE)
      BY <3>2 DEF Discard, WithDiscard, OwnDiscards
    <3>3. CASE k.own = NoDiscardsKnown
      BY <3>3 DEF Discard, WithDiscard, NoDiscardsKnown, OwnDiscards
    <3>4. QED
      BY <3>1, <3>2, <3>3
  <2>3. /\ history \in [same_turn : Answers, riichi_missed_win : Answers]
        /\ history.same_turn \in {Fact(same_turn'), "unknown"}
        /\ history.riichi_missed_win \in {Fact(riichi_missed'), "unknown"}
    <3>1. /\ k.same_turn \in {Fact(same_turn), "unknown"}
          /\ k.riichi_missed_win \in {Fact(riichi_missed), "unknown"}
          /\ k.drawn_tile \in BOOLEAN
          /\ k.drawn_tile => turn = "draw"
          /\ turn = "draw" => k.drawn_tile \/ k.same_turn = "unknown"
      BY DEF Knowledge
    <3>2. same_turn' = (same_turn /\ turn # "draw") /\ riichi_missed' = riichi_missed
      BY DEF Discard
    <3>3. CASE k.drawn_tile
      BY <3>1, <3>2, <3>3 DEF HistoryAfterOwnDiscard, AfterDiscard, Fact, Answers
    <3>4. CASE ~k.drawn_tile
      BY <3>1, <3>2, <3>4 DEF HistoryAfterOwnDiscard, AfterDiscard, Fact, Answers
    <3>5. QED
      BY <3>1, <3>3, <3>4
  <2>4. waits' = next_waits
    BY DEF Discard
  <2>5. /\ permanent \in Answers
        /\ permanent = "yes" => waits' \cap river' # {}
        /\ permanent = "no" => waits' \cap river' = {}
    BY <2>2, <2>4, PermanentFuritenAnswers
  <2>6. /\ verdict' \in Answers
        /\ verdict' = "no" <=> "yes" \in {permanent, history.same_turn, history.riichi_missed_win}
        /\ verdict' = "yes" <=> {permanent, history.same_turn, history.riichi_missed_win} = {"no"}
    BY <2>1, <2>3, <2>5, CanRonAnswers
  <2>7. CASE verdict' = "no"
    <3>1. ~MayRon'
      BY <2>3, <2>5, <2>6, <2>7 DEF MayRon, Fact
    <3>2. QED
      BY <2>7, <3>1 DEF VerdictHolds, Fact
  <2>8. CASE verdict' = "yes"
    <3>1. permanent = "no" /\ history.same_turn = "no" /\ history.riichi_missed_win = "no"
      BY <2>6, <2>8
    <3>2. MayRon'
      BY <2>3, <2>5, <3>1 DEF MayRon, Fact
    <3>3. QED
      BY <2>8, <3>2 DEF VerdictHolds, Fact
  <2>9. CASE verdict' = "unknown"
    BY <2>9 DEF VerdictHolds
  <2>10. QED
    BY <2>6, <2>7, <2>8, <2>9 DEF Answers
<1>3. QED
  BY <1>1, <1>2

\* Whatever the bot did not know when it discarded, its verdict on winning by a
\* discard is the truth of the table afterwards, or "unknown".
THEOREM VerdictIsTrue == Spec => []VerdictHolds
<1>1. Init => VerdictHolds
  BY DEF Init, VerdictHolds
<1>2. VerdictHolds /\ [Next]_vars => VerdictHolds'
  <2> SUFFICES ASSUME VerdictHolds, [Next]_vars PROVE VerdictHolds'
    OBVIOUS
  <2>1. CASE Draw
    BY <2>1 DEF Draw, VerdictHolds
  <2>2. CASE Call
    BY <2>2 DEF Call, VerdictHolds
  <2>3. ASSUME NEW tile \in Tiles, NEW next_waits \in SUBSET Tiles, NEW dead \in SUBSET Tiles,
               NEW declares \in BOOLEAN, NEW k \in Knowledge,
               Discard(tile, next_waits, dead, declares, k)
        PROVE  VerdictHolds'
    BY <2>3, DiscardKeepsVerdictHolds
  <2>4. CASE PassUp
    BY <2>4 DEF PassUp, VerdictHolds
  <2>5. CASE EndRound
    BY <2>5 DEF EndRound, VerdictHolds
  <2>6. CASE UNCHANGED vars
    BY <2>6 DEF vars, VerdictHolds, MayRon
  <2>7. QED
    BY <2>1, <2>2, <2>3, <2>4, <2>5, <2>6 DEF Next
<1>3. QED
  BY <1>1, <1>2, PTL DEF Spec

\* Nothing more can be said: the verdict is "yes" exactly when we may win at every
\* table that fits what is known, and "no" exactly when we may at none.  Unknown facts
\* are neither guessed nor wasted (can_ron_from_furiten).
THEOREM VerdictIsExact ==
  ASSUME NEW structural_waits \in SUBSET Tiles, structural_waits # {},
         NEW own \in [tiles : SUBSET Tiles, river_known : BOOLEAN],
         NEW history \in [same_turn : Answers, riichi_missed_win : Answers]
  PROVE  LET answer == CanRon(PermanentFuriten(structural_waits, own), history)
             Tables == {world \in Worlds : Possible(world, own, history)}
         IN  /\ answer = "yes" <=> \A world \in Tables : MayRonIn(world, structural_waits)
             /\ answer = "no" <=> \A world \in Tables : ~MayRonIn(world, structural_waits)
<1> DEFINE permanent == PermanentFuriten(structural_waits, own)
           answer == CanRon(permanent, history)
           Tables == {world \in Worlds : Possible(world, own, history)}
           best == [river |-> own.tiles, same_turn |-> history.same_turn = "yes",
                    riichi_missed |-> history.riichi_missed_win = "yes"]
           worst == [river |-> IF own.river_known THEN own.tiles ELSE Tiles,
                     same_turn |-> history.same_turn # "no",
                     riichi_missed |-> history.riichi_missed_win # "no"]
<1>1. /\ history.same_turn \in Answers /\ history.riichi_missed_win \in Answers
      /\ own.tiles \subseteq Tiles /\ own.river_known \in BOOLEAN
  OBVIOUS
<1>2. /\ permanent \in Answers
      /\ permanent = "yes" <=> structural_waits \cap own.tiles # {}
      /\ permanent = "no" <=> structural_waits \cap own.tiles = {} /\ own.river_known
  BY PermanentFuritenAnswers
<1>3. /\ answer = "no" <=> "yes" \in {permanent, history.same_turn, history.riichi_missed_win}
      /\ answer = "yes" <=> {permanent, history.same_turn, history.riichi_missed_win} = {"no"}
  BY <1>2, CanRonAnswers
<1>4. best \in Tables
  BY <1>1 DEF Worlds, Possible, Fact, Answers
<1>5. worst \in Tables
  BY <1>1 DEF Worlds, Possible, Fact, Answers
<1>6. ASSUME answer = "yes", NEW world \in Tables
      PROVE  MayRonIn(world, structural_waits)
  <2>1. permanent = "no" /\ history.same_turn = "no" /\ history.riichi_missed_win = "no"
    BY <1>3, <1>6
  <2>2. world \in Worlds /\ Possible(world, own, history)
    BY <1>6
  <2>3. world.river = own.tiles /\ ~world.same_turn /\ ~world.riichi_missed
    BY <1>2, <2>1, <2>2 DEF Possible, Fact, Worlds
  <2>4. QED
    BY <1>2, <2>1, <2>3 DEF MayRonIn
<1>7. ASSUME answer = "no", NEW world \in Tables
      PROVE  ~MayRonIn(world, structural_waits)
  <2>1. permanent = "yes" \/ history.same_turn = "yes" \/ history.riichi_missed_win = "yes"
    BY <1>3, <1>7
  <2>2. world \in Worlds /\ Possible(world, own, history)
    BY <1>7
  <2>3. CASE permanent = "yes"
    BY <1>2, <2>2, <2>3 DEF Possible, MayRonIn
  <2>4. CASE history.same_turn = "yes"
    BY <2>2, <2>4 DEF Possible, MayRonIn, Fact
  <2>5. CASE history.riichi_missed_win = "yes"
    BY <2>2, <2>5 DEF Possible, MayRonIn, Fact
  <2>6. QED
    BY <2>1, <2>3, <2>4, <2>5
<1>8. ASSUME answer # "yes"
      PROVE  ~MayRonIn(worst, structural_waits)
  <2>1. permanent # "no" \/ history.same_turn # "no" \/ history.riichi_missed_win # "no"
    BY <1>3, <1>8
  <2>2. CASE permanent # "no"
    BY <1>1, <1>2, <2>2 DEF MayRonIn
  <2>3. CASE history.same_turn # "no" \/ history.riichi_missed_win # "no"
    BY <2>3 DEF MayRonIn
  <2>4. QED
    BY <2>1, <2>2, <2>3
<1>9. ASSUME answer # "no"
      PROVE  MayRonIn(best, structural_waits)
  BY <1>2, <1>3, <1>9 DEF MayRonIn
<1>10. QED
  BY <1>4, <1>5, <1>6, <1>7, <1>8, <1>9
==============================================================================
