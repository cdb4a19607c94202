------------------------------ MODULE Furiten ------------------------------
(***************************************************************************)
(* Whether we may win on a discard, judged from what is known              *)
(* (bot-logic/src/furiten.rs, bot-core/src/context.rs).  Three things      *)
(* forbid it: a tile of the wait in our own river, a win passed up since   *)
(* our last draw, and a win passed up in riichi.  Each may be unknown to   *)
(* the bot, which judges, before it discards, the hand it will have after  *)
(* the discard.                                                            *)
(*                                                                         *)
(* The rules of the game (Draw, Call, OtherDiscards, and what Discard does *)
(* to the table) are those the code's comments give.                       *)
(***************************************************************************)
EXTENDS FiniteSets

CONSTANTS Tiles, None

ASSUME NoneAssumption == None \notin {"yes", "no", "unknown"}

Answers == {"yes", "no", "unknown"}
Fact(truth) == IF truth THEN "yes" ELSE "no"

\* combine_furiten
Combine(axes) ==
  IF "yes" \in axes THEN "yes" ELSE IF "unknown" \in axes THEN "unknown" ELSE "no"

Not(answer) == IF answer = "yes" THEN "no" ELSE IF answer = "no" THEN "yes" ELSE "unknown"

\* OwnDiscards: tiles that were certainly discarded, and whether those are all.
OwnDiscards(tiles, river_known) == [tiles |-> tiles, river_known |-> river_known]
NoDiscardsKnown == OwnDiscards({}, FALSE)
WithDiscard(own, tile) == [own EXCEPT !.tiles = @ \cup {tile}]

\* permanent_furiten_for_waits
PermanentFuriten(structural_waits, own) ==
  IF structural_waits \cap own.tiles # {} THEN "yes"
  ELSE IF own.river_known THEN "no"
  ELSE "unknown"

\* Mutant: the discard forgives everything.
Mutant_AfterDiscard(history, after_own_draw) ==
  IF after_own_draw THEN [same_turn |-> "no", riichi_missed_win |-> "no"] ELSE history

\* HistoryFuritenFacts::after_discard
AfterDiscard(history, after_own_draw) ==
  IF after_own_draw THEN [history EXCEPT !.same_turn = "no"] ELSE history

\* can_ron_from_furiten
CanRon(permanent, history) ==
  Not(Combine({permanent, history.same_turn, history.riichi_missed_win}))

\* TenpaiWaitAvailability: the waits that count here are those of the shape of the
\* hand, also the ones of which no tile is left.
StructuralWaits(waits, dead) == waits

\* discard_tenpai_wait_availability
Verdict(discard, waits, dead, own, history) ==
  CanRon(PermanentFuriten(StructuralWaits(waits, dead), WithDiscard(own, discard)), history)

------------------------------------------------------------------------------
(* A seat in a round. *)

VARIABLES
  river,         \* tiles we discarded
  waits,         \* tiles that complete our hand, {} without tenpai
  riichi,
  same_turn,     \* a win was passed up since our last draw
  riichi_missed, \* a win was passed up in riichi
  turn,          \* "others", or we discard after our "draw" or our "call"
  verdict        \* on the hand after the discard just made, or None

vars == <<river, waits, riichi, same_turn, riichi_missed, turn, verdict>>

Init ==
  /\ river = {} /\ waits = {} /\ riichi = FALSE
  /\ same_turn = FALSE /\ riichi_missed = FALSE
  /\ turn = "others" /\ verdict = None

Draw ==
  /\ turn = "others" /\ turn' = "draw"
  /\ verdict' = None
  /\ UNCHANGED <<river, waits, riichi, same_turn, riichi_missed>>

Call ==
  /\ turn = "others" /\ ~riichi
  /\ turn' = "call"
  /\ verdict' = None
  /\ UNCHANGED <<river, waits, riichi, same_turn, riichi_missed>>

\* What the bot may know when it is to discard.  A call is never taken for a draw
\* (GameContext::is_after_own_draw).  A draw may go unidentified where the history is
\* not known either; where it is, the hand and the tile drawn are of one observation.
Knowledge ==
  {k \in [own : {OwnDiscards(river, TRUE), NoDiscardsKnown},
          same_turn : {Fact(same_turn), "unknown"},
          riichi_missed_win : {Fact(riichi_missed), "unknown"},
          drawn_tile : BOOLEAN] :
     /\ k.drawn_tile => turn = "draw"
     /\ turn = "draw" => k.drawn_tile \/ k.same_turn = "unknown"}

\* GameContext::history_furiten_after_own_discard
HistoryAfterOwnDiscard(k) ==
  AfterDiscard([same_turn |-> k.same_turn, riichi_missed_win |-> k.riichi_missed_win], k.drawn_tile)

Discard(tile, next_waits, dead, declares, k) ==
  /\ turn # "others"
  /\ riichi => next_waits = waits
  /\ declares => turn = "draw" /\ ~riichi /\ next_waits # {}
  /\ river' = river \cup {tile}
  /\ waits' = next_waits
  /\ riichi' = (riichi \/ declares)
  /\ same_turn' = (same_turn /\ turn # "draw")
  /\ turn' = "others"
  /\ verdict' = IF next_waits = {} THEN None
                ELSE Verdict(tile, next_waits, dead, k.own, HistoryAfterOwnDiscard(k))
  /\ UNCHANGED riichi_missed

\* A tile we wait for is not won on.
PassUp ==
  /\ turn = "others" /\ waits # {}
  /\ same_turn' = TRUE
  /\ riichi_missed' = (riichi_missed \/ riichi)
  /\ verdict' = None
  /\ UNCHANGED <<river, waits, riichi, turn>>

EndRound ==
  /\ river' = {} /\ waits' = {} /\ riichi' = FALSE
  /\ same_turn' = FALSE /\ riichi_missed' = FALSE
  /\ turn' = "others" /\ verdict' = None

Next ==
  \/ Draw
  \/ Call
  \/ \E tile \in Tiles, next_waits, dead \in SUBSET Tiles, declares \in BOOLEAN, k \in Knowledge :
       Discard(tile, next_waits, dead, declares, k)
  \/ PassUp
  \/ EndRound

Spec == Init /\ [][Next]_vars

------------------------------------------------------------------------------
(* Properties. *)

MayRon == waits \cap river = {} /\ ~same_turn /\ ~riichi_missed

\* What the bot concluded before the discard is so after it, whatever it did not know.
VerdictHolds == verdict # None => verdict \in {Fact(MayRon), "unknown"}

\* The tables a bot could be sitting at, for all it knows.
Worlds == [river : SUBSET Tiles, same_turn : BOOLEAN, riichi_missed : BOOLEAN]
Possible(world, own, history) ==
  /\ own.tiles \subseteq world.river
  /\ own.river_known => world.river = own.tiles
  /\ history.same_turn \in {Fact(world.same_turn), "unknown"}
  /\ history.riichi_missed_win \in {Fact(world.riichi_missed), "unknown"}
MayRonIn(world, structural_waits) ==
  structural_waits \cap world.river = {} /\ ~world.same_turn /\ ~world.riichi_missed
==============================================================================
