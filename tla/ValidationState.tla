--------------------------- MODULE ValidationState ---------------------------
(***************************************************************************)
(* The event tracker of riichilab-client (src/state.rs).  It listens to    *)
(* the MJAI events of one seat and keeps what a single observation cannot  *)
(* tell: who has declared riichi, whether that riichi was a double riichi, *)
(* whether a one-shot (ippatsu) win is still possible, which tiles passed  *)
(* without a win, and the two furiten facts that depend on the past.       *)
(*                                                                         *)
(* There is one action per handler.  This module puts no order on the      *)
(* events: the network may lose any of them, the client may connect in the *)
(* middle of a round, and the server may name a seat that does not exist.  *)
(* MjaiRound composes the same actions with the order of a real round.     *)
(*                                                                         *)
(* Abstractions.  A Vec of passed tiles never holds a tile twice, so it is *)
(* a set.  An Option<bool> is a Fact.  Any other Option is its value or    *)
(* None.                                                                   *)
(***************************************************************************)
EXTENDS Naturals, FiniteSets

CONSTANTS
  Players,   \* the seats of the table, 0..PLAYER_COUNT-1
  Actors,    \* every seat number an event may carry, in range or not
  Tiles,     \* the tile types a face can denote
  Hidden,    \* a face that denotes no tile type: "?"
  None       \* the absent value of an Option

ASSUME SeatAssumption == Players \subseteq Actors /\ None \notin Actors
ASSUME TileAssumption == Hidden \notin Tiles /\ None \notin Tiles \cup {Hidden}
ASSUME TrackedAssumption == None \notin [Players -> SUBSET Tiles]
ASSUME PendingAssumption == None \notin [actor : Actors, tile : Tiles]

Faces == Tiles \cup {Hidden}

\* Option<bool>: a fact nobody observed is never guessed to be "no".
Fact == {"unknown", "no", "yes"}
FactOf(b) == IF b THEN "yes" ELSE "no"

VARIABLES
  seat_id,                    \* Option<u8>: our seat, given by start_game
  last_tsumo,                 \* Option<face>: our drawn tile
  pending_reach,              \* reach seen, the declaring discard not yet
  active_reach,               \* declaring discard seen
  declared_double_riichi,     \* Fact for each seat
  ippatsu,                    \* Fact for each seat
  first_turn,                 \* [kind, discarded]: the FirstTurn enum
  post_reach_passed_tiles,    \* tiles discarded by others since the riichi
  temporary_passed_tiles,     \* Option: passed since the last draw or call
  same_hand_passed_tiles,     \* Option: passed since the hand last changed
  pending_passed_tile,        \* Option<[actor, tile]>: may still be ronned
  history_furiten,            \* [same_turn, riichi_missed_win]
  own_tsumo_pending_discard   \* we have drawn and not yet discarded

reachVars == <<pending_reach, active_reach, declared_double_riichi>>
passedVars == <<temporary_passed_tiles, same_hand_passed_tiles, pending_passed_tile>>
ownVars == <<last_tsumo, history_furiten, own_tsumo_pending_discard>>
trackerVars == <<seat_id, reachVars, ippatsu, first_turn, post_reach_passed_tiles,
                 passedVars, ownVars>>

FirstTurns == [kind : {"Unknown", "Active", "Ended"}, discarded : SUBSET Players]
FuritenFacts == [same_turn : Fact, riichi_missed_win : Fact]
Tracked == [Players -> SUBSET Tiles]

\* Every field holds a value of its Rust type.
TypeOK ==
  /\ seat_id \in Actors \cup {None}
  /\ last_tsumo \in Faces \cup {None}
  /\ pending_reach \in [Players -> BOOLEAN]
  /\ active_reach \in [Players -> BOOLEAN]
  /\ declared_double_riichi \in [Players -> Fact]
  /\ ippatsu \in [Players -> Fact]
  /\ first_turn \in FirstTurns
  /\ post_reach_passed_tiles \in Tracked
  /\ temporary_passed_tiles \in Tracked \cup {None}
  /\ same_hand_passed_tiles \in Tracked \cup {None}
  /\ pending_passed_tile \in [actor : Actors, tile : Tiles] \cup {None}
  /\ history_furiten \in FuritenFacts
  /\ own_tsumo_pending_discard \in BOOLEAN

------------------------------------------------------------------------------
(* The values the handlers compute. *)

FirstTurnUnknown == [kind |-> "Unknown", discarded |-> {}]
FirstTurnActive(done) == [kind |-> "Active", discarded |-> done]
FirstTurnEnded == [kind |-> "Ended", discarded |-> {}]

\* FirstTurn::declares_double_riichi
DeclaresDoubleRiichi(turn, player) ==
  CASE turn.kind = "Unknown" -> "unknown"
    [] turn.kind = "Ended"   -> "no"
    [] turn.kind = "Active"  -> FactOf(player \in Players \ turn.discarded)

\* FirstTurn::on_dahai: the first turn ends with the last first discard.
FirstTurnAfterDahai(turn, actor) ==
  LET done == turn.discarded \cup ({actor} \cap Players)
  IN  IF turn.kind # "Active" THEN turn
      ELSE IF done = Players THEN FirstTurnEnded ELSE FirstTurnActive(done)

\* Mutant: the discarder's own tile is counted as passed against itself.
Mutant_Confirmed(passed) ==
  IF passed = None \/ pending_passed_tile = None THEN passed
  ELSE [p \in Players |-> passed[p] \cup {pending_passed_tile.tile}]

\* What confirm_pending_passed_tile makes of one of the two passed-tile maps:
\* nobody won on the pending tile, so it is safe against all but its discarder.
Confirmed(passed) ==
  IF passed = None \/ pending_passed_tile = None THEN passed
  ELSE [p \in Players |-> IF p = pending_passed_tile.actor THEN passed[p]
                          ELSE passed[p] \cup {pending_passed_tile.tile}]

Cleared(passed, actor) ==
  IF passed = None THEN None
  ELSE [p \in Players |-> IF p = actor THEN {} ELSE passed[p]]

\* Mutant: a face that cannot be read is left pending all the same.
Mutant_PendingTile(actor, pai) == [actor |-> actor, tile |-> pai]

\* set_pending_passed_tile: a face without a tile type leaves nothing pending.
PendingTile(actor, pai) ==
  IF pai \in Tiles THEN [actor |-> actor, tile |-> pai] ELSE None

NobodyTracked == [p \in Players |-> {}]
NoIppatsu == [p \in Players |-> "no"]
UnknownFuriten == [same_turn |-> "unknown", riichi_missed_win |-> "unknown"]
NoFuriten == [same_turn |-> "no", riichi_missed_win |-> "no"]

\* Mutant: the passed tiles of the last round's riichi survive the reset.
Mutant_ResetReach ==
  /\ pending_reach' = [p \in Players |-> FALSE]
  /\ active_reach' = [p \in Players |-> FALSE]
  /\ declared_double_riichi' = [p \in Players |-> "unknown"]
  /\ post_reach_passed_tiles' = post_reach_passed_tiles
  /\ pending_passed_tile' = None

\* The part of reset_reach_tracking both resets leave in place.
ResetReach ==
  /\ pending_reach' = [p \in Players |-> FALSE]
  /\ active_reach' = [p \in Players |-> FALSE]
  /\ declared_double_riichi' = [p \in Players |-> "unknown"]
  /\ post_reach_passed_tiles' = NobodyTracked
  /\ pending_passed_tile' = None

\* Mutant: a draw does not close the one-shot window.
Mutant_IppatsuAfterDraw(actor) == ippatsu

\* A seat's next draw ends its one-shot window, and an unknown one with it.
IppatsuAfterDraw(actor) == [p \in Players |-> IF p = actor THEN "no" ELSE ippatsu[p]]

\* establish_pending_reach: the discard after a reach event completes it.
Establishes(p, actor) == p = actor /\ pending_reach[p]

\* Only the discard of the drawn tile leaves the hand as it was.
SameHandAfterDahai(actor, tsumogiri) ==
  IF tsumogiri THEN Confirmed(same_hand_passed_tiles)
  ELSE Cleared(Confirmed(same_hand_passed_tiles), actor)

\* record_post_reach_passed_tile
PostReachAfterDahai(actor, pai) ==
  [p \in Players |-> IF p # actor /\ active_reach[p]
                     THEN post_reach_passed_tiles[p] \cup ({pai} \cap Tiles)
                     ELSE post_reach_passed_tiles[p]]

DrawnAfterDahai(actor) == IF actor = seat_id THEN None ELSE last_tsumo

\* Mutant: our discard ends riichi furiten as well.
Mutant_FuritenAfterDahai(actor) ==
  IF actor = seat_id /\ own_tsumo_pending_discard
  THEN [history_furiten EXCEPT !.same_turn = "no", !.riichi_missed_win = "no"]
  ELSE history_furiten

\* Only a discard that follows our own draw ends same-turn furiten.
FuritenAfterDahai(actor) ==
  IF actor = seat_id /\ own_tsumo_pending_discard
  THEN [history_furiten EXCEPT !.same_turn = "no"]
  ELSE history_furiten

OwnRiichi == seat_id \in Players /\ active_reach[seat_id]

\* Mutant: a win passed up on our own draw is taken for a missed ron.
Mutant_RecordsMissedWin(ron_legal, chose_hora) ==
  /\ ron_legal /\ ~chose_hora
  /\ history_furiten.same_turn # "unknown"
  /\ history_furiten.riichi_missed_win # "unknown"
  /\ seat_id # None

\* Mutant: furiten is recorded in a round whose start was not observed.
Mutant_RecordsMissedWinUnobserved(ron_legal, chose_hora) ==
  /\ ron_legal /\ ~chose_hora /\ ~own_tsumo_pending_discard
  /\ seat_id # None

\* A legal win that was not taken is furiten.  A win passed on our own draw is
\* no ron, and an unobserved round stays unknown.
RecordsMissedWin(ron_legal, chose_hora) ==
  /\ ron_legal /\ ~chose_hora /\ ~own_tsumo_pending_discard
  /\ history_furiten.same_turn # "unknown"
  /\ history_furiten.riichi_missed_win # "unknown"
  /\ seat_id # None

------------------------------------------------------------------------------
(* The handlers. *)

Init ==
  /\ seat_id = None
  /\ last_tsumo = None
  /\ pending_reach = [p \in Players |-> FALSE]
  /\ active_reach = [p \in Players |-> FALSE]
  /\ declared_double_riichi = [p \in Players |-> "unknown"]
  /\ ippatsu = [p \in Players |-> "unknown"]
  /\ first_turn = FirstTurnUnknown
  /\ post_reach_passed_tiles = NobodyTracked
  /\ temporary_passed_tiles = None
  /\ same_hand_passed_tiles = None
  /\ pending_passed_tile = None
  /\ history_furiten = UnknownFuriten
  /\ own_tsumo_pending_discard = FALSE

OnStartGame(id) ==
  /\ seat_id' = id
  /\ last_tsumo' = None
  /\ ResetReach
  /\ ippatsu' = [p \in Players |-> "unknown"]
  /\ temporary_passed_tiles' = None
  /\ same_hand_passed_tiles' = None
  /\ first_turn' = FirstTurnUnknown
  /\ history_furiten' = UnknownFuriten
  /\ own_tsumo_pending_discard' = FALSE

OnStartKyoku ==
  /\ ResetReach
  /\ temporary_passed_tiles' = NobodyTracked
  /\ same_hand_passed_tiles' = NobodyTracked
  /\ first_turn' = FirstTurnActive({})
  /\ ippatsu' = NoIppatsu
  /\ last_tsumo' = None
  /\ history_furiten' = NoFuriten
  /\ own_tsumo_pending_discard' = FALSE
  /\ UNCHANGED seat_id

OnTsumo(actor, pai) ==
  /\ temporary_passed_tiles' = Cleared(Confirmed(temporary_passed_tiles), actor)
  /\ same_hand_passed_tiles' = Confirmed(same_hand_passed_tiles)
  /\ pending_passed_tile' = None
  /\ ippatsu' = IppatsuAfterDraw(actor)
  /\ own_tsumo_pending_discard' = (actor = seat_id \/ own_tsumo_pending_discard)
  /\ last_tsumo' = IF actor = seat_id /\ pai # Hidden THEN pai ELSE last_tsumo
  /\ UNCHANGED <<seat_id, reachVars, first_turn, post_reach_passed_tiles, history_furiten>>

OnReach(actor) ==
  /\ pending_reach' = [p \in Players |-> p = actor \/ pending_reach[p]]
  /\ UNCHANGED <<seat_id, active_reach, declared_double_riichi, ippatsu, first_turn,
                 post_reach_passed_tiles, passedVars, ownVars>>

\* tsumogiri says whether the event reported the drawn tile itself: a missing
\* flag counts as FALSE.
OnDahai(actor, pai, tsumogiri) ==
  /\ actor \in Players
  /\ history_furiten' = FuritenAfterDahai(actor)
  /\ own_tsumo_pending_discard' = (actor # seat_id /\ own_tsumo_pending_discard)
  /\ last_tsumo' = DrawnAfterDahai(actor)
  /\ temporary_passed_tiles' = Confirmed(temporary_passed_tiles)
  /\ same_hand_passed_tiles' = SameHandAfterDahai(actor, tsumogiri)
  /\ post_reach_passed_tiles' = PostReachAfterDahai(actor, pai)
  /\ pending_reach' = [p \in Players |-> pending_reach[p] /\ ~Establishes(p, actor)]
  /\ active_reach' = [p \in Players |-> active_reach[p] \/ Establishes(p, actor)]
  /\ declared_double_riichi' =
       [p \in Players |-> IF Establishes(p, actor) THEN DeclaresDoubleRiichi(first_turn, p)
                          ELSE declared_double_riichi[p]]
  /\ ippatsu' = [p \in Players |-> IF Establishes(p, actor) THEN "yes" ELSE ippatsu[p]]
  /\ first_turn' = FirstTurnAfterDahai(first_turn, actor)
  /\ pending_passed_tile' = PendingTile(actor, pai)
  /\ UNCHANGED seat_id

\* Mutant: a call does not end the first turn.
Mutant_Calls(actor) ==
  /\ temporary_passed_tiles' = Cleared(Confirmed(temporary_passed_tiles), actor)
  /\ same_hand_passed_tiles' = Cleared(Confirmed(same_hand_passed_tiles), actor)
  /\ first_turn' = first_turn
  /\ ippatsu' = NoIppatsu
  /\ UNCHANGED <<seat_id, reachVars, post_reach_passed_tiles, ownVars>>

\* What on_call changes, but for the tile left pending: chi, pon, daiminkan
\* and ankan leave none, kakan leaves its own.
Calls(actor) ==
  /\ temporary_passed_tiles' = Cleared(Confirmed(temporary_passed_tiles), actor)
  /\ same_hand_passed_tiles' = Cleared(Confirmed(same_hand_passed_tiles), actor)
  /\ first_turn' = FirstTurnEnded
  /\ ippatsu' = NoIppatsu
  /\ UNCHANGED <<seat_id, reachVars, post_reach_passed_tiles, ownVars>>

OnCall(actor) ==
  /\ Calls(actor)
  /\ pending_passed_tile' = None

OnKakan(actor, pai) ==
  /\ actor \in Players
  /\ Calls(actor)
  /\ pending_passed_tile' = PendingTile(actor, pai)

\* Mutant: the tile that was won on stays pending.
Mutant_OnHora == UNCHANGED trackerVars

\* A win on the pending tile: it did not pass.
OnHora ==
  /\ pending_passed_tile' = None
  /\ UNCHANGED <<seat_id, reachVars, ippatsu, first_turn, post_reach_passed_tiles,
                 temporary_passed_tiles, same_hand_passed_tiles, ownVars>>

\* The offline replay calls this for an event it cannot interpret.
InvalidateReactionSource ==
  /\ pending_passed_tile' = None
  /\ UNCHANGED <<seat_id, reachVars, ippatsu, first_turn, post_reach_passed_tiles,
                 temporary_passed_tiles, same_hand_passed_tiles, ownVars>>

\* What we answered to a request.  Missing a win once our riichi stands is
\* furiten for the rest of the round.
OnActionResponse(ron_legal, chose_hora) ==
  /\ history_furiten' =
       IF ~RecordsMissedWin(ron_legal, chose_hora) THEN history_furiten
       ELSE IF OwnRiichi THEN [same_turn |-> "yes", riichi_missed_win |-> "yes"]
       ELSE [history_furiten EXCEPT !.same_turn = "yes"]
  /\ UNCHANGED <<seat_id, reachVars, ippatsu, first_turn, post_reach_passed_tiles,
                 passedVars, last_tsumo, own_tsumo_pending_discard>>

\* ValidationState::on_event: the handler for an event; the other types have none.
OnEvent(e) ==
  \/ e.type = "start_game" /\ OnStartGame(e.actor)
  \/ e.type = "start_kyoku" /\ OnStartKyoku
  \/ e.type = "tsumo" /\ OnTsumo(e.actor, e.pai)
  \/ e.type = "reach" /\ OnReach(e.actor)
  \/ e.type = "dahai" /\ OnDahai(e.actor, e.pai, e.tsumogiri)
  \/ e.type = "call" /\ OnCall(e.actor)
  \/ e.type = "kakan" /\ OnKakan(e.actor, e.pai)
  \/ e.type = "hora" /\ OnHora
  \/ e.type \in {"ryukyoku", "request_action"} /\ UNCHANGED trackerVars

\* What a context takes from the tracker apart from passed tiles and furiten: the
\* source of a reaction, our own double riichi, and everybody's riichi facts.
SituationFacts ==
  [source |-> IF pending_passed_tile = None THEN None ELSE pending_passed_tile.actor,
   eligible |-> IF seat_id \in Players THEN DeclaresDoubleRiichi(first_turn, seat_id)
                ELSE "unknown",
   declared |-> IF seat_id \in Players THEN declared_double_riichi[seat_id] ELSE "unknown",
   double_riichi |-> declared_double_riichi,
   ippatsu |-> ippatsu]

\* Any event at any time.  The events without a handler (ryukyoku, end_kyoku,
\* request_action, action_ack, end_game, validation_result) and a discard or
\* kakan by a seat out of range change nothing: they are stuttering steps.
Next ==
  \/ OnStartKyoku
  \/ OnHora
  \/ InvalidateReactionSource
  \/ \E actor \in Actors :
       \/ OnStartGame(actor)
       \/ OnReach(actor)
       \/ OnCall(actor)
       \/ \E pai \in Faces :
            \/ OnTsumo(actor, pai)
            \/ OnKakan(actor, pai)
            \/ \E tsumogiri \in BOOLEAN : OnDahai(actor, pai, tsumogiri)
  \/ \E ron_legal, chose_hora \in BOOLEAN : OnActionResponse(ron_legal, chose_hora)

Spec == Init /\ [][Next]_trackerVars

------------------------------------------------------------------------------
(* What holds for every order of events, complete or not. *)

\* One-shot and double-riichi facts are "yes" only for a riichi that stands,
\* and only a standing riichi has collected passed tiles: no order of reach,
\* discard, call and reset leaves one of them behind.
RiichiFactsNeedRiichi ==
  \A p \in Players :
    /\ ippatsu[p] = "yes" => active_reach[p]
    /\ declared_double_riichi[p] # "unknown" => active_reach[p]
    /\ post_reach_passed_tiles[p] # {} => active_reach[p]

\* The tracker knows about passed tiles, ippatsu and riichi furiten from the
\* same moment, the first start_kyoku it saw: a consumer never combines a fact
\* of an observed round with a guess about an unobserved one.  (Our own draw and
\* discard settle same_turn and a call settles ippatsu even before that.)
KnownTogether ==
  LET roundSeen == temporary_passed_tiles # None
  IN  /\ roundSeen <=> same_hand_passed_tiles # None
      /\ roundSeen <=> history_furiten.riichi_missed_win # "unknown"
      /\ roundSeen => history_furiten.same_turn # "unknown"
      /\ roundSeen => first_turn.kind # "Unknown"
      /\ roundSeen => \A p \in Players : ippatsu[p] # "unknown"

\* Riichi furiten is recorded only against our own standing riichi: a win missed
\* before the declaring discard, or in a round whose riichi was reset, never is.
MissedWinNeedsOwnRiichi ==
  history_furiten.riichi_missed_win = "yes" =>
    seat_id \in Players /\ active_reach[seat_id]

\* Riichi furiten lasts until the round is over: no discard, draw or call takes
\* it back, only the two resets do.
RiichiFuritenIsFinal ==
  [][history_furiten.riichi_missed_win = "yes" =>
       \/ history_furiten'.riichi_missed_win = "yes"
       \/ OnStartKyoku
       \/ \E id \in Actors : OnStartGame(id)]_trackerVars
==============================================================================
