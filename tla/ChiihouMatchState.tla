-------------------------- MODULE ChiihouMatchState --------------------------
(***************************************************************************)
(* The table as chiihou-client knows it (src/match_state.rs), built from   *)
(* the lifecycle and table notifications of the chiihou server.  They come *)
(* over Nostr relays, so that any of them may be late or missing: this     *)
(* module puts no order on them.                                           *)
(*                                                                         *)
(* A notification that is rejected changes nothing, with one exception:    *)
(* our own discard of a tile we do not hold is rejected after the river    *)
(* has been updated.                                                       *)
(*                                                                         *)
(* Abstractions.  A tile is [suit, number]; the fields kyokustart sets     *)
(* together (round wind, dealer, honba, deposit) are one value, "round",   *)
(* and our seat goes with the player list; the final scores are known or   *)
(* not; the number of tiles left in the wall, which only the agents read,  *)
(* is left out.                                                            *)
(***************************************************************************)
EXTENDS Naturals, FiniteSets, SequencesExt

CONSTANTS
  Everyone,       \* the public keys a notification may name
  Me,             \* the AI's own key
  PlayerCount,    \* CHIIHOU_PLAYER_COUNT
  Pais,           \* the tiles
  Rounds,         \* what a kyokustart may announce
  Seatings,       \* the player lists a gamestart may carry
  Hands,          \* the hands a haipai may deal
  OpenTiles,      \* the tile lists an open may carry
  Draws,          \* the tiles we may draw
  Indicators,     \* the dora indicators
  MaxDiscards,    \* bound: discards on the table
  MaxMelds,       \* bound: melds on the table
  MaxDora,        \* bound: dora indicators on the table
  None

ASSUME TableAssumption ==
  /\ PlayerCount \in Nat
  /\ Me \in Everyone /\ None \notin Everyone /\ None \notin Pais /\ None \notin Rounds
  /\ \A players \in Seatings :
       /\ players \in [1..PlayerCount -> Everyone]
       /\ \A i, j \in 1..PlayerCount : players[i] = players[j] => i = j
  /\ {MaxDiscards, MaxMelds, MaxDora} \subseteq Nat
  /\ Draws \cup Indicators \subseteq Pais
  /\ Hands \cup OpenTiles \subseteq Seq(Pais)

VARIABLES
  players, round, phase, final_scores,           \* lifecycle
  hand, drawn,                                   \* our own tiles
  dora_indicators,
  discards, reached,                             \* for each seat
  claimable_discard,                             \* the tile that can be called
  newly_visible_meld_tiles, melds                \* for each seat

matchVars == <<players, round, phase, final_scores>>
ownVars == <<hand, drawn>>
meldVars == <<newly_visible_meld_tiles, melds>>
tableVars == <<ownVars, dora_indicators, discards, reached, claimable_discard, meldVars>>
stateVars == <<matchVars, tableVars>>

Seats == 1..PlayerCount
Phases == {"Idle", "GameStarted", "InKyoku", "WaitingNext", "Ended"}

\* player_index: 0 for a key that is not at the table.
SeatOf(player) == SelectInSeq(players, LAMBDA p : p = player)
AtTable(player) == SeatOf(player) # 0

\* How many entries the seats' lists have (for the bounds).
Total(lists) == Len(FlattenSeq(lists))

------------------------------------------------------------------------------
(* Melds. *)

SameTile(tiles) == \A i, j \in DOMAIN tiles : tiles[i] = tiles[j]

Consecutive(tiles) ==
  /\ \A i, j \in DOMAIN tiles : tiles[i].suit = tiles[j].suit
  /\ \A i \in DOMAIN tiles : tiles[i].suit # "zi"
  /\ LET numbers == {tiles[i].number : i \in DOMAIN tiles}
     IN  /\ Cardinality(numbers) = Len(tiles)
         /\ \A m, n \in numbers : m < n + Len(tiles)

Meld(kind, tiles, called) == [kind |-> kind, tiles |-> tiles, called_tile |-> called]

\* called_tile_index: the tile of the list that was discarded last, if any.
Called(tiles) == claimable_discard # None /\ claimable_discard \in ToSet(tiles)

\* pon_index_of
PonIndexOf(seat, tile) ==
  SelectInSeq(melds[seat], LAMBDA meld : meld.kind = "Pon" /\ Head(meld.tiles) = tile)

\* The three updates an open may stand for (meld_update_from_open).
IsKakan(seat, tiles) == Len(tiles) = 1 /\ PonIndexOf(seat, tiles[1]) # 0
IsCall(tiles) == Len(tiles) = 3 /\ Called(tiles) /\ (SameTile(tiles) \/ Consecutive(tiles))
IsKan(tiles) == Len(tiles) = 4 /\ SameTile(tiles)

AsKakan(pon, tile) == [pon EXCEPT !.kind = "Kakan", !.tiles = Append(@, tile)]

MeldsAfterOpen(seat, tiles) ==
  IF IsKakan(seat, tiles)
  THEN [melds[seat] EXCEPT ![PonIndexOf(seat, tiles[1])] = AsKakan(@, tiles[1])]
  ELSE Append(melds[seat],
         CASE ~Called(tiles)   -> Meld("Ankan", tiles, None)
           [] Called(tiles) /\ Len(tiles) = 4 -> Meld("Daiminkan", tiles, claimable_discard)
           [] Called(tiles) /\ Len(tiles) = 3 ->
                Meld(IF SameTile(tiles) THEN "Pon" ELSE "Chi", tiles, claimable_discard))

\* Mutant: the called tile is counted again.
Mutant_NewlyVisible(tiles) == tiles

\* newly_visible_tiles_from_open: a called tile was in a river already.
NewlyVisible(tiles) ==
  IF Called(tiles) /\ Len(tiles) > 1 THEN RemoveFirst(tiles, claimable_discard) ELSE tiles

\* Mutant: the tile that was called can be called again.
Mutant_ClaimableAfterOpen == claimable_discard

ClaimableAfterOpen == None

------------------------------------------------------------------------------
(* The lifecycle notifications. *)

NoTiles == [seat \in Seats |-> <<>>]

Init ==
  /\ players = <<>> /\ round = None
  /\ phase = "Idle" /\ final_scores = FALSE
  /\ hand = <<>> /\ drawn = None
  /\ dora_indicators = <<>>
  /\ discards = NoTiles
  /\ reached = [seat \in Seats |-> FALSE]
  /\ claimable_discard = None
  /\ newly_visible_meld_tiles = NoTiles /\ melds = NoTiles

ResetTableState ==
  /\ hand' = <<>> /\ drawn' = None
  /\ dora_indicators' = <<>>
  /\ discards' = NoTiles
  /\ reached' = [seat \in Seats |-> FALSE]
  /\ claimable_discard' = None
  /\ newly_visible_meld_tiles' = NoTiles /\ melds' = NoTiles

ApplyGameStart(seating) ==
  /\ players' = seating
  /\ round' = None
  /\ final_scores' = FALSE
  /\ phase' = "GameStarted"
  /\ ResetTableState

ApplyKyokuStart(announced) ==
  /\ round' = announced
  /\ phase' = "InKyoku"
  /\ ResetTableState
  /\ UNCHANGED <<players, final_scores>>

\* The river and the dora stay; only our drawn tile is gone.
ApplyKyokuEnd ==
  /\ drawn' = None
  /\ phase' = "WaitingNext"
  /\ UNCHANGED <<players, round, final_scores, hand,
                 dora_indicators, discards, reached, claimable_discard, meldVars>>

ApplyGameEnd ==
  /\ final_scores' = TRUE
  /\ phase' = "Ended"
  /\ UNCHANGED <<players, round, tableVars>>

------------------------------------------------------------------------------
(* The table notifications. *)

ApplyHaipai(player, dealt) ==
  /\ player = Me
  /\ hand' = dealt /\ drawn' = None
  /\ UNCHANGED <<matchVars, dora_indicators, discards, reached,
                 claimable_discard, meldVars>>

ApplyDora(indicator) ==
  /\ Len(dora_indicators) < MaxDora
  /\ dora_indicators' = Append(dora_indicators, indicator)
  /\ UNCHANGED <<matchVars, ownVars, discards, reached, claimable_discard, meldVars>>

\* The server tells us our own draws only: the others' draws do not end the
\* claim to a discard.
ApplyTsumo(player, tile) ==
  /\ player = Me
  /\ drawn' = tile
  /\ claimable_discard' = None
  /\ UNCHANGED <<matchVars, hand, dora_indicators, discards, reached, meldVars>>

\* discard_from_held_hand
HeldTiles == IF drawn = None THEN hand ELSE Append(hand, drawn)

ApplySutehai(player, tile) ==
  /\ AtTable(player)
  /\ Total(discards) < MaxDiscards
  /\ discards' = [discards EXCEPT ![SeatOf(player)] = Append(@, tile)]
  /\ claimable_discard' = tile
  /\ IF player = Me /\ tile \in ToSet(HeldTiles)
     THEN hand' = RemoveFirst(HeldTiles, tile) /\ drawn' = None
     ELSE UNCHANGED <<hand, drawn>>
  /\ UNCHANGED <<matchVars, dora_indicators, reached, meldVars>>

ApplySay(player, action) ==
  /\ AtTable(player)
  /\ reached' = [reached EXCEPT ![SeatOf(player)] = @ \/ action = "Richi"]
  /\ UNCHANGED <<matchVars, ownVars, dora_indicators, discards, claimable_discard, meldVars>>

ApplyOpen(player, tiles) ==
  /\ AtTable(player)
  /\ LET seat == SeatOf(player)
     IN  /\ IsKakan(seat, tiles) \/ (Total(melds) < MaxMelds /\ (IsCall(tiles) \/ IsKan(tiles)))
         /\ melds' = [melds EXCEPT ![seat] = MeldsAfterOpen(seat, tiles)]
         /\ newly_visible_meld_tiles' =
              [newly_visible_meld_tiles EXCEPT ![seat] = @ \o NewlyVisible(tiles)]
  /\ claimable_discard' = ClaimableAfterOpen
  /\ UNCHANGED <<matchVars, ownVars, dora_indicators, discards, reached>>

Next ==
  \/ \E seating \in Seatings : ApplyGameStart(seating)
  \/ \E announced \in Rounds : ApplyKyokuStart(announced)
  \/ ApplyKyokuEnd
  \/ ApplyGameEnd
  \/ \E player \in Everyone :
       \/ \E dealt \in Hands : ApplyHaipai(player, dealt)
       \/ \E tile \in Draws : ApplyTsumo(player, tile)
       \/ \E tile \in Pais : ApplySutehai(player, tile)
       \/ \E action \in {"Richi", "Ron"} : ApplySay(player, action)
       \/ \E tiles \in OpenTiles : ApplyOpen(player, tiles)
  \/ \E indicator \in Indicators : ApplyDora(indicator)

Spec == Init /\ [][Next]_stateVars

------------------------------------------------------------------------------
(* Properties. *)

\* The places <<seat, index>> of lists kept for each seat.
Places(lists) == UNION {{seat} \X DOMAIN lists[seat] : seat \in DOMAIN lists}

Copies(tiles, tile) == Cardinality({i \in DOMAIN tiles : tiles[i] = tile})
CallsOf(seat, tile) == Cardinality({i \in DOMAIN melds[seat] : melds[seat][i].called_tile = tile})

\* The places <<meld, index>> where a seat's melds show a tile.
ShownAt(seat, tile) ==
  LET tiles == [i \in DOMAIN melds[seat] |-> melds[seat][i].tiles]
  IN  {at \in Places(tiles) : tiles[at[1]][at[2]] = tile}

\* The tiles the agents count as seen in a seat's melds are the meld tiles without
\* the called ones: those lie in a river, where they are counted already.  Chi, pon,
\* the two kans and a pon that became a kan all keep the two lists in step.
VisibleTilesAreCountedOnce ==
  \A seat \in Seats, tile \in Pais :
    Copies(newly_visible_meld_tiles[seat], tile) + CallsOf(seat, tile) =
    Cardinality(ShownAt(seat, tile))

\* No discard is called twice: of each tile at most as many were called, by all
\* the seats, as lie in the rivers.
EachDiscardIsCalledOnce ==
  \A tile \in Pais :
    Cardinality({at \in Places(melds) : melds[at[1]][at[2]].called_tile = tile})
    <= Cardinality({at \in Places(discards) : discards[at[1]][at[2]] = tile})
==============================================================================
