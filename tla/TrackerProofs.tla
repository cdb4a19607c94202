----------------------------- MODULE TrackerProofs -----------------------------
(***************************************************************************)
(* The event tracker.  First what ValidationState promises for every order *)
(* of events, then that in every legal round its fields are what the whole *)
(* history says; for any table, any tiles, any event stream and rounds of  *)
(* any length.  Last that the replay of a captured session shows the       *)
(* tracker the live client had.                                            *)
(***************************************************************************)
EXTENDS MjaiRound, SessionReplay, WellFoundedInduction, SequenceTheorems, TLAPS

(***************************************************************************)
(* Every order of events.                                                  *)
(***************************************************************************)

\* The maps the handlers build are again maps of tile sets, None staying None.
LEMMA ConfirmedType ==
  ASSUME TypeOK, NEW passed \in Tracked \cup {None}
  PROVE  Confirmed(passed) \in Tracked \cup {None}
  BY DEF TypeOK, Confirmed, Tracked

LEMMA ClearedType ==
  ASSUME NEW passed \in Tracked \cup {None}, NEW actor
  PROVE  Cleared(passed, actor) \in Tracked \cup {None}
  BY DEF Cleared, Tracked

LEMMA FirstTurnType ==
  ASSUME NEW turn \in FirstTurns, NEW actor
  PROVE  /\ FirstTurnAfterDahai(turn, actor) \in FirstTurns
         /\ \A p \in Players : DeclaresDoubleRiichi(turn, p) \in Fact
  BY DEF FirstTurns, FirstTurnAfterDahai, FirstTurnEnded, FirstTurnActive,
         DeclaresDoubleRiichi, Fact, FactOf

LEMMA PendingTileType ==
  ASSUME NEW actor \in Actors, NEW pai
  PROVE  PendingTile(actor, pai) \in [actor : Actors, tile : Tiles] \cup {None}
  BY DEF PendingTile

\* A tracked map is never the absent value, so that comparing one with None tells
\* whether a round was observed.
LEMMA TrackedIsSome ==
  /\ None \notin Tracked
  /\ NobodyTracked \in Tracked
  BY TrackedAssumption DEF Tracked, NobodyTracked

LEMMA ConfirmedKeepsNone ==
  ASSUME TypeOK, NEW passed \in Tracked \cup {None}
  PROVE  Confirmed(passed) = None <=> passed = None
  BY TrackedIsSome DEF TypeOK, Confirmed, Tracked

LEMMA ClearedKeepsNone ==
  ASSUME NEW passed \in Tracked \cup {None}, NEW actor
  PROVE  Cleared(passed, actor) = None <=> passed = None
  BY TrackedIsSome DEF Cleared, Tracked

------------------------------------------------------------------------------
LEMMA TypeInit == Init => TypeOK
<1> SUFFICES ASSUME Init PROVE TypeOK
  OBVIOUS
<1>1. /\ pending_reach \in [Players -> BOOLEAN]
      /\ active_reach \in [Players -> BOOLEAN]
      /\ own_tsumo_pending_discard \in BOOLEAN
  BY DEF Init
<1>2. /\ declared_double_riichi \in [Players -> Fact]
      /\ ippatsu \in [Players -> Fact]
      /\ first_turn \in FirstTurns
      /\ history_furiten \in FuritenFacts
  BY DEF Init, Fact, FirstTurns, FirstTurnUnknown, FuritenFacts, UnknownFuriten
<1>. QED  BY <1>1, <1>2, TrackedIsSome DEF Init, TypeOK

\* A reset gives every field it touches a value of its type.
LEMMA ResetReachType ==
  ASSUME ResetReach
  PROVE  /\ pending_reach' \in [Players -> BOOLEAN]
         /\ active_reach' \in [Players -> BOOLEAN]
         /\ declared_double_riichi' \in [Players -> Fact]
         /\ post_reach_passed_tiles' \in Tracked
         /\ pending_passed_tile' \in [actor : Actors, tile : Tiles] \cup {None}
  BY DEF ResetReach, Fact, Tracked, NobodyTracked

LEMMA TypeNext == TypeOK /\ [Next]_trackerVars => TypeOK'
<1> SUFFICES ASSUME TypeOK, [Next]_trackerVars PROVE TypeOK'
  OBVIOUS
<1> USE DEF TypeOK
<1>1. ASSUME NEW id \in Actors, OnStartGame(id) PROVE TypeOK'
  BY <1>1, ResetReachType DEF OnStartGame, FirstTurns, FirstTurnUnknown,
     FuritenFacts, UnknownFuriten, Fact, Faces
<1>2. CASE OnStartKyoku
  BY <1>2, ResetReachType, TrackedIsSome DEF OnStartKyoku, FirstTurns,
     FirstTurnActive, FuritenFacts, NoFuriten, NoIppatsu, Fact, Faces
<1>3. ASSUME NEW actor \in Actors, NEW pai \in Faces, OnTsumo(actor, pai) PROVE TypeOK'
  <2>1. /\ temporary_passed_tiles' \in Tracked \cup {None}
        /\ same_hand_passed_tiles' \in Tracked \cup {None}
    BY <1>3, ConfirmedType, ClearedType DEF OnTsumo
  <2>2. /\ ippatsu' \in [Players -> Fact]
        /\ last_tsumo' \in Faces \cup {None}
        /\ own_tsumo_pending_discard' \in BOOLEAN
    BY <1>3 DEF OnTsumo, IppatsuAfterDraw, Fact
  <2>. QED  BY <1>3, <2>1, <2>2 DEF OnTsumo, reachVars
<1>4. ASSUME NEW actor \in Actors, OnReach(actor) PROVE TypeOK'
  BY <1>4 DEF OnReach, passedVars, ownVars
<1>5. ASSUME NEW actor \in Actors, NEW pai \in Faces, NEW tsumogiri \in BOOLEAN,
             OnDahai(actor, pai, tsumogiri)
      PROVE  TypeOK'
  <2>1. /\ temporary_passed_tiles' \in Tracked \cup {None}
        /\ same_hand_passed_tiles' \in Tracked \cup {None}
    BY <1>5, ConfirmedType, ClearedType DEF OnDahai, SameHandAfterDahai
  <2>2. post_reach_passed_tiles' \in Tracked
    BY <1>5 DEF OnDahai, PostReachAfterDahai, Tracked
  <2>3. history_furiten' \in FuritenFacts
    BY <1>5 DEF OnDahai, FuritenAfterDahai, FuritenFacts, Fact
  <2>4. /\ first_turn' \in FirstTurns
        /\ declared_double_riichi' \in [Players -> Fact]
    BY <1>5, FirstTurnType DEF OnDahai
  <2>5. /\ pending_reach' \in [Players -> BOOLEAN]
        /\ active_reach' \in [Players -> BOOLEAN]
        /\ ippatsu' \in [Players -> Fact]
    BY <1>5 DEF OnDahai, Establishes, Fact
  <2>6. /\ pending_passed_tile' \in [actor : Actors, tile : Tiles] \cup {None}
        /\ last_tsumo' \in Faces \cup {None}
        /\ own_tsumo_pending_discard' \in BOOLEAN
    BY <1>5, PendingTileType DEF OnDahai, DrawnAfterDahai
  <2>. QED  BY <1>5, <2>1, <2>2, <2>3, <2>4, <2>5, <2>6 DEF OnDahai
<1>6. ASSUME NEW actor \in Actors, Calls(actor),
             pending_passed_tile' \in [actor : Actors, tile : Tiles] \cup {None}
      PROVE  TypeOK'
  <2>1. /\ temporary_passed_tiles' \in Tracked \cup {None}
        /\ same_hand_passed_tiles' \in Tracked \cup {None}
    BY <1>6, ConfirmedType, ClearedType DEF Calls
  <2>. QED  BY <1>6, <2>1 DEF Calls, NoIppatsu, Fact, FirstTurns, FirstTurnEnded,
            reachVars, ownVars
<1>7. ASSUME NEW actor \in Actors, OnCall(actor) PROVE TypeOK'
  BY <1>7, <1>6 DEF OnCall
<1>8. ASSUME NEW actor \in Actors, NEW pai \in Faces, OnKakan(actor, pai) PROVE TypeOK'
  BY <1>8, <1>6, PendingTileType DEF OnKakan
<1>9. CASE OnHora \/ InvalidateReactionSource
  BY <1>9 DEF OnHora, InvalidateReactionSource, reachVars, ownVars
<1>10. ASSUME NEW ron_legal \in BOOLEAN, NEW chose_hora \in BOOLEAN,
              OnActionResponse(ron_legal, chose_hora)
       PROVE  TypeOK'
  <2>1. history_furiten' \in FuritenFacts
    BY <1>10 DEF OnActionResponse, FuritenFacts, Fact
  <2>. QED  BY <1>10, <2>1 DEF OnActionResponse, reachVars, passedVars
<1>11. CASE UNCHANGED trackerVars
  BY <1>11 DEF trackerVars, reachVars, passedVars, ownVars
<1>. QED  BY <1>1, <1>2, <1>3, <1>4, <1>5, <1>7, <1>8, <1>9, <1>10, <1>11 DEF Next

\* Every field keeps a value of its type whatever events arrive.
THEOREM TypeCorrect == Spec => []TypeOK
  BY TypeInit, TypeNext, PTL DEF Spec

------------------------------------------------------------------------------
(* Riichi facts belong to a standing riichi. *)

LEMMA RiichiFactsNext ==
  TypeOK /\ RiichiFactsNeedRiichi /\ [Next]_trackerVars => RiichiFactsNeedRiichi'
<1> SUFFICES ASSUME TypeOK, RiichiFactsNeedRiichi, [Next]_trackerVars
             PROVE  RiichiFactsNeedRiichi'
  OBVIOUS
<1> USE DEF RiichiFactsNeedRiichi
<1>1. ASSUME NEW id \in Actors, OnStartGame(id) PROVE RiichiFactsNeedRiichi'
  BY <1>1 DEF OnStartGame, ResetReach, NobodyTracked
<1>2. CASE OnStartKyoku
  BY <1>2 DEF OnStartKyoku, ResetReach, NobodyTracked, NoIppatsu
<1>3. ASSUME NEW actor \in Actors, NEW pai \in Faces, OnTsumo(actor, pai)
      PROVE  RiichiFactsNeedRiichi'
  BY <1>3 DEF OnTsumo, IppatsuAfterDraw, reachVars
<1>4. ASSUME NEW actor \in Actors, OnReach(actor) PROVE RiichiFactsNeedRiichi'
  BY <1>4 DEF OnReach
<1>5. ASSUME NEW actor \in Actors, NEW pai \in Faces, NEW tsumogiri \in BOOLEAN,
             OnDahai(actor, pai, tsumogiri)
      PROVE  RiichiFactsNeedRiichi'
  BY <1>5 DEF OnDahai, Establishes, PostReachAfterDahai, TypeOK
<1>6. ASSUME NEW actor \in Actors, Calls(actor) PROVE RiichiFactsNeedRiichi'
  BY <1>6 DEF Calls, NoIppatsu, reachVars
<1>7. CASE \/ OnHora
           \/ InvalidateReactionSource
           \/ \E ron_legal, chose_hora \in BOOLEAN : OnActionResponse(ron_legal, chose_hora)
           \/ UNCHANGED trackerVars
  BY <1>7 DEF OnHora, InvalidateReactionSource, OnActionResponse, trackerVars, reachVars
<1>. QED  BY <1>1, <1>2, <1>3, <1>4, <1>5, <1>6, <1>7 DEF Next, OnCall, OnKakan

\* A seat is credited with a one-shot window, a classified riichi or passed tiles
\* only while its riichi stands.
THEOREM RiichiFactsCorrect == Spec => []RiichiFactsNeedRiichi
<1>1. Init => RiichiFactsNeedRiichi
  BY DEF Init, RiichiFactsNeedRiichi, NobodyTracked
<1>. QED  BY <1>1, RiichiFactsNext, TypeCorrect, PTL DEF Spec

------------------------------------------------------------------------------
(* What is known is known from the same moment on. *)

LEMMA KnownTogetherNext ==
  TypeOK /\ KnownTogether /\ [Next]_trackerVars => KnownTogether'
<1> SUFFICES ASSUME TypeOK, KnownTogether, [Next]_trackerVars PROVE KnownTogether'
  OBVIOUS
<1>1. ASSUME NEW id \in Actors, OnStartGame(id) PROVE KnownTogether'
  BY <1>1 DEF OnStartGame, KnownTogether, UnknownFuriten
<1>2. CASE OnStartKyoku
  BY <1>2, TrackedIsSome DEF OnStartKyoku, KnownTogether, NoFuriten, NoIppatsu, FirstTurnActive
<1>3. ASSUME NEW actor \in Actors, NEW pai \in Faces, OnTsumo(actor, pai)
      PROVE  KnownTogether'
  <2>1. temporary_passed_tiles' = None <=> temporary_passed_tiles = None
    BY <1>3, ConfirmedType, ConfirmedKeepsNone, ClearedKeepsNone DEF OnTsumo, TypeOK
  <2>2. same_hand_passed_tiles' = None <=> same_hand_passed_tiles = None
    BY <1>3, ConfirmedKeepsNone DEF OnTsumo, TypeOK
  <2>. QED  BY <1>3, <2>1, <2>2 DEF OnTsumo, KnownTogether, IppatsuAfterDraw
<1>4. ASSUME NEW actor \in Actors, NEW pai \in Faces, NEW tsumogiri \in BOOLEAN,
             OnDahai(actor, pai, tsumogiri)
      PROVE  KnownTogether'
  <2>1. temporary_passed_tiles' = None <=> temporary_passed_tiles = None
    BY <1>4, ConfirmedKeepsNone DEF OnDahai, TypeOK
  <2>2. same_hand_passed_tiles' = None <=> same_hand_passed_tiles = None
    BY <1>4, ConfirmedType, ConfirmedKeepsNone, ClearedKeepsNone
       DEF OnDahai, SameHandAfterDahai, TypeOK
  <2>3. first_turn.kind # "Unknown" => first_turn'.kind # "Unknown"
    BY <1>4 DEF OnDahai, FirstTurnAfterDahai, FirstTurnEnded, FirstTurnActive
  <2>4. /\ history_furiten'.riichi_missed_win = history_furiten.riichi_missed_win
        /\ history_furiten.same_turn # "unknown" => history_furiten'.same_turn # "unknown"
    BY <1>4 DEF OnDahai, FuritenAfterDahai, TypeOK, FuritenFacts
  <2>5. \A p \in Players : ippatsu[p] # "unknown" => ippatsu'[p] # "unknown"
    BY <1>4 DEF OnDahai
  <2>. QED  BY <2>1, <2>2, <2>3, <2>4, <2>5 DEF KnownTogether
<1>5. ASSUME NEW actor \in Actors, Calls(actor) PROVE KnownTogether'
  <2>1. temporary_passed_tiles' = None <=> temporary_passed_tiles = None
    BY <1>5, ConfirmedType, ConfirmedKeepsNone, ClearedKeepsNone DEF Calls, TypeOK
  <2>2. same_hand_passed_tiles' = None <=> same_hand_passed_tiles = None
    BY <1>5, ConfirmedType, ConfirmedKeepsNone, ClearedKeepsNone DEF Calls, TypeOK
  <2>. QED  BY <1>5, <2>1, <2>2 DEF Calls, KnownTogether, FirstTurnEnded, NoIppatsu, ownVars
<1>6. ASSUME NEW ron_legal \in BOOLEAN, NEW chose_hora \in BOOLEAN,
             OnActionResponse(ron_legal, chose_hora)
      PROVE  KnownTogether'
  <2>1. /\ history_furiten'.riichi_missed_win = "unknown"
             <=> history_furiten.riichi_missed_win = "unknown"
        /\ history_furiten'.same_turn = "unknown" <=> history_furiten.same_turn = "unknown"
    BY <1>6 DEF OnActionResponse, RecordsMissedWin, TypeOK, FuritenFacts
  <2>. QED  BY <1>6, <2>1 DEF OnActionResponse, KnownTogether, passedVars
<1>7. CASE \/ OnHora
           \/ InvalidateReactionSource
           \/ \E actor \in Actors : OnReach(actor)
           \/ UNCHANGED trackerVars
  BY <1>7 DEF OnHora, InvalidateReactionSource, OnReach, KnownTogether, trackerVars,
     passedVars, ownVars
<1>. QED  BY <1>1, <1>2, <1>3, <1>4, <1>5, <1>6, <1>7 DEF Next, OnCall, OnKakan

\* Passed tiles, riichi furiten and ippatsu are all unknown before the first
\* start_kyoku the tracker saw, and all known after it.
THEOREM KnownTogetherCorrect == Spec => []KnownTogether
<1>1. Init => KnownTogether
  BY DEF Init, KnownTogether, UnknownFuriten
<1>. QED  BY <1>1, KnownTogetherNext, TypeCorrect, PTL DEF Spec

------------------------------------------------------------------------------
(* Riichi furiten. *)

\* No handler but the two resets takes riichi furiten back, and none but our own
\* standing riichi gives it.
LEMMA RiichiFuritenStep ==
  ASSUME TypeOK, [Next]_trackerVars
  PROVE  \/ OnStartKyoku
         \/ \E id \in Actors : OnStartGame(id)
         \/ /\ history_furiten.riichi_missed_win = "yes"
                  => history_furiten'.riichi_missed_win = "yes"
            /\ history_furiten'.riichi_missed_win = "yes"
                  => history_furiten.riichi_missed_win = "yes" \/ OwnRiichi
            /\ seat_id' = seat_id
            /\ \A p \in Players : active_reach[p] => active_reach'[p]
<1>1. ASSUME NEW actor \in Actors, NEW pai \in Faces, NEW tsumogiri \in BOOLEAN,
             OnDahai(actor, pai, tsumogiri)
      PROVE  /\ history_furiten'.riichi_missed_win = history_furiten.riichi_missed_win
             /\ seat_id' = seat_id
             /\ \A p \in Players : active_reach[p] => active_reach'[p]
  BY <1>1 DEF OnDahai, FuritenAfterDahai, TypeOK, FuritenFacts
<1>2. ASSUME NEW ron_legal \in BOOLEAN, NEW chose_hora \in BOOLEAN,
             OnActionResponse(ron_legal, chose_hora)
      PROVE  /\ history_furiten.riichi_missed_win = "yes"
                  => history_furiten'.riichi_missed_win = "yes"
             /\ history_furiten'.riichi_missed_win = "yes"
                  => history_furiten.riichi_missed_win = "yes" \/ OwnRiichi
             /\ seat_id' = seat_id
             /\ active_reach' = active_reach
  BY <1>2 DEF OnActionResponse, TypeOK, FuritenFacts, reachVars
<1>3. CASE \/ OnHora
           \/ InvalidateReactionSource
           \/ \E actor \in Actors :
                \/ OnReach(actor)
                \/ Calls(actor)
                \/ \E pai \in Faces : OnTsumo(actor, pai)
           \/ UNCHANGED trackerVars
  BY <1>3 DEF OnHora, InvalidateReactionSource, OnReach, Calls, OnTsumo, trackerVars,
     reachVars, ownVars
<1>. QED  BY <1>1, <1>2, <1>3 DEF Next, OnCall, OnKakan

\* Riichi furiten lasts until the next round or game.
THEOREM RiichiFuritenLasts == Spec => RiichiFuritenIsFinal
<1>1. TypeOK /\ [Next]_trackerVars =>
        [history_furiten.riichi_missed_win = "yes" =>
           \/ history_furiten'.riichi_missed_win = "yes"
           \/ OnStartKyoku
           \/ \E id \in Actors : OnStartGame(id)]_trackerVars
  BY RiichiFuritenStep
<1>. QED  BY <1>1, TypeCorrect, PTL DEF Spec, RiichiFuritenIsFinal

\* Riichi furiten is recorded only against our own standing riichi.
THEOREM MissedWinCorrect == Spec => []MissedWinNeedsOwnRiichi
<1>1. Init => MissedWinNeedsOwnRiichi
  BY DEF Init, MissedWinNeedsOwnRiichi, UnknownFuriten
<1>2. TypeOK /\ MissedWinNeedsOwnRiichi /\ [Next]_trackerVars => MissedWinNeedsOwnRiichi'
  <2> SUFFICES ASSUME TypeOK, MissedWinNeedsOwnRiichi, [Next]_trackerVars
               PROVE  MissedWinNeedsOwnRiichi'
    OBVIOUS
  <2>1. CASE OnStartKyoku \/ \E id \in Actors : OnStartGame(id)
    BY <2>1 DEF OnStartKyoku, OnStartGame, NoFuriten, UnknownFuriten, MissedWinNeedsOwnRiichi
  <2>. QED  BY <2>1, RiichiFuritenStep DEF MissedWinNeedsOwnRiichi, OwnRiichi
<1>. QED  BY <1>1, <1>2, TypeCorrect, PTL DEF Spec

(***************************************************************************)
(* A legal round.                                                          *)
(***************************************************************************)

Kinds == {"tsumo", "reach", "dahai", "open", "ankan", "kakan", "missed", "hora"}
StageKinds == {"over", "draw", "turn", "declared", "called", "discarded", "kan"}
Entries == [kind : Kinds, actor : Players, tile : Faces, drawn : BOOLEAN]

------------------------------------------------------------------------------
(* The history grows by one entry. *)

\* A set of moments has a last one.
LEMMA LastMomentIsLast ==
  ASSUME NEW n \in Nat, NEW S, S \subseteq 1..n
  PROVE  /\ S = {} => LastMoment(S) = 0
         /\ S # {} => /\ LastMoment(S) \in S
                      /\ \A i \in S : i <= LastMoment(S)
<1>1. ASSUME S # {} PROVE \E i \in S : \A j \in S : j <= i
  <2> DEFINE T == {n - i : i \in S}
  <2>1. T \subseteq Nat /\ T # {}
    <3>1. \A i \in S : n - i \in Nat
      OBVIOUS
    <3>2. PICK i \in S : TRUE
      BY <1>1
    <3>3. n - i \in T
      OBVIOUS
    <3>. QED  BY <3>1, <3>3
  <2>2. PICK t \in T : \A u \in T : <<u, t>> \notin OpToRel(<, Nat)
    <3> HIDE DEF T
    <3> QED  BY <2>1, WFMin, NatLessThanWellFounded, Zenon
  <2>3. PICK i \in S : t = n - i
    OBVIOUS
  <2>4. \A j \in S : ~ (n - j < n - i)
    BY <2>1, <2>2, <2>3 DEF OpToRel
  <2>. QED  BY <2>4
<1>2. S # {} => LastMoment(S) = CHOOSE x \in S : \A y \in S : x >= y
  BY DEF LastMoment, Max
<1>3. S # {} => \E x \in S : \A y \in S : x >= y
  BY <1>1
<1>. QED  BY <1>2, <1>3 DEF LastMoment

Appends(e) == log \in Seq(Entries) /\ e \in Entries /\ log' = Append(log, e)

LEMMA Appended ==
  ASSUME NEW e, Appends(e)
  PROVE  /\ Len(log) \in Nat /\ Len(log') = Len(log) + 1
         /\ Moments = 1..Len(log) /\ Moments' = 1..(Len(log) + 1)
         /\ \A i \in 1..Len(log) : log'[i] = log[i]
         /\ log'[Len(log) + 1] = e
         /\ log' \in Seq(Entries) /\ log' # <<>>
  BY DEF Appends, Moments

LEMMA LastMomentGrows ==
  ASSUME NEW n \in Nat, NEW S, S \subseteq 1..n
  PROVE  LastMoment(S \cup {n + 1}) = n + 1
<1>1. S \cup {n + 1} \subseteq 1..(n + 1) /\ n + 1 \in Nat
  OBVIOUS
<1>2. /\ LastMoment(S \cup {n + 1}) \in S \cup {n + 1}
      /\ n + 1 <= LastMoment(S \cup {n + 1})
  BY <1>1, LastMomentIsLast
<1>3. \A i \in S : ~ (n + 1 <= i)
  OBVIOUS
<1>4. LastMoment(S \cup {n + 1}) \notin S
  BY <1>2, <1>3
<1>. QED  BY <1>2, <1>4

\* The kinds of IsCall and IsRonChance, for an entry that is not in the log yet.
CallKinds == {"ankan", "open", "kakan"}
RonKinds == {"dahai", "kakan"}

LEMMA KindsGrow ==
  ASSUME NEW e, Appends(e)
  PROVE  /\ \A i \in Moments : (IsCall(i)' <=> IsCall(i)) /\ (IsRonChance(i)' <=> IsRonChance(i))
         /\ \A i : i = Len(log) + 1 => /\ IsCall(i)' <=> e.kind \in CallKinds
                                      /\ IsRonChance(i)' <=> e.kind \in RonKinds
<1>1. ASSUME NEW i \in Moments
      PROVE  (IsCall(i)' <=> IsCall(i)) /\ (IsRonChance(i)' <=> IsRonChance(i))
  <2>1. log'[i] = log[i]
    BY Appended
  <2>. QED  BY <2>1 DEF IsCall, IsRonChance
<1>2. ASSUME NEW i, i = Len(log) + 1
      PROVE  /\ IsCall(i)' <=> e.kind \in CallKinds
             /\ IsRonChance(i)' <=> e.kind \in RonKinds
  <2>1. log'[i] = e
    BY <1>2, Appended
  <2>. QED  BY <2>1 DEF IsCall, IsRonChance, CallKinds, RonKinds
<1>. QED  BY <1>1, <1>2

\* The discard e completes a declaration.
Completes(e, p) ==
  /\ e.kind = "dahai" /\ e.actor = p
  /\ log # <<>> /\ log[Len(log)] = Event("reach", p, Hidden, FALSE)

LEMMA RiichiDiscardsGrow ==
  ASSUME NEW e, Appends(e), NEW p \in Players
  PROVE  /\ RiichiDiscards(p) \subseteq 1..Len(log)
         /\ RiichiDiscards(p)' =
              RiichiDiscards(p) \cup (IF Completes(e, p) THEN {Len(log) + 1} ELSE {})
<1>1. \A i \in Moments : i \in RiichiDiscards(p)' <=> i \in RiichiDiscards(p)
  <2> SUFFICES ASSUME NEW i \in Moments PROVE i \in RiichiDiscards(p)' <=> i \in RiichiDiscards(p)
    OBVIOUS
  <2>1. i \in Moments' /\ log'[i] = log[i] /\ (i > 1 => log'[i - 1] = log[i - 1])
    BY Appended
  <2>. QED  BY <2>1 DEF RiichiDiscards, Event
<1>2. Len(log) + 1 \in RiichiDiscards(p)' <=> Completes(e, p)
  <2>1. Len(log) + 1 > 1 <=> log # <<>>
    BY Appended, EmptySeq DEF Appends
  <2>2. log # <<>> => log'[(Len(log) + 1) - 1] = log[Len(log)]
    BY <2>1, Appended
  <2>3. Len(log) + 1 \in Moments' /\ log'[Len(log) + 1] = e
    BY Appended
  <2>. QED  BY <2>1, <2>2, <2>3 DEF RiichiDiscards, Completes, Event
<1>3. RiichiDiscards(p) \subseteq Moments /\ RiichiDiscards(p)' \subseteq Moments'
  BY DEF RiichiDiscards
<1>. QED  BY <1>1, <1>2, <1>3, Appended

LEMMA DoubleRiichiGrows ==
  ASSUME NEW e, Appends(e), NEW p \in Players
  PROVE  /\ ~Completes(e, p) => (WasDoubleRiichi(p)' <=> WasDoubleRiichi(p))
         /\ Completes(e, p) /\ RiichiDiscards(p) = {} =>
              (WasDoubleRiichi(p)' <=>
                 \A i \in Moments : ~IsCall(i) /\ ~(log[i].kind = "dahai" /\ log[i].actor = p))
<1>1. CASE ~Completes(e, p)
  BY <1>1, RiichiDiscardsGrow, KindsGrow, Appended DEF WasDoubleRiichi
<1>2. CASE Completes(e, p) /\ RiichiDiscards(p) = {}
  BY <1>2, RiichiDiscardsGrow, KindsGrow, Appended DEF WasDoubleRiichi
<1>. QED  BY <1>1, <1>2

LEMMA IppatsuGrows ==
  ASSUME NEW e, Appends(e), NEW p \in Players
  PROVE  HasIppatsu(p)' <=>
           \/ Completes(e, p)
           \/ HasIppatsu(p) /\ e.kind \notin CallKinds /\ ~(e.kind = "tsumo" /\ e.actor = p)
<1>1. CASE Completes(e, p)
  BY <1>1, RiichiDiscardsGrow, Appended DEF HasIppatsu
<1>2. CASE ~Completes(e, p)
  <2>1. RiichiDiscards(p)' = RiichiDiscards(p) /\ RiichiDiscards(p) \subseteq 1..Len(log)
    BY <1>2, RiichiDiscardsGrow
  <2>2. ASSUME NEW r \in RiichiDiscards(p)
        PROVE  (\A i \in Moments' : i > r => ~IsCall(i)' /\ ~(log'[i].kind = "tsumo" /\ log'[i].actor = p))
               <=> /\ \A i \in Moments : i > r => ~IsCall(i) /\ ~(log[i].kind = "tsumo" /\ log[i].actor = p)
                   /\ e.kind \notin CallKinds /\ ~(e.kind = "tsumo" /\ e.actor = p)
    <3>1. Len(log) + 1 > r
      BY <2>1, Appended
    <3>2. \A i \in Moments : i \in Moments' /\ log'[i] = log[i]
      BY Appended
    <3>3. \A i \in Moments' : i \in Moments \/ i = Len(log) + 1
      BY Appended
    <3>4. Len(log) + 1 \in Moments' /\ log'[Len(log) + 1] = e
      BY Appended
    <3>. QED  BY <3>1, <3>2, <3>3, <3>4 DEF IsCall, CallKinds
  <2>. QED  BY <1>2, <2>1, <2>2 DEF HasIppatsu
<1>. QED  BY <1>1, <1>2

------------------------------------------------------------------------------
(* The invariant. *)

RoundTypeOK ==
  /\ log \in Seq(Entries)
  /\ stage \in [kind : StageKinds, player : Players]
  /\ seat_id \in {None, Me}

\* The moment before which everything has been decided, and the end of the log.
Latest == LastMoment({i \in Moments : log[i].kind # "missed"})
LastIs(kind) == log # <<>> /\ log[Len(log)].kind = kind /\ log[Len(log)].actor = stage.player

\* The stage tells how the log ends.
StageFitsLog ==
  /\ ~RoundSeen => log = <<>> /\ stage.kind = "over"
  /\ RoundSeen => seat_id = Me
  /\ \A i \in Moments : log[i].kind = "hora" => stage.kind = "over"
  /\ stage.kind = "draw" => log = <<>>
  /\ stage.kind = "turn" => LastIs("tsumo")
  /\ stage.kind = "called" => LastIs("open")
  /\ stage.kind = "declared" =>
       /\ log # <<>> /\ log[Len(log)] = Event("reach", stage.player, Hidden, FALSE)
       /\ ~Riichi(stage.player)
  /\ stage.kind = "discarded" =>
       /\ Latest # 0 /\ log[Latest].kind = "dahai" /\ log[Latest].actor = stage.player
  /\ stage.kind = "kan" =>
       /\ Latest # 0 /\ log[Latest].kind \in CallKinds /\ log[Latest].actor = stage.player

Discarders == {q \in Players : \E i \in Moments : log[i].kind = "dahai" /\ log[i].actor = q}

\* The first turn ends with the first call or the last first discard.
FirstTurnIsTracked ==
  RoundSeen =>
    /\ first_turn.kind \in {"Active", "Ended"}
    /\ first_turn.kind = "Active" => /\ \A i \in Moments : ~IsCall(i)
                                     /\ first_turn.discarded = Discarders
    /\ first_turn.kind = "Ended" => (\E i \in Moments : IsCall(i)) \/ Discarders = Players

\* We hold a tile we drew, and it is our turn.
OwnDrawIsTracked ==
  RoundSeen =>
    /\ own_tsumo_pending_discard <=>
         \E i \in Moments : /\ log[i].kind = "tsumo" /\ log[i].actor = Me
                            /\ \A k \in i..Len(log) : ~(log[k].kind = "dahai" /\ log[k].actor = Me)
    /\ own_tsumo_pending_discard /\ stage.kind # "over" =>
         stage.player = Me /\ stage.kind \in {"turn", "declared", "kan"}

RoundInv ==
  /\ RoundTypeOK /\ StageFitsLog /\ FirstTurnIsTracked /\ OwnDrawIsTracked
  /\ RiichiIsTracked /\ IppatsuIsTracked /\ PassedTilesAreTracked /\ FuritenIsTracked
  /\ ReactionSourceIsCurrent

------------------------------------------------------------------------------
(* The moments the passed tiles depend on. *)

LEMMA EventFacts ==
  ASSUME NEW kind \in Kinds, NEW p \in Players, NEW pai \in Faces, NEW drawn \in BOOLEAN
  PROVE  LET e == Event(kind, p, pai, drawn)
         IN  e \in Entries /\ e.kind = kind /\ e.actor = p /\ e.tile = pai /\ e.drawn = drawn
  BY DEF Event, Entries

LEMMA RecordAppends ==
  ASSUME RoundTypeOK, NEW kind \in Kinds, NEW p \in Players, NEW pai \in Faces,
         NEW drawn \in BOOLEAN, Record(kind, p, pai, drawn)
  PROVE  Appends(Event(kind, p, pai, drawn))
  BY EventFacts DEF RoundTypeOK, Record, Appends

LEMMA LatestFacts ==
  ASSUME RoundTypeOK
  PROVE  /\ Latest # 0 => Latest \in Moments /\ log[Latest].kind # "missed"
         /\ \A i \in Moments : log[i].kind # "missed" => i <= Latest
         /\ Latest \in 0..Len(log)
<1> DEFINE S == {i \in Moments : log[i].kind # "missed"}
<1>1. Len(log) \in Nat /\ S \subseteq 1..Len(log) /\ Moments = 1..Len(log)
  BY DEF RoundTypeOK, Moments
<1>2. /\ S = {} => LastMoment(S) = 0
      /\ S # {} => LastMoment(S) \in S /\ \A i \in S : i <= LastMoment(S)
  <2> HIDE DEF S
  <2> QED  BY <1>1, LastMomentIsLast
<1>3. Latest = LastMoment(S)
  BY DEF Latest
<1>. QED  BY <1>1, <1>2, <1>3

LEMMA LatestGrows ==
  ASSUME NEW e, Appends(e), RoundTypeOK
  PROVE  Latest' = IF e.kind = "missed" THEN Latest ELSE Len(log) + 1
<1> DEFINE S == {i \in Moments : log[i].kind # "missed"}
<1> DEFINE T == {i \in Moments' : log'[i].kind # "missed"}
<1>1. T = IF e.kind = "missed" THEN S ELSE S \cup {Len(log) + 1}
  BY Appended
<1>2. S \subseteq 1..Len(log) /\ Len(log) \in Nat
  BY Appended
<1>3. Latest = LastMoment(S) /\ Latest' = LastMoment(T)
  BY DEF Latest, LastMoment, Max
<1> HIDE DEF S, T
<1>. QED  BY <1>1, <1>2, <1>3, LastMomentGrows

\* The last moment of a kind that counts for p: what was passed since then is safe.
SinceMoments(p) ==
  {i \in Moments : log[i].actor = p /\ log[i].kind # "missed"} \cup {0}

LEMMA LastDrawOrCallGrows ==
  ASSUME NEW e, Appends(e), NEW p \in Players
  PROVE  /\ LastDrawOrCall(p)' =
              IF e.actor = p /\ (e.kind = "tsumo" \/ e.kind \in CallKinds)
              THEN Len(log) + 1 ELSE LastDrawOrCall(p)
         /\ LastDrawOrCall(p) \in SinceMoments(p)
<1> DEFINE S == {i \in Moments : log[i].actor = p /\ (log[i].kind = "tsumo" \/ IsCall(i))}
<1> DEFINE T == {i \in Moments' : log'[i].actor = p /\ (log'[i].kind = "tsumo" \/ IsCall(i)')}
<1>1. T = IF e.actor = p /\ (e.kind = "tsumo" \/ e.kind \in CallKinds)
          THEN S \cup {Len(log) + 1} ELSE S
  BY Appended DEF IsCall, CallKinds
<1>2. S \subseteq 1..Len(log) /\ Len(log) \in Nat
  BY Appended
<1>3. LastDrawOrCall(p) = LastMoment(S) /\ LastDrawOrCall(p)' = LastMoment(T)
  BY DEF LastDrawOrCall, LastMoment, Max
<1>4. S \subseteq SinceMoments(p) /\ 0 \in SinceMoments(p)
  BY DEF SinceMoments, IsCall
<1> HIDE DEF S, T
<1>5. LastMoment(S) \in SinceMoments(p)
  BY <1>2, <1>4, LastMomentIsLast
<1>. QED  BY <1>1, <1>2, <1>3, <1>5, LastMomentGrows

LEMMA LastHandChangeGrows ==
  ASSUME NEW e, Appends(e), NEW p \in Players
  PROVE  /\ LastHandChange(p)' =
              IF e.actor = p /\ (e.kind \in CallKinds \/ (e.kind = "dahai" /\ ~e.drawn))
              THEN Len(log) + 1 ELSE LastHandChange(p)
         /\ LastHandChange(p) \in SinceMoments(p)
<1> DEFINE S == {i \in Moments :
                   log[i].actor = p /\ (IsCall(i) \/ (log[i].kind = "dahai" /\ ~log[i].drawn))}
<1> DEFINE T == {i \in Moments' :
                   log'[i].actor = p /\ (IsCall(i)' \/ (log'[i].kind = "dahai" /\ ~log'[i].drawn))}
<1>1. T = IF e.actor = p /\ (e.kind \in CallKinds \/ (e.kind = "dahai" /\ ~e.drawn))
          THEN S \cup {Len(log) + 1} ELSE S
  BY Appended DEF IsCall, CallKinds
<1>2. S \subseteq 1..Len(log) /\ Len(log) \in Nat
  BY Appended
<1>3. LastHandChange(p) = LastMoment(S) /\ LastHandChange(p)' = LastMoment(T)
  BY DEF LastHandChange, LastMoment, Max
<1>4. S \subseteq SinceMoments(p) /\ 0 \in SinceMoments(p)
  BY DEF SinceMoments, IsCall
<1> HIDE DEF S, T
<1>5. LastMoment(S) \in SinceMoments(p)
  BY <1>2, <1>4, LastMomentIsLast
<1>. QED  BY <1>1, <1>2, <1>3, <1>5, LastMomentGrows

LEMMA PassedGrows ==
  ASSUME NEW e, Appends(e)
  PROVE  /\ \A i \in Moments : Passed(i)' <=> Passed(i) \/ e.kind \notin {"missed", "hora"}
         /\ \A i : i = Len(log) + 1 => ~Passed(i)'
<1>1. ASSUME NEW i \in Moments
      PROVE  Passed(i)' <=> Passed(i) \/ e.kind \notin {"missed", "hora"}
  <2>1. Len(log) + 1 > i /\ Len(log) + 1 \in Moments' /\ log'[Len(log) + 1] = e
    BY Appended
  <2>2. \A j \in Moments : j \in Moments' /\ log'[j] = log[j]
    BY Appended
  <2>3. \A j \in Moments' : j \in Moments \/ j = Len(log) + 1
    BY Appended
  <2>. QED  BY <2>1, <2>2, <2>3 DEF Passed
<1>2. ASSUME NEW i, i = Len(log) + 1 PROVE ~Passed(i)'
  BY <1>2, Appended DEF Passed
<1>. QED  BY <1>1, <1>2

\* The one tile that may still be won on, if any, is the latest.
LEMMA OnlyTheLatestIsOpen ==
  ASSUME RoundTypeOK, \A i \in Moments : log[i].kind # "hora", NEW k \in Moments
  PROVE  IsRonChance(k) /\ ~Passed(k) <=> k = Latest /\ IsRonChance(k)
<1>0. \A i \in Moments : log[i] \in Entries /\ i \in Nat
  BY DEF RoundTypeOK, Moments
<1>1. Latest \in Nat
  BY LatestFacts DEF RoundTypeOK
<1>2. ASSUME IsRonChance(k), ~Passed(k) PROVE k = Latest
  <2>1. k <= Latest /\ Latest \in Moments /\ log[Latest].kind # "missed"
    BY <1>2, <1>0, <1>1, LatestFacts DEF IsRonChance, Moments
  <2>2. ~ (Latest > k)
    BY <1>2, <2>1 DEF Passed
  <2>. QED  BY <1>0, <1>1, <2>1, <2>2
<1>3. ASSUME k = Latest PROVE ~Passed(k)
  <2>1. \A j \in Moments : j > k => log[j].kind = "missed"
    BY <1>0, <1>1, <1>3, LatestFacts
  <2>. QED  BY <2>1 DEF Passed
<1>. QED  BY <1>2, <1>3

\* A step that lets the tile pass adds it to what is safe against all but its source.
LEMMA PassedSinceGrows ==
  ASSUME RoundInv, RoundSeen, NEW e, Appends(e), e.kind # "hora" => stage.kind # "over",
         NEW p \in Players, NEW since \in SinceMoments(p)
  PROVE  {log'[i].tile : i \in {k \in Moments' : /\ k > since /\ IsRonChance(k)'
                                                 /\ log'[k].actor # p /\ Passed(k)'}}
         = PassedSince(p, since) \cup
             (IF e.kind # "missed" /\ e.kind # "hora" /\ pending_passed_tile # None
                 /\ pending_passed_tile.actor # p
              THEN {pending_passed_tile.tile} ELSE {})
<1> DEFINE Open(k) == k > since /\ IsRonChance(k) /\ log[k].actor # p
<1> DEFINE old == {k \in Moments : Open(k) /\ Passed(k)}
<1> DEFINE new == {k \in Moments' : /\ k > since /\ IsRonChance(k)'
                                    /\ log'[k].actor # p /\ Passed(k)'}
<1>0. RoundTypeOK /\ (e.kind # "hora" => \A i \in Moments : log[i].kind # "hora")
  BY DEF RoundInv, StageFitsLog
<1>1. \A k \in Moments : k \in new <=> Open(k) /\ (Passed(k) \/ e.kind \notin {"missed", "hora"})
  BY Appended, PassedGrows, KindsGrow
<1>2. new \subseteq Moments
  BY Appended, PassedGrows
<1>3. CASE e.kind \in {"missed", "hora"}
  <2>1. new = old
    BY <1>1, <1>2, <1>3
  <2>2. {log'[i].tile : i \in new} = {log[i].tile : i \in old}
    BY <2>1, Appended
  <2>. QED  BY <1>3, <2>2 DEF PassedSince
<1>4. CASE e.kind \notin {"missed", "hora"}
  <2>1. \A k \in Moments : k \in new <=> k \in old \/ (k = Latest /\ Open(k))
    BY <1>0, <1>1, <1>4, OnlyTheLatestIsOpen
  <2>2. CASE Latest # 0 /\ IsRonChance(Latest)
    <3>1. /\ pending_passed_tile # None
          /\ pending_passed_tile = [actor |-> log[Latest].actor, tile |-> log[Latest].tile]
      BY <2>2 DEF RoundInv, ReactionSourceIsCurrent, Latest
    <3>2. Latest \in Moments /\ log[Latest].kind # "missed"
      BY <1>0, <2>2, LatestFacts
    <3>3. log[Latest].actor # p => Latest > since
      <4>1. since # 0 => since \in Moments /\ since <= Latest /\ log[since].actor = p
        BY <1>0, LatestFacts DEF SinceMoments
      <4>. QED  BY <3>2, <4>1, Appended
    <3>4. Open(Latest) <=> pending_passed_tile.actor # p
      BY <2>2, <3>1, <3>3
    <3>5. new = old \cup (IF pending_passed_tile.actor # p THEN {Latest} ELSE {})
      BY <1>2, <2>1, <3>2, <3>4
    <3>6. {log'[i].tile : i \in new}
          = {log[i].tile : i \in old} \cup
              (IF pending_passed_tile.actor # p THEN {log[Latest].tile} ELSE {})
      BY <3>2, <3>5, Appended
    <3>. QED  BY <1>4, <3>1, <3>6 DEF PassedSince
  <2>3. CASE ~(Latest # 0 /\ IsRonChance(Latest))
    <3>1. pending_passed_tile = None
      BY <2>3 DEF RoundInv, ReactionSourceIsCurrent, Latest
    <3>2. 0 \notin Moments
      BY Appended
    <3>3. new = old
      BY <1>2, <2>1, <2>3, <3>2
    <3>4. {log'[i].tile : i \in new} = {log[i].tile : i \in old}
      BY <3>3, Appended
    <3>. QED  BY <3>1, <3>4 DEF PassedSince
  <2>. QED  BY <2>2, <2>3
<1>. QED  BY <1>3, <1>4

\* After the moment itself nothing has passed.
LEMMA NothingPassedSince ==
  ASSUME NEW e, Appends(e), NEW p \in Players, NEW since, since = Len(log) + 1
  PROVE  {log'[i].tile : i \in {k \in Moments' : /\ k > since /\ IsRonChance(k)'
                                                 /\ log'[k].actor # p /\ Passed(k)'}} = {}
<1>1. \A k \in Moments' : ~ (k > since)
  BY Appended
<1>. QED  BY <1>1

------------------------------------------------------------------------------
(* The steps of a round, each with the entry it adds. *)

Draws(e) ==
  /\ e.kind = "tsumo" /\ OnTsumo(e.actor, e.tile)
  /\ stage.kind \in {"draw", "kan", "discarded"} /\ (stage.kind = "kan" => stage.player = e.actor)
  /\ stage' = [kind |-> "turn", player |-> e.actor]
Declares(e) ==
  /\ e.kind = "reach" /\ e = Event("reach", e.actor, Hidden, FALSE) /\ OnReach(e.actor)
  /\ stage.kind = "turn" /\ stage.player = e.actor /\ ~Riichi(e.actor)
  /\ stage' = [kind |-> "declared", player |-> e.actor]
Discards(e) ==
  /\ e.kind = "dahai" /\ e.tile \in Tiles /\ OnDahai(e.actor, e.tile, e.drawn)
  /\ stage.kind \in {"turn", "declared", "called"} /\ stage.player = e.actor
  /\ stage' = [kind |-> "discarded", player |-> e.actor]
Melds(e) ==
  /\ e.kind \in CallKinds /\ Calls(e.actor)
  /\ pending_passed_tile' = IF e.kind = "kakan" THEN PendingTile(e.actor, e.tile) ELSE None
  /\ e.kind = "kakan" => e.tile \in Tiles
  /\ \/ stage.kind = "turn" /\ stage.player = e.actor /\ e.kind # "open"
     \/ stage.kind = "discarded" /\ stage.player # e.actor
  /\ stage' \in [kind : {"kan", "called"}, player : {e.actor}]
  /\ stage'.kind = "called" => e.kind = "open"
Wins(e) ==
  /\ e.kind = "hora" /\ OnHora
  /\ stage.kind = "over" => log # <<>> /\ log[Len(log)].kind = "hora"
  /\ stage.kind \in {"over", "turn", "discarded", "kan"}
  /\ stage' = [kind |-> "over", player |-> e.actor]
Misses(e) ==
  /\ e.kind = "missed" /\ e.actor = Me /\ OnActionResponse(TRUE, FALSE)
  /\ stage.kind \in {"discarded", "kan"} /\ stage.player # Me
  /\ log # <<>> /\ IsRonChance(Len(log))
  /\ stage' = stage

Plays(e) ==
  /\ Appends(e) /\ RoundSeen /\ RoundSeen' /\ seat_id = Me /\ seat_id' = Me
  /\ e.kind # "hora" => stage.kind # "over"
  /\ Draws(e) \/ Declares(e) \/ Discards(e) \/ Melds(e) \/ Wins(e) \/ Misses(e)

Rests ==
  /\ UNCHANGED <<trackerVars, log>>
  /\ stage' = stage \/ (stage' = [stage EXCEPT !.kind = "over"] /\ stage.kind # "over")

\* Before its first start_kyoku nothing happens to the tracker but start_game.
LEMMA BeforeTheRound ==
  ASSUME RoundInv, ~RoundSeen, RoundNext
  PROVE  StartGame \/ \E p \in Players : StartKyoku(p)
<1>1. log = <<>> /\ stage.kind = "over"
  BY DEF RoundInv, StageFitsLog
<1>2. \A kind, p : At(kind, p) => stage.kind = kind
  BY DEF At
<1>3. ~Ryukyoku /\ ~PassWin /\ ~PassOwnDraw
  BY <1>1, <1>2 DEF Ryukyoku, PassWin, PassOwnDraw
<1>4. \A p : ~Reach(p) /\ ~ChiOrPon(p) /\ ~Daiminkan(p) /\ ~Ankan(p) /\ ~Hora(p)
  BY <1>1, <1>2 DEF Reach, ChiOrPon, Daiminkan, Ankan, Hora
<1>5. \A p, pai, tsumogiri : ~Kakan(p, pai) /\ ~Tsumo(p, pai) /\ ~Dahai(p, pai, tsumogiri)
  BY <1>1, <1>2 DEF Kakan, Tsumo, Dahai
<1>. QED  BY <1>3, <1>4, <1>5 DEF RoundNext
LEMMA MeInActors == Me \in Players /\ Players \subseteq Actors /\ Me # None
  BY RoundAssumption, SeatAssumption

\* The handlers keep the two maps of passed tiles known once they are.
LEMMA RoundStaysSeen ==
  ASSUME TypeOK, RoundSeen, NEW actor,
         temporary_passed_tiles' \in {Cleared(Confirmed(temporary_passed_tiles), actor),
                                      Confirmed(temporary_passed_tiles),
                                      temporary_passed_tiles}
  PROVE  RoundSeen'
<1>1. temporary_passed_tiles \in Tracked \cup {None} /\ temporary_passed_tiles # None
  BY DEF TypeOK, RoundSeen
<1>2. /\ Confirmed(temporary_passed_tiles) \in Tracked \cup {None}
      /\ Confirmed(temporary_passed_tiles) # None
  BY <1>1, ConfirmedType, ConfirmedKeepsNone
<1>3. Cleared(Confirmed(temporary_passed_tiles), actor) # None
  BY <1>2, ClearedKeepsNone
<1>. QED  BY <1>1, <1>2, <1>3 DEF RoundSeen

\* Every step of the round is a reset, a rest or a play.
LEMMA RoundSteps ==
  ASSUME TypeOK, RoundInv, RoundNext
  PROVE  \/ StartGame
         \/ \E p \in Players : StartKyoku(p)
         \/ Rests
         \/ \E e \in Entries : Plays(e)
<1> SUFFICES ASSUME ~StartGame, \A p \in Players : ~StartKyoku(p)
             PROVE  Rests \/ \E e \in Entries : Plays(e)
  OBVIOUS
<1>0. RoundSeen /\ RoundTypeOK /\ seat_id = Me
  BY BeforeTheRound DEF RoundInv, StageFitsLog
<1>a. Hidden \in Faces /\ Tiles \subseteq Faces
  BY DEF Faces
<1>b. stage = [kind |-> stage.kind, player |-> stage.player] /\ stage.player \in Players
  BY <1>0 DEF RoundTypeOK
<1>1. CASE Ryukyoku
  BY <1>1 DEF Ryukyoku, Rests
<1>2. CASE PassOwnDraw
  <2>1. own_tsumo_pending_discard
    <3>1. /\ log # <<>> /\ log[Len(log)].kind = "tsumo" /\ log[Len(log)].actor = Me
          /\ log \in Seq(Entries)
      BY <1>0, <1>2 DEF PassOwnDraw, At, RoundInv, StageFitsLog, LastIs, RoundTypeOK
    <3>2. Len(log) \in Moments /\ Len(log) \in Nat
      BY <3>1, EmptySeq DEF Moments
    <3>3. \A k \in Len(log)..Len(log) : ~(log[k].kind = "dahai" /\ log[k].actor = Me)
      BY <3>1, <3>2
    <3>. QED  BY <1>0, <3>1, <3>2, <3>3 DEF RoundInv, OwnDrawIsTracked
  <2>2. history_furiten' = history_furiten
    BY <1>2, <2>1 DEF PassOwnDraw, OnActionResponse, RecordsMissedWin
  <2>. QED  BY <1>2, <2>2 DEF PassOwnDraw, OnActionResponse, Rests, trackerVars, passedVars,
            ownVars, roundVars
<1>3. CASE PassWin
  <2> DEFINE e == Event("missed", Me, Hidden, FALSE)
  <2>1. e.kind = "missed" /\ e.actor = Me /\ e \in Entries
    BY <1>a, MeInActors DEF Event, Entries, Kinds
  <2>2. Appends(e)
    BY <1>0, <1>3, <1>a, MeInActors, RecordAppends DEF PassWin, Kinds
  <2>3. RoundSeen' /\ seat_id' = Me
    BY <1>0, <1>3, RoundStaysSeen DEF PassWin, OnActionResponse, passedVars
  <2>4. Misses(e)
    BY <1>3, <2>1 DEF PassWin, Misses
  <2>. QED  BY <1>0, <2>1, <2>2, <2>3, <2>4 DEF Plays, Misses
<1>4. ASSUME NEW p \in Players, Reach(p) PROVE \E e \in Entries : Plays(e)
  <2> DEFINE e == Event("reach", p, Hidden, FALSE)
  <2>1. e.kind = "reach" /\ e.actor = p /\ e \in Entries
    BY <1>a DEF Event, Entries, Kinds
  <2>2. Appends(e)
    BY <1>0, <1>4, <1>a, RecordAppends DEF Reach, Kinds
  <2>3. RoundSeen' /\ seat_id' = Me
    BY <1>0, <1>4, RoundStaysSeen DEF Reach, OnReach, passedVars
  <2>4. stage.kind = "turn" /\ stage.player = p
    BY <1>4 DEF Reach, At
  <2>5. Declares(e)
    BY <1>4, <2>1, <2>4 DEF Reach, Declares, Go
  <2>. QED  BY <1>0, <2>1, <2>2, <2>3, <2>4, <2>5 DEF Plays
<1>5. ASSUME NEW p \in Players, ChiOrPon(p) \/ Daiminkan(p) PROVE \E e \in Entries : Plays(e)
  <2> DEFINE e == Event("open", p, Hidden, FALSE)
  <2>1. e.kind = "open" /\ e.actor = p /\ e.tile = Hidden /\ e \in Entries
    BY <1>a DEF Event, Entries, Kinds
  <2>2. Appends(e)
    BY <1>0, <1>5, <1>a, RecordAppends DEF ChiOrPon, Daiminkan, Kinds
  <2>3. OnCall(p)
    BY <1>5 DEF ChiOrPon, Daiminkan
  <2>4. RoundSeen' /\ seat_id' = Me
    BY <1>0, <2>3, RoundStaysSeen DEF OnCall, Calls
  <2>5. stage.kind = "discarded" /\ stage.player # p
    <3>1. PICK q \in Players \ {p} : stage = [kind |-> "discarded", player |-> q]
      BY <1>5 DEF ChiOrPon, Daiminkan, At
    <3>. QED  BY <3>1
  <2>6. stage' \in [kind : {"kan", "called"}, player : {p}]
    <3>1. \/ stage' = [kind |-> "called", player |-> p]
          \/ stage' = [kind |-> "kan", player |-> p]
      BY <1>5 DEF ChiOrPon, Daiminkan, Go
    <3>. QED  BY <3>1
  <2>7. Melds(e)
    BY <2>1, <2>3, <2>5, <2>6 DEF Melds, OnCall, CallKinds
  <2>. QED  BY <1>0, <2>1, <2>2, <2>4, <2>5, <2>7 DEF Plays
<1>6. ASSUME NEW p \in Players, Ankan(p) PROVE \E e \in Entries : Plays(e)
  <2> DEFINE e == Event("ankan", p, Hidden, FALSE)
  <2>1. e.kind = "ankan" /\ e.actor = p /\ e.tile = Hidden /\ e \in Entries
    BY <1>a DEF Event, Entries, Kinds
  <2>2. Appends(e)
    BY <1>0, <1>6, <1>a, RecordAppends DEF Ankan, Kinds
  <2>4. RoundSeen' /\ seat_id' = Me
    BY <1>0, <1>6, RoundStaysSeen DEF Ankan, OnCall, Calls
  <2>5. stage = [kind |-> "turn", player |-> p] /\ stage' = [kind |-> "kan", player |-> p]
    BY <1>6 DEF Ankan, At, Go
  <2>7. Melds(e)
    BY <1>6, <2>1, <2>5 DEF Ankan, Melds, OnCall, CallKinds
  <2>. QED  BY <1>0, <2>1, <2>2, <2>4, <2>5, <2>7 DEF Plays
<1>7. ASSUME NEW p \in Players, NEW pai \in Tiles, Kakan(p, pai)
      PROVE  \E e \in Entries : Plays(e)
  <2> DEFINE e == Event("kakan", p, pai, FALSE)
  <2>1. e.kind = "kakan" /\ e.actor = p /\ e.tile = pai /\ e \in Entries
    BY <1>a DEF Event, Entries, Kinds
  <2>2. Appends(e)
    BY <1>0, <1>7, <1>a, RecordAppends DEF Kakan, Kinds
  <2>4. RoundSeen' /\ seat_id' = Me
    BY <1>0, <1>7, RoundStaysSeen DEF Kakan, OnKakan, Calls
  <2>5. stage = [kind |-> "turn", player |-> p] /\ stage' = [kind |-> "kan", player |-> p]
    BY <1>7 DEF Kakan, At, Go
  <2>7. Melds(e)
    BY <1>7, <2>1, <2>5 DEF Kakan, Melds, OnKakan, CallKinds
  <2>. QED  BY <1>0, <2>1, <2>2, <2>4, <2>5, <2>7 DEF Plays
<1>8. ASSUME NEW p \in Players, Hora(p) PROVE \E e \in Entries : Plays(e)
  <2> DEFINE e == Event("hora", p, Hidden, FALSE)
  <2>1. e.kind = "hora" /\ e.actor = p /\ e \in Entries
    BY <1>a DEF Event, Entries, Kinds
  <2>2. Appends(e)
    BY <1>0, <1>8, <1>a, RecordAppends DEF Hora, Kinds
  <2>3. RoundSeen' /\ seat_id' = Me
    BY <1>0, <1>8, RoundStaysSeen DEF Hora, OnHora, passedVars
  <2>4. Wins(e)
    <3>1. At("turn", p) => stage.kind = "turn"
      BY DEF At
    <3>2. /\ stage.kind = "over" => log # <<>> /\ log[Len(log)].kind = "hora"
          /\ stage.kind \in {"over", "turn", "discarded", "kan"}
      BY <1>8, <3>1 DEF Hora
    <3>. QED  BY <1>8, <2>1, <3>2 DEF Hora, Wins, Go
  <2>. QED  BY <1>0, <2>1, <2>2, <2>3, <2>4 DEF Plays
<1>9. ASSUME NEW p \in Players, NEW pai \in Faces, Tsumo(p, pai)
      PROVE  \E e \in Entries : Plays(e)
  <2> DEFINE e == Event("tsumo", p, pai, FALSE)
  <2>1. e.kind = "tsumo" /\ e.actor = p /\ e.tile = pai /\ e \in Entries
    BY DEF Event, Entries, Kinds
  <2>2. Appends(e)
    BY <1>0, <1>9, RecordAppends DEF Tsumo, Kinds
  <2>3. RoundSeen' /\ seat_id' = Me
    BY <1>0, <1>9, RoundStaysSeen DEF Tsumo, OnTsumo
  <2>4. stage.kind \in {"draw", "kan", "discarded"} /\ (stage.kind = "kan" => stage.player = p)
    <3>1. At("draw", p) => stage.kind = "draw"
      BY DEF At
    <3>2. At("kan", p) => stage.kind = "kan" /\ stage.player = p
      BY DEF At
    <3>3. \A q : At("discarded", q) => stage.kind = "discarded"
      BY DEF At
    <3>. QED  BY <1>9, <3>1, <3>2, <3>3 DEF Tsumo
  <2>5. Draws(e)
    BY <1>9, <2>1, <2>4 DEF Tsumo, Draws, Go
  <2>. QED  BY <1>0, <2>1, <2>2, <2>3, <2>4, <2>5 DEF Plays
<1>10. ASSUME NEW p \in Players, NEW pai \in Tiles, NEW tsumogiri \in BOOLEAN,
              Dahai(p, pai, tsumogiri)
       PROVE  \E e \in Entries : Plays(e)
  <2> DEFINE e == Event("dahai", p, pai, tsumogiri)
  <2>1. e.kind = "dahai" /\ e.actor = p /\ e.tile = pai /\ e.drawn = tsumogiri /\ e \in Entries
    BY <1>a DEF Event, Entries, Kinds
  <2>2. Appends(e)
    BY <1>0, <1>10, <1>a, RecordAppends DEF Dahai, Kinds
  <2>3. RoundSeen' /\ seat_id' = Me
    BY <1>0, <1>10, RoundStaysSeen DEF Dahai, OnDahai
  <2>4. stage.kind \in {"turn", "declared", "called"} /\ stage.player = p
    BY <1>10 DEF Dahai, At
  <2>5. Discards(e)
    BY <1>10, <2>1, <2>4 DEF Dahai, Discards, Go
  <2>. QED  BY <1>0, <2>1, <2>2, <2>3, <2>4, <2>5 DEF Plays
<1>. QED  BY <1>1, <1>2, <1>3, <1>4, <1>5, <1>6, <1>7, <1>8, <1>9, <1>10 DEF RoundNext

------------------------------------------------------------------------------
(* The resets and the rests. *)

LEMMA RoundInvInit == RoundInit => RoundInv
<1> SUFFICES ASSUME RoundInit PROVE RoundInv
  OBVIOUS
<1>1. ~RoundSeen /\ log = <<>> /\ stage.kind = "over"
  BY DEF RoundInit, Init, RoundSeen
<1>2. RoundTypeOK
  BY MeInActors DEF RoundInit, Init, RoundTypeOK, StageKinds
<1>3. StageFitsLog
  BY <1>1 DEF StageFitsLog, Moments
<1>. QED  BY <1>1, <1>2, <1>3 DEF RoundInv, FirstTurnIsTracked, OwnDrawIsTracked, RiichiIsTracked,
          IppatsuIsTracked, PassedTilesAreTracked, FuritenIsTracked, ReactionSourceIsCurrent

LEMMA StartGameKeeps ==
  ASSUME RoundInv, StartGame
  PROVE  RoundInv'
<1>1. log' = <<>> /\ stage' = stage /\ stage.kind = "over" /\ RoundTypeOK
  BY MeInActors DEF RoundInv, StageFitsLog, StartGame, roundVars
<1>2. ~RoundSeen'
  BY DEF StartGame, OnStartGame, RoundSeen
<1>3. RoundTypeOK'
  BY <1>1 DEF StartGame, OnStartGame, RoundTypeOK
<1>4. StageFitsLog'
  BY <1>1, <1>2 DEF StageFitsLog, Moments
<1>. QED  BY <1>2, <1>3, <1>4 DEF RoundInv, FirstTurnIsTracked, OwnDrawIsTracked, RiichiIsTracked,
          IppatsuIsTracked, PassedTilesAreTracked, FuritenIsTracked, ReactionSourceIsCurrent

\* start_kyoku forgets all it must: nothing of the last round is left to be wrong.
LEMMA StartKyokuKeeps ==
  ASSUME RoundInv, NEW dealer \in Players, StartKyoku(dealer)
  PROVE  RoundInv'
<1>1. /\ log' = <<>> /\ stage' = [kind |-> "draw", player |-> dealer]
      /\ RoundTypeOK /\ seat_id' = seat_id /\ seat_id = Me
  BY DEF RoundInv, RoundTypeOK, StartKyoku, OnStartKyoku, Go
<1>2. Moments' = {}
  BY <1>1 DEF Moments
<1>3. RoundTypeOK' /\ StageFitsLog'
  <2>1. RoundTypeOK'
    BY <1>1 DEF RoundTypeOK, StageKinds
  <2>2. stage'.kind = "draw"
    BY <1>1
  <2>3. StageFitsLog'
    BY <1>1, <1>2, <2>2, TrackedIsSome DEF StageFitsLog, StartKyoku, OnStartKyoku, RoundSeen
  <2>. QED  BY <2>1, <2>3
<1>4. FirstTurnIsTracked'
  BY <1>2 DEF StartKyoku, OnStartKyoku, FirstTurnActive, FirstTurnIsTracked, Discarders
<1>5. OwnDrawIsTracked'
  BY <1>2 DEF StartKyoku, OnStartKyoku, OwnDrawIsTracked
<1>6. \A p \in Players : (RiichiDiscards(p))' = {}
  BY <1>2 DEF RiichiDiscards
<1>7. RiichiIsTracked'
  BY <1>1, <1>6 DEF StartKyoku, OnStartKyoku, ResetReach, RiichiIsTracked, Riichi
<1>8. IppatsuIsTracked'
  BY <1>6 DEF StartKyoku, OnStartKyoku, NoIppatsu, IppatsuIsTracked, HasIppatsu, FactOf
<1>9. PassedTilesAreTracked'
  BY <1>2 DEF StartKyoku, OnStartKyoku, ResetReach, NobodyTracked, PassedTilesAreTracked, PassedSince
<1>10. FuritenIsTracked'
  BY <1>2 DEF StartKyoku, OnStartKyoku, NoFuriten, FuritenIsTracked, MissedWins, FactOf
<1>11. ReactionSourceIsCurrent'
  BY <1>2 DEF StartKyoku, OnStartKyoku, ResetReach, ReactionSourceIsCurrent, LastMoment
<1>. QED  BY <1>3, <1>4, <1>5, <1>7, <1>8, <1>9, <1>10, <1>11 DEF RoundInv

LEMMA RestKeeps ==
  ASSUME RoundInv, Rests
  PROVE  RoundInv'
<1>1. /\ UNCHANGED <<trackerVars, log>> /\ stage'.player = stage.player
      /\ stage'.kind \in {stage.kind, "over"} /\ stage' \in [kind : StageKinds, player : Players]
  BY DEF RoundInv, RoundTypeOK, Rests, StageKinds
<1> USE <1>1 DEF trackerVars, reachVars, passedVars, ownVars
<1>2. (RoundSeen' <=> RoundSeen) /\ Moments' = Moments
  BY DEF RoundSeen, Moments
<1>3. \A i : (IsCall(i)' <=> IsCall(i)) /\ (IsRonChance(i)' <=> IsRonChance(i))
  BY DEF IsCall, IsRonChance
<1>4. \A p : RiichiDiscards(p)' = RiichiDiscards(p)
  BY <1>2 DEF RiichiDiscards
<1>5. \A i : Passed(i)' <=> Passed(i)
  BY <1>2 DEF Passed
<1>6. RoundTypeOK'
  BY DEF RoundInv, RoundTypeOK
<1>a. \A p : /\ (HasIppatsu(p)' <=> HasIppatsu(p)) /\ (WasDoubleRiichi(p)' <=> WasDoubleRiichi(p))
             /\ (Riichi(p)' <=> Riichi(p))
  BY <1>2, <1>3, <1>4 DEF HasIppatsu, WasDoubleRiichi, Riichi
<1>b. Latest' = Latest
  BY <1>2 DEF Latest, LastMoment
<1>7. StageFitsLog'
  <2> USE DEF RoundInv, StageFitsLog
  <2>1. /\ ~RoundSeen' => log' = <<>> /\ stage'.kind = "over"
        /\ RoundSeen' => seat_id' = Me
        /\ \A i \in Moments' : log'[i].kind = "hora" => stage'.kind = "over"
        /\ stage'.kind = "draw" => log' = <<>>
    BY <1>2
  <2>2. /\ stage'.kind = "turn" => LastIs("tsumo")'
        /\ stage'.kind = "called" => LastIs("open")'
        /\ stage'.kind = "discarded" =>
             /\ Latest' # 0 /\ log'[Latest'].kind = "dahai" /\ log'[Latest'].actor = stage'.player
        /\ stage'.kind = "kan" =>
             /\ Latest' # 0 /\ log'[Latest'].kind \in CallKinds /\ log'[Latest'].actor = stage'.player
    BY <1>b DEF LastIs
  <2>3. stage'.kind = "declared" =>
           /\ log' # <<>> /\ log'[Len(log')] = Event("reach", stage'.player, Hidden, FALSE)
           /\ ~Riichi(stage.player)'
    BY <1>a DEF Event
  <2>. QED  BY <2>1, <2>2, <2>3, <1>1
<1>8. FirstTurnIsTracked'
  BY <1>2, <1>3 DEF RoundInv, FirstTurnIsTracked, Discarders
<1>9. OwnDrawIsTracked'
  BY <1>2 DEF RoundInv, OwnDrawIsTracked
<1>10. RiichiIsTracked'
  BY <1>2, <1>4, <1>a DEF RoundInv, RiichiIsTracked, Riichi, FactOf
<1>11. IppatsuIsTracked'
  BY <1>2, <1>a DEF RoundInv, IppatsuIsTracked, FactOf
<1>12. PassedTilesAreTracked'
  <2>1. \A p : /\ LastDrawOrCall(p)' = LastDrawOrCall(p)
               /\ LastHandChange(p)' = LastHandChange(p)
    BY <1>2, <1>3 DEF LastDrawOrCall, LastHandChange, LastMoment
  <2>2. \A p, since : PassedSince(p, since)' = PassedSince(p, since)
    BY <1>2, <1>3, <1>5 DEF PassedSince
  <2>. QED  BY <1>2, <1>4, <2>1, <2>2 DEF RoundInv, PassedTilesAreTracked
<1>13. FuritenIsTracked'
  <2>1. MissedWins' = MissedWins /\ DrawDiscards' = DrawDiscards
    BY <1>2 DEF MissedWins, DrawDiscards
  <2>. QED  BY <1>2, <1>4, <2>1 DEF RoundInv, FuritenIsTracked, FactOf
<1>14. ReactionSourceIsCurrent'
  BY <1>2, <1>3 DEF RoundInv, ReactionSourceIsCurrent, LastMoment
<1>. QED  BY <1>6, <1>7, <1>8, <1>9, <1>10, <1>11, <1>12, <1>13, <1>14 DEF RoundInv

------------------------------------------------------------------------------
(* The plays, one conjunct of the invariant at a time. *)

LEMMA PlayTypes ==
  ASSUME RoundInv, NEW e \in Entries, Plays(e)
  PROVE  /\ RoundTypeOK /\ RoundTypeOK'
         /\ e.kind \in Kinds /\ e.actor \in Players /\ e.tile \in Faces /\ e.drawn \in BOOLEAN
         /\ stage.kind \in StageKinds /\ stage.player \in Players
<1>1. RoundTypeOK /\ e.kind \in Kinds /\ e.actor \in Players /\ e.tile \in Faces /\ e.drawn \in BOOLEAN
  BY DEF RoundInv, Entries
<1>2. stage.kind \in StageKinds /\ stage.player \in Players /\ stage \in [kind : StageKinds, player : Players]
  BY <1>1 DEF RoundTypeOK
<1>3. stage' \in [kind : StageKinds, player : Players]
  <2>1. CASE Draws(e)
    BY <1>1, <2>1 DEF Draws, StageKinds
  <2>2. CASE Declares(e)
    BY <1>1, <2>2 DEF Declares, StageKinds
  <2>3. CASE Discards(e)
    BY <1>1, <2>3 DEF Discards, StageKinds
  <2>4. CASE Melds(e)
    BY <1>1, <2>4 DEF Melds, StageKinds
  <2>5. CASE Wins(e)
    BY <1>1, <2>5 DEF Wins, StageKinds
  <2>6. CASE Misses(e)
    BY <1>2, <2>6 DEF Misses
  <2>. QED  BY <2>1, <2>2, <2>3, <2>4, <2>5, <2>6 DEF Plays
<1>4. log' \in Seq(Entries) /\ seat_id' = Me
  BY Appended DEF Plays
<1>. QED  BY <1>1, <1>2, <1>3, <1>4 DEF RoundTypeOK

LEMMA StageFits ==
  ASSUME RoundInv, NEW e \in Entries, Plays(e)
  PROVE  StageFitsLog'
<1>0. /\ Appends(e) /\ RoundSeen /\ RoundSeen' /\ seat_id' = Me /\ RoundTypeOK /\ StageFitsLog
      /\ e.actor \in Players /\ e.kind \in Kinds /\ stage.player \in Players
  BY PlayTypes DEF RoundInv, Plays
<1>1. Latest' = (IF e.kind = "missed" THEN Latest ELSE Len(log) + 1)
  BY <1>0, LatestGrows
<1>2. /\ log' # <<>> /\ log'[Len(log')] = e /\ log'[Len(log) + 1] = e /\ Len(log) \in Nat
      /\ Moments' = 1..(Len(log) + 1) /\ Moments = 1..Len(log)
      /\ \A i \in 1..Len(log) : log'[i] = log[i]
  BY <1>0, Appended
<1>3. \A i \in Moments' : log'[i].kind = "hora" => stage'.kind = "over"
  <2>1. e.kind # "hora" => \A i \in Moments : log[i].kind # "hora"
    BY <1>0 DEF StageFitsLog, Plays
  <2>2. e.kind = "hora" => stage'.kind = "over"
    BY DEF Plays, Draws, Declares, Discards, Melds, Wins, Misses, Event, CallKinds
  <2>. QED  BY <1>2, <2>1, <2>2
<1> DEFINE Fits ==
      /\ stage'.kind # "draw"
      /\ stage'.kind = "turn" => LastIs("tsumo")'
      /\ stage'.kind = "called" => LastIs("open")'
      /\ stage'.kind = "declared" =>
           /\ log'[Len(log')] = Event("reach", stage'.player, Hidden, FALSE)
           /\ RiichiDiscards(e.actor)' = {} /\ stage'.player = e.actor
      /\ stage'.kind = "discarded" =>
           /\ Latest' # 0 /\ log'[Latest'].kind = "dahai" /\ log'[Latest'].actor = stage'.player
      /\ stage'.kind = "kan" =>
           /\ Latest' # 0 /\ log'[Latest'].kind \in CallKinds /\ log'[Latest'].actor = stage'.player
<1>4. Fits
  <2>1. CASE Draws(e)
    BY <1>0, <1>2, <2>1 DEF Draws, LastIs
  <2>2. CASE Declares(e)
    <3>1. e.kind = "reach"
      BY <2>2 DEF Declares, Event
    <3>2. RiichiDiscards(e.actor)' = {}
      BY <1>0, <2>2, <3>1, RiichiDiscardsGrow DEF Declares, Riichi, Completes
    <3>. QED  BY <1>2, <2>2, <3>2 DEF Declares
  <2>3. CASE Discards(e)
    BY <1>1, <1>2, <2>3 DEF Discards
  <2>4. CASE Melds(e)
    <3>1. /\ stage'.kind \in {"kan", "called"} /\ stage'.player = e.actor
          /\ stage'.kind = "called" => e.kind = "open"
          /\ e.kind \in CallKinds
      BY <2>4 DEF Melds
    <3>2. Latest' = Len(log) + 1
      BY <1>1, <3>1 DEF CallKinds
    <3>3. Latest' # 0 /\ log'[Latest'] = e
      BY <1>2, <3>2
    <3>4. LastIs("open")' <=> e.kind = "open" /\ e.actor = stage'.player
      BY <1>2 DEF LastIs
    <3>. QED  BY <3>1, <3>3, <3>4
  <2>5. CASE Wins(e)
    BY <2>5 DEF Wins
  <2>6. CASE Misses(e)
    <3>1. Latest # 0 => log'[Latest] = log[Latest]
      BY <1>0, <1>2, LatestFacts
    <3>. QED  BY <1>0, <1>1, <2>6, <3>1 DEF Misses, StageFitsLog
  <2>. QED  BY <2>1, <2>2, <2>3, <2>4, <2>5, <2>6 DEF Plays
<1>5. stage'.kind = "declared" => ~Riichi(stage.player)'
  BY <1>4 DEF Riichi
<1>. QED  BY <1>0, <1>2, <1>3, <1>4, <1>5 DEF StageFitsLog

\* Between a declaration and its discard nothing else is played.
LEMMA OnlyTheDiscardIsPending ==
  ASSUME TypeOK, RoundInv, NEW e \in Entries, Plays(e), NEW p \in Players
  PROVE  /\ pending_reach[p] \in BOOLEAN
         /\ pending_reach[p] => /\ Discards(e) /\ p = e.actor /\ stage.kind = "declared"
                                /\ ~Riichi(p)
         /\ Discards(e) => (pending_reach[p] /\ p = e.actor <=> Completes(e, p))
         /\ ~Discards(e) => ~Completes(e, p)
<1>0. /\ Appends(e) /\ RoundSeen /\ RoundTypeOK /\ StageFitsLog
      /\ pending_reach[p] \in BOOLEAN
      /\ pending_reach[p] <=> log # <<>> /\ log[Len(log)] = Event("reach", p, Hidden, FALSE)
  BY DEF RoundInv, Plays, TypeOK, RiichiIsTracked
<1>1. Len(log) \in Nat /\ Moments = 1..Len(log) /\ (log # <<>> => Len(log) \in Moments)
  BY <1>0, Appended, EmptySeq DEF Appends
<1>2. ASSUME pending_reach[p]
      PROVE  Discards(e) /\ p = e.actor /\ stage.kind = "declared" /\ ~Riichi(p)
  <2>1. log # <<>> /\ log[Len(log)] = Event("reach", p, Hidden, FALSE)
    BY <1>0, <1>2
  <2>2. log[Len(log)].kind = "reach" /\ log[Len(log)].actor = p
    BY <2>1 DEF Event
  <2>3. Latest = Len(log)
    <3>1. Len(log) <= Latest /\ Latest \in 0..Len(log)
      BY <1>0, <1>1, <2>1, <2>2, LatestFacts
    <3>. QED  BY <1>1, <3>1
  <2>4. stage.kind \notin {"draw", "turn", "called", "discarded", "kan"}
    BY <1>0, <2>1, <2>2, <2>3 DEF StageFitsLog, LastIs, CallKinds
  <2>5. ~Draws(e) /\ ~Declares(e) /\ ~Melds(e) /\ ~Wins(e) /\ ~Misses(e)
    <3>1. ~Draws(e) /\ ~Misses(e)
      BY <2>2, <2>4 DEF Draws, Misses, IsRonChance
    <3>2. ~Declares(e)
      BY <2>4 DEF Declares
    <3>3. ~Wins(e)
      BY <2>2, <2>4 DEF Wins
    <3>4. ~Melds(e)
      BY <2>4 DEF Melds
    <3>. QED  BY <3>1, <3>2, <3>3, <3>4
  <2>6. stage.kind = "declared" /\ stage.player = e.actor /\ Discards(e)
    BY <2>4, <2>5 DEF Plays, Discards
  <2>7. log[Len(log)] = Event("reach", stage.player, Hidden, FALSE) /\ ~Riichi(stage.player)
    BY <1>0, <2>6 DEF StageFitsLog
  <2>. QED  BY <2>2, <2>6, <2>7 DEF Event
<1>3. Discards(e) => (pending_reach[p] /\ p = e.actor <=> Completes(e, p))
  BY <1>0 DEF Discards, Completes
<1>4. ~Discards(e) => ~Completes(e, p)
  BY DEF Plays, Draws, Declares, Melds, Wins, Misses, Completes, CallKinds, Event
<1>. QED  BY <1>0, <1>2, <1>3, <1>4

LEMMA RiichiStaysTracked ==
  ASSUME TypeOK, RoundInv, NEW e \in Entries, Plays(e)
  PROVE  RiichiIsTracked'
<1> SUFFICES ASSUME NEW p \in Players
             PROVE  /\ pending_reach'[p] = (log' # <<>> /\ log'[Len(log')] = Event("reach", p, Hidden, FALSE))
                    /\ active_reach'[p] = Riichi(p)'
                    /\ declared_double_riichi'[p] =
                         IF Riichi(p)' THEN FactOf(WasDoubleRiichi(p)') ELSE "unknown"
  BY DEF RiichiIsTracked
<1>0. /\ Appends(e) /\ RoundTypeOK /\ e.actor \in Players /\ e \in Entries
      /\ log' # <<>> /\ log'[Len(log')] = e /\ Moments = 1..Len(log)
  BY PlayTypes, Appended DEF Plays
<1>1. /\ active_reach[p] = Riichi(p) /\ active_reach[p] \in BOOLEAN
      /\ declared_double_riichi[p] = IF Riichi(p) THEN FactOf(WasDoubleRiichi(p)) ELSE "unknown"
  BY DEF RoundInv, RiichiIsTracked, Plays, TypeOK
<1>2. Riichi(p)' <=> Riichi(p) \/ Completes(e, p)
  BY <1>0, RiichiDiscardsGrow DEF Riichi
<1>3. CASE Discards(e)
  <2>0. e.kind = "dahai" /\ OnDahai(e.actor, e.tile, e.drawn)
    BY <1>3 DEF Discards
  <2>1. pending_reach'[p] = FALSE /\ e # Event("reach", p, Hidden, FALSE)
    <3>1. pending_reach'[p] = (pending_reach[p] /\ ~Establishes(p, e.actor))
      BY <2>0 DEF OnDahai
    <3>2. pending_reach[p] => p = e.actor
      BY OnlyTheDiscardIsPending
    <3>3. e # Event("reach", p, Hidden, FALSE)
      BY <2>0 DEF Event
    <3>. QED  BY <3>1, <3>2, <3>3 DEF Establishes
  <2>2. Establishes(p, e.actor) <=> Completes(e, p)
    BY <1>3, OnlyTheDiscardIsPending DEF Establishes
  <2>3. active_reach'[p] = Riichi(p)'
    BY <1>1, <1>2, <2>0, <2>2 DEF OnDahai, Riichi
  <2>4. CASE ~Completes(e, p)
    <3>1. WasDoubleRiichi(p)' <=> WasDoubleRiichi(p)
      BY <1>0, <2>4, DoubleRiichiGrows
    <3>2. declared_double_riichi'[p] = declared_double_riichi[p]
      BY <2>0, <2>2, <2>4 DEF OnDahai
    <3>. QED  BY <1>0, <1>1, <1>2, <2>1, <2>3, <2>4, <3>1, <3>2 DEF FactOf
  <2>5. CASE Completes(e, p)
    <3>1. p = e.actor /\ RiichiDiscards(p) = {}
      BY <1>3, <2>2, <2>5, OnlyTheDiscardIsPending DEF Riichi, Completes
    <3>2. WasDoubleRiichi(p)' <=>
            \A i \in Moments : ~IsCall(i) /\ ~(log[i].kind = "dahai" /\ log[i].actor = p)
      BY <1>0, <2>5, <3>1, DoubleRiichiGrows
    <3>3. FirstTurnIsTracked /\ RoundSeen
      BY DEF RoundInv, Plays
    <3>4. ASSUME first_turn.kind = "Active"
          PROVE  DeclaresDoubleRiichi(first_turn, p) = FactOf(WasDoubleRiichi(p)')
      <4>1. (\A i \in Moments : ~IsCall(i)) /\ first_turn.discarded = Discarders
        BY <3>3, <3>4 DEF FirstTurnIsTracked
      <4>2. p \in Players \ Discarders <=> WasDoubleRiichi(p)'
        BY <3>2, <4>1 DEF Discarders
      <4>. QED  BY <3>4, <4>1, <4>2 DEF DeclaresDoubleRiichi, FactOf
    <3>5. ASSUME first_turn.kind = "Ended"
          PROVE  DeclaresDoubleRiichi(first_turn, p) = FactOf(WasDoubleRiichi(p)')
      <4>1. (\E i \in Moments : IsCall(i)) \/ Discarders = Players
        BY <3>3, <3>5 DEF FirstTurnIsTracked
      <4>2. ~WasDoubleRiichi(p)'
        BY <3>2, <4>1 DEF Discarders
      <4>. QED  BY <3>5, <4>2 DEF DeclaresDoubleRiichi, FactOf
    <3>6. DeclaresDoubleRiichi(first_turn, p) = FactOf(WasDoubleRiichi(p)')
      BY <3>3, <3>4, <3>5 DEF FirstTurnIsTracked
    <3>7. declared_double_riichi'[p] = DeclaresDoubleRiichi(first_turn, p)
      BY <2>0, <2>2, <2>5 DEF OnDahai
    <3>. QED  BY <1>0, <1>2, <2>1, <2>3, <2>5, <3>6, <3>7
  <2>. QED  BY <2>4, <2>5
<1>4. CASE ~Discards(e)
  <2>1. ~Completes(e, p) /\ ~pending_reach[p]
    BY <1>4, OnlyTheDiscardIsPending
  <2>2. /\ active_reach' = active_reach /\ declared_double_riichi' = declared_double_riichi
        /\ pending_reach' = IF Declares(e) THEN [q \in Players |-> q = e.actor \/ pending_reach[q]]
                            ELSE pending_reach
    BY <1>4 DEF Plays, Draws, OnTsumo, Declares, OnReach, Melds, Calls, Wins, OnHora, Misses,
       OnActionResponse, reachVars, CallKinds
  <2>3. WasDoubleRiichi(p)' <=> WasDoubleRiichi(p)
    BY <1>0, <2>1, DoubleRiichiGrows
  <2>4. pending_reach'[p] = (e = Event("reach", p, Hidden, FALSE))
    <3>1. CASE Declares(e)
      <4>1. e = Event("reach", e.actor, Hidden, FALSE)
        BY <3>1 DEF Declares
      <4>2. e = Event("reach", p, Hidden, FALSE) <=> p = e.actor
        BY <4>1 DEF Event
      <4>. QED  BY <2>1, <2>2, <3>1, <4>2
    <3>2. CASE ~Declares(e)
      <4>1. e.kind # "reach"
        BY <1>4, <3>2 DEF Plays, Draws, Melds, Wins, Misses, CallKinds
      <4>2. e # Event("reach", p, Hidden, FALSE)
        BY <4>1 DEF Event
      <4>3. pending_reach[p] = FALSE
        BY <2>1, OnlyTheDiscardIsPending
      <4>. QED  BY <2>2, <3>2, <4>2, <4>3
    <3>. QED  BY <3>1, <3>2
  <2>. QED  BY <1>0, <1>1, <1>2, <2>1, <2>2, <2>3, <2>4 DEF Riichi, FactOf
<1>. QED  BY <1>3, <1>4

LEMMA IppatsuStaysTracked ==
  ASSUME TypeOK, RoundInv, NEW e \in Entries, Plays(e)
  PROVE  IppatsuIsTracked'
<1> SUFFICES ASSUME NEW p \in Players PROVE ippatsu'[p] = FactOf(HasIppatsu(p)')
  BY DEF IppatsuIsTracked
<1>1. Appends(e) /\ ippatsu[p] = FactOf(HasIppatsu(p)) /\ ippatsu \in [Players -> Fact]
  BY DEF RoundInv, IppatsuIsTracked, Plays, TypeOK
<1>2. HasIppatsu(p)' <=>
        \/ Completes(e, p)
        \/ HasIppatsu(p) /\ e.kind \notin CallKinds /\ ~(e.kind = "tsumo" /\ e.actor = p)
  BY <1>1, IppatsuGrows
<1>3. CASE Discards(e)
  <2>1. Establishes(p, e.actor) <=> Completes(e, p)
    BY <1>3, OnlyTheDiscardIsPending DEF Establishes
  <2>2. ippatsu'[p] = IF Completes(e, p) THEN "yes" ELSE ippatsu[p]
    BY <1>3, <2>1 DEF Discards, OnDahai
  <2>3. e.kind \notin CallKinds /\ e.kind # "tsumo"
    BY <1>3 DEF Discards, CallKinds
  <2>. QED  BY <1>1, <1>2, <2>2, <2>3 DEF FactOf
<1>4. CASE Draws(e)
  <2>1. ippatsu'[p] = IF p = e.actor THEN "no" ELSE ippatsu[p]
    BY <1>4 DEF Draws, OnTsumo, IppatsuAfterDraw
  <2>2. ~Completes(e, p) /\ e.kind = "tsumo"
    BY <1>4 DEF Draws, Completes
  <2>. QED  BY <1>1, <1>2, <2>1, <2>2 DEF FactOf, CallKinds
<1>5. CASE Melds(e)
  <2>1. ippatsu'[p] = "no" /\ e.kind \in CallKinds /\ ~Completes(e, p)
    BY <1>5 DEF Melds, Calls, NoIppatsu, Completes, CallKinds
  <2>. QED  BY <1>2, <2>1 DEF FactOf
<1>6. CASE Declares(e) \/ Wins(e) \/ Misses(e)
  <2>1. ippatsu' = ippatsu
    BY <1>6 DEF Declares, OnReach, Wins, OnHora, Misses, OnActionResponse
  <2>2. e.kind \in {"reach", "hora", "missed"}
    BY <1>6 DEF Declares, Wins, Misses
  <2>3. e.kind \notin CallKinds /\ e.kind # "tsumo" /\ ~Completes(e, p)
    BY <2>2 DEF CallKinds, Completes
  <2>. QED  BY <1>1, <1>2, <2>1, <2>3 DEF FactOf
<1>. QED  BY <1>3, <1>4, <1>5, <1>6 DEF Plays

LEMMA FirstTurnStaysTracked ==
  ASSUME TypeOK, RoundInv, NEW e \in Entries, Plays(e)
  PROVE  FirstTurnIsTracked'
<1>1. Appends(e) /\ RoundSeen /\ FirstTurnIsTracked /\ first_turn \in FirstTurns /\ e.actor \in Players
  BY PlayTypes DEF RoundInv, Plays, TypeOK
<1>2. Discarders' = Discarders \cup (IF e.kind = "dahai" THEN {e.actor} ELSE {})
  <2>1. \A q \in Players : q \in Discarders' <=>
          q \in Discarders \/ (e.kind = "dahai" /\ e.actor = q)
    BY <1>1, Appended DEF Discarders
  <2>2. Discarders' \subseteq Players /\ Discarders \subseteq Players
    BY DEF Discarders
  <2>. QED  BY <1>1, <2>1, <2>2
<1>3. (\E i \in Moments' : IsCall(i)') <=> (\E i \in Moments : IsCall(i)) \/ e.kind \in CallKinds
  BY <1>1, Appended DEF IsCall, CallKinds
<1>4. CASE Discards(e)
  <2>1. e.kind = "dahai" /\ first_turn' = FirstTurnAfterDahai(first_turn, e.actor)
        /\ Discarders' = Discarders \cup {e.actor}
    BY <1>2, <1>4 DEF Discards, OnDahai
  <2>2. CASE first_turn.kind = "Active"
    <3>1. first_turn.discarded \cup ({e.actor} \cap Players) = Discarders'
      BY <1>1, <2>1, <2>2 DEF FirstTurnIsTracked
    <3>2. first_turn' = IF Discarders' = Players THEN FirstTurnEnded ELSE FirstTurnActive(Discarders')
      BY <2>1, <2>2, <3>1 DEF FirstTurnAfterDahai
    <3>3. ~ (\E i \in Moments' : IsCall(i)')
      BY <1>1, <1>3, <2>1, <2>2 DEF FirstTurnIsTracked, CallKinds
    <3>. QED  BY <3>2, <3>3 DEF FirstTurnIsTracked, FirstTurnEnded, FirstTurnActive
  <2>3. CASE first_turn.kind = "Ended"
    <3>1. first_turn' = first_turn
      BY <2>1, <2>3 DEF FirstTurnAfterDahai
    <3>2. Discarders = Players => Discarders' = Players
      BY <1>1, <2>1
    <3>. QED  BY <1>1, <1>3, <2>3, <3>1, <3>2 DEF FirstTurnIsTracked
  <2>. QED  BY <1>1, <2>2, <2>3 DEF FirstTurnIsTracked
<1>5. CASE Melds(e)
  <2>1. first_turn' = FirstTurnEnded /\ \E i \in Moments' : IsCall(i)'
    BY <1>3, <1>5 DEF Melds, Calls
  <2>. QED  BY <2>1 DEF FirstTurnIsTracked, FirstTurnEnded
<1>6. CASE Draws(e) \/ Declares(e) \/ Wins(e) \/ Misses(e)
  <2>1. first_turn' = first_turn
    BY <1>6 DEF Draws, OnTsumo, Declares, OnReach, Wins, OnHora, Misses, OnActionResponse
  <2>2. e.kind \notin CallKinds /\ e.kind # "dahai"
    BY <1>6 DEF Draws, Declares, Wins, Misses, CallKinds
  <2>. QED  BY <1>1, <1>2, <1>3, <2>1, <2>2 DEF FirstTurnIsTracked
<1>. QED  BY <1>4, <1>5, <1>6 DEF Plays

LEMMA OwnDrawStaysTracked ==
  ASSUME TypeOK, RoundInv, NEW e \in Entries, Plays(e)
  PROVE  OwnDrawIsTracked'
<1>0. /\ Appends(e) /\ RoundSeen /\ seat_id = Me /\ OwnDrawIsTracked
      /\ own_tsumo_pending_discard \in BOOLEAN /\ stage.player \in Players
  BY PlayTypes DEF RoundInv, Plays, TypeOK
<1> DEFINE MyDiscard(f) == f.kind = "dahai" /\ f.actor = Me
<1>1. (\E i \in Moments' : /\ log'[i].kind = "tsumo" /\ log'[i].actor = Me
                           /\ \A k \in i..Len(log') : ~MyDiscard(log'[k]))
      <=> \/ e.kind = "tsumo" /\ e.actor = Me
          \/ own_tsumo_pending_discard /\ ~MyDiscard(e)
  <2> DEFINE Held(i) == /\ log'[i].kind = "tsumo" /\ log'[i].actor = Me
                        /\ \A k \in i..Len(log') : ~MyDiscard(log'[k])
  <2>1. \A i : i = Len(log) + 1 => (Held(i) <=> e.kind = "tsumo" /\ e.actor = Me)
    BY <1>0, Appended
  <2>2. ASSUME NEW i \in Moments
        PROVE  Held(i) <=> /\ log[i].kind = "tsumo" /\ log[i].actor = Me
                           /\ \A k \in i..Len(log) : ~MyDiscard(log[k])
                           /\ ~MyDiscard(e)
    <3>1. /\ Len(log) \in Nat /\ Len(log') = Len(log) + 1 /\ i \in 1..Len(log)
          /\ log'[i] = log[i] /\ log'[Len(log) + 1] = e
      BY <1>0, Appended
    <3>2. \A k \in i..Len(log) : k \in i..Len(log') /\ log'[k] = log[k]
      BY <1>0, <3>1, Appended
    <3>3. \A k \in i..Len(log') : k \in i..Len(log) \/ k = Len(log) + 1
      BY <3>1
    <3>4. Len(log) + 1 \in i..Len(log')
      BY <3>1
    <3> HIDE DEF MyDiscard
    <3>5. (\A k \in i..Len(log') : ~MyDiscard(log'[k]))
          <=> (\A k \in i..Len(log) : ~MyDiscard(log[k])) /\ ~MyDiscard(e)
      BY <3>1, <3>2, <3>3, <3>4
    <3>. QED  BY <3>1, <3>5
  <2>3. \A i \in Moments' : i \in Moments \/ i = Len(log) + 1
    BY <1>0, Appended
  <2>4. Len(log) + 1 \in Moments' /\ Moments \subseteq Moments'
    BY <1>0, Appended
  <2>5. own_tsumo_pending_discard <=>
          \E i \in Moments : /\ log[i].kind = "tsumo" /\ log[i].actor = Me
                             /\ \A k \in i..Len(log) : ~MyDiscard(log[k])
    BY <1>0 DEF OwnDrawIsTracked
  <2> HIDE DEF Held, MyDiscard
  <2>6. (\E i \in Moments' : Held(i)) <=> \/ e.kind = "tsumo" /\ e.actor = Me
                                          \/ own_tsumo_pending_discard /\ ~MyDiscard(e)
    BY <2>1, <2>2, <2>3, <2>4, <2>5
  <2>. QED  BY <2>6 DEF Held
<1>2. own_tsumo_pending_discard' <=> \/ e.kind = "tsumo" /\ e.actor = Me
                                     \/ own_tsumo_pending_discard /\ ~MyDiscard(e)
  <2>1. CASE Draws(e)
    BY <1>0, <2>1 DEF Draws, OnTsumo
  <2>2. CASE Discards(e)
    BY <1>0, <2>2 DEF Discards, OnDahai
  <2>3. CASE Declares(e) \/ Melds(e) \/ Wins(e) \/ Misses(e)
    <3>1. own_tsumo_pending_discard' = own_tsumo_pending_discard
      BY <2>3 DEF Declares, OnReach, Melds, Calls, Wins, OnHora, Misses, OnActionResponse, ownVars
    <3>2. e.kind \in CallKinds \cup {"reach", "hora", "missed"}
      BY <2>3 DEF Declares, Melds, Wins, Misses
    <3>. QED  BY <3>1, <3>2 DEF CallKinds
  <2>. QED  BY <2>1, <2>2, <2>3 DEF Plays
<1>3. ASSUME own_tsumo_pending_discard', stage'.kind # "over"
      PROVE  stage'.player = Me /\ stage'.kind \in {"turn", "declared", "kan"}
  <2>1. CASE Draws(e)
    <3>1. e.actor = Me
      BY <1>0, <1>2, <1>3, <2>1 DEF Draws, OwnDrawIsTracked
    <3>. QED  BY <2>1, <3>1 DEF Draws
  <2>2. ~Draws(e) => own_tsumo_pending_discard /\ ~MyDiscard(e)
    BY <1>2, <1>3 DEF Plays, Declares, Discards, Melds, Wins, Misses, CallKinds
  <2>3. CASE Declares(e)
    BY <1>0, <2>2, <2>3 DEF Declares, OwnDrawIsTracked, Draws
  <2>4. CASE Discards(e)
    BY <1>0, <2>2, <2>4 DEF Discards, OwnDrawIsTracked, Draws
  <2>5. CASE Melds(e)
    <3>1. own_tsumo_pending_discard
      BY <2>2, <2>5 DEF Draws, Melds, CallKinds
    <3>2. stage.kind = "turn" /\ stage.player = e.actor /\ e.actor = Me /\ e.kind # "open"
      BY <1>0, <2>5, <3>1 DEF Melds, OwnDrawIsTracked
    <3>. QED  BY <2>5, <3>2 DEF Melds
  <2>6. CASE Wins(e)
    BY <1>3, <2>6 DEF Wins
  <2>7. CASE Misses(e)
    BY <1>0, <1>3, <2>2, <2>7 DEF Misses, OwnDrawIsTracked, Draws
  <2>. QED  BY <2>1, <2>3, <2>4, <2>5, <2>6, <2>7 DEF Plays
<1>. QED  BY <1>1, <1>2, <1>3 DEF OwnDrawIsTracked

LEMMA NothingIsPendingInATurn ==
  ASSUME RoundInv, RoundSeen, stage.kind \in {"turn", "declared", "called"}
  PROVE  pending_passed_tile = None
<1>1. /\ log \in Seq(Entries) /\ log # <<>> /\ log[Len(log)].kind \in {"tsumo", "open", "reach"}
  BY DEF RoundInv, RoundTypeOK, StageFitsLog, LastIs, Event
<1>2. Len(log) \in Moments /\ Len(log) \in Nat
  BY <1>1, EmptySeq DEF Moments
<1>3. Len(log) <= Latest /\ Latest \in 0..Len(log)
  BY <1>1, <1>2, LatestFacts DEF RoundInv
<1>4. Latest = Len(log) /\ ~IsRonChance(Latest)
  BY <1>1, <1>2, <1>3 DEF IsRonChance
<1>. QED  BY <1>4 DEF RoundInv, ReactionSourceIsCurrent, Latest

LEMMA SourceStaysCurrent ==
  ASSUME TypeOK, RoundInv, NEW e \in Entries, Plays(e)
  PROVE  ReactionSourceIsCurrent'
<1>0. /\ Appends(e) /\ RoundSeen /\ RoundTypeOK
      /\ e.actor \in Players /\ e.actor \in Actors /\ Len(log) \in Nat
      /\ log'[Len(log) + 1] = e
  BY PlayTypes, Appended, SeatAssumption DEF Plays
<1>1. Latest' = (IF e.kind = "missed" THEN Latest ELSE Len(log) + 1)
  BY <1>0, LatestGrows
<1>2. SUFFICES IF Latest' # 0 /\ log'[Latest'].kind \in RonKinds
               THEN /\ pending_passed_tile' # None
                    /\ pending_passed_tile' = [actor |-> log'[Latest'].actor,
                                               tile |-> log'[Latest'].tile]
               ELSE pending_passed_tile' = None
  BY DEF ReactionSourceIsCurrent, Latest, IsRonChance, RonKinds
<1>3. CASE Misses(e)
  <2>1. Latest # 0 => log'[Latest] = log[Latest]
    BY <1>0, LatestFacts, Appended
  <2>2. Latest' = Latest /\ pending_passed_tile' = pending_passed_tile
    BY <1>1, <1>3 DEF Misses, OnActionResponse, passedVars
  <2>. QED  BY <1>0, <2>1, <2>2 DEF RoundInv, ReactionSourceIsCurrent, Latest, IsRonChance, RonKinds
<1>4. CASE Discards(e) \/ Melds(e)
  <2>1. e.kind # "missed" /\ e.kind \in CallKinds \cup {"dahai"}
    BY <1>4 DEF Discards, Melds, CallKinds
  <2>2. Latest' # 0 /\ log'[Latest'] = e
    BY <1>0, <1>1, <2>1
  <2>3. pending_passed_tile' = IF e.kind \in RonKinds THEN PendingTile(e.actor, e.tile) ELSE None
    BY <1>4, <2>1 DEF Discards, OnDahai, Melds, RonKinds, CallKinds
  <2>4. e.kind \in RonKinds => e.tile \in Tiles
    BY <1>4 DEF Discards, Melds, RonKinds, CallKinds
  <2>5. e.kind \in RonKinds => [actor |-> e.actor, tile |-> e.tile] # None
    BY <1>0, <2>4, PendingAssumption
  <2>. QED  BY <2>2, <2>3, <2>4, <2>5 DEF PendingTile
<1>5. CASE Draws(e) \/ Declares(e) \/ Wins(e)
  <2>1. e.kind \notin RonKinds /\ e.kind # "missed"
    BY <1>5 DEF Draws, Declares, Wins, RonKinds
  <2>2. log'[Latest'] = e
    BY <1>0, <1>1, <2>1
  <2>3. pending_passed_tile' = None
    <3>1. Declares(e) => pending_passed_tile = None
      BY <1>0, NothingIsPendingInATurn DEF Declares
    <3>. QED  BY <1>5, <3>1 DEF Draws, OnTsumo, Declares, OnReach, Wins, OnHora, passedVars
  <2>. QED  BY <2>1, <2>2, <2>3
<1>. QED  BY <1>3, <1>4, <1>5 DEF Plays

\* The tile that becomes safe against p when it passes, if there is one.
Safe(p) == IF pending_passed_tile # None /\ pending_passed_tile.actor # p
           THEN {pending_passed_tile.tile} ELSE {}

LEMMA ConfirmedAt ==
  ASSUME TypeOK, NEW passed \in Tracked, NEW p \in Players
  PROVE  /\ Confirmed(passed) \in Tracked
         /\ Confirmed(passed)[p] = passed[p] \cup Safe(p)
  BY TrackedIsSome DEF TypeOK, Confirmed, Tracked, Safe

LEMMA ClearedAt ==
  ASSUME NEW passed \in Tracked, NEW p \in Players, NEW actor
  PROVE  Cleared(passed, actor)[p] = IF p = actor THEN {} ELSE passed[p]
  BY TrackedIsSome DEF Cleared, Tracked

\* What a play makes of the two maps at one seat.
LEMMA MapsAfterPlay ==
  ASSUME TypeOK, KnownTogether, RoundInv, NEW e \in Entries, Plays(e), NEW p \in Players
  PROVE  /\ temporary_passed_tiles'[p] =
              IF e.actor = p /\ (e.kind = "tsumo" \/ e.kind \in CallKinds) THEN {}
              ELSE temporary_passed_tiles[p] \cup (IF e.kind \in {"missed", "hora"} THEN {} ELSE Safe(p))
         /\ same_hand_passed_tiles'[p] =
              IF e.actor = p /\ (e.kind \in CallKinds \/ (e.kind = "dahai" /\ ~e.drawn)) THEN {}
              ELSE same_hand_passed_tiles[p] \cup (IF e.kind \in {"missed", "hora"} THEN {} ELSE Safe(p))
<1>0. temporary_passed_tiles \in Tracked /\ same_hand_passed_tiles \in Tracked
  BY DEF Plays, RoundSeen, KnownTogether, TypeOK
<1>1. /\ Confirmed(temporary_passed_tiles) \in Tracked
      /\ Confirmed(same_hand_passed_tiles) \in Tracked
      /\ e.drawn \in BOOLEAN
  BY <1>0, ConfirmedAt, PlayTypes
<1>a. /\ Confirmed(temporary_passed_tiles)[p] = temporary_passed_tiles[p] \cup Safe(p)
      /\ Confirmed(same_hand_passed_tiles)[p] = same_hand_passed_tiles[p] \cup Safe(p)
      /\ Cleared(Confirmed(temporary_passed_tiles), e.actor)[p] =
           IF p = e.actor THEN {} ELSE temporary_passed_tiles[p] \cup Safe(p)
      /\ Cleared(Confirmed(same_hand_passed_tiles), e.actor)[p] =
           IF p = e.actor THEN {} ELSE same_hand_passed_tiles[p] \cup Safe(p)
  <2>1. \A t \in Tracked : Confirmed(t)[p] = t[p] \cup Safe(p)
    BY ConfirmedAt
  <2>2. \A t \in Tracked : Cleared(t, e.actor)[p] = IF p = e.actor THEN {} ELSE t[p]
    BY ClearedAt
  <2>. QED  BY <1>0, <1>1, <2>1, <2>2
<1>2. CASE Draws(e)
  <2>1. /\ temporary_passed_tiles' = Cleared(Confirmed(temporary_passed_tiles), e.actor)
        /\ same_hand_passed_tiles' = Confirmed(same_hand_passed_tiles) /\ e.kind = "tsumo"
    BY <1>2 DEF Draws, OnTsumo
  <2>. QED  BY <1>1, <1>a, <2>1 DEF CallKinds
<1>3. CASE Discards(e)
  <2>1. /\ temporary_passed_tiles' = Confirmed(temporary_passed_tiles)
        /\ same_hand_passed_tiles' = (IF e.drawn THEN Confirmed(same_hand_passed_tiles)
                                      ELSE Cleared(Confirmed(same_hand_passed_tiles), e.actor))
        /\ e.kind = "dahai"
    BY <1>3 DEF Discards, OnDahai, SameHandAfterDahai
  <2>. QED  BY <1>1, <1>a, <2>1 DEF CallKinds
<1>4. CASE Melds(e)
  <2>1. /\ temporary_passed_tiles' = Cleared(Confirmed(temporary_passed_tiles), e.actor)
        /\ same_hand_passed_tiles' = Cleared(Confirmed(same_hand_passed_tiles), e.actor)
        /\ e.kind \in CallKinds /\ e.kind \notin {"missed", "hora"}
    BY <1>4 DEF Melds, Calls, CallKinds
  <2>. QED  BY <1>1, <1>a, <2>1
<1>5. CASE Declares(e)
  <2>1. Safe(p) = {} /\ e.kind = "reach"
    BY <1>5, NothingIsPendingInATurn DEF Declares, Plays, Safe
  <2>2. /\ temporary_passed_tiles' = temporary_passed_tiles
        /\ same_hand_passed_tiles' = same_hand_passed_tiles
    BY <1>5 DEF Declares, OnReach, passedVars
  <2>. QED  BY <2>1, <2>2 DEF CallKinds
<1>6. CASE Wins(e) \/ Misses(e)
  <2>1. /\ temporary_passed_tiles' = temporary_passed_tiles
        /\ same_hand_passed_tiles' = same_hand_passed_tiles
        /\ e.kind \in {"missed", "hora"}
    BY <1>6 DEF Wins, OnHora, Misses, OnActionResponse, passedVars
  <2>. QED  BY <2>1 DEF CallKinds
<1>. QED  BY <1>2, <1>3, <1>4, <1>5, <1>6 DEF Plays

LEMMA PassedTilesStayTracked ==
  ASSUME TypeOK, KnownTogether, RoundInv, NEW e \in Entries, Plays(e)
  PROVE  PassedTilesAreTracked'
<1> DEFINE NewPassed(q, since) ==
      {log'[i].tile : i \in {k \in Moments' : /\ k > since /\ IsRonChance(k)'
                                              /\ log'[k].actor # q /\ Passed(k)'}}
<1> DEFINE After(q, k) == log[k].kind = "dahai" /\ log[k].actor # q /\ \E r \in RiichiDiscards(q) : k > r
<1> SUFFICES ASSUME NEW p \in Players
             PROVE  /\ temporary_passed_tiles'[p] = NewPassed(p, LastDrawOrCall(p)')
                    /\ same_hand_passed_tiles'[p] = NewPassed(p, LastHandChange(p)')
                    /\ post_reach_passed_tiles'[p] =
                         {log'[i].tile : i \in {k \in Moments' :
                            /\ log'[k].kind = "dahai" /\ log'[k].actor # p
                            /\ \E r \in RiichiDiscards(p)' : k > r}}
  BY DEF PassedTilesAreTracked, PassedSince
<1>0. /\ Appends(e) /\ RoundSeen /\ e.actor \in Players /\ PassedTilesAreTracked
      /\ e.kind # "hora" => stage.kind # "over"
  BY PlayTypes DEF RoundInv, Plays
<1> DEFINE added == IF e.kind \in {"missed", "hora"} THEN {} ELSE Safe(p)
<1>1. \A since \in SinceMoments(p) : NewPassed(p, since) = PassedSince(p, since) \cup added
  BY <1>0, PassedSinceGrows DEF Safe
<1>2. \A since : since = Len(log) + 1 => NewPassed(p, since) = {}
  BY <1>0, NothingPassedSince
<1>3. temporary_passed_tiles'[p] = NewPassed(p, LastDrawOrCall(p)')
  <2>1. temporary_passed_tiles'[p] =
          IF e.actor = p /\ (e.kind = "tsumo" \/ e.kind \in CallKinds) THEN {}
          ELSE temporary_passed_tiles[p] \cup added
    BY MapsAfterPlay
  <2>2. temporary_passed_tiles[p] = PassedSince(p, LastDrawOrCall(p))
    BY <1>0 DEF PassedTilesAreTracked
  <2> HIDE DEF NewPassed, added
  <2>. QED  BY <1>0, <1>1, <1>2, <2>1, <2>2, LastDrawOrCallGrows
<1>4. same_hand_passed_tiles'[p] = NewPassed(p, LastHandChange(p)')
  <2>1. same_hand_passed_tiles'[p] =
          IF e.actor = p /\ (e.kind \in CallKinds \/ (e.kind = "dahai" /\ ~e.drawn)) THEN {}
          ELSE same_hand_passed_tiles[p] \cup added
    BY MapsAfterPlay
  <2>2. same_hand_passed_tiles[p] = PassedSince(p, LastHandChange(p))
    BY <1>0 DEF PassedTilesAreTracked
  <2> HIDE DEF NewPassed, added
  <2>. QED  BY <1>0, <1>1, <1>2, <2>1, <2>2, LastHandChangeGrows
<1>5. {k \in Moments' : /\ log'[k].kind = "dahai" /\ log'[k].actor # p
                        /\ \E r \in RiichiDiscards(p)' : k > r}
      = {k \in Moments : After(p, k)}
        \cup (IF e.kind = "dahai" /\ e.actor # p /\ Riichi(p) THEN {Len(log) + 1} ELSE {})
  <2>1. /\ RiichiDiscards(p) \subseteq 1..Len(log) /\ Len(log) \in Nat
        /\ RiichiDiscards(p)' =
             RiichiDiscards(p) \cup (IF Completes(e, p) THEN {Len(log) + 1} ELSE {})
    BY <1>0, RiichiDiscardsGrow, Appended
  <2>2. \A k \in Moments : (\E r \in RiichiDiscards(p)' : k > r) <=> (\E r \in RiichiDiscards(p) : k > r)
    BY <1>0, <2>1, Appended
  <2>3. e.actor # p => ((\E r \in RiichiDiscards(p)' : Len(log) + 1 > r) <=> Riichi(p))
    BY <2>1 DEF Completes, Riichi
  <2>. QED  BY <1>0, <2>2, <2>3, Appended
<1>6. post_reach_passed_tiles'[p] =
        post_reach_passed_tiles[p] \cup
          (IF e.kind = "dahai" /\ e.actor # p /\ Riichi(p) THEN {e.tile} ELSE {})
  <2>1. CASE Discards(e)
    <3>1. active_reach[p] <=> Riichi(p)
      BY <1>0 DEF RoundInv, RiichiIsTracked
    <3>. QED  BY <2>1, <3>1 DEF Discards, OnDahai, PostReachAfterDahai
  <2>2. CASE ~Discards(e)
    <3>1. e.kind # "dahai" /\ post_reach_passed_tiles' = post_reach_passed_tiles
      BY <2>2 DEF Plays, Draws, OnTsumo, Declares, OnReach, Melds, Calls, Wins, OnHora, Misses,
         OnActionResponse, CallKinds
    <3>. QED  BY <3>1
  <2>. QED  BY <2>1, <2>2
<1>7. post_reach_passed_tiles[p] = {log[i].tile : i \in {k \in Moments : After(p, k)}}
  BY <1>0 DEF PassedTilesAreTracked
<1>8. post_reach_passed_tiles'[p] =
        {log'[i].tile : i \in {k \in Moments' : /\ log'[k].kind = "dahai" /\ log'[k].actor # p
                                                /\ \E r \in RiichiDiscards(p)' : k > r}}
  <2> DEFINE old == {k \in Moments : After(p, k)}
  <2>1. old \subseteq Moments
    OBVIOUS
  <2> HIDE DEF old
  <2>2. {log'[i].tile : i \in old} = {log[i].tile : i \in old}
    BY <1>0, <2>1, Appended
  <2>3. log'[Len(log) + 1] = e
    BY <1>0, Appended
  <2>4. post_reach_passed_tiles[p] = {log[i].tile : i \in old}
    BY <1>7 DEF old
  <2>. QED  BY <1>5, <1>6, <2>2, <2>3, <2>4 DEF old
<1>. QED  BY <1>3, <1>4, <1>8

LEMMA FuritenMomentsGrow ==
  ASSUME RoundInv, RoundSeen, NEW e, Appends(e)
  PROVE  /\ MissedWins \subseteq 1..Len(log) /\ DrawDiscards \subseteq 1..Len(log)
         /\ MissedWins' = MissedWins \cup (IF e.kind = "missed" THEN {Len(log) + 1} ELSE {})
         /\ DrawDiscards' =
              DrawDiscards \cup (IF e.kind = "dahai" /\ e.actor = Me /\ own_tsumo_pending_discard
                                 THEN {Len(log) + 1} ELSE {})
<1> DEFINE DrawnBefore(l, d) ==
      \E i \in 1..Len(l) : /\ i < d /\ l[i].kind = "tsumo" /\ l[i].actor = Me
                           /\ \A k \in i..(d - 1) : ~(l[k].kind = "dahai" /\ l[k].actor = Me)
<1>0. /\ Len(log) \in Nat /\ Len(log') = Len(log) + 1
      /\ Moments = 1..Len(log) /\ Moments' = 1..Len(log')
      /\ \A i \in 1..Len(log) : log'[i] = log[i]
      /\ log'[Len(log) + 1] = e
  BY Appended
<1>1. MissedWins' = MissedWins \cup (IF e.kind = "missed" THEN {Len(log) + 1} ELSE {})
  BY <1>0 DEF MissedWins
<1>2. \A d \in 1..Len(log) : d \in DrawDiscards' <=> d \in DrawDiscards
  <2> SUFFICES ASSUME NEW d \in 1..Len(log) PROVE d \in DrawDiscards' <=> d \in DrawDiscards
    OBVIOUS
  <2>1. \A i \in 1..Len(log) : i < d => \A k \in i..(d - 1) : k \in 1..Len(log)
    BY <1>0
  <2>2. \A i \in 1..Len(log') : i < d => i \in 1..Len(log)
    BY <1>0
  <2>3. 1..Len(log) \subseteq 1..Len(log')
    BY <1>0
  <2>4. DrawnBefore(log', d) <=> DrawnBefore(log, d)
    BY <1>0, <2>1, <2>2, <2>3
  <2>5. d \in DrawDiscards' <=> log'[d].kind = "dahai" /\ log'[d].actor = Me /\ DrawnBefore(log', d)
    BY <1>0, <2>3 DEF DrawDiscards
  <2>6. d \in DrawDiscards <=> log[d].kind = "dahai" /\ log[d].actor = Me /\ DrawnBefore(log, d)
    BY <1>0 DEF DrawDiscards
  <2> HIDE DEF DrawnBefore
  <2>. QED  BY <1>0, <2>4, <2>5, <2>6
<1>3. Len(log) + 1 \in DrawDiscards'
      <=> e.kind = "dahai" /\ e.actor = Me /\ own_tsumo_pending_discard
  <2> DEFINE n == Len(log) + 1
  <2>0. \A i \in 1..Len(log) : \A k \in i..Len(log) : k \in 1..Len(log)
    BY <1>0
  <2>1. \A i \in 1..Len(log') : i < n <=> i \in 1..Len(log)
    BY <1>0
  <2>2. n - 1 = Len(log) /\ 1..Len(log) \subseteq 1..Len(log') /\ n \in 1..Len(log')
    BY <1>0
  <2>3. DrawnBefore(log', n) <=> own_tsumo_pending_discard
    <3>1. own_tsumo_pending_discard <=>
            \E i \in 1..Len(log) : /\ log[i].kind = "tsumo" /\ log[i].actor = Me
                                   /\ \A k \in i..Len(log) : ~(log[k].kind = "dahai" /\ log[k].actor = Me)
      BY <1>0 DEF RoundInv, OwnDrawIsTracked
    <3> HIDE DEF n
    <3>. QED  BY <1>0, <2>0, <2>1, <2>2, <3>1
  <2>4. n \in DrawDiscards' <=> log'[n].kind = "dahai" /\ log'[n].actor = Me /\ DrawnBefore(log', n)
    BY <1>0, <2>2 DEF DrawDiscards
  <2> HIDE DEF DrawnBefore
  <2>. QED  BY <1>0, <2>3, <2>4
<1>4. /\ MissedWins \subseteq 1..Len(log) /\ DrawDiscards \subseteq 1..Len(log)
      /\ DrawDiscards' \subseteq 1..Len(log')
  BY <1>0 DEF MissedWins, DrawDiscards
<1>5. \A d \in 1..Len(log') : d \in 1..Len(log) \/ d = Len(log) + 1
  BY <1>0
<1>. QED  BY <1>1, <1>2, <1>3, <1>4, <1>5

LEMMA FuritenStaysTracked ==
  ASSUME TypeOK, KnownTogether, RoundInv, NEW e \in Entries, Plays(e)
  PROVE  FuritenIsTracked'
<1> DEFINE SameTurn == \E m \in MissedWins : \A d \in DrawDiscards : d < m
           MissedInRiichi == \E m \in MissedWins : \E r \in RiichiDiscards(Me) : r < m
           n == Len(log) + 1
<1>0. /\ Appends(e) /\ RoundSeen /\ seat_id = Me /\ Me \in Players /\ Len(log) \in Nat
      /\ history_furiten \in FuritenFacts
      /\ history_furiten.same_turn = FactOf(SameTurn)
      /\ history_furiten.riichi_missed_win = FactOf(MissedInRiichi)
  BY Appended, MeInActors DEF RoundInv, FuritenIsTracked, Plays, TypeOK
<1>1. /\ MissedWins \subseteq 1..Len(log) /\ DrawDiscards \subseteq 1..Len(log)
      /\ MissedWins' = MissedWins \cup (IF e.kind = "missed" THEN {n} ELSE {})
      /\ DrawDiscards' =
           DrawDiscards \cup (IF e.kind = "dahai" /\ e.actor = Me /\ own_tsumo_pending_discard
                              THEN {n} ELSE {})
  BY <1>0, FuritenMomentsGrow
<1>2. /\ RiichiDiscards(Me) \subseteq 1..Len(log)
      /\ RiichiDiscards(Me)' = RiichiDiscards(Me) \cup (IF Completes(e, Me) THEN {n} ELSE {})
  BY <1>0, RiichiDiscardsGrow
<1>3. \A i \in 1..Len(log) : i < n /\ ~(n < i)
  BY <1>0
<1>4. SUFFICES /\ history_furiten'.same_turn = FactOf(SameTurn')
               /\ history_furiten'.riichi_missed_win = FactOf(MissedInRiichi')
  BY DEF FuritenIsTracked
<1>5. CASE Misses(e)
  <2>1. ~own_tsumo_pending_discard
    BY <1>0, <1>5 DEF Misses, RoundInv, OwnDrawIsTracked
  <2>2. RecordsMissedWin(TRUE, FALSE)
    BY <1>0, <2>1, MeInActors DEF RecordsMissedWin, KnownTogether, RoundSeen
  <2>3. OwnRiichi <=> Riichi(Me)
    BY <1>0 DEF OwnRiichi, RoundInv, RiichiIsTracked
  <2>4. e.kind = "missed" /\ ~Completes(e, Me)
    BY <1>5 DEF Misses, Completes
  <2>5. /\ history_furiten'.same_turn = "yes"
        /\ history_furiten'.riichi_missed_win =
             IF Riichi(Me) THEN "yes" ELSE history_furiten.riichi_missed_win
    BY <1>0, <1>5, <2>2, <2>3 DEF Misses, OnActionResponse, FuritenFacts
  <2>6. SameTurn'
    BY <1>1, <1>3, <2>4
  <2>7. MissedInRiichi' <=> Riichi(Me)
    BY <1>1, <1>2, <1>3, <2>4 DEF Riichi
  <2>8. ~Riichi(Me) => ~MissedInRiichi
    BY DEF Riichi
  <2> HIDE DEF SameTurn, MissedInRiichi
  <2>. QED  BY <1>0, <2>5, <2>6, <2>7, <2>8 DEF FactOf
<1>6. CASE ~Misses(e)
  <2>1. e.kind # "missed"
    BY <1>6 DEF Plays, Draws, Declares, Discards, Melds, Wins, CallKinds
  <2>2. MissedInRiichi' <=> MissedInRiichi
    BY <1>1, <1>2, <1>3, <2>1
  <2>3. SameTurn' <=> SameTurn /\ ~(e.kind = "dahai" /\ e.actor = Me /\ own_tsumo_pending_discard)
    BY <1>1, <1>3, <2>1
  <2>4. history_furiten' = IF e.kind = "dahai" /\ e.actor = Me /\ own_tsumo_pending_discard
                           THEN [history_furiten EXCEPT !.same_turn = "no"] ELSE history_furiten
    <3>1. CASE Discards(e)
      BY <1>0, <3>1 DEF Discards, OnDahai, FuritenAfterDahai
    <3>2. CASE ~Discards(e)
      <4>1. e.kind # "dahai"
        BY <3>2, <1>6 DEF Plays, Draws, Declares, Melds, Wins, CallKinds
      <4>2. history_furiten' = history_furiten
        BY <3>2, <1>6 DEF Plays, Draws, OnTsumo, Declares, OnReach, Melds, Calls, Wins, OnHora, ownVars
      <4>. QED  BY <4>1, <4>2
    <3>. QED  BY <3>1, <3>2
  <2> HIDE DEF SameTurn, MissedInRiichi
  <2>. QED  BY <1>0, <2>2, <2>3, <2>4 DEF FactOf, FuritenFacts
<1>. QED  BY <1>5, <1>6

------------------------------------------------------------------------------
(* The theorems. *)

LEMMA RoundStepIsATrackerStep == [RoundNext]_vars => [Next]_trackerVars
<1> SUFFICES ASSUME [RoundNext]_vars PROVE [Next]_trackerVars
  OBVIOUS
<1>a. \A p \in Players : p \in Actors
  BY MeInActors
<1>b. \A pai \in Tiles : pai \in Faces
  BY DEF Faces
<1>c. Hidden \in Faces /\ TRUE \in BOOLEAN /\ FALSE \in BOOLEAN /\ Me \in Players
  BY MeInActors DEF Faces
<1>1. CASE StartGame \/ PassWin \/ PassOwnDraw
  BY <1>1, <1>a, <1>c DEF StartGame, PassWin, PassOwnDraw, Next
<1>2. CASE Ryukyoku \/ UNCHANGED vars
  BY <1>2 DEF Ryukyoku, vars
<1>3. ASSUME NEW p \in Players,
             StartKyoku(p) \/ Reach(p) \/ ChiOrPon(p) \/ Daiminkan(p) \/ Ankan(p) \/ Hora(p)
      PROVE  Next
  <2>1. OnStartKyoku \/ OnReach(p) \/ OnCall(p) \/ OnHora
    BY <1>3 DEF StartKyoku, Reach, ChiOrPon, Daiminkan, Ankan, Hora
  <2>. QED  BY <1>a, <2>1 DEF Next
<1>4. ASSUME NEW p \in Players, NEW pai \in Tiles, Kakan(p, pai) PROVE Next
  BY <1>4, <1>a, <1>b DEF Kakan, Next
<1>5. ASSUME NEW p \in Players, NEW pai \in Faces, Tsumo(p, pai) PROVE Next
  BY <1>5, <1>a DEF Tsumo, Next
<1>6. ASSUME NEW p \in Players, NEW pai \in Tiles, NEW tsumogiri \in BOOLEAN,
             Dahai(p, pai, tsumogiri)
      PROVE  Next
  BY <1>6, <1>a, <1>b DEF Dahai, Next
<1>. QED  BY <1>1, <1>2, <1>3, <1>4, <1>5, <1>6 DEF RoundNext

\* A legal round is one of the event streams the tracker was shown to survive: what
\* was proved above for any order of events holds in every round.
THEOREM RoundsAreEventStreams == RoundSpec => Spec
<1>1. RoundInit => Init
  BY DEF RoundInit
<1>. QED  BY <1>1, RoundStepIsATrackerStep, PTL DEF RoundSpec, Spec

LEMMA RoundInvNext ==
  TypeOK /\ KnownTogether /\ RoundInv /\ [RoundNext]_vars => RoundInv'
<1> SUFFICES ASSUME TypeOK, KnownTogether, RoundInv, [RoundNext]_vars PROVE RoundInv'
  OBVIOUS
<1>1. ASSUME NEW e \in Entries, Plays(e) PROVE RoundInv'
  BY <1>1, PlayTypes, StageFits, FirstTurnStaysTracked, OwnDrawStaysTracked, RiichiStaysTracked,
     IppatsuStaysTracked, PassedTilesStayTracked, FuritenStaysTracked, SourceStaysCurrent
     DEF RoundInv
<1>2. CASE UNCHANGED vars
  BY <1>2, RestKeeps DEF Rests, vars, roundVars
<1>. QED  BY <1>1, <1>2, RoundSteps, StartGameKeeps, StartKyokuKeeps, RestKeeps

\* Every field of the tracker is the function of the round's events that RoundInv states.
THEOREM RoundInvCorrect == RoundSpec => []RoundInv
<1>1. RoundSpec => [](TypeOK /\ KnownTogether)
  BY RoundsAreEventStreams, TypeCorrect, KnownTogetherCorrect, PTL
<1>2. RoundInit => RoundInv
  BY RoundInvInit
<1>. QED  BY <1>1, <1>2, RoundInvNext, PTL DEF RoundSpec

\* In every legal round, a seat counts as in riichi, declared or established, and its
\* riichi as a double riichi, exactly when the events of the round say so.
THEOREM RiichiCorrect == RoundSpec => []RiichiIsTracked
<1>1. RoundInv => RiichiIsTracked
  BY DEF RoundInv
<1>. QED  BY <1>1, RoundInvCorrect, PTL

\* The one-shot window of a seat is open exactly from its declaring discard to its next
\* draw or anybody's call, however many seats are in riichi at once.
THEOREM IppatsuCorrect == RoundSpec => []IppatsuIsTracked
<1>1. RoundInv => IppatsuIsTracked
  BY DEF RoundInv
<1>. QED  BY <1>1, RoundInvCorrect, PTL

\* The passed tiles the tracker hands out as safe are exactly those that passed since
\* the seat's last draw or call, its last change of hand and its riichi.
THEOREM PassedTilesCorrect == RoundSpec => []PassedTilesAreTracked
<1>1. RoundInv => PassedTilesAreTracked
  BY DEF RoundInv
<1>. QED  BY <1>1, RoundInvCorrect, PTL

\* Same-turn and riichi furiten follow from the wins passed up and the draws since.
THEOREM FuritenCorrect == RoundSpec => []FuritenIsTracked
<1>1. RoundInv => FuritenIsTracked
  BY DEF RoundInv
<1>. QED  BY <1>1, RoundInvCorrect, PTL

\* A reaction is never attributed to a seat whose tile can no longer be won on.
THEOREM ReactionSourceCorrect == RoundSpec => []ReactionSourceIsCurrent
<1>1. RoundInv => ReactionSourceIsCurrent
  BY DEF RoundInv
<1>. QED  BY <1>1, RoundInvCorrect, PTL

(***************************************************************************)
(* The replay of a captured session shows what the session was, for any    *)
(* seats, tiles, capacity of the writer's channel and length.              *)
(***************************************************************************)

(***************************************************************************)
(* The facts of a request depend on six fields of the tracker, which only  *)
(* the server's events change: what we answer touches none of them.        *)
(***************************************************************************)
State(seat, pending, double, one_shot, first, passed) ==
  [seat |-> seat, pending |-> pending, double |-> double, ippatsu |-> one_shot,
   first |-> first, passed |-> passed]

LiveState == State(seat_id, pending_reach, declared_double_riichi, ippatsu, first_turn,
                   pending_passed_tile)
ToolState == State(r_seat_id, r_pending_reach, r_declared_double_riichi, r_ippatsu,
                   r_first_turn, r_pending_passed_tile)

FactsOf(s) ==
  [source |-> IF s.passed = None THEN None ELSE s.passed.actor,
   eligible |-> IF s.seat \in Players THEN DeclaresDoubleRiichi(s.first, s.seat) ELSE "unknown",
   declared |-> IF s.seat \in Players THEN s.double[s.seat] ELSE "unknown",
   double_riichi |-> s.double,
   ippatsu |-> s.ippatsu]

Nobody == [p \in Players |-> FALSE]
Unknown == [p \in Players |-> "unknown"]

\* The six fields after an event of the server.
AfterDahai(s, actor, pai) ==
  LET establishes(p) == p = actor /\ s.pending[p]
  IN  State(s.seat,
            [p \in Players |-> s.pending[p] /\ ~establishes(p)],
            [p \in Players |-> IF establishes(p) THEN DeclaresDoubleRiichi(s.first, p)
                               ELSE s.double[p]],
            [p \in Players |-> IF establishes(p) THEN "yes" ELSE s.ippatsu[p]],
            FirstTurnAfterDahai(s.first, actor),
            PendingTile(actor, pai))

After(s, e) ==
  CASE e.type = "start_game"  -> State(e.actor, Nobody, Unknown, Unknown, FirstTurnUnknown, None)
    [] e.type = "start_kyoku" -> State(s.seat, Nobody, Unknown, NoIppatsu, FirstTurnActive({}), None)
    [] e.type = "tsumo"       -> State(s.seat, s.pending, s.double,
                                       [p \in Players |-> IF p = e.actor THEN "no" ELSE s.ippatsu[p]],
                                       s.first, None)
    [] e.type = "reach"       -> State(s.seat, [p \in Players |-> p = e.actor \/ s.pending[p]],
                                       s.double, s.ippatsu, s.first, s.passed)
    [] e.type = "dahai"       -> AfterDahai(s, e.actor, e.pai)
    [] e.type = "call"        -> State(s.seat, s.pending, s.double, NoIppatsu, FirstTurnEnded, None)
    [] e.type = "kakan"       -> State(s.seat, s.pending, s.double, NoIppatsu, FirstTurnEnded,
                                       PendingTile(e.actor, e.pai))
    [] e.type = "hora"        -> State(s.seat, s.pending, s.double, s.ippatsu, s.first, None)
    [] OTHER                  -> s

\* The live tracker and the one of the tool follow the same rule.
LEMMA LiveFollows ==
  ASSUME NEW e, OnEvent(e)
  PROVE  LiveState' = After(LiveState, e)
<1> USE DEF LiveState, State, After
<1>1. CASE e.type = "start_game" /\ OnStartGame(e.actor)
  BY <1>1 DEF OnStartGame, ResetReach, Nobody, Unknown
<1>2. CASE e.type = "start_kyoku" /\ OnStartKyoku
  BY <1>2 DEF OnStartKyoku, ResetReach, Nobody, Unknown
<1>3. CASE e.type = "tsumo" /\ OnTsumo(e.actor, e.pai)
  BY <1>3 DEF OnTsumo, reachVars, IppatsuAfterDraw
<1>4. CASE e.type = "reach" /\ OnReach(e.actor)
  BY <1>4 DEF OnReach, passedVars
<1>5. CASE e.type = "dahai" /\ OnDahai(e.actor, e.pai, e.tsumogiri)
  BY <1>5 DEF OnDahai, AfterDahai, Establishes
<1>6. CASE e.type = "call" /\ OnCall(e.actor)
  BY <1>6 DEF OnCall, Calls, reachVars
<1>7. CASE e.type = "kakan" /\ OnKakan(e.actor, e.pai)
  BY <1>7 DEF OnKakan, Calls, reachVars
<1>8. CASE e.type = "hora" /\ OnHora
  BY <1>8 DEF OnHora, reachVars
<1>9. CASE e.type \in {"ryukyoku", "request_action"} /\ UNCHANGED trackerVars
  BY <1>9 DEF trackerVars, reachVars, passedVars
<1> QED
  BY <1>1, <1>2, <1>3, <1>4, <1>5, <1>6, <1>7, <1>8, <1>9 DEF OnEvent

LEMMA ToolFollows ==
  ASSUME NEW e, Replayed!OnEvent(e)
  PROVE  ToolState' = After(ToolState, e)
<1> USE DEF ToolState, State, After
<1>1. CASE e.type = "start_game" /\ Replayed!OnStartGame(e.actor)
  BY <1>1 DEF Replayed!OnStartGame, Replayed!ResetReach, Replayed!FirstTurnUnknown, FirstTurnUnknown, Nobody, Unknown
<1>2. CASE e.type = "start_kyoku" /\ Replayed!OnStartKyoku
  BY <1>2 DEF Replayed!OnStartKyoku, Replayed!ResetReach, Replayed!NoIppatsu, NoIppatsu,
              Replayed!FirstTurnActive, FirstTurnActive, Nobody, Unknown
<1>3. CASE e.type = "tsumo" /\ Replayed!OnTsumo(e.actor, e.pai)
  BY <1>3 DEF Replayed!OnTsumo, Replayed!reachVars, Replayed!IppatsuAfterDraw
<1>4. CASE e.type = "reach" /\ Replayed!OnReach(e.actor)
  BY <1>4 DEF Replayed!OnReach, Replayed!passedVars
<1>5. CASE e.type = "dahai" /\ Replayed!OnDahai(e.actor, e.pai, e.tsumogiri)
  <2>1. Replayed!FirstTurnAfterDahai(r_first_turn, e.actor) = FirstTurnAfterDahai(r_first_turn, e.actor)
    BY DEF Replayed!FirstTurnAfterDahai, FirstTurnAfterDahai, Replayed!FirstTurnEnded, FirstTurnEnded,
           Replayed!FirstTurnActive, FirstTurnActive
  <2>2. \A p : Replayed!DeclaresDoubleRiichi(r_first_turn, p) = DeclaresDoubleRiichi(r_first_turn, p)
    BY DEF Replayed!DeclaresDoubleRiichi, DeclaresDoubleRiichi, Replayed!FactOf, FactOf
  <2>3. Replayed!PendingTile(e.actor, e.pai) = PendingTile(e.actor, e.pai)
    BY DEF Replayed!PendingTile, PendingTile
  <2> QED
    BY <1>5, <2>1, <2>2, <2>3 DEF Replayed!OnDahai, AfterDahai, Replayed!Establishes
<1>6. CASE e.type = "call" /\ Replayed!OnCall(e.actor)
  BY <1>6 DEF Replayed!OnCall, Replayed!Calls, Replayed!reachVars, Replayed!NoIppatsu, NoIppatsu,
              Replayed!FirstTurnEnded, FirstTurnEnded
<1>7. CASE e.type = "kakan" /\ Replayed!OnKakan(e.actor, e.pai)
  BY <1>7 DEF Replayed!OnKakan, Replayed!Calls, Replayed!reachVars, Replayed!NoIppatsu, NoIppatsu,
              Replayed!FirstTurnEnded, FirstTurnEnded, Replayed!PendingTile, PendingTile
<1>8. CASE e.type = "hora" /\ Replayed!OnHora
  BY <1>8 DEF Replayed!OnHora, Replayed!reachVars
<1>9. CASE e.type \in {"ryukyoku", "request_action"} /\ UNCHANGED Replayed!trackerVars
  BY <1>9 DEF Replayed!trackerVars, Replayed!reachVars, Replayed!passedVars
<1> QED
  BY <1>1, <1>2, <1>3, <1>4, <1>5, <1>6, <1>7, <1>8, <1>9 DEF Replayed!OnEvent

LEMMA FactsAreOfState ==
  /\ SituationFacts = FactsOf(LiveState)
  /\ Replayed!SituationFacts = FactsOf(ToolState)
<1>1. SituationFacts = FactsOf(LiveState)
  <2>1. /\ LiveState.seat = seat_id /\ LiveState.double = declared_double_riichi
        /\ LiveState.ippatsu = ippatsu /\ LiveState.first = first_turn
        /\ LiveState.passed = pending_passed_tile
    BY DEF LiveState, State
  <2> QED
    BY <2>1, Zenon DEF SituationFacts, FactsOf
<1>2. \A p : Replayed!DeclaresDoubleRiichi(r_first_turn, p) = DeclaresDoubleRiichi(r_first_turn, p)
  BY DEF Replayed!DeclaresDoubleRiichi, DeclaresDoubleRiichi, Replayed!FactOf, FactOf
<1>3. Replayed!SituationFacts = FactsOf(ToolState)
  <2>1. /\ ToolState.seat = r_seat_id /\ ToolState.double = r_declared_double_riichi
        /\ ToolState.ippatsu = r_ippatsu /\ ToolState.first = r_first_turn
        /\ ToolState.passed = r_pending_passed_tile
    BY DEF ToolState, State
  <2> QED
    BY <2>1, <1>2, Zenon DEF Replayed!SituationFacts, FactsOf
<1> QED
  BY <1>1, <1>3

------------------------------------------------------------------------------
(* The records the tool has not read are a trace of the tracker: it starts where *)
(* the tool is, and as long as nothing was dropped it ends where the client is.  *)

Unread == file \o channel

AfterRecord(s, record) ==
  IF IsServerEvent(record) /\ record.event # Asks THEN After(s, record.event) ELSE s

\* What a record says of the facts in the state before it.
IsTruthful(s, record) ==
  IsServerEvent(record) /\ record.event = Asks /\ record.complete => record.live = FactsOf(s)

IsTrace(trace, records) ==
  \A i \in 1..Len(records) : /\ trace[i] = AfterRecord(trace[i - 1], records[i])
                             /\ IsTruthful(trace[i - 1], records[i])

TraceInv ==
  \E trace : /\ trace[0] = ToolState
             /\ IsTrace(trace, Unread)
             /\ complete /\ running => trace[Len(Unread)] = LiveState

SequencesOK == \E S : file \in Seq(S) /\ channel \in Seq(S)

ReplayInv == SequencesOK /\ TraceInv /\ ReplayIsTheSession

LEMMA ReplayInvInit == SessionInit => ReplayInv
<1> SUFFICES ASSUME SessionInit PROVE ReplayInv
  OBVIOUS
<1>1. Unread = <<>> /\ Len(Unread) = 0 /\ SequencesOK
  <2>1. <<>> \in Seq({})
    OBVIOUS
  <2> QED
    BY <2>1 DEF SessionInit, Unread, SequencesOK
<1>2. ToolState = LiveState
  BY DEF SessionInit, Init, Replayed!Init, ToolState, LiveState, State, FirstTurnUnknown,
         Replayed!FirstTurnUnknown
<1>3. TraceInv
  <2> DEFINE trace == [i \in {0} |-> ToolState]
  <2>1. trace[0] = ToolState /\ IsTrace(trace, Unread)
    BY <1>1 DEF IsTrace
  <2> QED
    BY <2>1, <1>1, <1>2 DEF TraceInv
<1> QED
  BY <1>1, <1>3 DEF ReplayInv, ReplayIsTheSession, SessionInit

\* A record handed to the writer continues the trace, or is dropped and noted.
LEMMA CapturingKeepsTrace ==
  ASSUME SequencesOK, TraceInv, running, NEW record, Capture(record),
         complete => IsTruthful(LiveState, record) /\ LiveState' = AfterRecord(LiveState, record),
         record.complete = complete,
         UNCHANGED <<file, ToolState, running>>
  PROVE  SequencesOK' /\ TraceInv'
<1>1. PICK S : file \in Seq(S) /\ channel \in Seq(S)
  BY DEF SequencesOK
<1>2. PICK trace : /\ trace[0] = ToolState /\ IsTrace(trace, Unread)
                   /\ complete => trace[Len(Unread)] = LiveState
  BY DEF TraceInv
<1>3. CASE channel' = channel /\ ~complete'
  <2>1. Unread' = Unread
    BY <1>3 DEF Unread
  <2> QED
    BY <1>1, <1>2, <1>3, <2>1 DEF SequencesOK, TraceInv
<1>4. CASE channel' = Append(channel, record) /\ complete' = complete
  <2> DEFINE T == S \cup {record}
             n == Len(Unread)
             longer == [i \in 0 .. (n + 1) |-> IF i <= n THEN trace[i]
                                              ELSE AfterRecord(trace[n], record)]
  <2>1. file \in Seq(T) /\ channel \in Seq(T) /\ record \in T
    BY <1>1
  <2>2. SequencesOK'
    <3>1. file' \in Seq(T) /\ channel' \in Seq(T)
      BY <1>4, <2>1
    <3> QED
      BY <3>1 DEF SequencesOK
  <2>3. /\ n \in Nat /\ Len(Unread') = n + 1
        /\ \A i \in 1 .. n : Unread'[i] = Unread[i]
        /\ Unread'[n + 1] = record
    BY <1>4, <2>1 DEF Unread
  <2>4. /\ longer[0] = trace[0] /\ longer[n] = trace[n]
        /\ longer[n + 1] = AfterRecord(trace[n], record)
        /\ \A i \in 1 .. n : longer[i] = trace[i] /\ longer[i - 1] = trace[i - 1]
    BY <2>3
  <2>5. IsTruthful(trace[n], record)
    BY <1>2 DEF IsTruthful
  <2> HIDE DEF longer, n
  <2>6. \A i \in 1 .. (n + 1) : /\ longer[i] = AfterRecord(longer[i - 1], Unread'[i])
                               /\ IsTruthful(longer[i - 1], Unread'[i])
    <3> TAKE i \in 1 .. (n + 1)
    <3>1. CASE i \in 1 .. n
      BY <3>1, <1>2, <2>3, <2>4 DEF IsTrace, n
    <3>2. CASE i = n + 1
      <4>1. i - 1 = n
        BY <2>3, <3>2
      <4> QED
        BY <3>2, <4>1, <2>3, <2>4, <2>5
    <3> QED
      BY <3>1, <3>2, <2>3
  <2>7. longer[0] = ToolState' /\ (complete' => longer[n + 1] = LiveState')
    BY <1>2, <1>4, <2>4 DEF n
  <2>8. TraceInv'
    <3>1. \A i \in 1 .. Len(Unread') : /\ longer[i] = AfterRecord(longer[i - 1], Unread'[i])
                                      /\ IsTruthful(longer[i - 1], Unread'[i])
      BY <2>3, <2>6
    <3> QED
      BY <2>3, <2>7, <3>1 DEF TraceInv, IsTrace, AfterRecord, IsTruthful, IsServerEvent
  <2> QED
    BY <2>2, <2>8
<1> QED
  BY <1>3, <1>4 DEF Capture

\* The tool's step takes one record off, and the trace goes on from there.
LEMMA ReplayingKeepsInv ==
  ASSUME ReplayInv, ReplayLine
  PROVE  ReplayInv'
<1>1. PICK S : file \in Seq(S) /\ channel \in Seq(S)
  BY DEF ReplayInv, SequencesOK
<1>2. PICK trace : trace[0] = ToolState /\ IsTrace(trace, Unread)
  BY DEF ReplayInv, TraceInv
<1>3. ~running' /\ channel = <<>> /\ channel' = <<>> /\ file # <<>> /\ file' = Tail(file)
  BY DEF ReplayLine, writerVars
<1>4. SequencesOK'
  <2>1. file' \in Seq(S) /\ channel' \in Seq(S)
    BY <1>1, <1>3
  <2> QED
    BY <2>1 DEF SequencesOK
<1> DEFINE record == Head(file)
           n == Len(file)
<1>5. /\ n \in Nat \ {0} /\ Len(Unread) = n /\ Len(Unread') = n - 1
      /\ Unread[1] = record
      /\ \A i \in 1 .. (n - 1) : Unread'[i] = Unread[i + 1]
  <2>1. Unread = file /\ Unread' = Tail(file)
    BY <1>1, <1>3 DEF Unread
  <2> QED
    BY <1>1, <1>3, <2>1
<1>6. trace[1] = AfterRecord(ToolState, record) /\ IsTruthful(ToolState, record)
  <2>1. 1 \in 1 .. Len(Unread) /\ 1 - 1 = 0
    BY <1>5
  <2> QED
    BY <1>2, <1>5, <2>1, Zenon DEF IsTrace
<1>7. ToolState' = AfterRecord(ToolState, record) /\ ReplayIsTheSession'
  <2>1. CASE IsServerEvent(record) /\ record.event = Asks
    <3>1. /\ replayed' = [facts |-> FactsOf(ToolState), live |-> record.live,
                          complete |-> record.complete]
          /\ UNCHANGED replayVars
      BY <2>1, FactsAreOfState DEF ReplayLine
    <3> QED
      BY <2>1, <3>1, <1>6 DEF replayVars, ToolState, AfterRecord, IsTruthful, ReplayIsTheSession
  <2>2. CASE IsServerEvent(record) /\ record.event # Asks
    <3>1. Replayed!OnEvent(record.event) /\ replayed' = replayed
      BY <2>2 DEF ReplayLine
    <3> QED
      BY <2>2, <3>1, ToolFollows DEF AfterRecord, ReplayIsTheSession, ReplayInv
  <2>3. CASE ~IsServerEvent(record)
    <3>1. UNCHANGED <<replayed, replayVars>>
      BY <2>3 DEF ReplayLine
    <3> QED
      BY <2>3, <3>1 DEF replayVars, ToolState, AfterRecord, ReplayIsTheSession, ReplayInv
  <2> QED
    BY <2>1, <2>2, <2>3
<1>8. TraceInv'
  <2> DEFINE rest == [i \in 0 .. (n - 1) |-> trace[i + 1]]
  <2>1. rest[0] = ToolState'
    BY <1>5, <1>6, <1>7
  <2>2. \A i \in 1 .. (n - 1) : /\ rest[i] = AfterRecord(rest[i - 1], Unread'[i])
                               /\ IsTruthful(rest[i - 1], Unread'[i])
    <3> TAKE i \in 1 .. (n - 1)
    <3>1. i + 1 \in 1 .. Len(Unread) /\ (i + 1) - 1 = i
      BY <1>5
    <3>2. rest[i] = trace[i + 1] /\ rest[i - 1] = trace[i]
      BY <1>5
    <3>3. trace[i + 1] = AfterRecord(trace[i], Unread[i + 1]) /\ IsTruthful(trace[i], Unread[i + 1])
      BY <1>2, <3>1, Zenon DEF IsTrace
    <3> QED
      BY <1>5, <3>2, <3>3, Zenon
  <2> HIDE DEF rest
  <2>3. \A i \in 1 .. Len(Unread') : /\ rest[i] = AfterRecord(rest[i - 1], Unread'[i])
                                    /\ IsTruthful(rest[i - 1], Unread'[i])
    BY <1>5, <2>2
  <2> QED
    BY <1>3, <2>1, <2>3 DEF TraceInv, IsTrace, AfterRecord, IsTruthful, IsServerEvent
<1> QED
  BY <1>4, <1>7, <1>8 DEF ReplayInv

LEMMA ReplayInvStep == ReplayInv /\ [SessionNext]_sessionVars => ReplayInv'
<1> SUFFICES ASSUME ReplayInv, [SessionNext]_sessionVars PROVE ReplayInv'
  OBVIOUS
<1>1. ASSUME NEW e \in ServerEvents \cup {Asks}, Receive(e)
      PROVE  ReplayInv'
  <2> DEFINE record == CaptureRecord("server", e)
  <2>1. /\ Capture(record) /\ OnEvent(e) /\ running
        /\ UNCHANGED <<toolVars, running>>
    BY <1>1 DEF Receive
  <2>2. UNCHANGED <<file, replayed, ToolState, running>>
    BY <2>1 DEF toolVars, replayVars, ToolState
  <2>3. LiveState' = AfterRecord(LiveState, record)
    <3>1. LiveState' = After(LiveState, e)
      BY <2>1, LiveFollows
    <3>2. After(LiveState, Asks) = LiveState
      BY DEF After, Asks, SessionEvent
    <3> QED
      BY <3>1, <3>2 DEF AfterRecord, CaptureRecord, IsServerEvent
  <2>4. IsTruthful(LiveState, record) /\ record.complete = complete
    BY FactsAreOfState DEF IsTruthful, CaptureRecord
  <2>5. SequencesOK' /\ TraceInv'
    <3> HIDE DEF record
    <3> QED
      BY <2>1, <2>2, <2>3, <2>4, CapturingKeepsTrace DEF ReplayInv
  <2> QED
    BY <2>2, <2>5 DEF ReplayInv, ReplayIsTheSession
<1>2. ASSUME NEW action \in ClientActions, NEW ron_legal \in BOOLEAN, Answer(action, ron_legal)
      PROVE  ReplayInv'
  <2> DEFINE record == CaptureRecord("client", action)
  <2>1. /\ Capture(record) /\ OnActionResponse(ron_legal, action.type = "hora") /\ running
        /\ UNCHANGED <<toolVars, running>>
    BY <1>2 DEF Answer
  <2>2. UNCHANGED <<file, replayed, ToolState, running>>
    BY <2>1 DEF toolVars, replayVars, ToolState
  <2>3. LiveState' = AfterRecord(LiveState, record)
    BY <2>1 DEF OnActionResponse, reachVars, passedVars, LiveState, AfterRecord, CaptureRecord, IsServerEvent
  <2>4. IsTruthful(LiveState, record) /\ record.complete = complete
    BY DEF IsTruthful, CaptureRecord, IsServerEvent
  <2>5. SequencesOK' /\ TraceInv'
    <3> HIDE DEF record
    <3> QED
      BY <2>1, <2>2, <2>3, <2>4, CapturingKeepsTrace DEF ReplayInv
  <2> QED
    BY <2>2, <2>5 DEF ReplayInv, ReplayIsTheSession
<1>3. CASE Withhold \/ UNCHANGED sessionVars
  <2>1. UNCHANGED <<file, channel, complete, running, replayed, ToolState, LiveState>>
    BY <1>3 DEF Withhold, sessionVars, trackerVars, writerVars, toolVars, replayVars, ToolState,
                LiveState, reachVars, passedVars
  <2> QED
    BY <2>1 DEF ReplayInv, SequencesOK, TraceInv, Unread, ReplayIsTheSession, IsTrace, AfterRecord,
                IsTruthful, IsServerEvent
<1>4. CASE WriteLine
  <2>1. /\ channel # <<>> /\ file' = Append(file, Head(channel)) /\ channel' = Tail(channel)
        /\ UNCHANGED <<complete, running, replayed, ToolState, LiveState>>
    BY <1>4 DEF WriteLine, trackerVars, replayVars, ToolState, LiveState, reachVars, passedVars
  <2>2. PICK S : file \in Seq(S) /\ channel \in Seq(S)
    BY DEF ReplayInv, SequencesOK
  <2>3. Unread' = Unread
    BY <2>1, <2>2 DEF Unread
  <2>4. SequencesOK'
    <3>1. file' \in Seq(S) /\ channel' \in Seq(S)
      BY <2>1, <2>2
    <3> QED
      BY <3>1 DEF SequencesOK
  <2> QED
    BY <2>1, <2>3, <2>4 DEF ReplayInv, TraceInv, ReplayIsTheSession, IsTrace, AfterRecord,
                            IsTruthful, IsServerEvent
<1>5. CASE End
  <2>1. /\ ~running' /\ channel' \in {channel, <<>>}
        /\ UNCHANGED <<file, replayed, ToolState>>
    BY <1>5 DEF End, toolVars, replayVars, ToolState
  <2>2. PICK S : file \in Seq(S) /\ channel \in Seq(S)
    BY DEF ReplayInv, SequencesOK
  <2>3. channel' \in Seq(S) /\ file' \in Seq(S)
    <3>1. <<>> \in Seq(S)
      OBVIOUS
    <3>2. channel' \in Seq(S)
      BY <2>1, <2>2, <3>1, Zenon
    <3> QED
      BY <2>1, <2>2, <3>2
  <2>4. /\ Len(Unread') \in Nat /\ Len(Unread) \in Nat /\ Len(Unread') <= Len(Unread)
        /\ \A i \in 1 .. Len(Unread') : Unread'[i] = Unread[i]
    BY <2>1, <2>2 DEF Unread
  <2>5. PICK trace : trace[0] = ToolState /\ IsTrace(trace, Unread)
    BY DEF ReplayInv, TraceInv
  <2>6. \A i \in 1 .. Len(Unread') : /\ trace[i] = AfterRecord(trace[i - 1], Unread'[i])
                                    /\ IsTruthful(trace[i - 1], Unread'[i])
    BY <2>4, <2>5 DEF IsTrace
  <2>7. TraceInv'
    BY <2>1, <2>5, <2>6 DEF TraceInv, IsTrace, AfterRecord, IsTruthful, IsServerEvent
  <2> QED
    BY <2>1, <2>3, <2>7 DEF ReplayInv, SequencesOK, ReplayIsTheSession
<1>6. CASE ReplayLine
  BY <1>6, ReplayingKeepsInv
<1> QED
  BY <1>1, <1>2, <1>3, <1>4, <1>5, <1>6 DEF SessionNext

(* A request is replayed with the facts the live client had when it was asked,   *)
(* unless the writer had dropped something before it (replay.rs, capture.rs).    *)
THEOREM ReplayCorrect == SessionSpec => []ReplayIsTheSession
<1>1. ReplayInv => ReplayIsTheSession
  BY DEF ReplayInv
<1> QED
  BY <1>1, ReplayInvInit, ReplayInvStep, PTL DEF SessionSpec
=============================================================================
