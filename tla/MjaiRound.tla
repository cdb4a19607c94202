------------------------------ MODULE MjaiRound ------------------------------
(***************************************************************************)
(* The tracker of ValidationState listening to a real round: the server    *)
(* sends the events of MJAI in an order the rules allow, and none is lost. *)
(* The server is external; it is modelled from the events the client       *)
(* accepts (src/protocol.rs) and from the sequences its tests feed.        *)
(*                                                                         *)
(* "log" is the whole round so far.  The tracker never keeps it: the       *)
(* properties below say that the few fields it does keep are, at every     *)
(* moment, exactly what the whole history would tell.                      *)
(***************************************************************************)
EXTENDS ValidationState, Sequences, FiniteSetsExt

CONSTANTS
  Me,       \* our seat
  MaxLog    \* bound: events of one round

ASSUME RoundAssumption == /\ Players = 0..(Cardinality(Players) - 1)
                          /\ Me \in Players
                          /\ MaxLog \in Nat

VARIABLES
  stage,    \* [kind, player]: who may do what next; the kinds are over, draw,
            \* turn, declared, called, discarded and kan
  log       \* the events of the round and the wins we passed up

roundVars == <<stage, log>>
vars == <<trackerVars, roundVars>>

\* The kinds of a log entry: tsumo, reach, dahai, open (chi, pon, daiminkan),
\* ankan, kakan, missed (a win we passed up) and hora.
Event(kind, actor, tile, drawn) ==
  [kind |-> kind, actor |-> actor, tile |-> tile, drawn |-> drawn]
Record(kind, actor, tile, drawn) ==
  /\ Len(log) < MaxLog
  /\ log' = Append(log, Event(kind, actor, tile, drawn))
Go(kind, player) == stage' = [kind |-> kind, player |-> player]
At(kind, player) == stage = [kind |-> kind, player |-> player]

NextSeat(p) == (p + 1) % Cardinality(Players)

------------------------------------------------------------------------------
(* What the history says.  These read the log only, never the tracker. *)

Moments == DOMAIN log
IsCall(i) == log[i].kind \in {"ankan", "open", "kakan"}
IsRonChance(i) == log[i].kind \in {"dahai", "kakan"}

\* The discard that completed p's riichi declaration, if there is one.
RiichiDiscards(p) ==
  {i \in Moments : /\ log[i].kind = "dahai" /\ log[i].actor = p
                   /\ i > 1 /\ log[i - 1] = Event("reach", p, Hidden, FALSE)}
Riichi(p) == RiichiDiscards(p) # {}

\* Nobody had called and p had not discarded before the declaring discard.
WasDoubleRiichi(p) ==
  \A r \in RiichiDiscards(p), i \in Moments :
    i < r => ~IsCall(i) /\ ~(log[i].kind = "dahai" /\ log[i].actor = p)

\* No call and no draw of p since the declaring discard.
HasIppatsu(p) ==
  \E r \in RiichiDiscards(p) : \A i \in Moments :
    i > r => ~IsCall(i) /\ ~(log[i].kind = "tsumo" /\ log[i].actor = p)

\* Nobody won on the tile of moment i: the round went on.
Passed(i) == \E j \in Moments : j > i /\ log[j].kind \notin {"missed", "hora"}

LastMoment(S) == IF S = {} THEN 0 ELSE Max(S)
LastDrawOrCall(p) ==
  LastMoment({i \in Moments : log[i].actor = p /\ (log[i].kind = "tsumo" \/ IsCall(i))})
LastHandChange(p) ==
  LastMoment({i \in Moments :
    log[i].actor = p /\ (IsCall(i) \/ (log[i].kind = "dahai" /\ ~log[i].drawn))})
PassedSince(p, since) ==
  {log[i].tile : i \in {k \in Moments : /\ k > since /\ IsRonChance(k)
                                        /\ log[k].actor # p /\ Passed(k)}}

\* Our discards that followed a draw of our own, not a chi or a pon.
DrawDiscards ==
  {d \in Moments : /\ log[d].kind = "dahai" /\ log[d].actor = Me
                   /\ \E i \in Moments :
                        /\ i < d /\ log[i].kind = "tsumo" /\ log[i].actor = Me
                        /\ \A k \in i..(d - 1) : ~(log[k].kind = "dahai" /\ log[k].actor = Me)}
MissedWins == {i \in Moments : log[i].kind = "missed"}

\* Calls that opened p's hand: no riichi afterwards.
Opened(p) == \E i \in Moments : log[i].kind \in {"open", "kakan"} /\ log[i].actor = p

------------------------------------------------------------------------------
(* The server's events, each with the handler it reaches. *)

StartGame ==
  /\ seat_id = None
  /\ OnStartGame(Me)
  /\ UNCHANGED roundVars

StartKyoku(dealer) ==
  /\ seat_id # None
  /\ stage.kind = "over"
  /\ OnStartKyoku
  /\ Go("draw", dealer)
  /\ log' = <<>>

\* The server shows us our own draw and hides everybody else's.
Tsumo(p, pai) ==
  /\ \/ At("draw", p)
     \/ At("kan", p)
     \/ \E q \in Players : At("discarded", q) /\ p = NextSeat(q)
  /\ IF p = Me THEN pai \in Tiles ELSE pai = Hidden
  /\ OnTsumo(p, pai)
  /\ Record("tsumo", p, pai, FALSE)
  /\ Go("turn", p)

Reach(p) ==
  /\ At("turn", p)
  /\ ~Riichi(p) /\ ~Opened(p)
  /\ OnReach(p)
  /\ Record("reach", p, Hidden, FALSE)
  /\ Go("declared", p)

\* A player in riichi discards what it draws; after a chi or pon nothing was
\* drawn.
Dahai(p, pai, tsumogiri) ==
  /\ \/ At("turn", p) /\ (Riichi(p) => tsumogiri)
     \/ At("declared", p)
     \/ At("called", p) /\ ~tsumogiri
  /\ OnDahai(p, pai, tsumogiri)
  /\ Record("dahai", p, pai, tsumogiri)
  /\ Go("discarded", p)

\* Chi is for the next seat only; nothing here depends on which of the two.
ChiOrPon(p) ==
  /\ \E q \in Players \ {p} : At("discarded", q)
  /\ ~Riichi(p)
  /\ OnCall(p)
  /\ Record("open", p, Hidden, FALSE)
  /\ Go("called", p)

Daiminkan(p) ==
  /\ \E q \in Players \ {p} : At("discarded", q)
  /\ ~Riichi(p)
  /\ OnCall(p)
  /\ Record("open", p, Hidden, FALSE)
  /\ Go("kan", p)

Ankan(p) ==
  /\ At("turn", p)
  /\ OnCall(p)
  /\ Record("ankan", p, Hidden, FALSE)
  /\ Go("kan", p)

Kakan(p, pai) ==
  /\ At("turn", p) /\ Opened(p)
  /\ OnKakan(p, pai)
  /\ Record("kakan", p, pai, FALSE)
  /\ Go("kan", p)

\* A win on a discard or on a kakan; more than one player may win.
Hora(p) ==
  /\ \/ stage.kind = "over" /\ log # <<>> /\ log[Len(log)].kind = "hora"
     \/ stage.kind \in {"discarded", "kan"} /\ stage.player # p
        /\ log # <<>> /\ IsRonChance(LastMoment({i \in Moments : log[i].kind # "missed"}))
     \/ At("turn", p)
  /\ OnHora
  /\ Record("hora", p, Hidden, FALSE)
  /\ Go("over", p)

\* A draw, an abortive draw or a penalty: the server may stop the round at any
\* moment, between a declaration and its discard too.
Ryukyoku ==
  /\ stage.kind # "over"
  /\ stage' = [stage EXCEPT !.kind = "over"]
  /\ UNCHANGED <<trackerVars, log>>

\* We are offered the win on somebody's tile and answer something else.
PassWin ==
  /\ stage.kind \in {"discarded", "kan"} /\ stage.player # Me
  /\ log # <<>> /\ IsRonChance(Len(log))
  /\ OnActionResponse(TRUE, FALSE)
  /\ Record("missed", Me, Hidden, FALSE)
  /\ UNCHANGED stage

\* We are offered the win on our own draw and go on.
PassOwnDraw ==
  /\ At("turn", Me)
  /\ OnActionResponse(TRUE, FALSE)
  /\ UNCHANGED roundVars

RoundInit ==
  /\ Init
  /\ stage = [kind |-> "over", player |-> Me]
  /\ log = <<>>

RoundNext ==
  \/ StartGame
  \/ Ryukyoku
  \/ PassWin
  \/ PassOwnDraw
  \/ \E p \in Players :
       \/ StartKyoku(p)
       \/ Reach(p)
       \/ ChiOrPon(p)
       \/ Daiminkan(p)
       \/ Ankan(p)
       \/ Hora(p)
       \/ \E pai \in Tiles : Kakan(p, pai)
       \/ \E pai \in Faces : Tsumo(p, pai)
       \/ \E pai \in Tiles, tsumogiri \in BOOLEAN : Dahai(p, pai, tsumogiri)

RoundSpec == RoundInit /\ [][RoundNext]_vars

------------------------------------------------------------------------------
(* The tracker against the history. *)

RoundSeen == temporary_passed_tiles # None

\* A seat has declared riichi, stands in riichi, and its riichi is a double riichi,
\* exactly when the history says so, also after the first turn is long over.
RiichiIsTracked ==
  RoundSeen => \A p \in Players :
    /\ pending_reach[p] = (log # <<>> /\ log[Len(log)] = Event("reach", p, Hidden, FALSE))
    /\ active_reach[p] = Riichi(p)
    /\ declared_double_riichi[p] =
         IF Riichi(p) THEN FactOf(WasDoubleRiichi(p)) ELSE "unknown"

\* The one-shot window of a seat is open from its declaring discard to its next
\* draw or to anybody's call, kans included.
IppatsuIsTracked ==
  RoundSeen => \A p \in Players : ippatsu[p] = FactOf(HasIppatsu(p))

\* The two passed-tile maps hold the tiles on which a seat could have won and did
\* not, since its last draw or call, and since its hand last changed; a tile that
\* may still be won on is in neither.  post_reach_passed_tiles are the tiles the
\* others discarded after the riichi: the declaring discard itself is not safe.
PassedTilesAreTracked ==
  RoundSeen => \A p \in Players :
    /\ temporary_passed_tiles[p] = PassedSince(p, LastDrawOrCall(p))
    /\ same_hand_passed_tiles[p] = PassedSince(p, LastHandChange(p))
    /\ post_reach_passed_tiles[p] =
         {log[i].tile : i \in {k \in Moments :
            /\ log[k].kind = "dahai" /\ log[k].actor # p
            /\ \E r \in RiichiDiscards(p) : k > r}}

\* Same-turn furiten lasts from a missed win to our next discard after a draw of
\* our own; a discard after a chi or a pon does not end it.  Riichi furiten lasts
\* from a win missed in riichi to the end of the round.
FuritenIsTracked ==
  RoundSeen =>
    /\ history_furiten.same_turn =
         FactOf(\E m \in MissedWins : \A d \in DrawDiscards : d < m)
    /\ history_furiten.riichi_missed_win =
         FactOf(\E m \in MissedWins : \E r \in RiichiDiscards(Me) : r < m)

\* The source a reaction is answered to is the seat whose tile may still be won
\* on, and there is none once the round has moved on.
ReactionSourceIsCurrent ==
  RoundSeen =>
    LET last == LastMoment({i \in Moments : log[i].kind # "missed"})
    IN  IF last # 0 /\ IsRonChance(last)
        THEN /\ pending_passed_tile # None
             /\ pending_passed_tile = [actor |-> log[last].actor, tile |-> log[last].tile]
        ELSE pending_passed_tile = None
==============================================================================
