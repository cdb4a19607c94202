---------------------------- MODULE SessionReplay ----------------------------
(***************************************************************************)
(* A captured session and its replay (riichilab-client/src/capture.rs,     *)
(* bot-scenario/src/replay.rs).  The live client hands every event it has  *)
(* interpreted and every action it has sent to a writer that never waits:  *)
(* a bounded channel, emptied by a thread that appends to the file.  The   *)
(* offline tool reads the file from the top, feeds the server's events to  *)
(* a tracker of its own and notes the facts at each request.               *)
(*                                                                         *)
(* The tracker occurs twice: the live one under the names of               *)
(* ValidationState, the one of the tool in the variables that start with   *)
(* r_.  An event the live client cannot interpret is neither tracked nor   *)
(* captured and does not occur.                                            *)
(***************************************************************************)
EXTENDS ValidationState, Sequences

CONSTANTS
  Capacity,   \* lines the channel of the writer holds
  MaxEvents   \* bound: events of a session

ASSUME CapacityAssumption == Capacity \in Nat \ {0} /\ MaxEvents \in Nat

VARIABLES
  channel,    \* records handed to the writer, not in the file yet
  file,       \* records in the file the tool has not read yet
  complete,   \* no record was dropped so far
  asked,      \* the client has a request to answer
  running,    \* the client runs
  events,     \* number of events received
  replayed,   \* the request read last: its facts live and replayed, or None
  r_seat_id, r_last_tsumo, r_pending_reach, r_active_reach, r_declared_double_riichi,
  r_ippatsu, r_first_turn, r_post_reach_passed_tiles, r_temporary_passed_tiles,
  r_same_hand_passed_tiles, r_pending_passed_tile, r_history_furiten,
  r_own_tsumo_pending_discard

Replayed == INSTANCE ValidationState WITH
  seat_id <- r_seat_id, last_tsumo <- r_last_tsumo, pending_reach <- r_pending_reach,
  active_reach <- r_active_reach, declared_double_riichi <- r_declared_double_riichi,
  ippatsu <- r_ippatsu, first_turn <- r_first_turn,
  post_reach_passed_tiles <- r_post_reach_passed_tiles,
  temporary_passed_tiles <- r_temporary_passed_tiles,
  same_hand_passed_tiles <- r_same_hand_passed_tiles,
  pending_passed_tile <- r_pending_passed_tile, history_furiten <- r_history_furiten,
  own_tsumo_pending_discard <- r_own_tsumo_pending_discard

writerVars == <<channel, complete>>
replayVars == <<r_seat_id, r_last_tsumo, r_pending_reach, r_active_reach,
                r_declared_double_riichi, r_ippatsu, r_first_turn,
                r_post_reach_passed_tiles, r_temporary_passed_tiles,
                r_same_hand_passed_tiles, r_pending_passed_tile, r_history_furiten,
                r_own_tsumo_pending_discard>>
toolVars == <<file, replayed, replayVars>>
sessionVars == <<trackerVars, writerVars, toolVars, asked, running, events>>

SessionEvent(type, actor, pai, tsumogiri) ==
  [type |-> type, actor |-> actor, pai |-> pai, tsumogiri |-> tsumogiri]

\* What the server may send: a seat out of range has no handler.  The drawn tile and
\* the tsumogiri flag, which no fact depends on, have one value.
ServerEvents ==
  {SessionEvent(type, None, None, FALSE) : type \in {"start_kyoku", "hora", "ryukyoku"}}
    \cup {SessionEvent(type, p, None, FALSE) : type \in {"start_game", "reach", "call"}, p \in Players}
    \cup {SessionEvent("tsumo", p, Hidden, FALSE) : p \in Players}
    \cup {SessionEvent(type, p, pai, FALSE) : type \in {"dahai", "kakan"}, p \in Players, pai \in Tiles}
Asks == SessionEvent("request_action", None, None, FALSE)

\* What we may answer for our seat.  Actions and events share their type names.
ClientActions ==
  {SessionEvent(type, seat_id, None, FALSE) : type \in {"reach", "hora", "none"}}
    \cup {SessionEvent("dahai", seat_id, pai, FALSE) : pai \in Tiles}

------------------------------------------------------------------------------
(* The live client and its writer. *)

\* The envelope.  The last two fields are history: the facts of the live tracker
\* at a request, and whether the capture is complete up to here.
CaptureRecord(direction, event) ==
  [direction |-> direction, event |-> event,
   live |-> IF event = Asks THEN SituationFacts ELSE None,
   complete |-> complete]

\* write_record: a full channel drops the record and counts it.
Capture(record) ==
  IF Len(channel) < Capacity
  THEN channel' = Append(channel, record) /\ UNCHANGED complete
  ELSE complete' = FALSE /\ UNCHANGED channel

\* The event is captured and tracked before anything else is read.
Receive(e) ==
  /\ running /\ ~asked
  /\ events < MaxEvents /\ events' = events + 1
  /\ Capture(CaptureRecord("server", e))
  /\ OnEvent(e)
  /\ asked' = (e = Asks)
  /\ UNCHANGED <<toolVars, running>>

\* The action is sent, told to the tracker, and captured.
Answer(action, ron_legal) ==
  /\ running /\ asked
  /\ OnActionResponse(ron_legal, action.type = "hora")
  /\ Capture(CaptureRecord("client", action))
  /\ asked' = FALSE
  /\ UNCHANGED <<toolVars, running, events>>

\* No legal reply: the server's default will do.
Withhold ==
  /\ running /\ asked
  /\ asked' = FALSE
  /\ UNCHANGED <<trackerVars, writerVars, toolVars, running, events>>

\* The writer's thread appends a line.
WriteLine ==
  /\ channel # <<>>
  /\ file' = Append(file, Head(channel))
  /\ channel' = Tail(channel)
  /\ UNCHANGED <<trackerVars, complete, replayed, replayVars, asked, running, events>>

\* The client ends.  Its guard lets the writer finish; a process that is killed
\* takes what was in the channel with it.
End ==
  /\ running /\ running' = FALSE
  /\ channel' \in {channel, <<>>}
  /\ UNCHANGED <<trackerVars, complete, toolVars, asked, events>>

------------------------------------------------------------------------------
(* The offline tool: it reads a file that nobody writes to any more. *)

\* Mutant: the direction of a record is guessed from the type of its event.
Mutant_IsServerEvent(record) == record.event.type # "none"

\* CaptureRecord::server_event: the direction decides, the types are shared.
IsServerEvent(record) == record.direction = "server"

\* parse_records for one line: a request notes the facts as they are, any other
\* event of the server goes to the tracker.
ReplayLine ==
  /\ ~running /\ channel = <<>>
  /\ file # <<>>
  /\ file' = Tail(file)
  /\ LET record == Head(file) IN
       \/ /\ IsServerEvent(record) /\ record.event = Asks
          /\ replayed' = [facts |-> Replayed!SituationFacts, live |-> record.live,
                          complete |-> record.complete]
          /\ UNCHANGED replayVars
       \/ /\ IsServerEvent(record) /\ record.event # Asks
          /\ Replayed!OnEvent(record.event)
          /\ UNCHANGED replayed
       \/ /\ ~IsServerEvent(record)
          /\ UNCHANGED <<replayed, replayVars>>
  /\ UNCHANGED <<trackerVars, writerVars, asked, running, events>>

SessionInit ==
  /\ Init
  /\ Replayed!Init
  /\ channel = <<>> /\ file = <<>> /\ complete = TRUE
  /\ asked = FALSE /\ running = TRUE /\ events = 0
  /\ replayed = None

SessionNext ==
  \/ \E e \in ServerEvents \cup {Asks} : Receive(e)
  \/ \E action \in ClientActions, ron_legal \in BOOLEAN : Answer(action, ron_legal)
  \/ Withhold
  \/ WriteLine
  \/ End
  \/ ReplayLine

SessionSpec == SessionInit /\ [][SessionNext]_sessionVars

------------------------------------------------------------------------------
(* What a replay is worth. *)

\* A request is replayed with the facts the client had when it was asked, as long
\* as the writer dropped nothing before it: what we sent in between, requests
\* without an answer, and a session cut off later make no difference.  (The file does
\* not show that a record is missing: facts of an incomplete history look known.)
ReplayIsTheSession ==
  replayed # None /\ replayed.complete => replayed.facts = replayed.live
==============================================================================
