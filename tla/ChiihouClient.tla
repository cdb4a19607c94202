---------------------------- MODULE ChiihouClient ----------------------------
(***************************************************************************)
(* The request loop of chiihou-client (src/runtime.rs) with its lifecycle  *)
(* controller (src/controller.rs), the table it keeps (ChiihouMatchState)  *)
(* and the event ids it has seen (src/event.rs), between a chiihou server  *)
(* and the Nostr relays.                                                   *)
(*                                                                         *)
(* Every relay delivers the events the server published, so that each may  *)
(* arrive several times; if ~Ordered, first arrivals come in any order,    *)
(* and some never.  The loop is serial: while a reply or a next waits out  *)
(* the response delay, nothing is received.  An event id is the position   *)
(* of the note in "published".                                             *)
(*                                                                         *)
(* Outside the repository, modelled from how its code uses them: the       *)
(* server (Serve...) and the relays (arrived, ToArrive, Shutdown).         *)
(***************************************************************************)
EXTENDS ChiihouMatchState

CONSTANTS
  AutoNext,       \* --auto-next
  Ordered,        \* whether events first arrive in the order of publication
  TableNotes,     \* the table notifications the server may publish
  MaxNotes        \* bound: events published

ASSUME OptionAssumption == {AutoNext, Ordered} \subseteq BOOLEAN /\ MaxNotes \in Nat

ASSUME NoteAssumption ==
  \A note \in TableNotes :
    note.kind \in {"tsumo", "sutehai"} /\ note.player \in Everyone /\ note.tile \in Pais

\* Nothing that waits to be published is the marker for nothing.
ASSUME TaskAssumption == None \notin [kind : {"reply", "next"}, event : Nat]

VARIABLES
  published,                    \* the server's events
  arrived,                      \* the ids the relays have delivered to us
  status,                       \* of the loop
  seen,                         \* SeenEventIds
  next_sent_for_current_kyoku,
  outgoing,                     \* what waits to be published, or None
  sent                          \* what we published

loopVars == <<status, seen, next_sent_for_current_kyoku, outgoing, sent>>
clientVars == <<published, arrived, loopVars, stateVars>>

------------------------------------------------------------------------------
(* The server. *)

Note(kind) == [kind |-> kind]
LifecycleKinds == {"gamestart", "kyokustart", "kyokuend", "gameend"}

\* The last lifecycle notification, which tells where the game is.
Stage ==
  LET lifecycle == {id \in DOMAIN published : published[id].kind \in LifecycleKinds}
  IN  IF lifecycle = {} THEN "recruiting" ELSE published[Max(lifecycle)].kind

Serve(note) ==
  /\ Len(published) < MaxNotes
  /\ published' = Append(published, note)
  /\ UNCHANGED <<arrived, loopVars, stateVars>>

ServeGameStart ==
  \E seating \in Seatings :
    Stage = "recruiting" /\ Serve([kind |-> "gamestart", players |-> seating])

\* The next round starts on somebody's next, which need not be ours.
ServeKyokuStart ==
  \E announced \in Rounds :
    Stage \in {"gamestart", "kyokuend"} /\ Serve([kind |-> "kyokustart", round |-> announced])

\* The end of a round may be announced again.
ServeKyokuEnd == Stage \in {"kyokustart", "kyokuend"} /\ Serve(Note("kyokuend"))
ServeGameEnd == Stage = "kyokuend" /\ Serve(Note("gameend"))

ServeTableNote == \E note \in TableNotes : Stage = "kyokustart" /\ Serve(note)

\* What a request leads to: no reply, one that cannot be signed, or one that can.
ReplyKinds == {"none", "unsigned", "signed"}

\* A request; a note to somebody else, or one that cannot be parsed.
ServeRequest ==
  \E reply \in ReplyKinds :
    Stage = "kyokustart" /\ Serve([kind |-> "request", reply |-> reply])
ServeOther == \E kind \in {"foreign", "unreadable"} : Serve(Note(kind))

ServerStep ==
  \/ ServeGameStart \/ ServeKyokuStart \/ ServeKyokuEnd \/ ServeGameEnd
  \/ ServeTableNote \/ ServeRequest \/ ServeOther

\* The ids a relay may deliver now.
ToArrive ==
  {id \in DOMAIN published : Ordered => \A earlier \in 1..(id - 1) : earlier \in arrived}

------------------------------------------------------------------------------
(* The client. *)

ClientInit ==
  /\ published = <<>> /\ arrived = {}
  /\ status = "listening" /\ seen = {}
  /\ next_sent_for_current_kyoku = FALSE
  /\ outgoing = None /\ sent = <<>>
  /\ Init

\* Mutant: the id is looked up but not recorded.
Mutant_SeenAfter(id) == seen

\* should_handle_event: for us, from the server, in our channel; and not seen yet.
SeenAfter(id) == IF published[id].kind = "foreign" THEN seen ELSE seen \cup {id}

ShouldHandle(id) == published[id].kind # "foreign" /\ id \notin seen

Reply(id) == [kind |-> "reply", event |-> id]
PublishNext(id) == [kind |-> "next", event |-> id]

\* After the response delay the task is published (sleep_response_delay).
Wait(task) == outgoing' = task /\ status' = "delayed" /\ UNCHANGED sent
Listen == UNCHANGED <<outgoing, status, sent>>

\* kyoku_end_effect
KyokuEndEffect(id) ==
  IF ~AutoNext \/ next_sent_for_current_kyoku
  THEN Listen /\ UNCHANGED next_sent_for_current_kyoku
  ELSE Wait(PublishNext(id)) /\ next_sent_for_current_kyoku' = TRUE

\* Mutant: only the start of the game resets the flag.
Mutant_OnStart(note) ==
  Listen /\ next_sent_for_current_kyoku' = (next_sent_for_current_kyoku /\ note.kind # "gamestart")

OnStart(note) == Listen /\ next_sent_for_current_kyoku' = FALSE

\* ChiihouLifecycleController::apply and the loop's arm for its effect.
OnLifecycle(id, note) ==
  \/ note.kind = "gamestart" /\ ApplyGameStart(note.players) /\ OnStart(note)
  \/ note.kind = "kyokustart" /\ ApplyKyokuStart(note.round) /\ OnStart(note)
  \/ note.kind = "kyokuend" /\ ApplyKyokuEnd /\ KyokuEndEffect(id)
  \/ /\ note.kind = "gameend" /\ ApplyGameEnd
     /\ status' = "stopped"
     /\ UNCHANGED <<next_sent_for_current_kyoku, outgoing, sent>>

\* A rejected notification is logged and dropped.
Rejected(note) ==
  IF note.kind = "tsumo" THEN note.player # Me ELSE ~AtTable(note.player)

OnTableNote(note) ==
  /\ \/ note.kind = "tsumo" /\ ApplyTsumo(note.player, note.tile)
     \/ note.kind = "sutehai" /\ ApplySutehai(note.player, note.tile)
     \/ note.kind \in {"tsumo", "sutehai"} /\ Rejected(note) /\ UNCHANGED stateVars
  /\ Listen /\ UNCHANGED next_sent_for_current_kyoku

\* The reply is made from the table as it is now; whether it can be signed is found
\* out after the delay.  A request without a reply, and anything that cannot be
\* parsed, is logged and forgotten.
OnOther(id, note) ==
  /\ \/ note.kind = "request" /\ note.reply # "none" /\ Wait(Reply(id))
     \/ note.kind = "request" /\ note.reply = "none" /\ Listen
     \/ note.kind = "unreadable" /\ Listen
  /\ UNCHANGED <<next_sent_for_current_kyoku, stateVars>>

Receive(id) ==
  /\ status = "listening" /\ id \in ToArrive
  /\ arrived' = arrived \cup {id}
  /\ seen' = SeenAfter(id)
  /\ IF ShouldHandle(id)
     THEN LET note == published[id]
          IN  OnLifecycle(id, note) \/ OnTableNote(note) \/ OnOther(id, note)
     ELSE Listen /\ UNCHANGED <<next_sent_for_current_kyoku, stateVars>>
  /\ UNCHANGED published

\* Mutant: when no relay takes the event, the loop goes on without it.
Mutant_Publish(succeeds) ==
  /\ sent' = IF succeeds THEN Append(sent, outgoing) ELSE sent
  /\ outgoing' = None /\ status' = "listening"

\* At least one relay took the event, or none: then the client gives up.
Publish(succeeds) ==
  IF succeeds
  THEN sent' = Append(sent, outgoing) /\ outgoing' = None /\ status' = "listening"
  ELSE status' = "failed" /\ UNCHANGED <<sent, outgoing>>

\* A reply that cannot be signed is logged and dropped; the loop goes on.
CannotSign == outgoing.kind = "reply" /\ published[outgoing.event].reply = "unsigned"
DropReply == outgoing' = None /\ status' = "listening" /\ UNCHANGED sent

\* A next that cannot be signed ends the client, like a publication that fails.
EndDelay ==
  /\ status = "delayed"
  /\ \/ CannotSign /\ DropReply
     \/ ~CannotSign /\ \E succeeds \in BOOLEAN : Publish(succeeds)
  /\ UNCHANGED <<published, arrived, seen, next_sent_for_current_kyoku, stateVars>>

\* The SDK shut down, or its stream of notifications ended.
Shutdown ==
  /\ status = "listening"
  /\ status' = "stopped"
  /\ UNCHANGED <<published, arrived, seen, next_sent_for_current_kyoku, outgoing, sent, stateVars>>

ClientNext ==
  \/ ServerStep
  \/ \E id \in DOMAIN published : Receive(id)
  \/ EndDelay
  \/ Shutdown

\* What was published first arrives, if in order, and a delay ends.
FirstArrival == \E id \in ToArrive \ arrived : Receive(id)

ClientSpec ==
  ClientInit /\ [][ClientNext]_clientVars /\ WF_clientVars(FirstArrival) /\ WF_clientVars(EndDelay)

------------------------------------------------------------------------------
(* Properties. *)

\* What was published or waits to be.
Issued == ToSet(sent) \cup ({outgoing} \ {None})
NextsIssued == {task \in Issued : task.kind = "next"}

\* The kyoku an event belongs to, named by the event that started it.
KyokuOf(id) ==
  Max({0} \cup {start \in DOMAIN published : start <= id /\ published[start].kind = "kyokustart"})
EndsArrived == {id \in arrived : published[id].kind = "kyokuend"}

\* --auto-next publishes exactly one next for each round whose end arrived, however
\* often its end is announced or delivered.
OneNextPerKyoku ==
  AutoNext =>
    /\ \A end \in EndsArrived :
         Cardinality({task \in NextsIssued : KyokuOf(task.event) = KyokuOf(end)}) = 1
    /\ \A task \in NextsIssued : task.event \in EndsArrived
    /\ \A i, j \in DOMAIN sent : sent[i] = sent[j] => i = j

\* A request is answered at most once, and the answers go out in the order of the
\* requests.
RepliesInOrder ==
  \A i, j \in DOMAIN sent : i < j /\ sent[i].kind = sent[j].kind => sent[i].event < sent[j].event

\* The discards of the current round that arrived.
StartKinds == {"gamestart", "kyokustart"}
RoundDiscards(seat) ==
  {id \in arrived : /\ published[id].kind = "sutehai" /\ SeatOf(published[id].player) = seat
                    /\ \A start \in arrived : published[start].kind \in StartKinds => start < id}

\* The rivers hold the discards of the current round that arrived, each of them
\* once and in order, although relays repeat them: also one that was rejected
\* because we do not hold the tile, and none of an earlier round.
RiversHoldTheRound ==
  \A seat \in Seats :
    /\ Len(discards[seat]) = Cardinality(RoundDiscards(seat))
    /\ \A id \in RoundDiscards(seat) :
         LET nth == Cardinality({earlier \in RoundDiscards(seat) : earlier <= id})
         IN  discards[seat][nth] = published[id].tile

Quit == status \in {"stopped", "failed"}

\* Every request whose reply can be signed is answered, though others before it
\* cannot, and every round that ends gets its next, unless the client gives up, is
\* shut down or the game ends first.
PublishedTasksAreDone ==
  \A id \in 1..MaxNotes :
    /\ id \in DOMAIN published /\ published[id] = [kind |-> "request", reply |-> "signed"]
         ~> Quit \/ Reply(id) \in ToSet(sent)
    /\ AutoNext /\ id \in DOMAIN published /\ published[id].kind = "kyokuend"
         ~> Quit \/ \E task \in ToSet(sent) :
                      task.kind = "next" /\ KyokuOf(task.event) = KyokuOf(id)
==============================================================================
