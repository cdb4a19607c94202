--------------------------- MODULE RiichilabClient ---------------------------
(***************************************************************************)
(* The client loop of riichilab-client (run_riichilab_client in            *)
(* src/client.rs): one task that reads the messages of one WebSocket in    *)
(* order, feeds the tracker of ValidationState, and answers requests.      *)
(*                                                                         *)
(* While it computes an answer the server goes on: past its deadline it    *)
(* takes a default action and tells us, and our answer arrives late.  A    *)
(* message may be one the client cannot interpret, and the connection may  *)
(* break at any moment.  The client never reconnects.                      *)
(*                                                                         *)
(* The server and the game it runs are external: "table" is what it sends, *)
(* reduced to whose tile is on the table.  Every event a player at the     *)
(* table waits for is sent by one server action.                           *)
(***************************************************************************)
EXTENDS ValidationState, ActionConvert

CONSTANTS
  Me,               \* our seat
  ExitCondition,    \* "end_game" (ranked) or "validation_result" (validate)
  AgentKind,        \* "normal", "tsumogiri", "menzen" or "nodocchi"
  ReactionOffers,   \* what a request about somebody's tile may offer
  TurnOffers,       \* what a request in our turn may offer
  MaxEvents,        \* bound: game events
  MaxRequests,      \* bound: requests
  MaxGarbled,       \* bound: messages the client cannot interpret
  Breaks,           \* whether the connection may break
  Withheld          \* in the place of a reply: none was sent

ASSUME ClientAssumption ==
  /\ Me \in Players
  /\ ExitCondition \in {"end_game", "validation_result"}
  /\ {MaxEvents, MaxRequests, MaxGarbled} \subseteq Nat
  /\ Breaks \in BOOLEAN

\* An offer is a list of actions, and nothing that is sent is one of the markers.
ASSUME OfferAssumption ==
  \A offer \in ReactionOffers \cup TurnOffers :
    /\ offer # None
    /\ Len(offer) \in Nat /\ DOMAIN offer = 1..Len(offer)
    /\ \A i \in DOMAIN offer :
         /\ offer[i] # Absent
         /\ offer[i].kind \in ToSet(FallbackKinds) \cup {"chi", "pon", "daiminkan"}
         /\ \A drawn_tile \in BOOLEAN :
              [action |-> offer[i], tsumogiri |-> drawn_tile] \notin {None, Absent, Withheld}

\* What an action carries goes with its kind (MjaiPossibleAction): a face or none, and
\* the faces it takes from the hand.
OfferedFaces == [type : Nat, red : BOOLEAN]
ASSUME ShapeAssumption ==
  \A offer \in ReactionOffers \cup TurnOffers : \A i \in DOMAIN offer :
    /\ offer[i].pai = Absent \/ offer[i].pai \in OfferedFaces
    /\ offer[i].consumed \in Seq(OfferedFaces)
    /\ \A j \in DOMAIN offer :
         offer[i].kind = offer[j].kind => (offer[i].pai = Absent <=> offer[j].pai = Absent)

ASSUME MarkerAssumption ==
  None \notin Nat /\ Withheld # None /\ Absent \notin ToSet(FallbackKinds)

VARIABLES
  \* the client
  status,       \* "running", "finished" (Ok) or "failed" (Err)
  request,      \* id of the request being answered, or None
  answers,      \* for each id: the reply sent, Withheld or Unanswered
  \* the connection
  connection,   \* "open", "closed" (close frame sent) or "broken"
  inbox,        \* messages on their way to us
  outbox,       \* replies on their way to the server
  \* the server
  asked,        \* the requests so far; the index is the id
  open,         \* id of the request that is not settled, or None
  table,        \* [kind, player]
  drawn,        \* our drawn tile, or None
  declined,     \* we answered a win on somebody's tile with something else
  events, garbled

clientVars == <<status, request, answers>>
serverVars == <<asked, open, table, drawn, declined, events, garbled>>
wireVars == <<connection, inbox, outbox>>
vars == <<trackerVars, clientVars, serverVars, wireVars>>

Ids == 1..MaxRequests
Unanswered == None

Message(kind, actor, tile) == [kind |-> kind, actor |-> actor, tile |-> tile]
Request(id) == Message("request_action", id, None)
Verdicts == {"accepted", "rejected", "stale", "defaulted"}
Ack(verdict) == Message(verdict, None, None)      \* an action_ack
Uninterpretable == Message("uninterpretable", None, None)

Offering(kind, offer) == \E i \in DOMAIN offer : offer[i].kind = kind
OffersWin(id) == Offering("hora", asked[id].offer)
IsReaction(id) == asked[id].source # Me

------------------------------------------------------------------------------
(* The server. *)

\* A message is put on the wire, or something in its place that the client
\* cannot interpret.
Send(message) ==
  /\ connection = "open"
  /\ \/ inbox' = Append(inbox, message) /\ UNCHANGED garbled
     \/ /\ garbled < MaxGarbled
        /\ inbox' = Append(inbox, Uninterpretable)
        /\ garbled' = garbled + 1
  /\ UNCHANGED <<trackerVars, clientVars, connection>>

SendEvent(kind, actor, tile) ==
  /\ open = None
  /\ events < MaxEvents /\ events' = events + 1
  /\ Send(Message(kind, actor, tile))
  /\ UNCHANGED <<outbox, asked, open>>

TableIs(kind, player) == table' = [kind |-> kind, player |-> player]
DiscardedByOther(p) == table.kind = "discarded" /\ table.player # p

ServeStartGame ==
  /\ table.kind = "new"
  /\ SendEvent("start_game", Me, None)
  /\ TableIs("over", Me)
  /\ UNCHANGED <<drawn, declined>>

ServeStartKyoku ==
  /\ table.kind = "over"
  /\ SendEvent("start_kyoku", None, None)
  /\ TableIs("draw", Me)
  /\ drawn' = None /\ declined' = FALSE

ServeTsumo(p, pai) ==
  /\ table.kind = "draw" \/ DiscardedByOther(p)
  /\ IF p = Me THEN pai \in Tiles ELSE pai = Hidden
  /\ SendEvent("tsumo", p, pai)
  /\ TableIs("turn", p)
  /\ drawn' = IF p = Me THEN pai ELSE drawn
  /\ UNCHANGED declined

\* A discard after our own draw ends same-turn furiten.
ServeDahai(p, pai) ==
  /\ table = [kind |-> "turn", player |-> p]
  /\ SendEvent("dahai", p, pai)
  /\ TableIs("discarded", p)
  /\ drawn' = IF p = Me THEN None ELSE drawn
  /\ declined' = (declined /\ ~(p = Me /\ drawn # None))

\* Chi or pon: the caller discards without a draw.
ServeCall(p) ==
  /\ DiscardedByOther(p)
  /\ SendEvent("pon", p, None)
  /\ TableIs("turn", p)
  /\ UNCHANGED <<drawn, declined>>

ServeHora ==
  /\ table.kind \in {"turn", "discarded"}
  /\ SendEvent("hora", None, None)
  /\ TableIs("over", Me)
  /\ UNCHANGED <<drawn, declined>>

\* A round without a winner: no handler.
ServeRyukyoku ==
  /\ table.kind \in {"turn", "discarded"}
  /\ SendEvent("ryukyoku", None, None)
  /\ TableIs("over", Me)
  /\ UNCHANGED <<drawn, declined>>

\* The game is over, and in validate mode judged: no handler.
ServeEnd(kind) ==
  /\ table.kind \in {"over", "ended"}
  /\ SendEvent(kind, None, None)
  /\ TableIs("ended", Me)
  /\ UNCHANGED <<drawn, declined>>

\* A request about somebody's discard, or about our own turn.
ServeRequest(offer) ==
  /\ open = None /\ Len(asked) < MaxRequests
  /\ \/ table.kind = "discarded" /\ table.player # Me /\ offer \in ReactionOffers
     \/ table = [kind |-> "turn", player |-> Me] /\ offer \in TurnOffers
  /\ asked' = Append(asked, [offer |-> offer, source |-> table.player, drawn |-> drawn])
  /\ open' = Len(asked')
  /\ Send(Request(Len(asked')))
  /\ UNCHANGED <<outbox, table, drawn, declined, events>>

\* The open request is settled by an action of ours, or without one.
Settled == open' = None

\* Our reply: late, in time, or nothing that was offered (a penalty).
ServeReply ==
  /\ outbox # <<>> /\ connection = "open"
  /\ outbox' = Tail(outbox)
  /\ LET reply == Head(outbox)
     IN  \/ /\ reply.id # open
            /\ Send(Ack("stale"))
            /\ UNCHANGED <<open, declined>>
         \/ /\ reply.id = open /\ reply.action \in ToSet(asked[open].offer)
            /\ Send(Ack("accepted"))
            /\ Settled
            /\ declined' = (declined \/ (OffersWin(open) /\ IsReaction(open)
                                          /\ reply.action.kind # "hora"))
         \/ /\ reply.id = open /\ reply.action \notin ToSet(asked[open].offer)
            /\ Send(Ack("rejected"))
            /\ Settled
            /\ UNCHANGED declined
  /\ UNCHANGED <<asked, table, drawn, events>>

\* The deadline passed: the server substitutes its default and says so.
ServeDefault ==
  /\ open # None
  /\ Send(Ack("defaulted"))
  /\ Settled
  /\ UNCHANGED <<outbox, asked, table, drawn, declined, events>>

\* Replies that have not reached the server by now never will.
Close ==
  /\ connection = "open" /\ open = None /\ table.kind \in {"over", "ended"}
  /\ connection' = "closed" /\ outbox' = <<>>
  /\ UNCHANGED <<trackerVars, clientVars, serverVars, inbox>>

Break ==
  /\ Breaks /\ connection = "open"
  /\ connection' = "broken" /\ outbox' = <<>>
  /\ UNCHANGED <<trackerVars, clientVars, serverVars, inbox>>

------------------------------------------------------------------------------
(* The client. *)

\* What on_event does with a message; one that was not interpreted is skipped
\* before it gets there.
Track(message) ==
  LET kind == message.kind
      actor == message.actor
  IN  \/ kind = "start_game" /\ OnStartGame(actor)
      \/ kind = "start_kyoku" /\ OnStartKyoku
      \/ kind = "tsumo" /\ OnTsumo(actor, message.tile)
      \/ kind = "dahai" /\ OnDahai(actor, message.tile, actor = Me)
      \/ kind = "pon" /\ OnCall(actor)
      \/ kind = "hora" /\ OnHora
      \/ /\ kind \in Verdicts \cup {"ryukyoku", "request_action", "end_game",
                                    "validation_result", "uninterpretable"}
         /\ UNCHANGED trackerVars

\* Mutant: only the end of the game ends the client, in validate mode too.
Mutant_ShouldFinish(message) == message.kind = "end_game"

\* should_finish_after_event
ShouldFinish(message) == message.kind = ExitCondition

RequestOf(message) == IF message.kind = "request_action" THEN message.actor ELSE None

\* One turn of the read loop.  A request keeps the task busy until it is
\* answered: nothing else is read before that.
ReadMessage ==
  /\ status = "running" /\ request = None
  /\ inbox # <<>> /\ inbox' = Tail(inbox)
  /\ UNCHANGED <<answers, connection, outbox, serverVars>>
  /\ LET message == Head(inbox)
     IN  /\ request' = RequestOf(message)
         /\ status' = IF ShouldFinish(message) THEN "finished" ELSE "running"
         /\ Track(message)

\* The drawn tile the agents see: the observation's, or the tracker's when the
\* observation does not decode.  (The tracker's face carries no red flag here.)
ContextDrawn(decoded) ==
  LET tile == IF decoded THEN asked[request].drawn ELSE last_tsumo
  IN  IF tile = None THEN Absent ELSE TileIdOf([type |-> tile, red |-> FALSE])

DrawnIds == {TileIdOf([type |-> tile, red |-> FALSE]) : tile \in Tiles} \cup {Absent}

\* What the client may come to for each offer and each drawn tile of the context.
ResponsesTo ==
  [offer \in ReactionOffers \cup TurnOffers |->
     [tile \in DrawnIds |-> Responses(AgentKind, offer, tile)]]

\* Whatever the agent chooses, whether the observation decodes or not.
PossibleResponses ==
  UNION {ResponsesTo[asked[request].offer][ContextDrawn(decoded)] : decoded \in BOOLEAN}

\* Mutant: the tracker is not told that a win was among the offered actions.
Mutant_RecordResponse(reply) == OnActionResponse(FALSE, reply.action.kind = "hora")

RecordResponse(reply) == OnActionResponse(OffersWin(request), reply.action.kind = "hora")

SendReply ==
  /\ status = "running" /\ request # None
  /\ connection # "broken"
  /\ request' = None
  /\ UNCHANGED <<status, connection, inbox, serverVars>>
  /\ \E reply \in PossibleResponses \ {Absent} :
       /\ outbox' = IF connection = "open"
                    THEN Append(outbox, [id |-> request, action |-> reply.action]) ELSE outbox
       /\ answers' = [answers EXCEPT ![request] = reply]
       /\ RecordResponse(reply)

\* Mutant: the loop tries the request again until a response is found.
Mutant_WithholdReply == FALSE /\ UNCHANGED vars

\* No legal response: the client does not reply and reads on.
WithholdReply ==
  /\ status = "running" /\ request # None
  /\ Absent \in PossibleResponses
  /\ answers' = [answers EXCEPT ![request] = Withheld]
  /\ request' = None
  /\ UNCHANGED <<trackerVars, status, wireVars, serverVars>>

\* The send of a reply fails: the client ends with the error, and the tracker
\* is not told.
FailToSend ==
  /\ status = "running" /\ request # None
  /\ connection # "open"
  /\ status' = "failed"
  /\ UNCHANGED <<trackerVars, request, answers, wireVars, serverVars>>

\* The close frame, after everything sent before it.
ReadClose ==
  /\ status = "running" /\ request = None
  /\ connection = "closed" /\ inbox = <<>>
  /\ status' = "finished"
  /\ UNCHANGED <<trackerVars, request, answers, wireVars, serverVars>>

\* A read error; messages that had not arrived are lost.
ReadError ==
  /\ status = "running" /\ request = None
  /\ connection = "broken"
  /\ status' = "failed"
  /\ UNCHANGED <<trackerVars, request, answers, wireVars, serverVars>>

ClientInit ==
  /\ Init
  /\ status = "running" /\ request = None
  /\ answers = [id \in Ids |-> Unanswered]
  /\ connection = "open" /\ inbox = <<>> /\ outbox = <<>>
  /\ asked = <<>> /\ open = None
  /\ table = [kind |-> "new", player |-> Me] /\ drawn = None
  /\ declined = FALSE
  /\ events = 0 /\ garbled = 0

ServerNext ==
  \/ ServeStartGame
  \/ ServeStartKyoku
  \/ ServeHora
  \/ \E p \in Players :
       \/ ServeCall(p)
       \/ \E pai \in Faces : ServeTsumo(p, pai)
       \/ \E pai \in Tiles : ServeDahai(p, pai)
  \/ ServeRyukyoku
  \/ \E kind \in {"end_game", "validation_result"} : ServeEnd(kind)
  \/ \E offer \in ReactionOffers \cup TurnOffers : ServeRequest(offer)
  \/ ServeReply
  \/ ServeDefault
  \/ Close
  \/ Break

ClientStep == ReadMessage \/ SendReply \/ WithholdReply \/ FailToSend \/ ReadClose \/ ReadError

ClientNext == ServerNext \/ ClientStep

\* The task runs whenever it can: the runtime schedules it, and an agent always
\* returns.  Nothing is assumed of the server or of the network.
ClientSpec == ClientInit /\ [][ClientNext]_vars /\ WF_vars(ClientStep)

------------------------------------------------------------------------------
(* Properties. *)

\* The server never has to reject a reply: whatever the agent chose, whatever
\* could not be converted and however late the reply is, it carries an action of
\* the request whose id it carries.  (A rejection is a chombo penalty.)
NeverRejected == Ack("rejected") \notin ToSet(inbox)

\* A choice of the agents comes back as the offered action it stands for, with the
\* server's own faces, so that a red five is never swapped for a plain one.
ChoiceSurvivesConversion ==
  \A id \in DOMAIN asked :
    LET offer == asked[id].offer
    IN  \A i \in DOMAIN offer : Convertible(offer[i]) =>
          LET reply == Checked(ToLegal(offer[i]), offer, Absent)
          IN  /\ reply # Absent
              /\ reply.action.pai = offer[i].pai
              /\ ToBag(reply.action.consumed) = ToBag(offer[i].consumed)

\* A discard is reported as the drawn tile only if that tile was drawn in this
\* turn: never after a call, and never with the tile of an earlier turn.  An event
\* that the client could not interpret may leave an older tile in the tracker, which
\* is asked when the observation does not decode.
TsumogiriIsTheDrawnTile ==
  garbled = 0 =>
    \A id \in DOMAIN asked :
      answers[id] \notin {Unanswered, Withheld} /\ answers[id].tsumogiri =>
        asked[id].drawn # None /\ answers[id].action.pai.type = asked[id].drawn

CaughtUp == inbox = <<>> /\ request = None

\* Once the client has read everything, a win it answered with something else,
\* and that the server took at its word, is furiten in the tracker.  An event that
\* the client could not interpret may leave the tracker behind.
DeclinedWinIsFuriten ==
  CaughtUp /\ garbled = 0 /\ declined => history_furiten.same_turn = "yes"

\* A request that the client has taken up is answered or withheld, or the client
\* ends: it never stays with one.  (Between two requests there is always none.)
RequestsAreHandled ==
  (request # None) ~> (request = None \/ status # "running")

\* What ends the client: its exit event, read in its turn, and the connection being
\* gone.
ReadsExit == inbox # <<>> /\ Head(inbox).kind = ExitCondition

\* The client runs on until then: the exit event of the other mode, no message and
\* no request it cannot answer ends it.
EndsOnlyWhenDone ==
  [][status = "running" /\ status' # "running" => connection # "open" \/ ReadsExit]_vars

\* The client ends when its exit event is on the wire, and when the connection is
\* gone: it waits for nothing after that, and does not end before.
EndsWhenDone ==
  /\ (connection # "open" \/ Message(ExitCondition, None, None) \in ToSet(inbox))
       ~> status # "running"
  /\ EndsOnlyWhenDone

\* The promise about requests, of which the loop is an implementation.
Abstract == INSTANCE RequestReply WITH
  Offers <- ReactionOffers \cup TurnOffers,
  Unasked <- None,
  offered <- [id \in Ids |-> IF id \in DOMAIN asked THEN asked[id].offer ELSE None],
  answer <- [id \in Ids |-> IF answers[id] \in {Unanswered, Withheld} THEN answers[id]
                            ELSE answers[id].action]

KeepsRequestPromise == Abstract!Spec
==============================================================================
