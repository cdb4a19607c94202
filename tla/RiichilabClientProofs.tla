------------------------ MODULE RiichilabClientProofs ------------------------
(***************************************************************************)
(* What the client loop promises, for every agent, offer, tile and bound:  *)
(* nothing that was not offered is sent, the loop implements RequestReply, *)
(* the tracker is as far as the server was when it asked, and a choice     *)
(* comes back as the offered action it stands for.                         *)
(***************************************************************************)
EXTENDS RiichilabClient, FiniteSetTheorems, WellFoundedInduction, TLAPS

Offers == ReactionOffers \cup TurnOffers

------------------------------------------------------------------------------
(* What the response builders return. *)

\* A set of indices has a first one.
LEMMA FirstIndex ==
  ASSUME NEW S, S \subseteq Nat, S # {}
  PROVE  \E i \in S : \A j \in S : i <= j
<1>1. PICK i \in S : \A j \in S : <<j, i>> \notin OpToRel(<, Nat)
  BY WFMin, NatLessThanWellFounded, Zenon
<1>2. \A j \in S : ~ (j < i)
  BY <1>1 DEF OpToRel
<1>3. QED
  BY <1>2

\* The index Find takes exists whenever anything passes the test.
LEMMA FoundIndex ==
  ASSUME NEW n \in Nat, NEW S, S \subseteq 1..n, S # {}
  PROVE  \E i \in 1..n : i \in S /\ \A j \in 1..(i - 1) : j \in 1..n /\ j \notin S
<1>1. PICK i \in S : \A j \in S : i <= j
  <2>1. S \subseteq Nat
    OBVIOUS
  <2>2. QED
    BY <2>1, FirstIndex
<1>2. \A j \in 1..(i - 1) : j \in 1..n /\ j \notin S
  BY <1>1
<1>3. QED
  BY <1>1, <1>2

LEMMA CheckedIsOffered ==
  ASSUME NEW offer \in Offers, NEW chosen, NEW tile, Checked(chosen, offer, tile) # Absent
  PROVE  \E i \in DOMAIN offer :
           Checked(chosen, offer, tile) = ReplyOf(offer[i], tile)
<1> DEFINE S == {i \in DOMAIN offer : Matches(chosen, offer[i])}
<1>1. S # {}
  BY DEF Checked, Find
<1>2. Len(offer) \in Nat /\ DOMAIN offer = 1..Len(offer)
  BY OfferAssumption DEF Offers
<1>3. \E i \in DOMAIN offer : Matches(chosen, offer[i]) /\ \A j \in 1..(i - 1) : ~Matches(chosen, offer[j])
  <2> HIDE DEF S
  <2>1. PICK i \in 1..Len(offer) :
          i \in S /\ \A j \in 1..(i - 1) : j \in 1..Len(offer) /\ j \notin S
    <3>1. S \subseteq 1..Len(offer)
      BY <1>2 DEF S
    <3>2. QED
      BY <1>1, <1>2, <3>1, FoundIndex
  <2>2. QED
    BY <1>2, <2>1 DEF S
<1> DEFINE first == CHOOSE k \in DOMAIN offer :
                      Matches(chosen, offer[k]) /\ \A j \in 1..(k - 1) : ~Matches(chosen, offer[j])
<1>4. first \in DOMAIN offer
  BY <1>3
<1>5. Checked(chosen, offer, tile) = ReplyOf(offer[first], tile)
  BY <1>1 DEF Checked, Find
<1>6. QED
  BY <1>4, <1>5

\* The kinds of the fallback are those that do not open the hand.
LEMMA KindsOfOffers ==
  ASSUME NEW offer \in Offers, NEW i \in DOMAIN offer
  PROVE  \/ offer[i].kind \in Abstract!OpenCalls
         \/ \E k \in DOMAIN FallbackKinds : offer[i].kind = FallbackKinds[k]
  BY OfferAssumption DEF Offers, Abstract!OpenCalls, ToSet

\* The first kind of the fallback is an offered one, and there is none only if
\* nothing but open calls is offered.
LEMMA FallbackKind ==
  ASSUME NEW offer \in Offers
  PROVE  LET kind == FirstKind(FallbackKinds, offer)
         IN  /\ kind # Absent => \E i \in DOMAIN offer : offer[i].kind = kind
             /\ kind = Absent => \A i \in DOMAIN offer : offer[i].kind \in Abstract!OpenCalls
<1> DEFINE S == {k \in 1..7 : \E i \in DOMAIN offer : offer[i].kind = FallbackKinds[k]}
           first == CHOOSE k \in DOMAIN FallbackKinds :
                      /\ \E i \in DOMAIN offer : offer[i].kind = FallbackKinds[k]
                      /\ \A j \in 1..(k - 1) :
                           ~(\E i \in DOMAIN offer : offer[i].kind = FallbackKinds[j])
<1>1. DOMAIN FallbackKinds = 1..7
  BY DEF FallbackKinds
<1>2. CASE S = {}
  <2>1. FirstKind(FallbackKinds, offer) = Absent
    BY <1>1, <1>2 DEF FirstKind, Find
  <2>2. \A i \in DOMAIN offer : offer[i].kind \in Abstract!OpenCalls
    BY <1>1, <1>2, KindsOfOffers
  <2>3. QED
    BY <2>1, <2>2
<1>3. CASE S # {}
  <2>1. \E k \in 1..7 : k \in S /\ \A j \in 1..(k - 1) : j \in 1..7 /\ j \notin S
    <3> HIDE DEF S
    <3>1. 7 \in Nat /\ S \subseteq 1..7
      BY DEF S
    <3>2. QED
      BY <1>3, <3>1, FoundIndex
  <2>2. /\ first \in DOMAIN FallbackKinds
        /\ \E i \in DOMAIN offer : offer[i].kind = FallbackKinds[first]
    BY <1>1, <2>1
  <2>3. FirstKind(FallbackKinds, offer) = FallbackKinds[first]
    BY <1>1, <1>3 DEF FirstKind, Find
  <2> HIDE DEF first, S
  <2>4. FallbackKinds[first] # Absent
    BY <2>2, MarkerAssumption DEF ToSet
  <2>5. QED
    BY <2>2, <2>3, <2>4
<1>4. QED
  BY <1>2, <1>3

LEMMA FallbackIsOffered ==
  ASSUME NEW offer \in Offers, NEW tile
  PROVE  \/ \E i \in DOMAIN offer : Fallback(offer, tile) = ReplyOf(offer[i], tile)
         \/ /\ Fallback(offer, tile) = Absent
            /\ \A i \in DOMAIN offer : offer[i].kind \in Abstract!OpenCalls
<1> DEFINE kind == FirstKind(FallbackKinds, offer)
<1>1. CASE kind = Absent
  BY <1>1, FallbackKind DEF Fallback
<1>2. CASE kind # Absent
  <2> DEFINE S == {i \in DOMAIN offer : offer[i].kind = kind}
             first == CHOOSE k \in DOMAIN offer :
                        offer[k].kind = kind /\ \A j \in 1..(k - 1) : ~(offer[j].kind = kind)
  <2>1. S # {}
    BY <1>2, FallbackKind
  <2>2. Len(offer) \in Nat /\ DOMAIN offer = 1..Len(offer)
    BY OfferAssumption DEF Offers
  <2>3. \E k \in DOMAIN offer :
          offer[k].kind = kind /\ \A j \in 1..(k - 1) : ~(offer[j].kind = kind)
    <3> HIDE DEF S
    <3>1. S \subseteq 1..Len(offer)
      BY <2>2 DEF S
    <3>2. PICK k \in 1..Len(offer) :
            k \in S /\ \A j \in 1..(k - 1) : j \in 1..Len(offer) /\ j \notin S
      BY <2>1, <2>2, <3>1, FoundIndex
    <3>3. QED
      BY <2>2, <3>2 DEF S
  <2>4. first \in DOMAIN offer
    BY <2>3
  <2>5. FirstOfKind(offer, kind) = offer[first]
    BY <2>1 DEF FirstOfKind, Find
  <2>6. Fallback(offer, tile) = ReplyOf(offer[first], tile)
    BY <1>2, <2>5 DEF Fallback
  <2>7. QED
    BY <2>4, <2>6
<1>3. QED
  BY <1>1, <1>2

\* A reply is none of the markers.
LEMMA ReplyIsSome ==
  ASSUME NEW offer \in Offers, NEW i \in DOMAIN offer, NEW tile
  PROVE  /\ ReplyOf(offer[i], tile) \notin {None, Absent, Withheld}
         /\ ReplyOf(offer[i], tile).action = offer[i]
<1>1. PICK flag \in BOOLEAN : ReplyOf(offer[i], tile) = [action |-> offer[i], tsumogiri |-> flag]
  BY DEF ReplyOf
<1>2. QED
  BY <1>1, OfferAssumption DEF Offers

\* Whatever the agent chooses, what is sent was offered, and nothing is sent only
\* if nothing but open calls was.
LEMMA ResponseIsOffered ==
  ASSUME NEW kind, NEW offer \in Offers, NEW tile, NEW reply \in Responses(kind, offer, tile)
  PROVE  \/ /\ reply \notin {None, Absent, Withheld}
            /\ \E i \in DOMAIN offer : reply.action = offer[i]
         \/ /\ reply = Absent
            /\ \A i \in DOMAIN offer : offer[i].kind \in Abstract!OpenCalls
<1>1. PICK choice, normal : reply = ResponseTo(choice, normal, offer, tile)
  BY DEF Responses
<1>2. \/ Checked(choice, offer, tile) # Absent /\ reply = Checked(choice, offer, tile)
      \/ Checked(normal, offer, tile) # Absent /\ reply = Checked(normal, offer, tile)
      \/ reply = Fallback(offer, tile)
  BY <1>1 DEF ResponseTo
<1>3. \/ \E i \in DOMAIN offer : reply = ReplyOf(offer[i], tile)
      \/ /\ reply = Absent
         /\ \A i \in DOMAIN offer : offer[i].kind \in Abstract!OpenCalls
  BY <1>2, CheckedIsOffered, FallbackIsOffered
<1>4. QED
  BY <1>3, ReplyIsSome

------------------------------------------------------------------------------
(* The invariant. *)

EventKinds == {"start_game", "start_kyoku", "tsumo", "dahai", "pon", "hora", "ryukyoku",
               "end_game", "validation_result"}
MessageKinds == EventKinds \cup Verdicts \cup {"request_action", "uninterpretable"}
TableKinds == {"new", "over", "draw", "turn", "discarded", "ended"}

Messages == [kind : MessageKinds, actor : Actors \cup Nat \cup {None}, tile : Faces \cup {None}]
AskedRequests == [offer : Offers, source : Players, drawn : Tiles \cup {None}]
OfferedActions == UNION {{offer[i] : i \in DOMAIN offer} : offer \in Offers}

Types ==
  /\ DOMAIN answers = Ids
  /\ inbox \in Seq(Messages)
  /\ outbox \in Seq([id : Nat, action : OfferedActions])
  /\ asked \in Seq(AskedRequests) /\ Len(asked) <= MaxRequests
  /\ open \in 1..Len(asked) \cup {None}
  /\ table \in [kind : TableKinds, player : Players]
  /\ drawn \in Tiles \cup {None} /\ last_tsumo \in Tiles \cup {None}

\* Message i asks for an action.
Asks(i) == inbox[i].kind = "request_action"

\* The request being answered comes before those still on their way, and these come
\* in the order in which they were asked.
RequestsInOrder ==
  /\ request \in 1..Len(asked) \cup {None}
  /\ \A i \in DOMAIN inbox : Asks(i) =>
       /\ inbox[i].actor \in 1..Len(asked)
       /\ request # None => request < inbox[i].actor
       /\ \A j \in DOMAIN inbox : i < j /\ Asks(j) => inbox[i].actor < inbox[j].actor

\* Nothing has been answered from the first request on that is not done with.
NotYetReached(id) ==
  \/ id > Len(asked)
  \/ request # None /\ request <= id
  \/ \E i \in DOMAIN inbox : Asks(i) /\ inbox[i].actor <= id
LaterIsUnanswered == \A id \in Ids : NotYetReached(id) => answers[id] = Unanswered

\* A reply on its way repeats an action of the offer it answers.
SentWasOffered ==
  \A i \in DOMAIN outbox :
    /\ outbox[i].id \in 1..Len(asked)
    /\ outbox[i].action \in ToSet(asked[outbox[i].id].offer)

NothingRejected == \A i \in DOMAIN inbox : inbox[i].kind # "rejected"

ClientInv == Types /\ RequestsInOrder /\ LaterIsUnanswered /\ SentWasOffered /\ NothingRejected

LEMMA InvInit == ClientInit => ClientInv
<1> SUFFICES ASSUME ClientInit PROVE ClientInv
  OBVIOUS
<1>1. Types
  <2>1. asked \in Seq(AskedRequests) /\ inbox \in Seq(Messages) /\ Len(asked) <= MaxRequests
    BY ClientAssumption DEF ClientInit
  <2>2. outbox \in Seq([id : Nat, action : OfferedActions])
    BY DEF ClientInit
  <2>3. table \in [kind : TableKinds, player : Players] /\ last_tsumo \in Tiles \cup {None}
    BY ClientAssumption DEF ClientInit, Init, TableKinds
  <2>4. QED
    BY <2>1, <2>2, <2>3 DEF ClientInit, Types
<1>2. RequestsInOrder /\ SentWasOffered /\ NothingRejected
  BY DEF ClientInit, RequestsInOrder, SentWasOffered, NothingRejected
<1>3. LaterIsUnanswered
  BY DEF ClientInit, LaterIsUnanswered
<1>4. QED
  BY <1>1, <1>2, <1>3 DEF ClientInv

\* What is put on the wire is a message either way.
LEMMA SentIsMessage ==
  ASSUME NEW message \in Messages, Send(message)
  PROVE  \E m \in Messages : /\ m = message \/ m.kind = "uninterpretable"
                             /\ inbox' = Append(inbox, m)
<1>1. Uninterpretable \in Messages /\ Uninterpretable.kind = "uninterpretable"
  BY DEF Uninterpretable, Message, Messages, MessageKinds
<1>2. inbox' = Append(inbox, message) \/ inbox' = Append(inbox, Uninterpretable)
  BY DEF Send
<1>3. QED
  BY <1>1, <1>2

\* A message that is neither a request nor a rejection, or something unreadable in its
\* place, changes nothing about requests.
LEMMA SendKeepsOrder ==
  ASSUME ClientInv, NEW message \in Messages, message.kind \notin {"request_action", "rejected"},
         Send(message), UNCHANGED asked
  PROVE  /\ inbox' \in Seq(Messages) /\ DOMAIN answers' = Ids
         /\ RequestsInOrder' /\ LaterIsUnanswered' /\ NothingRejected'
<1>1. PICK m \in Messages : /\ m.kind \notin {"request_action", "rejected"}
                            /\ inbox' = Append(inbox, m)
  BY SentIsMessage
<1>2. request' = request /\ answers' = answers /\ asked' = asked
  BY DEF Send, clientVars
<1>3. inbox \in Seq(Messages)
  BY DEF ClientInv, Types
<1>4. /\ DOMAIN inbox' = 1..(Len(inbox) + 1) /\ DOMAIN inbox = 1..Len(inbox)
      /\ \A i \in DOMAIN inbox : inbox'[i] = inbox[i]
      /\ inbox'[Len(inbox) + 1] = m
      /\ Len(inbox) \in Nat
  BY <1>1, <1>3
<1>5. inbox' \in Seq(Messages)
  BY <1>1, <1>3
<1>6. RequestsInOrder'
  BY <1>1, <1>2, <1>4 DEF ClientInv, RequestsInOrder, Asks
<1>7. LaterIsUnanswered'
  BY <1>1, <1>2, <1>4 DEF ClientInv, LaterIsUnanswered, NotYetReached, Asks
<1>8. NothingRejected'
  BY <1>1, <1>4 DEF ClientInv, NothingRejected
<1>9. QED
  BY <1>2, <1>5, <1>6, <1>7, <1>8 DEF ClientInv, Types

\* An event of the game.
LEMMA EventKeepsInv ==
  ASSUME ClientInv, NEW kind \in EventKinds,
         NEW actor \in Actors \cup {None}, NEW tile \in Faces \cup {None},
         SendEvent(kind, actor, tile),
         table' \in [kind : TableKinds, player : Players], drawn' \in Tiles \cup {None}
  PROVE  ClientInv'
<1> DEFINE message == Message(kind, actor, tile)
<1>1. /\ message \in Messages
      /\ message.kind \notin {"request_action", "rejected"}
  BY DEF Message, Messages, MessageKinds, EventKinds
<1>2. Send(message) /\ UNCHANGED <<outbox, asked, open, last_tsumo>>
  BY DEF SendEvent, Send, trackerVars, ownVars
<1>3. /\ inbox' \in Seq(Messages) /\ DOMAIN answers' = Ids
      /\ RequestsInOrder' /\ LaterIsUnanswered' /\ NothingRejected'
  <2> HIDE DEF message
  <2>1. QED
    BY <1>1, <1>2, SendKeepsOrder
<1>4. QED
  BY <1>2, <1>3 DEF ClientInv, Types, SentWasOffered

LEMMA RequestKeepsInv ==
  ASSUME ClientInv, NEW offer \in Offers, ServeRequest(offer)
  PROVE  ClientInv'
<1> DEFINE new == [offer |-> offer, source |-> table.player, drawn |-> drawn]
           n == Len(asked) + 1
<1>1. new \in AskedRequests
  BY DEF ClientInv, Types, AskedRequests
<1>2. /\ asked \in Seq(AskedRequests) /\ asked' = Append(asked, new)
      /\ inbox \in Seq(Messages)
      /\ Len(asked) < MaxRequests /\ MaxRequests \in Nat
  BY ClientAssumption DEF ClientInv, Types, ServeRequest
<1>3. /\ Len(asked') = n /\ n \in Ids /\ asked' \in Seq(AskedRequests)
      /\ Len(asked) \in Nat
      /\ \A id \in 1..Len(asked) : asked'[id] = asked[id]
  BY <1>1, <1>2 DEF Ids
<1>4. PICK m \in Messages :
        /\ m = Request(n) \/ m.kind = "uninterpretable"
        /\ inbox' = Append(inbox, m)
  <2>1. Request(n) \in Messages
    BY <1>3 DEF Request, Message, Messages, MessageKinds, Ids
  <2>2. Send(Request(n))
    BY <1>3 DEF ServeRequest
  <2>3. QED
    BY <2>1, <2>2, SentIsMessage
<1>5. /\ request' = request /\ answers' = answers /\ outbox' = outbox
      /\ table' = table /\ drawn' = drawn /\ last_tsumo' = last_tsumo /\ open' = n
  BY <1>3 DEF ServeRequest, Send, clientVars, trackerVars, ownVars
<1>6. /\ DOMAIN inbox' = 1..(Len(inbox) + 1) /\ DOMAIN inbox = 1..Len(inbox)
      /\ \A i \in DOMAIN inbox : inbox'[i] = inbox[i]
      /\ inbox'[Len(inbox) + 1] = m
      /\ Len(inbox) \in Nat /\ inbox' \in Seq(Messages)
  BY <1>2, <1>4
<1>7. m.kind # "rejected" /\ (m.kind = "request_action" => m.actor = n)
  BY <1>4 DEF Request, Message
<1> HIDE DEF new, n
<1>8. Types'
  BY <1>2, <1>3, <1>5, <1>6 DEF ClientInv, Types, Ids
<1>9. RequestsInOrder'
  <2>1. request' \in 1..Len(asked') \cup {None}
    BY <1>3, <1>5 DEF ClientInv, RequestsInOrder, n
  <2>2. \A i \in DOMAIN inbox : Asks(i) => inbox[i].actor \in 1..Len(asked)
    BY DEF ClientInv, RequestsInOrder
  <2>3. request # None => request < n
    BY <1>3, MarkerAssumption DEF ClientInv, RequestsInOrder, n
  <2>4. ASSUME NEW i \in DOMAIN inbox', Asks(i)'
        PROVE  /\ inbox'[i].actor \in 1..Len(asked')
               /\ request' # None => request' < inbox'[i].actor
               /\ \A j \in DOMAIN inbox' : i < j /\ Asks(j)' => inbox'[i].actor < inbox'[j].actor
    <3>1. CASE i \in DOMAIN inbox
      <4>1. Asks(i) /\ inbox'[i] = inbox[i] /\ inbox[i].actor \in 1..Len(asked)
        BY <1>6, <2>2, <2>4, <3>1 DEF Asks
      <4>2. request' # None => request' < inbox'[i].actor
        BY <1>5, <3>1, <4>1 DEF ClientInv, RequestsInOrder
      <4>3. ASSUME NEW j \in DOMAIN inbox', i < j, Asks(j)'
            PROVE  inbox'[i].actor < inbox'[j].actor
        <5>1. CASE j \in DOMAIN inbox
          BY <1>6, <3>1, <4>1, <4>3, <5>1 DEF ClientInv, RequestsInOrder, Asks
        <5>2. CASE j = Len(inbox) + 1
          BY <1>3, <1>6, <1>7, <4>1, <4>3, <5>2 DEF Asks, n
        <5>3. QED
          BY <1>6, <5>1, <5>2
      <4>4. QED
        BY <1>3, <4>1, <4>2, <4>3 DEF n
    <3>2. CASE i = Len(inbox) + 1
      BY <1>3, <1>5, <1>6, <1>7, <2>3, <2>4, <3>2 DEF Asks, n
    <3>3. QED
      BY <1>6, <3>1, <3>2
  <2>5. QED
    BY <2>1, <2>4 DEF RequestsInOrder
<1>10. LaterIsUnanswered'
  <2>1. ASSUME NEW id \in Ids, NotYetReached(id)'
        PROVE  NotYetReached(id)
    <3>1. CASE id > Len(asked')
      BY <1>2, <1>3, <3>1 DEF NotYetReached, Ids, n
    <3>2. CASE request' # None /\ request' <= id
      BY <1>5, <3>2 DEF NotYetReached
    <3>3. CASE \E i \in DOMAIN inbox' : Asks(i)' /\ inbox'[i].actor <= id
      <4>1. PICK i \in DOMAIN inbox' : Asks(i)' /\ inbox'[i].actor <= id
        BY <3>3
      <4>2. CASE i \in DOMAIN inbox
        BY <1>6, <4>1, <4>2 DEF NotYetReached, Asks
      <4>3. CASE i = Len(inbox) + 1
        <5>1. n <= id
          BY <1>6, <1>7, <4>1, <4>3 DEF Asks
        <5>2. QED
          BY <1>2, <1>3, <5>1 DEF NotYetReached, Ids, n
      <4>4. QED
        BY <1>6, <4>1, <4>2, <4>3
    <3>4. QED
      BY <2>1, <3>1, <3>2, <3>3 DEF NotYetReached
  <2>2. QED
    BY <1>5, <2>1 DEF ClientInv, LaterIsUnanswered
<1>11. SentWasOffered'
  BY <1>3, <1>5 DEF ClientInv, SentWasOffered, n
<1>12. NothingRejected'
  BY <1>6, <1>7 DEF ClientInv, NothingRejected
<1>13. QED
  BY <1>8, <1>9, <1>10, <1>11, <1>12 DEF ClientInv

\* Every event of the game.
LEMMA EventsKeepInv ==
  ASSUME ClientInv,
         \/ ServeStartGame \/ ServeStartKyoku \/ ServeHora \/ ServeRyukyoku
         \/ \E kind \in {"end_game", "validation_result"} : ServeEnd(kind)
         \/ \E p \in Players :
              \/ ServeCall(p)
              \/ \E pai \in Faces : ServeTsumo(p, pai)
              \/ \E pai \in Tiles : ServeDahai(p, pai)
  PROVE  ClientInv'
<1>1. /\ Me \in Players /\ Me \in Actors
      /\ drawn \in Tiles \cup {None}
      /\ \A kind \in TableKinds, p \in Players :
           TableIs(kind, p) => table' \in [kind : TableKinds, player : Players]
  BY SeatAssumption, ClientAssumption DEF ClientInv, Types, TableIs
<1>2. CASE ServeStartGame
  <2>1. SendEvent("start_game", Me, None) /\ TableIs("over", Me) /\ drawn' = drawn
    BY <1>2 DEF ServeStartGame
  <2>2. QED
    BY <1>1, <2>1, EventKeepsInv DEF EventKinds, TableKinds
<1>3. CASE ServeStartKyoku
  <2>1. SendEvent("start_kyoku", None, None) /\ TableIs("draw", Me) /\ drawn' = None
    BY <1>3 DEF ServeStartKyoku
  <2>2. QED
    BY <1>1, <2>1, EventKeepsInv DEF EventKinds, TableKinds
<1>4. CASE ServeHora
  <2>1. SendEvent("hora", None, None) /\ TableIs("over", Me) /\ drawn' = drawn
    BY <1>4 DEF ServeHora
  <2>2. QED
    BY <1>1, <2>1, EventKeepsInv DEF EventKinds, TableKinds
<1>5. CASE ServeRyukyoku
  <2>1. SendEvent("ryukyoku", None, None) /\ TableIs("over", Me) /\ drawn' = drawn
    BY <1>5 DEF ServeRyukyoku
  <2>2. QED
    BY <1>1, <2>1, EventKeepsInv DEF EventKinds, TableKinds
<1>6. ASSUME NEW kind \in {"end_game", "validation_result"}, ServeEnd(kind)
      PROVE  ClientInv'
  <2>1. SendEvent(kind, None, None) /\ TableIs("ended", Me) /\ drawn' = drawn
    BY <1>6 DEF ServeEnd
  <2>2. kind \in EventKinds
    BY DEF EventKinds
  <2>3. QED
    BY <1>1, <2>1, <2>2, EventKeepsInv DEF TableKinds
<1>7. ASSUME NEW p \in Players, ServeCall(p)
      PROVE  ClientInv'
  <2>1. SendEvent("pon", p, None) /\ TableIs("turn", p) /\ drawn' = drawn
    BY <1>7 DEF ServeCall
  <2>2. QED
    BY <1>1, <2>1, SeatAssumption, EventKeepsInv DEF EventKinds, TableKinds
<1>8. ASSUME NEW p \in Players, NEW pai \in Faces, ServeTsumo(p, pai)
      PROVE  ClientInv'
  <2>1. /\ SendEvent("tsumo", p, pai) /\ TableIs("turn", p)
        /\ drawn' \in Tiles \cup {None}
    BY <1>1, <1>8 DEF ServeTsumo
  <2>2. QED
    BY <1>1, <2>1, SeatAssumption, EventKeepsInv DEF EventKinds, TableKinds
<1>9. ASSUME NEW p \in Players, NEW pai \in Tiles, ServeDahai(p, pai)
      PROVE  ClientInv'
  <2>1. /\ SendEvent("dahai", p, pai) /\ TableIs("discarded", p)
        /\ drawn' \in Tiles \cup {None} /\ pai \in Faces
    BY <1>1, <1>9 DEF ServeDahai, Faces
  <2>2. QED
    BY <1>1, <2>1, SeatAssumption, EventKeepsInv DEF EventKinds, TableKinds
<1>10. QED
  BY <1>2, <1>3, <1>4, <1>5, <1>6, <1>7, <1>8, <1>9

\* The server takes a reply, or does without one.
LEMMA SettlingKeepsInv ==
  ASSUME ClientInv, ServeReply \/ ServeDefault
  PROVE  ClientInv'
<1>1. \A verdict \in Verdicts \ {"rejected"} :
        /\ Ack(verdict) \in Messages
        /\ Ack(verdict).kind \notin {"request_action", "rejected"}
  BY DEF Ack, Message, Messages, MessageKinds, Verdicts
<1>2. CASE ServeDefault
  <2>1. /\ Send(Ack("defaulted")) /\ open' = None
        /\ UNCHANGED <<outbox, asked, table, drawn, last_tsumo>>
    BY <1>2 DEF ServeDefault, Settled, Send, trackerVars, ownVars
  <2>2. /\ inbox' \in Seq(Messages) /\ DOMAIN answers' = Ids
        /\ RequestsInOrder' /\ LaterIsUnanswered' /\ NothingRejected'
    <3>1. "defaulted" \in Verdicts \ {"rejected"}
      BY DEF Verdicts
    <3>2. QED
      BY <1>1, <2>1, <3>1, SendKeepsOrder
  <2>3. QED
    BY <2>1, <2>2 DEF ClientInv, Types, SentWasOffered
<1>3. CASE ServeReply
  <2>1. /\ outbox \in Seq([id : Nat, action : OfferedActions]) /\ outbox # <<>>
        /\ asked \in Seq(AskedRequests)
    BY <1>3 DEF ServeReply, ClientInv, Types
  <2>2. /\ 1 \in DOMAIN outbox /\ Head(outbox) = outbox[1]
    BY <2>1
  <2>3. Head(outbox).action \in ToSet(asked[Head(outbox).id].offer)
    BY <2>2 DEF ClientInv, SentWasOffered
  <2>4. \/ Send(Ack("stale")) /\ open' = open
        \/ Send(Ack("accepted")) /\ open' = None
    BY <1>3, <2>3 DEF ServeReply, Settled
  <2>5. PICK verdict \in Verdicts \ {"rejected"} : Send(Ack(verdict)) /\ open' \in {open, None}
    BY <2>4 DEF Verdicts
  <2>6. UNCHANGED <<asked, table, drawn, last_tsumo>> /\ outbox' = Tail(outbox)
    BY <1>3, <2>5 DEF ServeReply, Send, trackerVars, ownVars
  <2>7. /\ inbox' \in Seq(Messages) /\ DOMAIN answers' = Ids
        /\ RequestsInOrder' /\ LaterIsUnanswered' /\ NothingRejected'
    BY <1>1, <2>5, <2>6, SendKeepsOrder
  <2>8. /\ outbox' \in Seq([id : Nat, action : OfferedActions])
        /\ \A i \in DOMAIN outbox' : i + 1 \in DOMAIN outbox /\ outbox'[i] = outbox[i + 1]
    BY <2>1, <2>6
  <2>9. SentWasOffered'
    BY <2>6, <2>8 DEF ClientInv, SentWasOffered
  <2>10. Types'
    BY <2>5, <2>6, <2>7, <2>8 DEF ClientInv, Types
  <2>11. QED
    BY <2>7, <2>9, <2>10 DEF ClientInv
<1>4. QED
  BY <1>2, <1>3

LEMMA DisconnectKeepsInv ==
  ASSUME ClientInv, Close \/ Break
  PROVE  ClientInv'
<1>1. /\ outbox' = <<>>
      /\ UNCHANGED <<last_tsumo, request, answers, asked, open, table, drawn, inbox>>
  BY DEF Close, Break, trackerVars, ownVars, clientVars, serverVars
<1>2. outbox' \in Seq([id : Nat, action : OfferedActions]) /\ SentWasOffered'
  BY <1>1 DEF SentWasOffered
<1>3. QED
  BY <1>1, <1>2 DEF ClientInv, Types, RequestsInOrder, LaterIsUnanswered, NotYetReached,
     NothingRejected, Asks

\* The drawn tile of the tracker is a tile, whatever message it is shown.
LEMMA TrackedDraw ==
  ASSUME last_tsumo \in Tiles \cup {None}, NEW message \in Messages, Track(message)
  PROVE  last_tsumo' \in Tiles \cup {None}
<1>1. CASE message.kind = "tsumo" /\ OnTsumo(message.actor, message.tile)
  BY <1>1 DEF OnTsumo, Messages, Faces
<1>2. CASE message.kind = "dahai" /\ OnDahai(message.actor, message.tile, message.actor = Me)
  BY <1>2 DEF OnDahai, DrawnAfterDahai
<1>3. CASE OnCall(message.actor)
  BY <1>3 DEF OnCall, Calls, ownVars
<1>4. CASE OnStartGame(message.actor) \/ OnStartKyoku
  BY <1>4 DEF OnStartGame, OnStartKyoku
<1>5. CASE OnHora \/ UNCHANGED trackerVars
  BY <1>5 DEF OnHora, trackerVars, ownVars
<1>6. QED
  BY <1>1, <1>2, <1>3, <1>4, <1>5 DEF Track

LEMMA ReadKeepsInv ==
  ASSUME ClientInv, ReadMessage
  PROVE  ClientInv'
<1> DEFINE message == Head(inbox)
<1>1. /\ inbox \in Seq(Messages) /\ inbox # <<>> /\ inbox' = Tail(inbox)
      /\ request = None /\ request' = RequestOf(message) /\ Track(message)
      /\ UNCHANGED <<answers, outbox, asked, open, table, drawn>>
  BY DEF ReadMessage, serverVars, ClientInv, Types
<1>2. /\ message = inbox[1] /\ message \in Messages /\ 1 \in DOMAIN inbox
      /\ inbox' \in Seq(Messages)
      /\ DOMAIN inbox \subseteq Nat \ {0}
      /\ \A i \in DOMAIN inbox' : i + 1 \in DOMAIN inbox /\ inbox'[i] = inbox[i + 1]
      /\ DOMAIN inbox' \subseteq Nat \ {0}
  BY <1>1
<1> HIDE DEF message
<1>3. last_tsumo' \in Tiles \cup {None}
  BY <1>1, <1>2, TrackedDraw DEF ClientInv, Types
<1>4. Types'
  BY <1>1, <1>2, <1>3 DEF ClientInv, Types
<1>5. SentWasOffered'
  BY <1>1 DEF ClientInv, SentWasOffered
<1>6. NothingRejected'
  BY <1>2 DEF ClientInv, NothingRejected
<1>7. \/ Asks(1) /\ request' = inbox[1].actor /\ request' \in 1..Len(asked)
      \/ ~Asks(1) /\ request' = None
  BY <1>1, <1>2 DEF RequestOf, Asks, ClientInv, RequestsInOrder
<1>8. RequestsInOrder'
  <2>1. request' \in 1..Len(asked') \cup {None}
    BY <1>1, <1>7
  <2>2. ASSUME NEW i \in DOMAIN inbox', Asks(i)'
        PROVE  /\ inbox'[i].actor \in 1..Len(asked')
               /\ request' # None => request' < inbox'[i].actor
               /\ \A j \in DOMAIN inbox' : i < j /\ Asks(j)' => inbox'[i].actor < inbox'[j].actor
    <3>1. i + 1 \in DOMAIN inbox /\ Asks(i + 1) /\ inbox'[i] = inbox[i + 1] /\ i \in Nat \ {0}
      BY <1>2, <2>2 DEF Asks
    <3>2. inbox'[i].actor \in 1..Len(asked')
      BY <1>1, <3>1 DEF ClientInv, RequestsInOrder
    <3>3. request' # None => request' < inbox'[i].actor
      BY <1>2, <1>7, <3>1 DEF ClientInv, RequestsInOrder
    <3>4. ASSUME NEW j \in DOMAIN inbox', i < j, Asks(j)'
          PROVE  inbox'[i].actor < inbox'[j].actor
      <4>1. j + 1 \in DOMAIN inbox /\ Asks(j + 1) /\ inbox'[j] = inbox[j + 1] /\ j \in Nat
        BY <1>2, <3>4 DEF Asks
      <4>2. QED
        BY <3>1, <3>4, <4>1 DEF ClientInv, RequestsInOrder
    <3>5. QED
      BY <3>2, <3>3, <3>4
  <2>3. QED
    BY <2>1, <2>2 DEF RequestsInOrder
<1>9. LaterIsUnanswered'
  <2>1. ASSUME NEW id \in Ids, NotYetReached(id)'
        PROVE  NotYetReached(id)
    <3>1. CASE id > Len(asked')
      BY <1>1, <3>1 DEF NotYetReached
    <3>2. CASE request' # None /\ request' <= id
      BY <1>2, <1>7, <3>2 DEF NotYetReached
    <3>3. CASE \E i \in DOMAIN inbox' : Asks(i)' /\ inbox'[i].actor <= id
      BY <1>2, <3>3 DEF NotYetReached, Asks
    <3>4. QED
      BY <2>1, <3>1, <3>2, <3>3 DEF NotYetReached
  <2>2. QED
    BY <1>1, <2>1 DEF ClientInv, LaterIsUnanswered
<1>10. QED
  BY <1>4, <1>5, <1>6, <1>8, <1>9 DEF ClientInv

\* What the client may come to is a response to the offer of its request.
LEMMA PossibleResponsesAreOffered ==
  ASSUME ClientInv, request # None, NEW reply \in PossibleResponses
  PROVE  LET offer == asked[request].offer
         IN  /\ offer \in Offers
             /\ \/ /\ reply \notin {None, Absent, Withheld}
                   /\ reply.action \in ToSet(offer)
                \/ /\ reply = Absent
                   /\ \A i \in DOMAIN offer : offer[i].kind \in Abstract!OpenCalls
<1> DEFINE offer == asked[request].offer
<1>1. asked \in Seq(AskedRequests) /\ request \in 1..Len(asked)
  BY DEF ClientInv, Types, RequestsInOrder
<1> asked[request] \in AskedRequests
  BY <1>1
<1>2. /\ offer \in Offers /\ asked[request].drawn \in Tiles \cup {None}
      /\ last_tsumo \in Tiles \cup {None}
  BY DEF AskedRequests, ClientInv, Types
<1> HIDE DEF offer
<1>3. \A decoded \in BOOLEAN : ContextDrawn(decoded) \in DrawnIds
  BY <1>2 DEF ContextDrawn, DrawnIds
<1>4. \A decoded \in BOOLEAN :
        ResponsesTo[offer][ContextDrawn(decoded)] = Responses(AgentKind, offer, ContextDrawn(decoded))
  BY <1>2, <1>3 DEF ResponsesTo, Offers
<1>5. PICK decoded \in BOOLEAN : reply \in Responses(AgentKind, offer, ContextDrawn(decoded))
  BY <1>4 DEF PossibleResponses, offer
<1>6. \/ /\ reply \notin {None, Absent, Withheld}
         /\ \E i \in DOMAIN offer : reply.action = offer[i]
      \/ /\ reply = Absent
         /\ \A i \in DOMAIN offer : offer[i].kind \in Abstract!OpenCalls
  BY <1>2, <1>5, ResponseIsOffered
<1>7. QED
  BY <1>2, <1>6 DEF ToSet, offer

\* The request is done with: everything behind it is still unanswered.
LEMMA AnsweringKeepsOrder ==
  ASSUME ClientInv, request # None, request' = None, NEW result,
         answers' = [answers EXCEPT ![request] = result],
         UNCHANGED <<asked, inbox>>
  PROVE  DOMAIN answers' = Ids /\ RequestsInOrder' /\ LaterIsUnanswered' /\ NothingRejected'
<1>1. request \in 1..Len(asked) /\ Len(asked) \in Nat /\ DOMAIN answers = Ids
  BY DEF ClientInv, RequestsInOrder, Types
<1>2. RequestsInOrder' /\ NothingRejected'
  BY DEF ClientInv, RequestsInOrder, NothingRejected, Asks
<1>3. ASSUME NEW id \in Ids, NotYetReached(id)'
      PROVE  NotYetReached(id) /\ id # request
  BY <1>1, <1>3 DEF NotYetReached, ClientInv, RequestsInOrder, Asks, Ids
<1>4. LaterIsUnanswered'
  BY <1>1, <1>3 DEF ClientInv, LaterIsUnanswered
<1>5. QED
  BY <1>1, <1>2, <1>4

LEMMA SendReplyKeepsInv ==
  ASSUME ClientInv, SendReply
  PROVE  ClientInv'
<1>1. PICK reply \in PossibleResponses \ {Absent} :
        /\ outbox' = IF connection = "open"
                     THEN Append(outbox, [id |-> request, action |-> reply.action]) ELSE outbox
        /\ answers' = [answers EXCEPT ![request] = reply]
        /\ RecordResponse(reply)
  BY DEF SendReply
<1>2. /\ request # None /\ request' = None
      /\ UNCHANGED <<inbox, asked, open, table, drawn>>
  BY DEF SendReply, serverVars
<1>3. last_tsumo' = last_tsumo
  BY <1>1 DEF RecordResponse, OnActionResponse
<1>4. DOMAIN answers' = Ids /\ RequestsInOrder' /\ LaterIsUnanswered' /\ NothingRejected'
  BY <1>1, <1>2, AnsweringKeepsOrder
<1>5. asked[request].offer \in Offers /\ reply.action \in ToSet(asked[request].offer)
  BY <1>1, <1>2, PossibleResponsesAreOffered
<1>6. request \in 1..Len(asked) /\ request \in Nat
  BY <1>2 DEF ClientInv, RequestsInOrder
<1>7. reply.action \in OfferedActions
  BY <1>5 DEF OfferedActions, ToSet
<1>8. outbox \in Seq([id : Nat, action : OfferedActions])
  BY DEF ClientInv, Types
<1>9. outbox' \in Seq([id : Nat, action : OfferedActions]) /\ SentWasOffered'
  <2>1. CASE connection = "open"
    <3> DEFINE sent == [id |-> request, action |-> reply.action]
    <3>1. /\ sent \in [id : Nat, action : OfferedActions] /\ outbox' = Append(outbox, sent)
          /\ sent.id \in 1..Len(asked) /\ sent.action \in ToSet(asked[sent.id].offer)
      BY <1>1, <1>5, <1>6, <1>7, <2>1
    <3> HIDE DEF sent
    <3>2. /\ outbox' \in Seq([id : Nat, action : OfferedActions])
          /\ DOMAIN outbox' = 1..(Len(outbox) + 1) /\ DOMAIN outbox = 1..Len(outbox)
          /\ \A i \in DOMAIN outbox : outbox'[i] = outbox[i]
          /\ outbox'[Len(outbox) + 1] = sent /\ Len(outbox) \in Nat
      BY <1>8, <3>1
    <3>3. \A i \in DOMAIN outbox' : i \in DOMAIN outbox \/ i = Len(outbox) + 1
      BY <3>2
    <3>4. QED
      BY <1>2, <3>1, <3>2, <3>3 DEF ClientInv, SentWasOffered
  <2>2. CASE connection # "open"
    BY <1>1, <1>2, <1>8, <2>2 DEF ClientInv, SentWasOffered
  <2>3. QED
    BY <2>1, <2>2
<1>10. Types'
  BY <1>2, <1>3, <1>4, <1>9 DEF ClientInv, Types
<1>11. QED
  BY <1>4, <1>9, <1>10 DEF ClientInv

LEMMA WithholdKeepsInv ==
  ASSUME ClientInv, WithholdReply
  PROVE  ClientInv'
<1>1. /\ request # None /\ request' = None
      /\ answers' = [answers EXCEPT ![request] = Withheld]
      /\ UNCHANGED <<inbox, outbox, asked, open, table, drawn, last_tsumo>>
  BY DEF WithholdReply, wireVars, serverVars, trackerVars, ownVars
<1>2. DOMAIN answers' = Ids /\ RequestsInOrder' /\ LaterIsUnanswered' /\ NothingRejected'
  BY <1>1, AnsweringKeepsOrder
<1>3. QED
  BY <1>1, <1>2 DEF ClientInv, Types, SentWasOffered

\* The client ends, or nothing happens.
LEMMA EndingKeepsInv ==
  ASSUME ClientInv, FailToSend \/ ReadClose \/ ReadError \/ UNCHANGED vars
  PROVE  ClientInv'
<1>1. UNCHANGED <<request, answers, inbox, outbox, asked, open, table, drawn, last_tsumo>>
  BY DEF FailToSend, ReadClose, ReadError, vars, wireVars, serverVars, clientVars, trackerVars,
     ownVars
<1>2. QED
  BY <1>1 DEF ClientInv, Types, RequestsInOrder, LaterIsUnanswered, NotYetReached,
     SentWasOffered, NothingRejected, Asks

LEMMA ServerKeepsInv ==
  ASSUME ClientInv, ServerNext
  PROVE  ClientInv'
<1>1. \/ ServeStartGame \/ ServeStartKyoku \/ ServeHora
      \/ \E p \in Players :
           \/ ServeCall(p)
           \/ \E pai \in Faces : ServeTsumo(p, pai)
           \/ \E pai \in Tiles : ServeDahai(p, pai)
      \/ ServeRyukyoku
      \/ \E kind \in {"end_game", "validation_result"} : ServeEnd(kind)
      \/ \E offer \in ReactionOffers \cup TurnOffers : ServeRequest(offer)
      \/ ServeReply \/ ServeDefault \/ Close \/ Break
  BY DEF ServerNext
<1>2. CASE \E offer \in ReactionOffers \cup TurnOffers : ServeRequest(offer)
  BY <1>2, RequestKeepsInv DEF Offers
<1>3. CASE ServeReply \/ ServeDefault
  BY <1>3, SettlingKeepsInv
<1>4. CASE Close \/ Break
  BY <1>4, DisconnectKeepsInv
<1>5. QED
  BY <1>1, <1>2, <1>3, <1>4, EventsKeepInv

LEMMA InvStep == ClientInv /\ [ClientNext]_vars => ClientInv'
<1> SUFFICES ASSUME ClientInv, [ClientNext]_vars PROVE ClientInv'
  OBVIOUS
<1>1. CASE ServerNext
  BY <1>1, ServerKeepsInv
<1>2. CASE ClientStep
  BY <1>2, ReadKeepsInv, SendReplyKeepsInv, WithholdKeepsInv, EndingKeepsInv DEF ClientStep
<1>3. CASE UNCHANGED vars
  BY <1>3, EndingKeepsInv
<1>4. QED
  BY <1>1, <1>2, <1>3 DEF ClientNext

\* The invariant holds in every state.
THEOREM RequestsAreTracked == ClientSpec => []ClientInv
  BY InvInit, InvStep, PTL DEF ClientSpec

\* Whatever the agent chooses and however late the reply is, the server never has to
\* reject it: a reply on its way repeats an action of the request it names.
THEOREM NeverRejectedCorrect == ClientSpec => []NeverRejected
<1>1. ClientInv => NeverRejected
  <2> SUFFICES ASSUME ClientInv, Ack("rejected") \in ToSet(inbox) PROVE FALSE
    BY DEF NeverRejected
  <2>1. PICK i \in DOMAIN inbox : inbox[i] = Ack("rejected")
    BY DEF ToSet
  <2>2. Ack("rejected").kind = "rejected"
    BY DEF Ack, Message
  <2>3. QED
    BY <2>1, <2>2 DEF ClientInv, NothingRejected
<1>2. QED
  BY <1>1, RequestsAreTracked, PTL

------------------------------------------------------------------------------
(* The loop implements the promise of RequestReply. *)

\* The promise's variables, as the refinement maps them.
Offered == [id \in Ids |-> IF id \in DOMAIN asked THEN asked[id].offer ELSE None]
Answer == [id \in Ids |-> IF answers[id] \in {Unanswered, Withheld} THEN answers[id]
                          ELSE answers[id].action]

LEMMA PromiseInit == ClientInit => Abstract!Init
<1> SUFFICES ASSUME ClientInit PROVE Abstract!Init
  OBVIOUS
<1>1. asked = <<>> /\ \A id \in Ids : answers[id] = Unanswered
  BY DEF ClientInit
<1>2. DOMAIN asked = {}
  BY <1>1
<1>3. QED
  BY <1>1, <1>2 DEF Abstract!Init, Unanswered

\* A request of the server asks what the promise asks, under the next id.
LEMMA RequestAsks ==
  ASSUME ClientInv, NEW offer \in Offers, ServeRequest(offer)
  PROVE  \E id \in Ids : Abstract!Ask(id, offer)
<1> DEFINE new == [offer |-> offer, source |-> table.player, drawn |-> drawn]
           n == Len(asked) + 1
<1>1. /\ asked \in Seq(AskedRequests) /\ asked' = Append(asked, new)
      /\ new \in AskedRequests /\ answers' = answers
      /\ Len(asked) < MaxRequests /\ MaxRequests \in Nat
  BY ClientAssumption DEF ClientInv, Types, ServeRequest, AskedRequests, Send, clientVars
<1>2. /\ n \in Ids /\ Len(asked) \in Nat /\ DOMAIN asked = 1..Len(asked)
      /\ DOMAIN asked' = 1..n /\ asked'[n] = new
      /\ \A id \in DOMAIN asked : asked'[id] = asked[id] /\ asked[id] \in AskedRequests
  BY <1>1 DEF Ids
<1> HIDE DEF n
<1>3. /\ n \notin DOMAIN asked /\ DOMAIN asked' = DOMAIN asked \cup {n}
      /\ \A id \in Ids : id < n => id \in DOMAIN asked
  BY <1>2 DEF n, Ids
<1>4. /\ asked'[n].offer = offer
      /\ \A id \in DOMAIN asked : asked[id].offer # None
  BY <1>2, OfferAssumption DEF AskedRequests, Offers
<1>5. /\ Offered[n] = None
      /\ \A earlier \in Ids : earlier < n => Offered[earlier] # None
  BY <1>2, <1>3, <1>4 DEF Offered
<1>6. Offered' = [Offered EXCEPT ![n] = offer]
  BY <1>2, <1>3, <1>4 DEF Offered
<1>7. Answer' = Answer
  BY <1>1 DEF Answer
<1>8. Abstract!Ask(n, offer)
  BY <1>5, <1>6, <1>7 DEF Abstract!Ask, Offered, Answer
<1>9. QED
  BY <1>2, <1>8

\* An answer, or none, settles the request it is for: the last one to be settled.
LEMMA SettlesInOrder ==
  ASSUME ClientInv, request # None, NEW result, NEW answer,
         answers' = [answers EXCEPT ![request] = result],
         UNCHANGED asked,
         \/ result = Withheld /\ answer = Withheld
         \/ result \notin {None, Withheld} /\ answer = result.action
  PROVE  request \in Ids /\ Abstract!Settle(request, answer)
<1>1. /\ request \in 1..Len(asked) /\ request \in Ids /\ Len(asked) \in Nat
      /\ DOMAIN asked = 1..Len(asked) /\ DOMAIN answers = Ids
      /\ asked \in Seq(AskedRequests)
  BY ClientAssumption DEF ClientInv, Types, RequestsInOrder, Ids
<1> asked[request] \in AskedRequests
  BY <1>1
<1>2. Offered[request] # None
  BY <1>1, OfferAssumption DEF Offered, AskedRequests, Offers
<1>3. \A later \in Ids : later >= request => Answer[later] = None
  BY <1>1 DEF ClientInv, LaterIsUnanswered, NotYetReached, Answer, Unanswered
<1>4. Answer' = [Answer EXCEPT ![request] = answer]
  BY <1>1 DEF Answer, Unanswered
<1>5. Offered' = Offered
  BY DEF Offered
<1>6. QED
  BY <1>1, <1>2, <1>3, <1>4, <1>5 DEF Abstract!Settle, Offered, Answer, Unanswered

LEMMA ReplyAnswers ==
  ASSUME ClientInv, SendReply
  PROVE  Abstract!Next
<1>1. PICK reply \in PossibleResponses \ {Absent} :
        answers' = [answers EXCEPT ![request] = reply]
  BY DEF SendReply
<1>2. request # None /\ UNCHANGED asked
  BY DEF SendReply, serverVars
<1>3. reply \notin {None, Withheld} /\ reply.action \in ToSet(asked[request].offer)
  BY <1>1, <1>2, PossibleResponsesAreOffered
<1>4. request \in Ids /\ Abstract!Settle(request, reply.action)
  BY <1>1, <1>2, <1>3, SettlesInOrder
<1>5. request \in DOMAIN asked
  BY <1>2 DEF ClientInv, Types, RequestsInOrder
<1>6. Offered[request] = asked[request].offer /\ Offered[request] # None
  BY <1>4, <1>5 DEF Abstract!Settle, Offered
<1> PICK i \in DOMAIN Offered[request] : reply.action = Offered[request][i]
  BY <1>3, <1>6 DEF ToSet
<1>7. Abstract!Reply(request)
  BY <1>4 DEF Abstract!Reply, Abstract!Settle, Offered
<1>8. QED
  BY <1>4, <1>6, <1>7 DEF Abstract!Next, Offered

LEMMA WithholdingIsPromised ==
  ASSUME ClientInv, WithholdReply
  PROVE  Abstract!Next
<1>1. /\ request # None /\ Absent \in PossibleResponses /\ UNCHANGED asked
      /\ answers' = [answers EXCEPT ![request] = Withheld]
  BY DEF WithholdReply, serverVars
<1>2. \A i \in DOMAIN asked[request].offer :
        asked[request].offer[i].kind \in Abstract!OpenCalls
  BY <1>1, PossibleResponsesAreOffered
<1>3. request \in Ids /\ Abstract!Settle(request, Withheld)
  BY <1>1, SettlesInOrder
<1>4. request \in DOMAIN asked
  BY <1>1 DEF ClientInv, Types, RequestsInOrder
<1>5. Offered[request] = asked[request].offer /\ Offered[request] # None
  BY <1>3, <1>4 DEF Abstract!Settle, Offered
<1>6. Abstract!Withhold(request)
  BY <1>2, <1>3, <1>5 DEF Abstract!Withhold, Offered
<1>7. \E id \in Ids : Offered[id] # None /\ Abstract!Withhold(id)
  BY <1>3, <1>5, <1>6 DEF Abstract!Withhold, Abstract!Settle
<1>8. QED
  BY <1>7 DEF Abstract!Next, Offered

\* Everything else is invisible to the promise.
LEMMA StepIsPromised == ClientInv /\ [ClientNext]_vars => [Abstract!Next]_(Abstract!replyVars)
<1> SUFFICES ASSUME ClientInv, [ClientNext]_vars
             PROVE  Abstract!Next \/ UNCHANGED Abstract!replyVars
  OBVIOUS
<1>1. ASSUME UNCHANGED <<asked, answers>> PROVE UNCHANGED Abstract!replyVars
  BY <1>1 DEF Abstract!replyVars
<1>2. CASE ServerNext
  <2>1. ASSUME NEW offer \in ReactionOffers \cup TurnOffers, ServeRequest(offer)
        PROVE  Abstract!Next
    BY <2>1, RequestAsks DEF Abstract!Next, Offers
  <2>2. CASE UNCHANGED <<asked, answers>>
    BY <1>1, <2>2
  <2>3. QED
    BY <1>2, <2>1, <2>2
    DEF ServerNext, ServeStartGame, ServeStartKyoku, ServeHora, ServeRyukyoku, ServeEnd,
        ServeCall, ServeTsumo, ServeDahai, ServeReply, ServeDefault, Close, Break, SendEvent,
        Send, clientVars, serverVars
<1>3. CASE SendReply
  BY <1>3, ReplyAnswers
<1>4. CASE WithholdReply
  BY <1>4, WithholdingIsPromised
<1>5. CASE ReadMessage \/ FailToSend \/ ReadClose \/ ReadError \/ UNCHANGED vars
  BY <1>1, <1>5 DEF ReadMessage, FailToSend, ReadClose, ReadError, vars, clientVars, serverVars
<1>6. QED
  BY <1>2, <1>3, <1>4, <1>5 DEF ClientNext, ClientStep

\* The loop keeps the promise: a request is answered at most once, never behind a
\* later one and only with an action it offered, and it is left unanswered only if
\* nothing but open calls was offered.
THEOREM PromiseKept == ClientSpec => KeepsRequestPromise
  BY PromiseInit, StepIsPromised, RequestsAreTracked, PTL
  DEF ClientSpec, KeepsRequestPromise, Abstract!Spec

------------------------------------------------------------------------------
(* What the tracker knows of the game when a request is answered.  The tracker is   *)
(* behind the server by the messages on their way, so the facts below say what it   *)
(* will know after the first n of them.  They are lost with the first message that  *)
(* the client cannot interpret.                                                     *)

\* The messages that set the drawn tile of the tracker, and what they set it to.
Affects(message) ==
  \/ message.kind \in {"start_game", "start_kyoku"}
  \/ message.kind \in {"tsumo", "dahai"} /\ message.actor = Me
DrawOf(message) == IF message.kind = "tsumo" THEN message.tile ELSE None

\* The tracker's drawn tile after the first n messages: the last one that sets it
\* decides.
DrawnIs(n, tile) ==
  \/ tile = last_tsumo /\ \A i \in 1..n : ~Affects(inbox[i])
  \/ \E i \in 1..n : /\ Affects(inbox[i]) /\ tile = DrawOf(inbox[i])
                     /\ \A j \in (i + 1)..n : ~Affects(inbox[j])

\* When a request is taken up, the tracker has the tile the server had drawn for us
\* when it asked.
DrawIsTracked ==
  /\ own_tsumo_pending_discard <=> last_tsumo # None
  /\ DrawnIs(Len(inbox), drawn)
  /\ \A i \in DOMAIN inbox : Asks(i) => DrawnIs(i, asked[inbox[i].actor].drawn)
  /\ request # None => last_tsumo = asked[request].drawn

\* We hold a drawn tile in our own turn only, or after the round.
DrawIsOurTurn ==
  /\ drawn # None => \/ table.kind = "turn" /\ table.player = Me
                     \/ table.kind \in {"over", "ended"}
  /\ \A id \in DOMAIN asked : asked[id].drawn # None => asked[id].source = Me

\* The game starts once, and with it we learn our seat.
SeatIsTracked ==
  /\ seat_id \in {None, Me}
  /\ table.kind = "new" => /\ inbox = <<>> /\ asked = <<>>
                           /\ seat_id = None /\ ~declined /\ drawn = None
  /\ seat_id = None => \/ table.kind = "new"
                       \/ inbox # <<>> /\ inbox[1].kind = "start_game"
  /\ \A i \in DOMAIN inbox :
       /\ inbox[i].kind = "start_game" => i = 1 /\ inbox[i].actor = Me
       /\ inbox[i].kind = "start_game" => seat_id = None
       /\ inbox[i].kind = "tsumo" /\ inbox[i].actor = Me => inbox[i].tile \in Tiles

FactsKnown ==
  /\ seat_id = Me
  /\ history_furiten.same_turn # "unknown"
  /\ history_furiten.riichi_missed_win # "unknown"
KnownAfter(n) == FactsKnown \/ \E i \in 1..n : inbox[i].kind = "start_kyoku"

\* When a request is taken up, the start of its round has been seen.
RoundIsKnown ==
  /\ history_furiten \in FuritenFacts
  /\ table.kind \in {"draw", "turn", "discarded"} => KnownAfter(Len(inbox))
  /\ \A i \in DOMAIN inbox : Asks(i) => KnownAfter(i)
  /\ request # None => FactsKnown

\* While a request is open the game stands still: behind the request there are only
\* verdicts on replies.
OnlyVerdicts == \A i \in DOMAIN inbox : inbox[i].kind \in Verdicts
GameWaits ==
  open # None =>
    \A i \in DOMAIN inbox :
      \/ inbox[i].kind \in Verdicts
      \/ \E j \in DOMAIN inbox : i <= j /\ Asks(j) /\ inbox[j].actor = open

\* What ends same-turn furiten, or forgets it.
ForgetsThePass(i) ==
  \/ inbox[i].kind \in {"start_game", "start_kyoku"}
  \/ inbox[i].kind = "dahai" /\ inbox[i].actor = Me /\ ~DrawnIs(i - 1, None)
PassesUp(id, action) == OffersWin(id) /\ IsReaction(id) /\ action.kind # "hora"

\* From the reply to an open request on, a win that it passes up is furiten, and the
\* tracker is not about to forget it.
PassIsFuriten ==
  /\ \A i \in DOMAIN outbox : outbox[i].id = open /\ PassesUp(open, outbox[i].action) =>
       history_furiten.same_turn = "yes" /\ OnlyVerdicts
  /\ declined => /\ history_furiten.same_turn = "yes"
                 /\ \A i \in DOMAIN inbox : ~ForgetsThePass(i)

InStep == DrawIsTracked /\ SeatIsTracked /\ RoundIsKnown /\ GameWaits /\ PassIsFuriten
StepInv == DrawIsOurTurn /\ garbled \in Nat /\ (garbled = 0 => InStep)

\* A message more on the way.
LEMMA DrawAfterSend ==
  ASSUME inbox \in Seq(Messages), NEW m, inbox' = Append(inbox, m), last_tsumo' = last_tsumo
  PROVE  /\ \A n \in 0..Len(inbox) : \A tile : DrawnIs(n, tile) => DrawnIs(n, tile)'
         /\ \A n, tile : /\ n = Len(inbox) + 1
                         /\ IF Affects(m) THEN tile = DrawOf(m) ELSE DrawnIs(Len(inbox), tile)
                         => DrawnIs(n, tile)'
<1>1. /\ Len(inbox) \in Nat
      /\ \A i \in 1..Len(inbox) : inbox'[i] = inbox[i]
      /\ inbox'[Len(inbox) + 1] = m
  OBVIOUS
<1>2. \A n \in 0..Len(inbox) : \A tile : DrawnIs(n, tile) => DrawnIs(n, tile)'
  BY <1>1 DEF DrawnIs, Affects, DrawOf
<1>3. ASSUME NEW n, NEW tile, n = Len(inbox) + 1, Affects(m), tile = DrawOf(m)
      PROVE  DrawnIs(n, tile)'
  <2>1. /\ n \in 1..n /\ Affects(inbox'[n]) /\ tile = DrawOf(inbox'[n])
        /\ \A j \in (n + 1)..n : FALSE
    BY <1>1, <1>3
  <2>2. QED
    BY <2>1 DEF DrawnIs, Affects, DrawOf
<1>4. ASSUME NEW n, NEW tile, n = Len(inbox) + 1, ~Affects(m), DrawnIs(Len(inbox), tile)
      PROVE  DrawnIs(n, tile)'
  <2>1. /\ \A i \in 1..n : i \in 1..Len(inbox) \/ i = n
        /\ n \in Nat /\ inbox'[n] = m
    BY <1>1, <1>4
  <2>2. CASE tile = last_tsumo /\ \A i \in 1..Len(inbox) : ~Affects(inbox[i])
    BY <1>1, <1>4, <2>1, <2>2 DEF DrawnIs, Affects
  <2>3. CASE \E i \in 1..Len(inbox) :
               /\ Affects(inbox[i]) /\ tile = DrawOf(inbox[i])
               /\ \A j \in (i + 1)..Len(inbox) : ~Affects(inbox[j])
    <3>1. PICK i \in 1..Len(inbox) :
            /\ Affects(inbox[i]) /\ tile = DrawOf(inbox[i])
            /\ \A j \in (i + 1)..Len(inbox) : ~Affects(inbox[j])
      BY <2>3
    <3>2. \A j \in (i + 1)..n : j \in (i + 1)..Len(inbox) \/ j = n
      BY <1>1, <1>4
    <3>3. /\ i \in 1..n /\ Affects(inbox'[i]) /\ tile = DrawOf(inbox'[i])
          /\ \A j \in (i + 1)..n : ~Affects(inbox'[j])
      BY <1>1, <1>4, <2>1, <3>1, <3>2
    <3>4. QED
      BY <3>3 DEF DrawnIs, Affects, DrawOf
  <2>4. QED
    BY <1>4, <2>2, <2>3 DEF DrawnIs
<1>5. QED
  BY <1>2, <1>3, <1>4

\* A message fewer.
LEMMA DrawAfterRead ==
  ASSUME inbox \in Seq(Messages), inbox # <<>>, inbox' = Tail(inbox),
         last_tsumo' = IF Affects(inbox[1]) THEN DrawOf(inbox[1]) ELSE last_tsumo,
         NEW n \in 0..Len(inbox'), NEW tile, DrawnIs(n + 1, tile)
  PROVE  DrawnIs(n, tile)'
<1>1. /\ Len(inbox) \in Nat /\ Len(inbox) > 0 /\ Len(inbox') = Len(inbox) - 1
      /\ \A i \in 1..Len(inbox') : inbox'[i] = inbox[i + 1]
      /\ n \in Nat
  OBVIOUS
<1>2. CASE tile = last_tsumo /\ \A i \in 1..(n + 1) : ~Affects(inbox[i])
  <2>1. /\ 1 \in 1..(n + 1) /\ \A i \in 1..n : i + 1 \in 1..(n + 1) /\ i \in 1..Len(inbox')
    BY <1>1
  <2>2. tile = last_tsumo' /\ \A i \in 1..n : ~Affects(inbox'[i])
    BY <1>1, <1>2, <2>1
  <2>3. QED
    BY <2>2 DEF DrawnIs, Affects
<1>3. CASE \E i \in 1..(n + 1) : /\ Affects(inbox[i]) /\ tile = DrawOf(inbox[i])
                                 /\ \A j \in (i + 1)..(n + 1) : ~Affects(inbox[j])
  <2>1. PICK i \in 1..(n + 1) : /\ Affects(inbox[i]) /\ tile = DrawOf(inbox[i])
                                /\ \A j \in (i + 1)..(n + 1) : ~Affects(inbox[j])
    BY <1>3
  <2>2. CASE i = 1
    <3>1. \A j \in 1..n : j + 1 \in (i + 1)..(n + 1) /\ j \in 1..Len(inbox')
      BY <1>1, <2>2
    <3>2. tile = last_tsumo' /\ \A j \in 1..n : ~Affects(inbox'[j])
      BY <1>1, <2>1, <2>2, <3>1
    <3>3. QED
      BY <3>2 DEF DrawnIs, Affects
  <2>3. CASE i # 1
    <3>1. /\ i - 1 \in 1..n /\ i - 1 \in 1..Len(inbox') /\ (i - 1) + 1 = i
          /\ \A j \in ((i - 1) + 1)..n : j + 1 \in (i + 1)..(n + 1) /\ j \in 1..Len(inbox')
      BY <1>1, <2>3
    <3>2. /\ Affects(inbox'[i - 1]) /\ tile = DrawOf(inbox'[i - 1])
          /\ \A j \in ((i - 1) + 1)..n : ~Affects(inbox'[j])
      BY <1>1, <2>1, <3>1
    <3>3. QED
      BY <3>1, <3>2 DEF DrawnIs, Affects, DrawOf
  <2>4. QED
    BY <2>2, <2>3
<1>4. QED
  BY <1>2, <1>3 DEF DrawnIs

\* What the tracker makes of a message, as far as our draw, our seat and furiten go.
LEMMA TrackedFacts ==
  ASSUME NEW m \in Messages, Track(m), seat_id \in {None, Me}, history_furiten \in FuritenFacts,
         m.kind = "start_game" => m.actor = Me,
         m.kind # "start_game" => seat_id = Me,
         m.kind = "tsumo" /\ m.actor = Me => m.tile \in Tiles,
         own_tsumo_pending_discard <=> last_tsumo # None
  PROVE  /\ seat_id' = Me /\ history_furiten' \in FuritenFacts
         /\ last_tsumo' = IF Affects(m) THEN DrawOf(m) ELSE last_tsumo
         /\ own_tsumo_pending_discard' <=> last_tsumo' # None
         /\ m.kind = "start_kyoku" => FactsKnown'
         /\ m.kind # "start_game" /\ FactsKnown => FactsKnown'
         /\ /\ history_furiten.same_turn = "yes" /\ m.kind \notin {"start_game", "start_kyoku"}
            /\ ~(m.kind = "dahai" /\ m.actor = Me /\ last_tsumo # None)
            => history_furiten'.same_turn = "yes"
<1>1. CASE m.kind = "start_game" /\ OnStartGame(m.actor)
  BY <1>1 DEF OnStartGame, Affects, DrawOf, UnknownFuriten, FuritenFacts, Fact
<1>2. CASE m.kind = "start_kyoku" /\ OnStartKyoku
  BY <1>2 DEF OnStartKyoku, Affects, DrawOf, NoFuriten, FuritenFacts, Fact, FactsKnown
<1>3. CASE m.kind = "tsumo" /\ OnTsumo(m.actor, m.tile)
  <2>1. seat_id' = seat_id /\ seat_id = Me /\ history_furiten' = history_furiten
    BY <1>3 DEF OnTsumo
  <2>2. last_tsumo' = IF Affects(m) THEN DrawOf(m) ELSE last_tsumo
    BY <1>3, <2>1, TileAssumption DEF OnTsumo, Affects, DrawOf
  <2>3. own_tsumo_pending_discard' <=> last_tsumo' # None
    BY <1>3, <2>1, TileAssumption DEF OnTsumo
  <2>4. QED
    BY <1>3, <2>1, <2>2, <2>3 DEF FactsKnown
<1>4. CASE m.kind = "dahai" /\ OnDahai(m.actor, m.tile, m.actor = Me)
  <2>1. /\ seat_id' = seat_id /\ seat_id = Me
        /\ history_furiten' = FuritenAfterDahai(m.actor)
        /\ last_tsumo' = DrawnAfterDahai(m.actor)
        /\ own_tsumo_pending_discard' = (m.actor # seat_id /\ own_tsumo_pending_discard)
    BY <1>4 DEF OnDahai
  <2>2. /\ last_tsumo' = IF Affects(m) THEN DrawOf(m) ELSE last_tsumo
        /\ own_tsumo_pending_discard' <=> last_tsumo' # None
    BY <1>4, <2>1 DEF Affects, DrawOf, DrawnAfterDahai
  <2>3. \/ history_furiten' = history_furiten
        \/ /\ history_furiten' = [history_furiten EXCEPT !.same_turn = "no"]
           /\ m.actor = Me /\ last_tsumo # None
    BY <2>1 DEF FuritenAfterDahai
  <2>4. QED
    BY <1>4, <2>1, <2>2, <2>3 DEF FactsKnown, FuritenFacts, Fact
<1>5. CASE m.kind = "pon" /\ OnCall(m.actor)
  BY <1>5 DEF OnCall, Calls, ownVars, Affects, FactsKnown
<1>6. CASE m.kind = "hora" /\ OnHora
  BY <1>6 DEF OnHora, ownVars, Affects, FactsKnown
<1>7. CASE /\ m.kind \in Verdicts \cup {"ryukyoku", "request_action", "end_game",
                                        "validation_result", "uninterpretable"}
           /\ UNCHANGED trackerVars
  BY <1>7 DEF trackerVars, ownVars, Affects, FactsKnown, Verdicts
<1>8. QED
  BY <1>1, <1>2, <1>3, <1>4, <1>5, <1>6, <1>7 DEF Track

\* Nothing is lost on the way: the message itself is sent.
LEMMA UngarbledSend ==
  ASSUME garbled \in Nat, NEW message, Send(message)
  PROVE  /\ garbled' \in Nat
         /\ garbled' = 0 => /\ garbled = 0 /\ inbox' = Append(inbox, message)
                            /\ UNCHANGED <<trackerVars, clientVars>>
  BY DEF Send

\* The variables the facts are about, apart from the server's.
ClientIsStill == UNCHANGED <<seat_id, last_tsumo, own_tsumo_pending_discard, history_furiten,
                             request>>
LEMMA StillClient == ASSUME UNCHANGED <<trackerVars, clientVars>> PROVE ClientIsStill
  BY DEF ClientIsStill, trackerVars, ownVars, clientVars

\* An event of the game keeps the facts if it changes the server's draw as it will
\* change the tracker's, starts the game or the round when the server says so, and
\* ends a pass when the tracker will.
LEMMA EventKeepsStep ==
  ASSUME ClientInv, InStep, NEW m \in Messages, m.kind \in EventKinds,
         inbox' = Append(inbox, m), ClientIsStill,
         open = None, UNCHANGED <<outbox, asked, open>>,
         drawn' = IF Affects(m) THEN DrawOf(m) ELSE drawn,
         m.kind = "start_game" <=> table.kind = "new",
         m.kind = "start_game" => m.actor = Me,
         table'.kind # "new",
         m.kind = "tsumo" /\ m.actor = Me => m.tile \in Tiles,
         table'.kind \in {"draw", "turn", "discarded"} =>
           m.kind = "start_kyoku" \/ table.kind \in {"draw", "turn", "discarded"},
         declined' => /\ declined /\ m.kind # "start_kyoku"
                      /\ m.kind = "dahai" /\ m.actor = Me => drawn = None
  PROVE  InStep'
<1>1. /\ inbox \in Seq(Messages) /\ Len(inbox) \in Nat /\ Len(inbox') = Len(inbox) + 1
      /\ \A i \in DOMAIN inbox : inbox'[i] = inbox[i]
      /\ inbox'[Len(inbox) + 1] = m
      /\ DOMAIN inbox = 1..Len(inbox) /\ DOMAIN inbox' = 1..(Len(inbox) + 1)
      /\ \A i \in DOMAIN inbox' : i \in DOMAIN inbox \/ i = Len(inbox) + 1
  BY DEF ClientInv, Types
<1>2. last_tsumo' = last_tsumo /\ request' = request
  BY DEF ClientIsStill
<1>3. /\ \A n \in 0..Len(inbox) : \A tile : DrawnIs(n, tile) => DrawnIs(n, tile)'
      /\ \A n, tile : /\ n = Len(inbox) + 1
                      /\ IF Affects(m) THEN tile = DrawOf(m) ELSE DrawnIs(Len(inbox), tile)
                      => DrawnIs(n, tile)'
  BY <1>1, <1>2, DrawAfterSend
<1>4. m.kind # "request_action"
  BY DEF EventKinds
<1>5. DrawIsTracked'
  <2>1. own_tsumo_pending_discard' <=> last_tsumo' # None
    BY DEF InStep, DrawIsTracked, ClientIsStill
  <2>2. DrawnIs(Len(inbox), drawn)'
    <3>1. \A n : n = Len(inbox) + 1 => DrawnIs(n, drawn)'
      BY <1>3 DEF InStep, DrawIsTracked
    <3>2. QED
      BY <1>1, <3>1
  <2>3. ASSUME NEW i \in DOMAIN inbox', Asks(i)'
        PROVE  DrawnIs(i, asked[inbox[i].actor].drawn)'
    <3>1. i \in DOMAIN inbox /\ Asks(i) /\ inbox'[i] = inbox[i] /\ i \in 0..Len(inbox)
      BY <1>1, <1>4, <2>3 DEF Asks
    <3>2. DrawnIs(i, asked[inbox[i].actor].drawn)
      BY <3>1 DEF InStep, DrawIsTracked
    <3>3. QED
      BY <1>3, <3>1, <3>2
  <2>4. request' # None => last_tsumo' = asked'[request'].drawn
    BY <1>2 DEF InStep, DrawIsTracked
  <2>5. QED
    BY <2>1, <2>2, <2>3, <2>4 DEF DrawIsTracked
<1>6. SeatIsTracked'
  <2>1. seat_id' = seat_id /\ seat_id \in {None, Me}
    BY DEF ClientIsStill, InStep, SeatIsTracked
  <2>2. seat_id' = None => inbox' # <<>> /\ inbox'[1].kind = "start_game"
    <3>1. ASSUME seat_id = None PROVE inbox'[1].kind = "start_game"
      <4>1. CASE table.kind = "new"
        BY <1>1, <4>1 DEF InStep, SeatIsTracked
      <4>2. CASE inbox # <<>> /\ inbox[1].kind = "start_game"
        BY <1>1, <4>2
      <4>3. QED
        BY <3>1, <4>1, <4>2 DEF InStep, SeatIsTracked
    <3>2. QED
      BY <1>1, <2>1, <3>1
  <2>3. ASSUME NEW i \in DOMAIN inbox'
        PROVE  /\ inbox'[i].kind = "start_game" => i = 1 /\ inbox'[i].actor = Me
               /\ inbox'[i].kind = "start_game" => seat_id' = None
               /\ inbox'[i].kind = "tsumo" /\ inbox'[i].actor = Me => inbox'[i].tile \in Tiles
    <3>1. CASE i \in DOMAIN inbox
      BY <1>1, <2>1, <3>1 DEF InStep, SeatIsTracked
    <3>2. CASE i = Len(inbox) + 1
      <4>1. table.kind = "new" => inbox = <<>> /\ seat_id = None
        BY DEF InStep, SeatIsTracked
      <4>2. QED
        BY <1>1, <2>1, <3>2, <4>1
    <3>3. QED
      BY <1>1, <3>1, <3>2
  <2>4. QED
    BY <2>1, <2>2, <2>3 DEF SeatIsTracked
<1>7. RoundIsKnown'
  <2>1. FactsKnown' = FactsKnown /\ history_furiten' = history_furiten
    BY DEF FactsKnown, ClientIsStill
  <2>2. \A n \in 0..Len(inbox) : KnownAfter(n) => KnownAfter(n)'
    BY <1>1, <2>1 DEF KnownAfter
  <2>3. table'.kind \in {"draw", "turn", "discarded"} => KnownAfter(Len(inbox))'
    <3>1. CASE m.kind = "start_kyoku"
      <4>1. Len(inbox) + 1 \in 1..Len(inbox') /\ inbox'[Len(inbox) + 1].kind = "start_kyoku"
        BY <1>1, <3>1
      <4>2. QED
        BY <4>1 DEF KnownAfter
    <3>2. CASE m.kind # "start_kyoku"
      BY <1>1, <2>1, <3>2 DEF InStep, RoundIsKnown, KnownAfter
    <3>3. QED
      BY <3>1, <3>2
  <2>4. ASSUME NEW i \in DOMAIN inbox', Asks(i)'
        PROVE  KnownAfter(i)'
    <3>1. i \in DOMAIN inbox /\ Asks(i) /\ i \in 0..Len(inbox)
      BY <1>1, <1>4, <2>4 DEF Asks
    <3>2. QED
      BY <2>2, <3>1 DEF InStep, RoundIsKnown
  <2>5. request' # None => FactsKnown'
    BY <1>2, <2>1 DEF InStep, RoundIsKnown
  <2>6. QED
    BY <2>1, <2>3, <2>4, <2>5 DEF RoundIsKnown, InStep
<1>8. GameWaits'
  BY DEF GameWaits
<1>9. PassIsFuriten'
  <2>1. ASSUME NEW i \in DOMAIN outbox', outbox'[i].id = open'
        PROVE  FALSE
    BY <2>1, MarkerAssumption DEF ClientInv, SentWasOffered
  <2>2. ASSUME declined'
        PROVE  /\ history_furiten'.same_turn = "yes"
               /\ \A i \in DOMAIN inbox' : ~ForgetsThePass(i)'
    <3>1. /\ declined /\ history_furiten' = history_furiten
          /\ history_furiten.same_turn = "yes"
          /\ \A i \in DOMAIN inbox : ~ForgetsThePass(i)
          /\ m.kind \notin {"start_game", "start_kyoku"}
      BY <2>2 DEF InStep, PassIsFuriten, SeatIsTracked, ClientIsStill
    <3>2. ASSUME NEW i \in DOMAIN inbox PROVE ~ForgetsThePass(i)'
      <4>1. DrawnIs(i - 1, None) => DrawnIs(i - 1, None)'
        <5>1. i - 1 \in 0..Len(inbox)
          BY <1>1
        <5>2. QED
          BY <1>3, <5>1
      <4>2. QED
        BY <1>1, <3>1, <4>1 DEF ForgetsThePass
    <3>3. ASSUME NEW i, i = Len(inbox) + 1 PROVE ~ForgetsThePass(i)'
      <4>1. m.kind = "dahai" /\ m.actor = Me => DrawnIs(Len(inbox), None)
        BY <2>2 DEF InStep, DrawIsTracked
      <4>2. i - 1 = Len(inbox) /\ Len(inbox) \in 0..Len(inbox)
        BY <1>1, <3>3
      <4>3. m.kind = "dahai" /\ m.actor = Me => DrawnIs(i - 1, None)'
        BY <1>3, <4>1, <4>2
      <4>4. QED
        BY <1>1, <3>1, <3>3, <4>3 DEF ForgetsThePass
    <3>4. QED
      BY <1>1, <3>1, <3>2, <3>3
  <2>3. QED
    BY <2>1, <2>2 DEF PassIsFuriten
<1>10. QED
  BY <1>5, <1>6, <1>7, <1>8, <1>9 DEF InStep

\* A request is behind everything it rests on.
LEMMA RequestKeepsStep ==
  ASSUME ClientInv, InStep, garbled \in Nat, garbled' = 0, NEW offer \in Offers,
         ServeRequest(offer)
  PROVE  InStep'
<1> DEFINE new == [offer |-> offer, source |-> table.player, drawn |-> drawn]
           n == Len(asked) + 1
           m == Request(n)
<1>1. /\ asked \in Seq(AskedRequests) /\ asked' = Append(asked, new)
      /\ new \in AskedRequests
  BY DEF ServeRequest, ClientInv, Types, AskedRequests
<1>2. /\ Len(asked) \in Nat /\ Len(asked') = n
      /\ asked'[n].drawn = drawn
      /\ \A id \in 1..Len(asked) : asked'[id] = asked[id]
  BY <1>1
<1>3. /\ Send(m) /\ open' = n /\ UNCHANGED <<outbox, table, drawn, declined>>
      /\ table.kind \in {"discarded", "turn"}
  BY <1>2 DEF ServeRequest
<1>4. m.kind = "request_action" /\ m.actor = n /\ ~Affects(m)
  BY DEF Request, Message, Affects
<1> HIDE DEF new, m
<1>5. inbox' = Append(inbox, m) /\ ClientIsStill
  BY <1>3, UngarbledSend, StillClient
<1> HIDE DEF n
<1>6. /\ inbox \in Seq(Messages) /\ Len(inbox) \in Nat /\ Len(inbox') = Len(inbox) + 1
      /\ \A i \in DOMAIN inbox : inbox'[i] = inbox[i]
      /\ inbox'[Len(inbox) + 1] = m
      /\ DOMAIN inbox = 1..Len(inbox) /\ DOMAIN inbox' = 1..(Len(inbox) + 1)
      /\ \A i \in DOMAIN inbox' : i \in DOMAIN inbox \/ i = Len(inbox) + 1
  BY <1>5 DEF ClientInv, Types
<1>7. last_tsumo' = last_tsumo /\ request' = request
  BY <1>5 DEF ClientIsStill
<1>8. /\ \A k \in 0..Len(inbox) : \A tile : DrawnIs(k, tile) => DrawnIs(k, tile)'
      /\ \A k, tile : k = Len(inbox) + 1 /\ DrawnIs(Len(inbox), tile) => DrawnIs(k, tile)'
  BY <1>4, <1>5, <1>6, <1>7, DrawAfterSend
<1>9. DrawIsTracked'
  <2>1. own_tsumo_pending_discard' <=> last_tsumo' # None
    BY <1>5 DEF InStep, DrawIsTracked, ClientIsStill
  <2>2. \A k : k = Len(inbox) + 1 => DrawnIs(k, drawn)'
    BY <1>3, <1>8 DEF InStep, DrawIsTracked
  <2>3. ASSUME NEW i \in DOMAIN inbox', Asks(i)'
        PROVE  DrawnIs(i, asked[inbox[i].actor].drawn)'
    <3>1. CASE i \in DOMAIN inbox
      <4>1. Asks(i) /\ inbox'[i] = inbox[i] /\ inbox[i].actor \in 1..Len(asked)
        BY <1>6, <2>3, <3>1 DEF Asks, ClientInv, RequestsInOrder
      <4>2. i \in 0..Len(inbox) /\ DrawnIs(i, asked[inbox[i].actor].drawn)
        BY <1>6, <3>1, <4>1 DEF InStep, DrawIsTracked
      <4>3. QED
        BY <1>2, <1>8, <4>1, <4>2
    <3>2. CASE i = Len(inbox) + 1
      BY <1>2, <1>3, <1>4, <1>6, <2>2, <3>2
    <3>3. QED
      BY <1>6, <3>1, <3>2
  <2>4. request' # None => last_tsumo' = asked'[request'].drawn
    BY <1>2, <1>7 DEF InStep, DrawIsTracked, ClientInv, RequestsInOrder
  <2>5. QED
    BY <1>6, <2>1, <2>2, <2>3, <2>4 DEF DrawIsTracked
<1>10. SeatIsTracked'
  <2>1. seat_id' = seat_id
    BY <1>5 DEF ClientIsStill
  <2>2. seat_id' = None => inbox' # <<>> /\ inbox'[1].kind = "start_game"
    BY <1>3, <1>6, <2>1 DEF InStep, SeatIsTracked
  <2>3. QED
    BY <1>3, <1>4, <1>6, <2>1, <2>2 DEF InStep, SeatIsTracked
<1>11. RoundIsKnown'
  <2>1. FactsKnown' = FactsKnown /\ history_furiten' = history_furiten
    BY <1>5 DEF FactsKnown, ClientIsStill
  <2>2. \A k \in 0..Len(inbox) : KnownAfter(k) => KnownAfter(k)'
    BY <1>6, <2>1 DEF KnownAfter
  <2>3. \A k : k = Len(inbox) + 1 => KnownAfter(k)'
    BY <1>3, <1>6, <2>1 DEF InStep, RoundIsKnown, KnownAfter
  <2>4. \A i \in DOMAIN inbox' : Asks(i)' => KnownAfter(i)'
    BY <1>6, <2>2, <2>3 DEF InStep, RoundIsKnown, Asks
  <2>5. QED
    BY <1>3, <1>6, <1>7, <2>1, <2>3, <2>4 DEF InStep, RoundIsKnown
<1>12. GameWaits'
  <2>1. /\ Len(inbox) + 1 \in DOMAIN inbox'
        /\ inbox'[Len(inbox) + 1].kind = "request_action"
        /\ inbox'[Len(inbox) + 1].actor = open'
        /\ \A i \in DOMAIN inbox' : i <= Len(inbox) + 1
    BY <1>3, <1>4, <1>6
  <2>2. QED
    BY <1>4, <1>6, <2>1 DEF GameWaits, Asks
<1>13. PassIsFuriten'
  <2>1. \A i \in DOMAIN outbox' : outbox'[i].id # open'
    BY <1>2, <1>3 DEF ClientInv, SentWasOffered, n
  <2>2. ASSUME declined'
        PROVE  /\ history_furiten'.same_turn = "yes"
               /\ \A i \in DOMAIN inbox' : ~ForgetsThePass(i)'
    <3>1. /\ declined /\ history_furiten' = history_furiten
          /\ history_furiten.same_turn = "yes"
          /\ \A i \in DOMAIN inbox : ~ForgetsThePass(i)
      BY <1>3, <1>5, <2>2 DEF InStep, PassIsFuriten, ClientIsStill
    <3>2. ASSUME NEW i \in DOMAIN inbox PROVE ~ForgetsThePass(i)'
      <4>1. DrawnIs(i - 1, None) => DrawnIs(i - 1, None)'
        <5>1. i - 1 \in 0..Len(inbox)
          BY <1>6
        <5>2. QED
          BY <1>8, <5>1
      <4>2. QED
        BY <1>6, <3>1, <4>1 DEF ForgetsThePass
    <3>3. ASSUME NEW i, i = Len(inbox) + 1 PROVE ~ForgetsThePass(i)'
      BY <1>4, <1>6, <3>3 DEF ForgetsThePass
    <3>4. QED
      BY <1>6, <3>1, <3>2, <3>3
  <2>3. QED
    BY <2>1, <2>2 DEF PassIsFuriten
<1>14. QED
  BY <1>9, <1>10, <1>11, <1>12, <1>13 DEF InStep

\* The server takes a reply, or does without one, and says so.
LEMMA VerdictKeepsStep ==
  ASSUME ClientInv, InStep, NEW verdict \in Verdicts, inbox' = Append(inbox, Ack(verdict)),
         ClientIsStill, UNCHANGED <<asked, table, drawn>>,
         open' \in {open, None}, outbox' \in {outbox, Tail(outbox)},
         outbox # <<>> \/ (open # None /\ outbox' = outbox),
         declined' => \/ declined
                      \/ \E i \in DOMAIN outbox :
                           outbox[i].id = open /\ PassesUp(open, outbox[i].action)
  PROVE  InStep'
<1> DEFINE m == Ack(verdict)
<1>1. /\ m.kind \in Verdicts /\ ~Affects(m)
      /\ m.kind \notin {"request_action", "start_game", "start_kyoku", "tsumo", "dahai"}
  BY DEF Ack, Message, Affects, Verdicts
<1> HIDE DEF m
<1>2. /\ inbox \in Seq(Messages) /\ Len(inbox) \in Nat /\ Len(inbox') = Len(inbox) + 1
      /\ \A i \in DOMAIN inbox : inbox'[i] = inbox[i]
      /\ inbox'[Len(inbox) + 1] = m /\ inbox' = Append(inbox, m)
      /\ DOMAIN inbox = 1..Len(inbox) /\ DOMAIN inbox' = 1..(Len(inbox) + 1)
      /\ \A i \in DOMAIN inbox' : i \in DOMAIN inbox \/ i = Len(inbox) + 1
  BY DEF ClientInv, Types, m
<1>3. last_tsumo' = last_tsumo /\ request' = request /\ seat_id' = seat_id
  BY DEF ClientIsStill
<1>4. /\ \A k \in 0..Len(inbox) : \A tile : DrawnIs(k, tile) => DrawnIs(k, tile)'
      /\ \A k, tile : k = Len(inbox) + 1 /\ DrawnIs(Len(inbox), tile) => DrawnIs(k, tile)'
  BY <1>1, <1>2, <1>3, DrawAfterSend
<1>5. \A i \in DOMAIN inbox' : Asks(i)' => i \in DOMAIN inbox /\ Asks(i) /\ i \in 0..Len(inbox)
  BY <1>1, <1>2 DEF Asks
<1>6. DrawIsTracked'
  <2>1. own_tsumo_pending_discard' <=> last_tsumo' # None
    BY DEF InStep, DrawIsTracked, ClientIsStill
  <2>2. \A k : k = Len(inbox) + 1 => DrawnIs(k, drawn)'
    BY <1>4 DEF InStep, DrawIsTracked
  <2>3. ASSUME NEW i \in DOMAIN inbox', Asks(i)'
        PROVE  DrawnIs(i, asked[inbox[i].actor].drawn)'
    BY <1>2, <1>4, <1>5, <2>3 DEF InStep, DrawIsTracked
  <2>4. QED
    BY <1>2, <1>3, <2>1, <2>2, <2>3 DEF DrawIsTracked, InStep
<1>7. SeatIsTracked'
  <2>1. table.kind # "new"
    <3>1. outbox # <<>> => \E i \in DOMAIN outbox : outbox[i].id \in 1..Len(asked)
      <4>1. outbox \in Seq([id : Nat, action : OfferedActions])
        BY DEF ClientInv, Types
      <4>2. outbox # <<>> => 1 \in DOMAIN outbox
        BY <4>1
      <4>3. QED
        BY <4>2 DEF ClientInv, SentWasOffered
    <3>2. asked # <<>>
      <4>1. 1..Len(asked) # {}
        <5>1. CASE outbox # <<>>
          BY <3>1, <5>1
        <5>2. CASE open # None
          BY <5>2 DEF ClientInv, Types
        <5>3. QED
          BY <5>1, <5>2
      <4>2. asked \in Seq(AskedRequests)
        BY DEF ClientInv, Types
      <4>3. QED
        BY <4>1, <4>2
    <3>3. QED
      BY <3>2 DEF InStep, SeatIsTracked
  <2>2. seat_id' = None => inbox' # <<>> /\ inbox'[1].kind = "start_game"
    BY <1>2, <1>3, <2>1 DEF InStep, SeatIsTracked
  <2>3. QED
    BY <1>1, <1>2, <1>3, <2>1, <2>2 DEF InStep, SeatIsTracked
<1>8. RoundIsKnown'
  <2>1. FactsKnown' = FactsKnown /\ history_furiten' = history_furiten
    BY DEF FactsKnown, ClientIsStill
  <2>2. \A k \in 0..Len(inbox) : KnownAfter(k) => KnownAfter(k)'
    BY <1>2, <2>1 DEF KnownAfter
  <2>3. \A k : k = Len(inbox) + 1 /\ KnownAfter(Len(inbox)) => KnownAfter(k)'
    BY <1>2, <2>1 DEF KnownAfter
  <2>4. QED
    BY <1>2, <1>3, <1>5, <2>1, <2>2, <2>3 DEF InStep, RoundIsKnown
<1>9. GameWaits'
  <2>1. ASSUME open' # None, NEW i \in DOMAIN inbox', inbox'[i].kind \notin Verdicts
        PROVE  \E j \in DOMAIN inbox' : i <= j /\ Asks(j)' /\ inbox'[j].actor = open'
    <3>1. open' = open /\ i \in DOMAIN inbox /\ inbox[i].kind \notin Verdicts
      BY <1>1, <1>2, <2>1
    <3>2. PICK j \in DOMAIN inbox : i <= j /\ Asks(j) /\ inbox[j].actor = open
      BY <2>1, <3>1 DEF InStep, GameWaits
    <3>3. j \in DOMAIN inbox' /\ Asks(j)' /\ inbox'[j].actor = open'
      BY <1>2, <3>1, <3>2 DEF Asks
    <3>4. QED
      BY <3>2, <3>3
  <2>2. QED
    BY <2>1 DEF GameWaits
<1>10. PassIsFuriten'
  <2>1. history_furiten' = history_furiten /\ (OnlyVerdicts => OnlyVerdicts')
    BY <1>1, <1>2 DEF ClientIsStill, OnlyVerdicts
  <2>2. \A id, action : PassesUp(id, action)' = PassesUp(id, action)
    BY DEF PassesUp, OffersWin, IsReaction
  <2>3. ASSUME NEW i \in DOMAIN outbox', outbox'[i].id = open', PassesUp(open, outbox[i].action)'
        PROVE  history_furiten'.same_turn = "yes" /\ OnlyVerdicts'
    <3>1. \E k \in DOMAIN outbox : outbox[k] = outbox'[i]
      <4>1. outbox \in Seq([id : Nat, action : OfferedActions])
        BY DEF ClientInv, Types
      <4>2. CASE outbox' = outbox
        BY <4>2
      <4>3. CASE outbox # <<>> /\ outbox' = Tail(outbox)
        BY <4>1, <4>3
      <4>4. QED
        BY <4>2, <4>3
    <3>2. PICK k \in DOMAIN outbox : outbox[k] = outbox'[i]
      BY <3>1
    <3>3. open' = open
      BY <2>3, <3>2, MarkerAssumption DEF ClientInv, SentWasOffered
    <3>4. QED
      BY <2>1, <2>2, <2>3, <3>2, <3>3 DEF InStep, PassIsFuriten
  <2>4. ASSUME declined'
        PROVE  /\ history_furiten'.same_turn = "yes"
               /\ \A i \in DOMAIN inbox' : ~ForgetsThePass(i)'
    <3>1. /\ history_furiten.same_turn = "yes"
          /\ \A i \in DOMAIN inbox : ~ForgetsThePass(i)
      <4>1. CASE declined
        BY <4>1 DEF InStep, PassIsFuriten
      <4>2. CASE ~declined
        <5>1. history_furiten.same_turn = "yes" /\ OnlyVerdicts
          BY <2>4, <4>2 DEF InStep, PassIsFuriten
        <5>2. QED
          BY <5>1 DEF OnlyVerdicts, ForgetsThePass, Verdicts
      <4>3. QED
        BY <4>1, <4>2
    <3>2. ASSUME NEW i \in DOMAIN inbox PROVE ~ForgetsThePass(i)'
      <4>1. DrawnIs(i - 1, None) => DrawnIs(i - 1, None)'
        <5>1. i - 1 \in 0..Len(inbox)
          BY <1>2
        <5>2. QED
          BY <1>4, <5>1
      <4>2. QED
        BY <1>2, <3>1, <4>1 DEF ForgetsThePass
    <3>3. ASSUME NEW i, i = Len(inbox) + 1 PROVE ~ForgetsThePass(i)'
      BY <1>1, <1>2, <3>3 DEF ForgetsThePass
    <3>4. QED
      BY <1>2, <2>1, <3>1, <3>2, <3>3
  <2>5. QED
    BY <2>3, <2>4 DEF PassIsFuriten
<1>11. QED
  BY <1>6, <1>7, <1>8, <1>9, <1>10 DEF InStep

\* The client reads on: what was to come has come.
LEMMA ReadKeepsStep ==
  ASSUME ClientInv, InStep, ReadMessage
  PROVE  InStep'
<1> DEFINE m == inbox[1]
<1>1. /\ inbox \in Seq(Messages) /\ inbox # <<>> /\ inbox' = Tail(inbox)
      /\ request = None /\ request' = RequestOf(m) /\ Track(m)
      /\ UNCHANGED <<outbox, asked, open, table, drawn, declined>>
  BY DEF ReadMessage, serverVars, ClientInv, Types
<1>2. /\ Len(inbox) \in Nat /\ Len(inbox) > 0 /\ Len(inbox') = Len(inbox) - 1
      /\ m \in Messages /\ DOMAIN inbox = 1..Len(inbox) /\ 1 \in DOMAIN inbox
      /\ DOMAIN inbox' = 1..Len(inbox')
      /\ \A i \in DOMAIN inbox' : /\ i + 1 \in DOMAIN inbox /\ inbox'[i] = inbox[i + 1]
                                  /\ i + 1 # 1 /\ i \in Nat /\ (i + 1) - 1 = i
      /\ \A i \in DOMAIN inbox : i = 1 \/ (i - 1 \in DOMAIN inbox' /\ (i - 1) + 1 = i)
  BY <1>1
<1> HIDE DEF m
<1>3. /\ seat_id \in {None, Me} /\ history_furiten \in FuritenFacts
      /\ m.kind = "start_game" => m.actor = Me /\ seat_id = None
      /\ m.kind # "start_game" => seat_id = Me
      /\ m.kind = "tsumo" /\ m.actor = Me => m.tile \in Tiles
      /\ own_tsumo_pending_discard <=> last_tsumo # None
      /\ table.kind # "new"
  BY <1>1, <1>2 DEF InStep, SeatIsTracked, RoundIsKnown, DrawIsTracked, m
<1>4. /\ seat_id' = Me /\ history_furiten' \in FuritenFacts
      /\ last_tsumo' = IF Affects(m) THEN DrawOf(m) ELSE last_tsumo
      /\ own_tsumo_pending_discard' <=> last_tsumo' # None
      /\ m.kind = "start_kyoku" => FactsKnown'
      /\ m.kind # "start_game" /\ FactsKnown => FactsKnown'
      /\ /\ history_furiten.same_turn = "yes" /\ m.kind \notin {"start_game", "start_kyoku"}
         /\ ~(m.kind = "dahai" /\ m.actor = Me /\ last_tsumo # None)
         => history_furiten'.same_turn = "yes"
  BY <1>1, <1>2, <1>3, TrackedFacts
<1>5. ASSUME NEW n \in 0..Len(inbox'), NEW tile, DrawnIs(n + 1, tile)
      PROVE  DrawnIs(n, tile)'
  BY <1>1, <1>4, <1>5, DrawAfterRead DEF m
<1>6. \A i \in DOMAIN inbox' : Asks(i)' => Asks(i + 1)
  BY <1>2 DEF Asks
<1>7. request' # None => Asks(1) /\ m.kind = "request_action" /\ request' = m.actor
  BY <1>1 DEF RequestOf, Asks, m
<1>8. DrawIsTracked'
  <2>1. DrawnIs(Len(inbox), drawn)'
    <3>1. Len(inbox') \in 0..Len(inbox') /\ Len(inbox') + 1 = Len(inbox)
      BY <1>2
    <3>2. QED
      BY <1>1, <1>5, <3>1 DEF InStep, DrawIsTracked
  <2>2. ASSUME NEW i \in DOMAIN inbox', Asks(i)'
        PROVE  DrawnIs(i, asked[inbox[i].actor].drawn)'
    <3>1. i \in 0..Len(inbox') /\ i + 1 \in DOMAIN inbox /\ Asks(i + 1)
      BY <1>2, <1>6, <2>2
    <3>2. DrawnIs(i + 1, asked[inbox[i + 1].actor].drawn)
      BY <3>1 DEF InStep, DrawIsTracked
    <3>3. QED
      BY <1>1, <1>2, <1>5, <2>2, <3>1, <3>2
  <2>3. request' # None => last_tsumo' = asked'[request'].drawn
    <3>1. ASSUME Asks(1) PROVE last_tsumo = asked[inbox[1].actor].drawn /\ ~Affects(m)
      <4>1. DrawnIs(1, asked[inbox[1].actor].drawn)
        BY <1>2, <3>1 DEF InStep, DrawIsTracked
      <4>2. ~Affects(inbox[1])
        BY <3>1 DEF Affects, Asks
      <4>3. \A i \in 1..1 : i = 1
        OBVIOUS
      <4>4. QED
        BY <4>1, <4>2, <4>3 DEF DrawnIs, m
    <3>2. QED
      BY <1>1, <1>4, <1>7, <3>1 DEF m
  <2>4. QED
    BY <1>4, <2>1, <2>2, <2>3 DEF DrawIsTracked
<1>9. SeatIsTracked'
  <2>1. \A i \in DOMAIN inbox' : inbox'[i].kind # "start_game"
    BY <1>2 DEF InStep, SeatIsTracked
  <2>2. \A i \in DOMAIN inbox' :
          inbox'[i].kind = "tsumo" /\ inbox'[i].actor = Me => inbox'[i].tile \in Tiles
    BY <1>2 DEF InStep, SeatIsTracked
  <2>3. Me # None
    BY ClientAssumption, SeatAssumption
  <2>4. QED
    BY <1>1, <1>3, <1>4, <2>1, <2>2, <2>3 DEF SeatIsTracked
<1>10. RoundIsKnown'
  <2>1. ASSUME NEW n \in 0..Len(inbox'), KnownAfter(n + 1) PROVE KnownAfter(n)'
    <3>1. CASE FactsKnown
      <4>1. m.kind # "start_game"
        BY <1>3, <3>1, ClientAssumption, SeatAssumption DEF FactsKnown
      <4>2. QED
        BY <1>4, <3>1, <4>1 DEF KnownAfter
    <3>2. CASE \E i \in 1..(n + 1) : inbox[i].kind = "start_kyoku"
      <4>1. PICK i \in 1..(n + 1) : inbox[i].kind = "start_kyoku"
        BY <3>2
      <4>2. CASE i = 1
        BY <1>4, <4>1, <4>2 DEF KnownAfter, m
      <4>3. CASE i # 1
        <5>1. i - 1 \in 1..n /\ i \in DOMAIN inbox
          BY <1>2, <4>3
        <5>2. inbox'[i - 1].kind = "start_kyoku"
          BY <1>2, <4>1, <4>3, <5>1
        <5>3. QED
          BY <5>1, <5>2 DEF KnownAfter
      <4>4. QED
        BY <4>2, <4>3
    <3>3. QED
      BY <2>1, <3>1, <3>2 DEF KnownAfter
  <2>2. table'.kind \in {"draw", "turn", "discarded"} => KnownAfter(Len(inbox))'
    <3>1. Len(inbox') \in 0..Len(inbox') /\ Len(inbox') + 1 = Len(inbox)
      BY <1>2
    <3>2. QED
      BY <1>1, <2>1, <3>1 DEF InStep, RoundIsKnown
  <2>3. ASSUME NEW i \in DOMAIN inbox', Asks(i)' PROVE KnownAfter(i)'
    <3>1. i \in 0..Len(inbox') /\ i + 1 \in DOMAIN inbox /\ Asks(i + 1)
      BY <1>2, <1>6, <2>3
    <3>2. QED
      BY <2>1, <3>1 DEF InStep, RoundIsKnown
  <2>4. request' # None => FactsKnown'
    <3>1. ASSUME Asks(1) PROVE FactsKnown /\ m.kind # "start_game"
      <4>1. KnownAfter(1)
        BY <1>2, <3>1 DEF InStep, RoundIsKnown
      <4>2. \A i \in 1..1 : inbox[i].kind # "start_kyoku"
        BY <3>1 DEF Asks
      <4>3. QED
        BY <3>1, <4>1, <4>2 DEF KnownAfter, Asks, m
    <3>2. QED
      BY <1>4, <1>7, <3>1
  <2>5. QED
    BY <1>4, <2>2, <2>3, <2>4 DEF RoundIsKnown
<1>11. GameWaits'
  <2>1. ASSUME open' # None, NEW i \in DOMAIN inbox', inbox'[i].kind \notin Verdicts
        PROVE  \E j \in DOMAIN inbox' : i <= j /\ Asks(j)' /\ inbox'[j].actor = open'
    <3>1. open # None /\ i + 1 \in DOMAIN inbox /\ inbox[i + 1].kind \notin Verdicts
      BY <1>1, <1>2, <2>1
    <3>2. PICK j \in DOMAIN inbox : i + 1 <= j /\ Asks(j) /\ inbox[j].actor = open
      BY <3>1 DEF InStep, GameWaits
    <3>3. j # 1 /\ j - 1 \in DOMAIN inbox' /\ (j - 1) + 1 = j /\ i <= j - 1
      BY <1>2, <3>2
    <3>4. inbox'[j - 1] = inbox[j]
      BY <1>2, <3>3
    <3>5. QED
      BY <1>1, <3>2, <3>3, <3>4 DEF Asks
  <2>2. QED
    BY <2>1 DEF GameWaits
<1>12. PassIsFuriten'
  <2>1. ASSUME history_furiten.same_turn = "yes", OnlyVerdicts
        PROVE  history_furiten'.same_turn = "yes" /\ OnlyVerdicts'
    BY <1>2, <1>4, <2>1 DEF OnlyVerdicts, Verdicts, m
  <2>2. \A id, action : PassesUp(id, action)' = PassesUp(id, action)
    BY <1>1 DEF PassesUp, OffersWin, IsReaction
  <2>3. \A i \in DOMAIN outbox' :
          outbox'[i].id = open' /\ PassesUp(open, outbox[i].action)' =>
            history_furiten'.same_turn = "yes" /\ OnlyVerdicts'
    BY <1>1, <2>1, <2>2 DEF InStep, PassIsFuriten
  <2>4. ASSUME declined PROVE history_furiten'.same_turn = "yes"
    <3>1. history_furiten.same_turn = "yes" /\ ~ForgetsThePass(1)
      BY <1>2, <2>4 DEF InStep, PassIsFuriten
    <3>2. DrawnIs(0, None) => last_tsumo = None
      BY DEF DrawnIs
    <3>3. QED
      BY <1>4, <3>1, <3>2 DEF ForgetsThePass, m
  <2>5. ASSUME declined, NEW i \in DOMAIN inbox' PROVE ~ForgetsThePass(i)'
    <3>1. i + 1 \in DOMAIN inbox /\ ~ForgetsThePass(i + 1) /\ inbox'[i] = inbox[i + 1]
      BY <1>2, <2>5 DEF InStep, PassIsFuriten
    <3>2. DrawnIs(i, None) => DrawnIs(i - 1, None)'
      <4>1. i - 1 \in 0..Len(inbox') /\ (i - 1) + 1 = i
        BY <1>2
      <4>2. QED
        BY <1>5, <4>1
    <3>3. (i + 1) - 1 = i
      BY <1>2
    <3>4. QED
      BY <3>1, <3>2, <3>3 DEF ForgetsThePass
  <2>6. QED
    BY <1>1, <2>3, <2>4, <2>5 DEF PassIsFuriten
<1>13. QED
  BY <1>8, <1>9, <1>10, <1>11, <1>12 DEF InStep

\* A win on somebody's tile that the reply passes up is recorded as furiten.
LEMMA PassIsRecorded ==
  ASSUME ClientInv, DrawIsOurTurn, InStep, request # None, NEW reply, RecordResponse(reply)
  PROVE  /\ UNCHANGED <<seat_id, last_tsumo, own_tsumo_pending_discard>>
         /\ history_furiten' \in FuritenFacts /\ FactsKnown'
         /\ history_furiten.same_turn = "yes" => history_furiten'.same_turn = "yes"
         /\ PassesUp(request, reply.action) => history_furiten'.same_turn = "yes"
<1>1. /\ UNCHANGED <<seat_id, last_tsumo, own_tsumo_pending_discard>>
      /\ \/ /\ ~RecordsMissedWin(OffersWin(request), reply.action.kind = "hora")
            /\ history_furiten' = history_furiten
         \/ history_furiten' = [same_turn |-> "yes", riichi_missed_win |-> "yes"]
         \/ history_furiten' = [history_furiten EXCEPT !.same_turn = "yes"]
  BY DEF RecordResponse, OnActionResponse
<1>2. FactsKnown /\ history_furiten \in FuritenFacts
  BY DEF InStep, RoundIsKnown
<1>3. /\ history_furiten' \in FuritenFacts /\ FactsKnown'
      /\ history_furiten.same_turn = "yes" => history_furiten'.same_turn = "yes"
  BY <1>1, <1>2 DEF FactsKnown, FuritenFacts, Fact
<1>4. ASSUME PassesUp(request, reply.action)
      PROVE  RecordsMissedWin(OffersWin(request), reply.action.kind = "hora")
  <2>1. request \in DOMAIN asked
    BY DEF ClientInv, Types, RequestsInOrder
  <2>2. asked[request].drawn = None
    BY <1>4, <2>1 DEF PassesUp, IsReaction, DrawIsOurTurn
  <2>3. ~own_tsumo_pending_discard
    BY <2>2 DEF InStep, DrawIsTracked
  <2>4. Me # None
    BY ClientAssumption, SeatAssumption
  <2>5. QED
    BY <1>2, <1>4, <2>3, <2>4 DEF RecordsMissedWin, PassesUp, FactsKnown
<1>5. QED
  BY <1>1, <1>2, <1>3, <1>4 DEF FuritenFacts

LEMMA ReplyKeepsStep ==
  ASSUME ClientInv, DrawIsOurTurn, InStep, SendReply
  PROVE  InStep'
<1>1. PICK reply \in PossibleResponses \ {Absent} :
        /\ outbox' = IF connection = "open"
                     THEN Append(outbox, [id |-> request, action |-> reply.action]) ELSE outbox
        /\ RecordResponse(reply)
  BY DEF SendReply
<1>2. /\ request # None /\ request' = None
      /\ UNCHANGED <<inbox, asked, open, table, drawn, declined>>
  BY DEF SendReply, serverVars
<1>3. /\ UNCHANGED <<seat_id, last_tsumo, own_tsumo_pending_discard>>
      /\ history_furiten' \in FuritenFacts /\ FactsKnown'
      /\ history_furiten.same_turn = "yes" => history_furiten'.same_turn = "yes"
      /\ PassesUp(request, reply.action) => history_furiten'.same_turn = "yes"
  BY <1>1, <1>2, PassIsRecorded
<1>4. \A n, tile : DrawnIs(n, tile)' = DrawnIs(n, tile)
  BY <1>2, <1>3 DEF DrawnIs, Affects, DrawOf
<1>5. DrawIsTracked' /\ SeatIsTracked' /\ GameWaits'
  BY <1>2, <1>3, <1>4 DEF InStep, DrawIsTracked, SeatIsTracked, GameWaits, Asks
<1>6. RoundIsKnown'
  BY <1>2, <1>3 DEF RoundIsKnown, KnownAfter
<1>7. request = open => OnlyVerdicts
  <2>1. request \in Nat /\ DOMAIN inbox \subseteq Nat
    BY <1>2 DEF ClientInv, Types, RequestsInOrder
  <2>2. \A j \in DOMAIN inbox : Asks(j) => request < inbox[j].actor /\ inbox[j].actor \in Nat
    BY <1>2 DEF ClientInv, RequestsInOrder
  <2>3. QED
    BY <1>2, <2>1, <2>2 DEF InStep, GameWaits, OnlyVerdicts
<1>8. PassIsFuriten'
  <2>1. \A id, action : PassesUp(id, action)' = PassesUp(id, action)
    BY <1>2 DEF PassesUp, OffersWin, IsReaction
  <2>2. OnlyVerdicts' = OnlyVerdicts
    BY <1>2 DEF OnlyVerdicts
  <2>3. ASSUME NEW i \in DOMAIN outbox', outbox'[i].id = open',
               PassesUp(open, outbox[i].action)'
        PROVE  history_furiten'.same_turn = "yes" /\ OnlyVerdicts'
    <3>1. \/ i \in DOMAIN outbox /\ outbox'[i] = outbox[i]
          \/ outbox'[i] = [id |-> request, action |-> reply.action]
      <4>1. outbox \in Seq([id : Nat, action : OfferedActions])
        BY DEF ClientInv, Types
      <4>2. QED
        BY <1>1, <4>1
    <3>2. CASE i \in DOMAIN outbox /\ outbox'[i] = outbox[i]
      BY <1>2, <1>3, <2>1, <2>2, <2>3, <3>2 DEF InStep, PassIsFuriten
    <3>3. CASE outbox'[i] = [id |-> request, action |-> reply.action]
      BY <1>2, <1>3, <1>7, <2>1, <2>2, <2>3, <3>3
    <3>4. QED
      BY <3>1, <3>2, <3>3
  <2>4. declined' => /\ history_furiten'.same_turn = "yes"
                     /\ \A i \in DOMAIN inbox' : ~ForgetsThePass(i)'
    BY <1>2, <1>3, <1>4 DEF InStep, PassIsFuriten, ForgetsThePass
  <2>5. QED
    BY <2>3, <2>4 DEF PassIsFuriten
<1>9. QED
  BY <1>5, <1>6, <1>8 DEF InStep

\* A request without a reply, the end of the client or of the connection.
LEMMA QuietKeepsStep ==
  ASSUME ClientInv, InStep,
         UNCHANGED <<seat_id, last_tsumo, own_tsumo_pending_discard, history_furiten>>,
         UNCHANGED <<asked, open, table, drawn, declined, inbox>>,
         request' \in {request, None}, outbox' \in {outbox, <<>>}
  PROVE  InStep'
<1>1. \A n, tile : DrawnIs(n, tile)' = DrawnIs(n, tile)
  BY DEF DrawnIs, Affects, DrawOf
<1>2. DrawIsTracked' /\ SeatIsTracked' /\ GameWaits'
  BY <1>1 DEF InStep, DrawIsTracked, SeatIsTracked, GameWaits, Asks
<1>3. FactsKnown' = FactsKnown /\ OnlyVerdicts' = OnlyVerdicts
  BY DEF FactsKnown, OnlyVerdicts
<1>4. RoundIsKnown'
  BY <1>3 DEF InStep, RoundIsKnown, KnownAfter, Asks
<1>5. PassIsFuriten'
  <2>1. \A id, action : PassesUp(id, action)' = PassesUp(id, action)
    BY DEF PassesUp, OffersWin, IsReaction
  <2>2. \A i \in DOMAIN outbox' : i \in DOMAIN outbox /\ outbox'[i] = outbox[i]
    OBVIOUS
  <2>3. QED
    BY <1>1, <1>3, <2>1, <2>2 DEF InStep, PassIsFuriten, ForgetsThePass
<1>6. QED
  BY <1>2, <1>4, <1>5 DEF InStep

\* We hold a drawn tile in our own turn only: the server's own order sees to it.
LEMMA DrawStaysOurs ==
  ASSUME ClientInv, DrawIsOurTurn, [ClientNext]_vars
  PROVE  DrawIsOurTurn'
<1>1. ASSUME UNCHANGED <<table, drawn, asked>> PROVE DrawIsOurTurn'
  BY <1>1 DEF DrawIsOurTurn
<1>2. ASSUME UNCHANGED asked, table'.kind \in {"over", "ended"} \/ drawn' = None
             \/ (table'.kind = "turn" /\ table'.player = Me)
      PROVE  DrawIsOurTurn'
  BY <1>2 DEF DrawIsOurTurn
<1>3. CASE \/ ServeStartGame \/ ServeStartKyoku \/ ServeHora \/ ServeRyukyoku
           \/ \E kind \in {"end_game", "validation_result"} : ServeEnd(kind)
  BY <1>2, <1>3 DEF ServeStartGame, ServeStartKyoku, ServeHora, ServeRyukyoku, ServeEnd,
     SendEvent, TableIs
<1>4. ASSUME NEW p \in Players,
             \/ ServeCall(p)
             \/ \E pai \in Faces : ServeTsumo(p, pai)
             \/ \E pai \in Tiles : ServeDahai(p, pai)
      PROVE  DrawIsOurTurn'
  <2>1. UNCHANGED asked
    BY <1>4 DEF ServeCall, ServeTsumo, ServeDahai, SendEvent
  <2>2. CASE ServeCall(p)
    BY <1>2, <2>1, <2>2 DEF ServeCall, DiscardedByOther, DrawIsOurTurn
  <2>3. ASSUME NEW pai \in Faces, ServeTsumo(p, pai) PROVE DrawIsOurTurn'
    BY <1>2, <2>1, <2>3 DEF ServeTsumo, TableIs, DiscardedByOther, DrawIsOurTurn
  <2>4. ASSUME NEW pai \in Tiles, ServeDahai(p, pai) PROVE DrawIsOurTurn'
    BY <1>2, <2>1, <2>4 DEF ServeDahai, DrawIsOurTurn
  <2>5. QED
    BY <1>4, <2>2, <2>3, <2>4
<1>5. ASSUME NEW offer \in ReactionOffers \cup TurnOffers, ServeRequest(offer)
      PROVE  DrawIsOurTurn'
  <2> DEFINE new == [offer |-> offer, source |-> table.player, drawn |-> drawn]
  <2>1. /\ asked \in Seq(AskedRequests) /\ asked' = Append(asked, new)
        /\ UNCHANGED <<table, drawn>>
        /\ table.kind \in {"discarded", "turn"}
    BY <1>5 DEF ServeRequest, ClientInv, Types
  <2>2. new.drawn # None => new.source = Me
    BY <2>1 DEF DrawIsOurTurn
  <2>3. \A id \in DOMAIN asked' : (id \in DOMAIN asked /\ asked'[id] = asked[id]) \/ asked'[id] = new
    BY <2>1
  <2> HIDE DEF new
  <2>4. QED
    BY <2>1, <2>2, <2>3 DEF DrawIsOurTurn
<1>6. CASE ServeReply \/ ServeDefault \/ Close \/ Break \/ ClientStep \/ UNCHANGED vars
  BY <1>1, <1>6 DEF ServeReply, ServeDefault, Close, Break, ClientStep, ReadMessage, SendReply,
     WithholdReply, FailToSend, ReadClose, ReadError, serverVars, vars
<1>7. QED
  BY <1>3, <1>4, <1>5, <1>6 DEF ClientNext, ServerNext

\* An event, as the server sends it.
LEMMA EventStep ==
  ASSUME ClientInv, InStep, garbled \in Nat, garbled' = 0, NEW kind \in EventKinds,
         NEW actor \in Actors \cup {None}, NEW tile \in Faces \cup {None},
         SendEvent(kind, actor, tile),
         drawn' = IF \/ kind \in {"start_game", "start_kyoku"}
                     \/ kind \in {"tsumo", "dahai"} /\ actor = Me
                  THEN IF kind = "tsumo" THEN tile ELSE None ELSE drawn,
         kind = "start_game" <=> table.kind = "new",
         kind = "start_game" => actor = Me,
         table'.kind # "new",
         kind = "tsumo" /\ actor = Me => tile \in Tiles,
         table'.kind \in {"draw", "turn", "discarded"} =>
           kind = "start_kyoku" \/ table.kind \in {"draw", "turn", "discarded"},
         declined' => /\ declined /\ kind # "start_kyoku"
                      /\ kind = "dahai" /\ actor = Me => drawn = None
  PROVE  InStep'
<1> DEFINE m == Message(kind, actor, tile)
<1>1. m \in Messages /\ m.kind = kind /\ m.actor = actor /\ m.tile = tile
  BY DEF Message, Messages, MessageKinds
<1>2. inbox' = Append(inbox, m) /\ ClientIsStill
  BY UngarbledSend, StillClient DEF SendEvent
<1>3. open = None /\ UNCHANGED <<outbox, asked, open>>
  BY DEF SendEvent
<1> HIDE DEF m
<1>4. drawn' = IF Affects(m) THEN DrawOf(m) ELSE drawn
  BY <1>1 DEF Affects, DrawOf
<1>5. QED
  BY <1>1, <1>2, <1>3, <1>4, EventKeepsStep

LEMMA EventsKeepStep ==
  ASSUME ClientInv, InStep, garbled \in Nat, garbled' = 0,
         \/ ServeStartGame \/ ServeStartKyoku \/ ServeHora \/ ServeRyukyoku
         \/ \E kind \in {"end_game", "validation_result"} : ServeEnd(kind)
         \/ \E p \in Players :
              \/ ServeCall(p)
              \/ \E pai \in Faces : ServeTsumo(p, pai)
              \/ \E pai \in Tiles : ServeDahai(p, pai)
  PROVE  InStep'
<1>1. Me \in Actors /\ Players \subseteq Actors /\ Me # None /\ None \notin Players
  BY SeatAssumption, ClientAssumption
<1>2. CASE ServeStartGame
  <2>1. /\ SendEvent("start_game", Me, None) /\ drawn' = drawn /\ declined' = declined
        /\ table.kind = "new" /\ table'.kind = "over"
    BY <1>2 DEF ServeStartGame, TableIs
  <2>2. drawn = None /\ ~declined
    BY <2>1 DEF InStep, SeatIsTracked
  <2>3. QED
    BY <1>1, <2>1, <2>2, EventStep DEF EventKinds
<1>3. CASE ServeStartKyoku
  <2>1. /\ SendEvent("start_kyoku", None, None) /\ drawn' = None /\ declined' = FALSE
        /\ table.kind = "over" /\ table'.kind = "draw"
    BY <1>3 DEF ServeStartKyoku, TableIs
  <2>2. QED
    BY <1>1, <2>1, EventStep DEF EventKinds
<1>4. CASE ServeHora
  <2>1. /\ SendEvent("hora", None, None) /\ drawn' = drawn /\ declined' = declined
        /\ table.kind # "new" /\ table'.kind = "over"
    BY <1>4 DEF ServeHora, TableIs
  <2>2. QED
    BY <1>1, <2>1, EventStep DEF EventKinds
<1>5. CASE ServeRyukyoku
  <2>1. /\ SendEvent("ryukyoku", None, None) /\ drawn' = drawn /\ declined' = declined
        /\ table.kind # "new" /\ table'.kind = "over"
    BY <1>5 DEF ServeRyukyoku, TableIs
  <2>2. QED
    BY <1>1, <2>1, EventStep DEF EventKinds
<1>6. ASSUME NEW kind \in {"end_game", "validation_result"}, ServeEnd(kind)
      PROVE  InStep'
  <2>1. /\ SendEvent(kind, None, None) /\ drawn' = drawn /\ declined' = declined
        /\ table.kind # "new" /\ table'.kind = "ended"
        /\ kind \notin {"start_game", "start_kyoku", "tsumo", "dahai"}
    BY <1>6 DEF ServeEnd, TableIs
  <2>2. kind \in EventKinds
    BY DEF EventKinds
  <2>3. QED
    BY <1>1, <2>1, <2>2, EventStep
<1>7. ASSUME NEW p \in Players, ServeCall(p)
      PROVE  InStep'
  <2>1. /\ SendEvent("pon", p, None) /\ drawn' = drawn /\ declined' = declined
        /\ table.kind = "discarded" /\ table'.kind = "turn"
    BY <1>7 DEF ServeCall, TableIs, DiscardedByOther
  <2>2. QED
    BY <1>1, <2>1, EventStep DEF EventKinds
<1>8. ASSUME NEW p \in Players, NEW pai \in Faces, ServeTsumo(p, pai)
      PROVE  InStep'
  <2>1. /\ SendEvent("tsumo", p, pai) /\ declined' = declined
        /\ drawn' = IF p = Me THEN pai ELSE drawn
        /\ p = Me => pai \in Tiles
        /\ table.kind \in {"draw", "discarded"} /\ table'.kind = "turn"
    BY <1>8 DEF ServeTsumo, TableIs, DiscardedByOther
  <2>2. QED
    BY <1>1, <2>1, EventStep DEF EventKinds
<1>9. ASSUME NEW p \in Players, NEW pai \in Tiles, ServeDahai(p, pai)
      PROVE  InStep'
  <2>1. /\ SendEvent("dahai", p, pai)
        /\ drawn' = IF p = Me THEN None ELSE drawn
        /\ declined' => declined /\ (p = Me => drawn = None)
        /\ table.kind = "turn" /\ table'.kind = "discarded" /\ pai \in Faces
    BY <1>9 DEF ServeDahai, TableIs, Faces
  <2>2. QED
    BY <1>1, <2>1, EventStep DEF EventKinds
<1>10. QED
  BY <1>2, <1>3, <1>4, <1>5, <1>6, <1>7, <1>8, <1>9

LEMMA SettlingKeepsStep ==
  ASSUME ClientInv, InStep, garbled \in Nat, garbled' = 0, ServeReply \/ ServeDefault
  PROVE  InStep'
<1>1. CASE ServeDefault
  <2>1. /\ Send(Ack("defaulted")) /\ open # None /\ open' = None
        /\ UNCHANGED <<outbox, asked, table, drawn, declined>>
    BY <1>1 DEF ServeDefault, Settled
  <2>2. inbox' = Append(inbox, Ack("defaulted")) /\ ClientIsStill
    BY <2>1, UngarbledSend, StillClient
  <2>3. "defaulted" \in Verdicts
    BY DEF Verdicts
  <2>4. QED
    BY <2>1, <2>2, <2>3, VerdictKeepsStep
<1>2. CASE ServeReply
  <2>1. /\ outbox # <<>> /\ outbox' = Tail(outbox)
        /\ UNCHANGED <<asked, table, drawn>>
    BY <1>2 DEF ServeReply
  <2>2. 1 \in DOMAIN outbox /\ Head(outbox) = outbox[1]
    <3>1. outbox \in Seq([id : Nat, action : OfferedActions])
      BY DEF ClientInv, Types
    <3>2. QED
      BY <2>1, <3>1
  <2>3. PICK verdict \in Verdicts :
          /\ Send(Ack(verdict)) /\ open' \in {open, None}
          /\ declined' => declined \/ (outbox[1].id = open /\ PassesUp(open, outbox[1].action))
    <3>1. \A verdict \in {"stale", "accepted", "rejected"} : verdict \in Verdicts
      BY DEF Verdicts
    <3>2. \/ Send(Ack("stale")) /\ open' = open /\ declined' = declined
          \/ /\ Send(Ack("accepted")) /\ open' = None
             /\ outbox[1].id = open
             /\ declined' = (declined \/ (OffersWin(open) /\ IsReaction(open)
                                           /\ outbox[1].action.kind # "hora"))
          \/ Send(Ack("rejected")) /\ open' = None /\ declined' = declined
      BY <1>2, <2>2 DEF ServeReply, Settled
    <3> DEFINE Said(verdict) ==
                 /\ Send(Ack(verdict)) /\ open' \in {open, None}
                 /\ declined' =>
                      declined \/ (outbox[1].id = open /\ PassesUp(open, outbox[1].action))
    <3>3. Said("stale") \/ Said("accepted") \/ Said("rejected")
      <4>1. OffersWin(open) /\ IsReaction(open) /\ outbox[1].action.kind # "hora" =>
              PassesUp(open, outbox[1].action)
        BY DEF PassesUp
      <4>2. QED
        BY <3>2, <4>1
    <3> HIDE DEF Said
    <3>4. \E verdict \in Verdicts : Said(verdict)
      BY <3>1, <3>3
    <3>5. QED
      BY <3>4 DEF Said
  <2>4. inbox' = Append(inbox, Ack(verdict)) /\ ClientIsStill
    BY <2>3, UngarbledSend, StillClient
  <2>5. QED
    BY <2>1, <2>2, <2>3, <2>4, VerdictKeepsStep
<1>3. QED
  BY <1>1, <1>2

LEMMA StepInit == ClientInit => StepInv
<1> SUFFICES ASSUME ClientInit PROVE StepInv
  OBVIOUS
<1>1. /\ DOMAIN inbox = {} /\ DOMAIN asked = {} /\ DOMAIN outbox = {} /\ Len(inbox) = 0
      /\ \A i \in 1..Len(inbox) : FALSE
  BY DEF ClientInit
<1>2. /\ request = None /\ drawn = None /\ open = None /\ ~declined /\ garbled = 0
      /\ inbox = <<>> /\ asked = <<>> /\ table = [kind |-> "new", player |-> Me]
      /\ Init
  BY DEF ClientInit
<1>3. DrawIsTracked /\ SeatIsTracked
  BY <1>1, <1>2 DEF DrawIsTracked, DrawnIs, SeatIsTracked, Init
<1>4. RoundIsKnown /\ GameWaits /\ PassIsFuriten
  BY <1>1, <1>2 DEF RoundIsKnown, GameWaits, PassIsFuriten, Init, UnknownFuriten, FuritenFacts,
     Fact
<1>5. DrawIsOurTurn
  BY <1>1, <1>2 DEF DrawIsOurTurn
<1>6. QED
  BY <1>2, <1>3, <1>4, <1>5 DEF StepInv, InStep

\* What could not be interpreted is never taken back.
LEMMA StepIsUngarbled ==
  ASSUME garbled \in Nat, [ClientNext]_vars
  PROVE  garbled' \in Nat /\ (garbled' = 0 => garbled = 0)
<1>1. (\E m : Send(m)) \/ UNCHANGED garbled
  <2>1. CASE \/ ServeStartGame \/ ServeStartKyoku \/ ServeHora \/ ServeRyukyoku
             \/ \E kind \in {"end_game", "validation_result"} : ServeEnd(kind)
             \/ \E p \in Players :
                  \/ ServeCall(p)
                  \/ \E pai \in Faces : ServeTsumo(p, pai)
                  \/ \E pai \in Tiles : ServeDahai(p, pai)
    <3>1. \E kind, actor, tile : SendEvent(kind, actor, tile)
      BY <2>1 DEF ServeStartGame, ServeStartKyoku, ServeHora, ServeRyukyoku, ServeEnd,
         ServeCall, ServeTsumo, ServeDahai
    <3>2. QED
      BY <3>1 DEF SendEvent
  <2>2. CASE ServeReply \/ ServeDefault
             \/ \E offer \in ReactionOffers \cup TurnOffers : ServeRequest(offer)
    BY <2>2 DEF ServeReply, ServeDefault, ServeRequest
  <2>3. CASE Close \/ Break \/ ClientStep \/ UNCHANGED vars
    BY <2>3 DEF Close, Break, ClientStep, ReadMessage, SendReply, WithholdReply, FailToSend,
       ReadClose, ReadError, serverVars, vars
  <2>4. QED
    BY <2>1, <2>2, <2>3 DEF ClientNext, ServerNext
<1>2. QED
  BY <1>1 DEF Send

LEMMA StepStep == ClientInv /\ StepInv /\ [ClientNext]_vars => StepInv'
<1> SUFFICES ASSUME ClientInv, StepInv, [ClientNext]_vars PROVE StepInv'
  OBVIOUS
<1>1. DrawIsOurTurn /\ DrawIsOurTurn'
  BY DrawStaysOurs DEF StepInv
<1>2. garbled \in Nat /\ garbled' \in Nat /\ (garbled' = 0 => garbled = 0)
  BY StepIsUngarbled DEF StepInv
<1>3. ASSUME garbled' = 0 PROVE InStep'
  <2>1. InStep /\ garbled \in Nat /\ garbled' = 0
    BY <1>2, <1>3 DEF StepInv
  <2>2. CASE \/ ServeStartGame \/ ServeStartKyoku \/ ServeHora \/ ServeRyukyoku
             \/ \E kind \in {"end_game", "validation_result"} : ServeEnd(kind)
             \/ \E p \in Players :
                  \/ ServeCall(p)
                  \/ \E pai \in Faces : ServeTsumo(p, pai)
                  \/ \E pai \in Tiles : ServeDahai(p, pai)
    BY <2>1, <2>2, EventsKeepStep
  <2>3. ASSUME NEW offer \in Offers, ServeRequest(offer) PROVE InStep'
    BY <2>1, <2>3, RequestKeepsStep
  <2>4. CASE ServeReply \/ ServeDefault
    BY <2>1, <2>4, SettlingKeepsStep
  <2>5. CASE ReadMessage
    BY <2>1, <2>5, ReadKeepsStep
  <2>6. CASE SendReply
    BY <1>1, <2>1, <2>6, ReplyKeepsStep
  <2>7. CASE Close \/ Break \/ WithholdReply \/ FailToSend \/ ReadClose \/ ReadError
             \/ UNCHANGED vars
    <3>1. /\ UNCHANGED <<seat_id, last_tsumo, own_tsumo_pending_discard, history_furiten>>
          /\ UNCHANGED <<asked, open, table, drawn, declined, inbox>>
          /\ request' \in {request, None} /\ outbox' \in {outbox, <<>>}
      BY <2>7 DEF Close, Break, WithholdReply, FailToSend, ReadClose, ReadError, vars, wireVars,
         serverVars, clientVars, trackerVars, ownVars
    <3>2. QED
      BY <2>1, <3>1, QuietKeepsStep
  <2>8. QED
    BY <2>2, <2>3, <2>4, <2>5, <2>6, <2>7 DEF ClientNext, ServerNext, ClientStep, Offers
<1>4. QED
  BY <1>1, <1>2, <1>3 DEF StepInv

\* The tracker is in step with the server as long as every message can be interpreted.
THEOREM TrackerKeepsStep == ClientSpec => []StepInv
  BY StepInit, StepStep, RequestsAreTracked, PTL DEF ClientSpec

\* A win that the client was seen to pass up is furiten in the tracker once it has read
\* everything.
THEOREM DeclinedWinCorrect == ClientSpec => []DeclinedWinIsFuriten
<1>1. StepInv => DeclinedWinIsFuriten
  BY DEF StepInv, InStep, PassIsFuriten, DeclinedWinIsFuriten
<1>2. QED
  BY <1>1, TrackerKeepsStep, PTL

\* Two faces with one id are of one type.
LEMMA SameIdSameType ==
  ASSUME NEW pai, NEW other, TileIdOf(pai) = TileIdOf(other), TileIdOf(other) # Absent
  PROVE  pai.type = other.type
<1>1. Readable(pai) /\ Readable(other)
  BY DEF TileIdOf
<1>2. pai.type \in 0..33 /\ other.type \in 0..33
  BY <1>1 DEF Readable, TileTypes
<1>3. \E a, b \in {0, 1} : 4 * pai.type + a = 4 * other.type + b
  BY <1>1 DEF TileIdOf
<1>4. QED
  BY <1>2, <1>3

\* A reply marks a discard as the drawn tile only if the context has that tile.
LEMMA ResponseIsReply ==
  ASSUME NEW kind, NEW offer \in Offers, NEW tile, NEW reply \in Responses(kind, offer, tile),
         reply # Absent
  PROVE  \E i \in DOMAIN offer : reply = ReplyOf(offer[i], tile)
<1>1. PICK choice, normal : reply = ResponseTo(choice, normal, offer, tile)
  BY DEF Responses
<1>2. \/ Checked(choice, offer, tile) # Absent /\ reply = Checked(choice, offer, tile)
      \/ Checked(normal, offer, tile) # Absent /\ reply = Checked(normal, offer, tile)
      \/ reply = Fallback(offer, tile)
  BY <1>1 DEF ResponseTo
<1>3. QED
  BY <1>2, CheckedIsOffered, FallbackIsOffered

\* In step with the server, a reply names the tile drawn for the request.
LEMMA ReplyNamesTheDraw ==
  ASSUME ClientInv, InStep, request # None, NEW reply \in PossibleResponses, reply # Absent,
         reply.tsumogiri
  PROVE  asked[request].drawn # None /\ reply.action.pai.type = asked[request].drawn
<1> DEFINE offer == asked[request].offer
           face == [type |-> asked[request].drawn, red |-> FALSE]
<1>1. asked \in Seq(AskedRequests) /\ request \in 1..Len(asked)
  BY DEF ClientInv, Types, RequestsInOrder
<1> asked[request] \in AskedRequests
  BY <1>1
<1>2. offer \in Offers /\ asked[request].drawn \in Tiles \cup {None}
  BY DEF AskedRequests
<1>3. last_tsumo = asked[request].drawn
  BY DEF InStep, DrawIsTracked
<1> HIDE DEF offer
<1>4. \A decoded \in BOOLEAN :
        /\ ContextDrawn(decoded) \in DrawnIds
        /\ ContextDrawn(decoded) =
             IF asked[request].drawn = None THEN Absent ELSE TileIdOf(face)
  BY <1>2, <1>3 DEF ContextDrawn, DrawnIds
<1>5. PICK decoded \in BOOLEAN : reply \in Responses(AgentKind, offer, ContextDrawn(decoded))
  <2>1. \A decoded \in BOOLEAN : ResponsesTo[offer][ContextDrawn(decoded)] =
          Responses(AgentKind, offer, ContextDrawn(decoded))
    BY <1>2, <1>4 DEF ResponsesTo, Offers
  <2>2. QED
    BY <2>1 DEF PossibleResponses, offer
<1>6. PICK i \in DOMAIN offer : reply = ReplyOf(offer[i], ContextDrawn(decoded))
  BY <1>2, <1>5, ResponseIsReply
<1>7. /\ reply.action = offer[i] /\ ContextDrawn(decoded) # Absent
      /\ TileIdOf(offer[i].pai) = ContextDrawn(decoded)
  BY <1>6 DEF ReplyOf
<1>8. asked[request].drawn # None /\ ContextDrawn(decoded) = TileIdOf(face)
  BY <1>4, <1>7
<1>9. offer[i].pai.type = face.type
  <2> HIDE DEF face
  <2>1. QED
    BY <1>7, <1>8, SameIdSameType
<1>10. QED
  BY <1>7, <1>8, <1>9

LEMMA TsumogiriStep ==
  ClientInv /\ StepInv /\ TsumogiriIsTheDrawnTile /\ [ClientNext]_vars => TsumogiriIsTheDrawnTile'
<1> SUFFICES ASSUME ClientInv, StepInv, TsumogiriIsTheDrawnTile, [ClientNext]_vars, garbled' = 0,
                    NEW id \in DOMAIN asked', answers'[id] \notin {Unanswered, Withheld},
                    answers'[id].tsumogiri
             PROVE  asked'[id].drawn # None /\ answers'[id].action.pai.type = asked'[id].drawn
  BY DEF TsumogiriIsTheDrawnTile
<1>1. garbled = 0 /\ InStep
  <2>1. garbled' = 0 => garbled = 0
    BY StepIsUngarbled DEF StepInv
  <2>2. QED
    BY <2>1 DEF StepInv
<1> DOMAIN answers = Ids /\ DOMAIN asked \subseteq Ids /\ (request # None => request \in Ids)
  <2>1. /\ asked \in Seq(AskedRequests) /\ Len(asked) <= MaxRequests /\ MaxRequests \in Nat
        /\ DOMAIN answers = Ids /\ request \in 1..Len(asked) \cup {None}
    BY ClientAssumption DEF ClientInv, Types, RequestsInOrder
  <2>2. QED
    BY <2>1 DEF Ids
<1>2. CASE id \in DOMAIN asked /\ UNCHANGED <<asked, answers>>
  BY <1>1, <1>2 DEF TsumogiriIsTheDrawnTile
<1>3. ASSUME NEW offer \in ReactionOffers \cup TurnOffers, ServeRequest(offer)
      PROVE  id \in DOMAIN asked /\ asked'[id] = asked[id] /\ answers' = answers
  <2> DEFINE new == [offer |-> offer, source |-> table.player, drawn |-> drawn]
  <2>1. /\ asked \in Seq(AskedRequests) /\ asked' = Append(asked, new) /\ answers' = answers
        /\ Len(asked) < MaxRequests /\ MaxRequests \in Nat
    BY <1>3, ClientAssumption DEF ServeRequest, ClientInv, Types, Send, clientVars
  <2>2. /\ Len(asked) + 1 \in Ids /\ answers[Len(asked) + 1] = Unanswered
    BY <2>1 DEF Ids, ClientInv, LaterIsUnanswered, NotYetReached
  <2>3. id \in DOMAIN asked \/ id = Len(asked) + 1
    BY <2>1
  <2>4. id \in DOMAIN asked
    BY <2>1, <2>2, <2>3
  <2>5. QED
    BY <2>1, <2>4
<1>4. CASE SendReply
  <2>1. PICK reply \in PossibleResponses \ {Absent} : answers' = [answers EXCEPT ![request] = reply]
    BY <1>4 DEF SendReply
  <2>2. request # None /\ asked' = asked
    BY <1>4 DEF SendReply, serverVars
  <2>3. CASE id = request
    <3>1. answers'[id] = reply
      BY <2>1, <2>2, <2>3
    <3>2. QED
      BY <1>1, <2>1, <2>2, <2>3, <3>1, ReplyNamesTheDraw
  <2>4. CASE id # request
    <3>1. answers'[id] = answers[id]
      BY <2>1, <2>2, <2>4
    <3>2. QED
      BY <1>1, <2>2, <3>1 DEF TsumogiriIsTheDrawnTile
  <2>5. QED
    BY <2>3, <2>4
<1>5. CASE WithholdReply
  <2>1. request # None /\ answers' = [answers EXCEPT ![request] = Withheld] /\ asked' = asked
    BY <1>5 DEF WithholdReply, serverVars
  <2>2. id # request /\ answers'[id] = answers[id]
    BY <2>1
  <2>3. QED
    BY <1>1, <2>1, <2>2 DEF TsumogiriIsTheDrawnTile
<1>6. CASE ~(\E offer \in ReactionOffers \cup TurnOffers : ServeRequest(offer))
           /\ ~SendReply /\ ~WithholdReply
  <2>1. UNCHANGED <<asked, answers>>
    BY <1>6 DEF ClientNext, ServerNext, ClientStep, ServeStartGame, ServeStartKyoku, ServeHora,
       ServeRyukyoku, ServeEnd, ServeCall, ServeTsumo, ServeDahai, ServeReply, ServeDefault,
       Close, Break, SendEvent, Send, ReadMessage, FailToSend, ReadClose, ReadError, clientVars,
       serverVars, vars
  <2>2. QED
    BY <1>2, <2>1
<1>7. QED
  BY <1>1, <1>3, <1>4, <1>5, <1>6 DEF TsumogiriIsTheDrawnTile

\* A discard that is reported as the drawn tile is the tile drawn for that request, as
\* long as every message could be interpreted.
THEOREM TsumogiriCorrect == ClientSpec => []TsumogiriIsTheDrawnTile
<1>1. ClientInit => TsumogiriIsTheDrawnTile
  <2> SUFFICES ASSUME ClientInit PROVE DOMAIN asked = {}
    BY DEF TsumogiriIsTheDrawnTile
  <2>1. QED
    BY DEF ClientInit
<1>2. QED
  BY <1>1, TsumogiriStep, RequestsAreTracked, TrackerKeepsStep, PTL DEF ClientSpec

------------------------------------------------------------------------------
(* A choice comes back as the offered action it stands for. *)

\* Where the first n entries of a list are in S, and how often they are v.
Places(list, n, S) == {i \in 1..n : list[i] \in S}
Copies(list, n, v) == Cardinality({i \in 1..n : list[i] = v})
AgreeOn(a, b, n, V) == \A v \in V : Copies(a, n, v) = Copies(b, n, v)
AgreeAlong(a, b, n) == \A k \in 1..n : Copies(a, n, a[k]) = Copies(b, n, a[k])
Within(a, b, n) == \A k \in 1..n : \E i \in 1..n : b[k] = a[i]

LEMMA PlacesAreFinite ==
  ASSUME NEW n \in Nat, NEW list, NEW S
  PROVE  /\ IsFiniteSet(Places(list, n, S))
         /\ Cardinality(Places(list, n, S)) \in Nat
<1>1. IsFiniteSet(1..n) /\ Places(list, n, S) \in SUBSET (1..n)
  BY FS_Interval DEF Places
<1>2. IsFiniteSet(Places(list, n, S))
  BY <1>1, FS_Subset
<1>3. QED
  BY <1>2, FS_CardinalityType

\* One value less.
LEMMA PlacesWithout ==
  ASSUME NEW n \in Nat, NEW list, NEW S, NEW v \in S
  PROVE  Cardinality(Places(list, n, S)) =
           Cardinality(Places(list, n, S \ {v})) + Copies(list, n, v)
<1> DEFINE rest == Places(list, n, S \ {v})
           only == Places(list, n, {v})
<1>1. IsFiniteSet(rest) /\ IsFiniteSet(only) /\ Cardinality(rest) \in Nat /\ Cardinality(only) \in Nat
  BY PlacesAreFinite
<1>2. /\ Places(list, n, S) = rest \cup only /\ rest \cap only = {}
      /\ only = {i \in 1..n : list[i] = v}
  BY DEF Places
<1> HIDE DEF rest, only
<1>3. Cardinality(rest \cap only) = 0
  BY <1>2, FS_EmptySet
<1>4. Cardinality(rest \cup only) = Cardinality(rest) + Cardinality(only) - Cardinality(rest \cap only)
  BY <1>1, FS_Union
<1>5. Cardinality(Places(list, n, S)) = Cardinality(rest) + Cardinality(only)
  BY <1>1, <1>2, <1>3, <1>4
<1>6. Copies(list, n, v) = Cardinality(only)
  BY <1>2 DEF Copies
<1>7. QED
  BY <1>5, <1>6 DEF rest

\* How often each of some values occurs adds up to how often they all do.
LEMMA CopiesAddUp ==
  ASSUME NEW n \in Nat, NEW a, NEW b, NEW V, AgreeOn(a, b, n, V),
         NEW S \in SUBSET V, IsFiniteSet(S)
  PROVE  Cardinality(Places(a, n, S)) = Cardinality(Places(b, n, S))
<1> DEFINE Agree(T) == Cardinality(Places(a, n, T)) = Cardinality(Places(b, n, T))
           Bad == {k \in Nat : \E T \in SUBSET V :
                                 IsFiniteSet(T) /\ Cardinality(T) = k /\ ~Agree(T)}
<1>1. ASSUME Bad # {} PROVE FALSE
  <2>1. Bad \subseteq Nat
    OBVIOUS
  <2>2. PICK k \in Bad : \A j \in Bad : k <= j
    <3> HIDE DEF Bad
    <3>1. QED
      BY <1>1, <2>1, FirstIndex
  <2>3. PICK T \in SUBSET V : IsFiniteSet(T) /\ Cardinality(T) = k /\ ~Agree(T)
    BY <2>2
  <2>4. T # {}
    BY <2>3 DEF Places
  <2>5. PICK v : v \in T
    BY <2>4
  <2>6. /\ IsFiniteSet(T \ {v}) /\ Cardinality(T \ {v}) = k - 1
        /\ k \in Nat /\ k - 1 \in Nat
    <3>1. IsFiniteSet(T \ {v}) /\ Cardinality(T \ {v}) = Cardinality(T) - 1
      BY <2>3, <2>5, FS_RemoveElement
    <3>2. Cardinality(T \ {v}) \in Nat
      BY <3>1, FS_CardinalityType
    <3>3. QED
      BY <2>3, <3>1, <3>2
  <2>7. Agree(T \ {v})
    <3>1. k - 1 \notin Bad
      <4> HIDE DEF Bad
      <4>1. QED
        BY <2>2, <2>6
    <3>2. T \ {v} \in SUBSET V
      BY <2>3
    <3>3. QED
      BY <2>6, <3>1, <3>2
  <2>8. Copies(a, n, v) = Copies(b, n, v)
    BY <2>3, <2>5 DEF AgreeOn
  <2>9. Cardinality(Places(a, n, T)) = Cardinality(Places(a, n, T \ {v})) + Copies(a, n, v)
    BY <2>5, PlacesWithout
  <2>10. Cardinality(Places(b, n, T)) = Cardinality(Places(b, n, T \ {v})) + Copies(b, n, v)
    BY <2>5, PlacesWithout
  <2>11. QED
    BY <2>3, <2>7, <2>8, <2>9, <2>10
<1>2. Cardinality(S) \in Nat
  BY FS_CardinalityType
<1>3. QED
  BY <1>1, <1>2

\* Two lists of one length that agree on how often each value of the first occurs have
\* the same values.
LEMMA CopiesAgree ==
  ASSUME NEW n \in Nat, NEW a, NEW b, AgreeAlong(a, b, n)
  PROVE  Within(a, b, n)
<1> DEFINE V == {a[i] : i \in 1..n}
           f == [i \in 1..n |-> a[i]]
<1>1. IsFiniteSet(1..n)
  BY FS_Interval
<1>2. IsFiniteSet(V)
  <2>1. f \in Surjection(1..n, V)
    BY DEF Surjection
  <2>2. QED
    BY <1>1, <2>1, FS_Surjection
<1>3. AgreeOn(a, b, n, V)
  BY DEF AgreeAlong, AgreeOn
<1>4. \A k \in 1..n : a[k] \in V
  OBVIOUS
<1>5. \A v \in V : \E i \in 1..n : v = a[i]
  OBVIOUS
<1> HIDE DEF V
<1>6. Cardinality(Places(a, n, V)) = Cardinality(Places(b, n, V))
  BY <1>2, <1>3, CopiesAddUp
<1>7. Places(a, n, V) = 1..n /\ Places(b, n, V) \in SUBSET (1..n)
  BY <1>4 DEF Places
<1>8. Places(b, n, V) = 1..n
  BY <1>1, <1>6, <1>7, FS_Subset
<1>9. \A k \in 1..n : b[k] \in V
  BY <1>8 DEF Places
<1>10. QED
  BY <1>5, <1>9 DEF Within

\* The id of a readable face determines the face.
LEMMA FaceOfId ==
  ASSUME NEW pai \in OfferedFaces, NEW other \in OfferedFaces,
         TileIdOf(pai) = TileIdOf(other), TileIdOf(other) # Absent
  PROVE  pai = other
<1>1. Readable(pai) /\ Readable(other)
  BY DEF TileIdOf
<1>2. pai.type = other.type /\ pai.type \in Nat
  BY SameIdSameType DEF OfferedFaces
<1>3. pai.red = other.red
  BY <1>1, <1>2 DEF TileIdOf, Readable, OfferedFaces
<1>4. QED
  BY <1>2, <1>3 DEF OfferedFaces

\* Faces with the same ids are the same faces.
LEMMA SameTilesSameBag ==
  ASSUME NEW taken \in Seq(OfferedFaces), NEW named \in Seq(OfferedFaces),
         \A i \in DOMAIN named : TileIdOf(named[i]) # Absent,
         SameTiles(TileIdsOf(taken), TileIdsOf(named))
  PROVE  ToBag(taken) = ToBag(named)
<1> DEFINE n == Len(taken)
           a == TileIdsOf(taken)
           b == TileIdsOf(named)
           IdsOfFaces == {TileIdOf(face) : face \in OfferedFaces}
<1>1. /\ DOMAIN taken = 1..Len(taken) /\ DOMAIN named = 1..Len(named)
      /\ n \in Nat /\ Len(named) \in Nat
      /\ \A i \in DOMAIN taken : taken[i] \in OfferedFaces
      /\ \A i \in DOMAIN named : named[i] \in OfferedFaces
  OBVIOUS
<1>2. /\ DOMAIN a = 1..n /\ DOMAIN b = 1..Len(named)
      /\ \A i \in 1..n : a[i] = TileIdOf(taken[i])
      /\ \A i \in 1..Len(named) : b[i] = TileIdOf(named[i])
  BY <1>1 DEF TileIdsOf
<1>3. Len(a) = n /\ Len(b) = Len(named)
  <2>1. a \in Seq(IdsOfFaces) /\ b \in Seq(IdsOfFaces)
    BY <1>1 DEF TileIdsOf
  <2> HIDE DEF a, b, IdsOfFaces, n
  <2>2. QED
    BY <1>1, <1>2, <2>1
<1> HIDE DEF a, b
<1>4. Len(named) = n
  BY <1>3 DEF SameTiles, a, b
<1>5. \A k \in 1..n : Copies(a, n, a[k]) = Copies(b, n, a[k])
  <2>1. \A k \in 1..n : a[k] \in ToSet(a)
    BY <1>2 DEF ToSet
  <2>2. QED
    BY <1>2, <1>4, <2>1 DEF SameTiles, Copies, a, b
<1>6. \A k \in 1..n : \E i \in 1..n : b[k] = a[i]
  <2>1. n \in Nat
    BY <1>1
  <2> HIDE DEF n
  <2>2. AgreeAlong(a, b, n)
    BY <1>5 DEF AgreeAlong
  <2>3. Within(a, b, n)
    BY <2>1, <2>2, CopiesAgree
  <2>4. QED
    BY <2>3 DEF Within
<1>7. \A k \in 1..n : \E i \in 1..n : a[k] = b[i]
  <2>1. SUFFICES ASSUME NEW k \in 1..n, ~ \E i \in 1..n : a[k] = b[i] PROVE FALSE
    OBVIOUS
  <2> DEFINE there == {i \in 1..n : a[i] = a[k]}
  <2>2. {i \in 1..n : b[i] = a[k]} = {} /\ k \in there
    BY <2>1
  <2>3. IsFiniteSet(there)
    <3>1. IsFiniteSet(1..n) /\ there \in SUBSET (1..n)
      BY <1>1, FS_Interval
    <3> HIDE DEF there
    <3>2. QED
      BY <3>1, FS_Subset
  <2>4. Cardinality(there) = 0
    BY <1>5, <2>2, FS_EmptySet DEF Copies
  <2> HIDE DEF there
  <2>5. QED
    BY <2>2, <2>3, <2>4, FS_EmptySet
<1>8. ASSUME NEW i \in 1..n, NEW k \in 1..n
      PROVE  /\ a[i] = b[k] <=> taken[i] = named[k]
             /\ a[i] = a[k] <=> taken[i] = taken[k]
             /\ b[i] = b[k] <=> named[i] = named[k]
  <2>1. \A j \in 1..n : a[j] # Absent /\ b[j] # Absent
    <3>1. \A j \in 1..n : j \in DOMAIN named /\ b[j] = TileIdOf(named[j])
      BY <1>1, <1>2, <1>4
    <3>2. \A j \in 1..n : b[j] # Absent
      BY <3>1
    <3>3. QED
      BY <1>7, <3>2
  <2>2. /\ a[i] = TileIdOf(taken[i]) /\ a[k] = TileIdOf(taken[k])
        /\ b[i] = TileIdOf(named[i]) /\ b[k] = TileIdOf(named[k])
        /\ {taken[i], taken[k], named[i], named[k]} \subseteq OfferedFaces
    BY <1>1, <1>2, <1>4
  <2>3. a[i] = b[k] => taken[i] = named[k]
    BY <2>1, <2>2, FaceOfId
  <2>4. a[i] = a[k] => taken[i] = taken[k]
    BY <2>1, <2>2, FaceOfId
  <2>5. b[i] = b[k] => named[i] = named[k]
    BY <2>1, <2>2, FaceOfId
  <2>6. QED
    BY <2>2, <2>3, <2>4, <2>5
<1>9. Range(taken) = Range(named)
  <2>1. DOMAIN taken = 1..n /\ DOMAIN named = 1..n
    BY <1>1, <1>4
  <2>2. \A k \in 1..n : \E i \in 1..n : named[k] = taken[i]
    BY <1>6, <1>8
  <2>3. \A k \in 1..n : \E i \in 1..n : taken[k] = named[i]
    BY <1>7, <1>8
  <2>4. \A x \in Range(taken) : x \in Range(named)
    BY <2>1, <2>3 DEF Range
  <2>5. \A x \in Range(named) : x \in Range(taken)
    BY <2>1, <2>2 DEF Range
  <2>6. QED
    BY <2>4, <2>5
<1>10. ASSUME NEW x \in Range(taken)
       PROVE  Cardinality({i \in DOMAIN taken : taken[i] = x}) =
              Cardinality({i \in DOMAIN named : named[i] = x})
  <2>1. PICK k \in 1..n : x = taken[k]
    BY <1>1 DEF Range
  <2>2. /\ {i \in DOMAIN taken : taken[i] = x} = {i \in 1..n : a[i] = a[k]}
        /\ {i \in DOMAIN named : named[i] = x} = {i \in 1..n : b[i] = a[k]}
    BY <1>1, <1>4, <1>8, <2>1
  <2>3. QED
    BY <1>5, <2>2 DEF Copies
<1>11. QED
  BY <1>9, <1>10 DEF ToBag

\* A choice comes back as an action of the offer with the faces of the one it was made
\* from.
LEMMA ChoiceComesBack ==
  ASSUME NEW offer \in Offers, NEW i \in DOMAIN offer, Convertible(offer[i]), NEW tile
  PROVE  LET reply == Checked(ToLegal(offer[i]), offer, tile)
         IN  /\ reply # Absent
             /\ reply.action.pai = offer[i].pai
             /\ ToBag(reply.action.consumed) = ToBag(offer[i].consumed)
<1> DEFINE chosen == ToLegal(offer[i])
<1>1. Len(offer) \in Nat /\ DOMAIN offer = 1..Len(offer)
  BY OfferAssumption DEF Offers
<1>2. Matches(chosen, offer[i])
  BY DEF Matches, ToLegal, LegalAction, SameTiles
<1>3. \E k \in DOMAIN offer : /\ Matches(chosen, offer[k])
                              /\ \A j \in 1..(k - 1) : ~Matches(chosen, offer[j])
  <2> DEFINE S == {k \in DOMAIN offer : Matches(chosen, offer[k])}
  <2>1. S # {} /\ S \subseteq 1..Len(offer)
    BY <1>1, <1>2
  <2> HIDE DEF S
  <2>2. PICK k \in 1..Len(offer) :
          k \in S /\ \A j \in 1..(k - 1) : j \in 1..Len(offer) /\ j \notin S
    BY <1>1, <2>1, FoundIndex
  <2>3. QED
    BY <1>1, <2>2 DEF S
<1> DEFINE first == CHOOSE k \in DOMAIN offer :
                      Matches(chosen, offer[k]) /\ \A j \in 1..(k - 1) : ~Matches(chosen, offer[j])
<1>4. first \in DOMAIN offer /\ Matches(chosen, offer[first])
  BY <1>3
<1>5. Find(offer, LAMBDA action : Matches(chosen, action)) = offer[first]
  BY <1>2 DEF Find
<1> HIDE DEF first
<1>6. offer[first] # Absent
  BY <1>4, OfferAssumption DEF Offers
<1>7. Checked(chosen, offer, tile) = ReplyOf(offer[first], tile)
  BY <1>5, <1>6 DEF Checked
<1>8. /\ ReplyOf(offer[first], tile) # Absent
      /\ ReplyOf(offer[first], tile).action = offer[first]
  BY <1>4, ReplyIsSome
<1>9. /\ offer[first].kind = offer[i].kind
      /\ TileIdOf(offer[first].pai) = TileIdOf(offer[i].pai)
      /\ SameTiles(TileIdsOf(offer[first].consumed), TileIdsOf(offer[i].consumed))
  BY <1>4 DEF Matches, ToLegal, LegalAction
<1>10. offer[first].pai = offer[i].pai
  <2>1. /\ offer[first].pai = Absent <=> offer[i].pai = Absent
        /\ offer[first].pai = Absent \/ offer[first].pai \in OfferedFaces
        /\ offer[i].pai = Absent \/ offer[i].pai \in OfferedFaces
    BY <1>4, <1>9, ShapeAssumption DEF Offers
  <2>2. offer[i].pai # Absent => TileIdOf(offer[i].pai) # Absent
    BY DEF Convertible
  <2>3. QED
    BY <1>9, <2>1, <2>2, FaceOfId
<1>11. ToBag(offer[first].consumed) = ToBag(offer[i].consumed)
  <2>1. /\ offer[first].consumed \in Seq(OfferedFaces)
        /\ offer[i].consumed \in Seq(OfferedFaces)
    BY <1>4, ShapeAssumption DEF Offers
  <2>2. \A k \in DOMAIN offer[i].consumed : TileIdOf(offer[i].consumed[k]) # Absent
    BY DEF Convertible
  <2>3. QED
    BY <1>9, <2>1, <2>2, SameTilesSameBag
<1>12. QED
  BY <1>7, <1>8, <1>10, <1>11

\* A choice of the agents comes back as the offered action it stands for, red fives
\* included, whatever else the request offered.
THEOREM ChoiceSurvivesCorrect == ClientSpec => []ChoiceSurvivesConversion
<1>1. ClientInv => ChoiceSurvivesConversion
  <2> SUFFICES ASSUME ClientInv, NEW id \in DOMAIN asked, NEW i \in DOMAIN asked[id].offer,
                      Convertible(asked[id].offer[i])
               PROVE  LET offer == asked[id].offer
                          reply == Checked(ToLegal(offer[i]), offer, Absent)
                      IN  /\ reply # Absent
                          /\ reply.action.pai = offer[i].pai
                          /\ ToBag(reply.action.consumed) = ToBag(offer[i].consumed)
    BY DEF ChoiceSurvivesConversion
  <2>1. asked[id] \in AskedRequests
    BY DEF ClientInv, Types
  <2>2. asked[id].offer \in Offers
    BY <2>1 DEF AskedRequests
  <2>3. QED
    BY <2>2, ChoiceComesBack
<1>2. QED
  BY <1>1, RequestsAreTracked, PTL

\* The client runs on until its exit event is read or the connection is gone, in
\* either mode.
THEOREM EndsOnlyWhenDoneCorrect == ClientSpec => EndsOnlyWhenDone
<1>1. ASSUME [ClientNext]_vars, status = "running", status' # "running"
      PROVE  connection # "open" \/ ReadsExit
  <2>1. CASE ServerNext
    BY <1>1, <2>1
      DEF ServerNext, ServeStartGame, ServeStartKyoku, ServeHora, ServeRyukyoku, ServeEnd,
          ServeCall, ServeTsumo, ServeDahai, ServeReply, ServeDefault, ServeRequest, Close,
          Break, SendEvent, Send, clientVars
  <2>2. CASE ReadMessage
    BY <1>1, <2>2 DEF ReadMessage, ShouldFinish, ReadsExit
  <2>3. CASE SendReply \/ WithholdReply
    BY <1>1, <2>3 DEF SendReply, WithholdReply
  <2>4. CASE FailToSend \/ ReadClose \/ ReadError
    BY <2>4 DEF FailToSend, ReadClose, ReadError
  <2>5. QED
    BY <1>1, <2>1, <2>2, <2>3, <2>4 DEF ClientNext, ClientStep, vars, clientVars
<1>2. QED
  BY <1>1, PTL DEF ClientSpec, EndsOnlyWhenDone
==============================================================================
