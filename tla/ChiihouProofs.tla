---------------------------- MODULE ChiihouProofs ----------------------------
(***************************************************************************)
(* What the chiihou client promises, for every number of players, tiles,   *)
(* notifications and relays: tiles are counted and called once, and, if    *)
(* the relays keep the order of publication, replies go out in order, each *)
(* round gets one next, and the rivers hold the discards of the round.     *)
(***************************************************************************)
EXTENDS ChiihouClient, FiniteSetTheorems, SequenceTheorems, WellFoundedInduction, TLAPS

------------------------------------------------------------------------------
(* First and last numbers. *)

\* A set of natural numbers has a first one.
LEMMA FirstNumber ==
  ASSUME NEW S, S \subseteq Nat, S # {}
  PROVE  \E i \in S : \A j \in S : i <= j
<1>1. PICK i \in S : \A j \in S : <<j, i>> \notin OpToRel(<, Nat)
  BY WFMin, NatLessThanWellFounded, Zenon
<1>2. \A j \in S : ~ (j < i)
  BY <1>1 DEF OpToRel
<1>3. QED
  BY <1>2

\* A bounded set has a last one.
LEMMA LastNumber ==
  ASSUME NEW n \in Nat, NEW S, S \subseteq 0..n, S # {}
  PROVE  \E i \in S : \A j \in S : j <= i
<1> DEFINE T == {k \in Nat : n - k \in S}
<1>1. T \subseteq Nat /\ T # {}
  <2>1. PICK i \in S : TRUE
    OBVIOUS
  <2>2. n - i \in Nat /\ n - (n - i) = i
    BY <2>1
  <2>3. QED
    BY <2>1, <2>2
<1> HIDE DEF T
<1>2. PICK k \in T : \A j \in T : k <= j
  BY <1>1, FirstNumber
<1>3. k \in Nat /\ n - k \in S
  BY <1>2 DEF T
<1>4. ASSUME NEW j \in S PROVE j <= n - k
  <2>1. j \in Nat /\ n - j \in Nat /\ n - (n - j) = j
    OBVIOUS
  <2>2. n - j \in T
    BY <2>1 DEF T
  <2>3. k <= n - j
    BY <1>2, <2>2
  <2>4. QED
    BY <1>3, <2>1, <2>3
<1>5. QED
  BY <1>3, <1>4

\* What Max of the community module chooses.
LEMMA MaxIsLast ==
  ASSUME NEW n \in Nat, NEW S, S \subseteq 0..n, S # {}
  PROVE  Max(S) \in S /\ \A j \in S : j <= Max(S)
<1>1. PICK i \in S : \A j \in S : j <= i
  BY LastNumber
<1>2. \E x \in S : \A y \in S : x >= y
  BY <1>1
<1>3. Max(S) \in S /\ \A y \in S : Max(S) >= y
  BY <1>2 DEF Max
<1>4. QED
  BY <1>3

\* What Min chooses.
LEMMA MinIsFirst ==
  ASSUME NEW S, S \subseteq Nat, S # {}
  PROVE  Min(S) \in S /\ \A j \in S : Min(S) <= j
<1>1. \E x \in S : \A y \in S : x <= y
  BY FirstNumber
<1>2. QED
  BY <1>1 DEF Min

------------------------------------------------------------------------------
(* The loop, when the relays keep the order. *)

Notes ==
  [kind : {"gamestart"}, players : Seatings] \cup [kind : {"kyokustart"}, round : Rounds]
    \cup [kind : {"kyokuend", "gameend", "foreign", "unreadable"}]
    \cup [kind : {"request"}, reply : ReplyKinds] \cup TableNotes
Tasks == [kind : {"reply", "next"}, event : Nat]

\* What arrived is the first part of what was published, and what was handled is what
\* arrived and is for us.
ArrivedInOrder ==
  /\ arrived \in SUBSET (1..Len(published))
  /\ \A id \in arrived : \A earlier \in 1..id : earlier \in arrived
  /\ seen = {id \in arrived : published[id].kind # "foreign"}

\* A task comes from an event that arrived.
Source(task) ==
  /\ task.event \in arrived
  /\ published[task.event].kind = IF task.kind = "next" THEN "kyokuend" ELSE "request"

LoopTypes ==
  /\ published \in Seq(Notes)
  /\ sent \in Seq(Tasks) /\ outgoing \in Tasks \cup {None}
  /\ status \in {"listening", "delayed", "failed", "stopped"}
  /\ next_sent_for_current_kyoku \in BOOLEAN
  /\ outgoing # None <=> status \in {"delayed", "failed"}

\* Tasks are issued in the order of the events they come from.
IssuedInOrder ==
  /\ \A i \in DOMAIN sent : Source(sent[i])
  /\ \A i, j \in DOMAIN sent : i < j => sent[i].event < sent[j].event
  /\ outgoing # None => /\ Source(outgoing)
                        /\ \A i \in DOMAIN sent : sent[i].event < outgoing.event

\* The game starts once, before anything else of it.
GameStartsFirst ==
  \A i \in DOMAIN published : published[i].kind = "gamestart" =>
    \A j \in 1..(i - 1) : published[j].kind \notin LifecycleKinds

\* The flag is up from the first end of a round to the next start.
FlagFollowsTheRound ==
  next_sent_for_current_kyoku <=>
    AutoNext /\ \E end \in EndsArrived : \A start \in arrived :
                  published[start].kind \in StartKinds => start < end

\* No round started between two events.
SameKyoku(i, j) ==
  \A start \in DOMAIN published :
    published[start].kind = "kyokustart" => (start <= i <=> start <= j)

\* Each round whose end arrived has its next, and no round has two.
OneNextEach ==
  AutoNext =>
    /\ \A end \in EndsArrived : \E task \in NextsIssued : SameKyoku(task.event, end)
    /\ \A task, twin \in NextsIssued : SameKyoku(task.event, twin.event) => task = twin

LoopInv ==
  LoopTypes /\ ArrivedInOrder /\ IssuedInOrder /\ GameStartsFirst /\ FlagFollowsTheRound
    /\ OneNextEach

\* The seats' rivers.
RiverTypes ==
  /\ players \in {<<>>} \cup Seatings
  /\ discards \in [Seats -> Seq(Pais)]

RiverInv == RiverTypes /\ RiversHoldTheRound

\* What a note carries goes with its kind.
LEMMA NotesAreKnown ==
  ASSUME NEW note \in Notes
  PROVE  /\ note.kind \in LifecycleKinds \cup {"tsumo", "sutehai", "request", "foreign", "unreadable"}
         /\ note.kind = "gamestart" => note.players \in Seatings
         /\ note.kind = "sutehai" => note.player \in Everyone /\ note.tile \in Pais
<1>1. CASE note \in TableNotes
  BY <1>1, NoteAssumption DEF LifecycleKinds
<1>2. CASE note \notin TableNotes
  BY <1>2 DEF Notes, LifecycleKinds
<1>3. QED
  BY <1>1, <1>2

\* The server publishes one note more, and starts the game as the first of it.
LEMMA ServerPublishes ==
  ASSUME published \in Seq(Notes), ServerStep
  PROVE  \E note \in Notes :
           /\ Serve(note)
           /\ note.kind = "gamestart" =>
                \A id \in DOMAIN published : published[id].kind \notin LifecycleKinds
<1> DEFINE Served == \E note \in Notes :
                       /\ Serve(note)
                       /\ note.kind = "gamestart" =>
                            \A id \in DOMAIN published : published[id].kind \notin LifecycleKinds
<1>1. CASE ServeGameStart
  <2>1. PICK seating \in Seatings :
          Stage = "recruiting" /\ Serve([kind |-> "gamestart", players |-> seating])
    BY <1>1 DEF ServeGameStart
  <2> DEFINE lifecycle == {id \in DOMAIN published : published[id].kind \in LifecycleKinds}
  <2>2. lifecycle = {}
    <3>1. SUFFICES ASSUME lifecycle # {} PROVE FALSE
      OBVIOUS
    <3>2. lifecycle \subseteq 0..Len(published) /\ Len(published) \in Nat
      OBVIOUS
    <3>3. Max(lifecycle) \in lifecycle
      <4> HIDE DEF lifecycle
      <4>1. QED
        BY <3>1, <3>2, MaxIsLast
    <3>4. Stage = published[Max(lifecycle)].kind
      BY <3>1 DEF Stage
    <3>5. Stage \in LifecycleKinds
      BY <3>3, <3>4
    <3>6. QED
      BY <2>1, <3>5 DEF LifecycleKinds
  <2>3. [kind |-> "gamestart", players |-> seating] \in Notes
    BY DEF Notes
  <2>4. QED
    BY <2>1, <2>2, <2>3
<1>2. CASE ServeKyokuStart \/ ServeKyokuEnd \/ ServeGameEnd
  <2>1. \A announced \in Rounds : [kind |-> "kyokustart", round |-> announced] \in Notes
    BY DEF Notes
  <2>2. Note("kyokuend") \in Notes /\ Note("gameend") \in Notes
    BY DEF Notes, Note
  <2>3. \/ \E announced \in Rounds : Serve([kind |-> "kyokustart", round |-> announced])
        \/ Serve(Note("kyokuend")) \/ Serve(Note("gameend"))
    BY <1>2 DEF ServeKyokuStart, ServeKyokuEnd, ServeGameEnd
  <2>4. Note("kyokuend").kind # "gamestart" /\ Note("gameend").kind # "gamestart"
    BY DEF Note
  <2>5. QED
    BY <2>1, <2>2, <2>3, <2>4
<1>3. CASE ServeTableNote
  <2>1. PICK note \in TableNotes : Serve(note)
    BY <1>3 DEF ServeTableNote
  <2>2. note \in Notes /\ note.kind # "gamestart"
    BY NoteAssumption DEF Notes
  <2>3. QED
    BY <2>1, <2>2
<1>4. CASE ServeRequest
  <2>1. PICK reply \in ReplyKinds : Serve([kind |-> "request", reply |-> reply])
    BY <1>4 DEF ServeRequest
  <2>2. [kind |-> "request", reply |-> reply] \in Notes
    BY DEF Notes
  <2>3. QED
    BY <2>1, <2>2
<1>5. CASE ServeOther
  <2>1. PICK kind \in {"foreign", "unreadable"} : Serve(Note(kind))
    BY <1>5 DEF ServeOther
  <2>2. Note(kind) \in Notes /\ Note(kind).kind # "gamestart"
    BY DEF Notes, Note
  <2>3. QED
    BY <2>1, <2>2
<1>6. QED
  BY <1>1, <1>2, <1>3, <1>4, <1>5 DEF ServerStep

\* A note more says nothing about those published before.
LEMMA AfterServing ==
  ASSUME published \in Seq(Notes), NEW note \in Notes, published' = Append(published, note)
  PROVE  /\ published' \in Seq(Notes)
         /\ Len(published) \in Nat /\ Len(published)' = Len(published) + 1
         /\ DOMAIN published = 1..Len(published)
         /\ DOMAIN published' = 1..(Len(published) + 1)
         /\ \A i \in 1..Len(published) : published'[i] = published[i]
         /\ published'[Len(published) + 1] = note
  OBVIOUS

\* What waits or was sent.
LEMMA NextsAre ==
  ASSUME LoopTypes
  PROVE  \A task : task \in NextsIssued <=>
           /\ task.kind = "next"
           /\ \/ outgoing # None /\ task = outgoing
              \/ \E i \in DOMAIN sent : task = sent[i]
  BY DEF NextsIssued, Issued, ToSet, LoopTypes

LEMMA ServingKeepsLoop ==
  ASSUME LoopInv, ServerStep
  PROVE  LoopInv'
<1>1. PICK note \in Notes :
        /\ Serve(note)
        /\ note.kind = "gamestart" =>
             \A id \in DOMAIN published : published[id].kind \notin LifecycleKinds
  BY ServerPublishes DEF LoopInv, LoopTypes
<1>2. /\ published' = Append(published, note)
      /\ arrived' = arrived /\ seen' = seen /\ status' = status
      /\ next_sent_for_current_kyoku' = next_sent_for_current_kyoku
      /\ outgoing' = outgoing /\ sent' = sent
  BY <1>1 DEF Serve, loopVars
<1>3. /\ published' \in Seq(Notes)
      /\ Len(published) \in Nat /\ Len(published)' = Len(published) + 1
      /\ DOMAIN published = 1..Len(published)
      /\ DOMAIN published' = 1..(Len(published) + 1)
      /\ \A i \in 1..Len(published) : published'[i] = published[i]
      /\ published'[Len(published) + 1] = note
  BY <1>2, AfterServing DEF LoopInv, LoopTypes
<1>4. \A id \in arrived : id \in 1..Len(published) /\ published'[id] = published[id]
  BY <1>3 DEF LoopInv, ArrivedInOrder
<1>5. LoopTypes'
  BY <1>2, <1>3 DEF LoopInv, LoopTypes
<1>6. ArrivedInOrder'
  <2>1. arrived \in SUBSET (1..Len(published)) /\ arrived \in SUBSET (1..(Len(published) + 1))
    BY <1>3 DEF LoopInv, ArrivedInOrder
  <2>2. {id \in arrived : published'[id].kind # "foreign"} =
        {id \in arrived : published[id].kind # "foreign"}
    BY <1>4
  <2>3. QED
    BY <1>2, <1>3, <2>1, <2>2 DEF LoopInv, ArrivedInOrder
<1>7. \A task : Source(task) => Source(task)'
  BY <1>2, <1>4 DEF Source
<1>8. IssuedInOrder'
  BY <1>2, <1>7 DEF LoopInv, IssuedInOrder, Source
<1>9. GameStartsFirst'
  <2>1. ASSUME NEW i \in 1..(Len(published) + 1), published'[i].kind = "gamestart",
               NEW j \in 1..(i - 1)
        PROVE  published'[j].kind \notin LifecycleKinds
    <3>1. j \in 1..Len(published) /\ published'[j] = published[j]
      BY <1>3
    <3>2. CASE i \in 1..Len(published)
      BY <1>3, <2>1, <3>1, <3>2 DEF LoopInv, GameStartsFirst
    <3>3. CASE i = Len(published) + 1
      BY <1>1, <1>3, <2>1, <3>1, <3>3
    <3>4. QED
      BY <1>3, <3>2, <3>3
  <2>2. QED
    BY <1>3, <2>1 DEF GameStartsFirst
<1>10. EndsArrived' = EndsArrived
  BY <1>2, <1>4 DEF EndsArrived
<1>11. FlagFollowsTheRound'
  BY <1>2, <1>4, <1>10 DEF LoopInv, FlagFollowsTheRound
<1>12. ASSUME NEW i \in 1..Len(published), NEW j \in 1..Len(published)
       PROVE  SameKyoku(i, j)' <=> SameKyoku(i, j)
  BY <1>3, <1>12 DEF SameKyoku
<1>13. NextsIssued' = NextsIssued
  BY <1>2 DEF NextsIssued, Issued
<1>14. OneNextEach'
  <2>1. \A end \in EndsArrived : end \in 1..Len(published)
    BY <1>4 DEF EndsArrived
  <2>2. \A task \in NextsIssued : task.event \in 1..Len(published)
    <3>1. \A task \in NextsIssued : Source(task)
      BY NextsAre DEF LoopInv, IssuedInOrder
    <3>2. QED
      BY <1>4, <3>1 DEF Source
  <2>3. ASSUME AutoNext
        PROVE  /\ \A end \in EndsArrived : \E task \in NextsIssued : SameKyoku(task.event, end)
               /\ \A task, twin \in NextsIssued : SameKyoku(task.event, twin.event) => task = twin
    BY <2>3 DEF LoopInv, OneNextEach
  <2>4. ASSUME AutoNext, NEW end \in EndsArrived
        PROVE  \E task \in NextsIssued : SameKyoku(task.event, end)'
    BY <1>12, <2>1, <2>2, <2>3, <2>4
  <2>5. ASSUME AutoNext, NEW task \in NextsIssued, NEW twin \in NextsIssued,
               SameKyoku(task.event, twin.event)'
        PROVE  task = twin
    BY <1>12, <2>2, <2>3, <2>5
  <2>6. QED
    BY <1>10, <1>13, <2>4, <2>5 DEF OneNextEach
<1>15. QED
  BY <1>5, <1>6, <1>8, <1>9, <1>11, <1>14 DEF LoopInv

\* Event id arrives first, behind everything that was published before it.
ArrivesNext(id) ==
  /\ id \in 1..Len(published) /\ published' = published
  /\ id \notin arrived /\ arrived' = arrived \cup {id}
  /\ \A earlier \in arrived : earlier < id
  /\ \A earlier \in 1..(id - 1) : earlier \in arrived

\* An event that is handled was not handled before.
LEMMA Arrival ==
  ASSUME Ordered, LoopTypes, ArrivedInOrder, NEW id \in DOMAIN published, Receive(id)
  PROVE  /\ ArrivedInOrder'
         /\ ArrivesNext(id) \/ (arrived' = arrived /\ published' = published /\ ~ShouldHandle(id))
         /\ ShouldHandle(id) => ArrivesNext(id)
         /\ ~ShouldHandle(id) =>
              /\ published[id].kind = "foreign" \/ id \in arrived
              /\ UNCHANGED <<status, next_sent_for_current_kyoku, outgoing, sent, stateVars>>
<1>1. /\ id \in 1..Len(published) /\ Len(published) \in Nat /\ DOMAIN published = 1..Len(published)
      /\ arrived \in SUBSET (1..Len(published))
      /\ \A i \in arrived : \A earlier \in 1..i : earlier \in arrived
      /\ seen = {i \in arrived : published[i].kind # "foreign"}
  BY DEF LoopTypes, ArrivedInOrder
<1>2. /\ published' = published /\ arrived' = arrived \cup {id}
      /\ seen' = IF published[id].kind = "foreign" THEN seen ELSE seen \cup {id}
      /\ \A earlier \in 1..(id - 1) : earlier \in arrived
  BY DEF Receive, ToArrive, SeenAfter
<1>3. ASSUME id \notin arrived
      PROVE  ArrivesNext(id)
  <2>1. ASSUME NEW earlier \in arrived PROVE earlier < id
    <3>1. SUFFICES ASSUME id <= earlier PROVE FALSE
      BY <1>1
    <3>2. id \in 1..earlier
      BY <1>1, <3>1
    <3>3. QED
      BY <1>1, <1>3, <3>2
  <2>2. QED
    BY <1>1, <1>2, <1>3, <2>1 DEF ArrivesNext
<1>4. ArrivedInOrder'
  <2>1. arrived' \in SUBSET (1..Len(published))
    BY <1>1, <1>2
  <2>2. \A i \in arrived' : \A earlier \in 1..i : earlier \in arrived'
    <3>1. \A earlier \in 1..id : earlier \in 1..(id - 1) \/ earlier = id
      BY <1>1
    <3>2. QED
      BY <1>1, <1>2, <3>1
  <2>3. seen' = {i \in arrived' : published[i].kind # "foreign"}
    BY <1>1, <1>2
  <2>4. QED
    BY <1>2, <2>1, <2>2, <2>3 DEF ArrivedInOrder
<1>5. ShouldHandle(id) => id \notin arrived
  BY <1>1 DEF ShouldHandle
<1>6. ~ShouldHandle(id) =>
        /\ published[id].kind = "foreign" \/ id \in arrived
        /\ UNCHANGED <<status, next_sent_for_current_kyoku, outgoing, sent, stateVars>>
  BY <1>1 DEF ShouldHandle, Receive, Listen
<1>7. id \in arrived => arrived' = arrived
  BY <1>2
<1>8. QED
  BY <1>2, <1>3, <1>4, <1>5, <1>6, <1>7

\* What handling an event does to the tasks: start the round, pass over its end, or issue
\* a next or a reply.
Starts(id) ==
  /\ published[id].kind \in StartKinds /\ next_sent_for_current_kyoku' = FALSE
  /\ outgoing' = outgoing /\ status' = status /\ sent' = sent
PassesOver(id) ==
  /\ published[id].kind = "kyokuend" /\ (~AutoNext \/ next_sent_for_current_kyoku)
  /\ next_sent_for_current_kyoku' = next_sent_for_current_kyoku
  /\ outgoing' = outgoing /\ status' = status /\ sent' = sent
IssuesNext(id) ==
  /\ published[id].kind = "kyokuend" /\ AutoNext /\ ~next_sent_for_current_kyoku
  /\ next_sent_for_current_kyoku' = TRUE
  /\ outgoing' = PublishNext(id) /\ status' = "delayed" /\ sent' = sent
IssuesReply(id) ==
  /\ published[id].kind = "request"
  /\ next_sent_for_current_kyoku' = next_sent_for_current_kyoku
  /\ outgoing' = Reply(id) /\ status' = "delayed" /\ sent' = sent
IssuesNothing(id) ==
  /\ published[id].kind \notin StartKinds \cup {"kyokuend"}
  /\ next_sent_for_current_kyoku' = next_sent_for_current_kyoku
  /\ outgoing' = outgoing /\ status' \in {status, "stopped"} /\ sent' = sent
Handles(id) ==
  Starts(id) \/ PassesOver(id) \/ IssuesNext(id) \/ IssuesReply(id) \/ IssuesNothing(id)

LEMMA HandlingIssues ==
  ASSUME NEW id \in DOMAIN published, Receive(id), LoopTypes
  PROVE  ShouldHandle(id) \/ (published[id].kind = "foreign") => Handles(id)
<1>1. CASE ShouldHandle(id)
  <2>1. \/ OnLifecycle(id, published[id]) \/ OnTableNote(published[id])
        \/ OnOther(id, published[id])
    BY <1>1 DEF Receive
  <2>2. CASE OnTableNote(published[id])
    <3>1. published[id].kind \in {"tsumo", "sutehai"}
      BY <2>2 DEF OnTableNote
    <3>2. /\ next_sent_for_current_kyoku' = next_sent_for_current_kyoku
          /\ outgoing' = outgoing /\ status' = status /\ sent' = sent
      BY <2>2 DEF OnTableNote, Listen
    <3>3. IssuesNothing(id)
      BY <3>1, <3>2 DEF IssuesNothing, StartKinds
    <3>4. QED
      BY <3>3 DEF Handles
  <2>3. CASE OnOther(id, published[id])
    <3>1. next_sent_for_current_kyoku' = next_sent_for_current_kyoku
      BY <2>3 DEF OnOther
    <3>2. CASE published[id].kind = "request" /\ Wait(Reply(id))
      <4>1. IssuesReply(id)
        BY <3>1, <3>2 DEF IssuesReply, Wait
      <4>2. QED
        BY <4>1 DEF Handles
    <3>3. CASE published[id].kind \in {"request", "unreadable"} /\ Listen
      <4>1. IssuesNothing(id)
        BY <3>1, <3>3 DEF IssuesNothing, Listen, StartKinds
      <4>2. QED
        BY <4>1 DEF Handles
    <3>4. QED
      BY <2>3, <3>2, <3>3 DEF OnOther
  <2>4. CASE OnLifecycle(id, published[id])
    <3>1. CASE published[id].kind \in StartKinds /\ OnStart(published[id])
      <4>1. Starts(id)
        BY <3>1 DEF Starts, OnStart, Listen
      <4>2. QED
        BY <4>1 DEF Handles
    <3>2. CASE published[id].kind = "kyokuend" /\ KyokuEndEffect(id)
      <4>1. PassesOver(id) \/ IssuesNext(id)
        BY <3>2 DEF PassesOver, IssuesNext, KyokuEndEffect, Listen, Wait, LoopTypes
      <4>2. QED
        BY <4>1 DEF Handles
    <3>3. CASE published[id].kind = "gameend" /\ status' = "stopped"
               /\ UNCHANGED <<next_sent_for_current_kyoku, outgoing, sent>>
      <4>1. IssuesNothing(id)
        BY <3>3 DEF IssuesNothing, StartKinds
      <4>2. QED
        BY <4>1 DEF Handles
    <3>4. QED
      BY <2>4, <3>1, <3>2, <3>3 DEF OnLifecycle, StartKinds
  <2>5. QED
    BY <2>1, <2>2, <2>3, <2>4
<1>2. CASE published[id].kind = "foreign"
  <2>1. ~ShouldHandle(id)
    BY <1>2 DEF ShouldHandle
  <2>2. UNCHANGED <<status, next_sent_for_current_kyoku, outgoing, sent>>
    BY <2>1 DEF Receive, Listen
  <2>3. IssuesNothing(id)
    BY <1>2, <2>2 DEF IssuesNothing, StartKinds
  <2>4. QED
    BY <2>3 DEF Handles
<1>3. QED
  BY <1>1, <1>2

LEMMA ArrivedFacts ==
  ASSUME LoopTypes, ArrivedInOrder, NEW id, ArrivesNext(id)
  PROVE  /\ DOMAIN published = 1..Len(published) /\ Len(published) \in Nat
         /\ \A i \in arrived : i \in 1..Len(published) /\ i \in Nat /\ i < id
         /\ id \in Nat
<1>1. DOMAIN published = 1..Len(published) /\ Len(published) \in Nat
  BY DEF LoopTypes
<1>2. arrived \in SUBSET (1..Len(published))
  BY DEF ArrivedInOrder
<1>3. id \in 1..Len(published) /\ id \notin arrived
  BY <1>1 DEF ArrivesNext
<1>4. ASSUME NEW i \in arrived PROVE i \in 1..Len(published) /\ i \in Nat /\ i < id
  <2>1. i \in 1..Len(published)
    BY <1>2
  <2>2. i \in Nat /\ id \in Nat
    BY <1>1, <1>3, <2>1
  <2>3. \A earlier \in 1..i : earlier \in arrived
    BY DEF ArrivedInOrder
  <2>4. ~(id \in 1..i)
    BY <1>3, <2>3
  <2>5. QED
    BY <1>1, <1>3, <2>1, <2>2, <2>4
<1>5. QED
  BY <1>1, <1>3, <1>4

\* The types and the order of the tasks.
LEMMA HandlingKeepsOrder ==
  ASSUME LoopTypes, ArrivedInOrder, IssuedInOrder, status = "listening",
         NEW id, ArrivesNext(id), Handles(id)
  PROVE  LoopTypes' /\ IssuedInOrder'
<1>1. outgoing = None
  BY DEF LoopTypes
<1>2. PublishNext(id) \in Tasks /\ Reply(id) \in Tasks
  BY ArrivedFacts DEF Tasks, PublishNext, Reply
<1>3. PublishNext(id) # None /\ Reply(id) # None
  BY <1>2, TaskAssumption DEF Tasks
<1>4. /\ published' = published /\ sent' = sent
      /\ \/ outgoing' = None /\ status' \in {"listening", "stopped"}
         \/ /\ outgoing' \in {PublishNext(id), Reply(id)} /\ status' = "delayed"
            /\ published[id].kind = IF outgoing'.kind = "next" THEN "kyokuend" ELSE "request"
      /\ next_sent_for_current_kyoku' \in BOOLEAN
  <2>1. published' = published /\ next_sent_for_current_kyoku \in BOOLEAN
    BY DEF ArrivesNext, LoopTypes
  <2>2. PublishNext(id).kind = "next" /\ Reply(id).kind = "reply"
    BY DEF PublishNext, Reply
  <2>3. CASE Starts(id) \/ PassesOver(id) \/ IssuesNothing(id)
    BY <1>1, <2>1, <2>3 DEF Starts, PassesOver, IssuesNothing
  <2>4. CASE IssuesNext(id)
    BY <2>1, <2>2, <2>4 DEF IssuesNext
  <2>5. CASE IssuesReply(id)
    BY <2>1, <2>2, <2>5 DEF IssuesReply
  <2>6. QED
    BY <2>3, <2>4, <2>5 DEF Handles
<1>5. LoopTypes'
  BY <1>2, <1>3, <1>4 DEF LoopTypes
<1>6. arrived' = arrived \cup {id}
  BY DEF ArrivesNext
<1>7. \A i \in DOMAIN sent : Source(sent[i]) /\ Source(sent[i])'
  BY <1>4, <1>6 DEF IssuedInOrder, Source
<1>8. \A i, j \in DOMAIN sent' : i < j => sent'[i].event < sent'[j].event
  BY <1>4 DEF IssuedInOrder
<1>9. ASSUME outgoing' # None
      PROVE  /\ Source(outgoing)'
             /\ \A i \in DOMAIN sent : sent[i].event < outgoing'.event
  <2>1. outgoing'.event = id
    BY <1>4, <1>9 DEF PublishNext, Reply
  <2>2. Source(outgoing)'
    BY <1>4, <1>6, <1>9, <2>1 DEF Source
  <2>3. \A i \in DOMAIN sent : sent[i].event < id
    BY <1>7, ArrivedFacts DEF Source
  <2>4. QED
    BY <2>1, <2>2, <2>3
<1>10. QED
  BY <1>4, <1>5, <1>7, <1>8, <1>9 DEF IssuedInOrder

\* The flag.
LEMMA HandlingKeepsFlag ==
  ASSUME LoopTypes, ArrivedInOrder, FlagFollowsTheRound, NEW id, ArrivesNext(id), Handles(id)
  PROVE  FlagFollowsTheRound'
<1>1. /\ published' = published /\ arrived' = arrived \cup {id} /\ id \notin arrived
      /\ id \in Nat /\ \A i \in arrived : i \in Nat /\ i < id
  BY ArrivedFacts DEF ArrivesNext
<1> DEFINE LastPart(end, S) == \A start \in S : published[start].kind \in StartKinds => start < end
           Up(S) == \E end \in S : published[end].kind = "kyokuend" /\ LastPart(end, S)
<1>2. /\ FlagFollowsTheRound <=> (next_sent_for_current_kyoku <=> AutoNext /\ Up(arrived))
      /\ FlagFollowsTheRound' <=> (next_sent_for_current_kyoku' <=> AutoNext /\ Up(arrived \cup {id}))
  BY <1>1 DEF FlagFollowsTheRound, EndsArrived
<1>3. CASE Starts(id)
  <2>1. ~Up(arrived \cup {id})
    <3>1. SUFFICES ASSUME NEW end \in arrived \cup {id}, published[end].kind = "kyokuend",
                          LastPart(end, arrived \cup {id})
                   PROVE  FALSE
      OBVIOUS
    <3>2. id < end
      BY <1>3, <3>1 DEF Starts
    <3>3. QED
      BY <1>1, <3>2
  <2>2. QED
    BY <1>2, <1>3, <2>1 DEF Starts
<1>4. ASSUME published[id].kind \notin StartKinds
      PROVE  \A end \in arrived : LastPart(end, arrived) => LastPart(end, arrived \cup {id})
  BY <1>4
<1>5. ASSUME published[id].kind \notin StartKinds
      PROVE  Up(arrived) => Up(arrived \cup {id})
  BY <1>4, <1>5
<1>6. CASE PassesOver(id)
  <2>1. published[id].kind \notin StartKinds
    BY <1>6 DEF PassesOver, StartKinds
  <2>2. QED
    BY <1>2, <1>5, <1>6, <2>1 DEF PassesOver
<1>7. CASE IssuesNext(id)
  <2>1. LastPart(id, arrived \cup {id}) /\ published[id].kind = "kyokuend"
    BY <1>1, <1>7 DEF IssuesNext, StartKinds
  <2>2. Up(arrived \cup {id})
    BY <2>1
  <2>3. QED
    BY <1>2, <1>7, <2>2 DEF IssuesNext
<1>8. CASE IssuesReply(id) \/ IssuesNothing(id)
  <2>1. /\ published[id].kind \notin StartKinds \cup {"kyokuend"}
        /\ next_sent_for_current_kyoku' = next_sent_for_current_kyoku
    BY <1>8 DEF IssuesReply, IssuesNothing, StartKinds
  <2>2. Up(arrived \cup {id}) => Up(arrived)
    BY <2>1
  <2>3. QED
    BY <1>2, <1>5, <2>1, <2>2
<1>9. QED
  BY <1>3, <1>6, <1>7, <1>8 DEF Handles

\* The nexts.
LEMMA HandlingKeepsNexts ==
  ASSUME LoopInv, LoopTypes', status = "listening", NEW id, ArrivesNext(id), Handles(id)
  PROVE  OneNextEach'
<1>1. /\ published' = published /\ arrived' = arrived \cup {id} /\ id \notin arrived
      /\ id \in Nat /\ \A i \in arrived : i \in 1..Len(published) /\ i \in Nat /\ i < id
      /\ id \in 1..Len(published) /\ DOMAIN published = 1..Len(published)
      /\ \A earlier \in 1..(id - 1) : earlier \in arrived
  BY ArrivedFacts DEF ArrivesNext, LoopInv
<1>2. outgoing = None
  BY DEF LoopInv, LoopTypes
<1>3. \A i, j : SameKyoku(i, j)' <=> SameKyoku(i, j)
  BY <1>1 DEF SameKyoku
<1>4. EndsArrived' = EndsArrived \cup (IF published[id].kind = "kyokuend" THEN {id} ELSE {})
  BY <1>1 DEF EndsArrived
<1>5. \A task \in NextsIssued : task.event \in EndsArrived
  <2>1. \A task \in NextsIssued : Source(task) /\ task.kind = "next"
    BY NextsAre DEF LoopInv, IssuedInOrder
  <2>2. QED
    BY <2>1 DEF Source, EndsArrived
<1>6. ASSUME NEW i \in Nat, NEW j \in Nat, NEW k \in Nat, SameKyoku(i, j), SameKyoku(j, k)
      PROVE  SameKyoku(i, k) /\ SameKyoku(j, i) /\ SameKyoku(i, i)
  BY <1>6 DEF SameKyoku
<1>7. CASE ~AutoNext
  BY <1>7 DEF OneNextEach
<1>8. CASE AutoNext /\ published[id].kind # "kyokuend"
  <2>1. NextsIssued' = NextsIssued
    <3>1. \/ outgoing' = None
          \/ outgoing' # None /\ outgoing'.kind # "next"
      BY <1>2, <1>8 DEF Handles, Starts, PassesOver, IssuesNext, IssuesReply, IssuesNothing, Reply
    <3>2. sent' = sent
      BY DEF Handles, Starts, PassesOver, IssuesNext, IssuesReply, IssuesNothing
    <3>3. QED
      BY <1>2, <3>1, <3>2 DEF NextsIssued, Issued
  <2>2. EndsArrived' = EndsArrived
    BY <1>4, <1>8
  <2>3. QED
    BY <1>3, <2>1, <2>2 DEF OneNextEach, LoopInv
<1>9. CASE AutoNext /\ PassesOver(id)
  <2>1. NextsIssued' = NextsIssued /\ EndsArrived' = EndsArrived \cup {id}
    BY <1>4, <1>9 DEF PassesOver, NextsIssued, Issued
  <2>2. PICK end \in EndsArrived : \A start \in arrived :
               published[start].kind \in StartKinds => start < end
    BY <1>9 DEF PassesOver, LoopInv, FlagFollowsTheRound
  <2>3. SameKyoku(end, id)
    <3>1. end \in arrived
      BY <2>2 DEF EndsArrived
    <3>2. ASSUME NEW start \in DOMAIN published, published[start].kind = "kyokustart", start <= id
          PROVE  start <= end
      <4>1. start # id
        BY <1>9, <3>2 DEF PassesOver
      <4>2. start \in 1..(id - 1)
        BY <1>1, <3>2, <4>1
      <4>3. start < end
        BY <1>1, <2>2, <3>2, <4>2 DEF StartKinds
      <4>4. QED
        BY <1>1, <3>1, <3>2, <4>3
    <3>3. QED
      BY <1>1, <3>1, <3>2 DEF SameKyoku
  <2>4. PICK task \in NextsIssued : SameKyoku(task.event, end)
    BY <1>9, <2>2 DEF LoopInv, OneNextEach
  <2>5. SameKyoku(task.event, id)
    <3>1. task.event \in Nat /\ end \in Nat
      BY <1>1, <1>5, <2>2 DEF EndsArrived
    <3>2. QED
      BY <1>1, <1>6, <2>3, <2>4, <3>1
  <2>6. QED
    BY <1>3, <1>9, <2>1, <2>5 DEF OneNextEach, LoopInv
<1>10. CASE AutoNext /\ IssuesNext(id)
  <2>1. EndsArrived' = EndsArrived \cup {id}
    BY <1>4, <1>10 DEF IssuesNext
  <2>2. NextsIssued' = NextsIssued \cup {PublishNext(id)}
    <3>1. PublishNext(id) # None /\ PublishNext(id).kind = "next"
      <4>1. PublishNext(id) \in Tasks
        BY <1>1 DEF Tasks, PublishNext
      <4>2. QED
        BY <4>1, TaskAssumption DEF Tasks, PublishNext
    <3>2. QED
      BY <1>2, <1>10, <3>1 DEF IssuesNext, NextsIssued, Issued
  <2>3. PublishNext(id).event = id
    BY DEF PublishNext
  <2>4. ASSUME NEW task \in NextsIssued
        PROVE  ~SameKyoku(task.event, id) /\ ~SameKyoku(id, task.event)
    <3>1. task.event \in EndsArrived /\ task.event \in arrived
      BY <1>5 DEF EndsArrived
    <3>2. PICK start \in arrived : published[start].kind \in StartKinds /\ ~(start < task.event)
      BY <1>10, <3>1 DEF IssuesNext, LoopInv, FlagFollowsTheRound
    <3>3. start # task.event
      BY <3>1, <3>2 DEF EndsArrived, StartKinds
    <3>4. task.event < start /\ start < id
      BY <1>1, <3>1, <3>2, <3>3
    <3>5. published[start].kind # "gamestart"
      <4>1. published[task.event].kind \in LifecycleKinds
        BY <3>1 DEF EndsArrived, LifecycleKinds
      <4>2. task.event \in 1..(start - 1) /\ start \in DOMAIN published
        BY <1>1, <3>1, <3>2, <3>4
      <4>3. QED
        BY <4>1, <4>2 DEF LoopInv, GameStartsFirst
    <3>6. published[start].kind = "kyokustart"
      BY <3>2, <3>5 DEF StartKinds
    <3>7. QED
      BY <1>1, <3>1, <3>2, <3>4, <3>6 DEF SameKyoku
  <2>5. SameKyoku(id, id)
    BY DEF SameKyoku
  <2>6. \A end \in EndsArrived' : \E task \in NextsIssued' : SameKyoku(task.event, end)
    BY <1>10, <2>1, <2>2, <2>3, <2>5 DEF LoopInv, OneNextEach
  <2>7. \A task, twin \in NextsIssued' : SameKyoku(task.event, twin.event) => task = twin
    BY <1>10, <2>2, <2>3, <2>4 DEF LoopInv, OneNextEach
  <2>8. QED
    BY <1>3, <2>6, <2>7 DEF OneNextEach
<1>11. QED
  BY <1>7, <1>8, <1>9, <1>10 DEF Handles, Starts, IssuesReply, IssuesNothing, StartKinds

LEMMA ReceivingKeepsLoop ==
  ASSUME Ordered, LoopInv, NEW id \in DOMAIN published, Receive(id)
  PROVE  LoopInv'
<1>1. /\ ArrivedInOrder'
      /\ ArrivesNext(id) \/ (arrived' = arrived /\ published' = published /\ ~ShouldHandle(id))
      /\ ShouldHandle(id) => ArrivesNext(id)
      /\ ~ShouldHandle(id) =>
           /\ published[id].kind = "foreign" \/ id \in arrived
           /\ UNCHANGED <<status, next_sent_for_current_kyoku, outgoing, sent, stateVars>>
  BY Arrival DEF LoopInv
<1>2. status = "listening"
  BY DEF Receive
<1>3. CASE ArrivesNext(id)
  <2>1. Handles(id)
    <3>1. ShouldHandle(id) \/ published[id].kind = "foreign"
      BY <1>1, <1>3 DEF ArrivesNext
    <3>2. QED
      BY <3>1, HandlingIssues DEF LoopInv
  <2>2. LoopTypes' /\ IssuedInOrder'
    BY <1>2, <1>3, <2>1, HandlingKeepsOrder DEF LoopInv
  <2>3. FlagFollowsTheRound'
    BY <1>3, <2>1, HandlingKeepsFlag DEF LoopInv
  <2>4. OneNextEach'
    BY <1>2, <1>3, <2>1, <2>2, HandlingKeepsNexts
  <2>5. GameStartsFirst'
    BY <1>3 DEF ArrivesNext, LoopInv, GameStartsFirst
  <2>6. QED
    BY <1>1, <2>2, <2>3, <2>4, <2>5 DEF LoopInv
<1>4. CASE arrived' = arrived /\ published' = published /\ ~ShouldHandle(id)
  <2>1. UNCHANGED <<published, arrived, status, next_sent_for_current_kyoku, outgoing, sent>>
    BY <1>1, <1>4
  <2>2. LoopTypes' /\ IssuedInOrder' /\ GameStartsFirst'
    BY <2>1 DEF LoopInv, LoopTypes, IssuedInOrder, GameStartsFirst, Source
  <2>3. FlagFollowsTheRound'
    BY <2>1 DEF LoopInv, FlagFollowsTheRound, EndsArrived
  <2>4. OneNextEach'
    BY <2>1 DEF LoopInv, OneNextEach, EndsArrived, NextsIssued, Issued, SameKyoku
  <2>5. QED
    BY <1>1, <2>2, <2>3, <2>4 DEF LoopInv
<1>5. QED
  BY <1>1, <1>3, <1>4

\* The delay ends: what waited was published, or nothing more ever is.
LEMMA DelayKeepsLoop ==
  ASSUME LoopInv, EndDelay
  PROVE  LoopInv'
<1>1. /\ UNCHANGED <<published, arrived, seen, next_sent_for_current_kyoku>>
      /\ status = "delayed"
      /\ \/ sent' = Append(sent, outgoing) /\ outgoing' = None /\ status' = "listening"
         \/ sent' = sent /\ outgoing' = outgoing /\ status' = "failed"
         \/ outgoing.kind = "reply" /\ DropReply
  BY DEF EndDelay, Publish, CannotSign
<1>2. outgoing \in Tasks /\ outgoing # None
  BY <1>1 DEF LoopInv, LoopTypes
<1>3. CASE sent' = sent /\ outgoing' = outgoing /\ status' = "failed"
  <2>1. LoopTypes' /\ IssuedInOrder' /\ GameStartsFirst' /\ ArrivedInOrder'
    BY <1>1, <1>2, <1>3 DEF LoopInv, LoopTypes, IssuedInOrder, GameStartsFirst, Source, ArrivedInOrder
  <2>2. FlagFollowsTheRound'
    BY <1>1 DEF LoopInv, FlagFollowsTheRound, EndsArrived
  <2>3. OneNextEach'
    BY <1>1, <1>3 DEF LoopInv, OneNextEach, EndsArrived, NextsIssued, Issued, SameKyoku
  <2>4. QED
    BY <2>1, <2>2, <2>3 DEF LoopInv
<1>4. CASE sent' = Append(sent, outgoing) /\ outgoing' = None /\ status' = "listening"
  <2>1. /\ Len(sent) \in Nat /\ sent' \in Seq(Tasks)
        /\ DOMAIN sent = 1..Len(sent) /\ DOMAIN sent' = 1..(Len(sent) + 1)
        /\ \A i \in 1..Len(sent) : sent'[i] = sent[i]
        /\ sent'[Len(sent) + 1] = outgoing
    BY <1>2, <1>4 DEF LoopInv, LoopTypes
  <2>2. LoopTypes' /\ GameStartsFirst' /\ ArrivedInOrder'
    BY <1>1, <1>4, <2>1 DEF LoopInv, LoopTypes, GameStartsFirst, ArrivedInOrder
  <2>3. IssuedInOrder'
    <3>1. \A task : Source(task)' <=> Source(task)
      BY <1>1 DEF Source
    <3>2. \A i \in DOMAIN sent' : Source(sent'[i])
      BY <1>2, <2>1 DEF LoopInv, IssuedInOrder
    <3>3. ASSUME NEW i \in 1..(Len(sent) + 1), NEW j \in 1..(Len(sent) + 1), i < j
          PROVE  sent'[i].event < sent'[j].event
      <4>1. i \in 1..Len(sent) /\ (j \in 1..Len(sent) \/ j = Len(sent) + 1)
        BY <2>1, <3>3
      <4>2. QED
        BY <1>2, <2>1, <3>3, <4>1 DEF LoopInv, IssuedInOrder
    <3>4. (\A i \in DOMAIN sent : Source(sent[i]))'
      BY <1>1, <3>2 DEF Source
    <3>5. QED
      BY <1>4, <2>1, <3>3, <3>4 DEF IssuedInOrder
  <2>4. FlagFollowsTheRound'
    BY <1>1 DEF LoopInv, FlagFollowsTheRound, EndsArrived
  <2>5. NextsIssued' = NextsIssued
    <3>1. \A task : task \in NextsIssued <=>
            task.kind = "next" /\ (task = outgoing \/ \E i \in DOMAIN sent : task = sent[i])
      BY <1>2, NextsAre DEF LoopInv
    <3>2. \A task : task \in NextsIssued' <=>
            task.kind = "next" /\ \E i \in DOMAIN sent' : task = sent'[i]
      BY <1>4 DEF NextsIssued, Issued, ToSet
    <3>3. \A task : (\E i \in DOMAIN sent' : task = sent'[i]) <=>
                    (task = outgoing \/ \E i \in DOMAIN sent : task = sent[i])
      <4>1. ASSUME NEW task, NEW i \in DOMAIN sent', task = sent'[i]
            PROVE  task = outgoing \/ \E k \in DOMAIN sent : task = sent[k]
        <5>1. i \in 1..Len(sent) \/ i = Len(sent) + 1
          BY <2>1
        <5>2. QED
          BY <2>1, <4>1, <5>1
      <4>2. Len(sent) + 1 \in DOMAIN sent'
        BY <2>1
      <4>3. \A k \in DOMAIN sent : k \in DOMAIN sent' /\ sent[k] = sent'[k]
        BY <2>1
      <4>4. QED
        BY <2>1, <4>1, <4>2, <4>3
    <3>4. QED
      BY <3>1, <3>2, <3>3
  <2>6. OneNextEach'
    BY <1>1, <2>5 DEF LoopInv, OneNextEach, EndsArrived, SameKyoku
  <2>7. QED
    BY <2>2, <2>3, <2>4, <2>6 DEF LoopInv
<1>5. CASE outgoing.kind = "reply" /\ DropReply
  <2>1. outgoing' = None /\ status' = "listening" /\ sent' = sent
    BY <1>5 DEF DropReply
  <2>2. LoopTypes' /\ IssuedInOrder' /\ GameStartsFirst' /\ ArrivedInOrder'
    BY <1>1, <2>1 DEF LoopInv, LoopTypes, IssuedInOrder, GameStartsFirst, Source, ArrivedInOrder
  <2>3. FlagFollowsTheRound'
    BY <1>1 DEF LoopInv, FlagFollowsTheRound, EndsArrived
  <2>4. NextsIssued' = NextsIssued
    BY <1>5, <2>1 DEF NextsIssued, Issued, ToSet
  <2>5. OneNextEach'
    BY <1>1, <2>4 DEF LoopInv, OneNextEach, EndsArrived, SameKyoku
  <2>6. QED
    BY <2>2, <2>3, <2>5 DEF LoopInv
<1>6. QED
  BY <1>1, <1>3, <1>4, <1>5

LEMMA LoopInit ==
  ClientInit => LoopInv
<1> SUFFICES ASSUME ClientInit PROVE LoopInv
  OBVIOUS
<1>1. /\ published = <<>> /\ arrived = {} /\ status = "listening" /\ seen = {}
      /\ next_sent_for_current_kyoku = FALSE /\ outgoing = None /\ sent = <<>>
  BY DEF ClientInit
<1>2. LoopTypes
  <2>1. \A S : <<>> \in Seq(S)
    OBVIOUS
  <2>2. QED
    BY <1>1, <2>1 DEF LoopTypes
<1>3. ArrivedInOrder
  BY <1>1 DEF ArrivedInOrder
<1>4. IssuedInOrder /\ GameStartsFirst
  BY <1>1 DEF IssuedInOrder, GameStartsFirst
<1>5. FlagFollowsTheRound
  BY <1>1 DEF FlagFollowsTheRound, EndsArrived
<1>6. OneNextEach
  <2>1. NextsIssued = {} /\ EndsArrived = {}
    BY <1>1 DEF NextsIssued, Issued, EndsArrived, ToSet
  <2>2. QED
    BY <2>1 DEF OneNextEach
<1>7. QED
  BY <1>2, <1>3, <1>4, <1>5, <1>6 DEF LoopInv

\* With relays that keep the order, the loop keeps its invariant.
THEOREM LoopCorrect ==
  ASSUME Ordered PROVE ClientSpec => []LoopInv
<1>1. ASSUME LoopInv, [ClientNext]_clientVars PROVE LoopInv'
  <2>1. CASE ServerStep
    BY <1>1, <2>1, ServingKeepsLoop
  <2>2. CASE \E id \in DOMAIN published : Receive(id)
    BY <1>1, <2>2, ReceivingKeepsLoop
  <2>3. CASE EndDelay
    BY <1>1, <2>3, DelayKeepsLoop
  <2>4. CASE Shutdown \/ UNCHANGED clientVars
    <3>1. /\ UNCHANGED <<published, arrived, seen, next_sent_for_current_kyoku, outgoing, sent>>
          /\ status' = status \/ (status = "listening" /\ status' = "stopped")
      BY <2>4 DEF Shutdown, clientVars, loopVars
    <3>2. LoopTypes' /\ IssuedInOrder' /\ GameStartsFirst' /\ ArrivedInOrder'
      BY <1>1, <3>1 DEF LoopInv, LoopTypes, IssuedInOrder, GameStartsFirst, Source, ArrivedInOrder
    <3>3. FlagFollowsTheRound'
      BY <1>1, <3>1 DEF LoopInv, FlagFollowsTheRound, EndsArrived
    <3>4. OneNextEach'
      BY <1>1, <3>1 DEF LoopInv, OneNextEach, EndsArrived, NextsIssued, Issued, SameKyoku
    <3>5. QED
      BY <3>2, <3>3, <3>4 DEF LoopInv
  <2>5. QED
    BY <1>1, <2>1, <2>2, <2>3, <2>4 DEF ClientNext
<1>2. QED
  BY <1>1, LoopInit, PTL DEF ClientSpec

\* A request is answered at most once and in its turn.
THEOREM RepliesCorrect ==
  ASSUME Ordered PROVE ClientSpec => []RepliesInOrder
<1>1. LoopInv => RepliesInOrder
  BY DEF LoopInv, IssuedInOrder, RepliesInOrder
<1>2. QED
  BY <1>1, LoopCorrect, PTL

\* KyokuOf names the round.
LEMMA KyokuIsSame ==
  ASSUME LoopTypes, NEW i \in Nat, NEW j \in Nat
  PROVE  KyokuOf(i) = KyokuOf(j) <=> SameKyoku(i, j)
<1> DEFINE Starts0(k) == {0} \cup {start \in DOMAIN published :
                                     start <= k /\ published[start].kind = "kyokustart"}
<1>1. Len(published) \in Nat /\ DOMAIN published = 1..Len(published)
  BY DEF LoopTypes
<1>2. /\ KyokuOf(i) = Max(Starts0(i)) /\ KyokuOf(j) = Max(Starts0(j))
      /\ Starts0(i) \subseteq 0..Len(published) /\ Starts0(j) \subseteq 0..Len(published)
      /\ Starts0(i) # {} /\ Starts0(j) # {}
      /\ \A k \in Starts0(i) : k <= i
      /\ \A k \in Starts0(j) : k <= j
  BY <1>1 DEF KyokuOf
<1>3. /\ KyokuOf(i) \in Starts0(i) /\ \A k \in Starts0(i) : k <= KyokuOf(i)
      /\ KyokuOf(j) \in Starts0(j) /\ \A k \in Starts0(j) : k <= KyokuOf(j)
  <2> HIDE DEF Starts0
  <2>1. QED
    BY <1>1, <1>2, MaxIsLast
<1>4. KyokuOf(i) \in Nat /\ KyokuOf(j) \in Nat /\ KyokuOf(i) <= i /\ KyokuOf(j) <= j
  BY <1>2, <1>3
<1>5. ASSUME SameKyoku(i, j) PROVE Starts0(i) = Starts0(j)
  BY <1>5 DEF SameKyoku
<1>6. ASSUME KyokuOf(i) = KyokuOf(j), NEW start \in DOMAIN published,
             published[start].kind = "kyokustart"
      PROVE  start <= i <=> start <= j
  <2>1. start \in Nat
    BY <1>1
  <2>2. start <= i => start <= j
    <3>1. SUFFICES ASSUME start <= i PROVE start <= j
      OBVIOUS
    <3>2. start <= KyokuOf(i)
      BY <1>3, <1>6, <3>1
    <3>3. QED
      BY <1>4, <1>6, <2>1, <3>2
  <2>3. start <= j => start <= i
    <3>1. SUFFICES ASSUME start <= j PROVE start <= i
      OBVIOUS
    <3>2. start <= KyokuOf(j)
      BY <1>3, <1>6, <3>1
    <3>3. QED
      BY <1>4, <1>6, <2>1, <3>2
  <2>4. QED
    BY <2>2, <2>3
<1>7. QED
  BY <1>2, <1>5, <1>6 DEF SameKyoku

\* Exactly one next for each round whose end arrived.
THEOREM NextsCorrect ==
  ASSUME Ordered PROVE ClientSpec => []OneNextPerKyoku
<1>1. LoopInv => OneNextPerKyoku
  <2> SUFFICES ASSUME LoopInv, AutoNext PROVE
         /\ \A end \in EndsArrived :
              Cardinality({task \in NextsIssued : KyokuOf(task.event) = KyokuOf(end)}) = 1
         /\ \A task \in NextsIssued : task.event \in EndsArrived
         /\ \A i, j \in DOMAIN sent : sent[i] = sent[j] => i = j
    BY DEF OneNextPerKyoku
  <2>1. \A task \in NextsIssued : task.event \in EndsArrived
    <3>1. \A task \in NextsIssued : Source(task) /\ task.kind = "next"
      BY NextsAre DEF LoopInv, IssuedInOrder
    <3>2. QED
      BY <3>1 DEF Source, EndsArrived
  <2>2. \A end \in EndsArrived : end \in Nat
    BY DEF EndsArrived, LoopInv, ArrivedInOrder, LoopTypes
  <2>3. ASSUME NEW end \in EndsArrived
        PROVE  Cardinality({task \in NextsIssued : KyokuOf(task.event) = KyokuOf(end)}) = 1
    <3>1. \A task \in NextsIssued : KyokuOf(task.event) = KyokuOf(end) <=> SameKyoku(task.event, end)
      BY <2>1, <2>2, KyokuIsSame DEF LoopInv
    <3>2. PICK task \in NextsIssued : SameKyoku(task.event, end)
      BY <2>3 DEF LoopInv, OneNextEach
    <3>3. ASSUME NEW twin \in NextsIssued, SameKyoku(twin.event, end) PROVE twin = task
      <4>1. SameKyoku(task.event, twin.event)
        BY <3>2, <3>3 DEF SameKyoku
      <4>2. QED
        BY <4>1 DEF LoopInv, OneNextEach
    <3>4. {twin \in NextsIssued : KyokuOf(twin.event) = KyokuOf(end)} = {task}
      BY <3>1, <3>2, <3>3
    <3>5. QED
      BY <3>4, FS_Singleton
  <2>4. ASSUME NEW i \in DOMAIN sent, NEW j \in DOMAIN sent, sent[i] = sent[j] PROVE i = j
    <3>1. i \in Nat /\ j \in Nat
      BY DEF LoopInv, LoopTypes
    <3>2. sent[i].event \in Nat
      <4>1. sent[i] \in Tasks
        BY DEF LoopInv, LoopTypes
      <4>2. QED
        BY <4>1 DEF Tasks
    <3>3. i < j => sent[i].event < sent[j].event
      BY DEF LoopInv, IssuedInOrder
    <3>4. j < i => sent[j].event < sent[i].event
      BY DEF LoopInv, IssuedInOrder
    <3>5. QED
      BY <2>4, <3>1, <3>2, <3>3, <3>4
  <2>5. QED
    BY <2>1, <2>3, <2>4
<1>2. QED
  BY <1>1, LoopCorrect, PTL

------------------------------------------------------------------------------
(* The rivers. *)

\* A player at the table has a seat.
LEMMA SeatIsFound ==
  ASSUME players \in {<<>>} \cup Seatings, NEW player, AtTable(player)
  PROVE  SeatOf(player) \in Seats
<1> DEFINE I == {i \in 1..Len(players) : players[i] = player}
<1>1. Len(players) \in 0..PlayerCount
  <2>1. CASE players = <<>>
    BY <2>1, TableAssumption
  <2>2. CASE players \in Seatings
    <3>1. players \in [1..PlayerCount -> Everyone] /\ PlayerCount \in Nat
      BY <2>2, TableAssumption
    <3>2. QED
      BY <3>1
  <2>3. QED
    BY <2>1, <2>2
<1>2. SeatOf(player) = IF I # {} THEN Min(I) ELSE 0
  BY DEF SeatOf, SelectInSeq
<1>3. I # {}
  BY <1>2 DEF AtTable
<1>4. Min(I) \in I
  <2>1. I \subseteq Nat
    BY <1>1
  <2> HIDE DEF I
  <2>2. QED
    BY <1>3, <2>1, MinIsFirst
<1>5. QED
  BY <1>1, <1>2, <1>3, <1>4, TableAssumption DEF Seats

\* What handling an event does to the rivers: empty them for a new round, add a discard,
\* or nothing.
Empties(id) ==
  /\ published[id].kind \in StartKinds /\ discards' = NoTiles
  /\ players' = players \/ players' \in Seatings
AddsDiscard(id) ==
  /\ published[id].kind = "sutehai" /\ AtTable(published[id].player)
  /\ discards' = [discards EXCEPT ![SeatOf(published[id].player)] = Append(@, published[id].tile)]
  /\ players' = players
KeepsRivers(id) ==
  /\ published[id].kind \notin StartKinds
  /\ published[id].kind = "sutehai" => ~AtTable(published[id].player)
  /\ discards' = discards /\ players' = players

LEMMA HandlingDiscards ==
  ASSUME LoopTypes, NEW id \in DOMAIN published, Receive(id), ShouldHandle(id)
  PROVE  Empties(id) \/ AddsDiscard(id) \/ KeepsRivers(id)
<1> DEFINE note == published[id]
<1>1. note \in Notes
  BY DEF LoopTypes
<1>2. OnLifecycle(id, note) \/ OnTableNote(note) \/ OnOther(id, note)
  BY DEF Receive
<1> HIDE DEF note
<1>3. CASE OnLifecycle(id, note)
  <2>1. CASE note.kind = "gamestart" /\ ApplyGameStart(note.players)
    <3>1. note.players \in Seatings
      BY <1>1, <2>1, NotesAreKnown
    <3>2. QED
      BY <2>1, <3>1 DEF ApplyGameStart, ResetTableState, Empties, StartKinds, note
  <2>2. CASE note.kind = "kyokustart" /\ ApplyKyokuStart(note.round)
    BY <2>2 DEF ApplyKyokuStart, ResetTableState, Empties, StartKinds, note
  <2>3. CASE note.kind = "kyokuend" /\ ApplyKyokuEnd
    BY <2>3 DEF ApplyKyokuEnd, KeepsRivers, StartKinds, note
  <2>4. CASE note.kind = "gameend" /\ ApplyGameEnd
    BY <2>4 DEF ApplyGameEnd, tableVars, KeepsRivers, StartKinds, note
  <2>5. QED
    BY <1>3, <2>1, <2>2, <2>3, <2>4 DEF OnLifecycle
<1>4. CASE OnTableNote(note)
  <2>1. CASE note.kind = "tsumo" /\ ApplyTsumo(note.player, note.tile)
    BY <2>1 DEF ApplyTsumo, matchVars, KeepsRivers, StartKinds, note
  <2>2. CASE note.kind = "sutehai" /\ ApplySutehai(note.player, note.tile)
    BY <2>2 DEF ApplySutehai, matchVars, AddsDiscard, note
  <2>3. CASE note.kind \in {"tsumo", "sutehai"} /\ Rejected(note) /\ UNCHANGED stateVars
    BY <2>3 DEF Rejected, stateVars, matchVars, tableVars, KeepsRivers, StartKinds, note
  <2>4. QED
    BY <1>4, <2>1, <2>2, <2>3 DEF OnTableNote
<1>5. CASE OnOther(id, note)
  BY <1>5 DEF OnOther, stateVars, matchVars, tableVars, KeepsRivers, StartKinds, note
<1>6. QED
  BY <1>2, <1>3, <1>4, <1>5

\* A seat depends on the player list only.
LEMMA SeatStays ==
  ASSUME players' = players, NEW player
  PROVE  SeatOf(player)' = SeatOf(player)
  BY DEF SeatOf, SelectInSeq

LEMMA RoundDiscardsAreFinite ==
  ASSUME LoopTypes, ArrivedInOrder, NEW seat, NEW S \in SUBSET RoundDiscards(seat)
  PROVE  IsFiniteSet(S) /\ Cardinality(S) \in Nat
<1>1. Len(published) \in Nat
  BY DEF LoopTypes
<1>2. IsFiniteSet(1..Len(published)) /\ S \in SUBSET (1..Len(published))
  BY <1>1, FS_Interval DEF RoundDiscards, ArrivedInOrder
<1>3. IsFiniteSet(S)
  BY <1>2, FS_Subset
<1>4. QED
  BY <1>3, FS_CardinalityType

\* The river of a seat is what has come of the round.
RiverIs(river, D) ==
  /\ Len(river) = Cardinality(D)
  /\ \A id \in D : river[Cardinality({earlier \in D : earlier <= id})] = published[id].tile

LEMMA RiversAre == RiversHoldTheRound <=> \A seat \in Seats : RiverIs(discards[seat], RoundDiscards(seat))
  BY DEF RiversHoldTheRound, RiverIs

\* A discard more.
LEMMA RiverGrows ==
  ASSUME NEW D \in SUBSET Nat, IsFiniteSet(D), NEW river \in Seq(Pais), RiverIs(river, D),
         NEW id \in Nat, \A earlier \in D : earlier < id, published[id].tile \in Pais
  PROVE  RiverIs(Append(river, published[id].tile), D \cup {id})
<1> DEFINE Upto(k, S) == {earlier \in S : earlier <= k}
           longer == Append(river, published[id].tile)
<1>1. /\ Len(river) \in Nat /\ Len(longer) = Len(river) + 1
      /\ \A i \in 1..Len(river) : longer[i] = river[i]
      /\ longer[Len(river) + 1] = published[id].tile
  OBVIOUS
<1>2. id \notin D
  OBVIOUS
<1>3. Cardinality(D \cup {id}) = Cardinality(D) + 1 /\ Cardinality(D) = Len(river)
  BY <1>2, FS_AddElement DEF RiverIs
<1>4. ASSUME NEW k \in D
      PROVE  /\ Upto(k, D \cup {id}) = Upto(k, D)
             /\ Cardinality(Upto(k, D)) \in 1..Len(river)
  <2>1. Upto(k, D \cup {id}) = Upto(k, D)
    OBVIOUS
  <2>2. k \in Upto(k, D) /\ Upto(k, D) \in SUBSET D
    OBVIOUS
  <2> HIDE DEF Upto
  <2>3. IsFiniteSet(Upto(k, D)) /\ Cardinality(Upto(k, D)) <= Cardinality(D)
    BY <2>2, FS_Subset
  <2>4. Cardinality(Upto(k, D)) \in Nat /\ Cardinality(Upto(k, D)) # 0
    BY <2>2, <2>3, FS_EmptySet, FS_CardinalityType
  <2>5. QED
    BY <1>1, <1>3, <2>1, <2>3, <2>4
<1>5. Upto(id, D \cup {id}) = D \cup {id}
  <2>1. \A earlier \in D \cup {id} : earlier <= id
    OBVIOUS
  <2>2. QED
    BY <2>1
<1>6. ASSUME NEW k \in D \cup {id}
      PROVE  longer[Cardinality(Upto(k, D \cup {id}))] = published[k].tile
  <2>1. CASE k = id
    BY <1>1, <1>3, <1>5, <2>1
  <2>2. CASE k \in D
    <3>1. river[Cardinality(Upto(k, D))] = published[k].tile
      BY <2>2 DEF RiverIs
    <3>2. QED
      BY <1>1, <1>4, <2>2, <3>1
  <2>3. QED
    BY <2>1, <2>2
<1>7. QED
  BY <1>1, <1>3, <1>6 DEF RiverIs

\* The empty river.
LEMMA RiverIsEmpty == RiverIs(<<>>, {})
  BY FS_EmptySet DEF RiverIs

LEMMA ReceivingKeepsRivers ==
  ASSUME Ordered, LoopTypes, ArrivedInOrder, RiverInv, NEW id \in DOMAIN published, Receive(id)
  PROVE  RiverInv'
<1>1. /\ ArrivesNext(id) \/ (arrived' = arrived /\ published' = published /\ ~ShouldHandle(id))
      /\ ShouldHandle(id) => ArrivesNext(id)
      /\ ~ShouldHandle(id) =>
           /\ published[id].kind = "foreign" \/ id \in arrived
           /\ UNCHANGED <<status, next_sent_for_current_kyoku, outgoing, sent, stateVars>>
  BY Arrival
<1>2. \A seat \in Seats : RiverIs(discards[seat], RoundDiscards(seat))
  BY RiversAre DEF RiverInv
<1>3. published' = published
  BY <1>1 DEF ArrivesNext
<1>4. \A river, D : RiverIs(river, D) =>
        (Len(river) = Cardinality(D) /\
         \A k \in D : river[Cardinality({earlier \in D : earlier <= k})] = published'[k].tile)
  BY <1>3 DEF RiverIs
<1> DEFINE Holds == \A seat \in Seats : RiverIs(discards'[seat], RoundDiscards(seat)')
<1>5. Holds => RiversHoldTheRound'
  BY <1>4 DEF RiversHoldTheRound
<1>6. CASE ~ArrivesNext(id)
  <2>1. arrived' = arrived /\ discards' = discards /\ players' = players
    BY <1>1, <1>6 DEF stateVars, matchVars, tableVars
  <2>2. \A seat \in Seats : RoundDiscards(seat)' = RoundDiscards(seat)
    BY <1>3, <2>1, SeatStays DEF RoundDiscards
  <2>3. QED
    BY <1>2, <1>5, <2>1, <2>2 DEF RiverInv, RiverTypes
<1>7. CASE ArrivesNext(id)
  <2>1. /\ arrived' = arrived \cup {id} /\ id \notin arrived /\ id \in Nat
        /\ \A i \in arrived : i \in Nat /\ i < id
    BY <1>7, ArrivedFacts DEF ArrivesNext
  <2>2. Empties(id) \/ AddsDiscard(id) \/ KeepsRivers(id)
    <3>1. CASE ShouldHandle(id)
      BY <3>1, HandlingDiscards
    <3>2. CASE ~ShouldHandle(id)
      BY <1>1, <2>1, <3>2 DEF stateVars, matchVars, tableVars, KeepsRivers, StartKinds
    <3>3. QED
      BY <3>1, <3>2
  <2>3. CASE Empties(id)
    <3>1. \A seat \in Seats : RoundDiscards(seat)' = {}
      BY <1>3, <2>1, <2>3 DEF Empties, RoundDiscards
    <3>2. \A seat \in Seats : discards'[seat] = <<>>
      BY <2>3 DEF Empties, NoTiles
    <3>3. Holds
      BY <3>1, <3>2, RiverIsEmpty
    <3>4. RiverTypes'
      BY <2>3 DEF Empties, NoTiles, RiverInv, RiverTypes
    <3>5. QED
      BY <1>5, <3>3, <3>4 DEF RiverInv
  <2>4. CASE KeepsRivers(id)
    <3>1. published[id].kind = "sutehai" => SeatOf(published[id].player) \notin Seats
      <4>1. 0 \notin Seats
        BY DEF Seats
      <4>2. QED
        BY <2>4, <4>1 DEF KeepsRivers, AtTable
    <3>2. ASSUME NEW seat \in Seats PROVE RoundDiscards(seat)' = RoundDiscards(seat)
      <4>1. \A k \in arrived' : SeatOf(published[k].player)' = SeatOf(published[k].player)
        BY <1>3, <2>4, SeatStays DEF KeepsRivers
      <4>2. QED
        BY <1>3, <2>1, <2>4, <3>1, <4>1 DEF KeepsRivers, RoundDiscards
    <3>3. QED
      BY <1>2, <1>5, <2>4, <3>2 DEF KeepsRivers, RiverInv, RiverTypes
  <2>5. CASE AddsDiscard(id)
    <3> DEFINE mine == SeatOf(published[id].player)
               tile == published[id].tile
    <3>1. mine \in Seats
      BY <2>5, SeatIsFound DEF AddsDiscard, RiverInv, RiverTypes
    <3>2. tile \in Pais
      BY <2>5, NotesAreKnown DEF AddsDiscard, LoopTypes
    <3>3. /\ discards' = [discards EXCEPT ![mine] = Append(@, tile)]
          /\ players' = players
          /\ published[id].kind = "sutehai"
      BY <2>5 DEF AddsDiscard
    <3>4. ASSUME NEW seat \in Seats
          PROVE  RoundDiscards(seat)' =
                   RoundDiscards(seat) \cup (IF seat = mine THEN {id} ELSE {})
      <4>1. \A player : SeatOf(player)' = SeatOf(player)
        BY <3>3, SeatStays
      <4>2. SeatOf(published[id].player)' = mine
        BY <1>3, <4>1
      <4>3. \A k \in arrived : SeatOf(published[k].player)' = SeatOf(published[k].player)
        BY <1>3, <4>1
      <4> HIDE DEF mine
      <4>4. \A k \in arrived' : published[k].kind \in StartKinds => k \in arrived
        BY <2>1, <3>3 DEF StartKinds
      <4>5. QED
        BY <1>3, <2>1, <3>3, <4>2, <4>3, <4>4 DEF RoundDiscards
    <3>5. \A k \in RoundDiscards(mine) : k \in Nat /\ k < id
      BY <2>1 DEF RoundDiscards
    <3>6. IsFiniteSet(RoundDiscards(mine))
      BY RoundDiscardsAreFinite
    <3>7. discards[mine] \in Seq(Pais) /\ discards'[mine] = Append(discards[mine], tile)
      <4> HIDE DEF mine, tile
      <4>1. QED
        BY <3>1, <3>3 DEF RiverInv, RiverTypes
    <3>8. RiverIs(discards'[mine], RoundDiscards(mine) \cup {id})
      <4>1. RoundDiscards(mine) \in SUBSET Nat /\ RiverIs(discards[mine], RoundDiscards(mine))
        BY <1>2, <3>1, <3>5
      <4> HIDE DEF mine
      <4>2. QED
        BY <2>1, <3>2, <3>5, <3>6, <3>7, <4>1, RiverGrows
    <3> HIDE DEF mine, tile
    <3>9. Holds
      <4>1. ASSUME NEW seat \in Seats PROVE RiverIs(discards'[seat], RoundDiscards(seat)')
        <5>1. CASE seat = mine
          BY <3>4, <3>8, <5>1
        <5>2. CASE seat # mine
          <6>1. discards'[seat] = discards[seat]
            BY <3>1, <3>3, <5>2 DEF RiverInv, RiverTypes
          <6>2. RoundDiscards(seat)' = RoundDiscards(seat)
            BY <3>4, <5>2
          <6>3. QED
            BY <1>2, <6>1, <6>2
        <5>3. QED
          BY <5>1, <5>2
      <4>2. QED
        BY <4>1
    <3>10. RiverTypes'
      <4>1. discards' \in [Seats -> Seq(Pais)]
        BY <3>1, <3>2, <3>3 DEF RiverInv, RiverTypes
      <4>2. QED
        BY <3>3, <4>1 DEF RiverInv, RiverTypes
    <3>11. QED
      BY <1>5, <3>9, <3>10 DEF RiverInv
  <2>6. QED
    BY <2>2, <2>3, <2>4, <2>5
<1>8. QED
  BY <1>6, <1>7

LEMMA OthersKeepRivers ==
  ASSUME LoopInv, RiverInv, ServerStep \/ EndDelay \/ Shutdown \/ UNCHANGED clientVars
  PROVE  RiverInv'
<1>1. arrived' = arrived /\ discards' = discards /\ players' = players
  <2>1. CASE ServerStep
    <3>1. PICK note \in Notes : Serve(note)
      BY <2>1, ServerPublishes DEF LoopInv, LoopTypes
    <3>2. QED
      BY <3>1 DEF Serve, stateVars, matchVars, tableVars
  <2>2. CASE EndDelay \/ Shutdown \/ UNCHANGED clientVars
    BY <2>2 DEF EndDelay, Shutdown, clientVars, stateVars, matchVars, tableVars
  <2>3. QED
    BY <2>1, <2>2
<1>2. \A id \in arrived : published'[id] = published[id]
  <2>1. CASE ServerStep
    <3>1. PICK note \in Notes : Serve(note)
      BY <2>1, ServerPublishes DEF LoopInv, LoopTypes
    <3>2. published' = Append(published, note)
      BY <3>1 DEF Serve
    <3>3. QED
      BY <3>2, AfterServing DEF LoopInv, LoopTypes, ArrivedInOrder
  <2>2. CASE EndDelay \/ Shutdown \/ UNCHANGED clientVars
    BY <2>2 DEF EndDelay, Shutdown, clientVars
  <2>3. QED
    BY <2>1, <2>2
<1>3. ASSUME NEW seat \in Seats PROVE RoundDiscards(seat)' = RoundDiscards(seat)
  <2>1. \A player : SeatOf(player)' = SeatOf(player)
    BY <1>1, SeatStays
  <2>2. \A id \in arrived : SeatOf(published[id].player)' = SeatOf(published[id].player)
    BY <1>2, <2>1
  <2>3. QED
    BY <1>1, <1>2, <2>2 DEF RoundDiscards
<1>4. \A seat \in Seats : \A id \in RoundDiscards(seat) : id \in arrived
  BY DEF RoundDiscards
<1>5. RiversHoldTheRound'
  BY <1>1, <1>2, <1>3, <1>4 DEF RiverInv, RiversHoldTheRound
<1>6. QED
  BY <1>1, <1>5 DEF RiverInv, RiverTypes

\* The rivers are the discards of the round that arrived.
THEOREM RiversCorrect ==
  ASSUME Ordered PROVE ClientSpec => []RiversHoldTheRound
<1>1. ClientInit => RiverInv
  <2> SUFFICES ASSUME ClientInit PROVE RiverInv
    OBVIOUS
  <2>1. arrived = {} /\ players = <<>> /\ discards = NoTiles
    BY DEF ClientInit, Init
  <2>2. \A seat \in Seats : RoundDiscards(seat) = {} /\ discards[seat] = <<>>
    BY <2>1 DEF RoundDiscards, NoTiles
  <2>3. RiversHoldTheRound
    BY <2>2, RiverIsEmpty, RiversAre
  <2>4. QED
    BY <2>1, <2>3 DEF RiverInv, RiverTypes, NoTiles
<1>2. ASSUME LoopInv, RiverInv, [ClientNext]_clientVars PROVE RiverInv'
  <2>1. CASE \E id \in DOMAIN published : Receive(id)
    BY <1>2, <2>1, ReceivingKeepsRivers DEF LoopInv
  <2>2. QED
    BY <1>2, <2>1, OthersKeepRivers DEF ClientNext
<1>3. RiverInv => RiversHoldTheRound
  BY DEF RiverInv
<1>4. QED
  BY <1>1, <1>2, <1>3, LoopCorrect, PTL DEF ClientSpec

------------------------------------------------------------------------------
(* The table: how often a tile occurs. *)

\* Numbers of occurrences.
LEMMA CopiesAreFinite ==
  ASSUME NEW S, NEW tiles \in Seq(S), NEW tile
  PROVE  /\ IsFiniteSet({i \in DOMAIN tiles : tiles[i] = tile})
         /\ Copies(tiles, tile) \in Nat
<1>1. IsFiniteSet(1..Len(tiles)) /\ DOMAIN tiles = 1..Len(tiles)
  BY FS_Interval
<1>2. {i \in DOMAIN tiles : tiles[i] = tile} \in SUBSET (1..Len(tiles))
  BY <1>1
<1>3. IsFiniteSet({i \in DOMAIN tiles : tiles[i] = tile})
  BY <1>1, <1>2, FS_Subset
<1>4. QED
  BY <1>3, FS_CardinalityType DEF Copies

\* Two finite sets without a common member.
LEMMA DisjointUnion ==
  ASSUME NEW A, NEW B, IsFiniteSet(A), IsFiniteSet(B), A \cap B = {}
  PROVE  /\ IsFiniteSet(A \cup B)
         /\ Cardinality(A \cup B) = Cardinality(A) + Cardinality(B)
         /\ Cardinality(A) \in Nat /\ Cardinality(B) \in Nat
<1>1. Cardinality(A \cap B) = 0
  BY FS_EmptySet
<1>2. /\ IsFiniteSet(A \cup B)
      /\ Cardinality(A \cup B) = Cardinality(A) + Cardinality(B) - Cardinality(A \cap B)
  BY FS_Union
<1>3. Cardinality(A) \in Nat /\ Cardinality(B) \in Nat
  BY FS_CardinalityType
<1>4. QED
  BY <1>1, <1>2, <1>3

\* A set whose members are named one by one by another.
LEMMA SameCount ==
  ASSUME NEW A, NEW B, NEW f \in [A -> B], IsFiniteSet(A),
         \A x, y \in A : f[x] = f[y] => x = y, \A z \in B : \E x \in A : f[x] = z
  PROVE  IsFiniteSet(B) /\ Cardinality(B) = Cardinality(A)
<1>1. f \in Bijection(A, B)
  BY DEF Bijection, Injection, IsInjective, Surjection
<1>2. ExistsBijection(A, B)
  BY <1>1 DEF ExistsBijection
<1>3. QED
  BY <1>2, FS_Bijection

\* A list behind another.
LEMMA CopiesOfConcatenation ==
  ASSUME NEW S, NEW a \in Seq(S), NEW b \in Seq(S), NEW tile
  PROVE  Copies(a \o b, tile) = Copies(a, tile) + Copies(b, tile)
<1> DEFINE inA == {i \in DOMAIN a : a[i] = tile}
           inB == {i \in DOMAIN b : b[i] = tile}
           shifted == {i \in DOMAIN (a \o b) : i > Len(a) /\ (a \o b)[i] = tile}
           f == [i \in inB |-> i + Len(a)]
<1>1. /\ Len(a) \in Nat /\ Len(b) \in Nat /\ DOMAIN a = 1..Len(a) /\ DOMAIN b = 1..Len(b)
      /\ DOMAIN (a \o b) = 1..(Len(a) + Len(b))
      /\ \A i \in 1..Len(a) : (a \o b)[i] = a[i]
      /\ \A i \in 1..Len(b) : (a \o b)[i + Len(a)] = b[i]
  OBVIOUS
<1>2. IsFiniteSet(inA) /\ IsFiniteSet(inB)
  BY CopiesAreFinite
<1>3. f \in [inB -> shifted] /\ \A x, y \in inB : f[x] = f[y] => x = y
  BY <1>1
<1>4. ASSUME NEW k \in shifted PROVE \E i \in inB : f[i] = k
  <2>1. k - Len(a) \in 1..Len(b) /\ (k - Len(a)) + Len(a) = k
    BY <1>1
  <2>2. k - Len(a) \in inB
    BY <1>1, <2>1
  <2>3. QED
    BY <2>1, <2>2
<1>5. IsFiniteSet(shifted) /\ Cardinality(shifted) = Cardinality(inB)
  <2> HIDE DEF f, inB, shifted
  <2>1. QED
    BY <1>2, <1>3, <1>4, SameCount
<1>6. inA \cap shifted = {} /\ {i \in DOMAIN (a \o b) : (a \o b)[i] = tile} = inA \cup shifted
  BY <1>1
<1>7. Cardinality(inA \cup shifted) = Cardinality(inA) + Cardinality(shifted)
  <2> HIDE DEF inA, shifted
  <2>1. QED
    BY <1>2, <1>5, <1>6, DisjointUnion
<1>8. QED
  BY <1>5, <1>6, <1>7 DEF Copies

\* A list without the first of some tile.
LEMMA CopiesWithoutFirst ==
  ASSUME NEW S, NEW tiles \in Seq(S), NEW gone \in ToSet(tiles), NEW tile
  PROVE  /\ RemoveFirst(tiles, gone) \in Seq(S)
         /\ Copies(RemoveFirst(tiles, gone), tile) + (IF gone = tile THEN 1 ELSE 0) =
            Copies(tiles, tile)
<1> DEFINE I == {i \in 1..Len(tiles) : tiles[i] = gone}
           k == Min(I)
           front == SubSeq(tiles, 1, k - 1)
           back == SubSeq(tiles, k + 1, Len(tiles))
<1>1. Len(tiles) \in Nat /\ DOMAIN tiles = 1..Len(tiles)
  OBVIOUS
<1>2. I # {} /\ I \subseteq Nat /\ I \subseteq 1..Len(tiles)
  BY <1>1 DEF ToSet
<1>3. k \in I
  <2> HIDE DEF I
  <2>1. QED
    BY <1>2, MinIsFirst
<1>4. SelectInSeq(tiles, LAMBDA v : v = gone) = k
  BY <1>2 DEF SelectInSeq
<1>5. RemoveFirst(tiles, gone) = front \o back
  <2>1. \E i \in 1..Len(tiles) : tiles[i] = gone
    BY <1>2
  <2>2. QED
    BY <1>4, <2>1 DEF RemoveFirst, RemoveAt
<1> HIDE DEF k
<1>6. k \in 1..Len(tiles) /\ tiles[k] = gone
  BY <1>3
<1>7. front \in Seq(S) /\ back \in Seq(S) /\ <<gone>> \in Seq(S)
  BY <1>1, <1>6
<1>8. tiles = front \o (<<gone>> \o back)
  <2>1. SubSeq(tiles, 1, Len(tiles)) = front \o SubSeq(tiles, k, Len(tiles))
    <3>1. 1 \in 1..Len(tiles) + 1 /\ k - 1 \in (1 - 1)..Len(tiles) /\ Len(tiles) \in (k - 1)..Len(tiles)
      BY <1>1, <1>6
    <3>2. SubSeq(tiles, 1, Len(tiles)) =
          SubSeq(tiles, 1, k - 1) \o SubSeq(tiles, (k - 1) + 1, Len(tiles))
      BY <3>1, ConcatAdjacentSubSeq
    <3>3. (k - 1) + 1 = k
      BY <1>6
    <3>4. QED
      BY <3>2, <3>3
  <2>2. SubSeq(tiles, k, Len(tiles)) = <<tiles[k]>> \o back
    <3>1. Len(tiles) \in k..Len(tiles)
      BY <1>1, <1>6
    <3>2. QED
      BY <1>6, <3>1, SubSeqRecursiveFirst
  <2>3. SubSeq(tiles, 1, Len(tiles)) = tiles
    BY SubSeqFull
  <2>4. QED
    BY <1>6, <2>1, <2>2, <2>3
<1> HIDE DEF front, back
<1>9. Copies(<<gone>>, tile) = IF gone = tile THEN 1 ELSE 0
  <2>1. {i \in DOMAIN <<gone>> : <<gone>>[i] = tile} = IF gone = tile THEN {1} ELSE {}
    OBVIOUS
  <2>2. QED
    BY <2>1, FS_Singleton, FS_EmptySet DEF Copies
<1>10. <<gone>> \o back \in Seq(S)
  BY <1>7
<1>11. Copies(tiles, tile) = Copies(front, tile) + (Copies(<<gone>>, tile) + Copies(back, tile))
  <2>1. Copies(<<gone>> \o back, tile) = Copies(<<gone>>, tile) + Copies(back, tile)
    BY <1>7, CopiesOfConcatenation
  <2>2. Copies(front \o (<<gone>> \o back), tile) =
        Copies(front, tile) + Copies(<<gone>> \o back, tile)
    BY <1>7, <1>10, CopiesOfConcatenation
  <2>3. QED
    BY <1>8, <2>1, <2>2
<1>12. Copies(front \o back, tile) = Copies(front, tile) + Copies(back, tile)
  BY <1>7, CopiesOfConcatenation
<1>13. Copies(front, tile) \in Nat /\ Copies(back, tile) \in Nat
  BY <1>7, CopiesAreFinite
<1>14. front \o back \in Seq(S)
  BY <1>7
<1>15. QED
  BY <1>5, <1>9, <1>11, <1>12, <1>13, <1>14

------------------------------------------------------------------------------
(* The table, whatever order its notifications come in. *)

Melds ==
  [kind : {"Pon", "Chi", "Kakan", "Ankan", "Daiminkan"}, tiles : Seq(Pais),
   called_tile : Pais \cup {None}]

TableTypes ==
  /\ players \in {<<>>} \cup Seatings
  /\ discards \in [Seats -> Seq(Pais)]
  /\ claimable_discard \in Pais \cup {None}
  /\ melds \in [Seats -> Seq(Melds)]
  /\ newly_visible_meld_tiles \in [Seats -> Seq(Pais)]

\* The places of the calls of a tile, of the tile in the rivers, and in the melds of a
\* seat.
CalledIn(lists, tile) == {at \in Places(lists) : lists[at[1]][at[2]].called_tile = tile}
DiscardedIn(rivers, tile) == {at \in Places(rivers) : rivers[at[1]][at[2]] = tile}
ShownIn(list, tile) ==
  LET tiles == [i \in DOMAIN list |-> list[i].tiles]
  IN  {at \in Places(tiles) : tiles[at[1]][at[2]] = tile}

\* A discard that can still be called is one more than were called.
CallsAreCovered ==
  \A tile \in Pais :
    /\ IsFiniteSet(CalledIn(melds, tile)) /\ IsFiniteSet(DiscardedIn(discards, tile))
    /\ Cardinality(CalledIn(melds, tile)) + (IF claimable_discard = tile THEN 1 ELSE 0)
         <= Cardinality(DiscardedIn(discards, tile))

\* Of each tile a seat's melds show as many as are newly visible or were called.
CallsIn(list, tile) == Cardinality({i \in DOMAIN list : list[i].called_tile = tile})
InStep(visible, list, tile) ==
  /\ IsFiniteSet(ShownIn(list, tile))
  /\ Copies(visible, tile) + CallsIn(list, tile) = Cardinality(ShownIn(list, tile))
TilesAreCounted ==
  \A seat \in Seats, tile \in Pais :
    InStep(newly_visible_meld_tiles[seat], melds[seat], tile)

TableInv == TableTypes /\ CallsAreCovered /\ TilesAreCounted

\* Where the tiles are.
LEMMA CallPlaces ==
  ASSUME NEW lists \in [Seats -> Seq(Melds)], NEW tile, NEW at
  PROVE  at \in CalledIn(lists, tile) <=>
           \E seat \in Seats : \E i \in DOMAIN lists[seat] :
             at = <<seat, i>> /\ lists[seat][i].called_tile = tile
  BY DEF CalledIn, Places

LEMMA RiverPlaces ==
  ASSUME NEW rivers \in [Seats -> Seq(Pais)], NEW tile, NEW at
  PROVE  at \in DiscardedIn(rivers, tile) <=>
           \E seat \in Seats : \E i \in DOMAIN rivers[seat] :
             at = <<seat, i>> /\ rivers[seat][i] = tile
  BY DEF DiscardedIn, Places

LEMMA ShownPlaces ==
  ASSUME NEW list, NEW tile, NEW at
  PROVE  at \in ShownIn(list, tile) <=>
           \E i \in DOMAIN list : \E j \in DOMAIN list[i].tiles :
             at = <<i, j>> /\ list[i].tiles[j] = tile
<1> DEFINE lists == [i \in DOMAIN list |-> list[i].tiles]
<1>1. ShownIn(list, tile) = {p \in Places(lists) : lists[p[1]][p[2]] = tile}
  BY DEF ShownIn
<1>2. DOMAIN lists = DOMAIN list /\ \A i \in DOMAIN lists : lists[i] = list[i].tiles
  OBVIOUS
<1> HIDE DEF lists
<1>3. at \in Places(lists) <=> \E i \in DOMAIN lists : \E j \in DOMAIN lists[i] : at = <<i, j>>
  BY DEF Places
<1>4. QED
  BY <1>1, <1>2, <1>3

\* What a notification does to the table: clear it, end a claim, add a discard, add a
\* meld, or extend a pon.
Clears ==
  /\ discards' = NoTiles /\ melds' = NoTiles /\ newly_visible_meld_tiles' = NoTiles
  /\ claimable_discard' = None /\ (players' = players \/ players' \in Seatings)
EndsClaim ==
  /\ discards' = discards /\ melds' = melds /\ players' = players
  /\ newly_visible_meld_tiles' = newly_visible_meld_tiles
  /\ claimable_discard' \in {claimable_discard, None}
Discards(seat, tile) ==
  /\ discards' = [discards EXCEPT ![seat] = Append(@, tile)]
  /\ claimable_discard' = tile
  /\ melds' = melds /\ players' = players
  /\ newly_visible_meld_tiles' = newly_visible_meld_tiles
Opens(seat, tiles) ==
  /\ claimable_discard' = None /\ discards' = discards /\ players' = players
  /\ newly_visible_meld_tiles' =
       [newly_visible_meld_tiles EXCEPT ![seat] = @ \o NewlyVisible(tiles)]
AddsMeld(seat, meld) ==
  /\ Opens(seat, meld.tiles)
  /\ melds' = [melds EXCEPT ![seat] = Append(@, meld)]
  /\ \/ ~Called(meld.tiles) /\ meld.called_tile = None
     \/ Called(meld.tiles) /\ meld.called_tile = claimable_discard /\ Len(meld.tiles) > 1
ExtendsPon(seat, k, tile) ==
  /\ Opens(seat, <<tile>>)
  /\ melds' = [melds EXCEPT ![seat] = [melds[seat] EXCEPT ![k] = AsKakan(melds[seat][k], tile)]]

LEMMA OpenAddsOrExtends ==
  ASSUME TableTypes, NEW player, NEW tiles \in OpenTiles, ApplyOpen(player, tiles)
  PROVE  \E seat \in Seats :
           \/ \E meld \in Melds : AddsMeld(seat, meld)
           \/ \E k \in DOMAIN melds[seat], tile \in Pais : ExtendsPon(seat, k, tile)
<1> DEFINE seat == SeatOf(player)
<1>1. seat \in Seats
  BY SeatIsFound DEF ApplyOpen, TableTypes
<1>2. tiles \in Seq(Pais) /\ melds[seat] \in Seq(Melds)
  BY <1>1, TableAssumption DEF TableTypes
<1>3. /\ IsKakan(seat, tiles) \/ IsCall(tiles) \/ IsKan(tiles)
      /\ melds' = [melds EXCEPT ![seat] = MeldsAfterOpen(seat, tiles)]
      /\ Opens(seat, tiles)
  BY DEF ApplyOpen, Opens, ClaimableAfterOpen, matchVars
<1> HIDE DEF seat
<1>4. CASE IsKakan(seat, tiles)
  <2> DEFINE tile == tiles[1]
             k == PonIndexOf(seat, tile)
             I == {i \in 1..Len(melds[seat]) :
                     melds[seat][i].kind = "Pon" /\ Head(melds[seat][i].tiles) = tile}
  <2>1. Len(tiles) = 1 /\ k # 0
    BY <1>4 DEF IsKakan
  <2>2. tile \in Pais /\ tiles = <<tile>>
    <3>1. <<tile>> \in Seq(Pais) /\ tile \in Pais
      <4>1. tiles[1] \in Pais
        BY <1>2, <2>1, ElementOfSeq
      <4>2. QED
        BY <4>1
    <3> HIDE DEF tile
    <3>2. Len(<<tile>>) = Len(tiles) /\ \A i \in 1..Len(tiles) : tiles[i] = <<tile>>[i]
      BY <2>1 DEF tile
    <3>3. QED
      BY <1>2, <3>1, <3>2, SeqEqual
  <2>3. k \in DOMAIN melds[seat]
    <3>1. k = IF I # {} THEN Min(I) ELSE 0
      BY DEF PonIndexOf, SelectInSeq
    <3>2. I # {} /\ I \subseteq Nat /\ I \subseteq DOMAIN melds[seat]
      BY <1>2, <2>1, <3>1
    <3>3. Min(I) \in I
      <4> HIDE DEF I
      <4>1. QED
        BY <3>2, MinIsFirst
    <3>4. QED
      BY <3>1, <3>2, <3>3
  <2>4. MeldsAfterOpen(seat, tiles) =
          [melds[seat] EXCEPT ![k] = AsKakan(melds[seat][k], tile)]
    BY <1>4 DEF MeldsAfterOpen
  <2> HIDE DEF tile, k, I
  <2>5. melds' = [melds EXCEPT ![seat] =
                    [melds[seat] EXCEPT ![k] = AsKakan(melds[seat][k], tile)]]
    BY <1>3, <2>4
  <2>6. ExtendsPon(seat, k, tile)
    BY <1>3, <2>2, <2>5 DEF ExtendsPon
  <2>7. QED
    BY <1>1, <2>2, <2>3, <2>6
<1>5. CASE ~IsKakan(seat, tiles)
  <2>1. Len(tiles) \in {3, 4} /\ (Len(tiles) = 3 => Called(tiles))
    BY <1>3, <1>5 DEF IsCall, IsKan
  <2>2. PICK meld : /\ MeldsAfterOpen(seat, tiles) = Append(melds[seat], meld)
                    /\ \/ ~Called(tiles) /\ meld = Meld("Ankan", tiles, None)
                       \/ Called(tiles) /\ meld = Meld("Daiminkan", tiles, claimable_discard)
                       \/ Called(tiles) /\ meld = Meld("Pon", tiles, claimable_discard)
                       \/ Called(tiles) /\ meld = Meld("Chi", tiles, claimable_discard)
    <3>1. CASE ~Called(tiles)
      <4>1. MeldsAfterOpen(seat, tiles) = Append(melds[seat], Meld("Ankan", tiles, None))
        BY <1>5, <3>1 DEF MeldsAfterOpen
      <4>2. QED
        BY <3>1, <4>1
    <3>2. CASE Called(tiles) /\ Len(tiles) = 4
      <4>1. MeldsAfterOpen(seat, tiles) =
              Append(melds[seat], Meld("Daiminkan", tiles, claimable_discard))
        BY <1>5, <3>2 DEF MeldsAfterOpen
      <4>2. QED
        BY <3>2, <4>1
    <3>3. CASE Called(tiles) /\ Len(tiles) = 3 /\ SameTile(tiles)
      <4>1. MeldsAfterOpen(seat, tiles) =
              Append(melds[seat], Meld("Pon", tiles, claimable_discard))
        BY <1>5, <3>3 DEF MeldsAfterOpen
      <4>2. QED
        BY <3>3, <4>1
    <3>4. CASE Called(tiles) /\ Len(tiles) = 3 /\ ~SameTile(tiles)
      <4>1. MeldsAfterOpen(seat, tiles) =
              Append(melds[seat], Meld("Chi", tiles, claimable_discard))
        BY <1>5, <3>4 DEF MeldsAfterOpen
      <4>2. QED
        BY <3>4, <4>1
    <3>5. QED
      BY <2>1, <3>1, <3>2, <3>3, <3>4
  <2>3. /\ meld \in Melds /\ meld.tiles = tiles
        /\ \/ ~Called(tiles) /\ meld.called_tile = None
           \/ Called(tiles) /\ meld.called_tile = claimable_discard
    BY <1>2, <2>2 DEF Meld, Melds, TableTypes
  <2>4. melds' = [melds EXCEPT ![seat] = Append(@, meld)]
    BY <1>3, <2>2
  <2>5. AddsMeld(seat, meld)
    <3>1. Opens(seat, meld.tiles) /\ Len(meld.tiles) > 1
      BY <1>3, <2>1, <2>3
    <3>2. \/ ~Called(meld.tiles) /\ meld.called_tile = None
          \/ Called(meld.tiles) /\ meld.called_tile = claimable_discard
      BY <2>3
    <3>3. QED
      BY <2>4, <3>1, <3>2 DEF AddsMeld
  <2>6. QED
    BY <1>1, <2>3, <2>5
<1>6. QED
  BY <1>4, <1>5

LEMMA TableEffects ==
  ASSUME TableTypes, [Next]_stateVars
  PROVE  \/ Clears \/ EndsClaim
         \/ \E seat \in Seats, tile \in Pais : Discards(seat, tile)
         \/ \E seat \in Seats : \E meld \in Melds : AddsMeld(seat, meld)
         \/ \E seat \in Seats : \E k \in DOMAIN melds[seat], tile \in Pais : ExtendsPon(seat, k, tile)
<1>1. CASE \E seating \in Seatings : ApplyGameStart(seating)
  BY <1>1 DEF ApplyGameStart, ResetTableState, Clears
<1>2. CASE \E announced \in Rounds : ApplyKyokuStart(announced)
  BY <1>2 DEF ApplyKyokuStart, ResetTableState, Clears
<1>3. CASE ApplyKyokuEnd \/ ApplyGameEnd \/ UNCHANGED stateVars
  BY <1>3 DEF ApplyKyokuEnd, ApplyGameEnd, stateVars, matchVars, tableVars, meldVars, EndsClaim
<1>4. CASE \E player \in Everyone :
             \/ \E dealt \in Hands : ApplyHaipai(player, dealt)
             \/ \E tile \in Draws : ApplyTsumo(player, tile)
             \/ \E action \in {"Richi", "Ron"} : ApplySay(player, action)
  BY <1>4 DEF ApplyHaipai, ApplyTsumo, ApplySay, matchVars, meldVars, EndsClaim
<1>5. CASE \E indicator \in Indicators : ApplyDora(indicator)
  BY <1>5 DEF ApplyDora, matchVars, meldVars, EndsClaim
<1>6. CASE \E player \in Everyone : \E tile \in Pais : ApplySutehai(player, tile)
  <2>1. PICK player \in Everyone, tile \in Pais : ApplySutehai(player, tile)
    BY <1>6
  <2>2. SeatOf(player) \in Seats
    BY <2>1, SeatIsFound DEF ApplySutehai, TableTypes
  <2>3. Discards(SeatOf(player), tile)
    BY <2>1 DEF ApplySutehai, Discards, matchVars, meldVars
  <2>4. QED
    BY <2>2, <2>3
<1>7. CASE \E player \in Everyone : \E tiles \in OpenTiles : ApplyOpen(player, tiles)
  BY <1>7, OpenAddsOrExtends
<1>8. QED
  BY <1>1, <1>2, <1>3, <1>4, <1>5, <1>6, <1>7 DEF Next

\* A list of melds with one more, or with an extended pon.
LEMMA AppendedMeld ==
  ASSUME NEW list \in Seq(Melds), NEW meld \in Melds
  PROVE  /\ Append(list, meld) \in Seq(Melds)
         /\ Len(list) \in Nat /\ DOMAIN list = 1..Len(list)
         /\ DOMAIN Append(list, meld) = 1..(Len(list) + 1)
         /\ \A i \in 1..Len(list) : Append(list, meld)[i] = list[i]
         /\ Append(list, meld)[Len(list) + 1] = meld
  OBVIOUS

LEMMA ExtendedPon ==
  ASSUME NEW list \in Seq(Melds), NEW k \in DOMAIN list, NEW tile \in Pais
  PROVE  LET longer == [list EXCEPT ![k] = AsKakan(list[k], tile)]
         IN  /\ longer \in Seq(Melds) /\ DOMAIN longer = DOMAIN list
             /\ \A i \in DOMAIN list : longer[i].called_tile = list[i].called_tile
             /\ \A i \in DOMAIN list : i # k => longer[i] = list[i]
             /\ longer[k].tiles = Append(list[k].tiles, tile)
             /\ list[k].tiles \in Seq(Pais)
<1>1. list[k] \in Melds /\ DOMAIN list = 1..Len(list) /\ Len(list) \in Nat
  OBVIOUS
<1>2. /\ AsKakan(list[k], tile) \in Melds
      /\ AsKakan(list[k], tile).called_tile = list[k].called_tile
      /\ AsKakan(list[k], tile).tiles = Append(list[k].tiles, tile)
      /\ list[k].tiles \in Seq(Pais)
  <2>1. list[k].tiles \in Seq(Pais) /\ list[k].called_tile \in Pais \cup {None}
    BY <1>1 DEF Melds
  <2>2. Append(list[k].tiles, tile) \in Seq(Pais)
    BY <2>1
  <2>3. PICK tiles \in Seq(Pais) : tiles = Append(list[k].tiles, tile)
    BY <2>2
  <2>4. AsKakan(list[k], tile) = [list[k] EXCEPT !.kind = "Kakan", !.tiles = tiles]
    BY <2>3 DEF AsKakan
  <2>5. /\ [list[k] EXCEPT !.kind = "Kakan", !.tiles = tiles] \in Melds
        /\ [list[k] EXCEPT !.kind = "Kakan", !.tiles = tiles].called_tile = list[k].called_tile
        /\ [list[k] EXCEPT !.kind = "Kakan", !.tiles = tiles].tiles = tiles
    BY <1>1 DEF Melds
  <2>6. QED
    BY <2>1, <2>3, <2>4, <2>5
<1>3. [list EXCEPT ![k] = AsKakan(list[k], tile)] \in Seq(Melds)
  BY <1>1, <1>2, ExceptSeq
<1>4. QED
  BY <1>1, <1>2, <1>3

\* A set of places with one more, if the new entry is the tile.
OneMoreIf(new, tile, before, after) ==
  \E place : /\ after = before \cup (IF new = tile THEN {place} ELSE {})
             /\ place \notin before

\* The calls of a tile with a meld more, and with a pon extended.
LEMMA CalledAfterMeld ==
  ASSUME NEW lists \in [Seats -> Seq(Melds)], NEW seat \in Seats, NEW meld \in Melds, NEW tile
  PROVE  OneMoreIf(meld.called_tile, tile, CalledIn(lists, tile),
                   CalledIn([lists EXCEPT ![seat] = Append(lists[seat], meld)], tile))
<1> DEFINE place == <<seat, Len(lists[seat]) + 1>>
           longer == [lists EXCEPT ![seat] = Append(lists[seat], meld)]
           n == Len(lists[seat])
<1>1. /\ longer \in [Seats -> Seq(Melds)]
      /\ n \in Nat /\ DOMAIN lists[seat] = 1..n
      /\ DOMAIN longer[seat] = 1..(n + 1)
      /\ \A i \in 1..n : longer[seat][i] = lists[seat][i]
      /\ longer[seat][n + 1] = meld
      /\ \A other \in Seats : other # seat => longer[other] = lists[other]
  <2>1. lists[seat] \in Seq(Melds)
    OBVIOUS
  <2>2. longer[seat] = Append(lists[seat], meld)
    OBVIOUS
  <2>3. longer \in [Seats -> Seq(Melds)]
    BY <2>1, AppendedMeld
  <2>4. \A other \in Seats : other # seat => longer[other] = lists[other]
    OBVIOUS
  <2> HIDE DEF longer
  <2>5. QED
    BY <2>1, <2>2, <2>3, <2>4, AppendedMeld
<1> HIDE DEF longer, n
<1>2. place = <<seat, n + 1>>
  BY DEF n
<1>3. ASSUME NEW at \in CalledIn(longer, tile)
      PROVE  at \in CalledIn(lists, tile) \/ (meld.called_tile = tile /\ at = place)
  <2>1. PICK s \in Seats : \E i \in DOMAIN longer[s] :
               at = <<s, i>> /\ longer[s][i].called_tile = tile
    BY <1>1, <1>3, CallPlaces
  <2>2. PICK i \in DOMAIN longer[s] : at = <<s, i>> /\ longer[s][i].called_tile = tile
    BY <2>1
  <2>3. CASE s = seat /\ i = n + 1
    BY <1>1, <1>2, <2>2, <2>3
  <2>4. CASE ~(s = seat /\ i = n + 1)
    <3>1. i \in DOMAIN lists[s] /\ longer[s][i] = lists[s][i]
      BY <1>1, <2>2, <2>4
    <3>2. QED
      BY <2>2, <3>1, CallPlaces
  <2>5. QED
    BY <2>3, <2>4
<1>4. ASSUME NEW at \in CalledIn(lists, tile)
      PROVE  at \in CalledIn(longer, tile)
  <2>1. PICK s \in Seats : \E i \in DOMAIN lists[s] :
               at = <<s, i>> /\ lists[s][i].called_tile = tile
    BY <1>4, CallPlaces
  <2>2. PICK i \in DOMAIN lists[s] : at = <<s, i>> /\ lists[s][i].called_tile = tile
    BY <2>1
  <2>3. i \in DOMAIN longer[s] /\ longer[s][i] = lists[s][i]
    <3>1. CASE s = seat
      <4>1. i \in 1..n /\ i \in 1..(n + 1)
        BY <1>1, <2>2, <3>1
      <4>2. QED
        BY <1>1, <3>1, <4>1
    <3>2. CASE s # seat
      BY <1>1, <2>2, <3>2
    <3>3. QED
      BY <3>1, <3>2
  <2>4. QED
    BY <1>1, <2>2, <2>3, CallPlaces
<1>5. meld.called_tile = tile => place \in CalledIn(longer, tile)
  <2>1. n + 1 \in DOMAIN longer[seat]
    BY <1>1
  <2>2. QED
    BY <1>1, <1>2, <2>1, CallPlaces
<1>6. place \notin CalledIn(lists, tile)
  <2>1. SUFFICES ASSUME place \in CalledIn(lists, tile) PROVE FALSE
    OBVIOUS
  <2>2. PICK s \in Seats : \E i \in DOMAIN lists[s] : place = <<s, i>>
    BY <2>1, CallPlaces
  <2>3. PICK i \in DOMAIN lists[s] : place = <<s, i>>
    BY <2>2
  <2>4. s = seat /\ i = n + 1
    BY <1>2, <2>3
  <2>5. QED
    BY <1>1, <2>3, <2>4
<1>7. CalledIn(longer, tile) =
        CalledIn(lists, tile) \cup (IF meld.called_tile = tile THEN {place} ELSE {})
  BY <1>3, <1>4, <1>5
<1>8. OneMoreIf(meld.called_tile, tile, CalledIn(lists, tile), CalledIn(longer, tile))
  BY <1>6, <1>7 DEF OneMoreIf
<1>9. QED
  BY <1>8 DEF longer

LEMMA CalledAfterKakan ==
  ASSUME NEW lists \in [Seats -> Seq(Melds)], NEW seat \in Seats, NEW longer \in Seq(Melds),
         DOMAIN longer = DOMAIN lists[seat],
         \A i \in DOMAIN longer : longer[i].called_tile = lists[seat][i].called_tile,
         NEW tile
  PROVE  CalledIn([lists EXCEPT ![seat] = longer], tile) = CalledIn(lists, tile)
<1> DEFINE after == [lists EXCEPT ![seat] = longer]
<1>1. /\ after \in [Seats -> Seq(Melds)]
      /\ \A s \in Seats : DOMAIN after[s] = DOMAIN lists[s]
      /\ \A s \in Seats : \A i \in DOMAIN lists[s] :
           after[s][i].called_tile = lists[s][i].called_tile
  OBVIOUS
<1> HIDE DEF after
<1>2. \A at : at \in CalledIn(after, tile) <=>
        \E s \in Seats : \E i \in DOMAIN after[s] : at = <<s, i>> /\ after[s][i].called_tile = tile
  BY <1>1, CallPlaces
<1>3. \A at : at \in CalledIn(lists, tile) <=>
        \E s \in Seats : \E i \in DOMAIN lists[s] : at = <<s, i>> /\ lists[s][i].called_tile = tile
  BY CallPlaces
<1>4. \A at : at \in CalledIn(after, tile) <=> at \in CalledIn(lists, tile)
  <2>1. ASSUME NEW at, NEW s \in Seats, NEW i
        PROVE  i \in DOMAIN after[s] /\ at = <<s, i>> /\ after[s][i].called_tile = tile <=>
               i \in DOMAIN lists[s] /\ at = <<s, i>> /\ lists[s][i].called_tile = tile
    BY <1>1
  <2>2. QED
    BY <1>2, <1>3, <2>1
<1>5. QED
  BY <1>4 DEF after

\* The rivers with a discard more.
LEMMA DiscardedAfter ==
  ASSUME NEW rivers \in [Seats -> Seq(Pais)], NEW seat \in Seats, NEW new \in Pais, NEW tile
  PROVE  OneMoreIf(new, tile, DiscardedIn(rivers, tile),
                   DiscardedIn([rivers EXCEPT ![seat] = Append(rivers[seat], new)], tile))
<1> DEFINE place == <<seat, Len(rivers[seat]) + 1>>
           longer == [rivers EXCEPT ![seat] = Append(rivers[seat], new)]
           n == Len(rivers[seat])
<1>1. /\ longer \in [Seats -> Seq(Pais)]
      /\ n \in Nat /\ DOMAIN rivers[seat] = 1..n
      /\ DOMAIN longer[seat] = 1..(n + 1)
      /\ \A i \in 1..n : longer[seat][i] = rivers[seat][i]
      /\ longer[seat][n + 1] = new
      /\ \A other \in Seats : other # seat => longer[other] = rivers[other]
  <2>1. rivers[seat] \in Seq(Pais)
    OBVIOUS
  <2>2. longer[seat] = Append(rivers[seat], new)
    OBVIOUS
  <2>3. longer \in [Seats -> Seq(Pais)]
    BY <2>1
  <2>4. \A other \in Seats : other # seat => longer[other] = rivers[other]
    OBVIOUS
  <2> HIDE DEF longer
  <2>5. QED
    BY <2>1, <2>2, <2>3, <2>4
<1> HIDE DEF longer, n
<1>2. place = <<seat, n + 1>>
  BY DEF n
<1>3. ASSUME NEW at \in DiscardedIn(longer, tile)
      PROVE  at \in DiscardedIn(rivers, tile) \/ (new = tile /\ at = place)
  <2>1. PICK s \in Seats : \E i \in DOMAIN longer[s] : at = <<s, i>> /\ longer[s][i] = tile
    BY <1>1, <1>3, RiverPlaces
  <2>2. PICK i \in DOMAIN longer[s] : at = <<s, i>> /\ longer[s][i] = tile
    BY <2>1
  <2>3. CASE s = seat /\ i = n + 1
    BY <1>1, <1>2, <2>2, <2>3
  <2>4. CASE ~(s = seat /\ i = n + 1)
    <3>1. i \in DOMAIN rivers[s] /\ longer[s][i] = rivers[s][i]
      BY <1>1, <2>2, <2>4
    <3>2. QED
      BY <2>2, <3>1, RiverPlaces
  <2>5. QED
    BY <2>3, <2>4
<1>4. ASSUME NEW at \in DiscardedIn(rivers, tile)
      PROVE  at \in DiscardedIn(longer, tile)
  <2>1. PICK s \in Seats : \E i \in DOMAIN rivers[s] : at = <<s, i>> /\ rivers[s][i] = tile
    BY <1>4, RiverPlaces
  <2>2. PICK i \in DOMAIN rivers[s] : at = <<s, i>> /\ rivers[s][i] = tile
    BY <2>1
  <2>3. i \in DOMAIN longer[s] /\ longer[s][i] = rivers[s][i]
    <3>1. CASE s = seat
      <4>1. i \in 1..n /\ i \in 1..(n + 1)
        BY <1>1, <2>2, <3>1
      <4>2. QED
        BY <1>1, <3>1, <4>1
    <3>2. CASE s # seat
      BY <1>1, <2>2, <3>2
    <3>3. QED
      BY <3>1, <3>2
  <2>4. QED
    BY <1>1, <2>2, <2>3, RiverPlaces
<1>5. new = tile => place \in DiscardedIn(longer, tile)
  <2>1. n + 1 \in DOMAIN longer[seat]
    BY <1>1
  <2>2. QED
    BY <1>1, <1>2, <2>1, RiverPlaces
<1>6. place \notin DiscardedIn(rivers, tile)
  <2>1. SUFFICES ASSUME place \in DiscardedIn(rivers, tile) PROVE FALSE
    OBVIOUS
  <2>2. PICK s \in Seats : \E i \in DOMAIN rivers[s] : place = <<s, i>>
    BY <2>1, RiverPlaces
  <2>3. PICK i \in DOMAIN rivers[s] : place = <<s, i>>
    BY <2>2
  <2>4. s = seat /\ i = n + 1
    BY <1>2, <2>3
  <2>5. QED
    BY <1>1, <2>3, <2>4
<1>7. DiscardedIn(longer, tile) =
        DiscardedIn(rivers, tile) \cup (IF new = tile THEN {place} ELSE {})
  BY <1>3, <1>4, <1>5
<1>8. OneMoreIf(new, tile, DiscardedIn(rivers, tile), DiscardedIn(longer, tile))
  BY <1>6, <1>7 DEF OneMoreIf
<1>9. QED
  BY <1>8 DEF longer

\* One tile.
LEMMA CopiesOfOne ==
  ASSUME NEW one, NEW tile
  PROVE  Copies(<<one>>, tile) = IF one = tile THEN 1 ELSE 0
<1>1. {i \in DOMAIN <<one>> : <<one>>[i] = tile} = IF one = tile THEN {1} ELSE {}
  OBVIOUS
<1>2. QED
  BY <1>1, FS_Singleton, FS_EmptySet DEF Copies

\* The calls of a seat.
LEMMA CallsAfterMeld ==
  ASSUME NEW list \in Seq(Melds), NEW meld \in Melds, NEW tile
  PROVE  /\ CallsIn(list, tile) \in Nat
         /\ CallsIn(Append(list, meld), tile) =
              CallsIn(list, tile) + (IF meld.called_tile = tile THEN 1 ELSE 0)
<1> DEFINE before == {i \in DOMAIN list : list[i].called_tile = tile}
           longer == Append(list, meld)
           after == {i \in DOMAIN longer : longer[i].called_tile = tile}
           n == Len(list)
<1>1. /\ n \in Nat /\ DOMAIN list = 1..n /\ DOMAIN longer = 1..(n + 1)
      /\ \A i \in 1..n : longer[i] = list[i]
      /\ longer[n + 1] = meld
  BY AppendedMeld
<1> HIDE DEF longer, n
<1>2. IsFiniteSet(before)
  <2>1. IsFiniteSet(1..n) /\ before \in SUBSET (1..n)
    BY <1>1, FS_Interval
  <2> HIDE DEF before
  <2>2. QED
    BY <2>1, FS_Subset
<1>3. after = before \cup (IF meld.called_tile = tile THEN {n + 1} ELSE {}) /\ n + 1 \notin before
  <2>1. ASSUME NEW i
        PROVE  i \in after <=> i \in before \/ (meld.called_tile = tile /\ i = n + 1)
    <3>1. i \in 1..(n + 1) <=> i \in 1..n \/ i = n + 1
      BY <1>1
    <3>2. n + 1 \notin 1..n
      BY <1>1
    <3>3. QED
      BY <1>1, <3>1, <3>2
  <2>2. n + 1 \notin before
    BY <1>1
  <2> HIDE DEF after, before
  <2>3. QED
    BY <2>1, <2>2
<1>4. CallsIn(list, tile) = Cardinality(before) /\ CallsIn(longer, tile) = Cardinality(after)
  BY DEF CallsIn
<1> HIDE DEF before, after
<1>5. Cardinality(before) \in Nat
  BY <1>2, FS_CardinalityType
<1>6. Cardinality(before \cup {n + 1}) = Cardinality(before) + 1
  BY <1>2, <1>3, FS_AddElement
<1>7. CASE meld.called_tile = tile
  <2>1. after = before \cup {n + 1}
    BY <1>3, <1>7
  <2>2. QED
    BY <1>4, <1>5, <1>6, <1>7, <2>1 DEF longer
<1>8. CASE meld.called_tile # tile
  <2>1. after = before
    BY <1>3, <1>8
  <2>2. QED
    BY <1>4, <1>5, <1>8, <2>1 DEF longer
<1>9. QED
  BY <1>7, <1>8

\* A meld more shows its tiles.
LEMMA ShownAfterMeld ==
  ASSUME NEW list \in Seq(Melds), NEW meld \in Melds, NEW tile, IsFiniteSet(ShownIn(list, tile))
  PROVE  /\ IsFiniteSet(ShownIn(Append(list, meld), tile))
         /\ Cardinality(ShownIn(Append(list, meld), tile)) =
            Cardinality(ShownIn(list, tile)) + Copies(meld.tiles, tile)
<1> DEFINE longer == Append(list, meld)
           n == Len(list)
           here == {j \in DOMAIN meld.tiles : meld.tiles[j] = tile}
           new == {at \in {n + 1} \X DOMAIN meld.tiles : meld.tiles[at[2]] = tile}
           f == [j \in here |-> <<n + 1, j>>]
<1>1. /\ n \in Nat /\ DOMAIN list = 1..n /\ DOMAIN longer = 1..(n + 1)
      /\ \A i \in 1..n : longer[i] = list[i]
      /\ longer[n + 1] = meld
  BY AppendedMeld
<1> HIDE DEF longer, n
<1>2. IsFiniteSet(here) /\ Copies(meld.tiles, tile) = Cardinality(here)
  <2>1. meld.tiles \in Seq(Pais)
    BY DEF Melds
  <2>2. QED
    BY <2>1, CopiesAreFinite DEF Copies
<1>3. IsFiniteSet(new) /\ Cardinality(new) = Cardinality(here)
  <2>1. f \in [here -> new] /\ \A x, y \in here : f[x] = f[y] => x = y
    OBVIOUS
  <2>2. ASSUME NEW at \in new PROVE \E j \in here : f[j] = at
    <3>1. PICK j \in DOMAIN meld.tiles : at = <<n + 1, j>> /\ meld.tiles[j] = tile
      OBVIOUS
    <3>2. QED
      BY <3>1
  <2> HIDE DEF f, here, new
  <2>3. QED
    BY <1>2, <2>1, <2>2, SameCount
<1>4. ShownIn(longer, tile) = ShownIn(list, tile) \cup new
  <2>1. ASSUME NEW at \in ShownIn(longer, tile) PROVE at \in ShownIn(list, tile) \cup new
    <3>1. PICK i \in DOMAIN longer : \E j \in DOMAIN longer[i].tiles :
                 at = <<i, j>> /\ longer[i].tiles[j] = tile
      BY <2>1, ShownPlaces
    <3>2. PICK j \in DOMAIN longer[i].tiles : at = <<i, j>> /\ longer[i].tiles[j] = tile
      BY <3>1
    <3>3. CASE i = n + 1
      BY <1>1, <3>2, <3>3
    <3>4. CASE i # n + 1
      <4>1. i \in DOMAIN list /\ longer[i] = list[i]
        BY <1>1, <3>4
      <4>2. at \in ShownIn(list, tile)
        BY <3>2, <4>1, ShownPlaces
      <4>3. QED
        BY <4>2
    <3>5. QED
      BY <3>3, <3>4
  <2>2. ASSUME NEW at \in ShownIn(list, tile) PROVE at \in ShownIn(longer, tile)
    <3>1. PICK i \in DOMAIN list : \E j \in DOMAIN list[i].tiles :
                 at = <<i, j>> /\ list[i].tiles[j] = tile
      BY <2>2, ShownPlaces
    <3>2. PICK j \in DOMAIN list[i].tiles : at = <<i, j>> /\ list[i].tiles[j] = tile
      BY <3>1
    <3>3. i \in DOMAIN longer /\ longer[i] = list[i]
      BY <1>1
    <3>4. QED
      BY <3>2, <3>3, ShownPlaces
  <2>3. ASSUME NEW at \in new PROVE at \in ShownIn(longer, tile)
    <3>1. PICK j \in DOMAIN meld.tiles : at = <<n + 1, j>> /\ meld.tiles[j] = tile
      BY <2>3
    <3>2. n + 1 \in DOMAIN longer /\ longer[n + 1].tiles = meld.tiles
      BY <1>1
    <3>3. QED
      BY <3>1, <3>2, ShownPlaces
  <2> HIDE DEF new
  <2>4. QED
    BY <2>1, <2>2, <2>3
<1>5. ShownIn(list, tile) \cap new = {}
  <2>1. SUFFICES ASSUME NEW at, at \in ShownIn(list, tile), at \in new PROVE FALSE
    OBVIOUS
  <2>2. PICK i \in DOMAIN list : \E j \in DOMAIN list[i].tiles : at = <<i, j>>
    BY <2>1, ShownPlaces
  <2>3. PICK j \in DOMAIN list[i].tiles : at = <<i, j>>
    BY <2>2
  <2>4. PICK k \in DOMAIN meld.tiles : at = <<n + 1, k>>
    BY <2>1
  <2>5. i = n + 1
    BY <2>3, <2>4
  <2>6. QED
    BY <1>1, <2>5
<1> HIDE DEF new, here, f
<1>6. /\ IsFiniteSet(ShownIn(list, tile) \cup new)
      /\ Cardinality(ShownIn(list, tile) \cup new) = Cardinality(ShownIn(list, tile)) + Cardinality(new)
  BY <1>3, <1>5, DisjointUnion
<1>7. QED
  BY <1>2, <1>3, <1>4, <1>6 DEF longer

\* A pon that became a kan shows one tile more.
LEMMA ShownAfterKakan ==
  ASSUME NEW list \in Seq(Melds), NEW longer \in Seq(Melds), NEW k \in DOMAIN list, NEW new \in Pais,
         DOMAIN longer = DOMAIN list, \A i \in DOMAIN list : i # k => longer[i] = list[i],
         longer[k].tiles = Append(list[k].tiles, new), list[k].tiles \in Seq(Pais),
         NEW tile, IsFiniteSet(ShownIn(list, tile))
  PROVE  /\ IsFiniteSet(ShownIn(longer, tile))
         /\ Cardinality(ShownIn(longer, tile)) =
            Cardinality(ShownIn(list, tile)) + (IF new = tile THEN 1 ELSE 0)
<1> DEFINE n == Len(list[k].tiles)
           place == <<k, n + 1>>
<1>1. /\ n \in Nat /\ DOMAIN list[k].tiles = 1..n /\ DOMAIN longer[k].tiles = 1..(n + 1)
      /\ \A j \in 1..n : longer[k].tiles[j] = list[k].tiles[j]
      /\ longer[k].tiles[n + 1] = new
  <2>1. PICK tiles \in Seq(Pais) : tiles = list[k].tiles
    OBVIOUS
  <2>2. /\ Len(tiles) \in Nat /\ DOMAIN tiles = 1..Len(tiles)
        /\ DOMAIN Append(tiles, new) = 1..(Len(tiles) + 1)
        /\ \A j \in 1..Len(tiles) : Append(tiles, new)[j] = tiles[j]
        /\ Append(tiles, new)[Len(tiles) + 1] = new
    OBVIOUS
  <2>3. QED
    BY <2>1, <2>2
<1> HIDE DEF n
<1>2. ASSUME NEW at \in ShownIn(longer, tile)
      PROVE  at \in ShownIn(list, tile) \/ (new = tile /\ at = place)
  <2>1. PICK i \in DOMAIN longer : \E j \in DOMAIN longer[i].tiles :
               at = <<i, j>> /\ longer[i].tiles[j] = tile
    BY <1>2, ShownPlaces
  <2>2. PICK j \in DOMAIN longer[i].tiles : at = <<i, j>> /\ longer[i].tiles[j] = tile
    BY <2>1
  <2>3. CASE i = k /\ j = n + 1
    BY <1>1, <2>2, <2>3
  <2>4. CASE i # k
    BY <2>2, <2>4, ShownPlaces
  <2>5. CASE i = k /\ j # n + 1
    <3>1. j \in DOMAIN list[k].tiles /\ longer[k].tiles[j] = list[k].tiles[j]
      BY <1>1, <2>5
    <3>2. QED
      BY <2>2, <2>5, <3>1, ShownPlaces
  <2>6. QED
    BY <2>3, <2>4, <2>5
<1>3. ASSUME NEW at \in ShownIn(list, tile) PROVE at \in ShownIn(longer, tile)
  <2>1. PICK i \in DOMAIN list : \E j \in DOMAIN list[i].tiles :
               at = <<i, j>> /\ list[i].tiles[j] = tile
    BY <1>3, ShownPlaces
  <2>2. PICK j \in DOMAIN list[i].tiles : at = <<i, j>> /\ list[i].tiles[j] = tile
    BY <2>1
  <2>3. j \in DOMAIN longer[i].tiles /\ longer[i].tiles[j] = list[i].tiles[j]
    <3>1. CASE i = k
      BY <1>1, <3>1
    <3>2. CASE i # k
      BY <3>2
    <3>3. QED
      BY <3>1, <3>2
  <2>4. QED
    BY <2>2, <2>3, ShownPlaces
<1>4. new = tile => place \in ShownIn(longer, tile)
  <2>1. n + 1 \in DOMAIN longer[k].tiles
    BY <1>1
  <2>2. QED
    BY <1>1, <2>1, ShownPlaces
<1>5. place \notin ShownIn(list, tile)
  <2>1. SUFFICES ASSUME place \in ShownIn(list, tile) PROVE FALSE
    OBVIOUS
  <2>2. PICK i \in DOMAIN list : \E j \in DOMAIN list[i].tiles : place = <<i, j>>
    BY <2>1, ShownPlaces
  <2>3. PICK j \in DOMAIN list[i].tiles : place = <<i, j>>
    BY <2>2
  <2>4. i = k /\ j = n + 1
    BY <2>3
  <2>5. QED
    BY <1>1, <2>4
<1> HIDE DEF place
<1>6. ShownIn(longer, tile) = ShownIn(list, tile) \cup (IF new = tile THEN {place} ELSE {})
  BY <1>2, <1>3, <1>4
<1>7. /\ IsFiniteSet(ShownIn(list, tile) \cup {place})
      /\ Cardinality(ShownIn(list, tile) \cup {place}) = Cardinality(ShownIn(list, tile)) + 1
      /\ Cardinality(ShownIn(list, tile)) \in Nat
  BY <1>5, FS_AddElement, FS_CardinalityType
<1>8. CASE new = tile
  <2>1. ShownIn(longer, tile) = ShownIn(list, tile) \cup {place}
    BY <1>6, <1>8
  <2>2. QED
    BY <1>7, <1>8, <2>1
<1>9. CASE new # tile
  <2>1. ShownIn(longer, tile) = ShownIn(list, tile)
    BY <1>6, <1>9
  <2>2. QED
    BY <1>7, <1>9, <2>1
<1>10. QED
  BY <1>8, <1>9

\* A seat's melds and its newly visible tiles stay in step.
LEMMA InStepAfterMeld ==
  ASSUME NEW visible \in Seq(Pais), NEW list \in Seq(Melds), NEW meld \in Melds, NEW tile,
         NEW new \in Seq(Pais), InStep(visible, list, tile),
         Copies(new, tile) + (IF meld.called_tile = tile THEN 1 ELSE 0) = Copies(meld.tiles, tile)
  PROVE  InStep(visible \o new, Append(list, meld), tile)
<1>1. Copies(visible \o new, tile) = Copies(visible, tile) + Copies(new, tile)
  BY CopiesOfConcatenation
<1>2. /\ CallsIn(list, tile) \in Nat
      /\ CallsIn(Append(list, meld), tile) =
           CallsIn(list, tile) + (IF meld.called_tile = tile THEN 1 ELSE 0)
  BY CallsAfterMeld
<1>3. /\ IsFiniteSet(ShownIn(Append(list, meld), tile))
      /\ Cardinality(ShownIn(Append(list, meld), tile)) =
         Cardinality(ShownIn(list, tile)) + Copies(meld.tiles, tile)
  BY ShownAfterMeld DEF InStep
<1>4. Copies(visible, tile) \in Nat /\ Copies(new, tile) \in Nat
  BY CopiesAreFinite
<1>5. QED
  BY <1>1, <1>2, <1>3, <1>4 DEF InStep

LEMMA InStepAfterKakan ==
  ASSUME NEW visible \in Seq(Pais), NEW list \in Seq(Melds), NEW k \in DOMAIN list,
         NEW new \in Pais, NEW tile, InStep(visible, list, tile)
  PROVE  InStep(visible \o <<new>>, [list EXCEPT ![k] = AsKakan(list[k], new)], tile)
<1> DEFINE longer == [list EXCEPT ![k] = AsKakan(list[k], new)]
<1>1. /\ longer \in Seq(Melds) /\ DOMAIN longer = DOMAIN list
      /\ \A i \in DOMAIN list : longer[i].called_tile = list[i].called_tile
      /\ \A i \in DOMAIN list : i # k => longer[i] = list[i]
      /\ longer[k].tiles = Append(list[k].tiles, new)
      /\ list[k].tiles \in Seq(Pais)
  BY ExtendedPon
<1> HIDE DEF longer
<1>2. Copies(visible \o <<new>>, tile) = Copies(visible, tile) + (IF new = tile THEN 1 ELSE 0)
  <2>1. <<new>> \in Seq(Pais)
    OBVIOUS
  <2>2. Copies(visible \o <<new>>, tile) = Copies(visible, tile) + Copies(<<new>>, tile)
    BY <2>1, CopiesOfConcatenation
  <2>3. QED
    BY <2>2, CopiesOfOne
<1>3. CallsIn(longer, tile) = CallsIn(list, tile)
  <2>1. {i \in DOMAIN longer : longer[i].called_tile = tile} =
        {i \in DOMAIN list : list[i].called_tile = tile}
    BY <1>1
  <2>2. QED
    BY <2>1 DEF CallsIn
<1>4. /\ IsFiniteSet(ShownIn(longer, tile))
      /\ Cardinality(ShownIn(longer, tile)) =
         Cardinality(ShownIn(list, tile)) + (IF new = tile THEN 1 ELSE 0)
  BY <1>1, ShownAfterKakan DEF InStep
<1>5. Copies(visible, tile) \in Nat /\ CallsIn(list, tile) \in Nat
  <2>1. IsFiniteSet({i \in DOMAIN list : list[i].called_tile = tile})
    <3>1. IsFiniteSet(1..Len(list)) /\ DOMAIN list = 1..Len(list)
      BY FS_Interval
    <3>2. {i \in DOMAIN list : list[i].called_tile = tile} \in SUBSET (1..Len(list))
      BY <3>1
    <3>3. QED
      BY <3>1, <3>2, FS_Subset
  <2>2. QED
    BY <2>1, FS_CardinalityType, CopiesAreFinite DEF CallsIn
<1>6. InStep(visible \o <<new>>, longer, tile)
  BY <1>2, <1>3, <1>4, <1>5 DEF InStep
<1>7. QED
  BY <1>6 DEF longer

\* Nothing on the table.
LEMMA NothingIsInStep == \A tile : InStep(<<>>, <<>>, tile)
<1> SUFFICES ASSUME NEW tile PROVE InStep(<<>>, <<>>, tile)
  OBVIOUS
<1>1. ShownIn(<<>>, tile) = {}
  <2>1. \A at : at \notin ShownIn(<<>>, tile)
    BY ShownPlaces
  <2>2. QED
    BY <2>1
<1>2. Copies(<<>>, tile) = 0 /\ CallsIn(<<>>, tile) = 0
  BY FS_EmptySet DEF Copies, CallsIn
<1>3. QED
  BY <1>1, <1>2, FS_EmptySet DEF InStep

\* The newly visible tiles of an open.
LEMMA NewlyVisibleAre ==
  ASSUME TableTypes, NEW seat \in Seats, NEW meld \in Melds, AddsMeld(seat, meld), NEW tile \in Pais
  PROVE  /\ NewlyVisible(meld.tiles) \in Seq(Pais)
         /\ Copies(NewlyVisible(meld.tiles), tile) + (IF meld.called_tile = tile THEN 1 ELSE 0) =
            Copies(meld.tiles, tile)
<1>1. meld.tiles \in Seq(Pais) /\ Copies(meld.tiles, tile) \in Nat
  <2>1. meld.tiles \in Seq(Pais)
    BY DEF Melds
  <2>2. QED
    BY <2>1, CopiesAreFinite
<1>2. CASE ~Called(meld.tiles) /\ meld.called_tile = None
  <2>1. NewlyVisible(meld.tiles) = meld.tiles /\ meld.called_tile # tile
    BY <1>2, TableAssumption DEF NewlyVisible
  <2>2. QED
    BY <1>1, <2>1
<1>3. CASE Called(meld.tiles) /\ meld.called_tile = claimable_discard /\ Len(meld.tiles) > 1
  <2>1. /\ NewlyVisible(meld.tiles) = RemoveFirst(meld.tiles, claimable_discard)
        /\ claimable_discard \in ToSet(meld.tiles)
    BY <1>3 DEF NewlyVisible, Called
  <2>2. /\ RemoveFirst(meld.tiles, claimable_discard) \in Seq(Pais)
        /\ Copies(RemoveFirst(meld.tiles, claimable_discard), tile)
             + (IF claimable_discard = tile THEN 1 ELSE 0) = Copies(meld.tiles, tile)
    BY <1>1, <2>1, CopiesWithoutFirst
  <2>3. QED
    BY <1>3, <2>1, <2>2
<1>4. QED
  BY <1>2, <1>3 DEF AddsMeld

LEMMA ClearingKeepsTable ==
  ASSUME TableInv, Clears PROVE TableInv'
<1>1. TableTypes'
  BY DEF TableInv, TableTypes, Clears, NoTiles
<1>2. CallsAreCovered'
  <2>1. \A lists : (\A s \in DOMAIN lists : lists[s] = <<>>) => Places(lists) = {}
    BY DEF Places
  <2>2. Places(NoTiles) = {}
    BY <2>1 DEF NoTiles
  <2>3. \A tile : CalledIn(NoTiles, tile) = {} /\ DiscardedIn(NoTiles, tile) = {}
    BY <2>2 DEF CalledIn, DiscardedIn
  <2>4. \A tile \in Pais : claimable_discard' # tile
    BY TableAssumption DEF Clears
  <2>5. QED
    BY <2>3, <2>4, FS_EmptySet DEF CallsAreCovered, Clears
<1>3. TilesAreCounted'
  <2>1. \A seat \in Seats : newly_visible_meld_tiles'[seat] = <<>> /\ melds'[seat] = <<>>
    BY DEF Clears, NoTiles
  <2>2. QED
    BY <2>1, NothingIsInStep DEF TilesAreCounted
<1>4. QED
  BY <1>1, <1>2, <1>3 DEF TableInv

LEMMA EndingClaimKeepsTable ==
  ASSUME TableInv, EndsClaim PROVE TableInv'
<1>1. TableTypes'
  BY DEF TableInv, TableTypes, EndsClaim
<1>2. CallsAreCovered'
  <2>1. ASSUME NEW tile \in Pais
        PROVE  Cardinality(CalledIn(melds, tile)) + (IF claimable_discard' = tile THEN 1 ELSE 0)
                 <= Cardinality(DiscardedIn(discards, tile))
    <3>1. Cardinality(CalledIn(melds, tile)) \in Nat /\ Cardinality(DiscardedIn(discards, tile)) \in Nat
      BY FS_CardinalityType DEF TableInv, CallsAreCovered
    <3>2. claimable_discard' = tile => claimable_discard = tile
      BY TableAssumption DEF EndsClaim
    <3>3. Cardinality(CalledIn(melds, tile)) + (IF claimable_discard = tile THEN 1 ELSE 0)
            <= Cardinality(DiscardedIn(discards, tile))
      BY DEF TableInv, CallsAreCovered
    <3>4. QED
      BY <3>1, <3>2, <3>3
  <2>2. QED
    BY <2>1 DEF TableInv, CallsAreCovered, EndsClaim
<1>3. TilesAreCounted'
  BY DEF TableInv, TilesAreCounted, EndsClaim
<1>4. QED
  BY <1>1, <1>2, <1>3 DEF TableInv

LEMMA DiscardingKeepsTable ==
  ASSUME TableInv, NEW seat \in Seats, NEW new \in Pais, Discards(seat, new) PROVE TableInv'
<1>1. discards \in [Seats -> Seq(Pais)]
  BY DEF TableInv, TableTypes
<1>2. discards' = [discards EXCEPT ![seat] = Append(discards[seat], new)]
  BY DEF Discards
<1>3. TableTypes'
  <2>1. discards' \in [Seats -> Seq(Pais)]
    BY <1>1, <1>2
  <2>2. QED
    BY <2>1 DEF TableInv, TableTypes, Discards
<1>4. CallsAreCovered'
  <2>1. ASSUME NEW tile \in Pais
        PROVE  /\ IsFiniteSet(DiscardedIn(discards', tile))
               /\ Cardinality(CalledIn(melds, tile)) + (IF new = tile THEN 1 ELSE 0)
                    <= Cardinality(DiscardedIn(discards', tile))
    <3> DEFINE before == DiscardedIn(discards, tile)
    <3>1. PICK place : /\ DiscardedIn(discards', tile) = before \cup (IF new = tile THEN {place} ELSE {})
                       /\ place \notin before
      <4>1. OneMoreIf(new, tile, before,
                      DiscardedIn([discards EXCEPT ![seat] = Append(discards[seat], new)], tile))
        BY <1>1, DiscardedAfter
      <4> HIDE DEF before
      <4>2. OneMoreIf(new, tile, before, DiscardedIn(discards', tile))
        BY <1>2, <4>1
      <4>3. QED
        BY <4>2 DEF OneMoreIf
    <3>2. /\ IsFiniteSet(before) /\ IsFiniteSet(CalledIn(melds, tile))
          /\ Cardinality(CalledIn(melds, tile)) + (IF claimable_discard = tile THEN 1 ELSE 0)
               <= Cardinality(before)
      BY DEF TableInv, CallsAreCovered
    <3> HIDE DEF before
    <3>3. Cardinality(before) \in Nat /\ Cardinality(CalledIn(melds, tile)) \in Nat
      BY <3>2, FS_CardinalityType
    <3>4. Cardinality(CalledIn(melds, tile)) <= Cardinality(before)
      BY <3>2, <3>3
    <3>5. CASE new = tile
      <4>1. DiscardedIn(discards', tile) = before \cup {place}
        BY <3>1, <3>5
      <4>2. IsFiniteSet(before \cup {place}) /\ Cardinality(before \cup {place}) = Cardinality(before) + 1
        BY <3>1, <3>2, FS_AddElement
      <4>3. QED
        BY <3>3, <3>4, <3>5, <4>1, <4>2
    <3>6. CASE new # tile
      <4>1. DiscardedIn(discards', tile) = before
        BY <3>1, <3>6
      <4>2. QED
        BY <3>2, <3>3, <3>4, <3>6, <4>1
    <3>7. QED
      BY <3>5, <3>6
  <2>2. claimable_discard' = new /\ melds' = melds
    BY DEF Discards
  <2>3. QED
    BY <2>1, <2>2 DEF TableInv, CallsAreCovered
<1>5. TilesAreCounted'
  BY DEF TableInv, TilesAreCounted, Discards
<1>6. QED
  BY <1>3, <1>4, <1>5 DEF TableInv

LEMMA MeldKeepsTable ==
  ASSUME TableInv, NEW seat \in Seats, NEW meld \in Melds, AddsMeld(seat, meld) PROVE TableInv'
<1>1. /\ melds \in [Seats -> Seq(Melds)] /\ newly_visible_meld_tiles \in [Seats -> Seq(Pais)]
      /\ TableTypes
  BY DEF TableInv, TableTypes
<1>2. /\ melds' = [melds EXCEPT ![seat] = Append(melds[seat], meld)]
      /\ newly_visible_meld_tiles' =
           [newly_visible_meld_tiles EXCEPT
              ![seat] = newly_visible_meld_tiles[seat] \o NewlyVisible(meld.tiles)]
      /\ claimable_discard' = None /\ discards' = discards /\ players' = players
  BY DEF AddsMeld, Opens
<1>3. NewlyVisible(meld.tiles) \in Seq(Pais)
  <2>1. meld.tiles \in Seq(Pais)
    BY DEF Melds
  <2>2. CASE ~Called(meld.tiles)
    BY <2>1, <2>2 DEF NewlyVisible
  <2>3. CASE Called(meld.tiles)
    <3>1. claimable_discard \in ToSet(meld.tiles) /\ claimable_discard \in Pais
      BY <1>1, <2>3 DEF Called, TableTypes
    <3>2. QED
      BY <3>1, <1>1, NewlyVisibleAre
  <2>4. QED
    BY <2>2, <2>3
<1>4. TableTypes'
  <2>1. melds' \in [Seats -> Seq(Melds)]
    <3>1. Append(melds[seat], meld) \in Seq(Melds)
      BY <1>1, AppendedMeld
    <3>2. QED
      BY <1>1, <1>2, <3>1
  <2>2. newly_visible_meld_tiles' \in [Seats -> Seq(Pais)]
    <3>1. newly_visible_meld_tiles[seat] \o NewlyVisible(meld.tiles) \in Seq(Pais)
      BY <1>1, <1>3
    <3>2. QED
      BY <1>1, <1>2, <3>1
  <2>3. QED
    BY <1>1, <1>2, <2>1, <2>2 DEF TableTypes
<1>5. CallsAreCovered'
  <2>1. ASSUME NEW tile \in Pais
        PROVE  /\ IsFiniteSet(CalledIn(melds', tile))
               /\ Cardinality(CalledIn(melds', tile)) <= Cardinality(DiscardedIn(discards, tile))
    <3> DEFINE before == CalledIn(melds, tile)
    <3>1. PICK place :
            /\ CalledIn(melds', tile) = before \cup (IF meld.called_tile = tile THEN {place} ELSE {})
            /\ place \notin before
      <4>1. OneMoreIf(meld.called_tile, tile, before,
                      CalledIn([melds EXCEPT ![seat] = Append(melds[seat], meld)], tile))
        BY <1>1, CalledAfterMeld
      <4> HIDE DEF before
      <4>2. OneMoreIf(meld.called_tile, tile, before, CalledIn(melds', tile))
        BY <1>2, <4>1
      <4>3. QED
        BY <4>2 DEF OneMoreIf
    <3>2. /\ IsFiniteSet(before) /\ IsFiniteSet(DiscardedIn(discards, tile))
          /\ Cardinality(before) + (IF claimable_discard = tile THEN 1 ELSE 0)
               <= Cardinality(DiscardedIn(discards, tile))
      BY DEF TableInv, CallsAreCovered
    <3> HIDE DEF before
    <3>3. Cardinality(before) \in Nat /\ Cardinality(DiscardedIn(discards, tile)) \in Nat
      BY <3>2, FS_CardinalityType
    <3>4. CASE meld.called_tile = tile
      <4>1. CalledIn(melds', tile) = before \cup {place}
        BY <3>1, <3>4
      <4>2. IsFiniteSet(before \cup {place}) /\ Cardinality(before \cup {place}) = Cardinality(before) + 1
        BY <3>1, <3>2, FS_AddElement
      <4>3. claimable_discard = tile
        BY <3>4, TableAssumption DEF AddsMeld
      <4>4. Cardinality(before) + 1 <= Cardinality(DiscardedIn(discards, tile))
        BY <3>2, <4>3
      <4>5. QED
        BY <4>1, <4>2, <4>4
    <3>5. CASE meld.called_tile # tile
      <4>1. CalledIn(melds', tile) = before
        BY <3>1, <3>5
      <4>2. Cardinality(before) <= Cardinality(DiscardedIn(discards, tile))
        BY <3>2, <3>3
      <4>3. QED
        BY <3>2, <4>1, <4>2
    <3>6. QED
      BY <3>4, <3>5
  <2>2. ASSUME NEW tile \in Pais
        PROVE  /\ IsFiniteSet(DiscardedIn(discards, tile))
               /\ Cardinality(CalledIn(melds', tile)) + (IF claimable_discard' = tile THEN 1 ELSE 0)
                    <= Cardinality(DiscardedIn(discards, tile))
    <3>1. claimable_discard' # tile
      BY <1>2, TableAssumption
    <3>2. Cardinality(CalledIn(melds', tile)) \in Nat
      BY <2>1, FS_CardinalityType
    <3>3. QED
      BY <2>1, <3>1, <3>2 DEF TableInv, CallsAreCovered
  <2>3. QED
    BY <1>2, <2>1, <2>2 DEF CallsAreCovered
<1>6. TilesAreCounted'
  <2>1. ASSUME NEW s \in Seats, NEW tile \in Pais
        PROVE  InStep(newly_visible_meld_tiles'[s], melds'[s], tile)
    <3>1. InStep(newly_visible_meld_tiles[s], melds[s], tile)
      BY DEF TableInv, TilesAreCounted
    <3>2. CASE s # seat
      <4>1. newly_visible_meld_tiles'[s] = newly_visible_meld_tiles[s] /\ melds'[s] = melds[s]
        BY <1>1, <1>2, <3>2
      <4>2. QED
        BY <3>1, <4>1
    <3>3. CASE s = seat
      <4>1. /\ newly_visible_meld_tiles'[s] = newly_visible_meld_tiles[s] \o NewlyVisible(meld.tiles)
            /\ melds'[s] = Append(melds[s], meld)
        BY <1>1, <1>2, <3>3
      <4>2. Copies(NewlyVisible(meld.tiles), tile) + (IF meld.called_tile = tile THEN 1 ELSE 0) =
            Copies(meld.tiles, tile)
        BY <1>1, NewlyVisibleAre
      <4>3. newly_visible_meld_tiles[s] \in Seq(Pais) /\ melds[s] \in Seq(Melds)
        BY <1>1
      <4>4. InStep(newly_visible_meld_tiles[s] \o NewlyVisible(meld.tiles), Append(melds[s], meld), tile)
        BY <1>3, <3>1, <4>2, <4>3, InStepAfterMeld
      <4>5. QED
        BY <4>1, <4>4
    <3>4. QED
      BY <3>2, <3>3
  <2>2. QED
    BY <2>1 DEF TilesAreCounted
<1>7. QED
  BY <1>4, <1>5, <1>6 DEF TableInv

LEMMA KakanKeepsTable ==
  ASSUME TableInv, NEW seat \in Seats, NEW k \in DOMAIN melds[seat], NEW new \in Pais,
         ExtendsPon(seat, k, new)
  PROVE  TableInv'
<1> DEFINE longer == [melds[seat] EXCEPT ![k] = AsKakan(melds[seat][k], new)]
<1>1. /\ melds \in [Seats -> Seq(Melds)] /\ newly_visible_meld_tiles \in [Seats -> Seq(Pais)]
      /\ melds[seat] \in Seq(Melds) /\ TableTypes
  BY DEF TableInv, TableTypes
<1>2. NewlyVisible(<<new>>) = <<new>>
  BY DEF NewlyVisible
<1>3. /\ melds' = [melds EXCEPT ![seat] = longer]
      /\ newly_visible_meld_tiles' =
           [newly_visible_meld_tiles EXCEPT ![seat] = newly_visible_meld_tiles[seat] \o <<new>>]
      /\ claimable_discard' = None /\ discards' = discards /\ players' = players
  BY <1>2 DEF ExtendsPon, Opens
<1>4. /\ longer \in Seq(Melds) /\ DOMAIN longer = DOMAIN melds[seat]
      /\ \A i \in DOMAIN longer : longer[i].called_tile = melds[seat][i].called_tile
  BY <1>1, ExtendedPon
<1>5. \A s \in Seats, tile \in Pais :
        InStep(newly_visible_meld_tiles[s], melds[s], tile)
  BY DEF TableInv, TilesAreCounted
<1>6. ASSUME NEW tile \in Pais
      PROVE  InStep(newly_visible_meld_tiles[seat] \o <<new>>, longer, tile)
  BY <1>1, <1>5, InStepAfterKakan
<1> HIDE DEF longer
<1>7. TableTypes'
  <2>1. melds' \in [Seats -> Seq(Melds)]
    BY <1>1, <1>3, <1>4
  <2>2. newly_visible_meld_tiles' \in [Seats -> Seq(Pais)]
    <3>1. newly_visible_meld_tiles[seat] \o <<new>> \in Seq(Pais)
      BY <1>1
    <3>2. QED
      BY <1>1, <1>3, <3>1
  <2>3. QED
    BY <1>1, <1>3, <2>1, <2>2 DEF TableTypes
<1>8. CallsAreCovered'
  <2>1. ASSUME NEW tile \in Pais
        PROVE  /\ CalledIn(melds', tile) = CalledIn(melds, tile)
               /\ claimable_discard' # tile
    <3>1. CalledIn([melds EXCEPT ![seat] = longer], tile) = CalledIn(melds, tile)
      BY <1>1, <1>4, CalledAfterKakan
    <3>2. QED
      BY <1>3, <3>1, TableAssumption
  <2>2. ASSUME NEW tile \in Pais
        PROVE  /\ IsFiniteSet(CalledIn(melds, tile)) /\ IsFiniteSet(DiscardedIn(discards, tile))
               /\ Cardinality(CalledIn(melds, tile)) + 0 <= Cardinality(DiscardedIn(discards, tile))
    <3>1. /\ IsFiniteSet(CalledIn(melds, tile)) /\ IsFiniteSet(DiscardedIn(discards, tile))
          /\ Cardinality(CalledIn(melds, tile)) + (IF claimable_discard = tile THEN 1 ELSE 0)
               <= Cardinality(DiscardedIn(discards, tile))
      BY DEF TableInv, CallsAreCovered
    <3>2. /\ Cardinality(CalledIn(melds, tile)) \in Nat
          /\ Cardinality(DiscardedIn(discards, tile)) \in Nat
      BY <3>1, FS_CardinalityType
    <3>3. QED
      BY <3>1, <3>2
  <2>3. QED
    BY <1>3, <2>1, <2>2 DEF CallsAreCovered
<1>9. TilesAreCounted'
  <2>1. ASSUME NEW s \in Seats, NEW tile \in Pais
        PROVE  InStep(newly_visible_meld_tiles'[s], melds'[s], tile)
    <3>1. CASE s # seat
      <4>1. newly_visible_meld_tiles'[s] = newly_visible_meld_tiles[s] /\ melds'[s] = melds[s]
        BY <1>1, <1>3, <3>1
      <4>2. QED
        BY <1>5, <4>1
    <3>2. CASE s = seat
      <4>1. /\ newly_visible_meld_tiles'[s] = newly_visible_meld_tiles[seat] \o <<new>>
            /\ melds'[s] = longer
        BY <1>1, <1>3, <3>2
      <4>2. QED
        BY <1>6, <4>1
    <3>3. QED
      BY <3>1, <3>2
  <2>2. QED
    BY <2>1 DEF TilesAreCounted
<1>10. QED
  BY <1>7, <1>8, <1>9 DEF TableInv

LEMMA TableInit == Init => TableInv
<1> SUFFICES ASSUME Init PROVE TableInv
  OBVIOUS
<1>1. TableTypes
  BY DEF Init, TableTypes, NoTiles
<1>2. CallsAreCovered
  <2>1. \A lists : (\A s \in DOMAIN lists : lists[s] = <<>>) => Places(lists) = {}
    BY DEF Places
  <2>2. Places(NoTiles) = {}
    BY <2>1 DEF NoTiles
  <2>3. \A tile : CalledIn(NoTiles, tile) = {} /\ DiscardedIn(NoTiles, tile) = {}
    BY <2>2 DEF CalledIn, DiscardedIn
  <2>4. \A tile \in Pais : claimable_discard # tile
    BY TableAssumption DEF Init
  <2>5. melds = NoTiles /\ discards = NoTiles
    BY DEF Init
  <2>6. QED
    BY <2>3, <2>4, <2>5, FS_EmptySet DEF CallsAreCovered
<1>3. TilesAreCounted
  <2>1. \A seat \in Seats : newly_visible_meld_tiles[seat] = <<>> /\ melds[seat] = <<>>
    BY DEF Init, NoTiles
  <2>2. QED
    BY <2>1, NothingIsInStep DEF TilesAreCounted
<1>4. QED
  BY <1>1, <1>2, <1>3 DEF TableInv

\* Whatever notifications reach match_state.rs, in whatever order and number, the table
\* keeps its types, its calls and the open claim stay within the rivers, and the newly
\* visible tiles stay in step with the melds.
THEOREM TableCorrect == Spec => []TableInv
<1>1. TableInv /\ [Next]_stateVars => TableInv'
  <2>1. SUFFICES ASSUME TableInv, [Next]_stateVars PROVE TableInv'
    OBVIOUS
  <2>2. TableTypes
    BY <2>1 DEF TableInv
  <2>3. QED
    BY <2>1, <2>2, TableEffects, ClearingKeepsTable, EndingClaimKeepsTable,
       DiscardingKeepsTable, MeldKeepsTable, KakanKeepsTable
<1>2. QED
  BY <1>1, TableInit, PTL DEF Spec

\* No discard is called twice: an open ends the claim (apply_open), and a claim is made
\* by a discard that goes into a river (apply_sutehai).
THEOREM CallsCorrect == Spec => []EachDiscardIsCalledOnce
<1>1. TableInv => EachDiscardIsCalledOnce
  <2>1. SUFFICES ASSUME TableInv, NEW tile \in Pais
                 PROVE  Cardinality(CalledIn(melds, tile)) <= Cardinality(DiscardedIn(discards, tile))
    BY DEF EachDiscardIsCalledOnce, CalledIn, DiscardedIn
  <2>2. /\ IsFiniteSet(CalledIn(melds, tile)) /\ IsFiniteSet(DiscardedIn(discards, tile))
        /\ Cardinality(CalledIn(melds, tile)) + (IF claimable_discard = tile THEN 1 ELSE 0)
             <= Cardinality(DiscardedIn(discards, tile))
    BY <2>1 DEF TableInv, CallsAreCovered
  <2>3. /\ Cardinality(CalledIn(melds, tile)) \in Nat
        /\ Cardinality(DiscardedIn(discards, tile)) \in Nat
    BY <2>2, FS_CardinalityType
  <2>4. QED
    BY <2>2, <2>3
<1>2. QED
  BY <1>1, TableCorrect, PTL

\* The newly visible tiles of a seat are its meld tiles without the called ones
\* (newly_visible_tiles_from_open), so that no tile is counted twice as seen.
THEOREM CountsCorrect == Spec => []VisibleTilesAreCountedOnce
<1>1. TableInv => VisibleTilesAreCountedOnce
  <2>1. SUFFICES ASSUME TableInv, NEW seat \in Seats, NEW tile \in Pais
                 PROVE  Copies(newly_visible_meld_tiles[seat], tile) + CallsOf(seat, tile) =
                        Cardinality(ShownAt(seat, tile))
    BY DEF VisibleTilesAreCountedOnce
  <2>2. InStep(newly_visible_meld_tiles[seat], melds[seat], tile)
    BY <2>1 DEF TableInv, TilesAreCounted
  <2>3. CallsOf(seat, tile) = CallsIn(melds[seat], tile) /\ ShownAt(seat, tile) = ShownIn(melds[seat], tile)
    BY DEF CallsOf, CallsIn, ShownAt, ShownIn
  <2>4. QED
    BY <2>2, <2>3 DEF InStep
<1>2. QED
  BY <1>1, TableCorrect, PTL
==============================================================================
