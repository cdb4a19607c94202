------------------------ MODULE ChiihouStartupProofs ------------------------
(***************************************************************************)
(* How bots come to a table of the chiihou server, for any number of bots, *)
(* relays, places, starts and notes.                                       *)
(***************************************************************************)
EXTENDS ChiihouStartup, TLAPS

Steps == {"off", "subscribe", "fetch", "enter", "listen"}
Commands == {"none", "gamestart", "join"}
Notes == [to : SUBSET Clients, relays : SUBSET Relays, ephemeral : BOOLEAN]

StartupTypeOK ==
  /\ players \in SUBSET Clients /\ playing \in BOOLEAN
  /\ log \in Seq(Notes) /\ Len(log) <= MaxNotes
  /\ requested \in SUBSET (Clients \X (Commands \ {"none"}))
  /\ step \in [Clients -> Steps]
  /\ since \in [Clients -> Nat]
  /\ subscribed \in [Clients -> SUBSET Relays]
  /\ command \in [Clients -> Commands]
  /\ delivered \in [Clients -> SUBSET Nat]
  /\ entered \in [Clients -> Nat]
  /\ fresh \in [Clients -> BOOLEAN] /\ refused \in [Clients -> BOOLEAN]

LEMMA CommandType == \A status : StartupCommand(status) \in Commands
BY DEF StartupCommand, Commands

LEMMA StartupTypeInit == StartupInit => StartupTypeOK
<1> SUFFICES ASSUME StartupInit PROVE StartupTypeOK
  OBVIOUS
<1>1. log \in Seq(Notes) /\ Len(log) <= MaxNotes /\ MaxNotes \in Nat
  BY StartupAssumption DEF StartupInit
<1> QED
  BY <1>1 DEF StartupInit, StartupTypeOK, Steps, Commands

LEMMA StartupTypeStep == StartupTypeOK /\ [StartupNext]_startupVars => StartupTypeOK'
<1> SUFFICES ASSUME StartupTypeOK, [StartupNext]_startupVars PROVE StartupTypeOK'
  OBVIOUS
<1> USE DEF StartupTypeOK, tableVars
<1>a. ASSUME NEW c \in Clients, Off(c)
      PROVE  /\ step' \in [Clients -> Steps] /\ since' \in [Clients -> Nat]
             /\ subscribed' \in [Clients -> SUBSET Relays] /\ command' \in [Clients -> Commands]
             /\ delivered' \in [Clients -> SUBSET Nat] /\ entered' \in [Clients -> Nat]
  BY <1>a, StartupAssumption DEF Off, Steps, Commands
<1>1. ASSUME NEW c \in Clients, Start(c) PROVE StartupTypeOK'
  <2>1. step' \in [Clients -> Steps]
    BY <1>1 DEF Start, After, Steps
  <2>2. since' \in [Clients -> Nat]
    <3>1. Len(log) \in Nat
      OBVIOUS
    <3>2. since' = [since EXCEPT ![c] = Len(log) + 1]
      BY <1>1 DEF Start
    <3> QED
      BY <3>1, <3>2
  <2> QED
    BY <1>1, <2>1, <2>2 DEF Start
<1>2. ASSUME NEW c \in Clients, NEW relays \in SUBSET Relays, Subscribe(c, relays)
      PROVE  StartupTypeOK'
  <2>1. Backlog(c, relays) \subseteq Nat
    BY DEF Backlog
  <2>2. CASE relays = {}
    BY <1>2, <1>a, <2>2 DEF Subscribe
  <2>3. CASE relays # {}
    <3>1. step' \in [Clients -> Steps]
      BY <1>2, <2>3 DEF Subscribe, After, Steps
    <3>2. subscribed' \in [Clients -> SUBSET Relays] /\ delivered' \in [Clients -> SUBSET Nat]
      BY <1>2, <2>1, <2>3 DEF Subscribe
    <3> QED
      BY <1>2, <2>3, <3>1, <3>2 DEF Subscribe
  <2> QED
    BY <2>2, <2>3
<1>3. ASSUME NEW c \in Clients, NEW status \in StatusesToFind, Fetch(c, status)
      PROVE  StartupTypeOK'
  BY <1>3, CommandType DEF Fetch, After, Steps
<1>4. ASSUME NEW c \in Clients, Enter(c) PROVE StartupTypeOK'
  BY <1>4 DEF Enter, After, Steps, Commands
<1>5. ASSUME NEW c \in Clients, Stop(c) PROVE StartupTypeOK'
  BY <1>5, <1>a DEF Stop
<1>6. ASSUME NEW request \in requested, ReadCommand(request) PROVE StartupTypeOK'
  <2>1. request[1] \in Clients
    OBVIOUS
  <2> QED
    BY <1>6, <2>1 DEF ReadCommand
<1>7. CASE StartGame
  BY <1>7 DEF StartGame
<1>8. ASSUME NEW to \in SUBSET players, NEW relays \in SUBSET Relays, NEW ephemeral \in BOOLEAN,
             Notify(to, relays, ephemeral)
      PROVE  StartupTypeOK'
  <2> DEFINE note == [to |-> to, relays |-> relays, ephemeral |-> ephemeral]
  <2>1. note \in Notes /\ Len(log) < MaxNotes /\ log' = Append(log, note)
    BY <1>8 DEF Notify, Notes
  <2>2. log' \in Seq(Notes) /\ Len(log') <= MaxNotes
    <3> HIDE DEF note
    <3> QED
      BY <2>1, StartupAssumption
  <2>3. delivered' \in [Clients -> SUBSET Nat]
    BY <1>8 DEF Notify
  <2> QED
    BY <1>8, <2>2, <2>3 DEF Notify
<1>9. CASE EndGame
  BY <1>9 DEF EndGame
<1>10. ASSUME NEW r \in Relays, StoreStatus(r) PROVE StartupTypeOK'
  BY <1>10 DEF StoreStatus
<1>11. CASE UNCHANGED startupVars
  BY <1>11 DEF startupVars
<1> QED
  BY <1>1, <1>2, <1>3, <1>4, <1>5, <1>6, <1>7, <1>8, <1>9, <1>10, <1>11 DEF StartupNext, ProcessStep

(* The table, the processes and the relays keep to their types. *)
THEOREM StartupTypeCorrect == StartupSpec => []StartupTypeOK
BY StartupTypeInit, StartupTypeStep, PTL DEF StartupSpec

------------------------------------------------------------------------------
(* Hearing the game. *)

\* Nothing counts as entered before the command is published.
NotEnteredYet == \A c \in Clients : step[c] # "listen" => entered[c] = MaxNotes

HearingInv == NotEnteredYet /\ EntrantHearsItsGame

LEMMA HearingInit == StartupInit => HearingInv
BY StartupAssumption DEF StartupInit, HearingInv, NotEnteredYet, EntrantHearsItsGame

LEMMA HearingStep == StartupTypeOK /\ HearingInv /\ [StartupNext]_startupVars => HearingInv'
<1> SUFFICES ASSUME StartupTypeOK, HearingInv, [StartupNext]_startupVars PROVE HearingInv'
  OBVIOUS
<1> USE DEF StartupTypeOK, HearingInv, NotEnteredYet, EntrantHearsItsGame, tableVars
\* A step of one process leaves the others alone.
<1>a. ASSUME NEW c \in Clients, Off(c), UNCHANGED log PROVE HearingInv'
  BY <1>a DEF Off
<1>1. ASSUME NEW c \in Clients, Start(c) PROVE HearingInv'
  BY <1>1 DEF Start, After
<1>2. ASSUME NEW c \in Clients, NEW relays \in SUBSET Relays, Subscribe(c, relays)
      PROVE  HearingInv'
  <2>1. CASE relays = {}
    BY <1>2, <1>a, <2>1 DEF Subscribe
  <2>2. CASE relays # {}
    BY <1>2, <2>2 DEF Subscribe, After
  <2> QED
    BY <2>1, <2>2
<1>3. ASSUME NEW c \in Clients, NEW status \in StatusesToFind, Fetch(c, status)
      PROVE  HearingInv'
  BY <1>3 DEF Fetch, After
<1>4. ASSUME NEW c \in Clients, Enter(c) PROVE HearingInv'
  <2>1. \A id \in DOMAIN log : id <= Len(log) /\ id <= MaxNotes
    BY StartupAssumption
  <2> QED
    BY <1>4, <2>1 DEF Enter, After
<1>5. ASSUME NEW c \in Clients, Stop(c) PROVE HearingInv'
  BY <1>5, <1>a DEF Stop
<1>6. ASSUME NEW request \in requested, ReadCommand(request) PROVE HearingInv'
  BY <1>6 DEF ReadCommand
<1>7. CASE StartGame \/ EndGame
  BY <1>7 DEF StartGame, EndGame
<1>8. ASSUME NEW to \in SUBSET players, NEW relays \in SUBSET Relays, NEW ephemeral \in BOOLEAN,
             Notify(to, relays, ephemeral)
      PROVE  HearingInv'
  <2> DEFINE note == [to |-> to, relays |-> relays, ephemeral |-> ephemeral]
             new == Len(log) + 1
  <2>1. /\ note \in Notes /\ log' = Append(log, note)
        /\ UNCHANGED <<step, subscribed, entered>>
        /\ delivered' = [c \in Clients |-> IF c \in to /\ subscribed[c] \cap relays # {}
                                           THEN delivered[c] \cup {new} ELSE delivered[c]]
    BY <1>8 DEF Notify, Notes
  <2>2. note.to = to /\ note.relays = relays
    OBVIOUS
  <2>3. /\ DOMAIN log' = DOMAIN log \cup {new} /\ log'[new] = note
        /\ \A id \in DOMAIN log : log'[id] = log[id]
    <3> HIDE DEF note
    <3> QED
      BY <2>1
  <2>4. ASSUME NEW c \in Clients, NEW id \in DOMAIN log',
               step[c] = "listen", id > entered[c], c \in log'[id].to,
               log'[id].relays \cap subscribed[c] # {}
        PROVE  id \in delivered'[c]
    <3>1. CASE id \in DOMAIN log
      BY <2>1, <2>3, <2>4, <3>1
    <3>2. CASE id = new
      BY <2>1, <2>2, <2>3, <2>4, <3>2
    <3> QED
      BY <2>3, <3>1, <3>2
  <2> QED
    BY <2>1, <2>4
<1>9. ASSUME NEW r \in Relays, StoreStatus(r) PROVE HearingInv'
  BY <1>9 DEF StoreStatus
<1>10. CASE UNCHANGED startupVars
  BY <1>10 DEF startupVars
<1> QED
  BY <1>1, <1>2, <1>3, <1>4, <1>5, <1>6, <1>7, <1>8, <1>9, <1>10 DEF StartupNext, ProcessStep

(* Whoever entered by its own command has every later note to it that went over  *)
(* one of its relays: the subscription comes before the command (runtime.rs).    *)
THEOREM HearingCorrect == StartupSpec => []EntrantHearsItsGame
<1>1. HearingInv => EntrantHearsItsGame
  BY DEF HearingInv
<1> QED
  BY <1>1, StartupTypeCorrect, HearingInit, HearingStep, PTL DEF StartupSpec

------------------------------------------------------------------------------
(* Being turned away. *)

\* What a bot that knows the table asks of it is what the table offers: the command
\* it is about to publish, and each one it has published.
AsksForWhatThereIs ==
  \A c \in Clients : fresh[c] /\ c \notin players =>
    /\ step[c] = "enter" => command[c] = StartupCommand(TableStatus)
    /\ \A name \in Commands : <<c, name>> \in requested => name = StartupCommand(TableStatus)

RaceInv == AsksForWhatThereIs /\ TurnedAwayByARace

LEMMA OfferIsAccepted ==
  ASSUME NEW c, c \notin players, StartupCommand(TableStatus) # "none"
  PROVE  Accepts(c, StartupCommand(TableStatus))
BY DEF Accepts, StartupCommand, TableStatus, Status, Empty

LEMMA RaceInit == StartupInit => RaceInv
BY DEF StartupInit, RaceInv, AsksForWhatThereIs, TurnedAwayByARace

LEMMA RaceStep == StartupTypeOK /\ RaceInv /\ [StartupNext]_startupVars => RaceInv'
<1> SUFFICES ASSUME StartupTypeOK, RaceInv, [StartupNext]_startupVars PROVE RaceInv'
  OBVIOUS
<1> USE DEF StartupTypeOK, RaceInv, AsksForWhatThereIs, TurnedAwayByARace
<1>a. ASSUME UNCHANGED tableVars PROVE TableStatus' = TableStatus
  BY <1>a DEF TableStatus, tableVars
<1>b. ASSUME NEW c \in Clients, Off(c), UNCHANGED <<tableVars, requested, fresh, refused>>
      PROVE  RaceInv'
  BY <1>a, <1>b DEF Off, tableVars
<1>1. ASSUME NEW c \in Clients, Start(c) PROVE RaceInv'
  BY <1>1, <1>a DEF Start, After, tableVars
<1>2. ASSUME NEW c \in Clients, NEW relays \in SUBSET Relays, Subscribe(c, relays)
      PROVE  RaceInv'
  <2>1. CASE relays = {}
    BY <1>2, <1>b, <2>1 DEF Subscribe
  <2>2. CASE relays # {}
    BY <1>2, <1>a, <2>2 DEF Subscribe, After, tableVars
  <2> QED
    BY <2>1, <2>2
<1>3. ASSUME NEW c \in Clients, NEW status \in StatusesToFind, Fetch(c, status)
      PROVE  RaceInv'
  BY <1>3, <1>a DEF Fetch, After, tableVars
<1>4. ASSUME NEW c \in Clients, Enter(c) PROVE RaceInv'
  BY <1>4, <1>a DEF Enter, After, tableVars
<1>5. ASSUME NEW c \in Clients, Stop(c) PROVE RaceInv'
  BY <1>5, <1>b DEF Stop
<1>6. ASSUME NEW request \in requested, ReadCommand(request) PROVE RaceInv'
  <2> DEFINE c == request[1]
             name == request[2]
  <2>1. c \in Clients /\ name \in Commands /\ name # "none" /\ request = <<c, name>>
    OBVIOUS
  <2>2. UNCHANGED <<playing, step, command>> /\ requested' = requested \ {request}
    BY <1>6 DEF ReadCommand
  <2>3. CASE Accepts(c, name)
    <3>1. /\ players' = players \cup {c} /\ refused' = refused
          /\ fresh' = [other \in Clients |-> other = c /\ fresh[c]]
      BY <1>6, <2>3 DEF ReadCommand
    <3> QED
      BY <2>1, <3>1
  <2>4. CASE ~Accepts(c, name)
    <3>1. /\ refused' = [refused EXCEPT ![c] = c \notin players]
          /\ UNCHANGED <<players, fresh>>
      BY <1>6, <2>4 DEF ReadCommand
    <3>2. fresh[c] => c \in players
      BY <2>1, <2>4, OfferIsAccepted
    <3> QED
      BY <1>a, <2>1, <2>2, <3>1, <3>2 DEF tableVars
  <2> QED
    BY <2>3, <2>4
<1>7. CASE StartGame \/ EndGame
  BY <1>7 DEF StartGame, EndGame
<1>8. ASSUME NEW to \in SUBSET players, NEW relays \in SUBSET Relays, NEW ephemeral \in BOOLEAN,
             Notify(to, relays, ephemeral)
      PROVE  RaceInv'
  BY <1>8, <1>a DEF Notify, tableVars
<1>9. ASSUME NEW r \in Relays, StoreStatus(r) PROVE RaceInv'
  BY <1>9, <1>a DEF StoreStatus, tableVars
<1>10. CASE UNCHANGED startupVars
  BY <1>10, <1>a DEF startupVars, tableVars
<1> QED
  BY <1>1, <1>2, <1>3, <1>4, <1>5, <1>6, <1>7, <1>8, <1>9, <1>10 DEF StartupNext, ProcessStep

(* A bot that is turned away was overtaken or had read an old status: with what  *)
(* the table shows it asks for what the table offers (status.rs).                *)
THEOREM RaceCorrect == StartupSpec => []TurnedAwayByARace
<1>1. RaceInv => TurnedAwayByARace
  BY DEF RaceInv
<1> QED
  BY <1>1, StartupTypeCorrect, RaceInit, RaceStep, PTL DEF StartupSpec
==============================================================================
