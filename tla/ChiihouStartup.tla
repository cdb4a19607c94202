--------------------------- MODULE ChiihouStartup ---------------------------
(***************************************************************************)
(* How bots come to one table of the chiihou server                        *)
(* (chiihou-client/src/runtime.rs, status.rs, command.rs).  Each process   *)
(* connects, subscribes to what will be addressed to it, reads the status  *)
(* of the table from the relays, and publishes gamestart, join or nothing. *)
(* It never learns whether its command was accepted.                       *)
(*                                                                         *)
(* Outside the repository, modelled from how its code uses them: the       *)
(* server, which seats whoever commands first, and the relays.  A relay    *)
(* keeps the last status it was given, which may be old, and passes a note *)
(* on to the subscriptions it has.  A subscription made later is given the *)
(* notes since the time it names, except those of an ephemeral kind (20000 *)
(* in NIP-01), which no relay keeps.  Time is the number of notes so far.  *)
(***************************************************************************)
EXTENDS Naturals, FiniteSets, Sequences, Folds, Functions

CONSTANTS
  Clients, Relays,
  TableCapacity,  \* CHIIHOU_TABLE_CAPACITY
  MaxStarts,      \* bound: processes started
  MaxNotes        \* bound: notes of the server

ASSUME StartupAssumption ==
  /\ TableCapacity \in Nat \ {0}
  /\ MaxStarts \in Nat /\ MaxNotes \in Nat

VARIABLES
  orderly,  \* an orderly start: a bot is started when the one before has its answer,
            \* and the status of the table reaches every relay at once
  players, playing,  \* the table: who is seated, whether the game runs
  stored,            \* the status each relay keeps
  log,               \* the server's notes
  requested,         \* commands published and not read by the server
  step,              \* what each process does next
  since, subscribed, command, delivered,
  starts, entered, fresh, refused  \* history

tableVars == <<players, playing>>
startupVars == <<orderly, tableVars, stored, log, requested, step, since, subscribed, command,
                 delivered, starts, entered, fresh, refused>>

------------------------------------------------------------------------------
(* The table status. *)

Status(kind, joined) == [kind |-> kind, joined |-> joined]
Empty == Status("empty", 0)

\* What the server announces of its table.
TableStatus ==
  IF playing THEN Status("playing", 0)
  ELSE IF players = {} THEN Empty
  ELSE Status("recruiting", Cardinality(players))

\* Mutant: a table of whatever size is joined.
Mutant_StartupCommand(status) ==
  IF status.kind = "empty" THEN "gamestart"
  ELSE IF status.kind = "recruiting" THEN "join"
  ELSE "none"

\* Mutant: the last place is left free.
Mutant_LastPlace(status) ==
  IF status.kind = "empty" THEN "gamestart"
  ELSE IF status.kind = "recruiting" /\ status.joined + 1 < TableCapacity THEN "join"
  ELSE "none"

\* startup_command_for_status.  Content that cannot be read is of kind "unknown".
StartupCommand(status) ==
  IF status.kind = "empty" THEN "gamestart"
  ELSE IF status.kind = "recruiting" /\ status.joined < TableCapacity THEN "join"
  ELSE "none"

------------------------------------------------------------------------------
(* The process. *)

\* Mutant: the process listens once it has entered.
Mutant_After ==
  [start |-> "fetch", fetch |-> "enter", enter |-> "subscribe", subscribe |-> "listen"]

\* The order of run_chiihou_client_auto_enter_with_options.
After ==
  [start |-> "subscribe", subscribe |-> "fetch", fetch |-> "enter", enter |-> "listen"]

StartupInit ==
  /\ orderly \in BOOLEAN
  /\ players = {} /\ playing = FALSE
  /\ stored = [r \in Relays |-> Empty]
  /\ log = <<>> /\ requested = {}
  /\ step = [c \in Clients |-> "off"]
  /\ since = [c \in Clients |-> 0] /\ subscribed = [c \in Clients |-> {}]
  /\ command = [c \in Clients |-> "none"]
  /\ delivered = [c \in Clients |-> {}]
  /\ starts = [c \in Clients |-> 0] /\ entered = [c \in Clients |-> MaxNotes]
  /\ fresh = [c \in Clients |-> FALSE] /\ refused = [c \in Clients |-> FALSE]

\* Nothing of a process outlives it.
Off(c) ==
  /\ step' = [step EXCEPT ![c] = "off"]
  /\ since' = [since EXCEPT ![c] = 0] /\ subscribed' = [subscribed EXCEPT ![c] = {}]
  /\ command' = [command EXCEPT ![c] = "none"]
  /\ delivered' = [delivered EXCEPT ![c] = {}]
  /\ entered' = [entered EXCEPT ![c] = MaxNotes]

\* A bot whose command the server has not read, or which is about to send one.
Busy(c) ==
  step[c] \in {"subscribe", "fetch", "enter"} \/ \E request \in requested : request[1] = c

\* The time is taken before anything else is done.
Start(c) ==
  /\ step[c] = "off" /\ FoldFunction(+, 0, starts) < MaxStarts
  /\ orderly => \A other \in Clients : ~Busy(other)
  /\ starts' = [starts EXCEPT ![c] = @ + 1]
  /\ since' = [since EXCEPT ![c] = Len(log) + 1]
  /\ step' = [step EXCEPT ![c] = After.start]
  /\ UNCHANGED <<orderly, tableVars, stored, log, requested, subscribed, command, delivered,
                 entered, fresh,
                 refused>>

\* What relays that keep notes give to a new subscription.
Backlog(c, relays) ==
  {id \in since[c]..Len(log) :
     c \in log[id].to /\ ~log[id].ephemeral /\ log[id].relays \cap relays # {}}

\* subscribe_chiihou_requests: one relay is enough.
Subscribe(c, relays) ==
  /\ step[c] = "subscribe"
  /\ IF relays = {}
     THEN Off(c)
     ELSE /\ step' = [step EXCEPT ![c] = After.subscribe]
          /\ subscribed' = [subscribed EXCEPT ![c] = relays]
          /\ delivered' = [delivered EXCEPT ![c] = Backlog(c, relays)]
          /\ UNCHANGED <<since, command, entered>>
  /\ UNCHANGED <<orderly, tableVars, stored, log, requested, starts, fresh, refused>>

\* fetch_chiihou_table_status and the choice of the command.  No relay may answer
\* in time, which looks like a table that nobody opened.
Fetch(c, status) ==
  /\ step[c] = "fetch"
  /\ step' = [step EXCEPT ![c] = After.fetch]
  /\ command' = [command EXCEPT ![c] = StartupCommand(status)]
  /\ fresh' = [fresh EXCEPT ![c] = (status = TableStatus /\ requested = {})]
  /\ refused' = [refused EXCEPT ![c] = FALSE]
  /\ UNCHANGED <<orderly, tableVars, stored, log, requested, since, subscribed, delivered,
                 starts, entered>>

StatusesToFind ==
  IF orderly THEN {stored[r] : r \in Relays}
  ELSE {stored[r] : r \in Relays} \cup {Empty, Status("unknown", 0)}

\* publish_chiihou_event: one relay is enough, and none ends the process.
Enter(c) ==
  /\ step[c] = "enter"
  /\ step' = [step EXCEPT ![c] = After.enter]
  /\ IF command[c] = "none"
     THEN UNCHANGED <<requested, entered>>
     ELSE /\ requested' = requested \cup {<<c, command[c]>>}
          /\ entered' = [entered EXCEPT ![c] = Len(log)]
  /\ UNCHANGED <<orderly, tableVars, stored, log, since, subscribed, command, delivered, starts,
                 fresh, refused>>

\* The process ends: a relay cannot be added, the fetch or the publication fails, the
\* game is over, or the process is killed.  Its subscriptions end with it.
Stop(c) ==
  /\ step[c] # "off"
  /\ Off(c)
  /\ UNCHANGED <<orderly, tableVars, stored, log, requested, starts, fresh, refused>>

------------------------------------------------------------------------------
(* The server and the relays. *)

\* The status is announced with every change of the table.
Announced ==
  stored' = IF orderly THEN [r \in Relays |-> TableStatus'] ELSE stored

\* The server's view of a command: the first gamestart opens an empty table, and a
\* join takes a free place.
Accepts(c, name) ==
  /\ ~playing /\ c \notin players
  /\ \/ name = "gamestart" /\ players = {}
     \/ name = "join" /\ players # {} /\ Cardinality(players) < TableCapacity

ReadCommand(request) ==
  LET c == request[1] IN
  /\ requested' = requested \ {request}
  /\ IF Accepts(c, request[2])
     THEN /\ players' = players \cup {c}
          /\ fresh' = [other \in Clients |-> other = c /\ fresh[c]]
          /\ UNCHANGED refused
     ELSE /\ refused' = [refused EXCEPT ![c] = c \notin players]
          /\ UNCHANGED <<players, fresh>>
  /\ UNCHANGED playing
  /\ Announced
  /\ UNCHANGED <<orderly, log, step, since, subscribed, command, delivered, starts, entered>>

StartGame ==
  /\ ~playing /\ Cardinality(players) = TableCapacity
  /\ playing' = TRUE /\ UNCHANGED players
  /\ Announced
  /\ fresh' = [c \in Clients |-> FALSE]
  /\ UNCHANGED <<orderly, log, requested, step, since, subscribed, command, delivered, starts,
                 entered, refused>>

\* A note to some of the players, from the announcement of the game on, over the
\* relays the server reaches.
Notify(to, relays, ephemeral) ==
  /\ playing /\ to # {}
  /\ Len(log) < MaxNotes /\ relays # {}
  /\ log' = Append(log, [to |-> to, relays |-> relays, ephemeral |-> ephemeral])
  /\ delivered' = [c \in Clients |->
       IF c \in to /\ subscribed[c] \cap relays # {}
       THEN delivered[c] \cup {Len(log) + 1} ELSE delivered[c]]
  /\ UNCHANGED <<orderly, tableVars, stored, requested, step, since, subscribed, command, starts,
                 entered,
                 fresh, refused>>

EndGame ==
  /\ playing /\ playing' = FALSE /\ players' = {}
  /\ Announced
  /\ fresh' = [c \in Clients |-> FALSE]
  /\ UNCHANGED <<orderly, log, requested, step, since, subscribed, command, delivered, starts,
                 entered, refused>>

\* The status reaches a relay later.
StoreStatus(r) ==
  /\ stored[r] # TableStatus
  /\ stored' = [stored EXCEPT ![r] = TableStatus]
  /\ UNCHANGED <<orderly, tableVars, log, requested, step, since, subscribed, command, delivered,
                 starts,
                 entered, fresh, refused>>

------------------------------------------------------------------------------

ProcessStep(c) ==
  \/ \E relays \in SUBSET Relays : Subscribe(c, relays)
  \/ \E status \in StatusesToFind : Fetch(c, status)
  \/ Enter(c)

StartupNext ==
  \/ \E c \in Clients : Start(c) \/ ProcessStep(c) \/ Stop(c)
  \/ \E request \in requested : ReadCommand(request)
  \/ StartGame
  \/ \E to \in SUBSET players, relays \in SUBSET Relays, ephemeral \in BOOLEAN :
       Notify(to, relays, ephemeral)
  \/ EndGame
  \/ \E r \in Relays : StoreStatus(r)

StartupSpec == StartupInit /\ [][StartupNext]_startupVars

\* Bots are started, processes and the server go on, and a relay is within reach.
StartupFairness ==
  /\ \A c \in Clients :
       /\ WF_startupVars(Start(c))
       /\ WF_startupVars(\E relays \in SUBSET Relays \ {{}} : Subscribe(c, relays))
       /\ WF_startupVars(\E status \in StatusesToFind : Fetch(c, status))
       /\ WF_startupVars(Enter(c))
  /\ WF_startupVars(\E request \in requested : ReadCommand(request))
  /\ WF_startupVars(StartGame)

StartupFairSpec == StartupSpec /\ StartupFairness

------------------------------------------------------------------------------
(* Properties. *)

\* Whoever entered by its own command has every later note to it that went over one
\* of its relays: also what a relay never keeps, and also if the game starts before
\* the process is done with its start.
EntrantHearsItsGame ==
  \A c \in Clients, id \in DOMAIN log :
    /\ step[c] = "listen" /\ id > entered[c]
    /\ c \in log[id].to /\ log[id].relays \cap subscribed[c] # {}
    => id \in delivered[c]

\* A bot that is turned away had read an old status, or somebody else's command
\* came in between: the rule itself asks for nothing the table does not offer.
TurnedAwayByARace ==
  \A c \in Clients : refused[c] => ~fresh[c]

\* Bots that are started one by one, as many as there are places, come to play,
\* unless one of them stops before.
TableFills ==
  orderly => <>(playing \/ \E c \in Clients : starts[c] > 0 /\ step[c] = "off")
==============================================================================
