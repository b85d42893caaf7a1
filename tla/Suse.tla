--------------------------------- MODULE Suse ---------------------------------
(***************************************************************************)
(* The process of SUSE: main, which reads the configuration and starts two *)
(* threads; the listener, which is the select loop of shared-common with   *)
(* its table of clients; and the scheduler's thread, which makes the lists *)
(* and the semaphores and then prints metrics for ever.  The kernel is     *)
(* there with the queue of connections and the table of descriptors.       *)
(* main's pthread_join never returns, so what follows it is left out.      *)
(***************************************************************************)
EXTENDS Integers, Sequences, FiniteSets

CONSTANTS Clients,
          BACKLOG,     \* the places of client_socket, and the argument of listen
          FirstFd,     \* the lowest descriptor free at the start, after the log's
          LastFd,      \* the highest the kernel gives the process
          Semaphores   \* SEM_IDS, SEM_INIT and SEM_MAX side by side: [id, value, max]

ASSUME SuseAssumption == /\ BACKLOG \in Nat \ {0}
                         /\ FirstFd \in Nat \ {0} /\ LastFd \in Nat
                         /\ FirstFd <= LastFd
                         /\ Clients \cap {"free", "master", "left"} = {}
                         /\ Semaphores \in Seq([id : STRING, value : Int, max : Int])

VARIABLES
  status,         \* "up", or "ended": main returned, or the listener called exit
  main,           \* main's place
  listener,       \* the listener thread's
  scheduler,      \* the scheduler thread's
  semphores,      \* the list, as the source spells it
  holder,         \* descriptor -> "free", "master", a client, or "left"
  backlog,        \* connections the kernel holds for accept: clients, or "left"
  link,           \* client -> "away", "waiting", "open"
  client_socket,  \* the listener's table: descriptors, 0 for an empty place
  readfds,        \* its set, as handed to select and as select returns it
  sent            \* clients with bytes that nobody has read

vars == <<status, main, listener, scheduler, semphores,
          holder, backlog, link, client_socket, readfds, sent>>

kernel == <<holder, backlog, link, sent>>
table  == <<client_socket, readfds>>

Descriptors == FirstFd .. LastFd
Places      == 1 .. BACKLOG

\* A semaphore with a wrong name, value or maximum.
Garbage == [id |-> "garbage", value |-> -1, max |-> -1]

Init == /\ status = "up"
        /\ main = "load" /\ listener = "none" /\ scheduler = "none"
        /\ semphores = <<>>
        /\ holder = [d \in Descriptors |-> "free"]
        /\ backlog = <<>>
        /\ link = [c \in Clients |-> "away"]
        /\ client_socket = [i \in Places |-> 0]
        /\ readfds = {}
        /\ sent = {}

\* The kernel gives the lowest descriptor that is free; -1 when there is none.
Lowest == IF \E d \in Descriptors : holder[d] = "free"
          THEN CHOOSE d \in Descriptors : /\ holder[d] = "free"
                                          /\ \A e \in FirstFd .. d - 1 : holder[e] # "free"
          ELSE -1

Master == CHOOSE d \in Descriptors : holder[d] = "master"

\* exit, from any thread: the kernel closes the descriptors, the clients find out.
ProcessEnds == /\ status' = "ended"
               /\ holder' = [d \in Descriptors |-> "free"]
               /\ backlog' = <<>>
               /\ link' = [c \in Clients |-> "away"]
               /\ sent' = {}
-------------------------------------------------------------------------------
(* main *)

\* The file is missing: main returns what config_load does.
LoadFails == /\ main = "load"
             /\ ProcessEnds
             /\ UNCHANGED <<main, listener, scheduler, semphores, table>>

\* read_config, then print_config, whose utils_array_to_string frees each string.
Load == /\ main = "load"
        /\ main' = "listener"
        /\ UNCHANGED <<status, listener, scheduler, semphores, kernel, table>>

StartListener == /\ main = "listener"
                 /\ listener' = "create"
                 /\ main' = "scheduler"
                 /\ UNCHANGED <<status, scheduler, semphores, kernel, table>>

StartScheduler == /\ main = "scheduler"
                  /\ scheduler' = "init"
                  /\ main' = "join"
                  /\ UNCHANGED <<status, listener, semphores, kernel, table>>
-------------------------------------------------------------------------------
(* The scheduler's thread *)

\* scheduler_init makes the lists.
InitLists == /\ scheduler = "init"
             /\ scheduler' = "semaphores"
             /\ UNCHANGED <<status, main, listener, semphores, kernel, table>>

\* One turn of scheduler_init_semaphores.  The strings were freed when they were printed:
\* what it reads is what was there, or anything.
InitSemaphore ==
  /\ scheduler = "semaphores"
  /\ Len(semphores) < Len(Semaphores)
  /\ \E read \in {Semaphores[Len(semphores) + 1], Garbage} :
       semphores' = Append(semphores, read)
  /\ UNCHANGED <<status, main, listener, scheduler, kernel, table>>

\* scheduler_execute_metrics, which never returns: a turn reads the lists and waits.
StartMetrics == /\ scheduler = "semaphores"
                /\ Len(semphores) = Len(Semaphores)
                /\ scheduler' = "metrics"
                /\ UNCHANGED <<status, main, listener, semphores, kernel, table>>
-------------------------------------------------------------------------------
(* The listener: socket_start_listening_select *)

\* socket_create_listener and socket_select_init_clients.
CreateListener == /\ listener = "create"
                  /\ holder' = [holder EXCEPT ![Lowest] = "master"]
                  /\ client_socket' = [i \in Places |-> 0]
                  /\ listener' = "sets"
                  /\ UNCHANGED <<status, main, scheduler, semphores,
                                 backlog, link, readfds, sent>>

\* The address is taken: exit(EXIT_FAILURE).
CreateListenerFails == /\ listener = "create"
                       /\ ProcessEnds
                       /\ UNCHANGED <<main, listener, scheduler, semphores, table>>

\* A slip: the sets are passed by pointer, and still nothing is read from a client.
ChildSocketsAdded(fds) == fds \cup {client_socket[i] : i \in {j \in Places : client_socket[j] > 0}}

\* socket_select_add_child_sockets_to_set works on a copy of the set and of max_sd.
WithChildSockets(fds) == fds

\* FD_ZERO, FD_SET and the children.
BuildSets == /\ listener = "sets"
             /\ readfds' = WithChildSockets({Master})
             /\ listener' = "select"
             /\ UNCHANGED <<status, main, scheduler, semphores, kernel, client_socket>>

\* A connection to take, bytes to read, or the end of the other side.
Ready(d) == \/ holder[d] = "master" /\ backlog # <<>>
            \/ holder[d] \in sent
            \/ holder[d] = "left"

\* select waits until something in the set is ready, and leaves that in the set.
Select == /\ listener = "select"
          /\ readfds' = {d \in readfds : Ready(d)}
          /\ readfds' # {}
          /\ listener' = "catch"
          /\ UNCHANGED <<status, main, scheduler, semphores, kernel, client_socket>>

\* A slip: no break once the descriptor has its place.
NewClientEverywhere(d) ==
  client_socket' = [i \in Places |-> IF client_socket[i] = 0 THEN d ELSE client_socket[i]]

\* socket_select_add_new_client: the first empty place; without one, nowhere.
NewClient(d) ==
  client_socket' = [i \in Places |->
     IF client_socket[i] = 0 /\ \A j \in 1 .. i - 1 : client_socket[j] # 0
     THEN d ELSE client_socket[i]]

\* A slip: once the table is full no more connections are taken.
CatchWhileRoom ==
  /\ listener = "catch"
  /\ Master \in readfds /\ backlog # <<>>
  /\ Lowest # -1
  /\ IF client_socket[BACKLOG] = 0
     THEN /\ holder' = [holder EXCEPT ![Lowest] = Head(backlog)]
          /\ link' = [c \in Clients |-> IF c = Head(backlog) THEN "open" ELSE link[c]]
          /\ backlog' = Tail(backlog)
          /\ NewClient(Lowest)
     ELSE UNCHANGED <<holder, link, backlog, client_socket>>
  /\ listener' = "check"
  /\ UNCHANGED <<status, main, scheduler, semphores, sent, readfds>>

\* socket_select_catch_incoming_conections: accept and the table.  accept would wait if
\* there were nothing to take, and without the master in the set nothing would be done:
\* neither happens (AcceptNeverWaits).
Catch ==
  /\ listener = "catch"
  /\ Master \in readfds /\ backlog # <<>>
  /\ Lowest # -1
  /\ holder' = [holder EXCEPT ![Lowest] = Head(backlog)]
  /\ link' = [c \in Clients |-> IF c = Head(backlog) THEN "open" ELSE link[c]]
  /\ backlog' = Tail(backlog)
  /\ NewClient(Lowest)
  /\ listener' = "check"
  /\ UNCHANGED <<status, main, scheduler, semphores, sent, readfds>>

\* accept finds no descriptor: exit(EXIT_FAILURE), and with it the whole process.
CatchFails == /\ listener = "catch"
              /\ Master \in readfds /\ backlog # <<>>
              /\ Lowest = -1
              /\ ProcessEnds
              /\ UNCHANGED <<main, listener, scheduler, semphores, table>>

\* socket_select_check_operations: the closing is behind if (1 == 0), the echo is empty.
Check == /\ listener = "check"
         /\ listener' = "sets"
         /\ UNCHANGED <<status, main, scheduler, semphores, kernel, table>>
-------------------------------------------------------------------------------
(* The clients.  listen(BACKLOG) lets one connection more than BACKLOG wait. *)

Connect(c) == /\ \E d \in Descriptors : holder[d] = "master"
              /\ link[c] = "away"
              /\ Len(backlog) <= BACKLOG
              /\ backlog' = Append(backlog, c)
              /\ link' = [link EXCEPT ![c] = "waiting"]
              /\ UNCHANGED <<status, main, listener, scheduler, semphores,
                             holder, sent, table>>

SendBytes(c) == /\ link[c] # "away"
                /\ sent' = sent \cup {c}
                /\ UNCHANGED <<status, main, listener, scheduler, semphores,
                               holder, backlog, link, table>>

\* The client closes: its descriptor or its connection stays, with nobody behind it.
Leave(c) == /\ link[c] # "away"
            /\ link' = [link EXCEPT ![c] = "away"]
            /\ holder' = [d \in Descriptors |-> IF holder[d] = c THEN "left" ELSE holder[d]]
            /\ backlog' = [i \in DOMAIN backlog |-> IF backlog[i] = c THEN "left" ELSE backlog[i]]
            /\ sent' = sent \ {c}
            /\ UNCHANGED <<status, main, listener, scheduler, semphores, table>>
-------------------------------------------------------------------------------
Main      == LoadFails \/ Load \/ StartListener \/ StartScheduler
Scheduler == InitLists \/ InitSemaphore \/ StartMetrics
Listener  == CreateListener \/ CreateListenerFails \/ BuildSets \/ Select \/ Catch
             \/ CatchFails \/ Check
Someone   == \E c \in Clients : Connect(c) \/ SendBytes(c) \/ Leave(c)

Next == status = "up" /\ (Main \/ Scheduler \/ Listener \/ Someone)

Spec == Init /\ [][Next]_vars

\* The kernel schedules the three threads; the clients need do nothing.
FairSpec == /\ Spec
            /\ WF_vars(status = "up" /\ Main)
            /\ WF_vars(status = "up" /\ Scheduler)
            /\ WF_vars(status = "up" /\ Listener)
-------------------------------------------------------------------------------
(* Properties *)

Given == {d \in Descriptors : holder[d] \in Clients \cup {"left"}}

TypeOK ==
  /\ status \in {"up", "ended"}
  /\ main \in {"load", "listener", "scheduler", "join"}
  /\ listener \in {"none", "create", "sets", "select", "catch", "check"}
  /\ scheduler \in {"none", "init", "semaphores", "metrics"}
  /\ semphores \in Seq({Garbage} \cup {Semaphores[i] : i \in DOMAIN Semaphores})
  /\ holder \in [Descriptors -> {"free", "master", "left"} \cup Clients]
  /\ backlog \in Seq(Clients \cup {"left"})
  /\ link \in [Clients -> {"away", "waiting", "open"}]
  /\ client_socket \in [Places -> {0} \cup Descriptors]
  /\ readfds \subseteq Descriptors
  /\ sent \subseteq Clients

\* The table holds the oldest connections, in the order they were taken and each once; the
\* ones that came later are in no place of it, even if everybody in it has left.
TableIsOldest ==
  status = "up" =>
    \A i \in Places :
      client_socket[i] = IF Cardinality(Given) >= i THEN FirstFd + i ELSE 0

\* accept is called only with a connection to take, though the client may have left since
\* select returned: the listener never stops outside select, and never spins.
AcceptNeverWaits ==
  status = "up" /\ listener = "catch" => Master \in readfds /\ backlog # <<>>

\* Whoever waits is taken, gives up, or sees the process end, also with the table full.
WaiterTaken == \A c \in Clients : link[c] = "waiting" ~> link[c] # "waiting"

\* The semaphores of the scheduler are those of the configuration.
SemaphoresAsConfigured ==
  \A i \in DOMAIN semphores : semphores[i] = Semaphores[i]
===============================================================================
