------------------------------- MODULE Hilolay --------------------------------
(***************************************************************************)
(* hilolay: user-level threads (ULTs) multiplexed on one processor.  A     *)
(* table of MAX_ULTS control blocks, a ready list threaded through their   *)
(* `next` fields, and SIGALRM, whose handler yields at the end of every    *)
(* quantum.                                                                *)
(*                                                                         *)
(* Here each library call, and the signal handler, is one step: SIGALRM    *)
(* arrives while a ULT runs its own code.  HilolayPreempt opens the calls  *)
(* up and lets the signal arrive between their statements.                 *)
(***************************************************************************)
EXTENDS Integers, FiniteSets, Sequences

CONSTANTS MAX_ULTS,  \* slots of the table (5000 in hilolay.h)
          QUANTUM,   \* seconds of a turn, 0 for no round robin
          MaxId,     \* bound: thread ids are handed out below it
          MaxTime    \* bound: the clock stops there

ASSUME ConfigAssumption == /\ MAX_ULTS \in Nat \ {0}
                           /\ QUANTUM \in Nat
                           /\ MaxId \in Nat
                           /\ MaxTime \in Nat

MAIN_THREAD_ID == 0
NULL == -1
Slots == 0 .. MAX_ULTS - 1
Main == 0                                  \* the slot of the main thread, &ults[0]
States == {"FREE", "RUNNING", "READY"}

VARIABLES
  id, state, burst_start, execution_time,  \* the fields of ults[s], by slot
  rq,            \* READY_QUEUE_HEAD, READY_QUEUE_TAIL and the next fields
  current_ult,   \* the slot that runs, NULL before lib_init
  NEXT_ID,
  armed,         \* alarm(QUANTUM) is pending
  returning,     \* the main thread is in the loop of th_return
  status,        \* "off" before lib_init, "up", "exited", "aborted"
  now,           \* time(NULL), counted from the start of the process
  cpu            \* history: seconds each slot's ULT really spent running

tcbs == <<id, state, burst_start, execution_time>>
process == <<armed, returning, status>>
vars == <<tcbs, rq, current_ult, NEXT_ID, process, now, cpu>>

ReadyLists == [head : Slots \cup {NULL}, tail : Slots \cup {NULL},
               next : [Slots -> Slots \cup {NULL}]]

Init == /\ id = [s \in Slots |-> 0]
        /\ state = [s \in Slots |-> "FREE"]
        /\ burst_start = [s \in Slots |-> 0]
        /\ execution_time = [s \in Slots |-> 0]
        /\ rq = [head |-> NULL, tail |-> NULL, next |-> [s \in Slots |-> NULL]]
        /\ current_ult = NULL
        /\ NEXT_ID = 1
        /\ armed = FALSE
        /\ returning = FALSE
        /\ status = "off"
        /\ now = 0
        /\ cpu = [s \in Slots |-> 0]
-------------------------------------------------------------------------------
(* The ready list *)

\* Slip: the following slot of the table instead of the following one of the list.
DequeueBySlot(q) == [q EXCEPT !.head = q.head + 1]

\* lib_get_next_ult: the tail is left where it was, even when the list empties.
Dequeue(q) == [q EXCEPT !.head = q.next[q.head]]

\* Slips: the link of the new tail is not cleared; the ULT goes to the front.
EnqueueKeepsLink(q, u) ==
  [head |-> IF q.head = NULL THEN u ELSE q.head,
   tail |-> u,
   next |-> [s \in Slots |-> IF s = q.tail THEN u ELSE q.next[s]]]
EnqueueInFront(q, u) ==
  [head |-> u,
   tail |-> IF q.head = NULL THEN u ELSE q.tail,
   next |-> [q.next EXCEPT ![u] = q.head]]

\* lib_enqueue: the old tail is linked to the new one even when the list was
\* empty and the old tail is a ULT that left it.
Enqueue(q, u) ==
  [head |-> IF q.head = NULL THEN u ELSE q.head,
   tail |-> u,
   next |-> [s \in Slots |-> CASE s = u      -> NULL
                               [] s = q.tail /\ s # u -> u
                               [] OTHER      -> q.next[s]]]

\* Slip: only the last burst is kept.
SummarizedLast(et, bs) == [et EXCEPT ![current_ult] = now - bs[current_ult]]

\* What lib_summarize_burst leaves in execution_time, from the values et and bs.
Summarized(et, bs) ==
  [et EXCEPT ![current_ult] = @ + (now - bs[current_ult])]
-------------------------------------------------------------------------------
(* th_yield, entered with the ready list q, the states st and the burst    *)
(* accounts bs and et.                                                     *)

\* It returns false: no other ULT is ready.
YieldAlone(q, st, bs, et) ==
  /\ q.head = NULL
  /\ rq' = q /\ state' = st /\ burst_start' = bs /\ execution_time' = et
  /\ UNCHANGED current_ult

\* It switches to the head of the list; a ULT that is not FREE is queued again.
YieldTo(q, st, bs, et) ==
  LET selected == q.head
      live == st[current_ult] # "FREE"
  IN /\ selected # NULL
     /\ rq' = IF live THEN Enqueue(Dequeue(q), current_ult) ELSE Dequeue(q)
     /\ state' = [st EXCEPT ![current_ult] = IF live THEN "READY" ELSE "FREE",
                            ![selected] = "RUNNING"]
     /\ execution_time' = Summarized(et, bs)
     /\ burst_start' = [bs EXCEPT ![selected] = now]
     /\ current_ult' = selected

ThYield(q, st, bs, et) == YieldAlone(q, st, bs, et) \/ YieldTo(q, st, bs, et)
-------------------------------------------------------------------------------
(* The operations *)

\* A ULT runs its own code: it is not the main thread draining the others.
InUserCode == status = "up" /\ ~(current_ult = Main /\ returning)

LibInit ==
  /\ status = "off"
  /\ status' = "up"
  /\ current_ult' = Main
  /\ state' = [state EXCEPT ![Main] = "RUNNING"]
  /\ id' = [id EXCEPT ![Main] = MAIN_THREAD_ID]
  /\ rq' = [rq EXCEPT !.next[Main] = NULL]
  /\ burst_start' = [burst_start EXCEPT ![Main] = now]
  /\ execution_time' = [execution_time EXCEPT ![Main] = 0]
  /\ armed' = (QUANTUM # 0)
  /\ cpu' = [cpu EXCEPT ![Main] = 0]
  /\ UNCHANGED <<NEXT_ID, returning, now>>

FreeSlots == {s \in Slots : state[s] = "FREE"}

\* th_create: the first FREE slot is filled, queued, and the creator yields.
ThCreate ==
  /\ InUserCode
  /\ NEXT_ID < MaxId
  /\ \E s \in FreeSlots :
       /\ \A t \in FreeSlots : s <= t
       /\ id' = [id EXCEPT ![s] = NEXT_ID]
       /\ NEXT_ID' = NEXT_ID + 1
       /\ cpu' = [cpu EXCEPT ![s] = 0]
       /\ ThYield(Enqueue(rq, s),
                  [state EXCEPT ![s] = "READY"],
                  [burst_start EXCEPT ![s] = 0],
                  [execution_time EXCEPT ![s] = 0])
  /\ UNCHANGED <<process, now>>

\* th_create with no FREE slot: ERROR_TOO_MANY_ULTS and nothing else.
ThCreateFails == InUserCode /\ FreeSlots = {} /\ UNCHANGED vars

\* th_yield called by the program.
UserYield == /\ InUserCode
             /\ ThYield(rq, state, burst_start, execution_time)
             /\ UNCHANGED <<id, NEXT_ID, process, now, cpu>>

\* Slips of th_return: main is not told apart; the slot is not freed.
LeaveAnyone(et) ==
  /\ InUserCode
  /\ ThYield(rq, [state EXCEPT ![current_ult] = "FREE"], burst_start, et)
  /\ status' = IF rq.head = NULL THEN "aborted" ELSE status
  /\ UNCHANGED <<id, NEXT_ID, armed, returning, now, cpu>>
LeaveUnfreed(et) ==
  /\ InUserCode /\ current_ult # Main
  /\ ThYield(rq, state, burst_start, et)
  /\ UNCHANGED <<id, NEXT_ID, process, now, cpu>>

\* th_return by a ULT that is not the main one, after et was accounted: its slot
\* is FREE, it yields, and if that returns the assertion ends the process.
Leave(et) ==
  LET freed == [state EXCEPT ![current_ult] = "FREE"]
  IN /\ InUserCode
     /\ current_ult # Main
     /\ ThYield(rq, freed, burst_start, et)
     /\ status' = IF rq.head = NULL THEN "aborted" ELSE status
     /\ UNCHANGED <<id, NEXT_ID, armed, returning, now, cpu>>

ThReturn == Leave(execution_time)

\* The ULT's function ends: th_wrapper calls th_stop, which closes the burst
\* before th_return's th_yield closes it once more.
ThStop == Leave(Summarized(execution_time, burst_start))

\* th_return by the main thread: it enters `while (th_yield());`.
MainReturn == /\ InUserCode /\ current_ult = Main
              /\ returning' = TRUE
              /\ UNCHANGED <<tcbs, rq, current_ult, NEXT_ID, armed, status, now, cpu>>

Draining == status = "up" /\ current_ult = Main /\ returning

MainDrain == /\ Draining
             /\ YieldTo(rq, state, burst_start, execution_time)
             /\ UNCHANGED <<id, NEXT_ID, process, now, cpu>>

\* th_yield returned false: exit(ret).
MainExit == /\ Draining /\ rq.head = NULL
            /\ status' = "exited"
            /\ UNCHANGED <<tcbs, rq, current_ult, NEXT_ID, armed, returning, now, cpu>>

\* Slip: the handler does not ask for the next alarm.
EndOfQuantumOnce == /\ status = "up" /\ armed
                    /\ armed' = FALSE
                    /\ ThYield(rq, state, burst_start, execution_time)
                    /\ UNCHANGED <<id, NEXT_ID, returning, status, now, cpu>>

\* SIGALRM: lib_end_of_quantum_handler arms the next alarm and yields.
EndOfQuantum == /\ status = "up" /\ armed
                /\ armed' = (QUANTUM # 0)
                /\ ThYield(rq, state, burst_start, execution_time)
                /\ UNCHANGED <<id, NEXT_ID, returning, status, now, cpu>>

\* A second goes by.
Tick == /\ status = "up" /\ now < MaxTime
        /\ now' = now + 1
        /\ cpu' = [cpu EXCEPT ![current_ult] = @ + 1]
        /\ UNCHANGED <<tcbs, rq, current_ult, NEXT_ID, process>>

\* The process is gone.
Gone == status \in {"exited", "aborted"} /\ UNCHANGED vars

Next == \/ LibInit \/ ThCreate \/ ThCreateFails \/ UserYield \/ ThReturn \/ ThStop
        \/ MainReturn \/ MainDrain \/ MainExit \/ EndOfQuantum \/ Tick \/ Gone

Spec == Init /\ [][Next]_vars

\* The kernel delivers the alarm it holds.
AlarmFairness == WF_vars(EndOfQuantum)

\* The functions of the ULTs end, so does the main function, and a main thread
\* that is scheduled goes on with its loop.
ProgramFairness == /\ \A s \in Slots : SF_vars(current_ult = s /\ ThStop)
                   /\ SF_vars(MainDrain) /\ SF_vars(MainExit)

AlarmSpec == Spec /\ AlarmFairness
-------------------------------------------------------------------------------
(* Properties *)

TypeOK == /\ id \in [Slots -> Nat]
          /\ state \in [Slots -> States]
          /\ burst_start \in [Slots -> Nat]
          /\ execution_time \in [Slots -> Int]
          /\ rq \in ReadyLists
          /\ current_ult \in Slots \cup {NULL}
          /\ NEXT_ID \in Nat
          /\ armed \in BOOLEAN /\ returning \in BOOLEAN
          /\ status \in {"off", "up", "exited", "aborted"}
          /\ now \in Nat
          /\ cpu \in [Slots -> Nat]

\* q lists the ULTs of the list l in order: from head to tail, without repetition.
IsChain(q, l) ==
  /\ l.head = IF q = <<>> THEN NULL ELSE q[1]
  /\ \A i \in 1 .. Len(q) - 1 : l.next[q[i]] = q[i + 1]
  /\ q # <<>> => l.tail = q[Len(q)] /\ l.next[l.tail] = NULL
  /\ \A i, j \in 1 .. Len(q) : q[i] = q[j] => i = j

\* q lists exactly the ULTs that st says are READY.
Listed(q, l, st) == /\ IsChain(q, l)
                    /\ {q[i] : i \in 1 .. Len(q)} = {s \in Slots : st[s] = "READY"}

Orders == UNION {[1 .. n -> Slots] : n \in 0 .. MAX_ULTS}

\* The ULTs in state READY are exactly those reachable from READY_QUEUE_HEAD, each
\* once, and READY_QUEUE_TAIL is the last of them: no ULT is lost by lib_enqueue or
\* lib_get_next_ult, although the tail is never reset when the list empties.
QueueIntact == \E q \in Orders : Listed(q, rq, state)

\* While the process is up exactly one ULT is RUNNING, it is current_ult, and the
\* main thread keeps its slot: it runs or it is ready.
OneRunning == status = "up" => /\ \A s \in Slots : state[s] = "RUNNING" <=> s = current_ult
                               /\ state[Main] # "FREE"

\* th_return's assertion (hilolay.c:21, "This line should never be reached"): a ULT
\* that finishes always finds another one to run.
NeverAborts == status # "aborted"

\* The process exits only after every other ULT finished (hilolay.c:25).
NobodyLeftBehind == status = "exited" => \A s \in Slots \ {Main} : state[s] = "FREE"

\* Two ULTs that are alive never share an id, and ids are below NEXT_ID.
UniqueIds == \A s, t \in Slots : /\ state[s] # "FREE" => id[s] < NEXT_ID
                                 /\ state[s] # "FREE" /\ state[t] # "FREE" /\ id[s] = id[t]
                                      => s = t

\* Before lib_init nothing is alive or listed; after it somebody has the processor.
InitOnce == /\ status = "off" => /\ current_ult = NULL /\ rq.head = NULL
                                 /\ \A s \in Slots : state[s] = "FREE"
            /\ status # "off" => current_ult \in Slots

\* The inductive invariant of the proofs.
Inv == /\ TypeOK /\ QueueIntact /\ OneRunning /\ InitOnce
       /\ NeverAborts /\ NobodyLeftBehind /\ UniqueIds /\ NEXT_ID > 0

\* The burst accounts agree with the processor time a ULT really had: a READY ULT's
\* execution_time is all of it, a RUNNING one lacks only the burst in progress.
BurstsAccounted ==
  status = "up" => \A s \in Slots :
    /\ state[s] = "READY"   => execution_time[s] = cpu[s]
    /\ state[s] = "RUNNING" => execution_time[s] + (now - burst_start[s]) = cpu[s]

\* With round robin on, a ready ULT gets the processor, whatever the others do.
TurnComes == \A s \in Slots : state[s] = "READY" ~> state[s] = "RUNNING"

\* Once the main thread called th_return the process exits, when the ULTs finish.
ExitReached == ProgramFairness => (returning ~> status = "exited")

\* The ULTs of the ready list, in order.
ListOf(l, st) == CHOOSE q \in Orders : Listed(q, l, st)
ReadySeq == ListOf(rq, state)

Abstract == INSTANCE RoundRobin WITH Threads <- Slots, None <- NULL,
              running <- current_ult, waiting <- ReadySeq,
              ended <- status \in {"exited", "aborted"}

\* The linked list, the slots and the states implement the abstract round robin.
ImplementsRoundRobin == Abstract!Spec
===============================================================================
