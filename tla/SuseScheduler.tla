----------------------------- MODULE SuseScheduler -----------------------------
(***************************************************************************)
(* The lists of SUSE and what the functions of suse_scheduler.c do to      *)
(* them.  Nobody in the repository calls them yet: a caller is taken that  *)
(* uses each on a thread in the state its name asks for, one call at a     *)
(* time, once the scheduler's thread has made the lists.  The listener     *)
(* touches none of them, so the two are followed one at a time (part).     *)
(***************************************************************************)
EXTENDS Suse, SequencesExt

CONSTANTS MaxMultiprog,   \* MAX_MULTIPROG in suse.config
          Times,          \* what an unset cpu_time may hold
          Pids,           \* the processes threads are created for
          MaxThreads,     \* bound: threads created
          MaxReadied      \* bound: calls to scheduler_set_ready_thread

ASSUME SchedulerAssumption == /\ MaxMultiprog \in Nat /\ Times \subseteq Int
                              /\ MaxThreads \in Nat /\ MaxReadied \in Nat

VARIABLES
  part,              \* who is followed: "listener" or "scheduler"
  thread,            \* tid -> [pid, state, cpu_time]: the t_thread's made so far, from 1
  queue_new, queue_ready, queue_blocked,   \* tids
  queue_exit,        \* pids
  programs,          \* pid -> state, of the t_program's in the list
  program_exec,      \* a pid, "none" before the first one
  thread_exec,       \* a tid, 0 before the first one
  multiprog,         \* suse_config->max_multiprog
  inside, i,         \* the function being run, "none" between calls, and its index
  asked, readied     \* history: threads in NEW when the pass began; calls to set_ready

queues == <<queue_new, queue_ready, queue_blocked, queue_exit>>
sched  == <<part, thread, queues, programs, program_exec, thread_exec, multiprog, inside, i, asked, readied>>

Tids == DOMAIN thread

SystemInit ==
  /\ Init
  /\ part \in {"listener", "scheduler"}
  /\ thread = <<>> /\ thread_exec = 0
  /\ programs = [p \in {} |-> "NEW"] /\ program_exec = "none"
  /\ queue_new = <<>> /\ queue_ready = <<>> /\ queue_blocked = <<>> /\ queue_exit = <<>>
  /\ multiprog = MaxMultiprog
  /\ inside = "none" /\ i = 1 /\ asked = 0 /\ readied = 0

State(t, s) == [thread EXCEPT ![t].state = s]
Running == {t \in Tids : thread[t].state = "EXEC"}
-------------------------------------------------------------------------------
(* The caller *)

\* A slip: the list gets the number of the thread that comes next.
CreateThreadNext(p, time) ==
  /\ inside = "none" /\ Len(thread) < MaxThreads
  /\ thread' = Append(thread, [pid |-> p, state |-> "READY", cpu_time |-> time])
  /\ queue_new' = Append(queue_new, Len(thread') + 1)
  /\ UNCHANGED <<part, queue_ready, queue_blocked, queue_exit, programs, program_exec, thread_exec,
                 multiprog, inside, i, asked, readied>>

\* program_create_thread, which leaves cpu_time as it was, and list_add to NEW.
CreateThread(p, time) ==
  /\ inside = "none" /\ Len(thread) < MaxThreads
  /\ thread' = Append(thread, [pid |-> p, state |-> "READY", cpu_time |-> time])
  /\ queue_new' = Append(queue_new, Len(thread'))
  /\ UNCHANGED <<part, queue_ready, queue_blocked, queue_exit, programs, program_exec, thread_exec,
                 multiprog, inside, i, asked, readied>>

\* program_create and list_add.
CreateProgram(p) ==
  /\ inside = "none" /\ p \notin DOMAIN programs
  /\ programs' = [q \in DOMAIN programs \cup {p} |-> IF q = p THEN "NEW" ELSE programs[q]]
  /\ UNCHANGED <<part, thread, queues, program_exec, thread_exec, multiprog, inside, i, asked, readied>>

CallLongTerm == /\ inside = "none" /\ queue_new # <<>>
                /\ inside' = "long" /\ i' = 1 /\ asked' = Len(queue_new)
                /\ UNCHANGED <<part, thread, queues, programs, program_exec, thread_exec, multiprog, readied>>

CallShortTerm == /\ inside = "none" /\ Running = {}
                 /\ inside' = "short" /\ i' = 1
                 /\ UNCHANGED <<part, thread, queues, programs, program_exec, thread_exec, multiprog, asked, readied>>
-------------------------------------------------------------------------------
(* scheduler_run_long_term_scheduler *)

\* A slip: the degree stays as configured.
AdmitsFree == /\ queue_new' = RemoveAt(queue_new, i)
              /\ queue_ready' = Append(queue_ready, queue_new[i])
              /\ UNCHANGED multiprog

\* The thread at the index goes to READY and lowers the degree.
Admits == /\ queue_new' = RemoveAt(queue_new, i)
          /\ queue_ready' = Append(queue_ready, queue_new[i])
          /\ multiprog' = multiprog - 1

\* A slip: the index stays after a removal.
LongTermTurnInPlace ==
  /\ inside = "long" /\ i <= Len(queue_new)
  /\ IF Len(queue_ready) <= multiprog THEN Admits /\ UNCHANGED i
     ELSE i' = i + 1 /\ UNCHANGED <<queue_new, queue_ready, multiprog>>
  /\ UNCHANGED <<part, thread, queue_blocked, queue_exit, programs, program_exec, thread_exec,
                 inside, asked, readied>>

\* A turn of the loop: the index goes on, also when the list has moved up under it.
LongTermTurn ==
  /\ inside = "long" /\ i <= Len(queue_new)
  /\ IF Len(queue_ready) <= multiprog THEN Admits
     ELSE UNCHANGED <<queue_new, queue_ready, multiprog>>
  /\ i' = i + 1
  /\ UNCHANGED <<part, thread, queue_blocked, queue_exit, programs, program_exec, thread_exec,
                 inside, asked, readied>>

Returns == /\ \/ inside = "long" /\ i > Len(queue_new)
              \/ inside = "short" /\ i > Len(queue_ready)
           /\ inside' = "none" /\ i' = 1 /\ asked' = 0
           /\ UNCHANGED <<part, thread, queues, programs, program_exec, thread_exec, multiprog, readied>>
-------------------------------------------------------------------------------
(* scheduler_run_short_term_scheduler *)

\* _scheduler_get_sjf: the means are alpha times the two cpu_time's, alpha positive.
get_sjf(a, b) == IF thread[a].cpu_time <= thread[b].cpu_time THEN a ELSE b

\* list_fold over READY with the thread at the index as the seed.
Shortest == FoldLeft(get_sjf, queue_ready[i], queue_ready)

\* A slip: the thread stays in READY while it runs.
DispatchesCopy == /\ thread' = State(queue_ready[i], "EXEC")
                  /\ thread_exec' = queue_ready[i]
                  /\ multiprog' = multiprog + 1
                  /\ inside' = "none" /\ i' = 1
                  /\ UNCHANGED queue_ready

\* It leaves READY, runs, and the degree goes up.
Dispatches == /\ queue_ready' = RemoveAt(queue_ready, i)
              /\ thread' = State(queue_ready[i], "EXEC")
              /\ thread_exec' = queue_ready[i]
              /\ multiprog' = multiprog + 1
              /\ inside' = "none" /\ i' = 1

ShortTermTurn ==
  /\ inside = "short" /\ i <= Len(queue_ready)
  /\ IF Shortest = queue_ready[i] THEN Dispatches
     ELSE i' = i + 1 /\ UNCHANGED <<queue_ready, thread, thread_exec, multiprog, inside>>
  /\ UNCHANGED <<part, queue_new, queue_blocked, queue_exit, programs, program_exec, asked, readied>>
-------------------------------------------------------------------------------
(* Threads and programs *)

\* scheduler_block_thread of the thread that runs, which thread_exec goes on naming.
BlockThread(t) ==
  /\ inside = "none" /\ thread[t].state = "EXEC"
  /\ thread' = State(t, "BLOCKED")
  /\ queue_blocked' = Append(queue_blocked, t)
  /\ UNCHANGED <<part, queue_new, queue_ready, queue_exit, programs, program_exec, thread_exec,
                 multiprog, inside, i, asked, readied>>

\* scheduler_set_ready_thread of one that is blocked: it stays in BLOCKED too.
SetReadyThread(t) ==
  /\ inside = "none" /\ thread[t].state = "BLOCKED" /\ readied < MaxReadied
  /\ thread' = State(t, "READY")
  /\ queue_ready' = Append(queue_ready, t)
  /\ readied' = readied + 1
  /\ UNCHANGED <<part, queue_new, queue_blocked, queue_exit, programs, program_exec, thread_exec,
                 multiprog, inside, i, asked>>

\* scheduler_execute_program of a new one.
ExecuteProgram(p) ==
  /\ inside = "none" /\ programs[p] = "NEW"
  /\ programs' = [programs EXCEPT ![p] = "EXEC"]
  /\ program_exec' = p
  /\ UNCHANGED <<part, thread, queues, thread_exec, multiprog, inside, i, asked, readied>>

\* scheduler_finish_thread and scheduler_finish_program; printing the metrics changes nothing.
FinishThread(t) ==
  /\ inside = "none" /\ thread[t].state = "EXEC"
  /\ thread[t].pid \in DOMAIN programs
  /\ thread' = State(t, "EXIT")
  /\ programs' = [programs EXCEPT ![thread[t].pid] = "EXIT"]
  /\ queue_exit' = Append(queue_exit, thread[t].pid)
  /\ UNCHANGED <<part, queue_new, queue_ready, queue_blocked, program_exec, thread_exec,
                 multiprog, inside, i, asked, readied>>

\* list_find finds no program, and scheduler_finish_program writes through NULL.
FinishThreadWild(t) ==
  /\ inside = "none" /\ thread[t].state = "EXEC"
  /\ thread[t].pid \notin DOMAIN programs
  /\ ProcessEnds
  /\ UNCHANGED sched
-------------------------------------------------------------------------------
Calls == \/ \E p \in Pids : CreateProgram(p) \/ \E time \in Times : CreateThread(p, time)
         \/ \E p \in DOMAIN programs : ExecuteProgram(p)
         \/ CallLongTerm \/ CallShortTerm \/ LongTermTurn \/ ShortTermTurn \/ Returns
         \/ \E t \in Tids : BlockThread(t) \/ SetReadyThread(t) \/ FinishThread(t)

\* The process has started, and its threads wait: the listener in select.
Started == part = "scheduler" /\ scheduler = "metrics" /\ listener = "select"

SystemNext ==
  /\ status = "up"
  /\ \/ (Main \/ Scheduler \/ Listener) /\ UNCHANGED sched
     \/ part = "listener" /\ Someone /\ UNCHANGED sched
     \/ Started /\ Calls /\ UNCHANGED vars
     \/ /\ Started
        /\ \E t \in Tids : FinishThreadWild(t)
        /\ UNCHANGED <<main, listener, scheduler, semphores, table>>

SystemSpec == SystemInit /\ [][SystemNext]_<<vars, sched>>

\* The three threads are scheduled by the kernel; no call has to be made.
FairSystemSpec == /\ SystemSpec
                  /\ WF_vars(status = "up" /\ Main)
                  /\ WF_vars(status = "up" /\ Scheduler)
                  /\ WF_vars(status = "up" /\ Listener)
-------------------------------------------------------------------------------
(* Properties *)

SchedTypeOK ==
  /\ TypeOK
  /\ part \in {"listener", "scheduler"}
  /\ thread \in Seq([pid : Pids, state : {"READY", "EXEC", "BLOCKED", "EXIT"}, cpu_time : Times])
  /\ {queue_new, queue_ready, queue_blocked} \subseteq Seq(Tids)
  /\ queue_exit \in Seq(DOMAIN programs)
  /\ DOMAIN programs \subseteq Pids
  /\ \A p \in DOMAIN programs : programs[p] \in {"NEW", "EXEC", "EXIT"}
  /\ program_exec \in {"none"} \cup DOMAIN programs
  /\ thread_exec \in {0} \cup Tids
  /\ multiprog \in Int /\ i \in Nat /\ asked \in Nat /\ readied \in 0 .. MaxReadied
  /\ inside \in {"none", "long", "short"}

\* A thread that can run is in one place of NEW or READY and in one only, although both loops
\* take elements out of the list they walk; one that runs, waits or has ended is in neither.
OnePlace == LET line == queue_new \o queue_ready
            IN /\ IsInjective(line)
               /\ ToSet(line) = {t \in Tids : thread[t].state = "READY"}

\* A pass that ends with room in READY has taken every other thread, and leaves half of them
\* in NEW, though there still is a place.
PassTakesHalf ==
  inside = "long" /\ i > Len(queue_new) /\ Len(queue_ready) <= multiprog =>
    Len(queue_new) = asked \div 2

\* Every admission counts twice, in the length and in the degree, so that the scheduler fills
\* READY to about half of MAX_MULTIPROG; only threads that come back from BLOCKED add to it.
HalfTheDegree == 2 * Len(queue_ready) <= MaxMultiprog + 2 + 2 * readied

===============================================================================
