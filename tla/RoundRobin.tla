------------------------------ MODULE RoundRobin ------------------------------
(***************************************************************************)
(* What a user-level thread library with one processor promises: threads   *)
(* take turns in the order in which they became ready, a thread that       *)
(* finishes never runs again, and the process ends only when the main      *)
(* thread is the last one.  There is no list, no thread table and no       *)
(* signal here: only who runs and who waits, in which order.               *)
(***************************************************************************)
EXTENDS Naturals, Sequences, SequencesExt

CONSTANTS Threads,   \* the names a thread can have
          Main,      \* the thread of the program's main function
          None       \* nobody runs: the library is not initialised

VARIABLES running,   \* the thread on the processor
          waiting,   \* the ready threads, oldest first
          ended      \* the process has ended

vars == <<running, waiting, ended>>

Alive == {running} \cup ToSet(waiting)

TypeOK == /\ running \in Threads \cup {None}
          /\ waiting \in Seq(Threads)
          /\ ended \in BOOLEAN

Init == running = None /\ waiting = <<>> /\ ended = FALSE

Start == /\ running = None
         /\ running' = Main
         /\ UNCHANGED <<waiting, ended>>

\* The oldest waiting thread runs and the threads of q follow the others.
TurnOver(q) == /\ waiting \o q # <<>>
               /\ running' = Head(waiting \o q)
               /\ waiting' = Tail(waiting \o q)

\* A new thread joins the line and its creator goes to the end of it.
Spawn(t) == /\ running # None /\ ~ended
            /\ t \notin Alive
            /\ TurnOver(<<t, running>>)
            /\ UNCHANGED ended

Rotate == /\ running # None /\ ~ended /\ waiting # <<>>
          /\ TurnOver(<<running>>)
          /\ UNCHANGED ended

Leave == /\ running \notin {None, Main} /\ ~ended
         /\ TurnOver(<<>>)
         /\ UNCHANGED ended

End == /\ running = Main /\ waiting = <<>> /\ ~ended
       /\ ended' = TRUE
       /\ UNCHANGED <<running, waiting>>

Next == Start \/ (\E t \in Threads : Spawn(t)) \/ Rotate \/ Leave \/ End

Spec == Init /\ [][Next]_vars
===============================================================================
