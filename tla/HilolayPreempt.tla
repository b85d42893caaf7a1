---------------------------- MODULE HilolayPreempt ----------------------------
(***************************************************************************)
(* hilolay with its calls opened up: every statement that touches shared   *)
(* data is a step, and SIGALRM may arrive before any of them: nothing      *)
(* blocks it.                                                              *)
(* The handler calls th_yield on the stack of whatever it interrupted,     *)
(* possibly another th_yield (SA_NODEFER), so a ULT is a stack of frames.  *)
(* swapcontext saves the running stack in one context object and resumes   *)
(* the stack saved in another.                                             *)
(*                                                                         *)
(* Thread k is the k-th function started, 0 the main function; context     *)
(* object k is the one th_create allocated for it.                         *)
(***************************************************************************)
EXTENDS Integers, Sequences, FiniteSets

CONSTANTS MAX_ULTS,     \* slots of the table
          MaxSignals,   \* bound: signals delivered
          MaxThreads,   \* bound: calls of th_create by the program
          MaxYields     \* bound: calls of th_yield by the program

ASSUME PreemptAssumption == /\ MAX_ULTS \in Nat \ {0}
                            /\ MaxSignals \in Nat /\ MaxThreads \in Nat /\ MaxYields \in Nat

NULL == -1
Slots == 0 .. MAX_ULTS - 1
Main == 0
Threads == 0 .. MaxThreads

VARIABLES state, context,   \* ults[s].state, ults[s].context
          head, tail, next, \* the ready list
          current_ult,
          saved,            \* what each context object holds, <<>> if nothing usable
          stack,            \* the frames that run now, innermost first
          unfinished,       \* the threads whose function has not ended
          created,          \* contexts made
          calls, signals, yields,  \* of th_create, of the alarm, of th_yield
          strayed,          \* ghost: what signals have cut through, see Signal
          status            \* "up", "exited", "aborted", "wild"

ulib == <<state, context, head, tail, next, current_ult, saved>>
counters == <<created, calls, signals, yields>>
vars == <<ulib, stack, unfinished, counters, strayed, status>>

\* pc: the statement that is next; sel: th_yield's selected_ult or th_create's
\* new_ult; ult: lib_enqueue's argument; old, new: th_yield's contexts; thread: the
\* function a user frame belongs to.
Blank == [pc |-> "user", sel |-> NULL, ult |-> NULL, old |-> NULL, new |-> NULL,
          thread |-> NULL]
Frame(p) == [Blank EXCEPT !.pc = p]
UserFrame(k) == [Blank EXCEPT !.thread = k]

Top == stack[1]
Below == Tail(stack)

\* The state lib_init leaves, main running.
Init == /\ state = [s \in Slots |-> IF s = Main THEN "RUNNING" ELSE "FREE"]
        /\ context = [s \in Slots |-> IF s = Main THEN 0 ELSE NULL]
        /\ head = NULL /\ tail = NULL
        /\ next = [s \in Slots |-> NULL]
        /\ current_ult = Main
        /\ saved = [k \in Threads |-> <<>>]
        /\ stack = <<UserFrame(0)>>
        /\ unfinished = {0}
        /\ created = 0 /\ calls = 0 /\ signals = 0 /\ yields = 0
        /\ strayed = {}
        /\ status = "up"

At(p) == status = "up" /\ Top.pc = p
Goto(p) == stack' = <<[Top EXCEPT !.pc = p]>> \o Below
GotoWith(f) == stack' = <<f>> \o Below
CallThen(f, p) == stack' = <<f, [Top EXCEPT !.pc = p]>> \o Below
-------------------------------------------------------------------------------
(* The program *)

UserCreates == /\ At("user") /\ calls < MaxThreads
               /\ calls' = calls + 1
               /\ stack' = <<Frame("scan")>> \o stack
               /\ UNCHANGED <<ulib, unfinished, created, signals, yields, status, strayed>>

UserYields == /\ At("user") /\ yields < MaxYields
              /\ yields' = yields + 1
              /\ stack' = <<Frame("head")>> \o stack
              /\ UNCHANGED <<ulib, unfinished, created, calls, signals, status, strayed>>

\* Slip: th_return does not tell main from the others.
UserReturnsAlike == /\ At("user")
                    /\ unfinished' = unfinished \ {Top.thread}
                    /\ Goto("free")
                    /\ UNCHANGED <<ulib, counters, status, strayed>>

\* The function ends: th_return looks at current_ult to tell main from the others.
UserReturns == /\ At("user")
               /\ unfinished' = unfinished \ {Top.thread}
               /\ Goto(IF current_ult = Main THEN "drain" ELSE "free")
               /\ UNCHANGED <<ulib, counters, status, strayed>>

MarkFree == /\ At("free")
            /\ state' = [state EXCEPT ![current_ult] = "FREE"]
            /\ CallThen(Frame("head"), "unreachable")
            /\ UNCHANGED <<context, head, tail, next, current_ult, saved, unfinished,
                           counters, status, strayed>>

Drain == /\ At("drain")
         /\ stack' = <<Frame("head")>> \o stack
         /\ UNCHANGED <<ulib, unfinished, counters, status, strayed>>
-------------------------------------------------------------------------------
(* th_create *)

FreeSlots == {s \in Slots : state[s] = "FREE"}

\* Slip: the slot after the last one is not recognised.
ScanTooFar == /\ At("scan")
              /\ \E s \in FreeSlots \cup {MAX_ULTS} :
                   /\ \A t \in FreeSlots : s <= t
                   /\ GotoWith([Top EXCEPT !.pc = "makecontext", !.sel = s])
              /\ UNCHANGED <<ulib, unfinished, counters, status, strayed>>

\* A slot stays FREE until lib_write_TCB: another th_create may have chosen it and not have
\* written it yet.
Claims(f, s) == f.pc \in {"makecontext", "write"} /\ f.sel = s
Claimed(s) == \E k \in Threads : \E i \in DOMAIN saved[k] : Claims(saved[k][i], s)

ScanSlots == /\ At("scan")
             /\ IF FreeSlots = {}
                THEN stack' = Below /\ UNCHANGED strayed
                ELSE \E s \in FreeSlots :
                       /\ \A t \in FreeSlots : s <= t
                       /\ GotoWith([Top EXCEPT !.pc = "makecontext", !.sel = s])
                       /\ strayed' = strayed \cup IF Claimed(s) THEN {"claimed"} ELSE {}
             /\ UNCHANGED <<ulib, unfinished, counters, status>>

\* th_create_context: a new object, ready to start the function.
MakeContext == /\ At("makecontext")
               /\ created' = created + 1
               /\ context' = [context EXCEPT ![Top.sel] = created']
               /\ saved' = [saved EXCEPT ![created'] = <<UserFrame(created')>>]
               /\ unfinished' = unfinished \cup {created'}
               /\ Goto("write")
               /\ UNCHANGED <<state, head, tail, next, current_ult, calls, signals, yields,
                              status, strayed>>

WriteTCB == /\ At("write")
            /\ state' = [state EXCEPT ![Top.sel] = "READY"]
            /\ next' = [next EXCEPT ![Top.sel] = NULL]
            /\ CallThen([Frame("setready") EXCEPT !.ult = Top.sel], "yieldnow")
            /\ UNCHANGED <<context, head, tail, current_ult, saved, unfinished, counters,
                           status, strayed>>

\* th_yield is the last thing th_create does, its result is not used.
YieldAfterCreate == /\ At("yieldnow")
                    /\ CallThen(Frame("head"), "created")
                    /\ UNCHANGED <<ulib, unfinished, counters, status, strayed>>
-------------------------------------------------------------------------------
(* lib_enqueue(ult) *)

SetReady == /\ At("setready")
            /\ state' = [state EXCEPT ![Top.ult] = "READY"]
            /\ Goto("sethead")
            /\ UNCHANGED <<context, head, tail, next, current_ult, saved, unfinished,
                           counters, status, strayed>>

SetHead == /\ At("sethead")
           /\ head' = IF head = NULL THEN Top.ult ELSE head
           /\ Goto("link")
           /\ UNCHANGED <<state, context, tail, next, current_ult, saved, unfinished,
                          counters, status, strayed>>

\* Slip: the old tail is not linked to the new one.
LinkNothing == /\ At("link")
               /\ Goto("settail")
               /\ UNCHANGED <<ulib, unfinished, counters, status, strayed>>

LinkTail == /\ At("link")
            /\ next' = IF tail = NULL THEN next ELSE [next EXCEPT ![tail] = Top.ult]
            /\ Goto("settail")
            /\ UNCHANGED <<state, context, head, tail, current_ult, saved, unfinished,
                           counters, status, strayed>>

SetTail == /\ At("settail")
           /\ tail' = Top.ult
           /\ Goto("endlist")
           /\ UNCHANGED <<state, context, head, next, current_ult, saved, unfinished,
                          counters, status, strayed>>

EndList == /\ At("endlist")
           /\ next' = [next EXCEPT ![tail] = NULL]
           /\ stack' = Below
           /\ UNCHANGED <<state, context, head, tail, current_ult, saved, unfinished,
                          counters, status, strayed>>
-------------------------------------------------------------------------------
(* th_yield *)

ReadHead == /\ At("head")
            /\ GotoWith([Top EXCEPT !.pc = "pop", !.sel = head])
            /\ UNCHANGED <<ulib, unfinished, counters, status, strayed>>

PopHead == /\ At("pop")
           /\ head' = IF head = NULL THEN NULL ELSE next[head]
           /\ Goto("test")
           /\ UNCHANGED <<state, context, tail, next, current_ult, saved, unfinished,
                          counters, status, strayed>>

\* The caller goes on after th_yield returned: after `false` th_return's assertion
\* fails and the draining main thread exits.
ReturnToCaller(true) ==
  /\ stack' = CASE Below[1].pc \in {"handler", "created"} -> Tail(Below)
                [] OTHER -> Below
  /\ status' = CASE Below[1].pc = "unreachable" -> "aborted"
                 [] Below[1].pc = "drain" /\ ~true -> "exited"
                 [] OTHER -> status

TestSelected ==
  /\ At("test")
  /\ \/ /\ Top.sel = NULL
        /\ ReturnToCaller(FALSE)
     \/ /\ Top.sel # NULL
        /\ IF state[current_ult] = "FREE"
           THEN Goto("setrunning")
           ELSE CallThen([Frame("setready") EXCEPT !.ult = current_ult], "setrunning")
        /\ UNCHANGED status
  /\ UNCHANGED <<ulib, unfinished, counters, strayed>>

SetRunning == /\ At("setrunning")
              /\ state' = [state EXCEPT ![Top.sel] = "RUNNING"]
              /\ Goto("contexts")
              /\ UNCHANGED <<context, head, tail, next, current_ult, saved, unfinished,
                             counters, status, strayed>>

ReadContexts == /\ At("contexts")
                /\ GotoWith([Top EXCEPT !.pc = "setcurrent",
                               !.old = context[current_ult], !.new = context[Top.sel]])
                /\ UNCHANGED <<ulib, unfinished, counters, status, strayed>>

SetCurrent == /\ At("setcurrent")
              /\ current_ult' = Top.sel
              /\ Goto("swap")
              /\ UNCHANGED <<state, context, head, tail, next, saved, unfinished,
                             counters, status, strayed>>

\* A context whose content was resumed already names stack memory that has changed
\* since: resuming it again is "wild".
SwapContext ==
  LET suspended == [saved EXCEPT ![Top.old] = <<[Top EXCEPT !.pc = "resumed"]>> \o Below]
  IN /\ At("swap")
     /\ saved' = [suspended EXCEPT ![Top.new] = <<>>]
     /\ status' = IF suspended[Top.new] = <<>> THEN "wild" ELSE status
     /\ stack' = IF suspended[Top.new] = <<>> THEN stack ELSE suspended[Top.new]
     /\ UNCHANGED <<state, context, head, tail, next, current_ult, unfinished, counters,
                    strayed>>

Resume == /\ At("resumed")
          /\ ReturnToCaller(TRUE)
          /\ UNCHANGED <<ulib, unfinished, counters, strayed>>
-------------------------------------------------------------------------------
\* SIGALRM: lib_end_of_quantum_handler calls th_yield where the process stands.  Ghost, of
\* what the library cannot take:
\*   linking   a signal before one of lib_enqueue's statements
\*   yielding  a signal between the statements with which th_yield takes a slot off the list
\*             and resumes it
\*   claimed   two calls of th_create have chosen the same slot (ScanSlots)
Linking == {"setready", "sethead", "link", "settail", "endlist"}
Yielding == {"pop", "test", "setrunning", "contexts", "setcurrent", "swap"}

Signal == /\ status = "up"
          /\ signals < MaxSignals
          /\ signals' = signals + 1
          /\ stack' = <<Frame("head"), Frame("handler")>> \o stack
          /\ strayed' = strayed \cup CASE Top.pc \in Linking -> {"linking"}
                                        [] Top.pc \in Yielding -> {"yielding"}
                                        [] OTHER -> {}
          /\ UNCHANGED <<ulib, unfinished, created, calls, yields, status>>

Gone == status # "up" /\ UNCHANGED vars

Library == \/ ScanSlots \/ MakeContext \/ WriteTCB \/ YieldAfterCreate
           \/ SetReady \/ SetHead \/ LinkTail \/ SetTail \/ EndList
           \/ ReadHead \/ PopHead \/ TestSelected \/ SetRunning \/ ReadContexts
           \/ SetCurrent \/ SwapContext \/ Resume

Next == \/ UserCreates \/ UserYields \/ UserReturns \/ MarkFree \/ Drain
        \/ Library \/ Signal \/ Gone

Spec == Init /\ [][Next]_vars
-------------------------------------------------------------------------------
(* Properties *)

Pcs == {"user", "free", "unreachable", "drain", "scan", "makecontext", "write", "yieldnow",
        "created", "setready", "sethead", "link", "settail", "endlist", "head", "pop",
        "test", "setrunning", "contexts", "setcurrent", "swap", "resumed", "handler"}

Frames == [pc : Pcs,
           sel : Slots \cup {NULL}, ult : Slots \cup {NULL},
           old : Threads \cup {NULL}, new : Threads \cup {NULL},
           thread : Threads \cup {NULL}]

TypeOK == /\ state \in [Slots -> {"FREE", "RUNNING", "READY"}]
          /\ context \in [Slots -> Threads \cup {NULL}]
          /\ head \in Slots \cup {NULL} /\ tail \in Slots \cup {NULL}
          /\ next \in [Slots -> Slots \cup {NULL}]
          /\ current_ult \in Slots
          /\ saved \in [Threads -> Seq(Frames)]
          /\ stack \in Seq(Frames)
          /\ unfinished \subseteq Threads
          /\ created \in 0 .. MaxThreads /\ calls \in 0 .. MaxThreads
          /\ signals \in 0 .. MaxSignals
          /\ yields \in 0 .. MaxYields
          /\ strayed \subseteq {"linking", "yielding", "claimed"}
          /\ status \in {"up", "exited", "aborted", "wild"}

\* th_return's assertion (hilolay.c:21): "This line should never be reached. If that's
\* the case, there's a bug".
NeverAborts == status # "aborted"

\* It holds until a signal cuts through the list or a switch, or two creations share a slot,
\* over any nesting of handlers and th_yields.
AbortsOnlyStrayed == status = "aborted" => strayed # {}

\* The thread that really runs, and the one each stored stack belongs to.
ThreadOf(frames) == frames[Len(frames)].thread

\* The slots on the ready list.
node[i \in 1 .. MAX_ULTS] ==
  IF i = 1 THEN head ELSE IF node[i - 1] = NULL THEN NULL ELSE next[node[i - 1]]
Reachable == {node[i] : i \in 1 .. MAX_ULTS} \ {NULL}

\* Until then, and between two library calls, every unfinished thread is either the one that
\* runs, under its own slot, or can be resumed from the context of a READY slot that the
\* ready list reaches, or is the new thread of a th_create that a signal suspended before it
\* wrote the slot; swapcontext only resumes a context that was saved since it was last
\* resumed; and the process does not exit before all have finished (README.md:37 of hilolay:
\* "the execution of the other threads won't stop until they finish").
Made(k) == \E c \in Threads : \E i \in DOMAIN saved[c] :
             saved[c][i].pc = "write" /\ context[saved[c][i].sel] = k
NobodyLost ==
  strayed = {} =>
    /\ status # "wild"
    /\ status = "exited" => unfinished = {}
    /\ At("user") => \A k \in unfinished :
        \/ Top.thread = k /\ context[current_ult] = k
        \/ \E s \in Reachable : /\ context[s] = k /\ state[s] = "READY"
                                /\ saved[k] # <<>> /\ ThreadOf(saved[k]) = k
        \/ Made(k)
===============================================================================
