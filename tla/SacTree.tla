-------------------------------- MODULE SacTree --------------------------------
(***************************************************************************)
(* What sac_create_directory promises the threads that call it (the RET    *)
(* of sac_write.c and of sac_operate.c): a tree of directories that only   *)
(* grows.  A directory is named by its path, a sequence of names; the      *)
(* root is the empty one and always there.  An answer has to be right at   *)
(* some moment between the call and its return; since nothing is ever      *)
(* removed, the two ends say it all.                                       *)
(***************************************************************************)
EXTENDS Naturals, Sequences, FiniteSets

CONSTANTS Threads, Paths, Capacity   \* Capacity: NODE_TABLE_SIZE

VARIABLES dirs,      \* the paths of the directories made
          calls,     \* calls[t]: the path asked for and the directories there were then
          answers    \* answers[t]: what t was told, if its last call has returned

tree == <<dirs, calls, answers>>

NoCall == [path |-> <<>>, before |-> {}, on |-> FALSE]

There(path, D) == path = <<>> \/ path \in D
Parent(path) == SubSeq(path, 1, Len(path) - 1)

Init == /\ dirs = {}
        /\ calls = [t \in Threads |-> NoCall]
        /\ answers = [t \in Threads |-> "none"]

Ask(t, path) == /\ ~calls[t].on
                /\ calls' = [calls EXCEPT ![t] = [path |-> path, before |-> dirs, on |-> TRUE]]
                /\ answers' = [answers EXCEPT ![t] = "none"]
                /\ UNCHANGED dirs

Answer(t, a) == /\ calls[t].on
                /\ answers' = [answers EXCEPT ![t] = a]
                /\ calls' = [calls EXCEPT ![t] = NoCall]

\* It is made: it was not there, and its parent is.
Made(t) == LET path == calls[t].path
           IN /\ path # <<>> /\ path \notin dirs
              /\ There(Parent(path), dirs)
              /\ dirs' = dirs \cup {path}
              /\ Answer(t, "0")

Exists(t) == /\ There(calls[t].path, dirs)
             /\ Answer(t, "EEXIST")
             /\ UNCHANGED dirs

NoParent(t) == /\ calls[t].path # <<>>
               /\ ~There(Parent(calls[t].path), calls[t].before)
               /\ Answer(t, "ENOENT")
               /\ UNCHANGED dirs

\* There is no room: each of the others that are under way may have taken some.
NoRoom(t) == /\ Cardinality(dirs) + Cardinality({u \in Threads \ {t} : calls[u].on}) >= Capacity
             /\ Answer(t, "EDQUOT")
             /\ UNCHANGED dirs

Next == \E t \in Threads : \/ \E path \in Paths : Ask(t, path)
                           \/ Made(t) \/ Exists(t) \/ NoParent(t) \/ NoRoom(t)

Spec == Init /\ [][Next]_tree
===============================================================================
