--------------------------------- MODULE SacFs ---------------------------------
(***************************************************************************)
(* The directories of sac_server: the node table, the lookup of a path in  *)
(* it and the creation of a directory, statement by statement, by threads  *)
(* that take no lock (the lines with the locks are comments).              *)
(*                                                                         *)
(* Nothing calls these functions yet, and the lines that map the disc are  *)
(* comments too.  The model gives the table the zeros of a new disc and    *)
(* lets the threads of the connections call, as FUSE's threads would.      *)
(*                                                                         *)
(* Nodes are numbered from 1, as determinar_nodo answers them; 0 is the    *)
(* root.  A path is a sequence of names.  A name is text; only whether it  *)
(* fits the 71 bytes of file_name counts: one of Full fills them, so that  *)
(* the zero that ends it is stored and looked for in parent_dir_block, and *)
(* one of Longer runs over into it: what the rest of it makes of those     *)
(* four bytes is any number with a low byte that is not 0.                 *)
(***************************************************************************)
EXTENDS Integers, Sequences, FiniteSets

CONSTANTS Threads, Names, Paths,
          Full, Longer,     \* names of 71 bytes, and of more
          Cut(_),           \* the first 71 bytes of a name of Longer
          Over(_),          \* the numbers that start with the bytes after those
          NODE_TABLE_SIZE,  \* and SAC_FILE_BY_TABLE: 1024
          BYTE,             \* 256
          NoName,           \* the empty string
          MaxCalls          \* bound: calls that are made

ASSUME SacAssumption == /\ IsFiniteSet(Threads)
                        /\ NODE_TABLE_SIZE \in Nat \ {0} /\ BYTE \in Nat \ {0}
                        /\ MaxCalls \in Nat
                        /\ Paths \subseteq Seq(Names)
                        /\ Full \subseteq Names /\ Longer \subseteq Names
                        /\ Full \cap Longer = {}
                        /\ \A n \in Longer : /\ Cut(n) \in Full
                                             /\ Over(n) # {} /\ Over(n) \subseteq Int
                                             /\ \A bytes \in Over(n) : bytes % BYTE # 0
                        /\ NoName \notin Names

Nodes == 1 .. NODE_TABLE_SIZE

VARIABLES node_table,   \* node_table[n]: state (0, or 2 for a directory), name, parent
          call,         \* call[t]: the locals of t and where it is
          made,         \* ghost: calls made so far, for the bound
          before,       \* ghost: the directories there were when a call was made
          answers,      \* ghost: what each thread was last told
          strayed       \* ghost: what has happened that the code does not guard against

vars == <<node_table, call, made, before, answers, strayed>>

DIRECTORY_T == 2
Free == [state |-> 0, name |-> NoName, parent |-> 0]

\* pc: "exists" and "father" are determinar_nodo at work on path and on its parent; rest are
\* the components still to be found, nodo the number of those before, i the loop's counter;
\* reads are the comparisons made with the node it stands on, same what they have come to.
\* Two ghosts: whether that node was finished then, and the nodes that were at the call.
Idle == [pc |-> "idle", path |-> <<>>, rest |-> <<>>, nodo |-> 0, i |-> 0, father |-> 0, node |-> 1,
         reads |-> 0, same |-> FALSE, whole |-> FALSE, stood |-> {}]

Init == /\ node_table = [n \in Nodes |-> Free]
        /\ call = [t \in Threads |-> Idle]
        /\ made = 0
        /\ before = [t \in Threads |-> {}]
        /\ answers = [t \in Threads |-> "none"]
        /\ strayed = {}
-------------------------------------------------------------------------------
(* The paths *)

Parent(path) == SubSeq(path, 1, Len(path) - 1)
NameOf(path) == path[Len(path)]

(* What the code does not guard against:                                    *)
(*   shared  two threads take the same free node                            *)
(*   early   a lookup takes a node that was not finished when it met it     *)
(*   twice   two threads make the same directory                            *)
(*   long    a name that fills file_name under a number whose low byte is   *)
(*           not 0, or that runs over                                       *)
Strays(what, condition) == strayed' = strayed \cup (IF condition THEN {what} ELSE {})

\* t has chosen a node; it has begun to write it.
Chose(t) == call[t].pc \in {"state", "name", "parent"}
Writing(t) == call[t].pc \in {"name", "parent"}

\* Node n is taken and nobody is writing it, though somebody may have chosen it before.
Complete(n) == node_table[n].state # 0 /\ \A t \in Threads : Writing(t) => call[t].node # n

\* Where each node is: following the parents, which come first.
PathsOf(table) ==
  LET P[n \in 0 .. NODE_TABLE_SIZE] ==
        IF n = 0 THEN <<>>
        ELSE Append(IF table[n].parent \in 0 .. n - 1 THEN P[table[n].parent] ELSE <<>>, table[n].name)
  IN P

\* The directories of the table: the paths of the nodes that nobody is writing.
Dirs == LET P == PathsOf(node_table) IN {P[n] : n \in {n \in Nodes : Complete(n)}}

Goes(t, locals) == call' = [call EXCEPT ![t] = locals]

Returns(t, a) == /\ Goes(t, Idle)
                 /\ answers' = [answers EXCEPT ![t] = a]
                 /\ before' = [before EXCEPT ![t] = {}]
-------------------------------------------------------------------------------
(* determinar_nodo *)

\* strcmp goes on into the parent's bytes when file_name has no end in it.
SameName(name, node) ==
  \/ /\ name = node.name
     /\ name \in Full => node.parent % BYTE = 0
  \/ name \in Longer /\ node.name = Cut(name) /\ node.parent \in Over(name)

Looking(t) == call[t].pc \in {"exists", "father"} /\ call[t].rest # <<>>

\* The loop stands on node i + 1 and has made so many of its three comparisons, of which |
\* leaves out none.
Compared(t, reads) == Looking(t) /\ call[t].i < NODE_TABLE_SIZE /\ call[t].reads = reads

ComparesParent(t) ==
  LET c == call[t]
  IN /\ Compared(t, 0)
     /\ Goes(t, [c EXCEPT !.reads = 1, !.same = node_table[c.i + 1].parent = c.nodo,
                           !.whole = Complete(c.i + 1)])
     /\ UNCHANGED <<node_table, made, before, answers, strayed>>

ComparesName(t) ==
  LET c == call[t]
  IN /\ Compared(t, 1)
     /\ Goes(t, [c EXCEPT !.reads = 2, !.same = @ /\ SameName(Head(c.rest), node_table[c.i + 1])])
     /\ UNCHANGED <<node_table, made, before, answers, strayed>>

Turn(c, i) == [c EXCEPT !.i = i, !.reads = 0, !.same = FALSE, !.whole = FALSE]

\* The state decides: this is the node of the component, whose number is one more than i.
Found(t) == LET c == call[t]
            IN /\ Compared(t, 2)
               /\ c.same /\ node_table[c.i + 1].state # 0
               /\ Goes(t, [Turn(c, 0) EXCEPT !.nodo = c.i + 1, !.rest = Tail(c.rest)])
               /\ Strays("early", ~c.whole)
               /\ UNCHANGED <<node_table, made, before, answers>>

\* It goes on to the next node.
Passes(t) == LET c == call[t]
             IN /\ Compared(t, 2)
                /\ ~c.same \/ node_table[c.i + 1].state = 0
                /\ Goes(t, Turn(c, c.i + 1))
                /\ UNCHANGED <<node_table, made, before, answers, strayed>>

\* A slip: nobody asks whether the loop got to the end.
MissesUnseen(t) == LET c == call[t]
                   IN /\ Looking(t)
                      /\ c.i = NODE_TABLE_SIZE
                      /\ Goes(t, [c EXCEPT !.nodo = c.i + 1, !.rest = Tail(c.rest), !.i = 0])
                      /\ UNCHANGED <<node_table, made, before, answers, strayed>>

\* It ends one past the table: -1, which no node has for parent unless a name runs over, and
\* the next component is looked for all the same.
Misses(t) == LET c == call[t]
             IN /\ Looking(t)
                /\ c.i = NODE_TABLE_SIZE
                /\ Goes(t, [c EXCEPT !.nodo = -1, !.rest = Tail(c.rest), !.i = 0])
                /\ UNCHANGED <<node_table, made, before, answers, strayed>>
-------------------------------------------------------------------------------
(* sac_create_directory *)

Create(t, path) == /\ call[t].pc = "idle"
                   /\ made < MaxCalls
                   /\ made' = made + 1
                   /\ Goes(t, [Idle EXCEPT !.pc = "exists", !.path = path, !.rest = path,
                                           !.stood = {n \in Nodes : Complete(n)}])
                   /\ before' = [before EXCEPT ![t] = Dirs]
                   /\ answers' = [answers EXCEPT ![t] = "none"]
                   /\ UNCHANGED <<node_table, strayed>>

Looked(t, where) == call[t].pc = where /\ call[t].rest = <<>>

Exists(t) == /\ Looked(t, "exists")
             /\ call[t].nodo # -1
             /\ Returns(t, "EEXIST")
             /\ UNCHANGED <<node_table, made, strayed>>

\* The parent is the root, or has to be looked for.
LooksForParent(t) ==
  /\ Looked(t, "exists")
  /\ call[t].nodo = -1
  /\ Goes(t, [call[t] EXCEPT !.pc = "father", !.rest = Parent(call[t].path), !.nodo = 0])
  /\ UNCHANGED <<node_table, made, before, answers, strayed>>

NoParent(t) == /\ Looked(t, "father")
               /\ call[t].nodo = -1
               /\ Returns(t, "ENOENT")
               /\ UNCHANGED <<node_table, made, strayed>>

LooksForFree(t) ==
  /\ Looked(t, "father")
  /\ call[t].nodo # -1
  /\ Goes(t, [call[t] EXCEPT !.pc = "free", !.father = call[t].nodo])
  /\ UNCHANGED <<node_table, made, before, answers, strayed>>

\* A slip: the search stops with a node still to be looked at.
LastIsFull(t) == call[t].i = NODE_TABLE_SIZE
\* After i turns node is &node_table_start[i - 1]; the first is looked at twice, and the one
\* past the table is read when i says that there is none.
PastTable(t) == call[t].i = NODE_TABLE_SIZE + 1
NodeAt(i) == IF i = 0 THEN 1 ELSE i

\* Slips: it takes the last that is free; it takes the node it stands on, free or not.
TakesLast(t) == LET n == CHOOSE n \in Nodes : /\ node_table[n].state = 0
                                              /\ \A m \in Nodes : node_table[m].state = 0 => m <= n
                IN /\ call[t].pc = "free" /\ ~PastTable(t)
                   /\ \E m \in Nodes : node_table[m].state = 0
                   /\ Goes(t, [call[t] EXCEPT !.pc = "state", !.node = n])
                   /\ Strays("shared", \E u \in Threads : Chose(u) /\ call[u].node = n)
                   /\ UNCHANGED <<node_table, made, before, answers>>
TakesAny(t) == LET n == NodeAt(call[t].i)
               IN /\ call[t].pc = "free" /\ ~PastTable(t)
                  /\ Goes(t, [call[t] EXCEPT !.pc = "state", !.node = n])
                  /\ Strays("shared", \E u \in Threads : Chose(u) /\ call[u].node = n)
                  /\ UNCHANGED <<node_table, made, before, answers>>

Takes(t) == LET n == NodeAt(call[t].i)
            IN /\ call[t].pc = "free" /\ ~PastTable(t)
               /\ node_table[n].state = 0
               /\ Goes(t, [call[t] EXCEPT !.pc = "state", !.node = n])
               /\ Strays("shared", \E u \in Threads : Chose(u) /\ call[u].node = n)
               /\ UNCHANGED <<node_table, made, before, answers>>

SkipsTaken(t) == /\ call[t].pc = "free" /\ ~PastTable(t)
                 /\ node_table[NodeAt(call[t].i)].state # 0
                 /\ Goes(t, [call[t] EXCEPT !.i = @ + 1])
                 /\ UNCHANGED <<node_table, made, before, answers, strayed>>

NoRoom(t) == /\ call[t].pc = "free" /\ PastTable(t)
             /\ Returns(t, "EDQUOT")
             /\ UNCHANGED <<node_table, made, strayed>>

Stores(n, node) == node_table' = [node_table EXCEPT ![n] = node]

StoreState(t) == /\ call[t].pc = "state"
                 /\ Stores(call[t].node, [node_table[call[t].node] EXCEPT !.state = DIRECTORY_T])
                 /\ Goes(t, [call[t] EXCEPT !.pc = "name"])
                 /\ UNCHANGED <<made, before, answers, strayed>>

\* strcpy: what does not fit goes into the parent, if only the zero that ends it.
StoreName(t) ==
  LET n == call[t].node
      name == NameOf(call[t].path)
  IN /\ call[t].pc = "name"
     /\ \/ /\ name \in Longer
           /\ \E bytes \in Over(name) :
                Stores(n, [node_table[n] EXCEPT !.name = Cut(name), !.parent = bytes])
        \/ /\ name \in Full
           /\ Stores(n, [node_table[n] EXCEPT !.name = name, !.parent = @ - (@ % BYTE)])
        \/ /\ name \notin Full \cup Longer
           /\ Stores(n, [node_table[n] EXCEPT !.name = name])
     /\ Goes(t, [call[t] EXCEPT !.pc = "parent"])
     /\ Strays("long", name \in Longer \/ (name \in Full /\ call[t].father % BYTE # 0))
     /\ UNCHANGED <<made, before, answers>>

StoreParent(t) ==
  LET path == call[t].path
  IN /\ call[t].pc = "parent"
     /\ Stores(call[t].node, [node_table[call[t].node] EXCEPT !.parent = call[t].father])
     /\ Strays("twice", path \in Dirs)
     /\ Returns(t, "0")
     /\ UNCHANGED made

Steps(t) == \/ ComparesParent(t) \/ ComparesName(t) \/ Found(t) \/ Passes(t) \/ Misses(t)
            \/ Exists(t) \/ LooksForParent(t) \/ NoParent(t) \/ LooksForFree(t)
            \/ Takes(t) \/ SkipsTaken(t) \/ NoRoom(t)
            \/ StoreState(t) \/ StoreName(t) \/ StoreParent(t)

Next == \E t \in Threads : (\E path \in Paths : Create(t, path)) \/ Steps(t)

Spec == Init /\ [][Next]_vars
-------------------------------------------------------------------------------
(* Properties *)

Places == {"idle", "exists", "father", "free", "state", "name", "parent"}
Numbers == -1 .. NODE_TABLE_SIZE

TypeOK ==
  /\ node_table \in [Nodes -> [state : {0, DIRECTORY_T}, name : Names \cup {NoName}, parent : Int]]
  /\ call \in [Threads -> [pc : Places, path : Seq(Names), rest : Seq(Names), nodo : Numbers,
                           i : 0 .. NODE_TABLE_SIZE + 1, father : Numbers \ {-1}, node : Nodes,
                           reads : 0 .. 2, same : BOOLEAN, whole : BOOLEAN, stood : SUBSET Nodes]]
  /\ made \in 0 .. MaxCalls
  /\ answers \in [Threads -> {"none", "0", "EEXIST", "ENOENT", "EDQUOT"}]
  /\ strayed \subseteq {"shared", "early", "twice", "long"}

\* The taken nodes are always the first ones, whoever takes them and however many at once:
\* the search of sac_write.c:39 leaves no hole for a later one to fill out of order.
NoHoles == \A n \in Nodes : node_table[n].state # 0 => \A m \in 1 .. n - 1 : node_table[m].state # 0

\* So a directory comes after its parent in the table, and following the parents
\* (parent_dir_block, sac_write.c:49) always ends at the root, under every interleaving
\* of threads without locks and whatever a long name left there before.
ParentsBefore == \A n \in Nodes : Complete(n) => node_table[n].parent \in 0 .. n - 1

\* A call writes no node that was finished when it was made (sac_write.c:39-49): what a
\* thread was told 0 for can be overwritten, but only by a call that was under way then and
\* had chosen the node as well.
NodesStay == [][\A t \in Threads : call'[t] # call[t] =>
                  \A n \in call[t].stood : node_table'[n] = node_table[n]]_vars

\* A call as the tree sees it: the path and the directories there were when it was made.
AbstractCall(t) ==
  IF call[t].pc = "idle" THEN [path |-> <<>>, before |-> {}, on |-> FALSE]
  ELSE [path |-> call[t].path, before |-> before[t], on |-> TRUE]

Tree == INSTANCE SacTree WITH
  Capacity <- NODE_TABLE_SIZE,
  dirs <- Dirs,
  calls <- [t \in Threads |-> AbstractCall(t)]

\* Until one of the four things happens, calls that overlap in any way are answered as by
\* a tree of directories: the answers are right, and the table is that tree.
ImplementsTree == Tree!Init /\ [][strayed' = {} => Tree!Next]_(Tree!tree)
===============================================================================
