----------------------------- MODULE ServersProofs -----------------------------
(***************************************************************************)
(* Proofs about Servers.                                                   *)
(*                                                                         *)
(* Each thread of sac_server has a connection of its own: a descriptor is  *)
(* handed over in memory, and until the thread has read it there, that     *)
(* memory stands for the thread's copy; the descriptors handed over differ *)
(* because none is ever closed.                                            *)
(*                                                                         *)
(* The messages of a connection are delivered.  What is to come on it, in  *)
(* flight or arrived, is at every moment the packages of the messages that *)
(* its reader has not received, less the ints of the first that it has     *)
(* read.  This needs what a package is when it is put together and taken   *)
(* apart: the number that the bytes of an int make is that int, and the    *)
(* fields found in a buffer are the fields that were put in.  The          *)
(* recursive functions of the model are used by the equations they solve,  *)
(* which is proved first, by the rank of their arguments.                  *)
(***************************************************************************)
EXTENDS Servers, TLAPS, SequenceTheorems, WellFoundedInduction

-------------------------------------------------------------------------------
(* Whose connection *)

\* The descriptor that is a thread's, whether it has read it or is about to.
Holds(r) == pc[r] = "start" \/ Running(r)
Held(r) == IF pc[r] = "start" THEN cell[r] ELSE fd[r]

Tables == /\ DOMAIN pc = Readers
          /\ DOMAIN cell = Threads /\ DOMAIN fd = Threads
          /\ table \in [FDs -> Clients \cup {None}]
          /\ given \in [Threads -> Clients \cup {None}]
          /\ backlog \in Seq(Clients)

\* A thread that is still to be made was given nothing; the one that exists holds the
\* descriptor of what it was given, or none.
NotYet(r) == pc[r] = "none" => given[r] = None
Own(r) == Holds(r) => IF Held(r) = -1 THEN given[r] = None
                      ELSE Held(r) \in FDs /\ given[r] = table[Held(r)] /\ given[r] # None

\* No two hold the same.
Apart(r, s) == Holds(r) /\ Holds(s) /\ Held(r) # -1 => Held(r) # Held(s)

Inv == /\ Tables
       /\ \A r \in Threads : NotYet(r) /\ Own(r)
       /\ \A r, s \in Threads : r # s => Apart(r, s)
-------------------------------------------------------------------------------
\* What the constants give: -1 is no descriptor, and muse's thread none of sac_server's.
LEMMA Numbers ==
  /\ MAX_FD \in Nat /\ -1 \notin FDs /\ None \notin Clients
  /\ Lib \notin Threads /\ Threads \subseteq Readers /\ Readers = Threads \cup {Lib}
<1> QED
  BY ServersAssumption DEF FDs

\* The initial states have the invariant.
LEMMA InitInv == Init => Inv
<1> SUFFICES ASSUME Init PROVE Inv
  OBVIOUS
<1>1. Tables
  BY Numbers, EmptySeq DEF Init, Tables
<1>2. \A r \in Threads : pc[r] = "none" /\ given[r] = None
  BY Numbers DEF Init
<1> QED
  BY <1>1, <1>2 DEF Inv, NotYet, Own, Apart, Holds, Running

\* A step that leaves the hand-over alone, and in which a thread only goes on, or ends.
LEMMA OthersKeep ==
  ASSUME Inv, UNCHANGED <<table, cell, fd, given>>, backlog' \in Seq(Clients), DOMAIN pc' = Readers,
         \A r \in Threads : \/ pc'[r] = pc[r]
                            \/ Running(r) /\ pc'[r] \notin {"none", "start"}
  PROVE  Inv'
<1>1. Tables'
  BY DEF Inv, Tables
<1>2. ASSUME NEW r \in Threads
      PROVE  /\ pc'[r] = "none" => pc[r] = "none"
             /\ Holds(r)' => Holds(r) /\ Held(r)' = Held(r)
  BY DEF Holds, Held, Running
<1>3. \A r \in Threads : NotYet(r)' /\ Own(r)'
  BY <1>2 DEF Inv, NotYet, Own
<1>4. \A r, s \in Threads : r # s => Apart(r, s)'
  BY <1>2 DEF Inv, Apart
<1> QED
  BY <1>1, <1>3, <1>4 DEF Inv

\* The accept loop gives the next thread a descriptor nobody holds, or none.
LEMMA HandOverKeeps ==
  ASSUME Inv, NEW r \in Threads, pc[r] = "none", NEW f, Starts(r), HandsOver(r, f), UNCHANGED fd,
         Tables',
         \A s \in Threads \ {r} : given'[s] = given[s],
         \A d \in FDs : table[d] # None => table'[d] = table[d],
         \/ f = -1 /\ given'[r] = None
         \/ f \in FDs /\ table[f] = None /\ given'[r] = table'[f] /\ given'[r] # None
  PROVE  Inv'
<1>1. /\ pc'[r] \in {"start", "never"}
      /\ cell'[r] = f
      /\ \A s \in Threads \ {r} : pc'[s] = pc[s] /\ cell'[s] = cell[s] /\ fd'[s] = fd[s]
  BY Numbers DEF Inv, Tables, Starts, HandsOver
<1>2. ASSUME NEW s \in Threads, s # r
      PROVE  /\ NotYet(s)' /\ Own(s)'
             /\ Holds(s)' = Holds(s) /\ Held(s)' = Held(s)
  <2>1. Holds(s)' = Holds(s) /\ Held(s)' = Held(s)
    BY <1>1, <1>2 DEF Holds, Held, Running
  <2>2. NotYet(s)'
    BY <1>1, <1>2 DEF Inv, NotYet
  <2>3. Own(s)'
    BY <1>2, <2>1 DEF Inv, Own
  <2> QED
    BY <2>1, <2>2, <2>3
<1>3. NotYet(r)' /\ Own(r)' /\ (Holds(r)' => Held(r)' = f)
  BY <1>1, Numbers DEF NotYet, Own, Holds, Held, Running
<1>4. ASSUME NEW s \in Threads, s # r, Holds(s), Held(s) # -1 PROVE Held(s) # f
  <2>1. Held(s) \in FDs /\ table[Held(s)] # None
    BY <1>4 DEF Inv, Own
  <2> QED
    BY <2>1, Numbers
<1>5. \A s, t \in Threads : s # t => Apart(s, t)'
  <2> SUFFICES ASSUME NEW s \in Threads, NEW t \in Threads, s # t, Holds(s)', Holds(t)', Held(s)' # -1
               PROVE  Held(s)' # Held(t)'
    BY DEF Apart
  <2>1. CASE s = r
    BY <1>2, <1>3, <1>4, <2>1
  <2>2. CASE t = r
    BY <1>2, <1>3, <1>4, <2>2
  <2>3. CASE s # r /\ t # r
    BY <1>2, <2>3 DEF Inv, Apart
  <2> QED
    BY <2>1, <2>2, <2>3
<1> QED
  BY <1>2, <1>3, <1>5 DEF Inv

\* Every step keeps the invariant.
LEMMA InvStep == Inv /\ [Next]_vars => Inv'
<1> SUFFICES ASSUME Inv, [Next]_vars PROVE Inv'
  OBVIOUS
<1> USE DEF process, readers, wire
<1>1. ASSUME UNCHANGED <<pc, process>>, backlog' \in Seq(Clients) PROVE Inv'
  BY <1>1, OthersKeep DEF Inv, Tables
<1>2. ASSUME NEW c \in Clients, Connect(c) PROVE Inv'
  <2>1. backlog' \in Seq(Clients)
    BY <1>2, AppendProperties DEF Connect, Inv, Tables
  <2> QED
    BY <1>1, <1>2, <2>1 DEF Connect
<1>3. CASE \/ \E c \in Clients : \E o \in Operations[c] : Operate(c, o)
           \/ \E m \in LibMessages : Ask(m)
           \/ \E c \in Conns : Leave(c) \/ Arrives(c)
           \/ UNCHANGED vars
  <2>1. UNCHANGED <<pc, process, backlog>>
    BY <1>3 DEF Operate, Ask, Leave, Arrives, Send, Arrive, vars
  <2> QED
    BY <1>1, <2>1 DEF Inv, Tables
<1>4. ASSUME NEW r \in Threads, Accept(r) PROVE Inv'
  <2>1. PICK f \in FreeFDs : table' = [table EXCEPT ![f] = Head(backlog)] /\ HandsOver(r, f)
    BY <1>4 DEF Accept
  <2>2. Head(backlog) \in Clients /\ Tail(backlog) \in Seq(Clients) /\ f \in FDs /\ table[f] = None
    BY <1>4, HeadTailProperties DEF Accept, FreeFDs, Inv, Tables
  <2>3. /\ table' \in [FDs -> Clients \cup {None}] /\ table'[f] = Head(backlog)
        /\ \A d \in FDs \ {f} : table'[d] = table[d]
    BY <2>1, <2>2 DEF Inv, Tables
  <2>4. /\ given' \in [Threads -> Clients \cup {None}] /\ given'[r] = Head(backlog)
        /\ \A s \in Threads \ {r} : given'[s] = given[s]
    BY <1>4, <2>2 DEF Accept, Inv, Tables
  <2>5. Tables'
    BY <1>4, <2>1, <2>2, <2>3, <2>4 DEF Accept, Starts, HandsOver, Inv, Tables
  <2> QED
    BY <1>4, <2>1, <2>2, <2>3, <2>4, <2>5, HandOverKeeps, Numbers DEF Accept, NextThread
<1>5. ASSUME NEW r \in Threads, AcceptFails(r) PROVE Inv'
  <2>1. Tables'
    BY <1>5 DEF AcceptFails, Starts, HandsOver, Inv, Tables
  <2>2. given[r] = None
    BY <1>5 DEF AcceptFails, NextThread, Inv, NotYet
  <2> QED
    BY <1>5, <2>1, <2>2, HandOverKeeps DEF AcceptFails, NextThread
<1>6. ASSUME NEW r \in Threads, Begin(r) PROVE Inv'
  <2>1. /\ pc[r] = "start" /\ pc'[r] = "opcode" /\ fd'[r] = cell[r]
        /\ \A s \in Threads \ {r} : pc'[s] = pc[s] /\ cell'[s] = cell[s] /\ fd'[s] = fd[s]
    BY <1>6, Numbers DEF Begin, Inv, Tables
  <2>2. \A s \in Threads : /\ Holds(s)' = Holds(s) /\ Held(s)' = Held(s)
                           /\ pc'[s] = "none" <=> pc[s] = "none"
    BY <2>1 DEF Holds, Held, Running
  <2>3. Tables'
    BY <1>6 DEF Begin, Inv, Tables
  <2>4. UNCHANGED <<table, given>>
    BY <1>6 DEF Begin
  <2>5. \A s \in Threads : NotYet(s)' /\ Own(s)'
    BY <2>2, <2>4 DEF Inv, NotYet, Own
  <2>6. \A s, t \in Threads : s # t => Apart(s, t)'
    BY <2>2 DEF Inv, Apart
  <2> QED
    BY <2>3, <2>5, <2>6 DEF Inv
<1>7. ASSUME NEW r \in Readers, Ends(r) PROVE Inv'
  <2>1. /\ UNCHANGED <<table, cell, fd, given, backlog>>
        /\ pc[r] = "opcode" /\ pc' = [pc EXCEPT ![r] = "ended"]
    BY <1>7 DEF Ends
  <2>2. DOMAIN pc' = Readers /\ backlog' \in Seq(Clients)
    BY <2>1 DEF Inv, Tables
  <2>3. ASSUME NEW s \in Threads
        PROVE  \/ pc'[s] = pc[s]
               \/ Running(s) /\ pc'[s] \notin {"none", "start"}
    <3>1. s \in DOMAIN pc
      BY Numbers DEF Inv, Tables
    <3>2. pc'[s] = IF s = r THEN "ended" ELSE pc[s]
      BY <2>1, <3>1, Zenon
    <3> QED
      BY <2>1, <3>2 DEF Running
  <2> QED
    BY <2>1, <2>2, <2>3, OthersKeep
<1>8. ASSUME NEW r \in Readers, Receives(r) PROVE Inv'
  <2>1. UNCHANGED <<table, cell, fd, given, backlog>>
    BY <1>8 DEF Receives
  <2>2. PICK to \in {"opcode", "size", "buffer", "lost"} : pc' = [pc EXCEPT ![r] = to]
    <3>1. PICK c \in Conns : Reads(r, c)
      BY <1>8 DEF Receives
    <3>2. CASE RecvOpcode(r, c)
      BY <3>2 DEF RecvOpcode
    <3>3. CASE RecvSize(r, c)
      BY <3>3 DEF RecvSize
    <3>4. CASE RecvBuffer(r, c)
      BY <3>4 DEF RecvBuffer, TakesApart
    <3> QED
      BY <3>1, <3>2, <3>3, <3>4 DEF Reads
  <2>3. pc[r] \in {"opcode", "size", "buffer"}
    BY <1>8 DEF Receives, Reads, RecvOpcode, RecvSize, RecvBuffer
  <2>4. DOMAIN pc' = Readers /\ backlog' \in Seq(Clients)
    BY <2>1, <2>2 DEF Inv, Tables
  <2>5. ASSUME NEW s \in Threads
        PROVE  \/ pc'[s] = pc[s]
               \/ Running(s) /\ pc'[s] \notin {"none", "start"}
    <3>1. s \in DOMAIN pc
      BY Numbers DEF Inv, Tables
    <3>2. pc'[s] = IF s = r THEN to ELSE pc[s]
      BY <2>2, <3>1, Zenon
    <3> QED
      BY <2>2, <2>3, <3>2 DEF Running
  <2> QED
    BY <2>1, <2>4, <2>5, OthersKeep
<1> QED
  BY <1>2, <1>3, <1>4, <1>5, <1>6, <1>7, <1>8 DEF Next

\* For every number of clients, threads and descriptors, a thread reads the connection that
\* was accepted for it and shares it with no other, however late it reads what it was handed
\* and whoever comes and goes meanwhile (sac_server.c:80-86, 97-98).
THEOREM EachItsOwn == Spec => []OwnConnection
<1>1. Inv => OwnConnection
  BY Numbers DEF Inv, Own, Apart, Holds, Held, Running, OwnConnection
<1> QED
  BY <1>1, InitInv, InvStep, PTL DEF Spec
-------------------------------------------------------------------------------
(* Least elements, and division *)

\* The least of some numbers.
LEMMA LeastOf ==
  ASSUME NEW S \in SUBSET Nat, S # {}
  PROVE  \E x \in S : \A y \in S : x <= y
<1>1. PICK x \in S : \A y \in S : ~(<<y, x>> \in OpToRel(<, Nat))
  BY NatLessThanWellFounded, WFMin, Zenon
<1>2. ASSUME NEW y \in S, y < x PROVE <<y, x>> \in OpToRel(<, Nat)
  BY <1>2 DEF OpToRel
<1>3. \A y \in S : ~(y < x)
  BY <1>1, <1>2, Zenon
<1> QED BY <1>3

\* A quotient and its rest.
LEMMA Division ==
  ASSUME NEW a \in Nat, NEW b \in Nat \ {0}
  PROVE  a \div b \in Nat /\ a % b \in 0 .. b - 1 /\ a = (b * (a \div b)) + (a % b)
BY SMT

\* To divide twice.
LEMMA QuotientTwice ==
  ASSUME NEW a \in Nat, NEW b \in Nat \ {0}, NEW c \in Nat \ {0}
  PROVE  b * c \in Nat \ {0} /\ a \div (b * c) = (a \div b) \div c
BY SMT

-------------------------------------------------------------------------------
(* Recursive functions *)

\* T[k][g] is what a recursion gives at k when it has given g elsewhere; only what it has
\* given at a lower rank counts.
Recursion(D, V, N, rank, T) ==
  /\ N \in Nat /\ rank \in [D -> 0 .. N]
  /\ T \in [D -> [[D -> V] -> V]]
  /\ \A k \in D : \A g, h \in [D -> V] :
       (\A j \in D : rank[j] < rank[k] => g[j] = h[j]) => T[k][g] = T[k][h]

\* It has a solution.
LEMMA Solvable ==
  ASSUME NEW D, NEW V, NEW N, NEW rank, NEW T, Recursion(D, V, N, rank, T), V # {}
  PROVE  \E f \in [D -> V] : \A k \in D : f[k] = T[k][f]
<1> DEFINE Solved(n) == \E f \in [D -> V] : \A k \in D : rank[k] < n => f[k] = T[k][f]
           Bad == {n \in Nat : ~Solved(n)}
<1>1. Bad = {}
  <2> SUFFICES ASSUME Bad # {} PROVE FALSE
    OBVIOUS
  <2>0. Bad \in SUBSET Nat
    BY Zenon
  <2> HIDE DEF Solved
  <2>1. PICK n \in Bad : \A j \in Bad : n <= j
    <3> HIDE DEF Bad
    <3> QED BY <2>0, LeastOf
  <2>2. n \in Nat /\ ~Solved(n)
    BY <2>1
  <2>3. n # 0
    <3>1. PICK v \in V : TRUE
      OBVIOUS
    <3>2. [k \in D |-> v] \in [D -> V] /\ \A k \in D : ~(rank[k] < 0)
      BY DEF Recursion
    <3>3. Solved(0)
      BY <3>2 DEF Solved
    <3> QED BY <2>2, <3>3
  <2>4. n - 1 \in Nat /\ Solved(n - 1)
    BY <2>1, <2>2, <2>3
  <2>5. PICK f \in [D -> V] : \A k \in D : rank[k] < n - 1 => f[k] = T[k][f]
    BY <2>4 DEF Solved
  <2> DEFINE g == [k \in D |-> T[k][f]]
  <2>6. g \in [D -> V]
    BY DEF Recursion
  <2>7. ASSUME NEW k \in D, rank[k] < n PROVE g[k] = T[k][g]
    <3>1. ASSUME NEW j \in D, rank[j] < rank[k] PROVE f[j] = g[j]
      <4>1. rank[j] < n - 1
        BY <2>2, <2>7, <3>1 DEF Recursion
      <4> QED BY <2>5, <4>1
    <3>2. T[k][f] = T[k][g]
      <4> HIDE DEF g
      <4> QED BY <2>6, <3>1, Zenon DEF Recursion
    <3> QED BY <3>2
  <2> HIDE DEF g
  <2>8. Solved(n)
    BY <2>6, <2>7 DEF Solved
  <2> QED BY <2>2, <2>8
<1>2. N + 1 \in Nat /\ \A k \in D : rank[k] < N + 1
  BY DEF Recursion
<1>3. Solved(N + 1)
  <2> HIDE DEF Solved
  <2> QED BY <1>1, <1>2
<1> QED BY <1>2, <1>3

\* A function whose values are in V if those at lower ranks are.
TypedByRank(D, V, N, rank, f) ==
  /\ N \in Nat /\ rank \in [D -> 0 .. N] /\ f = [k \in D |-> f[k]]
  /\ \A k \in D : (\A j \in D : rank[j] < rank[k] => f[j] \in V) => f[k] \in V

\* Such a function has its values in V.
LEMMA Typed ==
  ASSUME NEW D, NEW V, NEW N, NEW rank, NEW f, TypedByRank(D, V, N, rank, f)
  PROVE  f \in [D -> V]
<1> USE DEF TypedByRank
<1> DEFINE Bad == {rank[k] : k \in {k \in D : f[k] \notin V}}
<1>1. Bad = {}
  <2> SUFFICES ASSUME Bad # {} PROVE FALSE
    OBVIOUS
  <2>1. Bad \in SUBSET Nat
    OBVIOUS
  <2>2. PICK n \in Bad : \A j \in Bad : n <= j
    <3> HIDE DEF Bad
    <3> QED BY <2>1, LeastOf
  <2>3. PICK k \in D : f[k] \notin V /\ n = rank[k]
    BY <2>2
  <2>4. ASSUME NEW j \in D, rank[j] < rank[k] PROVE f[j] \in V
    <3>1. rank[j] \in Nat /\ rank[k] \in Nat
      OBVIOUS
    <3>2. rank[j] \notin Bad
      <4> HIDE DEF Bad
      <4> QED BY <2>2, <2>3, <2>4, <3>1
    <3> QED BY <3>2
  <2> QED BY <2>3, <2>4
<1>2. \A k \in D : f[k] \in V
  BY <1>1
<1> QED BY <1>2, Zenon

-------------------------------------------------------------------------------
(* Numbers and their bytes *)

\* The powers are what the recursion says.
LEMMA PowerIs ==
  /\ Power \in [0 .. INT -> Nat \ {0}]
  /\ Power[0] = 1
  /\ \A i \in 1 .. INT : Power[i] = B * Power[i - 1]
<1> DEFINE D == 0 .. INT
           V == Nat \ {0}
           Body(g, i) == IF i = 0 THEN 1 ELSE B * g[i - 1]
           rank == [i \in D |-> i]
           T == [i \in D |-> [g \in [D -> V] |-> Body(g, i)]]
<1>0. INT \in Nat /\ B \in Nat \ {0, 1}
  BY WireAssumption
<1>1. ASSUME NEW i \in D, NEW g, i # 0 => g[i - 1] \in V PROVE Body(g, i) \in V
  BY <1>0, <1>1
<1>2. ASSUME NEW i \in D, i # 0 PROVE i - 1 \in D /\ rank[i - 1] < rank[i]
  BY <1>0, <1>2
<1>3. Recursion(D, V, INT, rank, T)
  <2>1. ASSUME NEW i \in D, NEW g \in [D -> V] PROVE Body(g, i) \in V
    <3>1. i # 0 => g[i - 1] \in V
      BY <1>2
    <3> QED BY <1>1, <3>1
  <2>2. T \in [D -> [[D -> V] -> V]]
    <3> HIDE DEF Body, D, V
    <3> QED BY <2>1
  <2>3. ASSUME NEW i \in D, NEW g \in [D -> V], NEW h \in [D -> V],
               \A j \in D : rank[j] < rank[i] => g[j] = h[j]
        PROVE  T[i][g] = T[i][h]
    <3>1. i # 0 => g[i - 1] = h[i - 1]
      BY <1>2, <2>3
    <3>2. Body(g, i) = Body(h, i)
      BY <3>1
    <3> HIDE DEF Body, D, V
    <3> QED BY <3>2
  <2>4. rank \in [D -> 0 .. INT]
    OBVIOUS
  <2> HIDE DEF T, D, V, rank
  <2> QED BY <1>0, <2>2, <2>3, <2>4 DEF Recursion
<1>4. PICK f \in [D -> V] : \A i \in D : f[i] = Body(f, i)
  <2>1. 1 \in V
    OBVIOUS
  <2>2. PICK f \in [D -> V] : \A i \in D : f[i] = T[i][f]
    <3> HIDE DEF T, rank, D, V
    <3> QED BY <1>3, <2>1, Solvable
  <2>3. \A i \in D : T[i][f] = Body(f, i)
    <3> HIDE DEF Body, D, V
    <3> QED OBVIOUS
  <2> HIDE DEF T, Body
  <2> QED BY <2>2, <2>3
<1>5. \E P : P = [i \in D |-> Body(P, i)]
  <2>1. f = [i \in D |-> f[i]]
    BY <1>4
  <2> HIDE DEF Body, D, V
  <2> QED BY <1>4, <2>1, Zenon
<1>6. Power = [i \in D |-> Body(Power, i)]
  BY <1>5, Zenon DEF Power
<1> SUFFICES ASSUME NEW P, P = Power
             PROVE  P \in [D -> V] /\ P[0] = 1 /\ \A i \in 1 .. INT : P[i] = B * P[i - 1]
  BY Zenon
<1>7. DOMAIN P = D /\ \A i \in D : P[i] = Body(P, i)
  BY <1>6, Zenon
<1>8. P = [i \in D |-> P[i]]
  BY <1>6, Zenon
<1>9. P \in [D -> V]
  <2>1. ASSUME NEW i \in D, \A j \in D : rank[j] < rank[i] => P[j] \in V PROVE P[i] \in V
    <3>1. i # 0 => P[i - 1] \in V
      BY <1>2, <2>1
    <3> QED BY <1>1, <1>7, <3>1
  <2>2. rank \in [D -> 0 .. INT]
    OBVIOUS
  <2>3. \A i \in D : (\A j \in D : rank[j] < rank[i] => P[j] \in V) => P[i] \in V
    <3> HIDE DEF D, V, rank, Body
    <3> QED BY <2>1, Zenon
  <2>4. INT \in Nat
    BY <1>0
  <2> HIDE DEF D, V, rank, Body
  <2>5. TypedByRank(D, V, INT, rank, P)
    BY <1>8, <2>2, <2>3, <2>4, Zenon DEF TypedByRank
  <2> QED BY <2>5, Typed
<1>10. P[0] = 1 /\ \A i \in 1 .. INT : P[i] = B * P[i - 1]
  BY <1>0, <1>7
<1> QED BY <1>9, <1>10

\* What Number's recursion gives.
Digits(s, f) == [i \in 1 .. Len(s) + 1 |-> IF i > Len(s) THEN 0 ELSE s[i] + (B * f[i + 1])]

\* A number is what the recursion gives from the first byte on.
LEMMA NumberIs ==
  ASSUME NEW s \in ByteSeqs
  PROVE  \E f \in [1 .. Len(s) + 1 -> Nat] :
           /\ Number(s) = f[1]
           /\ f[Len(s) + 1] = 0
           /\ \A i \in 1 .. Len(s) : f[i] = s[i] + (B * f[i + 1])
<1> DEFINE D == 1 .. Len(s) + 1
           V == Nat
           Body(g, i) == IF i > Len(s) THEN 0 ELSE s[i] + (B * g[i + 1])
           rank == [i \in D |-> Len(s) + 1 - i]
           T == [i \in D |-> [g \in [D -> V] |-> Body(g, i)]]
<1>0. Len(s) \in Nat /\ B \in Nat \ {0, 1} /\ \A i \in 1 .. Len(s) : s[i] \in Nat
  <2>1. \A i \in 1 .. Len(s) : s[i] \in 0 .. B - 1
    BY ElementOfSeq DEF ByteSeqs
  <2>2. B \in Nat \ {0, 1}
    BY WireAssumption
  <2> QED BY <2>1, <2>2, LenProperties DEF ByteSeqs
<1>1. ASSUME NEW i \in D, NEW g, i <= Len(s) => g[i + 1] \in V PROVE Body(g, i) \in V
  BY <1>0, <1>1
<1>2. ASSUME NEW i \in D, i <= Len(s) PROVE i + 1 \in D /\ rank[i + 1] < rank[i]
  BY <1>0, <1>2
<1>3. rank \in [D -> 0 .. Len(s)]
  BY <1>0
<1>4. Recursion(D, V, Len(s), rank, T)
  <2>1. ASSUME NEW i \in D, NEW g \in [D -> V] PROVE Body(g, i) \in V
    <3>1. i <= Len(s) => g[i + 1] \in V
      BY <1>2
    <3> QED BY <1>1, <3>1
  <2>2. T \in [D -> [[D -> V] -> V]]
    <3> HIDE DEF Body, D, V
    <3> QED BY <2>1
  <2>3. ASSUME NEW i \in D, NEW g \in [D -> V], NEW h \in [D -> V],
               \A j \in D : rank[j] < rank[i] => g[j] = h[j]
        PROVE  T[i][g] = T[i][h]
    <3>1. i <= Len(s) => g[i + 1] = h[i + 1]
      BY <1>2, <2>3
    <3>2. Body(g, i) = Body(h, i)
      BY <1>0, <3>1
    <3> HIDE DEF Body, D, V
    <3> QED BY <3>2
  <2> HIDE DEF T, D, V, rank
  <2> QED BY <1>0, <1>3, <2>2, <2>3 DEF Recursion
<1>5. PICK f \in [D -> V] : \A i \in D : f[i] = Body(f, i)
  <2>1. PICK f \in [D -> V] : \A i \in D : f[i] = T[i][f]
    <3>1. V # {}
      OBVIOUS
    <3> HIDE DEF T, rank, D, V
    <3> QED BY <1>4, <3>1, Solvable
  <2>2. \A i \in D : T[i][f] = Body(f, i)
    <3> HIDE DEF Body, D, V
    <3> QED OBVIOUS
  <2> HIDE DEF T, Body
  <2> QED BY <2>1, <2>2
<1>6. \E F : F = Digits(s, F)
  <2>1. f = [i \in D |-> f[i]]
    BY <1>5
  <2>2. f = [i \in D |-> Body(f, i)]
    <3> HIDE DEF Body, D, V
    <3> QED BY <1>5, <2>1, Zenon
  <2> QED BY <2>2, Zenon DEF Digits
<1>7. PICK F : F = Digits(s, F) /\ Number(s) = F[1]
  <2>1. Number(s) = (CHOOSE F : F = Digits(s, F))[1]
    BY Zenon DEF Number, Digits
  <2> QED BY <1>6, <2>1, Zenon
<1>8. F = [i \in D |-> Body(F, i)]
  BY <1>7, Zenon DEF Digits
<1>9. F = [i \in D |-> F[i]] /\ \A i \in D : F[i] = Body(F, i)
  <2> HIDE DEF D, Body
  <2> QED BY <1>8, Zenon
<1>10. F \in [D -> V]
  <2>1. ASSUME NEW i \in D, \A j \in D : rank[j] < rank[i] => F[j] \in V PROVE F[i] \in V
    <3>1. i <= Len(s) => F[i + 1] \in V
      BY <1>2, <2>1
    <3> QED BY <1>1, <1>9, <3>1
  <2>2. \A i \in D : (\A j \in D : rank[j] < rank[i] => F[j] \in V) => F[i] \in V
    <3> HIDE DEF D, V, rank, Body
    <3> QED BY <2>1, Zenon
  <2>3. Len(s) \in Nat
    BY <1>0
  <2> HIDE DEF D, V, rank, Body
  <2>4. TypedByRank(D, V, Len(s), rank, F)
    BY <1>3, <1>9, <2>2, <2>3, Zenon DEF TypedByRank
  <2> QED BY <2>4, Typed
<1>11. F[Len(s) + 1] = 0 /\ \A i \in 1 .. Len(s) : F[i] = s[i] + (B * F[i + 1])
  <2>1. Len(s) + 1 \in D /\ Len(s) + 1 > Len(s) /\ \A i \in 1 .. Len(s) : i \in D /\ ~(i > Len(s))
    BY <1>0
  <2> HIDE DEF D
  <2> QED BY <1>9, <2>1
<1> QED BY <1>7, <1>10, <1>11

\* The bytes of a number are INT bytes.
LEMMA BytesType ==
  ASSUME NEW n \in Nat
  PROVE  /\ Bytes(n) \in [1 .. INT -> 0 .. B - 1]
         /\ Bytes(n) \in ByteSeqs /\ Len(Bytes(n)) = INT
<1>1. INT \in Nat /\ B \in Nat \ {0}
  BY WireAssumption
<1>2. ASSUME NEW i \in 1 .. INT PROVE (n \div Power[i - 1]) % B \in 0 .. B - 1
  <2>1. Power[i - 1] \in Nat \ {0}
    BY <1>1, PowerIs
  <2>2. n \div Power[i - 1] \in Nat
    BY <2>1, Division
  <2> QED BY <1>1, <2>2, Division
<1>3. Bytes(n) \in [1 .. INT -> 0 .. B - 1]
  BY <1>2 DEF Bytes
<1> QED BY <1>1, <1>3 DEF ByteSeqs

\* INT bytes make a number below the number of ints.
LEMMA NumberBelow ==
  ASSUME NEW s \in ByteSeqs, Len(s) = INT
  PROVE  Number(s) \in Nat /\ Number(s) < Power[INT]
<1>0. INT \in Nat /\ B \in Nat \ {0} /\ 1 \in 1 .. INT + 1
  BY WireAssumption
<1>1. PICK f \in [1 .. Len(s) + 1 -> Nat] : /\ Number(s) = f[1]
                                            /\ f[Len(s) + 1] = 0
                                            /\ \A i \in 1 .. Len(s) : f[i] = s[i] + (B * f[i + 1])
  BY NumberIs
<1>2. \A i \in 1 .. INT : s[i] \in 0 .. B - 1
  BY ElementOfSeq DEF ByteSeqs
<1> DEFINE Bad == {j \in Nat : j <= INT /\ f[INT + 1 - j] >= Power[j]}
<1>3. Bad = {}
  <2> SUFFICES ASSUME Bad # {} PROVE FALSE
    OBVIOUS
  <2>1. PICK j \in Bad : \A k \in Bad : j <= k
    <3>1. Bad \in SUBSET Nat
      OBVIOUS
    <3> HIDE DEF Bad
    <3> QED BY <3>1, LeastOf
  <2>2. j \in 0 .. INT /\ f[INT + 1 - j] >= Power[j]
    BY <1>0, <2>1
  <2>3. j # 0
    BY <1>0, <1>1, <2>2, PowerIs
  <2>4. j - 1 \in 0 .. INT /\ j - 1 < j
    BY <1>0, <2>2, <2>3
  <2>5. /\ f[INT + 1 - (j - 1)] \in Nat /\ Power[j - 1] \in Nat
        /\ f[INT + 1 - (j - 1)] < Power[j - 1]
    <3>1. INT + 1 - (j - 1) \in 1 .. INT + 1
      BY <1>0, <2>4
    <3>2. f[INT + 1 - (j - 1)] \in Nat /\ Power[j - 1] \in Nat
      BY <1>1, <2>4, <3>1, PowerIs
    <3>3. j - 1 \notin Bad
      <4>1. j - 1 \in Nat /\ j \in Nat
        BY <2>4, <2>2, <1>0
      <4> HIDE DEF Bad
      <4> QED BY <2>1, <2>4, <4>1
    <3> QED BY <1>0, <2>4, <3>2, <3>3
  <2> DEFINE i == INT + 1 - j
  <2>6. i \in 1 .. INT /\ i + 1 = INT + 1 - (j - 1)
    BY <1>0, <2>2, <2>3
  <2>7. f[i] = s[i] + (B * f[i + 1]) /\ s[i] \in 0 .. B - 1 /\ Power[j] = B * Power[j - 1]
    BY <1>0, <1>1, <1>2, <2>2, <2>3, <2>6, PowerIs
  <2> HIDE DEF i, Bad
  <2>8. ASSUME NEW x \in Nat, NEW y \in Nat, NEW d \in 0 .. B - 1, x < y PROVE d + (B * x) < B * y
    <3>1. x + 1 <= y
      BY <2>8
    <3>2. B * (x + 1) <= B * y
      BY <1>0, <3>1, SMT
    <3>3. B * (x + 1) = (B * x) + B /\ B * x \in Nat /\ B * y \in Nat
      BY <1>0, SMT
    <3> QED BY ONLY <1>0, <3>2, <3>3, d \in 0 .. B - 1
  <2>9. s[i] + (B * f[i + 1]) < B * Power[j - 1]
    BY <2>5, <2>6, <2>7, <2>8
  <2>10. f[i] >= Power[j]
    BY <2>2 DEF i
  <2>11. Power[j] \in Nat /\ f[i] \in Nat
    <3>1. Power[j] \in Nat
      BY <2>2, PowerIs
    <3>2. i \in 1 .. Len(s) + 1
      BY <1>0, <2>6
    <3> QED BY <1>1, <3>1, <3>2
  <2>12. ASSUME NEW a \in Nat, NEW b \in Nat, a >= b, a < b PROVE FALSE
    BY <2>12
  <2> QED BY <2>7, <2>9, <2>10, <2>11, <2>12
<1>4. f[1] \in Nat /\ Power[INT] \in Nat /\ INT + 1 - INT = 1
  BY <1>0, <1>1, PowerIs
<1>5. INT \notin Bad
  BY <1>3
<1> QED BY <1>0, <1>1, <1>4, <1>5

\* The number that the bytes of an int make is that int.
LEMMA NumberOfBytes ==
  ASSUME NEW n \in Nat, n < Power[INT]
  PROVE  Number(Bytes(n)) = n
<1>0. INT \in Nat /\ B \in Nat \ {0} /\ 1 \in 1 .. INT + 1
  BY WireAssumption
<1> DEFINE s == Bytes(n)
           Quot(i) == n \div Power[i - 1]
<1>1. s \in ByteSeqs /\ Len(s) = INT
  BY BytesType
<1>2. \A i \in 1 .. INT : s[i] = Quot(i) % B
  BY DEF Bytes
<1> HIDE DEF s
<1>3. PICK f \in [1 .. Len(s) + 1 -> Nat] : /\ Number(s) = f[1]
                                            /\ f[Len(s) + 1] = 0
                                            /\ \A i \in 1 .. Len(s) : f[i] = s[i] + (B * f[i + 1])
  BY <1>1, NumberIs
<1>4. \A i \in 1 .. INT : Quot(i) = (B * Quot(i + 1)) + (Quot(i) % B)
  <2> SUFFICES ASSUME NEW i \in 1 .. INT PROVE Quot(i) = (B * Quot(i + 1)) + (Quot(i) % B)
    OBVIOUS
  <2>1. /\ Power[i - 1] \in Nat \ {0} /\ (i + 1) - 1 = i
        /\ Power[i] = B * Power[i - 1]
    BY <1>0, PowerIs
  <2>2. PICK p \in Nat \ {0} : p = Power[i - 1]
    BY <2>1
  <2>3. B * p = p * B
    BY <1>0, SMT
  <2>4. Quot(i) = n \div p /\ Quot(i + 1) = n \div (p * B)
    BY <2>1, <2>2, <2>3
  <2>5. n \div (p * B) = (n \div p) \div B
    <3> HIDE DEF Quot
    <3>1. \A a \in Nat : \A b, c \in Nat \ {0} : a \div (b * c) = (a \div b) \div c
      BY QuotientTwice
    <3> QED BY ONLY <1>0, <2>2, <3>1, Zenon
  <2>6. n \div p \in Nat
    BY Division
  <2>7. n \div p = (B * ((n \div p) \div B)) + ((n \div p) % B)
    BY <1>0, <2>6, Division
  <2> HIDE DEF Quot
  <2> QED BY ONLY <2>4, <2>5, <2>7
<1>5. Quot(INT + 1) = 0
  <2>1. Power[INT] \in Nat \ {0} /\ (INT + 1) - 1 = INT
    BY <1>0, PowerIs
  <2>2. ASSUME NEW p \in Nat \ {0}, n < p PROVE n \div p = 0
    BY <2>2, SMT
  <2> QED BY <2>1, <2>2
<1>6. Quot(1) = n
  <2>1. 1 - 1 = 0 /\ n \div 1 = n
    BY SMT
  <2> QED BY <2>1, PowerIs
<1> HIDE DEF Quot
<1> DEFINE Bad == {j \in Nat : j <= INT /\ f[INT + 1 - j] # Quot(INT + 1 - j)}
<1>7. Bad = {}
  <2> SUFFICES ASSUME Bad # {} PROVE FALSE
    OBVIOUS
  <2>1. PICK j \in Bad : \A k \in Bad : j <= k
    <3>1. Bad \in SUBSET Nat
      OBVIOUS
    <3> HIDE DEF Bad
    <3> QED BY <3>1, LeastOf
  <2>2. j \in 0 .. INT /\ f[INT + 1 - j] # Quot(INT + 1 - j)
    BY <1>0, <2>1
  <2>3. j # 0
    BY <1>0, <1>1, <1>3, <1>5, <2>2
  <2>4. j - 1 \in 0 .. INT /\ j - 1 < j
    BY <1>0, <2>2, <2>3
  <2>5. f[INT + 1 - (j - 1)] = Quot(INT + 1 - (j - 1))
    <3>1. j - 1 \notin Bad
      <4>1. j - 1 \in Nat /\ j \in Nat
        BY <2>4, <2>2, <1>0
      <4> HIDE DEF Bad
      <4> QED BY <2>1, <2>4, <4>1
    <3> QED BY <1>0, <2>4, <3>1
  <2> DEFINE i == INT + 1 - j
  <2>6. i \in 1 .. INT /\ i + 1 = INT + 1 - (j - 1)
    BY <1>0, <2>2, <2>3
  <2>7. f[i] = s[i] + (B * f[i + 1]) /\ s[i] = Quot(i) % B /\ f[i + 1] = Quot(i + 1)
    BY <1>1, <1>2, <1>3, <2>5, <2>6
  <2>8. s[i] \in Nat /\ B * f[i + 1] \in Nat
    <3>1. s[i] \in 0 .. B - 1
      BY <1>1, <2>6, ElementOfSeq DEF ByteSeqs
    <3>2. f[i + 1] \in Nat
      BY <1>0, <1>1, <1>3, <2>6
    <3>3. \A x \in Nat : B * x \in Nat
      BY <1>0, SMT
    <3> QED BY <1>0, <3>1, <3>2, <3>3
  <2>9. f[i] = (B * Quot(i + 1)) + (Quot(i) % B)
    <3>1. ASSUME NEW x \in Nat, NEW y \in Nat PROVE x + y = y + x
      OBVIOUS
    <3> QED BY <2>7, <2>8, <3>1
  <2>10. f[i] = Quot(i)
    BY <1>4, <2>6, <2>9
  <2> QED BY <2>2, <2>10
<1>8. f[INT + 1 - INT] = Quot(INT + 1 - INT)
  <2> HIDE DEF Quot
  <2>1. INT \in Nat /\ INT <= INT
    BY <1>0
  <2>2. \A j \in Nat : j <= INT => f[INT + 1 - j] = Quot(INT + 1 - j)
    BY <1>7, Zenon
  <2> QED BY <2>1, <2>2, Zenon
<1>9. INT + 1 - INT = 1
  BY <1>0
<1> QED BY <1>3, <1>6, <1>8, <1>9 DEF s
-------------------------------------------------------------------------------
(* Sequences of sequences *)

\* What FlattenSeq's recursion gives.
Flattened(s, f) == [i \in 1 .. Len(s) |-> IF i = 1 THEN s[i] ELSE f[i - 1] \o s[i]]

\* The sequences of s in a row are what the recursion gives for the last.
LEMMA FlattenIs ==
  ASSUME NEW X, NEW s \in Seq(Seq(X)), s # <<>>
  PROVE  \E f \in [1 .. Len(s) -> Seq(X)] :
           /\ FlattenSeq(s) = f[Len(s)]
           /\ f[1] = s[1]
           /\ \A i \in 2 .. Len(s) : f[i] = f[i - 1] \o s[i]
<1> DEFINE D == 1 .. Len(s)
           V == Seq(X)
           Body(g, i) == IF i = 1 THEN s[i] ELSE g[i - 1] \o s[i]
           rank == [i \in D |-> i]
           T == [i \in D |-> [g \in [D -> V] |-> Body(g, i)]]
<1>0. Len(s) \in Nat \ {0} /\ \A i \in D : s[i] \in V
  BY EmptySeq, ElementOfSeq
<1>1. ASSUME NEW i \in D, NEW g, i # 1 => g[i - 1] \in V PROVE Body(g, i) \in V
  BY <1>0, <1>1, ConcatProperties
<1>2. ASSUME NEW i \in D, i # 1 PROVE i - 1 \in D /\ rank[i - 1] < rank[i]
  BY <1>0, <1>2
<1>3. rank \in [D -> 0 .. Len(s)]
  BY <1>0
<1>4. Recursion(D, V, Len(s), rank, T)
  <2>1. ASSUME NEW i \in D, NEW g \in [D -> V] PROVE Body(g, i) \in V
    <3>1. i # 1 => g[i - 1] \in V
      BY <1>2
    <3> QED BY <1>1, <3>1
  <2>2. T \in [D -> [[D -> V] -> V]]
    <3> HIDE DEF Body, D, V
    <3> QED BY <2>1
  <2>3. ASSUME NEW i \in D, NEW g \in [D -> V], NEW h \in [D -> V],
               \A j \in D : rank[j] < rank[i] => g[j] = h[j]
        PROVE  T[i][g] = T[i][h]
    <3>1. i # 1 => g[i - 1] = h[i - 1]
      BY <1>2, <2>3
    <3>2. Body(g, i) = Body(h, i)
      BY <1>0, <3>1
    <3> HIDE DEF Body, D, V
    <3> QED BY <3>2
  <2> HIDE DEF T, D, V, rank
  <2> QED BY <1>0, <1>3, <2>2, <2>3 DEF Recursion
<1>5. PICK f \in [D -> V] : \A i \in D : f[i] = Body(f, i)
  <2>1. PICK f \in [D -> V] : \A i \in D : f[i] = T[i][f]
    <3>1. V # {}
      BY EmptySeq
    <3> HIDE DEF T, rank, D, V
    <3> QED BY <1>4, <3>1, Solvable
  <2>2. \A i \in D : T[i][f] = Body(f, i)
    <3> HIDE DEF Body, D, V
    <3> QED OBVIOUS
  <2> HIDE DEF T, Body
  <2> QED BY <2>1, <2>2
<1>6. \E F : F = Flattened(s, F)
  <2>1. f = [i \in D |-> f[i]]
    BY <1>5
  <2>2. f = [i \in D |-> Body(f, i)]
    <3> HIDE DEF Body, D
    <3> QED BY <1>5, <2>1, Zenon
  <2> QED BY <2>2, Zenon DEF Flattened
<1>7. PICK F : F = Flattened(s, F) /\ FlattenSeq(s) = F[Len(s)]
  <2>1. Len(s) # 0
    BY <1>0
  <2>2. FlattenSeq(s) = (CHOOSE F : F = Flattened(s, F))[Len(s)]
    BY <2>1, Zenon DEF FlattenSeq, Flattened
  <2> QED BY <1>6, <2>2, Zenon
<1>8. F = [i \in D |-> Body(F, i)]
  BY <1>7, Zenon DEF Flattened
<1>9. F = [i \in D |-> F[i]] /\ \A i \in D : F[i] = Body(F, i)
  <2> HIDE DEF D, Body
  <2> QED BY <1>8, Zenon
<1>10. F \in [D -> V]
  <2>1. ASSUME NEW i \in D, \A j \in D : rank[j] < rank[i] => F[j] \in V PROVE F[i] \in V
    <3>1. i # 1 => F[i - 1] \in V
      BY <1>2, <2>1
    <3> QED BY <1>1, <1>9, <3>1
  <2>2. \A i \in D : (\A j \in D : rank[j] < rank[i] => F[j] \in V) => F[i] \in V
    <3> HIDE DEF D, V, rank, Body
    <3> QED BY <2>1, Zenon
  <2>3. Len(s) \in Nat
    BY <1>0
  <2> HIDE DEF D, V, rank, Body
  <2>4. TypedByRank(D, V, Len(s), rank, F)
    BY <1>3, <1>9, <2>2, <2>3, Zenon DEF TypedByRank
  <2> QED BY <2>4, Typed
<1>11. F[1] = s[1] /\ \A i \in 2 .. Len(s) : F[i] = F[i - 1] \o s[i]
  <2>1. 1 \in D /\ \A i \in 2 .. Len(s) : i \in D /\ i # 1
    BY <1>0
  <2> HIDE DEF D
  <2> QED BY <1>9, <2>1
<1> QED BY <1>7, <1>10, <1>11

\* Sequences in a row are a sequence.
LEMMA FlattenType ==
  ASSUME NEW X, NEW s \in Seq(Seq(X))
  PROVE  FlattenSeq(s) \in Seq(X)
<1>1. CASE s = <<>>
  <2>1. Len(s) = 0
    BY <1>1, EmptySeq
  <2> QED BY <1>1, <2>1, EmptySeq DEF FlattenSeq
<1>2. CASE s # <<>>
  <2>1. PICK f \in [1 .. Len(s) -> Seq(X)] : FlattenSeq(s) = f[Len(s)]
    BY <1>2, FlattenIs
  <2>2. Len(s) \in 1 .. Len(s)
    BY <1>2, EmptySeq
  <2> QED BY <2>1, <2>2
<1> QED BY <1>1, <1>2

\* One more sequence at the end.
LEMMA FlattenAppend ==
  ASSUME NEW X, NEW s \in Seq(Seq(X)), NEW x \in Seq(X)
  PROVE  FlattenSeq(Append(s, x)) = FlattenSeq(s) \o x
<1> DEFINE t == Append(s, x)
<1>1. /\ t \in Seq(Seq(X)) /\ t # <<>> /\ Len(t) = Len(s) + 1 /\ Len(s) \in Nat
      /\ t[Len(s) + 1] = x /\ \A i \in 1 .. Len(s) : t[i] = s[i]
  BY AppendProperties, LenProperties
<1> HIDE DEF t
<1>2. PICK g \in [1 .. Len(t) -> Seq(X)] : /\ FlattenSeq(t) = g[Len(t)]
                                           /\ g[1] = t[1]
                                           /\ \A i \in 2 .. Len(t) : g[i] = g[i - 1] \o t[i]
  <2>1. t \in Seq(Seq(X)) /\ t # <<>>
    BY <1>1
  <2> QED BY ONLY <2>1, FlattenIs
<1>3. CASE s = <<>>
  <2>1. Len(s) = 0 /\ FlattenSeq(s) = <<>>
    BY <1>3, EmptySeq DEF FlattenSeq
  <2>2. FlattenSeq(t) = x
    BY <1>1, <1>2, <2>1
  <2> QED BY <2>1, <2>2, ConcatEmptySeq DEF t
<1>4. CASE s # <<>>
  <2>0. Len(s) \in Nat \ {0}
    BY <1>4, EmptySeq
  <2>1. PICK f \in [1 .. Len(s) -> Seq(X)] : /\ FlattenSeq(s) = f[Len(s)]
                                             /\ f[1] = s[1]
                                             /\ \A i \in 2 .. Len(s) : f[i] = f[i - 1] \o s[i]
    BY <1>4, FlattenIs
  <2> DEFINE Bad == {i \in Nat : i \in 1 .. Len(s) /\ f[i] # g[i]}
  <2>2. Bad = {}
    <3> SUFFICES ASSUME Bad # {} PROVE FALSE
      OBVIOUS
    <3>1. PICK i \in Bad : \A j \in Bad : i <= j
      <4>1. Bad \in SUBSET Nat
        OBVIOUS
      <4> HIDE DEF Bad
      <4> QED BY <4>1, LeastOf
    <3>2. i \in 1 .. Len(s) /\ f[i] # g[i]
      BY <3>1
    <3>3. i # 1
      BY <1>1, <1>2, <2>0, <2>1, <3>2
    <3>4. i - 1 \in 1 .. Len(s) /\ i - 1 < i /\ i - 1 \in Nat /\ i \in 2 .. Len(s) /\ i \in 2 .. Len(t)
      BY <1>1, <2>0, <3>2, <3>3
    <3>5. i - 1 \notin Bad
      <4> HIDE DEF Bad
      <4> QED BY <3>1, <3>4
    <3>6. f[i - 1] = g[i - 1]
      BY <3>4, <3>5
    <3>7. f[i] = f[i - 1] \o s[i] /\ g[i] = g[i - 1] \o t[i] /\ t[i] = s[i]
      <4> HIDE DEF Bad
      <4> QED BY <1>1, <1>2, <2>1, <3>2, <3>4
    <3> QED BY <3>2, <3>6, <3>7
  <2>3. f[Len(s)] = g[Len(s)]
    <3>1. \A i \in Nat : i \in 1 .. Len(s) => f[i] = g[i]
      BY <2>2, Zenon
    <3>2. Len(s) \in Nat /\ Len(s) \in 1 .. Len(s)
      BY <2>0
    <3> QED BY <3>1, <3>2, Zenon
  <2>4. Len(t) \in 2 .. Len(t) /\ Len(t) - 1 = Len(s)
    BY <1>1, <2>0
  <2>5. g[Len(t)] = g[Len(s)] \o x
    BY <1>1, <1>2, <2>4
  <2> QED BY <1>2, <2>1, <2>3, <2>5 DEF t
<1> QED BY <1>3, <1>4

\* Three sequences in a row.
LEMMA Regroup ==
  \A X : \A a \in Seq(X) : \A b \in Seq(X) : \A c \in Seq(X) : (a \o b) \o c = a \o (b \o c)
BY ConcatAssociative

\* The first sequence, and the others.
LEMMA FlattenHead ==
  ASSUME NEW X, NEW s \in Seq(Seq(X)), s # <<>>
  PROVE  FlattenSeq(s) = Head(s) \o FlattenSeq(Tail(s))
<1>0. \A a \in Seq(X) : \A b \in Seq(X) : \A c \in Seq(X) : (a \o b) \o c = a \o (b \o c)
  BY ONLY Regroup, SMTT(30)
<1> DEFINE Splits(t) == t # <<>> => FlattenSeq(t) = Head(t) \o FlattenSeq(Tail(t))
           Bad == {n \in Nat : \E t \in Seq(Seq(X)) : Len(t) = n /\ ~Splits(t)}
<1>1. Bad = {}
  <2> SUFFICES ASSUME Bad # {} PROVE FALSE
    OBVIOUS
  <2>0. Bad \in SUBSET Nat
    BY Zenon
  <2>1. PICK n \in Bad : \A j \in Bad : n <= j
    <3> HIDE DEF Bad
    <3> QED BY <2>0, LeastOf
  <2> HIDE DEF Splits
  <2>2. PICK t \in Seq(Seq(X)) : n \in Nat /\ Len(t) = n /\ ~Splits(t)
    BY <2>1
  <2>3. t # <<>>
    BY <2>2 DEF Splits
  <2>4. PICK u \in Seq(Seq(X)), x \in Seq(X) : t = Append(u, x)
    BY <2>3, SequenceEmptyOrAppend
  <2>5. Len(u) \in Nat /\ Len(u) < n
    BY <2>2, <2>4, AppendProperties, LenProperties
  <2>6. Splits(u)
    <3>1. Len(u) \notin Bad
      <4> HIDE DEF Bad
      <4> QED BY <2>0, <2>1, <2>5
    <3> QED BY <2>5, <3>1
  <2>7. FlattenSeq(t) = FlattenSeq(u) \o x
    BY <2>4, FlattenAppend
  <2>8. CASE u = <<>>
    <3>1. Head(t) = x /\ Tail(t) = <<>>
      BY <2>4, <2>8, HeadTailAppend
    <3>2. FlattenSeq(<<>>) = <<>>
      BY EmptySeq DEF FlattenSeq
    <3>3. <<>> \o x = x /\ x \o <<>> = x
      BY ConcatEmptySeq
    <3> QED BY <2>2, <2>7, <2>8, <3>1, <3>2, <3>3 DEF Splits
  <2>9. CASE u # <<>>
    <3>1. Head(t) = Head(u) /\ Tail(t) = Append(Tail(u), x)
      BY <2>4, <2>9, HeadTailAppend
    <3>2. Head(u) \in Seq(X) /\ Tail(u) \in Seq(Seq(X))
      BY <2>9, HeadTailProperties
    <3>3. FlattenSeq(Tail(u)) \in Seq(X)
      BY <3>2, FlattenType
    <3>4. FlattenSeq(Tail(t)) = FlattenSeq(Tail(u)) \o x
      BY <3>1, <3>2, FlattenAppend
    <3>5. FlattenSeq(u) = Head(u) \o FlattenSeq(Tail(u))
      BY <2>6, <2>9 DEF Splits
    <3>6. (Head(u) \o FlattenSeq(Tail(u))) \o x = Head(u) \o (FlattenSeq(Tail(u)) \o x)
      <4> QED BY <1>0, <3>2, <3>3, Zenon
    <3> QED BY <2>2, <2>7, <3>1, <3>4, <3>5, <3>6 DEF Splits
  <2> QED BY <2>8, <2>9
<1>2. Len(s) \in Nat
  BY LenProperties
<1> QED BY <1>1, <1>2
-------------------------------------------------------------------------------
(* Packages *)

Answers == [ok : BOOLEAN, fields : Seq(ByteSeqs)]

\* The size that stands at k in a buffer, and where the field after it ends.
SizeAt(b, k) == Number(SubSeq(b, k + 1, k + INT))
After(b, k) == k + INT + SizeAt(b, k)
RunsPast(b, k) == Len(b) < k + INT \/ Len(b) < After(b, k)

\* What Parsed's recursion gives.
Answer(b, k, f) ==
  IF k = Len(b) THEN [ok |-> TRUE, fields |-> <<>>]
  ELSE IF RunsPast(b, k) THEN [ok |-> FALSE, fields |-> <<>>]
  ELSE [ok |-> f[After(b, k)].ok,
        fields |-> <<SubSeq(b, k + INT + 1, After(b, k))>> \o f[After(b, k)].fields]

\* What a field takes of the buffer lies in it, and is not nothing: the sizes stand in it too.
LEMMA AfterIsLater ==
  ASSUME NEW b \in ByteSeqs, NEW k \in 0 .. Len(b), k # Len(b), ~RunsPast(b, k)
  PROVE  /\ After(b, k) \in 0 .. Len(b) /\ k < After(b, k)
         /\ SubSeq(b, k + INT + 1, After(b, k)) \in ByteSeqs
<1>0. INT \in Nat \ {0} /\ Len(b) \in Nat /\ k \in Nat
  BY WireAssumption, LenProperties DEF ByteSeqs
<1>1. k + INT <= Len(b) /\ k + 1 \in Int /\ k + INT \in Int
  BY <1>0 DEF RunsPast
<1> DEFINE X == 0 .. B - 1
<1>8. \A i \in 1 .. Len(b) : b[i] \in X
  BY ElementOfSeq DEF ByteSeqs
<1> HIDE DEF X
<1>2. \A i \in k + 1 .. k + INT : b[i] \in X
  BY <1>0, <1>1, <1>8
<1>3. SubSeq(b, k + 1, k + INT) \in ByteSeqs /\ Len(SubSeq(b, k + 1, k + INT)) = INT
  <2>1. k + 1 <= k + INT /\ (k + INT) - (k + 1) + 1 = INT
    BY <1>0
  <2> QED BY <1>1, <1>2, <2>1, SubSeqProperties DEF ByteSeqs, X
<1>4. SizeAt(b, k) \in Nat
  BY <1>3, NumberBelow DEF SizeAt
<1>5. After(b, k) \in 0 .. Len(b) /\ k < After(b, k)
  BY <1>0, <1>4 DEF After, RunsPast
<1>6. \A i \in k + INT + 1 .. After(b, k) : b[i] \in X
  BY <1>0, <1>5, <1>8
<1>7. k + INT + 1 \in Int /\ After(b, k) \in Int
  BY <1>0, <1>5
<1> QED BY <1>5, <1>6, <1>7, SubSeqProperties DEF ByteSeqs, X

\* What is taken apart is what the recursion gives from the first byte on.
LEMMA ParsedIs ==
  ASSUME NEW b \in ByteSeqs
  PROVE  \E f \in [0 .. Len(b) -> Answers] :
           Parsed(b) = f[0] /\ \A k \in 0 .. Len(b) : f[k] = Answer(b, k, f)
<1> DEFINE D == 0 .. Len(b)
           V == Answers
           rank == [k \in D |-> Len(b) - k]
           T == [k \in D |-> [g \in [D -> V] |-> Answer(b, k, g)]]
<1>0. Len(b) \in Nat
  BY LenProperties DEF ByteSeqs
<1>1. ASSUME NEW k \in D, NEW g, \A j \in D : k < j => g[j] \in V PROVE Answer(b, k, g) \in V
  <2>1. <<>> \in Seq(ByteSeqs)
    BY EmptySeq
  <2>2. CASE k = Len(b) \/ RunsPast(b, k)
    BY <2>1, <2>2 DEF Answer, Answers
  <2>3. CASE k # Len(b) /\ ~RunsPast(b, k)
    <3>1. /\ After(b, k) \in D /\ k < After(b, k)
          /\ SubSeq(b, k + INT + 1, After(b, k)) \in ByteSeqs
      BY <2>3, AfterIsLater
    <3>2. g[After(b, k)] \in Answers
      BY <1>1, <3>1
    <3>3. /\ g[After(b, k)].ok \in BOOLEAN /\ g[After(b, k)].fields \in Seq(ByteSeqs)
      BY <3>2 DEF Answers
    <3>4. <<SubSeq(b, k + INT + 1, After(b, k))>> \in Seq(ByteSeqs)
      BY <3>1
    <3>5. <<SubSeq(b, k + INT + 1, After(b, k))>> \o g[After(b, k)].fields \in Seq(ByteSeqs)
      BY <3>3, <3>4, ConcatProperties
    <3> QED BY <2>3, <3>3, <3>5, Zenon DEF Answer, Answers
  <2> QED BY <2>2, <2>3
<1>2. \A j \in D, k \in D : rank[j] < rank[k] <=> k < j
  BY <1>0
<1>3. rank \in [D -> 0 .. Len(b)]
  BY <1>0
<1>4. Recursion(D, V, Len(b), rank, T)
  <2>1. ASSUME NEW k \in D, NEW g \in [D -> V] PROVE Answer(b, k, g) \in V
    <3> HIDE DEF V
    <3> QED BY <1>1
  <2>2. T \in [D -> [[D -> V] -> V]]
    <3> HIDE DEF D, V
    <3> QED BY <2>1
  <2>3. ASSUME NEW k \in D, NEW g \in [D -> V], NEW h \in [D -> V],
               \A j \in D : rank[j] < rank[k] => g[j] = h[j]
        PROVE  T[k][g] = T[k][h]
    <3>1. k # Len(b) /\ ~RunsPast(b, k) => g[After(b, k)] = h[After(b, k)]
      <4>1. k # Len(b) /\ ~RunsPast(b, k) => After(b, k) \in D /\ k < After(b, k)
        BY AfterIsLater
      <4> HIDE DEF D, V, rank
      <4> QED BY <1>2, <2>3, <4>1
    <3>2. Answer(b, k, g) = Answer(b, k, h)
      BY <3>1 DEF Answer
    <3> HIDE DEF D, V
    <3> QED BY <3>2
  <2> HIDE DEF T, D, V, rank
  <2> QED BY <1>0, <1>3, <2>2, <2>3 DEF Recursion
<1>5. PICK f \in [D -> V] : \A k \in D : f[k] = Answer(b, k, f)
  <2>1. PICK f \in [D -> V] : \A k \in D : f[k] = T[k][f]
    <3>1. V # {}
      <4>1. [ok |-> TRUE, fields |-> <<>>] \in V
        BY EmptySeq DEF Answers
      <4> QED BY <4>1
    <3> HIDE DEF T, rank, D, V
    <3> QED BY <1>4, <3>1, Solvable
  <2>2. \A k \in D : T[k][f] = Answer(b, k, f)
    <3> HIDE DEF D, V
    <3> QED OBVIOUS
  <2> HIDE DEF T
  <2> QED BY <2>1, <2>2
<1>6. \E F : F = [k \in D |-> Answer(b, k, F)]
  <2>1. f = [k \in D |-> f[k]]
    BY <1>5
  <2>2. f = [k \in D |-> Answer(b, k, f)]
    <3> HIDE DEF D
    <3> QED BY <1>5, <2>1, Zenon
  <2> QED BY <2>2, Zenon
<1>7. PICK F : F = [k \in D |-> Answer(b, k, F)] /\ Parsed(b) = F[0]
  <2>1. Parsed(b) = (CHOOSE F : F = [k \in D |-> Answer(b, k, F)])[0]
    BY Zenon DEF Parsed, Answer, RunsPast, After, SizeAt
  <2> HIDE DEF D
  <2> QED BY <1>6, <2>1, Zenon
<1>9. F = [k \in D |-> F[k]] /\ \A k \in D : F[k] = Answer(b, k, F)
  <2> HIDE DEF D
  <2> QED BY <1>7, Zenon
<1>10. F \in [D -> V]
  <2>1. ASSUME NEW k \in D, \A j \in D : rank[j] < rank[k] => F[j] \in V PROVE F[k] \in V
    <3>1. \A j \in D : k < j => F[j] \in V
      <4> HIDE DEF D, V, rank
      <4> QED BY <1>2, <2>1
    <3> HIDE DEF V
    <3> QED BY <1>1, <1>9, <3>1
  <2>2. \A k \in D : (\A j \in D : rank[j] < rank[k] => F[j] \in V) => F[k] \in V
    <3> HIDE DEF D, V, rank
    <3> QED BY <2>1, Zenon
  <2> HIDE DEF D, V, rank
  <2>4. TypedByRank(D, V, Len(b), rank, F)
    BY <1>0, <1>3, <1>9, <2>2, Zenon DEF TypedByRank
  <2> QED BY <2>4, Typed
<1> QED BY <1>7, <1>9, <1>10

\* What is taken apart is an answer.
LEMMA ParsedType ==
  ASSUME NEW b \in ByteSeqs
  PROVE  Parsed(b) \in Answers
<1>1. PICK f \in [0 .. Len(b) -> Answers] : Parsed(b) = f[0]
  BY ParsedIs
<1>2. 0 \in 0 .. Len(b)
  BY LenProperties DEF ByteSeqs
<1> QED BY <1>1, <1>2

\* A part of a sequence, by its place.
LEMMA Middle ==
  ASSUME NEW X, NEW p \in Seq(X), NEW q \in Seq(X), NEW r \in Seq(X)
  PROVE  SubSeq(p \o (q \o r), Len(p) + 1, Len(p) + Len(q)) = q
<1>1. /\ Len(p) \in Nat /\ Len(q) \in Nat /\ Len(r) \in Nat
      /\ q \o r \in Seq(X) /\ Len(q \o r) = Len(q) + Len(r)
      /\ \A i \in 1 .. Len(q) : (q \o r)[i] = q[i]
  BY LenProperties, ConcatProperties
<1> DEFINE s == p \o (q \o r)
<1>2. /\ s \in Seq(X) /\ Len(s) = Len(p) + Len(q \o r)
      /\ \A i \in Len(p) + 1 .. Len(p) + Len(q \o r) : s[i] = (q \o r)[i - Len(p)]
  BY <1>1, ConcatProperties
<1> HIDE DEF s
<1>3. \A i \in 1 .. Len(s) : s[i] \in X
  BY <1>2, ElementOfSeq
<1>4. Len(p) + 1 \in Int /\ Len(p) + Len(q) \in Int
  BY <1>1
<1>5. \A i \in Len(p) + 1 .. Len(p) + Len(q) : s[i] \in X
  BY <1>1, <1>2, <1>3
<1> DEFINE t == SubSeq(s, Len(p) + 1, Len(p) + Len(q))
<1>6. /\ t \in Seq(X)
      /\ Len(t) = IF Len(p) + 1 <= Len(p) + Len(q) THEN Len(p) + Len(q) - (Len(p) + 1) + 1 ELSE 0
      /\ \A i \in 1 .. Len(p) + Len(q) - (Len(p) + 1) + 1 : t[i] = s[Len(p) + 1 + i - 1]
  BY <1>4, <1>5, SubSeqProperties
<1> HIDE DEF t
<1>7. Len(t) = Len(q)
  BY <1>1, <1>6
<1>8. ASSUME NEW i \in 1 .. Len(t) PROVE t[i] = q[i]
  <2>1. /\ i \in 1 .. Len(p) + Len(q) - (Len(p) + 1) + 1
        /\ Len(p) + 1 + i - 1 = Len(p) + i
        /\ Len(p) + i \in Len(p) + 1 .. Len(p) + Len(q \o r)
        /\ (Len(p) + i) - Len(p) = i /\ i \in 1 .. Len(q)
    BY <1>1, <1>7
  <2> QED BY <1>1, <1>2, <1>6, <2>1
<1>9. t = q
  BY <1>6, <1>7, <1>8, SeqEqual
<1> QED BY <1>9 DEF t, s

\* A field in a buffer, with its size before it.
Chunk(x) == Bytes(Len(x)) \o x
Chunks(fs) == [i \in DOMAIN fs |-> Chunk(fs[i])]

\* A field takes an int more than its own length.
LEMMA ChunkType ==
  ASSUME NEW x \in ByteSeqs
  PROVE  /\ Bytes(Len(x)) \in ByteSeqs /\ Len(Bytes(Len(x))) = INT
         /\ Chunk(x) \in ByteSeqs /\ Len(Chunk(x)) = INT + Len(x)
<1>1. Len(x) \in Nat
  BY LenProperties DEF ByteSeqs
<1>2. Bytes(Len(x)) \in ByteSeqs /\ Len(Bytes(Len(x))) = INT
  BY <1>1, BytesType
<1> QED BY <1>2, ConcatProperties DEF ByteSeqs, Chunk

\* The fields with their sizes: the first, and the others.
LEMMA ChunksOf ==
  ASSUME NEW fs \in Seq(ByteSeqs)
  PROVE  /\ Chunks(fs) \in Seq(ByteSeqs)
         /\ fs # <<>> => /\ Chunks(fs) # <<>> /\ Head(Chunks(fs)) = Chunk(Head(fs))
                         /\ Tail(Chunks(fs)) = Chunks(Tail(fs))
         /\ fs = <<>> => Chunks(fs) = <<>>
<1>1. Len(fs) \in Nat /\ DOMAIN fs = 1 .. Len(fs) /\ \A i \in 1 .. Len(fs) : fs[i] \in ByteSeqs
  BY LenProperties, ElementOfSeq
<1> DEFINE c == Chunks(fs)
<1>2. c = [i \in 1 .. Len(fs) |-> Chunk(fs[i])]
  BY <1>1 DEF Chunks
<1>3. \A i \in 1 .. Len(fs) : Chunk(fs[i]) \in ByteSeqs
  BY <1>1, ChunkType
<1>4. c \in Seq(ByteSeqs) /\ Len(c) = Len(fs)
  <2> HIDE DEF c
  <2> QED BY <1>1, <1>2, <1>3
<1>5. ASSUME fs = <<>> PROVE c = <<>>
  BY <1>4, <1>5, EmptySeq
<1>6. ASSUME fs # <<>>
      PROVE  c # <<>> /\ Head(c) = Chunk(Head(fs)) /\ Tail(c) = Chunks(Tail(fs))
  <2>1. Len(fs) # 0 /\ c # <<>>
    BY <1>4, <1>6, EmptySeq
  <2>2. 1 \in 1 .. Len(fs)
    BY <1>1, <2>1
  <2>3. Head(c) = c[1] /\ Head(fs) = fs[1]
    BY <1>4, <1>6, <2>1
  <2>4. Head(c) = Chunk(Head(fs))
    <3> HIDE DEF c
    <3> QED BY <1>2, <2>2, <2>3
  <2> DEFINE u == Tail(fs)
             d == Chunks(u)
  <2>5. u \in Seq(ByteSeqs) /\ Len(u) = Len(fs) - 1 /\ \A i \in 1 .. Len(u) : u[i] = fs[i + 1]
    BY <1>6, HeadTailProperties
  <2>6. /\ Tail(c) \in Seq(ByteSeqs) /\ Len(Tail(c)) = Len(c) - 1
        /\ \A i \in 1 .. Len(Tail(c)) : Tail(c)[i] = c[i + 1]
    BY <1>4, <2>1, HeadTailProperties
  <2>7. DOMAIN u = 1 .. Len(u) /\ \A i \in 1 .. Len(u) : u[i] \in ByteSeqs
    BY <2>5, LenProperties, ElementOfSeq
  <2> HIDE DEF u
  <2>8. d = [i \in 1 .. Len(u) |-> Chunk(u[i])]
    BY <2>7 DEF Chunks
  <2>9. \A i \in 1 .. Len(u) : Chunk(u[i]) \in ByteSeqs
    BY <2>7, ChunkType
  <2>10. d \in Seq(ByteSeqs) /\ Len(d) = Len(u)
    <3> HIDE DEF d
    <3> QED BY <1>1, <2>1, <2>5, <2>8, <2>9
  <2>11. Tail(c) = d
    <3> HIDE DEF c, d
    <3>1. \A i \in 1 .. Len(Tail(c)) : i \in 1 .. Len(u) /\ i + 1 \in 1 .. Len(fs)
      BY <1>1, <1>4, <2>5, <2>6
    <3>2. \A i \in 1 .. Len(Tail(c)) : Tail(c)[i] = d[i]
      BY <1>2, <2>5, <2>6, <2>8, <3>1
    <3> QED BY <1>4, <2>5, <2>6, <2>10, <3>2, SeqEqual
  <2> QED BY <2>1, <2>4, <2>11 DEF u
<1> QED BY <1>4, <1>5, <1>6

\* The field x stands in the buffer b after p, and t after it.
Placed(b, p, x, t) ==
  /\ b \in ByteSeqs /\ Len(p) \in 0 .. Len(b) /\ Len(p) # Len(b)
  /\ ~RunsPast(b, Len(p)) /\ After(b, Len(p)) = Len(p \o Chunk(x))
  /\ SubSeq(b, Len(p) + INT + 1, After(b, Len(p))) = x
  /\ b = (p \o Chunk(x)) \o t /\ p \o Chunk(x) \in ByteSeqs

\* A field that was put into a buffer is found there, whatever stands before and after.
LEMMA OneField ==
  ASSUME NEW p \in ByteSeqs, NEW x \in ByteSeqs, NEW t \in ByteSeqs,
         NEW b, b = p \o (Chunk(x) \o t), Len(b) < Power[INT]
  PROVE  Placed(b, p, x, t)
<1> DEFINE S == 0 .. B - 1
           y == Bytes(Len(x))
           c == Chunk(x)
<1>0. INT \in Nat \ {0} /\ Power[INT] \in Nat
  BY WireAssumption, PowerIs
<1>1. /\ p \in Seq(S) /\ x \in Seq(S) /\ t \in Seq(S)
      /\ y \in Seq(S) /\ Len(y) = INT /\ c \in Seq(S) /\ Len(c) = INT + Len(x) /\ c = y \o x
  BY ChunkType DEF ByteSeqs, Chunk
<1>2. Len(p) \in Nat /\ Len(x) \in Nat /\ Len(t) \in Nat
  BY <1>1, LenProperties
<1>3. \A u \in Seq(S) : \A v \in Seq(S) : \A w \in Seq(S) : (u \o v) \o w = u \o (v \o w)
  BY ONLY Regroup, SMTT(30)
<1>4. \A u \in Seq(S) : \A v \in Seq(S) : u \o v \in Seq(S) /\ Len(u \o v) = Len(u) + Len(v)
  BY ConcatProperties
<1>5. \A u \in Seq(S) : \A v \in Seq(S) : \A w \in Seq(S) :
        SubSeq(u \o (v \o w), Len(u) + 1, Len(u) + Len(v)) = v
  BY Middle
<1>6. b = p \o (c \o t)
  OBVIOUS
<1> HIDE DEF S, y, c
<1>7. /\ b = (p \o c) \o t /\ b = p \o (y \o (x \o t)) /\ b = (p \o y) \o (x \o t)
      /\ p \o c \in Seq(S) /\ p \o y \in Seq(S) /\ x \o t \in Seq(S) /\ b \in Seq(S)
  <2>1. x \o t \in Seq(S) /\ p \o y \in Seq(S) /\ p \o c \in Seq(S) /\ c \o t \in Seq(S)
    BY ONLY <1>1, <1>4, Zenon
  <2>2. c \o t = y \o (x \o t)
    BY ONLY <1>1, <1>3, Zenon
  <2>3. b = p \o (y \o (x \o t))
    BY <1>6, <2>2, Zenon
  <2>4. (p \o y) \o (x \o t) = p \o (y \o (x \o t))
    <3>1. \A w \in Seq(S) : (p \o y) \o w = p \o (y \o w)
      BY ONLY <1>1, <1>3, Zenon
    <3> QED BY ONLY <2>1, <3>1, Zenon
  <2>5. (p \o c) \o t = p \o (c \o t)
    <3>1. \A w \in Seq(S) : (p \o c) \o w = p \o (c \o w)
      BY ONLY <1>1, <1>3, Zenon
    <3> QED BY ONLY <1>1, <3>1, Zenon
  <2>6. b \in Seq(S)
    BY <1>1, <1>4, <1>6, <2>1, Zenon
  <2> QED BY <1>6, <2>1, <2>3, <2>4, <2>5, <2>6, Zenon
<1>8. /\ Len(p \o c) = Len(p) + INT + Len(x) /\ Len(p \o y) = Len(p) + INT
      /\ Len(b) = Len(p) + INT + Len(x) + Len(t)
  <2>1. Len(p \o c) = Len(p) + Len(c)
    BY ONLY <1>1, <1>4, Zenon
  <2>2. Len(p \o y) = Len(p) + Len(y)
    BY ONLY <1>1, <1>4, Zenon
  <2>3. Len(b) = Len(p \o c) + Len(t)
    <3>1. p \o c \in Seq(S) /\ b = (p \o c) \o t
      BY <1>7
    <3>2. \A u \in Seq(S) : Len(u \o t) = Len(u) + Len(t)
      BY ONLY <1>1, <1>4, Zenon
    <3>3. Len((p \o c) \o t) = Len(p \o c) + Len(t)
      BY <3>1, <3>2, Zenon
    <3> QED BY ONLY <3>1, <3>3, Zenon
  <2>4. INT \in Nat /\ Len(y) = INT /\ Len(c) = INT + Len(x)
    BY <1>0, <1>1
  <2> QED BY ONLY <1>2, <2>1, <2>2, <2>3, <2>4
<1>9. SubSeq(b, Len(p) + 1, Len(p) + INT) = y
  <2>1. SubSeq(p \o (y \o (x \o t)), Len(p) + 1, Len(p) + Len(y)) = y
    BY <1>1, <1>5, <1>7, Zenon
  <2> QED BY <1>1, <1>7, <2>1, Zenon
<1>10. SubSeq(b, (Len(p) + INT) + 1, (Len(p) + INT) + Len(x)) = x
  <2>1. SubSeq((p \o y) \o (x \o t), Len(p \o y) + 1, Len(p \o y) + Len(x)) = x
    BY <1>1, <1>5, <1>7, Zenon
  <2> QED BY <1>7, <1>8, <2>1, Zenon
<1>11. SizeAt(b, Len(p)) = Len(x)
  <2>1. Len(x) < Power[INT]
    BY <1>0, <1>2, <1>8
  <2>2. Number(Bytes(Len(x))) = Len(x)
    BY <1>2, <2>1, NumberOfBytes
  <2> QED BY <1>9, <2>2, Zenon DEF SizeAt, y
<1>12. After(b, Len(p)) = (Len(p) + INT) + Len(x)
  BY <1>11 DEF After
<1>13. Len(p) \in 0 .. Len(b) /\ Len(p) # Len(b) /\ ~RunsPast(b, Len(p))
  BY <1>0, <1>2, <1>8, <1>12 DEF RunsPast
<1>14. After(b, Len(p)) = Len(p \o c)
  BY <1>8, <1>12
<1> QED BY <1>7, <1>10, <1>12, <1>13, <1>14 DEF c, S, ByteSeqs, Placed

\* Hence the fields that were put in one after the other are found, from any place on.
LEMMA ParsedRest ==
  ASSUME NEW b, Len(b) < Power[INT], NEW f, \A k \in 0 .. Len(b) : f[k] = Answer(b, k, f)
  PROVE  \A fs \in Seq(ByteSeqs) : \A p \in ByteSeqs :
           b = p \o FlattenSeq(Chunks(fs)) => f[Len(p)] = [ok |-> TRUE, fields |-> fs]
<1> DEFINE Right(fs, p) == b = p \o FlattenSeq(Chunks(fs)) => f[Len(p)] = [ok |-> TRUE, fields |-> fs]
           Bad == {n \in Nat : \E fs \in Seq(ByteSeqs) : \E p \in ByteSeqs : Len(fs) = n /\ ~Right(fs, p)}
<1>1. Bad = {}
  <2> SUFFICES ASSUME Bad # {} PROVE FALSE
    OBVIOUS
  <2>0. Bad \in SUBSET Nat
    BY Zenon
  <2>1. PICK n \in Bad : \A j \in Bad : n <= j
    <3> HIDE DEF Bad
    <3> QED BY <2>0, LeastOf
  <2> HIDE DEF Right
  <2>2. PICK fs \in Seq(ByteSeqs) : n \in Nat /\ \E p \in ByteSeqs : Len(fs) = n /\ ~Right(fs, p)
    BY <2>1
  <2>3. PICK p \in ByteSeqs : Len(fs) = n /\ ~Right(fs, p)
    BY <2>2
  <2>4. b = p \o FlattenSeq(Chunks(fs)) /\ f[Len(p)] # [ok |-> TRUE, fields |-> fs]
    BY <2>3 DEF Right
  <2>5. CASE fs = <<>>
    <3>1. FlattenSeq(Chunks(fs)) = <<>>
      BY <2>5, ChunksOf, EmptySeq DEF FlattenSeq
    <3>2. b = p /\ Len(b) \in 0 .. Len(b)
      BY <2>4, <3>1, ConcatEmptySeq, LenProperties DEF ByteSeqs
    <3>3. f[Len(p)] = Answer(b, Len(p), f) /\ Len(p) = Len(b)
      BY <3>2
    <3> QED BY <2>4, <2>5, <3>3, Zenon DEF Answer
  <2>6. CASE fs # <<>>
    <3> DEFINE x == Head(fs)
               t == FlattenSeq(Chunks(Tail(fs)))
               q == p \o Chunk(x)
    <3>1. x \in ByteSeqs /\ Tail(fs) \in Seq(ByteSeqs) /\ Len(Tail(fs)) = n - 1
      BY <2>3, <2>6, HeadTailProperties
    <3>2. Chunks(Tail(fs)) \in Seq(ByteSeqs) /\ Chunks(fs) \in Seq(ByteSeqs)
      BY <3>1, ChunksOf
    <3>3. t \in ByteSeqs
      BY <3>2, FlattenType DEF ByteSeqs
    <3>4. FlattenSeq(Chunks(fs)) = Chunk(x) \o t
      <4>1. Chunks(fs) # <<>> /\ Head(Chunks(fs)) = Chunk(x) /\ Tail(Chunks(fs)) = Chunks(Tail(fs))
        BY <2>6, ChunksOf
      <4>2. FlattenSeq(Chunks(fs)) = Head(Chunks(fs)) \o FlattenSeq(Tail(Chunks(fs)))
        BY <3>2, <4>1, FlattenHead DEF ByteSeqs
      <4> QED BY <4>1, <4>2
    <3> HIDE DEF x, t
    <3>5. b = p \o (Chunk(x) \o t)
      BY <2>4, <3>4
    <3>6. /\ b \in ByteSeqs /\ Len(p) \in 0 .. Len(b) /\ Len(p) # Len(b)
          /\ ~RunsPast(b, Len(p)) /\ After(b, Len(p)) = Len(q)
          /\ SubSeq(b, Len(p) + INT + 1, After(b, Len(p))) = x
          /\ b = q \o t /\ q \in ByteSeqs
      <4>1. p \in ByteSeqs /\ x \in ByteSeqs /\ t \in ByteSeqs /\ Len(b) < Power[INT]
        BY <3>1, <3>3
      <4>2. Placed(b, p, x, t)
        BY ONLY <3>5, <4>1, OneField
      <4> QED BY <4>2, Zenon DEF Placed, q
    <3> HIDE DEF q
    <3>7. Right(Tail(fs), q)
      <4>1. n - 1 < n /\ n - 1 \in Nat
        BY <2>2, <2>3, <3>1, LenProperties
      <4>2. n - 1 \notin Bad
        <5> HIDE DEF Bad
        <5> QED BY <2>0, <2>1, <2>2, <4>1
      <4> QED BY <3>1, <3>6, <4>1, <4>2
    <3>8. f[Len(q)] = [ok |-> TRUE, fields |-> Tail(fs)]
      BY <3>6, <3>7 DEF Right, t
    <3>9. f[Len(p)] = [ok |-> f[Len(q)].ok, fields |-> <<x>> \o f[Len(q)].fields]
      <4>1. f[Len(p)] = Answer(b, Len(p), f)
        BY <3>6
      <4> QED BY <3>6, <4>1, Zenon DEF Answer
    <3>10. <<x>> \o Tail(fs) = fs
      <4>1. <<Head(fs)>> \o Tail(fs) = fs
        BY <2>6
      <4> QED BY <4>1 DEF x
    <3>11. f[Len(q)].ok = TRUE /\ f[Len(q)].fields = Tail(fs)
      BY <3>8
    <3>12. f[Len(p)] = [ok |-> TRUE, fields |-> fs]
      BY <3>9, <3>10, <3>11, Zenon
    <3> QED BY <2>4, <3>12
  <2> QED BY <2>5, <2>6
<1>2. ASSUME NEW fs \in Seq(ByteSeqs), NEW p \in ByteSeqs PROVE Right(fs, p)
  <2>1. Len(fs) \in Nat
    BY LenProperties
  <2> HIDE DEF Right
  <2> QED BY <1>1, <2>1
<1> QED BY <1>2

\* A package taken apart gives the fields it was made of.
LEMMA ParsedFields ==
  ASSUME NEW m, m.fields \in Seq(ByteSeqs), Len(Fields(m)) < Power[INT]
  PROVE  Fields(m) \in ByteSeqs /\ Parsed(Fields(m)) = [ok |-> TRUE, fields |-> m.fields]
<1>1. Fields(m) = FlattenSeq(Chunks(m.fields))
  BY Zenon DEF Fields, Chunks, Chunk
<1>2. Chunks(m.fields) \in Seq(ByteSeqs)
  BY ChunksOf
<1>3. Fields(m) \in ByteSeqs
  BY <1>1, <1>2, FlattenType DEF ByteSeqs
<1>4. PICK f \in [0 .. Len(Fields(m)) -> Answers] :
        /\ Parsed(Fields(m)) = f[0]
        /\ \A k \in 0 .. Len(Fields(m)) : f[k] = Answer(Fields(m), k, f)
  BY <1>3, ParsedIs
<1>5. <<>> \in ByteSeqs /\ Len(<<>>) = 0 /\ <<>> \o Fields(m) = Fields(m)
  BY <1>3, EmptySeq, ConcatEmptySeq DEF ByteSeqs
<1>6. f[Len(<<>>)] = [ok |-> TRUE, fields |-> m.fields]
  BY <1>1, <1>4, <1>5, ParsedRest
<1> QED BY <1>3, <1>4, <1>5, <1>6

Messages == [op : Nat, fields : Seq(ByteSeqs)]

\* A package is the bytes of its opcode, of the size of what follows, and of its fields.
LEMMA PackageType ==
  ASSUME NEW m \in Messages
  PROVE  /\ Fields(m) \in ByteSeqs /\ Len(Fields(m)) \in Nat
         /\ Bytes(m.op) \in ByteSeqs /\ Len(Bytes(m.op)) = INT
         /\ Bytes(Len(Fields(m))) \in ByteSeqs /\ Len(Bytes(Len(Fields(m)))) = INT
         /\ Package(m) \in ByteSeqs
         /\ Package(m) = Bytes(m.op) \o (Bytes(Len(Fields(m))) \o Fields(m))
<1>1. m.fields \in Seq(ByteSeqs) /\ m.op \in Nat
  BY DEF Messages
<1>2. Fields(m) = FlattenSeq(Chunks(m.fields))
  BY Zenon DEF Fields, Chunks, Chunk
<1>3. Chunks(m.fields) \in Seq(ByteSeqs)
  BY <1>1, ChunksOf
<1>4. Fields(m) \in ByteSeqs
  BY <1>2, <1>3, FlattenType DEF ByteSeqs
<1>5. Len(Fields(m)) \in Nat
  BY <1>4, LenProperties DEF ByteSeqs
<1> DEFINE s == Fields(m)
           a == Bytes(m.op)
           b == Bytes(Len(s))
           S == 0 .. B - 1
<1>6. /\ a \in Seq(S) /\ Len(a) = INT /\ b \in Seq(S) /\ Len(b) = INT /\ s \in Seq(S)
  BY <1>1, <1>4, <1>5, BytesType DEF ByteSeqs
<1>7. Package(m) = (a \o b) \o s
  BY Zenon DEF Package
<1> HIDE DEF S, a, b, s
<1>8. (a \o b) \o s = a \o (b \o s)
  <2>1. \A u \in Seq(S) : \A v \in Seq(S) : \A w \in Seq(S) : (u \o v) \o w = u \o (v \o w)
    BY ONLY Regroup, SMTT(30)
  <2> QED BY ONLY <1>6, <2>1, Zenon
<1>9. a \o (b \o s) \in Seq(S)
  <2>1. \A u \in Seq(S) : \A v \in Seq(S) : u \o v \in Seq(S)
    BY ConcatProperties
  <2> QED BY ONLY <1>6, <2>1, Zenon
<1>10. /\ s \in Seq(S) /\ Len(s) \in Nat /\ a \in Seq(S) /\ Len(a) = INT
       /\ b \in Seq(S) /\ Len(b) = INT
       /\ Package(m) \in Seq(S) /\ Package(m) = a \o (b \o s)
  BY <1>5, <1>6, <1>7, <1>8, <1>9, Zenon DEF s
<1> QED BY <1>10, Zenon DEF a, b, s, S, ByteSeqs

\* The first bytes, and the others.
LEMMA Cut ==
  ASSUME NEW s \in ByteSeqs, NEW n \in Int, n <= Len(s)
  PROVE  /\ SubSeq(s, 1, n) \in ByteSeqs /\ Len(SubSeq(s, 1, n)) = IF n >= 0 THEN n ELSE 0
         /\ n >= 0 => SubSeq(s, n + 1, Len(s)) \in ByteSeqs
<1>1. Len(s) \in Nat /\ \A i \in 1 .. Len(s) : s[i] \in 0 .. B - 1
  BY LenProperties, ElementOfSeq DEF ByteSeqs
<1>2. SubSeq(s, 1, n) \in ByteSeqs /\ Len(SubSeq(s, 1, n)) = IF 1 <= n THEN n - 1 + 1 ELSE 0
  <2>1. 1 \in Int /\ n \in Int /\ \A i \in 1 .. n : s[i] \in 0 .. B - 1
    BY <1>1
  <2> QED BY ONLY <2>1, SubSeqProperties DEF ByteSeqs
<1>3. ASSUME n >= 0 PROVE SubSeq(s, n + 1, Len(s)) \in ByteSeqs
  <2>1. n + 1 \in Int /\ Len(s) \in Int /\ \A i \in n + 1 .. Len(s) : s[i] \in 0 .. B - 1
    BY <1>1, <1>3
  <2> QED BY ONLY <2>1, SubSeqProperties DEF ByteSeqs
<1> QED BY <1>1, <1>2, <1>3

\* sac_cli's requests are messages.
LEMMA RequestType ==
  ASSUME NEW c \in Clients, NEW o \in Operations[c], NEW p \in Pointers
  PROVE  Request(o, p) \in Messages
<1>1. /\ o.op \in Nat /\ o.id \in Nat /\ o.path \in Seq(1 .. B - 1)
      /\ p \in ByteSeqs /\ Len(p) >= Len(o.path) /\ Len(p) >= 1
  BY ServersAssumption DEF ByteSeqs
<1>2. Bytes(o.id) \in ByteSeqs
  BY <1>1, BytesType
<1>3. PathField(o.op, o.path, p) \in ByteSeqs
  <2>1. SubSeq(p, 1, 1) \in ByteSeqs /\ SubSeq(p, 1, Len(o.path)) \in ByteSeqs
    <3>1. Len(o.path) \in Int
      BY <1>1, LenProperties
    <3> QED BY <1>1, <3>1, Cut
  <2>2. o.path \o <<0>> \in ByteSeqs
    <3>1. B \in Nat \ {0, 1}
      BY WireAssumption
    <3>2. o.path \in Seq(0 .. B - 1)
      <4> DEFINE P == 1 .. B - 1
                 Q == 0 .. B - 1
      <4>1. P \subseteq Q
        BY <3>1
      <4>2. o.path \in Seq(P)
        BY <1>1
      <4> HIDE DEF P, Q
      <4>3. o.path \in Seq(Q)
        BY ONLY <4>1, <4>2, SeqMonotonic
      <4> QED BY <4>3 DEF Q
    <3>3. <<0>> \in Seq(0 .. B - 1)
      BY <3>1
    <3> QED BY <3>2, <3>3, ConcatProperties DEF ByteSeqs
  <2>3. PathField(o.op, o.path, p) \in {SubSeq(p, 1, 1), o.path \o <<0>>, SubSeq(p, 1, Len(o.path))}
    BY Zenon DEF PathField
  <2> QED BY <2>1, <2>2, <2>3, Zenon
<1>4. <<Bytes(o.id), PathField(o.op, o.path, p)>> \in Seq(ByteSeqs)
  <2> DEFINE x == Bytes(o.id)
             y == PathField(o.op, o.path, p)
  <2>1. x \in ByteSeqs /\ y \in ByteSeqs
    BY <1>2, <1>3
  <2> HIDE DEF x, y
  <2>2. <<x, y>> \in Seq(ByteSeqs)
    BY <2>1
  <2> QED BY <2>2 DEF x, y
<1> QED BY <1>1, <1>4 DEF Request, Messages
-------------------------------------------------------------------------------
(* Types *)

Places == {"none", "never", "start", "opcode", "size", "buffer", "ended", "lost"}

StreamTypes == /\ sent \in [Conns -> Seq(Messages)]
               /\ flight \in [Conns -> ByteSeqs] /\ arrived \in [Conns -> ByteSeqs]
ReaderTypes == /\ pc \in [Readers -> Places]
               /\ protocol \in [Readers -> [1 .. INT -> 0 .. B - 1]]
               /\ size \in [Readers -> -Power[INT] .. Power[INT]]
               /\ received \in [Readers -> Seq(Messages)]
               /\ torn \in [Readers -> BOOLEAN]
ProcessTypes == /\ backlog \in Seq(Clients) /\ closed \subseteq Conns
                /\ table \in [FDs -> Clients \cup {None}]
                /\ cell \in [Threads -> {-1} \cup 0 .. MAX_FD] /\ fd \in [Threads -> {-1} \cup 0 .. MAX_FD]
                /\ server \in {"up", "dead"}
                /\ given \in [Threads -> Clients \cup {None}]

\* The parts make the invariant.
LEMMA TypeParts == TypeOK <=> StreamTypes /\ ReaderTypes /\ ProcessTypes
BY DEF TypeOK, StreamTypes, ReaderTypes, ProcessTypes, Messages, Places

\* The initial states have it.
LEMMA TypesInit == Init => TypeOK
<1> SUFFICES ASSUME Init PROVE StreamTypes /\ ReaderTypes /\ ProcessTypes
  BY TypeParts
<1>1. /\ <<>> \in Seq(Messages) /\ <<>> \in ByteSeqs /\ <<>> \in Seq(Clients)
      /\ MAX_FD \in Nat /\ Conns = Clients \cup {Lib} /\ Readers = Threads \cup {Lib}
  BY EmptySeq, ServersAssumption DEF ByteSeqs
<1>2. StreamTypes
  BY <1>1 DEF Init, StreamTypes
<1>3. ReaderTypes
  <2>1. Power[INT] \in Nat /\ 0 \in -Power[INT] .. Power[INT]
    <3>1. INT \in Nat
      BY WireAssumption
    <3> QED BY <3>1, PowerIs
  <2>2. size \in [Readers -> -Power[INT] .. Power[INT]]
    BY <2>1 DEF Init
  <2>3. PICK g \in Garbage : protocol = [r \in Readers |-> g]
    BY DEF Init
  <2>4. protocol \in [Readers -> [1 .. INT -> 0 .. B - 1]]
    BY <2>3, WireAssumption
  <2>5. pc \in [Readers -> Places] /\ received \in [Readers -> Seq(Messages)] /\ torn \in [Readers -> BOOLEAN]
    BY <1>1 DEF Init, Places
  <2> QED BY <2>2, <2>4, <2>5 DEF ReaderTypes
<1>4. ProcessTypes
  BY <1>1 DEF Init, ProcessTypes
<1> QED BY <1>2, <1>3, <1>4

\* To send keeps the types of the streams,
LEMMA SendTypes ==
  ASSUME TypeOK, NEW c \in Conns, NEW m \in Messages, Send(c, m)
  PROVE  StreamTypes'
<1>1. /\ sent' = [sent EXCEPT ![c] = Append(@, m)]
      /\ flight' = [flight EXCEPT ![c] = @ \o Package(m)] /\ arrived' = arrived
  BY DEF Send
<1>2. StreamTypes
  BY TypeParts
<1>3. Append(sent[c], m) \in Seq(Messages)
  <2>1. sent[c] \in Seq(Messages)
    BY <1>2 DEF StreamTypes
  <2> QED BY <2>1, AppendProperties
<1>4. flight[c] \o Package(m) \in ByteSeqs
  <2>1. flight[c] \in ByteSeqs /\ Package(m) \in ByteSeqs
    BY <1>2, PackageType DEF StreamTypes
  <2> QED BY <2>1, ConcatProperties DEF ByteSeqs
<1> QED BY <1>1, <1>2, <1>3, <1>4 DEF StreamTypes

\* so does a byte that arrives,
LEMMA ArriveTypes ==
  ASSUME TypeOK, NEW c \in Conns, Arrive(c)
  PROVE  StreamTypes'
<1>1. /\ arrived' = [arrived EXCEPT ![c] = Append(@, Head(flight[c]))]
      /\ flight' = [flight EXCEPT ![c] = Tail(@)] /\ sent' = sent /\ flight[c] # <<>>
  BY DEF Arrive
<1>2. StreamTypes
  BY TypeParts
<1>3. Append(arrived[c], Head(flight[c])) \in ByteSeqs /\ Tail(flight[c]) \in ByteSeqs
  <2>1. arrived[c] \in ByteSeqs /\ flight[c] \in ByteSeqs
    BY <1>2 DEF StreamTypes
  <2>2. Head(flight[c]) \in 0 .. B - 1 /\ Tail(flight[c]) \in ByteSeqs
    BY <1>1, <2>1, HeadTailProperties DEF ByteSeqs
  <2> QED BY <2>1, <2>2, AppendProperties DEF ByteSeqs
<1> QED BY <1>1, <1>2, <1>3 DEF StreamTypes

\* and a recv.
LEMMA TakeTypes ==
  ASSUME TypeOK, NEW c \in Conns, NEW n \in Nat, n <= Len(arrived[c]), Take(c, n)
  PROVE  StreamTypes'
<1>1. StreamTypes
  BY TypeParts
<1>2. arrived[c] \in ByteSeqs
  BY <1>1 DEF StreamTypes
<1>3. SubSeq(arrived[c], n + 1, Len(arrived[c])) \in ByteSeqs
  BY <1>2, Cut
<1> QED BY <1>1, <1>3 DEF StreamTypes, Take

\* What recv leaves in the opcode variable.
LEMMA OpcodeBytes ==
  ASSUME TypeOK, NEW r \in Readers, NEW c \in Conns, NEW n \in Nat, n <= Len(arrived[c]), n <= INT
  PROVE  SubSeq(arrived[c], 1, n) \o SubSeq(protocol[r], n + 1, INT) \in [1 .. INT -> 0 .. B - 1]
<1>1. StreamTypes /\ ReaderTypes /\ INT \in Nat \ {0}
  BY TypeParts, WireAssumption
<1>2. arrived[c] \in ByteSeqs
  BY <1>1 DEF StreamTypes
<1>3. protocol[r] \in [1 .. INT -> 0 .. B - 1]
  BY <1>1 DEF ReaderTypes
<1> DEFINE S == 0 .. B - 1
           x == SubSeq(arrived[c], 1, n)
           y == SubSeq(protocol[r], n + 1, INT)
<1>4. x \in Seq(S) /\ Len(x) = n
  BY <1>2, Cut DEF ByteSeqs
<1>5. y \in Seq(S) /\ Len(y) = INT - n
  <2>1. n + 1 \in Int /\ INT \in Int /\ \A i \in n + 1 .. INT : protocol[r][i] \in S
    BY <1>1, <1>3
  <2>2. y \in Seq(S) /\ Len(y) = IF n + 1 <= INT THEN (INT - (n + 1)) + 1 ELSE 0
    BY ONLY <2>1, SubSeqProperties
  <2> QED BY <1>1, <2>2
<1> HIDE DEF S, x, y
<1>6. x \o y \in Seq(S) /\ Len(x \o y) = Len(x) + Len(y)
  BY <1>4, <1>5, ConcatProperties
<1>7. Len(x \o y) = INT
  BY <1>1, <1>4, <1>5, <1>6
<1>8. x \o y \in [1 .. INT -> S]
  <2> DEFINE z == x \o y
  <2>1. z \in Seq(S) /\ Len(z) = INT
    BY <1>6, <1>7
  <2> HIDE DEF z
  <2>2. z \in [1 .. INT -> S]
    BY <2>1
  <2> QED BY <2>2 DEF z
<1> QED BY <1>8 DEF x, y, S

\* The bytes of an int, as a sequence.
LEMMA IntBytes ==
  ASSUME NEW g \in [1 .. INT -> 0 .. B - 1]
  PROVE  g \in ByteSeqs /\ Len(g) = INT
<1> DEFINE S == 0 .. B - 1
<1>1. g \in [1 .. INT -> S] /\ INT \in Nat
  BY WireAssumption
<1> HIDE DEF S
<1>2. g \in Seq(S) /\ Len(g) = INT
  BY <1>1
<1> QED BY <1>2 DEF S, ByteSeqs

\* An int lies between the bounds of ints.
LEMMA SignedType ==
  ASSUME NEW n \in Nat, n < Power[INT]
  PROVE  Signed(n) \in -Power[INT] .. Power[INT]
<1>1. Power[INT] \in Nat
  <2>1. INT \in Nat
    BY WireAssumption
  <2> QED BY <2>1, PowerIs
<1> QED BY <1>1 DEF Signed

\* A reader keeps the types, whatever it reads: the sizes it finds may be any.
LEMMA ReadsTypes ==
  ASSUME TypeOK, NEW r \in Readers, NEW c \in Conns, Reads(r, c)
  PROVE  StreamTypes' /\ ReaderTypes'
<1>0. INT \in Nat \ {0}
  BY WireAssumption
<1>1. ReaderTypes /\ StreamTypes
  BY TypeParts
<1>2. arrived[c] \in ByteSeqs /\ Len(arrived[c]) \in Nat
  <2>1. arrived[c] \in ByteSeqs
    BY <1>1 DEF StreamTypes
  <2> QED BY <2>1, LenProperties DEF ByteSeqs
<1>3. CASE RecvOpcode(r, c)
  <2> DEFINE n == IF Len(arrived[c]) < INT THEN Len(arrived[c]) ELSE INT
             p == SubSeq(arrived[c], 1, n) \o SubSeq(protocol[r], n + 1, INT)
  <2>1. n \in Nat /\ n <= Len(arrived[c]) /\ n <= INT
    BY <1>0, <1>2
  <2>2. /\ Take(c, n) /\ protocol' = [protocol EXCEPT ![r] = p]
        /\ torn' = [torn EXCEPT ![r] = @ \/ n < INT]
        /\ pc' = [pc EXCEPT ![r] = IF Number(p) \in Cases[r] THEN "size" ELSE "opcode"]
        /\ UNCHANGED <<size, received>>
    BY <1>3, Zenon DEF RecvOpcode
  <2> HIDE DEF n
  <2>3. StreamTypes'
    BY <2>1, <2>2, TakeTypes
  <2>4. p \in [1 .. INT -> 0 .. B - 1]
    BY <2>1, OpcodeBytes
  <2> HIDE DEF p
  <2>5. ReaderTypes'
    <3>1. pc' \in [Readers -> Places]
      BY <1>1, <2>2 DEF ReaderTypes, Places
    <3>2. protocol' \in [Readers -> [1 .. INT -> 0 .. B - 1]]
      BY <1>1, <2>2, <2>4 DEF ReaderTypes
    <3>3. torn' \in [Readers -> BOOLEAN]
      BY <1>1, <2>2 DEF ReaderTypes
    <3> QED BY <1>1, <2>2, <3>1, <3>2, <3>3 DEF ReaderTypes
  <2> QED BY <2>3, <2>5
<1>4. CASE RecvSize(r, c)
  <2> DEFINE n == Signed(Number(SubSeq(arrived[c], 1, INT)))
  <2>1. /\ Len(arrived[c]) >= INT /\ Take(c, INT) /\ size' = [size EXCEPT ![r] = n]
        /\ pc' = [pc EXCEPT ![r] = IF n >= 0 THEN "buffer" ELSE "lost"]
        /\ UNCHANGED <<protocol, received, torn>>
    BY <1>4, Zenon DEF RecvSize
  <2>2. n \in -Power[INT] .. Power[INT]
    <3>1. SubSeq(arrived[c], 1, INT) \in ByteSeqs /\ Len(SubSeq(arrived[c], 1, INT)) = INT
      BY <1>0, <1>2, <2>1, Cut
    <3> QED BY <3>1, NumberBelow, SignedType
  <2> HIDE DEF n
  <2>3. StreamTypes'
    BY <1>0, <1>2, <2>1, TakeTypes
  <2>4. ReaderTypes'
    <3>1. pc' \in [Readers -> Places]
      BY <1>1, <2>1 DEF ReaderTypes, Places
    <3>2. size' \in [Readers -> -Power[INT] .. Power[INT]]
      <4> DEFINE Z == -Power[INT] .. Power[INT]
      <4>1. n \in Z /\ size \in [Readers -> Z]
        BY <1>1, <2>2 DEF ReaderTypes
      <4> HIDE DEF Z
      <4>2. size' \in [Readers -> Z]
        BY <2>1, <4>1
      <4> QED BY <4>2 DEF Z
    <3> QED BY <1>1, <2>1, <3>1, <3>2 DEF ReaderTypes
  <2> QED BY <2>3, <2>4
<1>5. CASE RecvBuffer(r, c)
  <2> DEFINE b == SubSeq(arrived[c], 1, size[r])
  <2>1. Len(arrived[c]) >= size[r] /\ TakesApart(r, c, b)
    BY <1>5 DEF RecvBuffer
  <2>2. size[r] \in Int
    <3>1. Power[INT] \in Nat
      BY <1>0, PowerIs
    <3> QED BY <1>1, <3>1 DEF ReaderTypes
  <2>3. b \in ByteSeqs /\ Len(b) \in Nat /\ Len(b) <= Len(arrived[c])
    BY <1>2, <2>1, <2>2, Cut
  <2> HIDE DEF b
  <2>4. /\ Take(c, Len(b))
        /\ pc' = [pc EXCEPT ![r] = IF Parsed(b).ok THEN "opcode" ELSE "lost"]
        /\ received' = [received EXCEPT ![r] =
                          IF Parsed(b).ok THEN Append(@, [op |-> Number(protocol[r]), fields |-> Parsed(b).fields])
                          ELSE @]
        /\ UNCHANGED <<protocol, size, torn>>
    BY <2>1, Zenon DEF TakesApart
  <2>5. StreamTypes'
    BY <2>3, <2>4, TakeTypes
  <2>6. [op |-> Number(protocol[r]), fields |-> Parsed(b).fields] \in Messages
    <3>1. Parsed(b).fields \in Seq(ByteSeqs)
      BY <2>3, ParsedType DEF Answers
    <3>2. Number(protocol[r]) \in Nat
      <4>1. protocol[r] \in [1 .. INT -> 0 .. B - 1]
        BY <1>1 DEF ReaderTypes
      <4>2. protocol[r] \in ByteSeqs /\ Len(protocol[r]) = INT
        BY <4>1, IntBytes
      <4> QED BY <4>2, NumberBelow
    <3> QED BY <3>1, <3>2 DEF Messages
  <2> DEFINE m == [op |-> Number(protocol[r]), fields |-> Parsed(b).fields]
  <2> HIDE DEF m
  <2>7. Append(received[r], m) \in Seq(Messages)
    <3>1. received[r] \in Seq(Messages) /\ m \in Messages
      BY <1>1, <2>6 DEF ReaderTypes, m
    <3> QED BY <3>1, AppendProperties
  <2>8. received' = [received EXCEPT ![r] = IF Parsed(b).ok THEN Append(received[r], m) ELSE received[r]]
    BY <2>4, Zenon DEF m
  <2>9. ReaderTypes'
    <3>1. pc' \in [Readers -> Places]
      BY <1>1, <2>4 DEF ReaderTypes, Places
    <3>2. received' \in [Readers -> Seq(Messages)]
      BY <1>1, <2>7, <2>8 DEF ReaderTypes
    <3> QED BY <1>1, <2>4, <3>1, <3>2 DEF ReaderTypes
  <2> QED BY <2>5, <2>9
<1> QED BY <1>3, <1>4, <1>5 DEF Reads

\* Every step keeps them.
LEMMA TypesStep == TypeOK /\ [Next]_vars => TypeOK'
<1> SUFFICES ASSUME TypeOK, [Next]_vars PROVE StreamTypes' /\ ReaderTypes' /\ ProcessTypes'
  BY TypeParts DEF TypeOK, StreamTypes, ReaderTypes, ProcessTypes, Messages, Places
<1> USE DEF process, readers, streams, wire
<1>0. /\ StreamTypes /\ ReaderTypes /\ ProcessTypes
      /\ Conns = Clients \cup {Lib} /\ Readers = Threads \cup {Lib} /\ MAX_FD \in Nat
  BY TypeParts, ServersAssumption
<1>1. ASSUME NEW c \in Clients, Connect(c) PROVE StreamTypes' /\ ReaderTypes' /\ ProcessTypes'
  <2>1. backlog' \in Seq(Clients)
    BY <1>0, <1>1, AppendProperties DEF Connect, ProcessTypes
  <2>2. UNCHANGED <<sent, flight, arrived, pc, protocol, size, received, torn,
                    closed, table, cell, fd, server, given>>
    BY <1>1 DEF Connect
  <2> QED BY <1>0, <2>1, <2>2 DEF StreamTypes, ReaderTypes, ProcessTypes
<1>2. ASSUME NEW c \in Conns, NEW m \in Messages, Send(c, m), UNCHANGED <<backlog, closed, process>>
      PROVE  StreamTypes' /\ ReaderTypes' /\ ProcessTypes'
  <2>1. StreamTypes'
    BY <1>2, SendTypes
  <2>2. UNCHANGED readers
    BY <1>2 DEF Send
  <2> QED BY <1>0, <1>2, <2>1, <2>2 DEF ReaderTypes, ProcessTypes
<1>3. ASSUME NEW c \in Clients, NEW o \in Operations[c], Operate(c, o)
      PROVE  StreamTypes' /\ ReaderTypes' /\ ProcessTypes'
  <2>1. PICK p \in Pointers : Send(c, Request(o, p))
    BY <1>3 DEF Operate
  <2>2. Request(o, p) \in Messages /\ c \in Conns /\ UNCHANGED <<backlog, closed, process>>
    BY <1>0, <1>3, RequestType DEF Operate
  <2> QED BY <1>2, <2>1, <2>2
<1>4. ASSUME NEW m \in LibMessages, Ask(m) PROVE StreamTypes' /\ ReaderTypes' /\ ProcessTypes'
  <2>1. m \in Messages /\ Lib \in Conns
    BY <1>0, ServersAssumption DEF Messages, ByteSeqs
  <2> QED BY <1>2, <1>4, <2>1 DEF Ask
<1>5. ASSUME NEW c \in Conns, Leave(c) PROVE StreamTypes' /\ ReaderTypes' /\ ProcessTypes'
  BY <1>0, <1>5 DEF Leave, StreamTypes, ReaderTypes, ProcessTypes
<1>6. ASSUME NEW c \in Conns, Arrives(c) PROVE StreamTypes' /\ ReaderTypes' /\ ProcessTypes'
  <2>1. StreamTypes'
    BY <1>6, ArriveTypes DEF Arrives
  <2>2. UNCHANGED <<readers, backlog, closed, process>>
    BY <1>6 DEF Arrives, Arrive
  <2> QED BY <1>0, <2>1, <2>2 DEF ReaderTypes, ProcessTypes
<1>7. ASSUME NEW r \in Threads, Accept(r) PROVE StreamTypes' /\ ReaderTypes' /\ ProcessTypes'
  <2>1. PICK f \in FreeFDs : table' = [table EXCEPT ![f] = Head(backlog)] /\ HandsOver(r, f)
    BY <1>7 DEF Accept
  <2>2. Head(backlog) \in Clients /\ Tail(backlog) \in Seq(Clients) /\ f \in FDs
    BY <1>0, <1>7, HeadTailProperties DEF Accept, FreeFDs, ProcessTypes
  <2>3. /\ given' = [given EXCEPT ![r] = Head(backlog)] /\ backlog' = Tail(backlog)
        /\ cell' = [cell EXCEPT ![r] = f] /\ Starts(r) /\ UNCHANGED <<closed, fd, server>>
    BY <1>7, <2>1 DEF Accept, HandsOver
  <2>4. ReaderTypes' /\ StreamTypes'
    BY <1>0, <2>3 DEF Starts, ReaderTypes, StreamTypes, Places
  <2>5. ProcessTypes'
    <3>1. f \in 0 .. MAX_FD
      BY <1>0, <2>2 DEF FDs
    <3>2. cell' \in [Threads -> {-1} \cup 0 .. MAX_FD]
      BY <1>0, <2>3, <3>1 DEF ProcessTypes
    <3>3. table' \in [FDs -> Clients \cup {None}] /\ given' \in [Threads -> Clients \cup {None}]
      BY <1>0, <2>1, <2>2, <2>3 DEF ProcessTypes
    <3> QED BY <1>0, <2>2, <2>3, <3>2, <3>3 DEF ProcessTypes
  <2> QED BY <2>4, <2>5
<1>8. ASSUME NEW r \in Threads, AcceptFails(r) PROVE StreamTypes' /\ ReaderTypes' /\ ProcessTypes'
  <2>1. cell' = [cell EXCEPT ![r] = -1] /\ Starts(r) /\ UNCHANGED <<backlog, closed, table, fd, server, given>>
    BY <1>8 DEF AcceptFails, HandsOver
  <2>2. ReaderTypes' /\ StreamTypes'
    BY <1>0, <2>1 DEF Starts, ReaderTypes, StreamTypes, Places
  <2>3. ProcessTypes'
    BY <1>0, <2>1 DEF ProcessTypes
  <2> QED BY <2>2, <2>3
<1>9. ASSUME NEW r \in Threads, Begin(r) PROVE StreamTypes' /\ ReaderTypes' /\ ProcessTypes'
  <2>1. cell' = [cell EXCEPT ![r] = 0] /\ fd' = [fd EXCEPT ![r] = cell[r]]
    BY <1>9 DEF Begin
  <2>2. cell' \in [Threads -> {-1} \cup 0 .. MAX_FD] /\ fd' \in [Threads -> {-1} \cup 0 .. MAX_FD]
    BY <1>0, <2>1 DEF ProcessTypes
  <2>3. /\ pc' = [pc EXCEPT ![r] = "opcode"]
        /\ UNCHANGED <<streams, protocol, size, received, torn, backlog, closed, table, server, given>>
    BY <1>9 DEF Begin
  <2> QED BY <1>0, <2>2, <2>3 DEF StreamTypes, ReaderTypes, ProcessTypes, Places
<1>10. ASSUME NEW r \in Readers, Ends(r) PROVE StreamTypes' /\ ReaderTypes' /\ ProcessTypes'
  <2>1. /\ pc' = [pc EXCEPT ![r] = "ended"]
        /\ UNCHANGED <<streams, protocol, size, received, torn, backlog, closed, process>>
    BY <1>10 DEF Ends
  <2> QED BY <1>0, <2>1 DEF StreamTypes, ReaderTypes, ProcessTypes, Places
<1>11. ASSUME NEW r \in Readers, Receives(r) PROVE StreamTypes' /\ ReaderTypes' /\ ProcessTypes'
  <2>1. StreamTypes' /\ ReaderTypes'
    BY <1>11, ReadsTypes DEF Receives
  <2>2. server' \in {"up", "dead"}
    BY <1>0, <1>11 DEF Receives, CopiesPath, ProcessTypes
  <2>3. UNCHANGED <<backlog, closed, table, cell, fd, given>>
    BY <1>11 DEF Receives
  <2> QED BY <1>0, <2>1, <2>2, <2>3 DEF ProcessTypes
<1>12. CASE UNCHANGED vars
  BY <1>0, <1>12 DEF vars, StreamTypes, ReaderTypes, ProcessTypes
<1> QED
  BY <1>1, <1>3, <1>4, <1>5, <1>6, <1>7, <1>8, <1>9, <1>10, <1>11, <1>12 DEF Next

\* The variables of readers and connections hold what their declarations say, whatever sizes and
\* opcodes the bytes make: the sizes that are read are ints, and the parts of a buffer lie in
\* it (utils.c:427-459, sac_server.c:80-98).
THEOREM TypesCorrect == Spec => []TypeOK
<1> QED BY TypesInit, TypesStep, PTL DEF Spec
-------------------------------------------------------------------------------
(* What comes first, and many packages *)

\* Of two ways to cut the same bytes, the one that cuts sooner.
LEMMA CutAlike ==
  ASSUME NEW a \in ByteSeqs, NEW f \in ByteSeqs, NEW x \in ByteSeqs, NEW y \in ByteSeqs,
         a \o f = x \o y, Len(x) <= Len(a)
  PROVE  SubSeq(a, 1, Len(x)) = x /\ SubSeq(a, Len(x) + 1, Len(a)) \o f = y
<1> DEFINE S == 0 .. B - 1
           h == SubSeq(a, 1, Len(x))
           t == SubSeq(a, Len(x) + 1, Len(a))
<1>1. /\ a \in Seq(S) /\ f \in Seq(S) /\ x \in Seq(S) /\ y \in Seq(S)
      /\ Len(a) \in Nat /\ Len(x) \in Nat /\ Len(f) \in Nat /\ Len(y) \in Nat
  BY LenProperties DEF ByteSeqs
<1>2. h \in Seq(S) /\ Len(h) = Len(x) /\ t \in Seq(S)
  <2>1. Len(x) \in Int /\ Len(x) <= Len(a) /\ Len(x) >= 0
    BY <1>1
  <2>2. h \in ByteSeqs /\ Len(h) = Len(x) /\ t \in ByteSeqs
    BY <2>1, Cut
  <2> QED BY <2>2 DEF ByteSeqs
<1> HIDE DEF S
<1>3. \A i \in 1 .. Len(x) : h[i] = x[i]
  <2> SUFFICES ASSUME NEW i \in 1 .. Len(x) PROVE h[i] = x[i]
    OBVIOUS
  <2>1. h[i] = a[i]
    <3>1. \A j \in 1 .. Len(x) : a[j] \in S
      BY <1>1, ElementOfSeq
    <3>2. \A j \in 1 .. (Len(x) - 1) + 1 : h[j] = a[(1 + j) - 1]
      BY <1>1, <3>1, SubSeqProperties
    <3>3. i \in 1 .. (Len(x) - 1) + 1 /\ (1 + i) - 1 = i
      BY <1>1
    <3> QED BY ONLY <3>2, <3>3
  <2>2. (a \o f)[i] = a[i]
    <3>1. i \in 1 .. Len(a) + Len(f) /\ i <= Len(a)
      BY <1>1
    <3> QED BY <1>1, <3>1, ConcatProperties
  <2>3. (x \o y)[i] = x[i]
    <3>1. i \in 1 .. Len(x) + Len(y) /\ i <= Len(x)
      BY <1>1
    <3> QED BY <1>1, <3>1, ConcatProperties
  <2> QED BY <2>1, <2>2, <2>3
<1>4. h = x
  <2> HIDE DEF h
  <2> QED BY <1>1, <1>2, <1>3, SeqEqual
<1>5. a = h \o t
  <2>1. /\ 1 \in 1 .. Len(a) + 1 /\ Len(x) \in 1 - 1 .. Len(a) /\ Len(a) \in Len(x) .. Len(a)
    BY <1>1
  <2>2. SubSeq(a, 1, Len(x)) \o SubSeq(a, Len(x) + 1, Len(a)) = SubSeq(a, 1, Len(a))
    <3>1. a \in Seq(S)
      BY <1>1
    <3> QED BY ONLY <2>1, <3>1, ConcatAdjacentSubSeq
  <2>3. SubSeq(a, 1, Len(a)) = a
    BY <1>1, SubSeqFull
  <2> QED BY <2>2, <2>3
<1> HIDE DEF h, t
<1>6. x \o (t \o f) = x \o y
  <2>1. \A u \in Seq(S) : \A v \in Seq(S) : \A w \in Seq(S) : (u \o v) \o w = u \o (v \o w)
    BY ONLY Regroup, SMTT(30)
  <2>2. (x \o t) \o f = x \o (t \o f)
    BY ONLY <1>1, <1>2, <2>1, Zenon
  <2>3. a \o f = x \o y
    OBVIOUS
  <2> QED BY ONLY <1>4, <1>5, <2>2, <2>3, Zenon
<1>7. t \o f = y
  <2>1. t \o f \in Seq(S)
    BY <1>1, <1>2, ConcatProperties
  <2>2. \A u \in Seq(S) : \A v \in Seq(S) : \A w \in Seq(S) : u \o v = u \o w => v = w
    BY ConcatSimplifications
  <2> QED BY ONLY <1>1, <1>6, <2>1, <2>2, Zenon
<1> QED BY <1>4, <1>7 DEF h, t

Packages(q) == [i \in DOMAIN q |-> Package(q[i])]
Bundle(q) == FlattenSeq(Packages(q))

\* The packages of messages, each a sequence of bytes.
LEMMA PackagesType ==
  ASSUME NEW q \in Seq(Messages)
  PROVE  /\ Packages(q) \in Seq(ByteSeqs) /\ Len(Packages(q)) = Len(q)
         /\ \A i \in 1 .. Len(q) : Packages(q)[i] = Package(q[i])
<1>1. Len(q) \in Nat /\ DOMAIN q = 1 .. Len(q) /\ \A i \in 1 .. Len(q) : q[i] \in Messages
  BY LenProperties, ElementOfSeq
<1>2. \A i \in 1 .. Len(q) : Package(q[i]) \in ByteSeqs
  BY <1>1, PackageType
<1> DEFINE s == Packages(q)
<1>3. s = [i \in 1 .. Len(q) |-> Package(q[i])]
  BY <1>1 DEF Packages
<1> HIDE DEF s
<1>4. s \in [1 .. Len(q) -> ByteSeqs] /\ \A i \in 1 .. Len(q) : s[i] = Package(q[i])
  BY <1>2, <1>3
<1>5. s \in Seq(ByteSeqs) /\ Len(s) = Len(q)
  <2> DEFINE Z == ByteSeqs
  <2>1. s \in [1 .. Len(q) -> Z] /\ Len(q) \in Nat
    BY <1>1, <1>4
  <2> HIDE DEF Z
  <2>2. s \in Seq(Z) /\ Len(s) = Len(q)
    BY ONLY <2>1
  <2> QED BY <2>2 DEF Z
<1> QED BY <1>4, <1>5 DEF s

\* What messages take on the wire, one after the other.
LEMMA BundleIs ==
  /\ Bundle(<<>>) = <<>>
  /\ \A q \in Seq(Messages) :
       /\ Bundle(q) \in ByteSeqs
       /\ \A m \in Messages : Bundle(Append(q, m)) = Bundle(q) \o Package(m)
       /\ q # <<>> => Bundle(q) = Package(Head(q)) \o Bundle(Tail(q))
<1>1. Bundle(<<>>) = <<>>
  <2>1. <<>> \in Seq(Messages) /\ Len(<<>>) = 0
    BY EmptySeq
  <2>2. Packages(<<>>) \in Seq(ByteSeqs) /\ Len(Packages(<<>>)) = 0
    BY <2>1, PackagesType
  <2>3. Packages(<<>>) = <<>>
    <3> DEFINE s == Packages(<<>>)
    <3>1. s \in Seq(ByteSeqs) /\ Len(s) = 0
      BY <2>2
    <3> HIDE DEF s
    <3>2. s = <<>>
      BY <3>1, EmptySeq
    <3> QED BY <3>2 DEF s
  <2>4. FlattenSeq(<<>>) = <<>>
    BY <2>1 DEF FlattenSeq
  <2> QED BY <2>3, <2>4 DEF Bundle
<1>2. ASSUME NEW q \in Seq(Messages)
      PROVE  /\ Bundle(q) \in ByteSeqs
             /\ \A m \in Messages : Bundle(Append(q, m)) = Bundle(q) \o Package(m)
             /\ q # <<>> => Bundle(q) = Package(Head(q)) \o Bundle(Tail(q))
  <2>0. /\ Packages(q) \in Seq(ByteSeqs) /\ Len(Packages(q)) = Len(q) /\ Len(q) \in Nat
        /\ \A i \in 1 .. Len(q) : Packages(q)[i] = Package(q[i])
    BY PackagesType, LenProperties
  <2>1. Bundle(q) \in ByteSeqs
    BY <2>0, FlattenType DEF Bundle, ByteSeqs
  <2>2. ASSUME NEW m \in Messages PROVE Bundle(Append(q, m)) = Bundle(q) \o Package(m)
    <3> DEFINE r == Append(q, m)
               s == Packages(r)
               t == Append(Packages(q), Package(m))
    <3>1. /\ r \in Seq(Messages) /\ Len(r) = Len(q) + 1 /\ r[Len(q) + 1] = m
          /\ \A i \in 1 .. Len(q) : r[i] = q[i]
      BY AppendProperties
    <3> HIDE DEF r
    <3>2. s \in Seq(ByteSeqs) /\ Len(s) = Len(r) /\ \A i \in 1 .. Len(r) : s[i] = Package(r[i])
      BY <3>1, PackagesType
    <3>3. Package(m) \in ByteSeqs
      BY PackageType
    <3>4. /\ t \in Seq(ByteSeqs) /\ Len(t) = Len(q) + 1 /\ t[Len(q) + 1] = Package(m)
          /\ \A i \in 1 .. Len(q) : t[i] = Package(q[i])
      BY <2>0, <3>3, AppendProperties
    <3> HIDE DEF s, t
    <3>5. s = t
      <4>1. ASSUME NEW i \in 1 .. Len(s) PROVE s[i] = t[i]
        <5>1. i \in 1 .. Len(q) \/ i = Len(q) + 1
          BY <2>0, <3>1, <3>2, <4>1
        <5> QED BY <3>1, <3>2, <3>4, <5>1
      <4> QED BY <3>1, <3>2, <3>4, <4>1, SeqEqual
    <3>6. FlattenSeq(t) = FlattenSeq(Packages(q)) \o Package(m)
      BY <2>0, <3>3, FlattenAppend DEF t, ByteSeqs
    <3> QED BY <3>5, <3>6 DEF Bundle, s, r
  <2>3. ASSUME q # <<>> PROVE Bundle(q) = Package(Head(q)) \o Bundle(Tail(q))
    <3> DEFINE s == Packages(q)
               u == Tail(q)
               t == Packages(u)
    <3>1. /\ u \in Seq(Messages) /\ Len(u) = Len(q) - 1 /\ \A i \in 1 .. Len(u) : u[i] = q[i + 1]
      BY <2>3, HeadTailProperties
    <3>2. Len(q) \in Nat \ {0} /\ Head(q) = q[1]
      BY <2>3, EmptySeq
    <3> HIDE DEF u
    <3>3. t \in Seq(ByteSeqs) /\ Len(t) = Len(u) /\ \A i \in 1 .. Len(u) : t[i] = Package(u[i])
      BY <3>1, PackagesType
    <3>4. s \in Seq(ByteSeqs) /\ Len(s) = Len(q) /\ \A i \in 1 .. Len(q) : s[i] = Package(q[i])
      BY <2>0
    <3> HIDE DEF s, t
    <3>5. s # <<>> /\ Head(s) = Package(Head(q))
      <4>1. s # <<>>
        BY <3>2, <3>4, EmptySeq
      <4>2. Head(s) = s[1]
        BY <3>4, <4>1
      <4> QED BY <3>2, <3>4, <4>1, <4>2
    <3>6. /\ Tail(s) \in Seq(ByteSeqs) /\ Len(Tail(s)) = Len(s) - 1
          /\ \A i \in 1 .. Len(Tail(s)) : Tail(s)[i] = s[i + 1]
      BY <3>4, <3>5, HeadTailProperties
    <3>7. Tail(s) = t
      <4>1. ASSUME NEW i \in 1 .. Len(Tail(s)) PROVE Tail(s)[i] = t[i]
        <5>1. i \in 1 .. Len(u) /\ i + 1 \in 1 .. Len(q)
          BY <2>0, <3>1, <3>4, <3>6, <4>1
        <5> QED BY <3>1, <3>3, <3>4, <3>6, <5>1
      <4> QED BY <3>1, <3>3, <3>4, <3>6, <4>1, SeqEqual
    <3>8. FlattenSeq(s) = Head(s) \o FlattenSeq(Tail(s))
      BY <3>4, <3>5, FlattenHead DEF ByteSeqs
    <3> QED BY <3>5, <3>7, <3>8 DEF Bundle, s, t, u
  <2> QED BY <2>1, <2>2, <2>3
<1> QED BY <1>1, <1>2
-------------------------------------------------------------------------------
(* A reader and its connection *)

\* What is sent on c is what its readers can take.
Sound(c) == {m \in Messages : \A r \in Readers : (r = Lib <=> c = Lib) => Sendable(r, m)}
Coming(c) == arrived[c] \o flight[c]

\* The messages q are to come on c, for the reader r, which may be amidst the first.
Due(r, c, q) ==
  /\ q \in Seq(Sound(c)) /\ sent[c] = received[r] \o q
  /\ pc[r] # "lost"
  /\ pc[r] \notin {"size", "buffer"} => Coming(c) = Bundle(q)
  /\ pc[r] \in {"size", "buffer"} => q # <<>> /\ protocol[r] = Bytes(Head(q).op)
  /\ pc[r] = "size" => Coming(c) = Bytes(Len(Fields(Head(q)))) \o (Fields(Head(q)) \o Bundle(Tail(q)))
  /\ pc[r] = "buffer" => /\ size[r] = Len(Fields(Head(q)))
                         /\ Coming(c) = Fields(Head(q)) \o Bundle(Tail(q))
InStep(r, c) == \E q \in Seq(Sound(c)) : Due(r, c, q)

\* A sound message, and what it takes on the wire.
LEMMA SoundMessage ==
  ASSUME NEW c, NEW r \in Readers, r = Lib <=> c = Lib, NEW m \in Sound(c)
  PROVE  /\ m \in Messages /\ m.op \in Nat /\ m.fields \in Seq(ByteSeqs)
         /\ m = [op |-> m.op, fields |-> m.fields]
         /\ m.op \in Cases[r] /\ Number(Bytes(m.op)) = m.op
         /\ Signed(Number(Bytes(Len(Fields(m))))) = Len(Fields(m))
         /\ Parsed(Fields(m)) = [ok |-> TRUE, fields |-> m.fields]
<1>1. m \in Messages /\ m.op \in Nat /\ m.fields \in Seq(ByteSeqs) /\ m = [op |-> m.op, fields |-> m.fields]
  BY DEF Sound, Messages
<1>2. m.op \in Cases[r] /\ m.op < Power[INT] /\ 2 * Len(Fields(m)) < Power[INT]
  BY Zenon DEF Sound, Sendable
<1>3. Len(Fields(m)) \in Nat
  BY <1>1, PackageType
<1>4. Power[INT] \in Nat
  <2>1. INT \in Nat
    BY WireAssumption
  <2> QED BY <2>1, PowerIs
<1>5. Len(Fields(m)) < Power[INT]
  BY <1>2, <1>3, <1>4
<1>6. Number(Bytes(m.op)) = m.op /\ Number(Bytes(Len(Fields(m)))) = Len(Fields(m))
  BY <1>1, <1>2, <1>3, <1>5, NumberOfBytes
<1>7. Signed(Number(Bytes(Len(Fields(m))))) = Len(Fields(m))
  BY <1>2, <1>6 DEF Signed
<1>8. Parsed(Fields(m)) = [ok |-> TRUE, fields |-> m.fields]
  BY <1>1, <1>5, ParsedFields
<1> QED BY <1>1, <1>2, <1>6, <1>7, <1>8

\* Sound messages are messages, and stay so one by one.
LEMMA SoundSeq ==
  ASSUME NEW c, NEW q \in Seq(Sound(c))
  PROVE  /\ q \in Seq(Messages)
         /\ \A m \in Sound(c) : Append(q, m) \in Seq(Sound(c))
         /\ q # <<>> => Head(q) \in Sound(c) /\ Tail(q) \in Seq(Sound(c))
<1>1. Sound(c) \subseteq Messages
  BY DEF Sound
<1>2. q \in Seq(Messages)
  BY <1>1, SeqMonotonic
<1> QED BY <1>2, AppendProperties, HeadTailProperties

\* To send keeps a reader in step.
LEMMA SendKeeps ==
  ASSUME TypeOK, NEW c \in Conns, NEW r \in Readers, NEW q, Due(r, c, q), NEW m \in Sound(c), Send(c, m)
  PROVE  Due(r, c, Append(q, m))'
<1>1. /\ sent'[c] = Append(sent[c], m) /\ flight'[c] = flight[c] \o Package(m) /\ arrived' = arrived
      /\ UNCHANGED <<pc, protocol, size, received>>
  BY TypeParts DEF Send, readers, StreamTypes
<1>2. /\ flight[c] \in ByteSeqs /\ arrived[c] \in ByteSeqs /\ received[r] \in Seq(Messages)
  BY TypeParts DEF StreamTypes, ReaderTypes
<1>3. q \in Seq(Sound(c)) /\ q \in Seq(Messages) /\ Append(q, m) \in Seq(Sound(c)) /\ m \in Messages
  <2>1. q \in Seq(Sound(c))
    BY DEF Due
  <2> QED BY <2>1, SoundSeq DEF Sound
<1>4. Package(m) \in ByteSeqs
  BY <1>3, PackageType
<1>5. \A u \in ByteSeqs : \A v \in ByteSeqs : \A w \in ByteSeqs : (u \o v) \o w = u \o (v \o w)
  BY ONLY Regroup, SMTT(30) DEF ByteSeqs
<1>6. Coming(c)' = Coming(c) \o Package(m)
  <2>1. (arrived[c] \o flight[c]) \o Package(m) = arrived[c] \o (flight[c] \o Package(m))
    BY ONLY <1>2, <1>4, <1>5, Zenon
  <2>2. Coming(c)' = arrived[c] \o (flight[c] \o Package(m))
    BY ONLY <1>1, Zenon DEF Coming
  <2> QED BY <2>1, <2>2, Zenon DEF Coming
<1>7. sent'[c] = received'[r] \o Append(q, m)
  <2> DEFINE one == <<m>>
  <2>1. /\ one \in Seq(Messages) /\ Append(q, m) = q \o one
        /\ Append(sent[c], m) = sent[c] \o one /\ sent[c] = received[r] \o q
    <3>1. sent[c] \in Seq(Messages)
      BY TypeParts DEF StreamTypes
    <3>2. sent[c] = received[r] \o q
      BY DEF Due
    <3> QED BY <1>3, <3>1, <3>2, AppendIsConcat
  <2> HIDE DEF one
  <2>2. (received[r] \o q) \o one = received[r] \o (q \o one)
    <3>1. \A u \in Seq(Messages) : \A v \in Seq(Messages) : \A w \in Seq(Messages) : (u \o v) \o w = u \o (v \o w)
      BY ONLY Regroup, SMTT(30)
    <3> QED BY ONLY <1>2, <1>3, <2>1, <3>1, Zenon
  <2>3. sent'[c] = sent[c] \o one /\ received'[r] = received[r]
    BY <1>1, <2>1
  <2> QED BY ONLY <2>1, <2>2, <2>3, Zenon
<1>8. Bundle(Append(q, m)) = Bundle(q) \o Package(m) /\ Bundle(q) \in ByteSeqs
  BY <1>3, BundleIs
<1>9. CASE pc[r] \notin {"size", "buffer"}
  <2>1. Coming(c) = Bundle(q) /\ pc[r] # "lost" /\ pc'[r] = pc[r]
    BY <1>1, <1>9, Zenon DEF Due
  <2>2. Coming(c)' = Bundle(Append(q, m))
    BY ONLY <2>1, <1>6, <1>8, Zenon
  <2> QED BY <1>3, <1>7, <1>9, <2>1, <2>2, Zenon DEF Due
<1>10. CASE pc[r] \in {"size", "buffer"}
  <2> DEFINE h == Head(q)
             t == Tail(q)
             a == Bytes(Len(Fields(h)))
             s == Fields(h)
             k == Package(m)
             w == Bundle(t)
             v == Bundle(Append(t, m))
  <2>1. q # <<>> /\ protocol[r] = Bytes(h.op)
    BY <1>10, Zenon DEF Due
  <2>2. h \in Messages /\ t \in Seq(Messages)
    BY <1>3, <2>1, HeadTailProperties
  <2>3. a \in ByteSeqs /\ s \in ByteSeqs
    BY <2>2, PackageType
  <2>4. v = w \o k /\ w \in ByteSeqs
    BY <1>3, <2>2, BundleIs
  <2>5. Append(q, m) # <<>> /\ Head(Append(q, m)) = h /\ Tail(Append(q, m)) = Append(t, m)
    BY <1>3, <2>1, HeadTailAppend, AppendProperties
  <2>6. /\ pc[r] = "size" => Coming(c) = a \o (s \o w)
        /\ pc[r] = "buffer" => size[r] = Len(s) /\ Coming(c) = s \o w
    BY Zenon DEF Due
  <2> HIDE DEF a, s, w, v, k
  <2>7. s \o w \in ByteSeqs /\ k \in ByteSeqs
    BY <1>4, <2>3, <2>4, ConcatProperties DEF ByteSeqs, k
  <2>8. (s \o w) \o k = s \o v
    BY ONLY <1>5, <2>3, <2>4, <2>7, Zenon
  <2>9. (a \o (s \o w)) \o k = a \o (s \o v)
    <3>1. (a \o (s \o w)) \o k = a \o ((s \o w) \o k)
      BY ONLY <1>5, <2>3, <2>7, Zenon
    <3> QED BY ONLY <2>8, <3>1, Zenon
  <2>10. Coming(c)' = Coming(c) \o k
    BY <1>6 DEF k
  <2>11. /\ pc[r] = "size" => Coming(c)' = a \o (s \o v)
         /\ pc[r] = "buffer" => size[r] = Len(s) /\ Coming(c)' = s \o v
    BY ONLY <2>6, <2>8, <2>9, <2>10, Zenon
  <2>12. pc'[r] = pc[r] /\ protocol'[r] = protocol[r] /\ size'[r] = size[r]
    BY <1>1
  <2>13. pc[r] # "lost"
    BY <1>10
  <2> HIDE DEF h, t
  <2>14. /\ pc'[r] # "lost" /\ pc'[r] \in {"size", "buffer"}
         /\ Append(q, m) # <<>> /\ protocol'[r] = Bytes(Head(Append(q, m)).op)
         /\ pc'[r] = "size" => Coming(c)' = a \o (s \o v)
         /\ pc'[r] = "buffer" => size'[r] = Len(s) /\ Coming(c)' = s \o v
    BY ONLY <1>10, <2>1, <2>5, <2>11, <2>12, <2>13, Zenon
  <2>15. /\ a = Bytes(Len(Fields(Head(Append(q, m))))) /\ s = Fields(Head(Append(q, m)))
         /\ v = Bundle(Tail(Append(q, m)))
    BY ONLY <2>5, Zenon DEF a, s, v
  <2> QED BY ONLY <1>3, <1>7, <2>14, <2>15, Zenon DEF Due
<1> QED BY <1>9, <1>10

\* What a reader takes from what has arrived is what comes first.
LEMMA TakesFirst ==
  ASSUME TypeOK, NEW c \in Conns, NEW x \in ByteSeqs, NEW y \in ByteSeqs,
         Coming(c) = x \o y, Len(x) <= Len(arrived[c]), Take(c, Len(x))
  PROVE  /\ SubSeq(arrived[c], 1, Len(x)) = x
         /\ Coming(c)' = y /\ sent' = sent
<1>1. StreamTypes
  BY TypeParts
<1>2. arrived[c] \in ByteSeqs /\ flight[c] \in ByteSeqs
  BY <1>1 DEF StreamTypes
<1>3. arrived[c] \o flight[c] = x \o y
  BY DEF Coming
<1>4. /\ SubSeq(arrived[c], 1, Len(x)) = x
      /\ SubSeq(arrived[c], Len(x) + 1, Len(arrived[c])) \o flight[c] = y
  BY <1>2, <1>3, CutAlike
<1>5. /\ arrived'[c] = SubSeq(arrived[c], Len(x) + 1, Len(arrived[c]))
      /\ flight' = flight /\ sent' = sent
  BY <1>1 DEF Take, StreamTypes
<1>6. Coming(c)' = SubSeq(arrived[c], Len(x) + 1, Len(arrived[c])) \o flight[c]
  BY ONLY <1>5, Zenon DEF Coming
<1> QED BY ONLY <1>4, <1>5, <1>6, Zenon

\* The first of the messages due.
LEMMA FirstDue ==
  ASSUME NEW c, NEW r \in Readers, r = Lib <=> c = Lib, NEW q, Due(r, c, q), q # <<>>
  PROVE  /\ q \in Seq(Sound(c)) /\ Head(q) \in Sound(c) /\ Head(q) \in Messages
         /\ Tail(q) \in Seq(Sound(c)) /\ Bundle(Tail(q)) \in ByteSeqs
         /\ Bundle(q) = Package(Head(q)) \o Bundle(Tail(q))
<1>1. q \in Seq(Sound(c))
  BY DEF Due
<1>2. q \in Seq(Messages) /\ Head(q) \in Sound(c) /\ Tail(q) \in Seq(Sound(c))
  BY <1>1, SoundSeq
<1>3. Tail(q) \in Seq(Messages)
  BY <1>2, SoundSeq
<1> QED BY <1>1, <1>2, <1>3, BundleIs DEF Sound

\* The opcode, when it comes whole, is that of the first message due.
LEMMA OpcodeKeeps ==
  ASSUME TypeOK, NEW c \in Conns, NEW r \in Readers, r = Lib <=> c = Lib,
         NEW q, Due(r, c, q), RecvOpcode(r, c), ~torn'[r]
  PROVE  Due(r, c, q)'
<1>0. INT \in Nat \ {0} /\ StreamTypes /\ ReaderTypes
  BY WireAssumption, TypeParts
<1>1. arrived[c] \in ByteSeqs /\ flight[c] \in ByteSeqs /\ Len(arrived[c]) \in Nat
  <2>1. arrived[c] \in ByteSeqs /\ flight[c] \in ByteSeqs
    BY <1>0 DEF StreamTypes
  <2> QED BY <2>1, LenProperties DEF ByteSeqs
<1>2. protocol[r] \in ByteSeqs /\ Len(protocol[r]) = INT
  <2>1. protocol[r] \in [1 .. INT -> 0 .. B - 1]
    BY <1>0 DEF ReaderTypes
  <2> QED BY <2>1, IntBytes
<1> DEFINE n == IF Len(arrived[c]) < INT THEN Len(arrived[c]) ELSE INT
           p == SubSeq(arrived[c], 1, n) \o SubSeq(protocol[r], n + 1, INT)
<1>3. /\ pc[r] = "opcode" /\ arrived[c] # <<>>
      /\ Take(c, n) /\ protocol' = [protocol EXCEPT ![r] = p]
      /\ torn' = [torn EXCEPT ![r] = @ \/ n < INT]
      /\ pc' = [pc EXCEPT ![r] = IF Number(p) \in Cases[r] THEN "size" ELSE "opcode"]
      /\ UNCHANGED <<size, received>>
  BY Zenon DEF RecvOpcode
<1>4. n = INT /\ INT <= Len(arrived[c])
  <2> HIDE DEF p
  <2>1. ~(n < INT)
    <3> HIDE DEF n
    <3>1. torn'[r] = (torn[r] \/ n < INT)
      BY <1>0, <1>3 DEF ReaderTypes
    <3> QED BY <3>1
  <2> QED BY <1>0, <1>1, <2>1
<1> HIDE DEF n
<1>5. Coming(c) = Bundle(q)
  <2>1. pc[r] \notin {"size", "buffer"}
    BY <1>3
  <2> QED BY <2>1, Zenon DEF Due
<1>6. q # <<>>
  <2> SUFFICES ASSUME q = <<>> PROVE FALSE
    OBVIOUS
  <2>1. arrived[c] \o flight[c] = <<>>
    BY <1>5, BundleIs, Zenon DEF Coming
  <2>2. arrived[c] = <<>>
    BY <1>1, <2>1, ConcatEqualIffEmpty DEF ByteSeqs
  <2> QED BY <1>3, <2>2
<1> DEFINE m == Head(q)
           x == Bytes(m.op)
           a == Bytes(Len(Fields(m)))
           s == Fields(m)
           w == Bundle(Tail(q))
<1>7. q \in Seq(Sound(c)) /\ m \in Sound(c) /\ m \in Messages /\ w \in ByteSeqs /\ Bundle(q) = Package(m) \o w
  BY <1>6, FirstDue
<1>8. /\ x \in ByteSeqs /\ Len(x) = INT /\ a \in ByteSeqs /\ s \in ByteSeqs
      /\ Package(m) = x \o (a \o s)
  BY <1>7, PackageType
<1>9. Number(x) = m.op /\ m.op \in Cases[r]
  BY <1>7, SoundMessage
<1> HIDE DEF a, s, w, x, m
<1>10. \A i \in ByteSeqs : \A j \in ByteSeqs : i \o j \in ByteSeqs
  BY ConcatProperties DEF ByteSeqs
<1>11. a \o (s \o w) \in ByteSeqs
  BY ONLY <1>7, <1>8, <1>10, Zenon
<1>12. Coming(c) = x \o (a \o (s \o w))
  <2>1. \A u \in ByteSeqs : \A v \in ByteSeqs : \A z \in ByteSeqs : (u \o v) \o z = u \o (v \o z)
    BY ONLY Regroup, SMTT(30) DEF ByteSeqs
  <2>2. a \o s \in ByteSeqs
    BY ONLY <1>8, <1>10, Zenon
  <2>3. (x \o (a \o s)) \o w = x \o ((a \o s) \o w)
    BY ONLY <1>7, <1>8, <2>1, <2>2, Zenon
  <2>4. (a \o s) \o w = a \o (s \o w)
    BY ONLY <1>7, <1>8, <2>1, Zenon
  <2> QED BY ONLY <1>5, <1>7, <1>8, <2>3, <2>4, Zenon
<1>13. SubSeq(arrived[c], 1, INT) = x /\ Coming(c)' = a \o (s \o w) /\ sent' = sent
  <2> DEFINE y == a \o (s \o w)
  <2>1. y \in ByteSeqs /\ Coming(c) = x \o y /\ Len(x) <= Len(arrived[c]) /\ Take(c, Len(x))
    BY <1>3, <1>4, <1>8, <1>11, <1>12
  <2> HIDE DEF y
  <2>2. SubSeq(arrived[c], 1, Len(x)) = x /\ Coming(c)' = y /\ sent' = sent
    BY <1>8, <2>1, TakesFirst
  <2> QED BY <1>8, <2>2 DEF y
<1>14. p = x
  <2>1. SubSeq(protocol[r], INT + 1, INT) = <<>>
    BY <1>0, SubSeqEmpty
  <2>2. x \o <<>> = x
    BY <1>8, ConcatEmptySeq DEF ByteSeqs
  <2> QED BY <1>4, <1>13, <2>1, <2>2
<1> HIDE DEF p
<1>15. pc'[r] = "size" /\ protocol'[r] = x /\ UNCHANGED <<size, received>>
  BY <1>0, <1>3, <1>9, <1>14 DEF ReaderTypes
<1>16. sent[c] = received[r] \o q
  BY DEF Due
<1>17. x = Bytes(Head(q).op) /\ a \o (s \o w) = Bytes(Len(Fields(Head(q)))) \o (Fields(Head(q)) \o Bundle(Tail(q)))
  BY ONLY Zenon DEF x, a, s, w, m
<1>18. /\ q \in Seq(Sound(c)) /\ sent'[c] = received'[r] \o q /\ pc'[r] = "size"
       /\ q # <<>> /\ protocol'[r] = Bytes(Head(q).op)
       /\ Coming(c)' = Bytes(Len(Fields(Head(q)))) \o (Fields(Head(q)) \o Bundle(Tail(q)))
  BY ONLY <1>6, <1>7, <1>13, <1>15, <1>16, <1>17, Zenon
<1>19. pc'[r] # "lost" /\ pc'[r] \in {"size", "buffer"} /\ pc'[r] # "buffer"
  BY <1>18
<1> QED BY ONLY <1>18, <1>19, Zenon DEF Due

\* The size is that of its fields.
LEMMA SizeKeeps ==
  ASSUME TypeOK, NEW c \in Conns, NEW r \in Readers, r = Lib <=> c = Lib,
         NEW q, Due(r, c, q), RecvSize(r, c)
  PROVE  Due(r, c, q)'
<1>0. INT \in Nat \ {0} /\ StreamTypes /\ ReaderTypes
  BY WireAssumption, TypeParts
<1> DEFINE n == Signed(Number(SubSeq(arrived[c], 1, INT)))
<1>1. /\ pc[r] = "size" /\ Len(arrived[c]) >= INT /\ Take(c, INT) /\ size' = [size EXCEPT ![r] = n]
      /\ pc' = [pc EXCEPT ![r] = IF n >= 0 THEN "buffer" ELSE "lost"]
      /\ UNCHANGED <<protocol, received, torn>>
  BY Zenon DEF RecvSize
<1>2. pc[r] \in {"size", "buffer"}
  BY <1>1
<1> DEFINE m == Head(q)
           a == Bytes(Len(Fields(m)))
           s == Fields(m)
           w == Bundle(Tail(q))
<1>3. /\ q # <<>> /\ protocol[r] = Bytes(Head(q).op)
      /\ Coming(c) = a \o (s \o w) /\ sent[c] = received[r] \o q
  BY <1>1, <1>2, Zenon DEF Due
<1>4. q \in Seq(Sound(c)) /\ m \in Sound(c) /\ m \in Messages /\ w \in ByteSeqs
  BY <1>3, FirstDue
<1>5. a \in ByteSeqs /\ Len(a) = INT /\ s \in ByteSeqs /\ Len(s) \in Nat
  BY <1>4, PackageType
<1>6. Signed(Number(a)) = Len(s)
  BY <1>4, SoundMessage
<1> HIDE DEF a, s, w, m
<1>7. SubSeq(arrived[c], 1, INT) = a /\ Coming(c)' = s \o w /\ sent' = sent
  <2> DEFINE y == s \o w
  <2>1. y \in ByteSeqs
    BY <1>4, <1>5, ConcatProperties DEF ByteSeqs
  <2>2. y \in ByteSeqs /\ Coming(c) = a \o y /\ Len(a) <= Len(arrived[c]) /\ Take(c, Len(a))
    BY <1>0, <1>1, <1>3, <1>5, <2>1
  <2> HIDE DEF y
  <2>3. SubSeq(arrived[c], 1, Len(a)) = a /\ Coming(c)' = y /\ sent' = sent
    BY <1>5, <2>2, TakesFirst
  <2> QED BY <1>5, <2>3 DEF y
<1>8. n = Len(s)
  BY <1>6, <1>7
<1> HIDE DEF n
<1>9. pc'[r] = "buffer" /\ size'[r] = Len(s) /\ UNCHANGED <<protocol, received>>
  <2>1. n >= 0
    BY <1>5, <1>8
  <2> QED BY <1>0, <1>1, <1>8, <2>1 DEF ReaderTypes
<1>10. s = Fields(Head(q)) /\ w = Bundle(Tail(q))
  BY ONLY Zenon DEF s, w, m
<1>11. /\ q \in Seq(Sound(c)) /\ sent'[c] = received'[r] \o q /\ pc'[r] = "buffer"
       /\ q # <<>> /\ protocol'[r] = Bytes(Head(q).op)
       /\ size'[r] = Len(Fields(Head(q)))
       /\ Coming(c)' = Fields(Head(q)) \o Bundle(Tail(q))
  BY ONLY <1>3, <1>4, <1>7, <1>9, <1>10, Zenon
<1>12. pc'[r] # "lost" /\ pc'[r] \in {"size", "buffer"} /\ pc'[r] # "size"
  BY <1>11
<1> QED BY ONLY <1>11, <1>12, Zenon DEF Due

\* The buffer is its fields, and the message has been received.
LEMMA BufferKeeps ==
  ASSUME TypeOK, NEW c \in Conns, NEW r \in Readers, r = Lib <=> c = Lib,
         NEW q, Due(r, c, q), RecvBuffer(r, c)
  PROVE  Due(r, c, Tail(q))'
<1>0. StreamTypes /\ ReaderTypes
  BY TypeParts
<1> DEFINE m == Head(q)
           s == Fields(m)
           t == Tail(q)
           w == Bundle(t)
           b == SubSeq(arrived[c], 1, size[r])
<1>1. pc[r] = "buffer" /\ Len(arrived[c]) >= size[r] /\ TakesApart(r, c, b)
  BY Zenon DEF RecvBuffer
<1>2. pc[r] \in {"size", "buffer"}
  BY <1>1
<1>3. /\ q # <<>> /\ protocol[r] = Bytes(m.op) /\ size[r] = Len(s)
      /\ Coming(c) = s \o w /\ sent[c] = received[r] \o q
  BY <1>1, <1>2, Zenon DEF Due
<1>4. /\ q \in Seq(Sound(c)) /\ m \in Sound(c) /\ m \in Messages /\ w \in ByteSeqs
      /\ t \in Seq(Sound(c)) /\ q \in Seq(Messages)
  BY <1>3, FirstDue, SoundSeq
<1>5. s \in ByteSeqs /\ Len(s) \in Nat
  BY <1>4, PackageType
<1>6. /\ m = [op |-> m.op, fields |-> m.fields] /\ Number(Bytes(m.op)) = m.op
      /\ Parsed(s) = [ok |-> TRUE, fields |-> m.fields]
  BY <1>4, SoundMessage
<1>7. /\ Take(c, Len(b))
      /\ pc' = [pc EXCEPT ![r] = IF Parsed(b).ok THEN "opcode" ELSE "lost"]
      /\ received' = [received EXCEPT ![r] =
                        IF Parsed(b).ok THEN Append(@, [op |-> Number(protocol[r]), fields |-> Parsed(b).fields])
                        ELSE @]
  BY <1>1, Zenon DEF TakesApart
<1>8. b = s
  <2> HIDE DEF s, w, m, t
  <2>1. arrived[c] \o flight[c] = s \o w /\ Len(s) <= Len(arrived[c])
    BY <1>1, <1>3 DEF Coming
  <2>2. arrived[c] \in ByteSeqs /\ flight[c] \in ByteSeqs
    BY <1>0 DEF StreamTypes
  <2>3. SubSeq(arrived[c], 1, Len(s)) = s
    <3>1. s \in ByteSeqs /\ w \in ByteSeqs
      BY <1>4, <1>5
    <3> QED BY ONLY <2>1, <2>2, <3>1, CutAlike
  <2> QED BY <1>3, <2>3
<1> HIDE DEF b, s, w, m, t
<1>9. Coming(c)' = w /\ sent' = sent
  <2>1. Len(s) <= Len(arrived[c]) /\ Take(c, Len(s))
    BY <1>1, <1>3, <1>7, <1>8
  <2> QED BY <1>3, <1>4, <1>5, <2>1, TakesFirst
<1>10. pc'[r] = "opcode" /\ received'[r] = Append(received[r], m)
  <2>1. Parsed(b).ok = TRUE /\ Parsed(b).fields = m.fields
    BY <1>6, <1>8
  <2>2. [op |-> Number(protocol[r]), fields |-> Parsed(b).fields] = m
    BY <1>3, <1>6, <2>1, Zenon
  <2>3. pc' = [pc EXCEPT ![r] = "opcode"] /\ received' = [received EXCEPT ![r] = Append(@, m)]
    BY <1>7, <2>1, <2>2, Zenon
  <2> QED BY <1>0, <2>3 DEF ReaderTypes
<1>11. sent'[c] = received'[r] \o t
  <2> DEFINE one == <<m>>
  <2>1. received[r] \in Seq(Messages) /\ t \in Seq(Messages) /\ one \in Seq(Messages)
    BY <1>0, <1>4, SoundSeq DEF ReaderTypes
  <2>2. q = one \o t
    BY <1>3, <1>4 DEF m, t
  <2>3. received'[r] = received[r] \o one
    BY <1>4, <1>10, <2>1, AppendIsConcat
  <2> HIDE DEF one
  <2>4. (received[r] \o one) \o t = received[r] \o (one \o t)
    <3>1. \A u \in Seq(Messages) : \A v \in Seq(Messages) : \A z \in Seq(Messages) : (u \o v) \o z = u \o (v \o z)
      BY ONLY Regroup, SMTT(30)
    <3> QED BY ONLY <2>1, <3>1, Zenon
  <2> QED BY ONLY <1>3, <1>9, <2>2, <2>3, <2>4, Zenon
<1>12. pc'[r] # "lost" /\ pc'[r] \notin {"size", "buffer"} /\ pc'[r] # "size" /\ pc'[r] # "buffer"
  BY <1>10
<1>13. Coming(c)' = Bundle(t)
  BY ONLY <1>9, Zenon DEF w
<1>14. Due(r, c, t)'
  BY ONLY <1>4, <1>11, <1>12, <1>13, Zenon DEF Due
<1> QED BY <1>14 DEF t
-------------------------------------------------------------------------------
(* All readers *)

\* The reader r has the connection c to read.
Reading(r, c) == IF r = Lib THEN c = Lib ELSE c \in Clients /\ given[r] = c

Midway == {"size", "buffer", "lost"}

\* A connection waits once, and only before it has a descriptor; it is given to one thread.
Once == /\ \A i \in 1 .. Len(backlog) : \A j \in 1 .. Len(backlog) : i # j => backlog[i] # backlog[j]
        /\ \A i \in 1 .. Len(backlog) : \A f \in FDs : table[f] # backlog[i]
        /\ \A r \in Threads : given[r] # None => \E f \in FDs : table[f] = given[r]
        /\ \A r \in Threads : \A s \in Threads : r # s /\ given[r] # None => given[r] # given[s]

\* Nobody has read from a connection that was given to nobody, a thread that was given none
\* has read nothing, and one that was is in step with it.
Waits(c) == (\A r \in Threads : given[r] # c) => sent[c] \in Seq(Sound(c)) /\ Coming(c) = Bundle(sent[c])
Unserved(r) == given[r] = None => received[r] = <<>> /\ pc[r] \notin Midway
Follows(r, c) == Reading(r, c) /\ ~torn[r] => InStep(r, c)

Order == /\ \A c \in Clients : Waits(c)
         /\ \A r \in Threads : Unserved(r)
         /\ \A r \in Readers : \A c \in Conns : Follows(r, c)

DeliveryInv == TypeOK /\ Inv /\ Once /\ Order

\* Nobody waits at first.
LEMMA OnceInit == Init => Once
<1> SUFFICES ASSUME Init PROVE Once
  OBVIOUS
<1>1. backlog = <<>> /\ \A r \in Threads : given[r] = None
  BY DEF Init
<1>2. Len(backlog) = 0
  BY <1>1, EmptySeq
<1> QED BY <1>1, <1>2 DEF Once

\* A connection that is accepted leaves the queue, and one that has a descriptor keeps it.
LEMMA OnceStep ==
  ASSUME TypeOK, Once, [Next]_vars
  PROVE  Once'
<1>0. /\ ProcessTypes /\ None \notin Clients
  BY TypeParts, ServersAssumption
<1>1. backlog \in Seq(Clients) /\ Len(backlog) \in Nat /\ \A i \in 1 .. Len(backlog) : backlog[i] \in Clients
  BY <1>0, LenProperties, ElementOfSeq DEF ProcessTypes
<1>2. CASE UNCHANGED <<backlog, table, given>>
  BY <1>2 DEF Once
<1>3. ASSUME NEW c \in Clients, Connect(c) PROVE Once'
  <2>1. backlog' = Append(backlog, c) /\ UNCHANGED <<table, given>> /\ ~Connected(c)
    BY <1>3 DEF Connect, process
  <2>2. /\ Len(backlog') = Len(backlog) + 1 /\ backlog'[Len(backlog) + 1] = c
        /\ \A i \in 1 .. Len(backlog) : backlog'[i] = backlog[i]
    BY <1>1, <2>1, AppendProperties
  <2>3. (\A i \in 1 .. Len(backlog) : backlog[i] # c) /\ \A f \in FDs : table[f] # c
    <3>1. DOMAIN backlog = 1 .. Len(backlog)
      BY <1>1, LenProperties
    <3> QED BY <2>1, <3>1 DEF Connected
  <2>4. \A i \in 1 .. Len(backlog') : i \in 1 .. Len(backlog) \/ i = Len(backlog) + 1
    BY <1>1, <2>2
  <2>5. \A i \in 1 .. Len(backlog') : \A j \in 1 .. Len(backlog') : i # j => backlog'[i] # backlog'[j]
    BY <2>2, <2>3, <2>4 DEF Once
  <2>6. \A i \in 1 .. Len(backlog') : \A f \in FDs : table'[f] # backlog'[i]
    BY <2>1, <2>2, <2>3, <2>4 DEF Once
  <2> QED BY <2>1, <2>5, <2>6 DEF Once
<1>4. ASSUME NEW r \in Threads, Accept(r) PROVE Once'
  <2>1. PICK f \in FreeFDs : table' = [table EXCEPT ![f] = Head(backlog)]
    BY <1>4 DEF Accept
  <2>2. backlog # <<>> /\ backlog' = Tail(backlog) /\ given' = [given EXCEPT ![r] = Head(backlog)]
    BY <1>4 DEF Accept
  <2> DEFINE c == Head(backlog)
  <2>3. /\ Len(backlog) \in Nat \ {0} /\ c = backlog[1] /\ c \in Clients
        /\ Len(backlog') = Len(backlog) - 1
        /\ \A i \in 1 .. Len(backlog') : backlog'[i] = backlog[i + 1]
    BY <1>1, <2>2, HeadTailProperties, EmptySeq
  <2> HIDE DEF c
  <2>4. f \in FDs /\ table[f] = None /\ table'[f] = c /\ \A g \in FDs \ {f} : table'[g] = table[g]
    BY <1>0, <2>1 DEF FreeFDs, ProcessTypes, c
  <2>5. given'[r] = c /\ \A s \in Threads \ {r} : given'[s] = given[s]
    BY <1>0, <2>2 DEF ProcessTypes, c
  <2>6. 1 \in 1 .. Len(backlog) /\ \A i \in 1 .. Len(backlog') : i + 1 \in 1 .. Len(backlog) /\ i + 1 # 1
    BY <2>3
  <2>7. \A g \in FDs : table[g] # c
    BY <2>3, <2>6 DEF Once
  <2>8. \A s \in Threads : given[s] # c
    <3> SUFFICES ASSUME NEW s \in Threads, given[s] = c PROVE FALSE
      OBVIOUS
    <3>1. given[s] # None
      BY <1>0, <2>3
    <3> QED BY <2>7, <3>1 DEF Once
  <2>9. \A i \in 1 .. Len(backlog') : \A j \in 1 .. Len(backlog') : i # j => backlog'[i] # backlog'[j]
    <3> SUFFICES ASSUME NEW i \in 1 .. Len(backlog'), NEW j \in 1 .. Len(backlog'), i # j
                 PROVE  backlog'[i] # backlog'[j]
      OBVIOUS
    <3>1. i + 1 # j + 1
      BY <2>3
    <3> QED BY <2>3, <2>6, <3>1 DEF Once
  <2>10. \A i \in 1 .. Len(backlog') : \A g \in FDs : table'[g] # backlog'[i]
    <3> SUFFICES ASSUME NEW i \in 1 .. Len(backlog'), NEW g \in FDs PROVE table'[g] # backlog'[i]
      OBVIOUS
    <3>1. backlog[i + 1] # c
      BY <2>3, <2>6 DEF Once
    <3>2. table[g] # backlog[i + 1]
      BY <2>6 DEF Once
    <3> QED BY <2>3, <2>4, <3>1, <3>2
  <2>11. \A s \in Threads : given'[s] # None => \E g \in FDs : table'[g] = given'[s]
    <3> SUFFICES ASSUME NEW s \in Threads, given'[s] # None PROVE \E g \in FDs : table'[g] = given'[s]
      OBVIOUS
    <3>1. CASE s = r
      BY <2>4, <2>5, <3>1
    <3>2. CASE s # r
      <4>1. PICK g \in FDs : table[g] = given[s]
        BY <2>5, <3>2 DEF Once
      <4>2. g # f
        BY <2>4, <2>5, <3>2, <4>1
      <4> QED BY <2>4, <2>5, <3>2, <4>1, <4>2
    <3> QED BY <3>1, <3>2
  <2>12. \A s \in Threads : \A t \in Threads : s # t /\ given'[s] # None => given'[s] # given'[t]
    BY <2>5, <2>8 DEF Once
  <2> QED BY <2>9, <2>10, <2>11, <2>12 DEF Once
<1>5. CASE \/ \E c \in Clients : \E o \in Operations[c] : Operate(c, o)
           \/ \E m \in LibMessages : Ask(m)
           \/ \E c \in Conns : Leave(c) \/ Arrives(c)
           \/ \E r \in Threads : AcceptFails(r) \/ Begin(r)
           \/ \E r \in Readers : Receives(r) \/ Ends(r)
           \/ UNCHANGED vars
  BY <1>2, <1>5 DEF Operate, Ask, Leave, Arrives, AcceptFails, Begin, Receives, Ends, vars, process
<1> QED BY <1>3, <1>4, <1>5 DEF Next

\* The connections and the readers.
LEMMA Who ==
  /\ Conns = Clients \cup {Lib} /\ Readers = Threads \cup {Lib}
  /\ Lib \notin Clients /\ Lib \notin Threads /\ None \notin Clients
BY ServersAssumption

\* A connection has one reader.
LEMMA OneReader ==
  ASSUME Once, NEW r \in Readers, NEW s \in Readers, NEW c \in Conns, Reading(r, c), Reading(s, c)
  PROVE  r = s /\ (r = Lib <=> c = Lib)
<1>1. CASE r = Lib \/ s = Lib
  BY <1>1, Who DEF Reading
<1>2. CASE r # Lib /\ s # Lib
  <2>1. r \in Threads /\ s \in Threads /\ c \in Clients /\ given[r] = c /\ given[s] = c /\ c # None
    BY <1>2, Who DEF Reading
  <2> QED BY <1>2, <2>1, Who DEF Once
<1> QED BY <1>1, <1>2

\* What is due to a reader stays due while its connection and itself do, or it goes from one
\* place between two messages to another.
LEMMA DueKept ==
  ASSUME NEW r, NEW c, NEW q, Due(r, c, q),
         sent'[c] = sent[c], Coming(c)' = Coming(c), received'[r] = received[r],
         \/ pc'[r] = pc[r] /\ protocol'[r] = protocol[r] /\ size'[r] = size[r]
         \/ pc[r] \notin Midway /\ pc'[r] \notin Midway
  PROVE  Due(r, c, q)'
<1>1. CASE pc'[r] = pc[r] /\ protocol'[r] = protocol[r] /\ size'[r] = size[r]
  BY <1>1, Zenon DEF Due
<1>2. CASE pc[r] \notin Midway /\ pc'[r] \notin Midway
  <2>1. /\ pc[r] \notin {"size", "buffer"} /\ pc'[r] \notin {"size", "buffer"}
        /\ pc'[r] # "lost" /\ pc'[r] # "size" /\ pc'[r] # "buffer"
    BY <1>2 DEF Midway
  <2> QED BY <2>1, Zenon DEF Due
<1> QED BY <1>1, <1>2

\* So a step that leaves connections and readers be keeps them in order.
LEMMA OrderKept ==
  ASSUME Order, UNCHANGED <<sent, received, torn, given, protocol, size>>,
         \A c \in Conns : Coming(c)' = Coming(c),
         \A r \in Readers : pc'[r] = pc[r] \/ (pc[r] \notin Midway /\ pc'[r] \notin Midway)
  PROVE  Order'
<1>1. ASSUME NEW c \in Clients PROVE Waits(c)'
  <2>1. c \in Conns
    BY Who
  <2> QED BY <2>1 DEF Order, Waits, Sound
<1>2. ASSUME NEW r \in Threads PROVE Unserved(r)'
  <2>1. r \in Readers
    BY Who
  <2> QED BY <2>1 DEF Order, Unserved
<1>3. ASSUME NEW r \in Readers, NEW c \in Conns, Reading(r, c)', ~torn'[r] PROVE InStep(r, c)'
  <2>1. Reading(r, c) /\ ~torn[r]
    BY <1>3 DEF Reading
  <2>2. PICK q \in Seq(Sound(c)) : Due(r, c, q)
    BY <2>1 DEF Order, Follows, InStep
  <2>3. /\ sent'[c] = sent[c] /\ Coming(c)' = Coming(c) /\ received'[r] = received[r]
        /\ \/ pc'[r] = pc[r] /\ protocol'[r] = protocol[r] /\ size'[r] = size[r]
           \/ pc[r] \notin Midway /\ pc'[r] \notin Midway
    OBVIOUS
  <2>4. Due(r, c, q)'
    BY ONLY <2>2, <2>3, DueKept
  <2> QED BY <2>4 DEF InStep, Sound
<1> QED BY <1>1, <1>2, <1>3 DEF Order, Follows

\* Nothing is due at first.
LEMMA OrderInit == Init => Order
<1> SUFFICES ASSUME Init PROVE Order
  OBVIOUS
<1>0. /\ sent = [c \in Conns |-> <<>>] /\ flight = [c \in Conns |-> <<>>] /\ arrived = [c \in Conns |-> <<>>]
      /\ pc = [r \in Readers |-> IF r = Lib THEN "opcode" ELSE "none"]
      /\ received = [r \in Readers |-> <<>>] /\ given = [r \in Threads |-> None]
  BY DEF Init
<1>1. Bundle(<<>>) = <<>> /\ <<>> \o <<>> = <<>>
  BY BundleIs
<1>2. ASSUME NEW c \in Conns PROVE sent[c] = <<>> /\ Coming(c) = Bundle(<<>>) /\ <<>> \in Seq(Sound(c))
  BY <1>0, <1>1 DEF Coming
<1>3. ASSUME NEW c \in Clients PROVE Waits(c)
  <2>1. c \in Conns
    BY Who
  <2> QED BY <1>2, <2>1 DEF Waits
<1>4. ASSUME NEW r \in Threads PROVE Unserved(r)
  BY <1>0, Who DEF Unserved, Midway
<1>5. ASSUME NEW r \in Readers, NEW c \in Conns, Reading(r, c) PROVE InStep(r, c)
  <2>1. r = Lib /\ c = Lib
    BY <1>0, <1>5, Who DEF Reading
  <2>2. pc[r] = "opcode" /\ received[r] = <<>>
    BY <1>0, <2>1
  <2>3. /\ pc[r] \notin {"size", "buffer"} /\ pc[r] # "lost" /\ pc[r] # "size" /\ pc[r] # "buffer"
        /\ sent[c] = received[r] \o <<>>
    BY <1>1, <1>2, <2>2
  <2>4. Due(r, c, <<>>)
    BY <1>2, <2>3, Zenon DEF Due
  <2> QED BY <1>2, <2>4 DEF InStep
<1> QED BY <1>3, <1>4, <1>5 DEF Order, Follows

\* To send keeps the order: what is sent comes last.
LEMMA OrderSend ==
  ASSUME TypeOK, Once, Order, NEW c \in Conns, NEW m \in Sound(c), Send(c, m), UNCHANGED given
  PROVE  Order'
<1>0. m \in Messages /\ StreamTypes
  BY TypeParts DEF Sound
<1>1. /\ sent'[c] = Append(sent[c], m) /\ flight'[c] = flight[c] \o Package(m) /\ arrived' = arrived
      /\ \A d \in Conns \ {c} : sent'[d] = sent[d] /\ flight'[d] = flight[d]
      /\ UNCHANGED <<pc, protocol, size, received, torn, given>>
  BY <1>0 DEF Send, readers, StreamTypes
<1>2. \A d \in Conns \ {c} : Coming(d)' = Coming(d)
  BY <1>1 DEF Coming
<1>3. ASSUME NEW d \in Clients PROVE Waits(d)'
  <2> SUFFICES ASSUME \A r \in Threads : given[r] # d
               PROVE  sent'[d] \in Seq(Sound(d)) /\ Coming(d)' = Bundle(sent'[d])
    BY <1>1 DEF Waits, Sound
  <2>0. sent[d] \in Seq(Sound(d)) /\ Coming(d) = Bundle(sent[d]) /\ d \in Conns
    BY Who DEF Order, Waits
  <2>1. CASE d # c
    BY <1>1, <1>2, <2>0, <2>1
  <2>2. CASE d = c
    <3>1. sent'[c] \in Seq(Sound(c)) /\ sent[c] \in Seq(Messages)
      BY <1>1, <2>0, <2>2, SoundSeq
    <3>2. Bundle(Append(sent[c], m)) = Bundle(sent[c]) \o Package(m)
      BY <1>0, <3>1, BundleIs
    <3>3. Coming(c)' = Coming(c) \o Package(m)
      <4>1. arrived[c] \in ByteSeqs /\ flight[c] \in ByteSeqs /\ Package(m) \in ByteSeqs
        BY <1>0, PackageType DEF StreamTypes
      <4>2. \A u \in ByteSeqs : \A v \in ByteSeqs : \A w \in ByteSeqs : (u \o v) \o w = u \o (v \o w)
        BY ONLY Regroup, SMTT(30) DEF ByteSeqs
      <4>3. (arrived[c] \o flight[c]) \o Package(m) = arrived[c] \o (flight[c] \o Package(m))
        BY ONLY <4>1, <4>2, Zenon
      <4>4. Coming(c)' = arrived[c] \o (flight[c] \o Package(m))
        BY ONLY <1>1, Zenon DEF Coming
      <4> QED BY ONLY <4>3, <4>4, Zenon DEF Coming
    <3> QED BY <1>1, <2>0, <2>2, <3>1, <3>2, <3>3
  <2> QED BY <2>1, <2>2
<1>4. ASSUME NEW r \in Threads PROVE Unserved(r)'
  BY <1>1 DEF Order, Unserved
<1>5. ASSUME NEW r \in Readers, NEW d \in Conns, Reading(r, d)', ~torn'[r] PROVE InStep(r, d)'
  <2>1. Reading(r, d) /\ ~torn[r]
    BY <1>1, <1>5 DEF Reading
  <2>2. PICK q \in Seq(Sound(d)) : Due(r, d, q)
    BY <2>1 DEF Order, Follows, InStep
  <2>3. CASE d = c
    <3>1. Due(r, c, Append(q, m))'
      BY <2>2, <2>3, SendKeeps
    <3>2. Append(q, m) \in Seq(Sound(c))
      BY <2>2, <2>3, SoundSeq
    <3> QED BY <2>3, <3>1, <3>2 DEF InStep, Sound
  <2>4. CASE d # c
    <3>1. /\ sent'[d] = sent[d] /\ Coming(d)' = Coming(d) /\ received'[r] = received[r]
          /\ \/ pc'[r] = pc[r] /\ protocol'[r] = protocol[r] /\ size'[r] = size[r]
             \/ pc[r] \notin Midway /\ pc'[r] \notin Midway
      BY <1>1, <1>2, <2>4
    <3>2. Due(r, d, q)'
      BY ONLY <2>2, <3>1, DueKept
    <3> QED BY <3>2 DEF InStep, Sound
  <2> QED BY <2>3, <2>4
<1> QED BY <1>3, <1>4, <1>5 DEF Order, Follows

\* A byte that arrives is still to come for the reader.
LEMMA StillComing ==
  ASSUME TypeOK, NEW c \in Conns, Arrive(c), NEW d \in Conns
  PROVE  Coming(d)' = Coming(d)
<1>0. StreamTypes
  BY TypeParts
<1>1. /\ flight[c] # <<>>
      /\ arrived' = [arrived EXCEPT ![c] = Append(@, Head(flight[c]))]
      /\ flight' = [flight EXCEPT ![c] = Tail(@)]
  BY DEF Arrive
<1>2. CASE d # c
  BY <1>0, <1>1, <1>2 DEF StreamTypes, Coming
<1>3. CASE d = c
  <2> DEFINE one == <<Head(flight[c])>>
  <2>1. arrived'[c] = Append(arrived[c], Head(flight[c])) /\ flight'[c] = Tail(flight[c])
    BY <1>0, <1>1 DEF StreamTypes
  <2>2. arrived[c] \in ByteSeqs /\ flight[c] \in ByteSeqs
    BY <1>0 DEF StreamTypes
  <2>3. Head(flight[c]) \in 0 .. B - 1 /\ Tail(flight[c]) \in ByteSeqs
    BY <1>1, <2>2, HeadTailProperties DEF ByteSeqs
  <2>4. one \in ByteSeqs /\ flight[c] = one \o Tail(flight[c])
    BY <1>1, <2>2, <2>3 DEF ByteSeqs
  <2>5. arrived'[c] = arrived[c] \o one
    BY <2>1, <2>2, <2>3, AppendIsConcat DEF ByteSeqs
  <2> HIDE DEF one
  <2>6. \A u \in ByteSeqs : \A v \in ByteSeqs : \A w \in ByteSeqs : (u \o v) \o w = u \o (v \o w)
    BY ONLY Regroup, SMTT(30) DEF ByteSeqs
  <2>7. (arrived[c] \o one) \o Tail(flight[c]) = arrived[c] \o (one \o Tail(flight[c]))
    BY ONLY <2>2, <2>3, <2>4, <2>6, Zenon
  <2>8. Coming(c)' = (arrived[c] \o one) \o Tail(flight[c])
    BY ONLY <2>1, <2>5, Zenon DEF Coming
  <2>9. Coming(c) = arrived[c] \o (one \o Tail(flight[c]))
    BY ONLY <2>4, Zenon DEF Coming
  <2> QED BY ONLY <1>3, <2>7, <2>8, <2>9, Zenon
<1> QED BY <1>2, <1>3

\* A read concerns its reader and its connection.
LEMMA ReadsAlone ==
  ASSUME TypeOK, NEW r \in Readers, NEW c \in Conns, Reads(r, c)
  PROVE  /\ \A s \in Readers \ {r} : /\ pc'[s] = pc[s] /\ protocol'[s] = protocol[s] /\ size'[s] = size[s]
                                     /\ received'[s] = received[s] /\ torn'[s] = torn[s]
         /\ \A d \in Conns \ {c} : sent'[d] = sent[d] /\ Coming(d)' = Coming(d)
         /\ torn[r] => torn'[r]
<1>0. StreamTypes /\ ReaderTypes
  BY TypeParts
<1>1. PICK k : Take(c, k)
  BY Zenon DEF Reads, RecvOpcode, RecvSize, RecvBuffer, TakesApart
<1>2. \A d \in Conns \ {c} : sent'[d] = sent[d] /\ Coming(d)' = Coming(d)
  BY <1>0, <1>1 DEF Take, Coming, StreamTypes
<1> DEFINE Same(s) == /\ pc'[s] = pc[s] /\ protocol'[s] = protocol[s] /\ size'[s] = size[s]
                      /\ received'[s] = received[s] /\ torn'[s] = torn[s]
<1>3. CASE RecvOpcode(r, c)
  <2> DEFINE n == IF Len(arrived[c]) < INT THEN Len(arrived[c]) ELSE INT
             p == SubSeq(arrived[c], 1, n) \o SubSeq(protocol[r], n + 1, INT)
             to == IF Number(p) \in Cases[r] THEN "size" ELSE "opcode"
             cut == n < INT
  <2>1. /\ protocol' = [protocol EXCEPT ![r] = p] /\ torn' = [torn EXCEPT ![r] = @ \/ cut]
        /\ pc' = [pc EXCEPT ![r] = to] /\ UNCHANGED <<size, received>>
    BY <1>3, Zenon DEF RecvOpcode
  <2> HIDE DEF p, to, cut
  <2>2. (\A s \in Readers \ {r} : Same(s)) /\ (torn[r] => torn'[r])
    BY <1>0, <2>1 DEF ReaderTypes
  <2> QED BY <1>2, <2>2
<1>4. CASE RecvSize(r, c)
  <2> DEFINE n == Signed(Number(SubSeq(arrived[c], 1, INT)))
             to == IF n >= 0 THEN "buffer" ELSE "lost"
  <2>1. /\ size' = [size EXCEPT ![r] = n] /\ pc' = [pc EXCEPT ![r] = to]
        /\ UNCHANGED <<protocol, received, torn>>
    BY <1>4, Zenon DEF RecvSize
  <2> HIDE DEF n, to
  <2>2. (\A s \in Readers \ {r} : Same(s)) /\ (torn[r] => torn'[r])
    BY <1>0, <2>1 DEF ReaderTypes
  <2> QED BY <1>2, <2>2
<1>5. CASE RecvBuffer(r, c)
  <2> DEFINE b == SubSeq(arrived[c], 1, size[r])
             to == IF Parsed(b).ok THEN "opcode" ELSE "lost"
             m == [op |-> Number(protocol[r]), fields |-> Parsed(b).fields]
             ok == Parsed(b).ok
  <2>1. /\ pc' = [pc EXCEPT ![r] = to]
        /\ received' = [received EXCEPT ![r] = IF ok THEN Append(@, m) ELSE @]
        /\ UNCHANGED <<protocol, size, torn>>
    BY <1>5, Zenon DEF RecvBuffer, TakesApart
  <2> HIDE DEF to, m, ok
  <2>2. (\A s \in Readers \ {r} : Same(s)) /\ (torn[r] => torn'[r])
    BY <1>0, <2>1 DEF ReaderTypes
  <2> QED BY <1>2, <2>2
<1> QED BY <1>2, <1>3, <1>4, <1>5 DEF Reads

\* A thread that reads a connection was given it.
LEMMA ServesReading ==
  ASSUME TypeOK, Inv, NEW r \in Readers, NEW c \in Conns, Serves(r, c), pc[r] \in {"opcode", "size", "buffer"}
  PROVE  Reading(r, c)
<1>1. CASE r = Lib
  BY <1>1 DEF Serves, Reading
<1>2. CASE r # Lib
  <2>1. r \in Threads /\ fd[r] \in FDs /\ table[fd[r]] = c
    BY <1>2, Who DEF Serves
  <2>2. Holds(r) /\ Held(r) = fd[r] /\ fd[r] # -1
    BY <2>1, Numbers DEF Holds, Held, Running
  <2>3. given[r] = c /\ given[r] # None /\ given[r] \in Clients \cup {None}
    BY <2>1, <2>2 DEF Inv, Own, Tables
  <2> QED BY <1>2, <2>3 DEF Reading
<1> QED BY <1>1, <1>2

\* To receive keeps it, for the reader and for all others.
LEMMA OrderReceives ==
  ASSUME TypeOK, Inv, Once, Order, NEW r \in Readers, Receives(r)
  PROVE  Order'
<1>1. PICK c \in Conns : Serves(r, c) /\ Reads(r, c)
  BY DEF Receives
<1>2. ~torn[r] /\ given' = given
  BY DEF Receives
<1>3. pc[r] \in {"opcode", "size", "buffer"}
  BY <1>1 DEF Reads, RecvOpcode, RecvSize, RecvBuffer
<1>4. Reading(r, c)
  BY <1>1, <1>3, ServesReading
<1>5. r = Lib <=> c = Lib
  BY <1>4, Who DEF Reading
<1>6. /\ \A s \in Readers \ {r} : /\ pc'[s] = pc[s] /\ protocol'[s] = protocol[s] /\ size'[s] = size[s]
                                  /\ received'[s] = received[s] /\ torn'[s] = torn[s]
      /\ \A d \in Conns \ {c} : sent'[d] = sent[d] /\ Coming(d)' = Coming(d)
  BY <1>1, ReadsAlone
<1>7. ASSUME NEW d \in Clients PROVE Waits(d)'
  <2> SUFFICES ASSUME \A s \in Threads : given[s] # d
               PROVE  sent'[d] \in Seq(Sound(d)) /\ Coming(d)' = Bundle(sent'[d])
    BY <1>2 DEF Waits, Sound
  <2>1. d # c /\ d \in Conns
    BY <1>4, Who DEF Reading
  <2>2. sent[d] \in Seq(Sound(d)) /\ Coming(d) = Bundle(sent[d])
    BY DEF Order, Waits
  <2> QED BY <1>6, <2>1, <2>2
<1>8. ASSUME NEW s \in Threads PROVE Unserved(s)'
  <2>1. CASE s = r
    BY <1>2, <1>4, <2>1, Who DEF Unserved, Reading
  <2>2. CASE s # r
    BY <1>2, <1>6, <2>2, Who DEF Order, Unserved
  <2> QED BY <2>1, <2>2
<1>9. ASSUME NEW s \in Readers, NEW d \in Conns, Reading(s, d)', ~torn'[s] PROVE InStep(s, d)'
  <2>1. Reading(s, d)
    BY <1>2, <1>9 DEF Reading
  <2>2. CASE s = r
    <3>1. d = c
      <4>1. CASE r = Lib
        BY <1>4, <2>1, <2>2, <4>1 DEF Reading
      <4>2. CASE r # Lib
        BY <1>4, <2>1, <2>2, <4>2 DEF Reading
      <4> QED BY <4>1, <4>2
    <3>2. PICK q \in Seq(Sound(c)) : Due(r, c, q)
      BY <1>2, <1>4 DEF Order, Follows, InStep
    <3>3. CASE RecvOpcode(r, c)
      <4>1. Due(r, c, q)'
        BY <1>5, <1>9, <2>2, <3>2, <3>3, OpcodeKeeps
      <4> QED BY <2>2, <3>1, <4>1 DEF InStep, Sound
    <3>4. CASE RecvSize(r, c)
      <4>1. Due(r, c, q)'
        BY <1>5, <3>2, <3>4, SizeKeeps
      <4> QED BY <2>2, <3>1, <4>1 DEF InStep, Sound
    <3>5. CASE RecvBuffer(r, c)
      <4>1. Due(r, c, Tail(q))'
        BY <1>5, <3>2, <3>5, BufferKeeps
      <4>2. Tail(q) \in Seq(Sound(c))'
        BY <4>1, Zenon DEF Due
      <4> QED BY <2>2, <3>1, <4>1, <4>2, Zenon DEF InStep
    <3> QED BY <1>1, <3>3, <3>4, <3>5 DEF Reads
  <2>3. CASE s # r
    <3>1. d # c
      BY <1>4, <2>1, <2>3, OneReader
    <3>2. ~torn[s]
      BY <1>6, <1>9, <2>3
    <3>3. PICK q \in Seq(Sound(d)) : Due(s, d, q)
      BY <2>1, <3>2 DEF Order, Follows, InStep
    <3>4. /\ sent'[d] = sent[d] /\ Coming(d)' = Coming(d) /\ received'[s] = received[s]
          /\ \/ pc'[s] = pc[s] /\ protocol'[s] = protocol[s] /\ size'[s] = size[s]
             \/ pc[s] \notin Midway /\ pc'[s] \notin Midway
      BY <1>6, <2>3, <3>1
    <3>5. Due(s, d, q)'
      BY ONLY <3>3, <3>4, DueKept
    <3> QED BY <3>5 DEF InStep, Sound
  <2> QED BY <2>2, <2>3
<1> QED BY <1>7, <1>8, <1>9 DEF Order, Follows

\* A thread that is given a connection has all that was sent on it before itself.
LEMMA OrderAccept ==
  ASSUME TypeOK, Inv, Once, Order, NEW r \in Threads, Accept(r)
  PROVE  Order'
<1>0. ReaderTypes /\ ProcessTypes
  BY TypeParts
<1>12. PICK c : c = Head(backlog)
  OBVIOUS
<1>1. /\ UNCHANGED <<sent, flight, arrived, protocol, size, received, torn>>
      /\ pc[r] = "none" /\ backlog # <<>> /\ given' = [given EXCEPT ![r] = c]
  BY <1>12 DEF Accept, NextThread, Starts, streams
<1>2. PICK where \in {"start", "never"} : pc' = [pc EXCEPT ![r] = where]
  BY DEF Accept, Starts
<1>3. c \in Clients /\ c # None /\ \A s \in Threads : given[s] # c
  <2>1. backlog \in Seq(Clients) /\ 1 \in 1 .. Len(backlog) /\ c = backlog[1] /\ c \in Clients
    BY <1>0, <1>1, <1>12, HeadTailProperties, EmptySeq DEF ProcessTypes
  <2>2. \A f \in FDs : table[f] # c
    BY <2>1 DEF Once
  <2>3. c # None
    BY <2>1, Who
  <2> QED BY <2>1, <2>2, <2>3 DEF Once
<1>4. /\ given'[r] = c /\ \A s \in Threads \ {r} : given'[s] = given[s]
      /\ r \in Readers /\ pc'[r] \in {"start", "never"} /\ \A s \in Readers \ {r} : pc'[s] = pc[s]
  BY <1>0, <1>1, <1>2, Who DEF ReaderTypes, ProcessTypes
<1>5. given[r] = None
  BY <1>1 DEF Inv, NotYet
<1>6. \A d \in Conns : Coming(d)' = Coming(d)
  BY <1>1 DEF Coming
<1>7. ASSUME NEW d \in Clients PROVE Waits(d)'
  <2> SUFFICES ASSUME \A s \in Threads : given'[s] # d
               PROVE  sent'[d] \in Seq(Sound(d)) /\ Coming(d)' = Bundle(sent'[d])
    BY DEF Waits, Sound
  <2>1. \A s \in Threads : given[s] # d
    BY <1>4, <1>5, Who
  <2>2. d \in Conns
    BY Who
  <2> QED BY <1>1, <1>6, <2>1, <2>2 DEF Order, Waits
<1>8. ASSUME NEW s \in Threads PROVE Unserved(s)'
  BY <1>1, <1>3, <1>4, Who DEF Order, Unserved
<1>9. ASSUME NEW s \in Readers, NEW d \in Conns, Reading(s, d)', ~torn'[s] PROVE InStep(s, d)'
  <2>1. CASE s = r
    <3>1. d = c /\ d \in Clients
      BY <1>4, <1>9, <2>1, Who DEF Reading
    <3>2. sent[c] \in Seq(Sound(c)) /\ Coming(c) = Bundle(sent[c])
      BY <1>3 DEF Order, Waits
    <3>3. received[r] = <<>>
      BY <1>5 DEF Order, Unserved
    <3>4. sent[c] = <<>> \o sent[c]
      BY <3>2, ConcatEmptySeq
    <3>5. /\ pc'[r] \notin {"size", "buffer"} /\ pc'[r] # "lost" /\ pc'[r] # "size" /\ pc'[r] # "buffer"
          /\ sent' = sent /\ received' = received /\ Coming(c)' = Coming(c)
      <4>1. c \in Conns
        BY <1>3, Who
      <4>2. Coming(c)' = Coming(c)
        BY <1>6, <4>1
      <4>3. sent' = sent /\ received' = received
        BY <1>1
      <4> QED BY <1>4, <4>2, <4>3
    <3>6. PICK q : q = sent[c]
      OBVIOUS
    <3>7. /\ q \in Seq(Sound(c)) /\ sent'[c] = received'[r] \o q /\ Coming(c)' = Bundle(q)
      BY <3>2, <3>3, <3>4, <3>5, <3>6, Zenon
    <3>8. Due(r, c, q)'
      BY ONLY <3>5, <3>7, Zenon DEF Due
    <3> QED BY <2>1, <3>1, <3>7, <3>8 DEF InStep, Sound
  <2>2. CASE s # r
    <3>1. Reading(s, d) /\ ~torn[s]
      BY <1>1, <1>4, <1>9, <2>2, Who DEF Reading
    <3>2. PICK q \in Seq(Sound(d)) : Due(s, d, q)
      BY <3>1 DEF Order, Follows, InStep
    <3>3. /\ sent'[d] = sent[d] /\ Coming(d)' = Coming(d) /\ received'[s] = received[s]
          /\ \/ pc'[s] = pc[s] /\ protocol'[s] = protocol[s] /\ size'[s] = size[s]
             \/ pc[s] \notin Midway /\ pc'[s] \notin Midway
      BY <1>1, <1>4, <1>6, <2>2
    <3>4. Due(s, d, q)'
      BY ONLY <3>2, <3>3, DueKept
    <3> QED BY <3>4 DEF InStep, Sound
  <2> QED BY <2>1, <2>2
<1> QED BY <1>7, <1>8, <1>9 DEF Order, Follows

\* Every step keeps the order.
LEMMA OrderStep ==
  ASSUME TypeOK, Inv, Once, Order, [Next]_vars
  PROVE  Order'
<1>0. ReaderTypes
  BY TypeParts
<1>1. ASSUME UNCHANGED <<streams, received, torn, given, protocol, size>>,
             \A r \in Readers : pc'[r] = pc[r] \/ (pc[r] \notin Midway /\ pc'[r] \notin Midway)
      PROVE  Order'
  <2>1. \A c \in Conns : Coming(c)' = Coming(c)
    BY <1>1 DEF streams, Coming
  <2> QED BY <1>1, <2>1, OrderKept DEF streams
<1>2. CASE \/ \E c \in Clients : Connect(c)
           \/ \E c \in Conns : Leave(c)
           \/ UNCHANGED vars
  BY <1>1, <1>2 DEF Connect, Leave, vars, process, wire, streams, readers
<1>3. ASSUME NEW c \in Clients, NEW o \in Operations[c], Operate(c, o) PROVE Order'
  <2>1. PICK p \in Pointers : Send(c, Request(o, p))
    BY <1>3 DEF Operate
  <2>2. Request(o, p) \in Sound(c)
    <3>1. Request(o, p) \in Messages
      BY RequestType
    <3>2. \A r \in Threads : Sendable(r, Request(o, p))
      BY MessagesAssumption
    <3> QED BY <3>1, <3>2, Who DEF Sound
  <2>3. c \in Conns /\ UNCHANGED given
    BY <1>3, Who DEF Operate, process
  <2> QED BY <2>1, <2>2, <2>3, OrderSend
<1>4. ASSUME NEW m \in LibMessages, Ask(m) PROVE Order'
  <2>1. m \in Messages
    BY ServersAssumption DEF Messages, ByteSeqs
  <2>2. m \in Sound(Lib)
    <3>1. Sendable(Lib, m)
      BY MessagesAssumption
    <3> QED BY <2>1, <3>1 DEF Sound
  <2>3. Lib \in Conns /\ Send(Lib, m) /\ UNCHANGED given
    BY <1>4, Who DEF Ask, process
  <2> QED BY <2>2, <2>3, OrderSend
<1>5. ASSUME NEW c \in Conns, Arrives(c) PROVE Order'
  <2>1. \A d \in Conns : Coming(d)' = Coming(d)
    BY <1>5, StillComing DEF Arrives
  <2>2. UNCHANGED <<sent, received, torn, given, protocol, size, pc>>
    BY <1>5 DEF Arrives, Arrive, readers, process
  <2> QED BY <2>1, <2>2, OrderKept
<1>6. ASSUME NEW r \in Threads, Accept(r) PROVE Order'
  BY <1>6, OrderAccept
<1>7. ASSUME NEW r \in Readers, NEW to \in {"start", "never", "opcode", "ended"}, pc' = [pc EXCEPT ![r] = to],
             pc[r] \in {"none", "start", "opcode"},
             UNCHANGED <<streams, received, torn, given, protocol, size>>
      PROVE  Order'
  <2>1. \A s \in Readers : pc'[s] = pc[s] \/ (pc[s] \notin Midway /\ pc'[s] \notin Midway)
    BY <1>0, <1>7 DEF ReaderTypes, Midway
  <2> QED BY <1>1, <1>7, <2>1
<1>8. ASSUME NEW r \in Threads, AcceptFails(r) PROVE Order'
  BY <1>7, <1>8, Who DEF AcceptFails, NextThread, Starts
<1>9. ASSUME NEW r \in Threads, Begin(r) PROVE Order'
  BY <1>7, <1>9, Who DEF Begin
<1>10. ASSUME NEW r \in Readers, Ends(r) PROVE Order'
  BY <1>7, <1>10 DEF Ends, process
<1>11. ASSUME NEW r \in Readers, Receives(r) PROVE Order'
  BY <1>11, OrderReceives
<1> QED BY <1>2, <1>3, <1>4, <1>5, <1>6, <1>8, <1>9, <1>10, <1>11 DEF Next

\* The order says that messages are delivered.
LEMMA OrderMeans == DeliveryInv => Delivered
<1> SUFFICES ASSUME DeliveryInv, NEW r \in Readers, ~torn[r]
             PROVE  IsPrefix(received[r], SentTo(r)) /\ pc[r] # "lost"
  BY DEF Delivered
<1>1. ASSUME NEW c \in Conns, Reading(r, c), SentTo(r) = sent[c]
      PROVE  IsPrefix(received[r], SentTo(r)) /\ pc[r] # "lost"
  <2>1. PICK q : Due(r, c, q)
    BY <1>1 DEF DeliveryInv, Order, Follows, InStep
  <2>2. q \in Seq(Sound(c)) /\ sent[c] = received[r] \o q /\ pc[r] # "lost"
    BY <2>1 DEF Due
  <2>3. received[r] \in Seq(Messages) /\ q \in Seq(Messages)
    BY <2>2, SoundSeq, TypeParts DEF DeliveryInv, ReaderTypes
  <2> DEFINE s == received[r]
             t == s \o q
  <2>4. IsPrefix(s, t)
    <3>1. /\ s \in Seq(Messages) /\ t \in Seq(Messages) /\ Len(s) \in Nat /\ Len(q) \in Nat
          /\ Len(t) = Len(s) + Len(q)
          /\ \A i \in 1 .. Len(s) + Len(q) : t[i] = IF i <= Len(s) THEN s[i] ELSE q[i - Len(s)]
      BY <2>3, LenProperties, ConcatProperties
    <3> HIDE DEF s, t
    <3>2. Len(s) <= Len(t)
      BY <3>1
    <3>3. \A i \in 1 .. Len(s) : t[i] = s[i] /\ s[i] \in Messages
      BY <3>1, ElementOfSeq
    <3>4. /\ SubSeq(s, 1, Len(s)) \in Seq(Messages) /\ Len(SubSeq(s, 1, Len(s))) = Len(s)
          /\ \A i \in 1 .. Len(s) : SubSeq(s, 1, Len(s))[i] = s[i]
      BY <3>1, SubSeqFull
    <3>5. 1 \in Int /\ Len(s) \in Int /\ \A i \in 1 .. Len(s) : t[i] \in Messages
      BY <3>1, <3>3
    <3>6. /\ SubSeq(t, 1, Len(s)) \in Seq(Messages)
          /\ Len(SubSeq(t, 1, Len(s))) = IF 1 <= Len(s) THEN (Len(s) - 1) + 1 ELSE 0
          /\ \A i \in 1 .. (Len(s) - 1) + 1 : SubSeq(t, 1, Len(s))[i] = t[(1 + i) - 1]
      BY ONLY <3>5, SubSeqProperties
    <3>7. Len(SubSeq(t, 1, Len(s))) = Len(s) /\ \A i \in 1 .. Len(s) : SubSeq(t, 1, Len(s))[i] = s[i]
      <4>1. \A i \in 1 .. Len(s) : i \in 1 .. (Len(s) - 1) + 1 /\ (1 + i) - 1 = i
        BY <3>1
      <4> QED BY <3>1, <3>3, <3>6, <4>1
    <3>8. SubSeq(s, 1, Len(s)) = SubSeq(t, 1, Len(s))
      BY <3>4, <3>6, <3>7, SeqEqual
    <3> QED BY <3>2, <3>8 DEF IsPrefix
  <2> QED BY <1>1, <2>2, <2>4
<1>2. CASE r = Lib
  BY <1>1, <1>2, Who DEF Reading, SentTo
<1>3. CASE r # Lib /\ given[r] # None
  <2>1. r \in Threads /\ given[r] \in Clients
    BY <1>3, Who, TypeParts DEF DeliveryInv, ProcessTypes
  <2> QED BY <1>1, <1>3, <2>1, Who DEF Reading, SentTo
<1>4. CASE r # Lib /\ given[r] = None
  <2>1. received[r] = <<>> /\ pc[r] # "lost" /\ SentTo(r) = <<>>
    BY <1>4, Who DEF DeliveryInv, Order, Unserved, Midway, SentTo
  <2>2. IsPrefix(<<>>, <<>>)
    BY DEF IsPrefix
  <2> QED BY <2>1, <2>2
<1> QED BY <1>2, <1>3, <1>4

\* For every number of clients, threads and descriptors, every width of ints and whatever is
\* sent, however the bytes of all connections are cut and interleaved, a reader takes apart the
\* messages of its own connection, whole and in order, as long as no opcode is cut
\* (utils.c:427-459, sac_server.c:100-166, muse.c:42-50).
THEOREM MessagesDelivered == Spec => []Delivered
<1>1. Init => DeliveryInv
  BY TypesInit, InitInv, OnceInit, OrderInit DEF DeliveryInv
<1>2. DeliveryInv /\ [Next]_vars => DeliveryInv'
  <2> SUFFICES ASSUME DeliveryInv, [Next]_vars PROVE DeliveryInv'
    OBVIOUS
  <2>1. TypeOK' /\ Inv' /\ Once' /\ Order'
    BY TypesStep, InvStep, OnceStep, OrderStep DEF DeliveryInv
  <2> QED BY <2>1 DEF DeliveryInv
<1> QED BY <1>1, <1>2, OrderMeans, PTL DEF Spec
===============================================================================
