------------------------------ MODULE SacFsProofs ------------------------------
(***************************************************************************)
(* Proofs about SacFs.  What holds of the node table whatever the threads  *)
(* do to each other rests on one fact about each of them: while it looks   *)
(* for a free node every node it has gone past is taken, and so is the     *)
(* parent it found, so that the node it takes comes after both.            *)
(*                                                                         *)
(* That the calls are answered as by a tree (ImplementsTree), until one of *)
(* the things happens that the code does not guard against, rests on what  *)
(* a lookup knows: the directory that stands at the number it has reached  *)
(* is the path up to there, and among the nodes it has gone past is no     *)
(* directory of the next name that was there when the thread was called.   *)
(***************************************************************************)
EXTENDS SacFs, TLAPS, SequenceTheorems, FiniteSetTheorems, WellFoundedInduction

Taken(n) == node_table[n].state # 0
Looks(t) == call[t].pc \in {"exists", "father"}

\* The root is found at once, so whoever goes on to make a directory has a name for it.
Named(t) ==
  /\ call[t].pc = "exists" /\ call[t].path = <<>> => call[t].nodo = 0 /\ call[t].rest = <<>>
  /\ call[t].pc \notin {"idle", "exists"} => call[t].path # <<>>

Typed == TypeOK /\ \A t \in Threads : Named(t)

\* The loop of a lookup that has ended starts over, and comparisons are made in the loop.
Reset(t) == /\ Looks(t) /\ call[t].rest = <<>> => call[t].i = 0
            /\ call[t].reads # 0 => /\ Looks(t) /\ call[t].rest # <<>>
                                    /\ call[t].i < NODE_TABLE_SIZE

\* A node that was found, as part of the path or as the parent, is taken.
FoundTaken(t) == /\ Looks(t) /\ call[t].nodo \in Nodes => Taken(call[t].nodo)
                 /\ call[t].pc = "free" /\ call[t].father \in Nodes => Taken(call[t].father)

\* The nodes the search has gone past are taken, and those before the one that is written,
\* the parent among them.
Past(t) == /\ call[t].pc = "free" => \A m \in Nodes : m < call[t].i => Taken(m)
           /\ Chose(t) => /\ call[t].father < call[t].node
                            /\ \A m \in Nodes : m < call[t].node => Taken(m)

\* What was there at the call is taken, and not what the thread has chosen.
Kept(t) == /\ \A n \in call[t].stood : Taken(n)
           /\ Chose(t) => call[t].node \notin call[t].stood

Local(t) == Reset(t) /\ FoundTaken(t) /\ Past(t) /\ Kept(t)

Inv == Typed /\ NoHoles /\ ParentsBefore /\ \A t \in Threads : Local(t)

Records == [pc : Places, path : Seq(Names), rest : Seq(Names), nodo : Numbers,
            i : 0 .. NODE_TABLE_SIZE + 1, father : Numbers \ {-1}, node : Nodes,
            reads : 0 .. 2, same : BOOLEAN, whole : BOOLEAN, stood : SUBSET Nodes]
Entries == [state : {0, DIRECTORY_T}, name : Names \cup {NoName}, parent : Int]
-------------------------------------------------------------------------------
\* The parent of a path, and what is left of one, are paths of names.
LEMMA PathParts ==
  ASSUME NEW p \in Seq(Names)
  PROVE  /\ Parent(p) \in Seq(Names)
         /\ p # <<>> => Tail(p) \in Seq(Names) /\ Head(p) \in Names /\ NameOf(p) \in Names
<1>1. Len(p) \in Nat /\ (p # <<>> => Len(p) >= 1)
  BY EmptySeq, SMT
<1>2. Parent(p) \in Seq(Names)
  <2>1. CASE p = <<>>
    BY <2>1, SubSeqProperties, SMT DEF Parent
  <2>2. CASE p # <<>>
    BY <2>2, <1>1, SMT DEF Parent
  <2> QED
    BY <2>1, <2>2
<1>3. p # <<>> => Tail(p) \in Seq(Names) /\ Head(p) \in Names
  BY SMT
<1>4. p # <<>> => NameOf(p) \in Names
  BY <1>1, SMT DEF NameOf
<1> QED
  BY <1>2, <1>3, <1>4

\* The locals of a thread between calls, and a free node, have their types.
LEMMA IdleTyped == Idle \in Records /\ Free \in Entries
  BY SacAssumption, EmptySeq, SMT
  DEF Idle, Free, Records, Entries, Places, Numbers, Nodes, DIRECTORY_T

\* A turn of the lookup's loop moves it on, and forgets the comparisons.
LEMMA TurnFields ==
  ASSUME NEW c \in Records, NEW i \in 0 .. NODE_TABLE_SIZE + 1
  PROVE  /\ Turn(c, i) \in Records
         /\ Turn(c, i).pc = c.pc /\ Turn(c, i).path = c.path /\ Turn(c, i).rest = c.rest
         /\ Turn(c, i).nodo = c.nodo /\ Turn(c, i).stood = c.stood
         /\ Turn(c, i).i = i /\ Turn(c, i).reads = 0
<1>1. 0 \in 0 .. 2 /\ FALSE \in BOOLEAN
  OBVIOUS
<1>2. Turn(c, i) \in Records
  BY <1>1, Zenon DEF Turn, Records
<1> QED
  BY <1>2, SMT DEF Turn, Records

\* The initial states have the invariant.
LEMMA InitInv == Init => Inv
<1> SUFFICES ASSUME Init PROVE Inv
  OBVIOUS
<1> USE SacAssumption
<1>1. \A t \in Threads : call[t] = Idle
  BY DEF Init
<1>3. TypeOK
  BY IdleTyped, SMT DEF Init, TypeOK, Records, Entries
<1>4. \A t \in Threads : Named(t) /\ Local(t)
  BY <1>1 DEF Named, Local, Reset, FoundTaken, Past, Kept, Looks, Chose, Idle
<1>5. NoHoles /\ ParentsBefore
  BY DEF Init, NoHoles, ParentsBefore, Complete, Free
<1> QED
  BY <1>3, <1>4, <1>5 DEF Inv, Typed

\* A step of a thread that moves its own locals, and leaves the rest, keeps the types.
LEMMA TypedMove ==
  ASSUME Typed, NEW t \in Threads, NEW c \in Records,
         call' = [call EXCEPT ![t] = c],
         node_table' \in [Nodes -> Entries],
         made' \in 0 .. MaxCalls,
         answers' \in [Threads -> {"none", "0", "EEXIST", "ENOENT", "EDQUOT"}],
         strayed' \subseteq {"shared", "early", "twice", "long"},
         c.pc = "exists" /\ c.path = <<>> => c.nodo = 0 /\ c.rest = <<>>,
         c.pc \notin {"idle", "exists"} => c.path # <<>>
  PROVE  Typed'
<1>1. call' \in [Threads -> Records] /\ call'[t] = c
  BY DEF Typed, TypeOK, Records
<1>2. \A u \in Threads \ {t} : call'[u] = call[u]
  BY DEF Typed, TypeOK
<1>3. TypeOK'
  BY <1>1 DEF TypeOK, Records, Entries
<1>4. \A u \in Threads : Named(u)'
  BY <1>1, <1>2 DEF Typed, Named
<1> QED
  BY <1>3, <1>4 DEF Typed

\* The store of a name leaves a name and a number, and the state as it is.
LEMMA NameStored ==
  ASSUME NEW t \in Threads, NEW k, NEW node, k = call[t].node, node = node_table[k],
         node \in Entries, call[t].path \in Seq(Names), call[t].path # <<>>, StoreName(t)
  PROVE  /\ \E n \in Names, bytes \in Int :
              Stores(k, [node EXCEPT !.name = n, !.parent = bytes])
         /\ NameOf(call[t].path) \notin Longer =>
              \E bytes \in Int : Stores(k, [node EXCEPT !.name = NameOf(call[t].path), !.parent = bytes])
<1>0. PICK name : name = NameOf(call[t].path)
  OBVIOUS
<1>1. name \in Names /\ BYTE \in Nat \ {0}
  BY <1>0, PathParts, SacAssumption
<1>2. node.parent \in Int /\ node.parent - (node.parent % BYTE) \in Int
  BY <1>1, SMT DEF Entries
<1>3. CASE name \in Longer
  <2>1. PICK bytes \in Over(name) : Stores(k, [node EXCEPT !.name = Cut(name), !.parent = bytes])
    BY <1>0, <1>3, SacAssumption DEF StoreName
  <2>2. bytes \in Int /\ Cut(name) \in Names
    BY <1>3, <2>1, SacAssumption
  <2> QED
    BY <1>0, <1>3, <2>1, <2>2
<1>4. CASE name \in Full
  <2>1. Stores(k, [node EXCEPT !.name = name, !.parent = @ - (@ % BYTE)])
    BY <1>0, <1>4, SacAssumption DEF StoreName
  <2>2. [node EXCEPT !.name = name, !.parent = @ - (@ % BYTE)]
          = [node EXCEPT !.name = name, !.parent = node.parent - (node.parent % BYTE)]
    BY DEF Entries
  <2> QED
    BY <1>0, <1>1, <1>2, <2>1, <2>2
<1>5. CASE name \notin Full \cup Longer
  <2>1. Stores(k, [node EXCEPT !.name = name])
    BY <1>0, <1>5 DEF StoreName
  <2>2. [node EXCEPT !.name = name] = [node EXCEPT !.name = name, !.parent = node.parent]
    BY DEF Entries
  <2> QED
    BY <1>0, <1>1, <1>2, <2>1, <2>2
<1> QED
  BY <1>3, <1>4, <1>5

\* Every step of a thread keeps the types.
LEMMA TypedStep == Typed /\ Next => Typed'
<1> SUFFICES ASSUME Typed, NEW t \in Threads, (\E path \in Paths : Create(t, path)) \/ Steps(t)
             PROVE  Typed'
  BY DEF Next
<1> DEFINE c == call[t]
           node == node_table[c.node]
<1>1. /\ call \in [Threads -> Records] /\ c \in Records
      /\ node_table \in [Nodes -> Entries]
      /\ made \in 0 .. MaxCalls
      /\ answers \in [Threads -> {"none", "0", "EEXIST", "ENOENT", "EDQUOT"}]
      /\ strayed \subseteq {"shared", "early", "twice", "long"}
      /\ Named(t)
  BY DEF Typed, TypeOK, Records, Entries
<1>2. /\ c.pc \in Places /\ c.path \in Seq(Names) /\ c.rest \in Seq(Names) /\ c.nodo \in Numbers
      /\ c.i \in 0 .. NODE_TABLE_SIZE + 1 /\ c.father \in Numbers \ {-1} /\ c.node \in Nodes
  BY <1>1 DEF Records
<1>3. /\ Parent(c.path) \in Seq(Names)
      /\ c.rest # <<>> => Tail(c.rest) \in Seq(Names)
      /\ c.path # <<>> => NameOf(c.path) \in Names
  BY <1>2, PathParts
<1>4. node \in Entries
  BY <1>1, <1>2
<1>5. /\ NODE_TABLE_SIZE \in Nat \ {0} /\ MaxCalls \in Nat /\ {0, -1} \subseteq Numbers
      /\ 0 \in Numbers \ {-1} /\ 0 \in 0 .. NODE_TABLE_SIZE + 1
      /\ \A i \in 0 .. NODE_TABLE_SIZE + 1 : i # NODE_TABLE_SIZE + 1 => i + 1 \in 0 .. NODE_TABLE_SIZE + 1
      /\ \A i \in 0 .. NODE_TABLE_SIZE + 1 : i < NODE_TABLE_SIZE => i + 1 \in Numbers /\ i # NODE_TABLE_SIZE + 1
      /\ \A i \in 0 .. NODE_TABLE_SIZE + 1 : i # NODE_TABLE_SIZE + 1 => NodeAt(i) \in Nodes
      /\ \A n \in Numbers : n # -1 => n \in Numbers \ {-1}
      /\ Nodes \subseteq Numbers \ {-1}
  BY SacAssumption, SMT DEF Numbers, Nodes, NodeAt
<1>6. {"idle", "exists", "father", "free", "state", "name", "parent"} = Places
  BY DEF Places
<1> HIDE DEF c, node
<1>7. ASSUME NEW path \in Paths, Create(t, path) PROVE Typed'
  <2>0. PICK s \in SUBSET Nodes : s = {n \in Nodes : Complete(n)}
    OBVIOUS
  <2> DEFINE d == [Idle EXCEPT !.pc = "exists", !.path = path, !.rest = path, !.stood = s]
  <2>1. path \in Seq(Names) /\ Idle \in Records /\ Idle.nodo = 0
    BY IdleTyped, SacAssumption DEF Idle
  <2>2. d \in Records
    BY <2>1, <1>6, Zenon DEF Records
  <2>3. d.pc = "exists" /\ d.path = path /\ d.rest = path /\ d.nodo = 0
    BY <2>1, SMT DEF Idle
  <2>4. made' \in 0 .. MaxCalls
    <3>1. made < MaxCalls /\ made' = made + 1
      BY <1>7 DEF Create
    <3> QED
      BY <1>1, <1>5, <3>1, SMT
  <2>5. /\ call' = [call EXCEPT ![t] = d]
        /\ answers' \in [Threads -> {"none", "0", "EEXIST", "ENOENT", "EDQUOT"}]
        /\ node_table' = node_table /\ strayed' = strayed
    BY <1>1, <1>7, <2>0 DEF Create, Goes
  <2> HIDE DEF d
  <2> QED
    BY <1>1, <2>2, <2>3, <2>4, <2>5, TypedMove
<1>8. ASSUME ComparesParent(t) \/ ComparesName(t) \/ Found(t) \/ Passes(t) \/ Misses(t) PROVE Typed'
  <2>1. c.rest # <<>> /\ c.pc \in {"exists", "father"} /\ c.path # <<>>
    BY <1>1, <1>8 DEF ComparesParent, ComparesName, Found, Passes, Misses, Compared, Looking, Named, c
  <2>2. /\ node_table' = node_table /\ made' = made /\ answers' = answers
        /\ strayed' \subseteq {"shared", "early", "twice", "long"}
    BY <1>1, <1>8 DEF ComparesParent, ComparesName, Found, Passes, Misses, Strays
  <2>3. PICK d \in Records : d.pc = c.pc /\ d.path = c.path /\ call' = [call EXCEPT ![t] = d]
    <3>1. CASE Found(t)
      <4> DEFINE e == Turn(c, 0)
                 d == [e EXCEPT !.nodo = c.i + 1, !.rest = Tail(c.rest)]
      <4>0. e \in Records /\ e.pc = c.pc /\ e.path = c.path
        BY <1>1, <1>5, TurnFields
      <4>3. call' = [call EXCEPT ![t] = d]
        BY <3>1 DEF Found, Goes, c
      <4> HIDE DEF e
      <4>1. d \in Records
        <5>1. c.i + 1 \in Numbers
          BY <1>2, <1>5, <3>1 DEF Found, Compared, c
        <5> QED
          BY <1>1, <1>3, <1>5, <2>1, <4>0, <5>1, Zenon DEF Records
      <4>2. d.pc = c.pc /\ d.path = c.path
        BY <4>0 DEF Records
      <4> QED
        BY <4>1, <4>2, <4>3
    <3>2. CASE Passes(t)
      <4> DEFINE d == Turn(c, c.i + 1)
      <4>1. c.i + 1 \in 0 .. NODE_TABLE_SIZE + 1
        BY <1>2, <1>5, <3>2 DEF Passes, Compared, c
      <4>2. d \in Records /\ d.pc = c.pc /\ d.path = c.path
        BY <1>1, <4>1, TurnFields
      <4>3. call' = [call EXCEPT ![t] = d]
        BY <3>2 DEF Passes, Goes, c
      <4> QED
        BY <4>2, <4>3
    <3>4. CASE ComparesParent(t)
      <4>1. PICK same \in BOOLEAN, whole \in BOOLEAN :
              call' = [call EXCEPT ![t] = [c EXCEPT !.reads = 1, !.same = same, !.whole = whole]]
        <5>1. PICK same \in BOOLEAN : same = (node_table[c.i + 1].parent = c.nodo)
          OBVIOUS
        <5>2. PICK whole \in BOOLEAN : whole = Complete(c.i + 1)
          BY DEF Complete
        <5> QED
          BY <3>4, <5>1, <5>2, Zenon DEF ComparesParent, Goes, c
      <4> DEFINE d == [c EXCEPT !.reads = 1, !.same = same, !.whole = whole]
      <4>2. d \in Records
        <5>1. 1 \in 0 .. 2
          OBVIOUS
        <5> QED
          BY <1>1, <4>1, <5>1, Zenon DEF Records
      <4>3. d.pc = c.pc /\ d.path = c.path
        BY <1>1 DEF Records
      <4> QED
        BY <4>1, <4>2, <4>3
    <3>5. CASE ComparesName(t)
      <4>1. PICK same \in BOOLEAN : call' = [call EXCEPT ![t] = [c EXCEPT !.reads = 2, !.same = same]]
        <5>1. PICK same \in BOOLEAN : same = (c.same /\ SameName(Head(c.rest), node_table[c.i + 1]))
          OBVIOUS
        <5> QED
          BY <3>5, <5>1, Zenon DEF ComparesName, Goes, c
      <4> DEFINE d == [c EXCEPT !.reads = 2, !.same = same]
      <4>2. d \in Records
        <5>1. 2 \in 0 .. 2
          OBVIOUS
        <5> QED
          BY <1>1, <4>1, <5>1, Zenon DEF Records
      <4>3. d.pc = c.pc /\ d.path = c.path
        BY <1>1 DEF Records
      <4> QED
        BY <4>1, <4>2, <4>3
    <3>3. CASE Misses(t)
      <4> DEFINE d == [c EXCEPT !.nodo = -1, !.rest = Tail(c.rest), !.i = 0]
      <4>1. d \in Records
        BY <1>1, <1>3, <1>5, <2>1, Zenon DEF Records
      <4>2. d.pc = c.pc /\ d.path = c.path /\ call' = [call EXCEPT ![t] = d]
        BY <1>1, <3>3 DEF Records, Misses, Goes, c
      <4> QED
        BY <4>1, <4>2
    <3> QED
      BY <1>8, <3>1, <3>2, <3>3, <3>4, <3>5
  <2> QED
    BY <1>1, <2>1, <2>2, <2>3, TypedMove
<1>9. ASSUME LooksForParent(t) PROVE Typed'
  <2> DEFINE d == [c EXCEPT !.pc = "father", !.rest = Parent(c.path), !.nodo = 0]
  <2>1. d \in Records
    BY <1>1, <1>3, <1>5, <1>6, Zenon DEF Records
  <2>2. d.pc = "father" /\ d.path = c.path /\ call' = [call EXCEPT ![t] = d]
    BY <1>1, <1>9 DEF Records, LooksForParent, Goes, c
  <2>3. c.path # <<>>
    BY <1>1, <1>9, <1>5 DEF Named, LooksForParent, Looked, c
  <2>4. UNCHANGED <<node_table, made, answers, strayed>>
    BY <1>9 DEF LooksForParent
  <2> HIDE DEF d
  <2> QED
    BY <1>1, <2>1, <2>2, <2>3, <2>4, TypedMove
<1>10. ASSUME LooksForFree(t) PROVE Typed'
  <2> DEFINE d == [c EXCEPT !.pc = "free", !.father = c.nodo]
  <2>1. c.nodo # -1 /\ c.pc = "father"
    BY <1>10 DEF LooksForFree, Looked, c
  <2>2. d \in Records
    BY <1>1, <1>2, <1>5, <1>6, <2>1, Zenon DEF Records
  <2>3. d.pc = "free" /\ d.path = c.path /\ call' = [call EXCEPT ![t] = d]
    BY <1>1, <1>10 DEF Records, LooksForFree, Goes, c
  <2>4. c.path # <<>>
    BY <1>1, <2>1 DEF Named, c
  <2>5. UNCHANGED <<node_table, made, answers, strayed>>
    BY <1>10 DEF LooksForFree
  <2> HIDE DEF d
  <2> QED
    BY <1>1, <2>2, <2>3, <2>4, <2>5, TypedMove
<1>11. ASSUME Takes(t) \/ SkipsTaken(t) PROVE Typed'
  <2>1. c.pc = "free" /\ c.i # NODE_TABLE_SIZE + 1 /\ c.path # <<>>
    BY <1>1, <1>11 DEF Takes, SkipsTaken, PastTable, Named, c
  <2>2. NodeAt(c.i) \in Nodes /\ c.i + 1 \in 0 .. NODE_TABLE_SIZE + 1
    <3>1. NodeAt(c.i) \in Nodes
      BY <1>2, <2>1, SacAssumption, SMT DEF NodeAt, Nodes
    <3>2. c.i + 1 \in 0 .. NODE_TABLE_SIZE + 1
      BY <1>2, <1>5, <2>1, Zenon
    <3> QED
      BY <3>1, <3>2
  <2>3. /\ node_table' = node_table /\ made' = made /\ answers' = answers
        /\ strayed' \subseteq {"shared", "early", "twice", "long"}
    BY <1>1, <1>11 DEF Takes, SkipsTaken, Strays
  <2>4. CASE Takes(t)
    <3> DEFINE d == [c EXCEPT !.pc = "state", !.node = NodeAt(c.i)]
    <3>1. d \in Records
      BY <1>1, <1>6, <2>2, Zenon DEF Records
    <3>2. d.pc = "state" /\ d.path = c.path /\ call' = [call EXCEPT ![t] = d]
      BY <1>1, <2>4 DEF Records, Takes, Goes, c
    <3> HIDE DEF d
    <3> QED
      BY <1>1, <2>1, <2>3, <3>1, <3>2, TypedMove
  <2>5. CASE SkipsTaken(t)
    <3> DEFINE d == [c EXCEPT !.i = c.i + 1]
    <3>1. d \in Records
      BY <1>1, <2>2, Zenon DEF Records
    <3>2. d.pc = "free" /\ d.path = c.path /\ call' = [call EXCEPT ![t] = d]
      BY <1>1, <2>1, <2>5 DEF Records, SkipsTaken, Goes, c
    <3> HIDE DEF d
    <3> QED
      BY <1>1, <2>1, <2>3, <3>1, <3>2, TypedMove
  <2> QED
    BY <1>11, <2>4, <2>5
<1>12. ASSUME Exists(t) \/ NoParent(t) \/ NoRoom(t) \/ StoreParent(t) PROVE Typed'
  <2>1. Idle \in Records /\ Idle.pc = "idle"
    BY IdleTyped DEF Idle
  <2>2. call' = [call EXCEPT ![t] = Idle] /\ made' = made
    BY <1>12 DEF Exists, NoParent, NoRoom, StoreParent, Returns, Goes
  <2>3. answers' \in [Threads -> {"none", "0", "EEXIST", "ENOENT", "EDQUOT"}]
    BY <1>1, <1>12 DEF Exists, NoParent, NoRoom, StoreParent, Returns
  <2>4. strayed' \subseteq {"shared", "early", "twice", "long"}
    BY <1>1, <1>12 DEF Exists, NoParent, NoRoom, StoreParent, Strays
  <2>5. node_table' \in [Nodes -> Entries]
    <3>1. CASE StoreParent(t)
      <4>1. [node EXCEPT !.parent = c.father] \in Entries
        <5>1. c.father \in Int
          BY <1>2 DEF Numbers
        <5> QED
          BY <1>4, <5>1, Zenon DEF Entries
      <4> QED
        BY <1>1, <3>1, <4>1 DEF StoreParent, Stores, c, node
    <3>2. CASE ~StoreParent(t)
      BY <1>1, <1>12, <3>2 DEF Exists, NoParent, NoRoom
    <3> QED
      BY <3>1, <3>2
  <2> QED
    BY <1>1, <2>1, <2>2, <2>3, <2>4, <2>5, TypedMove
<1>13. ASSUME StoreState(t) PROVE Typed'
  <2> DEFINE d == [c EXCEPT !.pc = "name"]
  <2>1. d \in Records
    BY <1>1, <1>6, Zenon DEF Records
  <2>2. d.pc = "name" /\ d.path = c.path /\ call' = [call EXCEPT ![t] = d]
    BY <1>1, <1>13 DEF Records, StoreState, Goes, c
  <2>3. c.path # <<>>
    BY <1>1, <1>13 DEF Named, StoreState, c
  <2>4. node_table' \in [Nodes -> Entries]
    <3>1. [node EXCEPT !.state = DIRECTORY_T] \in Entries
      BY <1>4, Zenon DEF Entries
    <3> QED
      BY <1>1, <1>13, <3>1 DEF StoreState, Stores, c, node
  <2>5. UNCHANGED <<made, answers, strayed>>
    BY <1>13 DEF StoreState
  <2> HIDE DEF d
  <2> QED
    BY <1>1, <2>1, <2>2, <2>3, <2>4, <2>5, TypedMove
<1>14. ASSUME StoreName(t) PROVE Typed'
  <2> DEFINE d == [c EXCEPT !.pc = "parent"]
             name == NameOf(c.path)
  <2>1. d \in Records
    BY <1>1, <1>6, Zenon DEF Records
  <2>2. d.pc = "parent" /\ d.path = c.path /\ call' = [call EXCEPT ![t] = d]
    BY <1>1, <1>14 DEF Records, StoreName, Goes, c
  <2>3. c.path # <<>>
    BY <1>1, <1>14 DEF Named, StoreName, c
  <2>4. node_table' \in [Nodes -> Entries]
    <3>1. PICK n \in Names \cup {NoName}, bytes \in Int :
            Stores(c.node, [node EXCEPT !.name = n, !.parent = bytes])
      <4>1. PICK k, e : k = c.node /\ e = node
        OBVIOUS
      <4>2. e \in Entries /\ k = call[t].node /\ e = node_table[k] /\ call[t].path \in Seq(Names)
            /\ call[t].path # <<>>
        BY <1>2, <1>4, <2>3, <4>1 DEF c, node
      <4>3. \E n \in Names, bytes \in Int : Stores(k, [e EXCEPT !.name = n, !.parent = bytes])
        BY <1>14, <4>2, NameStored
      <4> QED
        BY <4>1, <4>3
    <3>2. [node EXCEPT !.name = n, !.parent = bytes] \in Entries
      BY <1>4, <3>1, Zenon DEF Entries
    <3> QED
      BY <1>1, <3>1, <3>2 DEF Stores
  <2>5. /\ made' = made /\ answers' = answers
        /\ strayed' \subseteq {"shared", "early", "twice", "long"}
    BY <1>1, <1>14 DEF StoreName, Strays
  <2> HIDE DEF d
  <2> QED
    BY <1>1, <2>1, <2>2, <2>3, <2>4, <2>5, TypedMove
<1> QED
  BY <1>7, <1>8, <1>9, <1>10, <1>11, <1>12, <1>13, <1>14 DEF Steps

\* Every variable keeps its type, whatever the threads do to each other.
THEOREM TypeCorrect == Spec => []TypeOK
<1>1. Init => Typed
  BY InitInv DEF Inv
<1>2. Typed /\ [Next]_vars => Typed'
  <2>1. CASE Next
    BY <2>1, TypedStep
  <2>2. CASE UNCHANGED vars
    BY <2>2 DEF vars, Typed, TypeOK, Named
  <2> QED
    BY <2>1, <2>2
<1>3. Typed => TypeOK
  BY DEF Typed
<1> QED
  BY <1>1, <1>2, <1>3, PTL DEF Spec
-------------------------------------------------------------------------------
(* The order of the table *)

\* What a thread knows of the table stays true while others take nodes and none is given back.
LEMMA OthersKeep ==
  ASSUME Inv, NEW t \in Threads, NEW u \in Threads, call'[u] = call[u],
         \A n \in Nodes : Taken(n) => Taken(n)'
  PROVE  Local(u)'
BY DEF Inv, Local, Reset, FoundTaken, Past, Kept, Looks, Chose, Typed, TypeOK

\* A step that only reads the table, of a thread that writes no node.
LEMMA ReadingStep ==
  ASSUME Inv, Typed', NEW t \in Threads, NEW d,
         call' = [call EXCEPT ![t] = d], node_table' = node_table, ~Chose(t), Local(t)'
  PROVE  Inv'
<1>1. \A u \in Threads \ {t} : call'[u] = call[u]
  BY DEF Inv, Typed, TypeOK
<1>2. \A u \in Threads : Local(u)'
  <2> SUFFICES ASSUME NEW u \in Threads PROVE Local(u)'
    OBVIOUS
  <2>1. CASE u # t
    <3>1. \A n \in Nodes : Taken(n) => Taken(n)'
      BY DEF Taken
    <3> QED
      BY <1>1, <2>1, <3>1, OthersKeep
  <2> QED
    BY <2>1
<1>3. NoHoles'
  BY DEF Inv, NoHoles
<1>4. ParentsBefore'
  <2>1. \A n \in Nodes : Complete(n)' => Complete(n)
    BY <1>1 DEF Complete, Chose, Writing
  <2> QED
    BY <2>1 DEF Inv, ParentsBefore
<1> QED
  BY <1>2, <1>3, <1>4 DEF Inv

\* A store into the node that a thread writes leaves no hole.
LEMMA Storing ==
  ASSUME Inv, NEW t \in Threads, Chose(t), NEW k \in Nodes, k = call[t].node,
         \A n \in Nodes \ {k} : node_table'[n] = node_table[n],
         Taken(k) => Taken(k)'
  PROVE  NoHoles' /\ \A n \in Nodes : Taken(n) => Taken(n)'
<1>1. ASSUME NEW n \in Nodes, Taken(n) PROVE Taken(n)'
  BY <1>1 DEF Taken
<1>2. ASSUME NEW n \in Nodes, Taken(n)', NEW m \in Nodes, m < n PROVE Taken(m)'
  <2>1. CASE n = k
    BY <1>1, <1>2, <2>1 DEF Inv, Local, Past
  <2>2. CASE n # k
    <3>1. Taken(n)
      BY <1>2, <2>2 DEF Taken
    <3>2. m \in 1 .. n - 1
      BY <1>2, SacAssumption, SMT DEF Nodes
    <3> QED
      BY <1>1, <3>1, <3>2 DEF Inv, NoHoles, Taken
  <2> QED
    BY <2>1, <2>2
<1>3. \A n \in Nodes : \A m \in 1 .. n - 1 : m \in Nodes /\ m < n
  BY SacAssumption, SMT DEF Nodes
<1> QED
  BY <1>1, <1>2, <1>3 DEF NoHoles, Taken

\* The locals a step gives a thread that looks, or answers, know no more than the table shows.
LEMMA ReaderStep ==
  ASSUME Inv, NEW t \in Threads,
         \/ \E path \in Paths : Create(t, path)
         \/ ComparesParent(t) \/ ComparesName(t) \/ Found(t) \/ Passes(t) \/ Misses(t)
         \/ Exists(t) \/ LooksForParent(t) \/ NoParent(t) \/ LooksForFree(t)
         \/ Takes(t) \/ SkipsTaken(t) \/ NoRoom(t)
  PROVE  Inv'
<1> DEFINE c == call[t]
<1>1. Typed' /\ Local(t) /\ c \in Records /\ call \in [Threads -> Records] /\ NODE_TABLE_SIZE \in Nat
  BY TypedStep, SacAssumption DEF Inv, Typed, TypeOK, Records, Next, Steps
<1>2. /\ c.rest \in Seq(Names) /\ c.nodo \in Numbers /\ c.i \in 0 .. NODE_TABLE_SIZE + 1
      /\ c.father \in Numbers \ {-1} /\ c.node \in Nodes /\ c.stood \in SUBSET Nodes
      /\ c.reads \in 0 .. 2
  BY <1>1 DEF Records
<1>3. node_table' = node_table
  BY DEF Create, ComparesParent, ComparesName, Found, Passes, Misses, Exists, LooksForParent, NoParent, LooksForFree,
         Takes, SkipsTaken, NoRoom
<1>4. \A n \in Nodes : Taken(n) => Taken(n)'
  BY <1>3 DEF Taken
<1>15. \A n \in c.stood : n \in Nodes /\ Taken(n)'
  BY <1>1, <1>2, <1>4 DEF Local, Kept
<1>16. /\ Looks(t) => \A n \in Nodes : n = c.nodo => Taken(n)'
       /\ c.pc = "free" => \A n \in Nodes : n = c.father => Taken(n)'
  BY <1>1, <1>4 DEF Local, FoundTaken
<1> HIDE DEF c
<1>5. ASSUME NEW path \in Paths, Create(t, path) PROVE Inv'
  <2>0. PICK s : s = {n \in Nodes : Complete(n)}
    OBVIOUS
  <2> DEFINE d == [Idle EXCEPT !.pc = "exists", !.path = path, !.rest = path, !.stood = s]
  <2>1. call' = [call EXCEPT ![t] = d] /\ ~Chose(t)
    BY <1>5, <2>0 DEF Create, Goes, Chose
  <2>2. d.pc = "exists" /\ d.i = 0 /\ d.nodo = 0 /\ d.reads = 0 /\ d.stood = s
    BY SMT DEF Idle
  <2>5. \A n \in s : Taken(n)'
    BY <1>4, <2>0 DEF Complete, Taken
  <2> HIDE DEF d
  <2>3. call'[t] = d
    BY <1>1, <2>1
  <2>4. Local(t)'
    BY <2>2, <2>3, <2>5 DEF Local, Reset, FoundTaken, Past, Kept, Looks, Chose, Nodes
  <2> QED
    BY <1>1, <1>3, <2>1, <2>4, ReadingStep
<1>6. ASSUME Found(t) PROVE Inv'
  <2> DEFINE e == Turn(c, 0)
             d == [e EXCEPT !.nodo = c.i + 1, !.rest = Tail(c.rest)]
  <2>1. /\ call' = [call EXCEPT ![t] = d] /\ ~Chose(t) /\ Looks(t)
        /\ c.i < NODE_TABLE_SIZE /\ node_table[c.i + 1].state # 0
    BY <1>6 DEF Found, Compared, Goes, Chose, Looks, Looking, c
  <2>0. e \in Records /\ e.pc = c.pc /\ e.i = 0 /\ e.reads = 0 /\ e.stood = c.stood
    <3>1. 0 \in 0 .. NODE_TABLE_SIZE + 1
      BY <1>1
    <3> QED
      BY <1>1, <3>1, TurnFields
  <2> HIDE DEF e
  <2>2. d.pc = c.pc /\ d.i = 0 /\ d.nodo = c.i + 1 /\ d.reads = 0 /\ d.stood = c.stood
    BY <2>0, SMT DEF Records
  <2> HIDE DEF d
  <2>3. call'[t] = d
    BY <1>1, <2>1
  <2>4. Local(t)'
    BY <1>1, <1>3, <2>1, <2>2, <2>3 DEF Local, Reset, FoundTaken, Past, Kept, Looks, Chose, Taken, c
  <2> QED
    BY <1>1, <1>3, <2>1, <2>4, ReadingStep
<1>7. ASSUME Passes(t) PROVE Inv'
  <2> DEFINE d == Turn(c, c.i + 1)
  <2>1. /\ call' = [call EXCEPT ![t] = d] /\ ~Chose(t) /\ Looks(t) /\ c.rest # <<>>
        /\ c.i < NODE_TABLE_SIZE
    BY <1>7 DEF Passes, Compared, Goes, Chose, Looks, Looking, c
  <2>2. d.pc = c.pc /\ d.rest = c.rest /\ d.nodo = c.nodo /\ d.reads = 0 /\ d.stood = c.stood
    <3>1. c.i + 1 \in 0 .. NODE_TABLE_SIZE + 1
      BY <1>1, <1>2, <2>1
    <3> QED
      BY <1>1, <3>1, TurnFields
  <2> HIDE DEF d
  <2>3. call'[t] = d
    BY <1>1, <2>1
  <2>4. Local(t)'
    BY <1>4, <1>15, <1>16, <2>1, <2>2, <2>3 DEF Local, Reset, FoundTaken, Past, Kept, Looks, Chose, c
  <2> QED
    BY <1>1, <1>3, <2>1, <2>4, ReadingStep
<1>14. ASSUME ComparesParent(t) \/ ComparesName(t) PROVE Inv'
  <2>0. PICK reads \in {1, 2} : \E same, whole :
          call' = [call EXCEPT ![t] = [c EXCEPT !.reads = reads, !.same = same, !.whole = whole]]
    <3>1. CASE ComparesParent(t)
      BY <3>1, Zenon DEF ComparesParent, Goes, c
    <3>2. CASE ComparesName(t)
      <4>1. PICK same : same = (c.same /\ SameName(Head(c.rest), node_table[c.i + 1]))
        OBVIOUS
      <4>2. [c EXCEPT !.reads = 2, !.same = same] = [c EXCEPT !.reads = 2, !.same = same, !.whole = c.whole]
        BY <1>1 DEF Records
      <4>3. call' = [call EXCEPT ![t] = [c EXCEPT !.reads = 2, !.same = same]]
        BY <3>2, <4>1, Zenon DEF ComparesName, Goes, c
      <4> QED
        BY <4>2, <4>3, Zenon
    <3> QED
      BY <1>14, <3>1, <3>2
  <2>1. PICK same, whole :
          call' = [call EXCEPT ![t] = [c EXCEPT !.reads = reads, !.same = same, !.whole = whole]]
    BY <2>0
  <2> DEFINE d == [c EXCEPT !.reads = reads, !.same = same, !.whole = whole]
  <2>2. ~Chose(t) /\ Looks(t) /\ c.rest # <<>> /\ c.i < NODE_TABLE_SIZE
    BY <1>14 DEF ComparesParent, ComparesName, Compared, Chose, Looks, Looking, c
  <2>3. d.pc = c.pc /\ d.rest = c.rest /\ d.nodo = c.nodo /\ d.i = c.i /\ d.stood = c.stood
    BY <1>1, SMT DEF Records
  <2>4. call'[t] = d
    BY <1>1, <2>1
  <2> HIDE DEF d
  <2>5. Local(t)'
    BY <1>4, <1>15, <1>16, <2>2, <2>3, <2>4 DEF Local, Reset, FoundTaken, Past, Kept, Looks, Chose, c
  <2> QED
    BY <1>1, <1>3, <2>1, <2>2, <2>5, ReadingStep DEF d
<1>8. ASSUME Misses(t) PROVE Inv'
  <2> DEFINE d == [c EXCEPT !.nodo = -1, !.rest = Tail(c.rest), !.i = 0]
  <2>1. call' = [call EXCEPT ![t] = d] /\ ~Chose(t) /\ Looks(t) /\ c.i = NODE_TABLE_SIZE
    BY <1>8 DEF Misses, Goes, Chose, Looks, Looking, c
  <2>5. c.reads = 0
    BY <1>1, <2>1 DEF Local, Reset, c
  <2>2. d.pc = c.pc /\ d.i = 0 /\ d.nodo \notin Nodes /\ d.reads = 0 /\ d.stood = c.stood
    BY <1>1, <2>5, SMT DEF Records, Nodes
  <2> HIDE DEF d
  <2>3. call'[t] = d
    BY <1>1, <2>1
  <2>4. Local(t)'
    BY <1>4, <1>15, <1>16, <2>1, <2>2, <2>3 DEF Local, Reset, FoundTaken, Past, Kept, Looks, Chose, c
  <2> QED
    BY <1>1, <1>3, <2>1, <2>4, ReadingStep
<1>9. ASSUME Exists(t) \/ NoParent(t) \/ NoRoom(t) PROVE Inv'
  <2>1. call' = [call EXCEPT ![t] = Idle] /\ ~Chose(t)
    BY <1>9 DEF Exists, NoParent, NoRoom, Returns, Goes, Chose, Looked
  <2>2. call'[t].pc = "idle" /\ call'[t].reads = 0 /\ call'[t].stood = {}
    BY <1>1, <2>1 DEF Idle
  <2>3. Local(t)'
    BY <2>2 DEF Local, Reset, FoundTaken, Past, Kept, Looks, Chose
  <2> QED
    BY <1>1, <1>3, <2>1, <2>3, ReadingStep
<1>10. ASSUME LooksForParent(t) PROVE Inv'
  <2> DEFINE d == [c EXCEPT !.pc = "father", !.rest = Parent(c.path), !.nodo = 0]
  <2>1. call' = [call EXCEPT ![t] = d] /\ ~Chose(t) /\ Looks(t) /\ c.rest = <<>>
    BY <1>10 DEF LooksForParent, Looked, Goes, Chose, Looks, c
  <2>2. /\ d.pc = "father" /\ d.i = c.i /\ d.nodo \notin Nodes /\ d.reads = c.reads
        /\ d.stood = c.stood
    BY <1>1, SMT DEF Records, Nodes
  <2>3. c.i = 0 /\ c.reads = 0
    BY <1>1, <2>1 DEF Local, Reset, c
  <2> HIDE DEF d
  <2>4. call'[t] = d
    BY <1>1, <2>1
  <2>5. Local(t)'
    BY <1>4, <1>15, <1>16, <2>2, <2>3, <2>4 DEF Local, Reset, FoundTaken, Past, Kept, Looks, Chose, c
  <2> QED
    BY <1>1, <1>3, <2>1, <2>5, ReadingStep
<1>11. ASSUME LooksForFree(t) PROVE Inv'
  <2> DEFINE d == [c EXCEPT !.pc = "free", !.father = c.nodo]
  <2>1. call' = [call EXCEPT ![t] = d] /\ ~Chose(t) /\ Looks(t) /\ c.rest = <<>>
    BY <1>11 DEF LooksForFree, Looked, Goes, Chose, Looks, c
  <2>2. d.pc = "free" /\ d.i = c.i /\ d.father = c.nodo /\ d.reads = c.reads /\ d.stood = c.stood
    BY <1>1, SMT DEF Records
  <2>3. c.i = 0 /\ c.reads = 0
    BY <1>1, <2>1 DEF Local, Reset, c
  <2>4. \A m \in Nodes : ~(m < c.i)
    BY <2>3, SMT DEF Nodes
  <2>5. c.nodo \in Nodes => Taken(c.nodo)
    BY <1>1, <2>1 DEF Local, FoundTaken, c
  <2> HIDE DEF d
  <2>6. call'[t] = d
    BY <1>1, <2>1
  <2>7. Local(t)'
    BY <1>4, <1>15, <1>16, <2>2, <2>3, <2>4, <2>5, <2>6 DEF Local, Reset, FoundTaken, Past, Kept, Looks, Chose
  <2> QED
    BY <1>1, <1>3, <2>1, <2>7, ReadingStep
<1>12. ASSUME Takes(t) PROVE Inv'
  <2> DEFINE k == NodeAt(c.i)
             d == [c EXCEPT !.pc = "state", !.node = k]
  <2>1. /\ call' = [call EXCEPT ![t] = d] /\ ~Chose(t) /\ c.pc = "free"
        /\ c.i # NODE_TABLE_SIZE + 1 /\ ~Taken(k)
    BY <1>12 DEF Takes, Goes, Chose, PastTable, Taken, c
  <2>2. /\ d.pc = "state" /\ d.father = c.father /\ d.node = k /\ d.reads = c.reads
        /\ d.stood = c.stood
    BY <1>1, SMT DEF Records
  <2>8. c.reads = 0 /\ k \notin c.stood
    BY <1>1, <2>1 DEF Local, Reset, Kept, Looks, c
  <2>3. k \in Nodes /\ \A m \in Nodes : m < k => m < c.i
    BY <1>1, <1>2, <2>1, SacAssumption, SMT DEF NodeAt, Nodes
  <2>4. \A m \in Nodes : m < k => Taken(m)
    BY <1>1, <2>1, <2>3 DEF Local, Past, c
  <2>5. c.father < k
    <3>1. c.father = 0 \/ c.father \in Nodes
      BY <1>1, <1>2, SMT DEF Numbers, Nodes
    <3>2. CASE c.father \in Nodes
      <4>1. Taken(c.father)
        BY <1>1, <2>1, <3>2 DEF Local, FoundTaken, c
      <4>2. c.father # k /\ ~(k \in 1 .. c.father - 1)
        BY <2>1, <3>2, <4>1 DEF Inv, NoHoles, Taken
      <4> QED
        BY <2>3, <3>2, <4>2, SMT DEF Nodes
    <3>3. CASE c.father = 0
      BY <2>3, <3>3, SMT DEF Nodes
    <3> QED
      BY <3>1, <3>2, <3>3
  <2> HIDE DEF d, k
  <2>6. call'[t] = d
    BY <1>1, <2>1
  <2>7. Local(t)'
    BY <1>4, <1>15, <1>16, <2>2, <2>3, <2>4, <2>5, <2>6, <2>8 DEF Local, Reset, FoundTaken, Past, Kept, Looks, Chose
  <2> QED
    BY <1>1, <1>3, <2>1, <2>7, ReadingStep
<1>13. ASSUME SkipsTaken(t) PROVE Inv'
  <2> DEFINE d == [c EXCEPT !.i = c.i + 1]
  <2>1. /\ call' = [call EXCEPT ![t] = d] /\ ~Chose(t) /\ c.pc = "free"
        /\ Taken(NodeAt(c.i))
    <3>1. [call[t] EXCEPT !.i = @ + 1] = d
      BY DEF c
    <3> QED
      BY <1>13, <3>1 DEF SkipsTaken, Goes, Chose, Taken, c
  <2>2. /\ d.pc = "free" /\ d.father = c.father /\ d.i = c.i + 1 /\ d.reads = c.reads
        /\ d.stood = c.stood
    BY <1>1, <2>1, SMT DEF Records
  <2>8. c.reads = 0
    BY <1>1, <2>1 DEF Local, Reset, Looks, c
  <2>3. \A m \in Nodes : m < c.i + 1 => m < c.i \/ m = NodeAt(c.i)
    BY <1>1, <1>2, SMT DEF NodeAt, Nodes
  <2>4. \A m \in Nodes : m < c.i + 1 => Taken(m)
    BY <1>1, <2>1, <2>3 DEF Local, Past, c
  <2>5. c.father \in Nodes => Taken(c.father)
    BY <1>1, <2>1 DEF Local, FoundTaken, c
  <2> HIDE DEF d
  <2>6. call'[t] = d
    BY <1>1, <2>1
  <2>7. Local(t)'
    BY <1>4, <1>15, <1>16, <2>2, <2>3, <2>4, <2>5, <2>6, <2>8 DEF Local, Reset, FoundTaken, Past, Kept, Looks, Chose
  <2> QED
    BY <1>1, <1>3, <2>1, <2>7, ReadingStep
<1> QED
  BY <1>5, <1>6, <1>7, <1>8, <1>9, <1>10, <1>11, <1>12, <1>13, <1>14

\* A store keeps the invariant: the parent it leaves in a node it is done with is an earlier one.
LEMMA WriterStep ==
  ASSUME Inv, NEW t \in Threads, StoreState(t) \/ StoreName(t) \/ StoreParent(t)
  PROVE  Inv'
<1> DEFINE c == call[t]
<1>1. Typed' /\ Local(t) /\ c \in Records /\ call \in [Threads -> Records] /\ node_table \in [Nodes -> Entries]
  BY TypedStep DEF Inv, Typed, TypeOK, Records, Entries, Next, Steps
<1>2. PICK k \in Nodes : k = c.node
  BY <1>1 DEF Records
<1>3. Chose(t)
  BY DEF StoreState, StoreName, StoreParent, Chose
<1>4. PICK e : node_table' = [node_table EXCEPT ![k] = e] /\ (Taken(k) => e.state # 0)
  <2>1. CASE StoreState(t)
    <3>1. [node_table[k] EXCEPT !.state = DIRECTORY_T].state # 0
      BY <1>1, <1>2 DEF Entries, DIRECTORY_T
    <3> QED
      BY <1>2, <2>1, <3>1 DEF StoreState, Stores
  <2>2. CASE StoreName(t)
    <3>1. PICK n, bytes : Stores(k, [node_table[k] EXCEPT !.name = n, !.parent = bytes])
      <4>1. node_table[k] \in Entries /\ c.path \in Seq(Names) /\ c.path # <<>>
        BY <1>1, <1>2, <2>2 DEF Records, Inv, Typed, Named, StoreName
      <4> QED
        BY <1>2, <2>2, <4>1, NameStored
    <3>2. [node_table[k] EXCEPT !.name = n, !.parent = bytes].state = node_table[k].state
      BY <1>1, <1>2, SMT DEF Entries
    <3> QED
      BY <3>1, <3>2 DEF Stores, Taken
  <2>3. CASE StoreParent(t)
    <3>1. [node_table[k] EXCEPT !.parent = c.father].state = node_table[k].state
      BY <1>1, <1>2, SMT DEF Entries
    <3> QED
      BY <1>2, <2>3, <3>1 DEF StoreParent, Stores, Taken
  <2> QED
    BY <2>1, <2>2, <2>3
<1>5. /\ \A n \in Nodes \ {k} : node_table'[n] = node_table[n]
      /\ node_table'[k] = e
  BY <1>1, <1>2, <1>4
<1>6. NoHoles' /\ \A n \in Nodes : Taken(n) => Taken(n)'
  <2>1. Taken(k) => Taken(k)'
    BY <1>4, <1>5 DEF Taken
  <2> QED
    BY <1>2, <1>3, <1>5, <2>1, Storing
<1>7. \A u \in Threads \ {t} : call'[u] = call[u]
  BY <1>1 DEF StoreState, StoreName, StoreParent, Returns, Goes
<1>8. ASSUME StoreState(t) \/ StoreName(t)
       PROVE  /\ call'[t].pc \in {"name", "parent"} /\ call'[t].father = c.father
              /\ call'[t].node = k /\ call'[t].reads = c.reads /\ call'[t].stood = c.stood
  <2>1. PICK pc \in {"name", "parent"} : call' = [call EXCEPT ![t] = [c EXCEPT !.pc = pc]]
    BY <1>8 DEF StoreState, StoreName, Goes
  <2>2. call'[t] = [c EXCEPT !.pc = pc]
    BY <1>1, <2>1
  <2>3. /\ [c EXCEPT !.pc = pc].pc = pc /\ [c EXCEPT !.pc = pc].father = c.father
        /\ [c EXCEPT !.pc = pc].node = c.node /\ [c EXCEPT !.pc = pc].reads = c.reads
        /\ [c EXCEPT !.pc = pc].stood = c.stood
    BY <1>1, SMT DEF Records
  <2> QED
    BY <1>2, <2>2, <2>3
<1>9. Local(t)'
  <2>1. CASE StoreParent(t)
    <3>1. call'[t].pc = "idle" /\ call'[t].reads = 0 /\ call'[t].stood = {}
      BY <1>1, <2>1 DEF StoreParent, Returns, Goes, Idle
    <3> QED
      BY <3>1 DEF Local, Reset, FoundTaken, Past, Kept, Looks, Chose
  <2>2. CASE StoreState(t) \/ StoreName(t)
    <3>1. /\ call'[t].pc \in {"name", "parent"} /\ call'[t].father = c.father
          /\ call'[t].node = k /\ call'[t].reads = c.reads /\ call'[t].stood = c.stood
      BY <1>8, <2>2
    <3>2. c.stood \in SUBSET Nodes /\ c.reads = 0
      BY <1>1, <1>3 DEF Records, Local, Reset, Looks, Chose
    <3> QED
      BY <1>1, <1>2, <1>3, <1>6, <3>1, <3>2 DEF Local, Reset, FoundTaken, Past, Kept, Looks, Chose
  <2> QED
    BY <2>1, <2>2
<1>10. \A u \in Threads : Local(u)'
  BY <1>6, <1>7, <1>9, OthersKeep
<1>11. ParentsBefore'
  <2> SUFFICES ASSUME NEW n \in Nodes, Complete(n)' PROVE node_table'[n].parent \in 0 .. n - 1
    BY DEF ParentsBefore
  <2>1. CASE n = k
    <3>1. StoreParent(t)
      <4>1. SUFFICES ASSUME StoreState(t) \/ StoreName(t) PROVE FALSE
        OBVIOUS
      <4>2. call'[t].pc \in {"name", "parent"} /\ call'[t].node = k
        BY <1>8, <4>1
      <4> QED
        BY <2>1, <4>2 DEF Complete, Writing
    <3>2. node_table'[n].parent = c.father
      BY <1>1, <1>2, <2>1, <3>1 DEF StoreParent, Stores, Entries
    <3>3. c.father \in Nat /\ c.father < n
      BY <1>1, <1>2, <1>3, <2>1, SacAssumption DEF Local, Past, Records, Numbers
    <3> QED
      BY <2>1, <3>2, <3>3 DEF Nodes
  <2>2. CASE n # k
    <3>1. Complete(n)
      BY <1>2, <1>5, <1>7, <2>2 DEF Complete, Writing
    <3> QED
      BY <1>5, <2>2, <3>1 DEF Inv, ParentsBefore
  <2> QED
    BY <2>1, <2>2
<1> QED
  BY <1>1, <1>6, <1>10, <1>11 DEF Inv

\* The invariant is inductive.
LEMMA InvStep == Inv /\ [Next]_vars => Inv'
<1>1. CASE Next
  BY <1>1, ReaderStep, WriterStep DEF Next, Steps
<1>2. CASE Inv /\ UNCHANGED vars
  BY <1>2 DEF vars, Inv, Typed, TypeOK, Named, NoHoles, ParentsBefore, Complete, Writing,
              Local, Reset, FoundTaken, Past, Kept, Looks, Chose, Taken
<1> QED
  BY <1>1, <1>2

\* The taken nodes are the first ones (NoHoles).
THEOREM FirstOnesTaken == Spec => []NoHoles
<1>1. Inv => NoHoles
  BY DEF Inv
<1> QED
  BY <1>1, InitInv, InvStep, PTL DEF Spec

\* A directory comes after its parent (ParentsBefore).
THEOREM ParentsFirst == Spec => []ParentsBefore
<1>1. Inv => ParentsBefore
  BY DEF Inv
<1> QED
  BY <1>1, InitInv, InvStep, PTL DEF Spec

\* A step that is not a store leaves the table, and a store is in the node that was chosen.
LEMMA OwnNodeOnly ==
  ASSUME Inv, NEW t \in Threads, (\E path \in Paths : Create(t, path)) \/ Steps(t)
  PROVE  /\ \A u \in Threads \ {t} : call'[u] = call[u]
         /\ \A n \in Nodes : node_table'[n] # node_table[n] => Chose(t) /\ call[t].node = n
<1>1. call \in [Threads -> Records] /\ node_table \in [Nodes -> Entries]
  BY DEF Inv, Typed, TypeOK, Records, Entries
<1>2. \A u \in Threads \ {t} : call'[u] = call[u]
  BY <1>1 DEF Steps, Create, ComparesParent, ComparesName, Found, Passes, Misses, Exists,
     LooksForParent, NoParent, LooksForFree, Takes, SkipsTaken, NoRoom, StoreState, StoreName,
     StoreParent, Returns, Goes
<1>3. ASSUME NEW n \in Nodes, node_table'[n] # node_table[n] PROVE Chose(t) /\ call[t].node = n
  <2>1. StoreState(t) \/ StoreName(t) \/ StoreParent(t)
    BY <1>3 DEF Steps, Create, ComparesParent, ComparesName, Found, Passes, Misses, Exists,
       LooksForParent, NoParent, LooksForFree, Takes, SkipsTaken, NoRoom
  <2>2. \E e : node_table' = [node_table EXCEPT ![call[t].node] = e]
    BY <2>1, Zenon DEF StoreState, StoreName, StoreParent, Stores
  <2> QED
    BY <1>1, <1>3, <2>1, <2>2 DEF StoreState, StoreName, StoreParent, Chose
<1> QED
  BY <1>2, <1>3

\* A call writes no node that was finished when it was made (NodesStay).
THEOREM NodesKept == Spec => NodesStay
<1>1. Inv /\ [Next]_vars => [\A t \in Threads : call'[t] # call[t] =>
                               \A n \in call[t].stood : node_table'[n] = node_table[n]]_vars
  <2> SUFFICES ASSUME Inv, Next, NEW t \in Threads, call'[t] # call[t], NEW n \in call[t].stood
               PROVE  node_table'[n] = node_table[n]
    OBVIOUS
  <2>1. (\E path \in Paths : Create(t, path)) \/ Steps(t)
    BY OwnNodeOnly DEF Next
  <2>2. n \in Nodes /\ (Chose(t) => call[t].node # n)
    <3>1. call[t] \in Records /\ Kept(t)
      BY DEF Inv, Typed, TypeOK, Records, Local
    <3> QED
      BY <3>1 DEF Kept, Records
  <2> QED
    BY <2>1, <2>2, OwnNodeOnly
<1> QED
  BY <1>1, InitInv, InvStep, PTL DEF Spec, NodesStay
-------------------------------------------------------------------------------
(* Paths *)

\* A path with a name put after it is taken apart again by Parent and NameOf.
LEMMA AppendParts ==
  ASSUME NEW s \in Seq(Names), NEW e \in Names
  PROVE  /\ Append(s, e) \in Seq(Names) /\ Append(s, e) # <<>>
         /\ Parent(Append(s, e)) = s /\ NameOf(Append(s, e)) = e
<1> DEFINE p == Append(s, e)
<1>1. /\ p \in Seq(Names) /\ p # <<>> /\ Len(p) = Len(s) + 1 /\ Len(s) \in Nat
      /\ p[Len(s) + 1] = e
  BY AppendProperties, LenProperties
<1>2. SubSeq(p, 1, Len(s)) = s
  <2>1. p = s \o <<e>> /\ <<e>> \in Seq(Names)
    BY AppendIsConcat
  <2>2. CASE s = <<>>
    BY <1>1, <2>2, SubSeqEmpty
  <2>3. CASE s # <<>>
    <3>1. Len(s) \in Nat \ {0}
      BY <2>3, EmptySeq
    <3>2. SubSeq(s \o <<e>>, 1, Len(s)) = SubSeq(s, 1, Len(s))
      BY <2>1, <3>1, SubSeqOfConcat1
    <3> QED BY <2>1, <3>2, SubSeqFull
  <2> QED BY <2>2, <2>3
<1> HIDE DEF p
<1>3. Len(p) - 1 = Len(s)
  BY <1>1
<1> QED BY <1>1, <1>2, <1>3 DEF Parent, NameOf, p

\* A path that is not the root's is that of its parent and a name.
LEMMA PathSplits ==
  ASSUME NEW p \in Seq(Names), p # <<>>
  PROVE  /\ Parent(p) \in Seq(Names) /\ NameOf(p) \in Names
         /\ p = Append(Parent(p), NameOf(p))
<1>1. PICK s \in Seq(Names), e \in Names : p = Append(s, e)
  BY SequenceEmptyOrAppend
<1> QED BY <1>1, AppendParts

\* A path read up to some name, and one name further.
LEMMA OneNameOn ==
  ASSUME NEW done \in Seq(Names), NEW rest \in Seq(Names), rest # <<>>
  PROVE  /\ Head(rest) \in Names /\ Tail(rest) \in Seq(Names)
         /\ done \o rest = Append(done, Head(rest)) \o Tail(rest)
<1> DEFINE h == Head(rest)
           u == Tail(rest)
<1>1. h \in Names /\ u \in Seq(Names) /\ <<h>> \in Seq(Names)
  BY HeadTailProperties
<1>2. rest = <<h>> \o u
  <2>1. /\ Len(rest) \in Nat \ {0} /\ Len(u) = Len(rest) - 1 /\ rest[1] = h
        /\ \A i \in 1 .. Len(u) : u[i] = rest[i + 1]
    BY HeadTailProperties, EmptySeq
  <2>2. /\ <<h>> \o u \in Seq(Names) /\ Len(<<h>> \o u) = 1 + Len(u)
        /\ \A i \in 1 .. 1 + Len(u) :
             (<<h>> \o u)[i] = IF i <= 1 THEN <<h>>[i] ELSE u[i - 1]
    BY <1>1, ConcatProperties
  <2> DEFINE v == <<h>> \o u
  <2> HIDE DEF h, u, v
  <2>3. v \in Seq(Names) /\ Len(v) = Len(rest) /\ \A i \in 1 .. Len(rest) : rest[i] = v[i]
    BY <2>1, <2>2 DEF v
  <2>4. rest = v
    BY <2>3, SeqEqual
  <2> QED BY <2>4 DEF v
<1>3. done \o (<<h>> \o u) = (done \o <<h>>) \o u
  BY <1>1, ConcatAssociative
<1>4. Append(done, h) = done \o <<h>>
  BY <1>1, AppendIsConcat
<1> HIDE DEF h, u
<1> QED BY <1>1, <1>2, <1>3, <1>4 DEF h, u

\* With a directory its ancestors are there.
Closed(D) == /\ D \subseteq Seq(Names) \ {<<>>}
             /\ \A a, b \in Seq(Names) : a \o b \in D /\ a # <<>> => a \in D

\* A new directory under one that is there leaves them closed.
LEMMA ClosedGrows ==
  ASSUME NEW D, Closed(D), NEW p \in Seq(Names), p # <<>>,
         Parent(p) = <<>> \/ Parent(p) \in D
  PROVE  Closed(D \cup {p})
<1> SUFFICES ASSUME NEW a \in Seq(Names), NEW b \in Seq(Names), a \o b = p, a # <<>>, a # p
             PROVE  a \in D
  BY DEF Closed
<1>1. b # <<>>
  BY ConcatEmptySeq
<1>2. PICK c \in Seq(Names), e \in Names : b = Append(c, e)
  BY <1>1, SequenceEmptyOrAppend
<1>3. a \o c \in Seq(Names) /\ <<e>> \in Seq(Names)
  BY ConcatProperties
<1>4. a \o b = Append(a \o c, e)
  <2>1. b = c \o <<e>> /\ Append(a \o c, e) = (a \o c) \o <<e>>
    BY <1>2, <1>3, AppendIsConcat
  <2>2. (a \o c) \o <<e>> = a \o (c \o <<e>>)
    BY <1>2, <1>3, ConcatAssociative
  <2> QED BY <2>1, <2>2
<1>5. Parent(p) = a \o c
  BY <1>3, <1>4, AppendParts
<1>6. a \o c # <<>>
  BY ConcatEqualIffEmpty
<1> QED BY <1>5, <1>6 DEF Closed
-------------------------------------------------------------------------------
(* Where the nodes are *)

\* A set of naturals that is not empty has a least one.
LEMMA LeastNatural ==
  ASSUME NEW S \in SUBSET Nat, S # {}
  PROVE  \E x \in S : \A y \in S : x <= y
<1>1. PICK x \in S : \A y \in S : ~(<<y, x>> \in OpToRel(<, Nat))
  BY NatLessThanWellFounded, WFMin, Zenon
<1>2. ASSUME NEW y \in S, y < x PROVE <<y, x>> \in OpToRel(<, Nat)
  BY <1>2 DEF OpToRel
<1>3. \A y \in S : ~(y < x)
  BY <1>1, <1>2, Zenon
<1> QED BY <1>3

\* The path of node n, when f has those of the nodes before it.
PathBy(f, table, n) ==
  IF n = 0 THEN <<>>
  ELSE Append(IF table[n].parent \in 0 .. n - 1 THEN f[table[n].parent] ELSE <<>>, table[n].name)

\* There is a function of the paths: the least node without one would have one.
LEMMA PathsExist ==
  ASSUME NEW table \in [Nodes -> Entries]
  PROVE  \E f : f = [n \in 0 .. NODE_TABLE_SIZE |-> PathBy(f, table, n)]
<1> DEFINE Fits(f, m) == \A n \in 0 .. m : f[n] = PathBy(f, table, n)
           B == {m \in 0 .. NODE_TABLE_SIZE : ~ \E f : Fits(f, m)}
<1>0. NODE_TABLE_SIZE \in Nat
  BY SacAssumption
<1>1. B = {}
  <2> SUFFICES ASSUME B # {} PROVE FALSE
    OBVIOUS
  <2>1. B \in SUBSET Nat
    BY <1>0
  <2>2. PICK k \in B : \A j \in B : k <= j
    BY <2>1, LeastNatural
  <2>3. CASE k = 0
    <3> DEFINE g == [n \in 0 .. 0 |-> <<>>]
    <3>1. Fits(g, 0)
      BY DEF PathBy
    <3> QED BY <2>2, <2>3, <3>1
  <2>4. CASE k # 0
    <3>1. k - 1 \in 0 .. NODE_TABLE_SIZE /\ k \in 1 .. NODE_TABLE_SIZE /\ k - 1 \notin B
      BY <1>0, <2>2, <2>4
    <3>2. PICK f : Fits(f, k - 1)
      BY <3>1
    <3> DEFINE g == [n \in 0 .. NODE_TABLE_SIZE |->
                       IF n = k THEN PathBy(f, table, k) ELSE f[n]]
    <3>3. ASSUME NEW n \in 0 .. k PROVE g[n] = PathBy(g, table, n)
      <4>1. n \in 0 .. NODE_TABLE_SIZE
        BY <1>0, <3>1
      <4>2. g[n] = PathBy(f, table, n)
        BY <1>0, <3>1, <3>2, <4>1
      <4>3. PathBy(g, table, n) = PathBy(f, table, n)
        <5>1. CASE n = 0
          BY <5>1 DEF PathBy
        <5>2. CASE n # 0
          <6>2. table[n].parent \in 0 .. n - 1 => g[table[n].parent] = f[table[n].parent]
            BY <1>0, <3>1, <4>1, <5>2
          <6> HIDE DEF g
          <6> QED BY <5>2, <6>2 DEF PathBy
        <5> QED BY <5>1, <5>2
      <4> QED BY <4>2, <4>3
    <3> HIDE DEF g
    <3>4. Fits(g, k)
      BY <3>3
    <3> QED BY <2>2, <3>4
  <2> QED BY <2>3, <2>4
<1>2. PICK f : Fits(f, NODE_TABLE_SIZE)
  <2>1. NODE_TABLE_SIZE \in 0 .. NODE_TABLE_SIZE /\ NODE_TABLE_SIZE \notin B
    BY <1>0, <1>1
  <2> QED BY <2>1
<1> DEFINE g == [n \in 0 .. NODE_TABLE_SIZE |-> f[n]]
           h == [n \in 0 .. NODE_TABLE_SIZE |-> PathBy(g, table, n)]
<1>3. ASSUME NEW n \in 0 .. NODE_TABLE_SIZE PROVE g[n] = PathBy(g, table, n)
  <2>1. g[n] = PathBy(f, table, n)
    BY <1>2
  <2>2. CASE n = 0
    BY <2>1, <2>2 DEF PathBy
  <2>3. CASE n # 0
    <3>2. table[n].parent \in 0 .. n - 1 => g[table[n].parent] = f[table[n].parent]
      BY <1>0, <2>3
    <3> HIDE DEF g
    <3> QED BY <2>1, <2>3, <3>2 DEF PathBy
  <2> QED BY <2>2, <2>3
<1>4. g = h
  BY <1>3, Zenon
<1> HIDE DEF g
<1> QED BY <1>4, Zenon

\* The paths are those that the definition asks for.
LEMMA PathsUnfold ==
  ASSUME NEW table \in [Nodes -> Entries], NEW n \in 0 .. NODE_TABLE_SIZE
  PROVE  PathsOf(table)[n] = PathBy(PathsOf(table), table, n)
<1> DEFINE Q == PathsOf(table)
<1>1. PICK f : f = [k \in 0 .. NODE_TABLE_SIZE |-> PathBy(f, table, k)]
  BY PathsExist
<1>2. f = [k \in 0 .. NODE_TABLE_SIZE |->
             IF k = 0 THEN <<>>
             ELSE Append(IF table[k].parent \in 0 .. k - 1 THEN f[table[k].parent] ELSE <<>>, table[k].name)]
  BY <1>1, Zenon DEF PathBy
<1>3. Q = [k \in 0 .. NODE_TABLE_SIZE |->
             IF k = 0 THEN <<>>
             ELSE Append(IF table[k].parent \in 0 .. k - 1 THEN Q[table[k].parent] ELSE <<>>, table[k].name)]
  BY <1>2, Zenon DEF PathsOf
<1> HIDE DEF Q
<1>4. Q[n] = PathBy(Q, table, n)
  BY <1>3 DEF PathBy
<1> QED BY <1>4 DEF Q
-------------------------------------------------------------------------------
(* The invariant *)

Path(n) == PathsOf(node_table)[n]

\* Node n is the directory p and nobody is writing it.
Stands(n, p) == (n = 0 \/ (n \in Nodes /\ Complete(n))) /\ Path(n) = p

\* What a thread with the locals c, called when the directories were b, looks for.  It was
\* not there then, or it has been followed up to nodo, and no node that was gone past was
\* the next one then.
Target(c) == IF c.pc = "exists" THEN c.path ELSE Parent(c.path)
Missed(c, b) == Target(c) # <<>> /\ Target(c) \notin b
PassedBy(c, b, p) == \A m \in Nodes : m <= c.i /\ Complete(m) /\ Path(m) = p => p \notin b
Follows(c, b, done) ==
  /\ Target(c) = done \o c.rest
  /\ Stands(c.nodo, done)
  /\ c.rest # <<>> => PassedBy(c, b, Append(done, Head(c.rest)))
Searches(c, b) ==
  IF c.nodo = -1 THEN Missed(c, b) ELSE \E done \in Seq(Names) : Follows(c, b, done)

\* What the comparisons with a node have come to, if it was finished at the first of them; if
\* not, it is none of the directories there were when the thread was called.
Compares(c, b) ==
  c.reads # 0 =>
    LET n == c.i + 1
    IN /\ n \in Nodes
       /\ c.whole => /\ Complete(n)
                     /\ c.same <=> /\ node_table[n].parent = c.nodo
                                   /\ c.reads = 2 => SameName(Head(c.rest), node_table[n])
       /\ ~c.whole /\ Complete(n) => Path(n) \notin b

Knows(c, b) ==
  /\ b \subseteq Dirs /\ Closed(b) /\ Compares(c, b)
  /\ c.pc \in {"exists", "father"} => Searches(c, b)
  /\ c.pc \in {"free", "state", "name", "parent"} => Stands(c.father, Parent(c.path))

\* What the one that has chosen a node has stored.
Writes(t) ==
  /\ call[t].pc = "state" => ~Taken(call[t].node)
  /\ call[t].pc \in {"name", "parent"} => Taken(call[t].node)
  /\ call[t].pc = "parent" =>
       /\ node_table[call[t].node].name = NameOf(call[t].path)
       /\ NameOf(call[t].path) \in Full => call[t].father % BYTE = 0

\* A directory has a directory for parent, and a name that is found where it is.
Sound(n) == /\ node_table[n].parent = 0 \/ Complete(node_table[n].parent)
            /\ node_table[n].name \in Names
            /\ node_table[n].name \in Full => node_table[n].parent % BYTE = 0

OneEach == \A m, n \in Nodes : Complete(m) /\ Complete(n) /\ Path(m) = Path(n) => m = n
Apart == \A t, u \in Threads : Chose(t) /\ Chose(u) /\ call[t].node = call[u].node => t = u

Good == /\ \A n \in Nodes : Complete(n) => Sound(n)
        /\ OneEach /\ Apart /\ Closed(Dirs)
        /\ before \in [Threads -> SUBSET Seq(Names)]
        /\ \A t \in Threads : Knows(call[t], before[t]) /\ Writes(t)

TreeInv == Inv /\ (strayed = {} => Good)
-------------------------------------------------------------------------------
(* The tree under a step *)

\* Numbers of nodes and of parents.
LEMMA NumberFacts ==
  /\ NODE_TABLE_SIZE \in Nat \ {0} /\ 0 \in 0 .. NODE_TABLE_SIZE /\ 0 \notin Nodes
  /\ Nodes \subseteq 0 .. NODE_TABLE_SIZE /\ Nodes \subseteq Nat
  /\ \A n \in Numbers \ {-1} : n = 0 \/ n \in Nodes
  /\ -1 \notin Nodes /\ -1 # 0
BY SacAssumption DEF Nodes, Numbers

\* The parent of a directory is the root's number or a node's.
LEMMA ParentNumber ==
  ASSUME ParentsBefore, NEW n \in Nodes, Complete(n)
  PROVE  node_table[n].parent = 0 \/ node_table[n].parent \in Nodes
<1>1. node_table[n].parent \in 0 .. n - 1
  BY DEF ParentsBefore
<1> QED BY <1>1, SacAssumption DEF Nodes

\* The directories are the paths of the complete nodes.
LEMMA DirsAre == Dirs = {Path(n) : n \in {m \in Nodes : Complete(m)}}
BY DEF Dirs, Path

\* The root's path is the empty one.
LEMMA RootPath ==
  ASSUME TypeOK
  PROVE  Path(0) = <<>>
<1>1. node_table \in [Nodes -> Entries]
  BY DEF TypeOK, Entries
<1>2. PathsOf(node_table)[0] = PathBy(PathsOf(node_table), node_table, 0)
  BY <1>1, NumberFacts, PathsUnfold
<1> QED BY <1>2 DEF PathBy, Path

\* The path of a directory is its parent's and its name.
LEMMA DirectoryPath ==
  ASSUME TypeOK, NEW n \in Nodes, node_table[n].parent \in 0 .. n - 1
  PROVE  Path(n) = Append(Path(node_table[n].parent), node_table[n].name)
<1>1. node_table \in [Nodes -> Entries]
  BY DEF TypeOK, Entries
<1>2. PathsOf(node_table)[n] = PathBy(PathsOf(node_table), node_table, n)
  BY <1>1, NumberFacts, PathsUnfold
<1>3. n # 0
  BY NumberFacts
<1> QED BY <1>2, <1>3 DEF PathBy, Path

\* Directories keep their paths in a step that leaves their nodes alone.
LEMMA PathsStay ==
  ASSUME TypeOK, TypeOK', ParentsBefore, \A n \in Nodes : Complete(n) => Sound(n),
         \A n \in Nodes : Complete(n) => node_table'[n] = node_table[n]
  PROVE  /\ Path(0)' = <<>> /\ Path(0) = <<>>
         /\ \A n \in Nodes : Complete(n) => Path(n)' = Path(n)
<1>0. node_table \in [Nodes -> Entries] /\ node_table' \in [Nodes -> Entries]
  BY DEF TypeOK, Entries
<1>1. Path(0) = <<>> /\ Path(0)' = <<>>
  <2>1. PathsOf(node_table')[0] = PathBy(PathsOf(node_table'), node_table', 0)
    BY <1>0, NumberFacts, PathsUnfold
  <2> QED BY <2>1, RootPath DEF PathBy, Path
<1> DEFINE B == {n \in Nodes : Complete(n) /\ Path(n)' # Path(n)}
<1>2. B = {}
  <2> SUFFICES ASSUME B # {} PROVE FALSE
    OBVIOUS
  <2>1. B \in SUBSET Nat
    BY NumberFacts
  <2>2. PICK k \in B : \A j \in B : k <= j
    BY <2>1, LeastNatural
  <2>3. k \in Nodes /\ Complete(k) /\ Sound(k) /\ node_table[k].parent \in 0 .. k - 1
    BY DEF ParentsBefore
  <2>4. PICK p : p = node_table[k].parent
    OBVIOUS
  <2>5. p = 0 \/ (p \in Nodes /\ Complete(p))
    <3>1. p = 0 \/ p \in Nodes
      BY <2>3, <2>4, ParentNumber
    <3> QED BY <2>3, <2>4, <3>1 DEF Sound
  <2>6. Path(p)' = Path(p)
    <3>1. p \notin B
      BY <2>1, <2>2, <2>3, <2>4, SMT
    <3> QED BY <1>1, <2>5, <3>1
  <2>7. Path(k) = Append(Path(p), node_table[k].name)
    BY <2>3, <2>4, DirectoryPath
  <2>8. Path(k)' = Append(Path(p)', node_table[k].name)
    <3>1. PathsOf(node_table')[k] = PathBy(PathsOf(node_table'), node_table', k)
      BY <1>0, <2>3, NumberFacts, PathsUnfold
    <3>2. k # 0 /\ node_table'[k] = node_table[k]
      BY <2>3, NumberFacts
    <3>3. PathsOf(node_table')[k] = Append(PathsOf(node_table')[p], node_table[k].name)
      BY <2>3, <2>4, <3>1, <3>2 DEF PathBy
    <3> QED BY <3>3 DEF Path
  <2> QED BY <2>2, <2>6, <2>7, <2>8
<1> QED BY <1>1, <1>2

\* The directories there were stay, where they were.
LEMMA TreeGrows ==
  ASSUME Inv, Good, TypeOK',
         \A n \in Nodes : Complete(n) => Complete(n)' /\ node_table'[n] = node_table[n]
  PROVE  /\ Path(0)' = <<>> /\ Path(0) = <<>>
         /\ \A n \in Nodes : Complete(n) => Path(n)' = Path(n)
         /\ Dirs \subseteq Dirs'
         /\ \A n, p : Stands(n, p) => Stands(n, p)'
<1>1. /\ Path(0)' = <<>> /\ Path(0) = <<>>
      /\ \A n \in Nodes : Complete(n) => Path(n)' = Path(n)
  BY PathsStay DEF Inv, Good, Typed
<1>2. Dirs' = {Path(n)' : n \in {m \in Nodes : Complete(m)'}}
  BY DEF Dirs, Path
<1>3. Dirs \subseteq Dirs'
  BY <1>1, <1>2, DirsAre
<1>4. ASSUME NEW n, NEW p, Stands(n, p) PROVE Stands(n, p)'
  <2>1. CASE n = 0
    BY <1>1, <1>4, <2>1 DEF Stands
  <2>2. CASE n \in Nodes /\ Complete(n)
    BY <1>1, <1>4, <2>2 DEF Stands
  <2> QED BY <1>4, <2>1, <2>2 DEF Stands
<1> QED BY <1>1, <1>3, <1>4

\* What a thread knows stays true when its locals do not change.
LEMMA KnowsStill ==
  ASSUME Inv, Good, TypeOK',
         \A n \in Nodes : Complete(n) => Complete(n)' /\ node_table'[n] = node_table[n],
         \A n \in Nodes : Complete(n)' /\ ~Complete(n) => Path(n)' \notin Dirs,
         NEW c, NEW b, Knows(c, b)
  PROVE  Knows(c, b)'
<1>1. /\ \A n \in Nodes : Complete(n) => Path(n)' = Path(n)
      /\ Dirs \subseteq Dirs'
      /\ \A n, p : Stands(n, p) => Stands(n, p)'
  BY TreeGrows
<1>2. ASSUME NEW p, PassedBy(c, b, p) PROVE PassedBy(c, b, p)'
  BY <1>1, <1>2 DEF PassedBy, Knows
<1>3. ASSUME NEW done, Follows(c, b, done) PROVE Follows(c, b, done)'
  BY <1>1, <1>2, <1>3 DEF Follows
<1>4. Searches(c, b) => Searches(c, b)'
  BY <1>3 DEF Searches
<1>5. Compares(c, b)'
  BY <1>1 DEF Compares, Knows
<1> QED BY <1>1, <1>4, <1>5 DEF Knows

\* What is known of given locals is known to the thread that has them.
LEMMA OtherKnows ==
  ASSUME NEW u, NEW c, NEW b, Knows(c, b)', call'[u] = c, before'[u] = b
  PROVE  Knows(call[u], before[u])'
<1>1. Searches(c, b)' => Searches(call[u], before[u])'
  BY DEF Searches, Missed, Follows, PassedBy, Target
<1>2. Compares(c, b)' => Compares(call[u], before[u])'
  BY DEF Compares
<1> QED BY <1>1, <1>2 DEF Knows

\* A step that does not finish a directory.
LEMMA SameTree ==
  ASSUME Inv, Good, TypeOK',
         \A n \in Nodes : Complete(n) => Complete(n)' /\ node_table'[n] = node_table[n],
         \A n \in Nodes : Complete(n)' => Complete(n)
  PROVE  /\ Dirs' = Dirs
         /\ \A n, p : Stands(n, p) <=> Stands(n, p)'
         /\ \A n \in Nodes : Complete(n) => Path(n)' = Path(n)
         /\ \A n \in Nodes : Complete(n)' => Sound(n)'
         /\ OneEach' /\ Closed(Dirs')
<1>1. /\ Path(0)' = <<>> /\ Path(0) = <<>>
      /\ \A n \in Nodes : Complete(n) => Path(n)' = Path(n)
  BY TreeGrows
<1>2. Dirs' = {Path(n)' : n \in {m \in Nodes : Complete(m)'}}
  BY DEF Dirs, Path
<1>3. Dirs' = Dirs
  BY <1>1, <1>2, DirsAre
<1>4. ASSUME NEW n, NEW p PROVE Stands(n, p) <=> Stands(n, p)'
  <2>1. CASE n = 0
    BY <1>1, <2>1 DEF Stands
  <2>2. CASE n # 0 /\ n \in Nodes
    BY <1>1, <2>2 DEF Stands
  <2>3. CASE n # 0 /\ n \notin Nodes
    BY <2>3 DEF Stands
  <2> QED BY <2>1, <2>2, <2>3
<1>5. ASSUME NEW n \in Nodes, Complete(n)' PROVE Sound(n)'
  <2>1. Sound(n) /\ Complete(n) /\ node_table'[n] = node_table[n]
    BY <1>5 DEF Good
  <2>2. PICK p : p = node_table[n].parent
    OBVIOUS
  <2>3. p = 0 \/ p \in Nodes
    BY <2>1, <2>2, ParentNumber DEF Inv
  <2>4. p = 0 \/ Complete(p)'
    BY <2>1, <2>2, <2>3 DEF Sound
  <2> QED BY <2>1, <2>2, <2>4 DEF Sound
<1>6. OneEach'
  BY <1>1 DEF Good, OneEach
<1> QED BY <1>1, <1>3, <1>4, <1>5, <1>6 DEF Good
-------------------------------------------------------------------------------
(* Steps that store nothing *)

\* A step that stores nothing in the table, of a thread that has nothing to store yet.
LEMMA ReaderKeeps ==
  ASSUME Inv, Good, TypeOK', NEW t \in Threads, NEW d, NEW b,
         node_table' = node_table, ~Chose(t),
         call' = [call EXCEPT ![t] = d], before' = [before EXCEPT ![t] = b],
         d.pc \notin {"name", "parent"},
         d.pc = "state" => /\ ~Taken(d.node)
                           /\ \A u \in Threads : Chose(u) => call[u].node # d.node,
         Knows(d, b)
  PROVE  Good' /\ Dirs' = Dirs
<1>1. /\ call \in [Threads -> Records] /\ before \in [Threads -> SUBSET Seq(Names)]
      /\ b \in SUBSET Seq(Names)
  BY DEF Inv, Typed, TypeOK, Records, Good, Knows, Closed
<1>2. /\ call'[t] = d /\ before'[t] = b
      /\ \A u \in Threads \ {t} : call'[u] = call[u] /\ before'[u] = before[u]
      /\ before' \in [Threads -> SUBSET Seq(Names)]
  BY <1>1
<1>3. /\ \A u \in Threads \ {t} : (Chose(u)' <=> Chose(u)) /\ (Writing(u)' <=> Writing(u))
      /\ Chose(t)' <=> d.pc = "state"
      /\ ~Writing(t) /\ ~Writing(t)'
  BY <1>2 DEF Chose, Writing
<1>4. ASSUME NEW n \in Nodes PROVE Complete(n)' <=> Complete(n)
  BY <1>2, <1>3 DEF Complete
<1>5. /\ Dirs' = Dirs /\ \A n \in Nodes : Complete(n)' => Sound(n)'
      /\ OneEach' /\ Closed(Dirs')
  BY <1>4, SameTree
<1>6. Apart'
  <2> SUFFICES ASSUME NEW v \in Threads, NEW u \in Threads, Chose(v)', Chose(u)',
                      call'[v].node = call'[u].node, v # u
               PROVE  FALSE
    BY DEF Apart
  <2>1. CASE v = t
    BY <1>2, <1>3, <2>1
  <2>2. CASE u = t
    BY <1>2, <1>3, <2>2
  <2>3. CASE v # t /\ u # t
    BY <1>2, <1>3, <2>3 DEF Good, Apart
  <2> QED BY <2>1, <2>2, <2>3
<1>7. ASSUME NEW u \in Threads PROVE Knows(call[u], before[u])'
  <2>1. PICK c, e : c = call'[u] /\ e = before'[u]
    OBVIOUS
  <2>2. Knows(c, e)
    BY <1>2, <2>1 DEF Good
  <2>3. Knows(c, e)'
    BY <1>4, <2>2, KnowsStill
  <2> QED BY <2>1, <2>3, OtherKnows
<1>8. ASSUME NEW u \in Threads PROVE Writes(u)'
  <2>1. CASE u = t
    BY <1>2, <2>1 DEF Writes, Taken
  <2>2. CASE u # t
    BY <1>2, <2>2 DEF Good, Writes, Taken
  <2> QED BY <2>1, <2>2
<1> QED BY <1>2, <1>5, <1>6, <1>7, <1>8 DEF Good

\* What the steps of a call do not touch.
LEMMA NothingAsked ==
  ASSUME TypeOK, NEW t \in Threads, NEW d, call' = [call EXCEPT ![t] = d],
         call[t].pc # "idle", d.pc # "idle", d.path = call[t].path,
         before' = before, answers' = answers, Dirs' = Dirs
  PROVE  UNCHANGED Tree!tree
<1>1. call \in [Threads -> Records]
  BY DEF TypeOK, Records
<1>2. \A u \in Threads : AbstractCall(u)' = AbstractCall(u)
  BY <1>1 DEF AbstractCall
<1> DEFINE a == [u \in Threads |-> AbstractCall(u)]
<1>3. a' = a
  BY <1>2
<1> QED BY <1>3 DEF Tree!tree

\* A call returns.
LEMMA Answered ==
  ASSUME TypeOK, NEW t \in Threads, NEW a, call[t].pc # "idle",
         before \in [Threads -> SUBSET Seq(Names)], Returns(t, a)
  PROVE  Tree!Answer(t, a)
<1>1. call \in [Threads -> Records]
  BY DEF TypeOK, Records
<1>2. call'[t] = Idle /\ \A u \in Threads \ {t} : call'[u] = call[u] /\ before'[u] = before[u]
  BY <1>1 DEF Returns, Goes
<1>3. AbstractCall(t)' = Tree!NoCall
  BY <1>2 DEF AbstractCall, Tree!NoCall, Idle
<1>4. \A u \in Threads \ {t} : AbstractCall(u)' = AbstractCall(u)
  BY <1>2 DEF AbstractCall
<1> DEFINE c == [u \in Threads |-> AbstractCall(u)]
<1>5. c' = [c EXCEPT ![t] = Tree!NoCall]
  BY <1>3, <1>4
<1>6. c[t].on
  BY DEF AbstractCall
<1> QED BY <1>5, <1>6 DEF Tree!Answer, Returns

\* What the invariant says of the locals of a thread.
LEMMA Locals ==
  ASSUME Inv, Good, NEW t \in Threads
  PROVE  /\ call \in [Threads -> Records] /\ call[t] \in Records
         /\ call[t].pc \in Places
         /\ call[t].path \in Seq(Names) /\ call[t].rest \in Seq(Names)
         /\ call[t].nodo \in Numbers /\ call[t].father \in Numbers \ {-1}
         /\ call[t].node \in Nodes /\ call[t].i \in 0 .. NODE_TABLE_SIZE + 1
         /\ Target(call[t]) \in Seq(Names)
         /\ before \in [Threads -> SUBSET Seq(Names)]
         /\ before' = before => before' = [before EXCEPT ![t] = before[t]]
         /\ Knows(call[t], before[t])
<1>1. call \in [Threads -> Records] /\ call[t] \in Records
  BY DEF Inv, Typed, TypeOK, Records
<1>2. /\ call[t].pc \in Places /\ call[t].path \in Seq(Names) /\ call[t].rest \in Seq(Names)
      /\ call[t].nodo \in Numbers /\ call[t].father \in Numbers \ {-1}
      /\ call[t].node \in Nodes /\ call[t].i \in 0 .. NODE_TABLE_SIZE + 1
  BY <1>1 DEF Records
<1>3. Target(call[t]) \in Seq(Names)
  BY <1>2, PathParts DEF Target
<1> QED BY <1>1, <1>2, <1>3 DEF Good

\* The root stands at 0, and nowhere else; a directory stands at one node.
LEMMA StandsOnce ==
  ASSUME Inv, Good, NEW m, NEW n, NEW p, Stands(m, p), Stands(n, p)
  PROVE  m = n
<1>1. Path(0) = <<>>
  BY RootPath DEF Inv, Typed
<1>2. \A k \in Nodes : Complete(k) => Path(k) # <<>>
  BY DirsAre DEF Good, Closed
<1> QED BY <1>1, <1>2 DEF Stands, Good, OneEach

\* What stands somewhere is the root or a directory.
LEMMA StandsIn ==
  ASSUME Inv, Good, NEW n, NEW p, Stands(n, p)
  PROVE  p = <<>> \/ p \in Dirs
<1>1. Path(0) = <<>>
  BY RootPath DEF Inv, Typed
<1> QED BY <1>1, DirsAre DEF Stands

\* A directory stands under its parent.
LEMMA StandsUnder ==
  ASSUME Inv, Good, NEW n \in Nodes, Complete(n)
  PROVE  /\ node_table[n].name \in Names /\ node_table[n].parent # -1
         /\ Path(node_table[n].parent) \in Seq(Names)
         /\ Path(n) = Append(Path(node_table[n].parent), node_table[n].name)
         /\ Stands(node_table[n].parent, Path(node_table[n].parent))
<1>1. Sound(n) /\ node_table[n].parent \in 0 .. n - 1
  BY DEF Inv, Good, ParentsBefore
<1>2. node_table[n].parent = 0 \/ (node_table[n].parent \in Nodes /\ Complete(node_table[n].parent))
  BY <1>1, ParentNumber DEF Sound, Inv
<1>3. Stands(node_table[n].parent, Path(node_table[n].parent))
  BY <1>2 DEF Stands
<1>4. Path(node_table[n].parent) \in Seq(Names)
  BY <1>3, StandsIn, EmptySeq DEF Good, Closed
<1>5. node_table[n].parent # -1
  BY <1>2, NumberFacts
<1> QED BY <1>1, <1>3, <1>4, <1>5, DirectoryPath DEF Inv, Typed, Sound

\* A lookup begins at the root.
LEMMA Begins ==
  ASSUME Inv, Good, NEW c, NEW b, b \subseteq Dirs, Closed(b),
         c.pc \in {"exists", "father"}, c.rest = Target(c), Target(c) \in Seq(Names),
         c.nodo = 0, c.i = 0, c.reads = 0
  PROVE  Knows(c, b)
<1>1. Stands(0, <<>>)
  BY RootPath DEF Inv, Typed, Stands
<1>2. Target(c) = <<>> \o c.rest /\ <<>> \in Seq(Names)
  BY ConcatEmptySeq, EmptySeq
<1>3. \A p : PassedBy(c, b, p)
  BY NumberFacts DEF PassedBy, Nodes
<1>4. Follows(c, b, <<>>)
  BY <1>1, <1>2, <1>3 DEF Follows
<1>5. Searches(c, b)
  BY <1>2, <1>4, NumberFacts DEF Searches
<1> QED BY <1>5 DEF Knows, Compares

\* The comparisons with a node change nothing of what the lookup has come to.
LEMMA SearchesAlike ==
  ASSUME NEW c, NEW d, NEW b, d.pc = c.pc, d.path = c.path, d.rest = c.rest, d.nodo = c.nodo,
         d.i = c.i, Searches(c, b)
  PROVE  Searches(d, b)
BY DEF Searches, Missed, Follows, PassedBy, Target

\* A call begins its lookup at the root, with the directories there are.
LEMMA CreateStep ==
  ASSUME Inv, Good, TypeOK', NEW t \in Threads, NEW path \in Paths, Create(t, path)
  PROVE  Good' /\ Tree!Next
<1>0. PICK s : s = {n \in Nodes : Complete(n)}
  OBVIOUS
<1> DEFINE d == [Idle EXCEPT !.pc = "exists", !.path = path, !.rest = path, !.stood = s]
<1>1. d.pc = "exists" /\ d.path = path /\ d.rest = path /\ d.nodo = 0 /\ d.i = 0 /\ d.reads = 0
  BY DEF Idle
<1>2. path \in Seq(Names)
  BY SacAssumption
<1>3. /\ call' = [call EXCEPT ![t] = d] /\ before' = [before EXCEPT ![t] = Dirs]
      /\ call[t].pc = "idle" /\ node_table' = node_table
  BY <1>0 DEF Create, Goes
<1> HIDE DEF d
<1>4. Knows(d, Dirs)
  BY <1>1, <1>2, Begins DEF Target, Good
<1>5. Good' /\ Dirs' = Dirs
  BY <1>1, <1>3, <1>4, ReaderKeeps DEF Chose
<1>6. Tree!Ask(t, path)
  <2>1. /\ call'[t] = d /\ before'[t] = Dirs
        /\ \A u \in Threads \ {t} : call'[u] = call[u] /\ before'[u] = before[u]
    BY <1>3, Locals
  <2>2. AbstractCall(t)' = [path |-> path, before |-> Dirs, on |-> TRUE]
    BY <1>1, <2>1 DEF AbstractCall
  <2>3. \A u \in Threads \ {t} : AbstractCall(u)' = AbstractCall(u)
    BY <2>1 DEF AbstractCall
  <2> DEFINE a == [u \in Threads |-> AbstractCall(u)]
  <2>4. a' = [a EXCEPT ![t] = [path |-> path, before |-> Dirs, on |-> TRUE]]
    BY <2>2, <2>3
  <2>5. ~a[t].on
    BY <1>3 DEF AbstractCall
  <2> QED BY <1>5, <2>4, <2>5 DEF Tree!Ask, Create
<1> QED BY <1>5, <1>6 DEF Tree!Next

\* What the comparison of the parents leaves to be known.
LEMMA ComparesParentStep ==
  ASSUME Inv, Good, TypeOK', NEW t \in Threads, ComparesParent(t)
  PROVE  Good' /\ UNCHANGED Tree!tree
<1>0. PICK c, b, n : c = call[t] /\ b = before[t] /\ n = c.i + 1
  OBVIOUS
<1>1. /\ c \in Records /\ c.pc \in {"exists", "father"} /\ c.i < NODE_TABLE_SIZE
      /\ node_table' = node_table /\ c.i \in 0 .. NODE_TABLE_SIZE + 1
      /\ before' = [before EXCEPT ![t] = b] /\ before' = before /\ answers' = answers
      /\ Knows(c, b) /\ ~Chose(t)
  BY <1>0, Locals DEF ComparesParent, Compared, Looking, Chose
<1>2. PICK same \in BOOLEAN, whole \in BOOLEAN :
        /\ same <=> node_table[n].parent = c.nodo
        /\ whole <=> Complete(n)
        /\ call' = [call EXCEPT ![t] = [c EXCEPT !.reads = 1, !.same = same, !.whole = whole]]
  <2>1. PICK same \in BOOLEAN : same = (node_table[n].parent = c.nodo)
    OBVIOUS
  <2>2. PICK whole \in BOOLEAN : whole = Complete(n)
    BY DEF Complete
  <2>3. call' = [call EXCEPT ![t] = [c EXCEPT !.reads = 1, !.same = same, !.whole = whole]]
    BY <1>0, <2>1, <2>2, Zenon DEF ComparesParent, Goes
  <2>4. (same <=> node_table[n].parent = c.nodo) /\ (whole <=> Complete(n))
    BY <2>1, <2>2, Zenon
  <2> QED BY <2>3, <2>4
<1> DEFINE d == [c EXCEPT !.reads = 1, !.same = same, !.whole = whole]
<1>3. /\ d.pc = c.pc /\ d.path = c.path /\ d.rest = c.rest /\ d.nodo = c.nodo /\ d.i = c.i
      /\ d.reads = 1 /\ d.same = same /\ d.whole = whole
  BY <1>1 DEF Records
<1>4. n \in Nodes
  BY <1>0, <1>1, NumberFacts DEF Nodes
<1> HIDE DEF d
<1>5. Compares(d, b)
  BY <1>0, <1>2, <1>3, <1>4 DEF Compares
<1>6. Knows(d, b)
  BY <1>1, <1>3, <1>5, SearchesAlike DEF Knows
<1>8. call' = [call EXCEPT ![t] = d]
  BY <1>2 DEF d
<1>7. Good' /\ Dirs' = Dirs
  BY <1>1, <1>3, <1>6, <1>8, ReaderKeeps
<1> QED BY <1>0, <1>1, <1>3, <1>7, <1>8, NothingAsked DEF Inv, Typed

\* What the comparison of the names leaves to be known.
LEMMA ComparesNameStep ==
  ASSUME Inv, Good, TypeOK', NEW t \in Threads, ComparesName(t)
  PROVE  Good' /\ UNCHANGED Tree!tree
<1>0. PICK c, b, n : c = call[t] /\ b = before[t] /\ n = c.i + 1
  OBVIOUS
<1>1. /\ c \in Records /\ c.pc \in {"exists", "father"} /\ c.reads = 1
      /\ node_table' = node_table
      /\ before' = [before EXCEPT ![t] = b] /\ before' = before /\ answers' = answers
      /\ Knows(c, b) /\ ~Chose(t)
  BY <1>0, Locals DEF ComparesName, Compared, Looking, Chose
<1>2. PICK same : /\ same = (c.same /\ SameName(Head(c.rest), node_table[n]))
                  /\ call' = [call EXCEPT ![t] = [c EXCEPT !.reads = 2, !.same = same]]
  <2>1. PICK same : same = (c.same /\ SameName(Head(c.rest), node_table[n]))
    OBVIOUS
  <2> QED BY <1>0, <2>1, Zenon DEF ComparesName, Goes
<1> DEFINE d == [c EXCEPT !.reads = 2, !.same = same]
<1>3. /\ d.pc = c.pc /\ d.path = c.path /\ d.rest = c.rest /\ d.nodo = c.nodo /\ d.i = c.i
      /\ d.reads = 2 /\ d.same = same /\ d.whole = c.whole
  BY <1>1 DEF Records
<1>4. c.same \in BOOLEAN /\ c.whole \in BOOLEAN
  BY <1>1 DEF Records
<1> HIDE DEF d
<1>5. Compares(d, b)
  <2>1. /\ n \in Nodes
        /\ c.whole => Complete(n) /\ (c.same <=> node_table[n].parent = c.nodo)
        /\ ~c.whole /\ Complete(n) => Path(n) \notin b
    BY <1>0, <1>1 DEF Knows, Compares
  <2> QED BY <1>0, <1>2, <1>3, <1>4, <2>1 DEF Compares
<1>6. Knows(d, b)
  BY <1>1, <1>3, <1>5, SearchesAlike DEF Knows
<1>8. call' = [call EXCEPT ![t] = d]
  BY <1>2 DEF d
<1>7. Good' /\ Dirs' = Dirs
  BY <1>1, <1>3, <1>6, <1>8, ReaderKeeps
<1> QED BY <1>0, <1>1, <1>3, <1>7, <1>8, NothingAsked DEF Inv, Typed

\* A name that is found is the next directory of the path.
LEMMA FoundStep ==
  ASSUME Inv, Good, TypeOK', NEW t \in Threads, Found(t), strayed' = {}
  PROVE  Good' /\ UNCHANGED Tree!tree
<1>0. PICK c, b : c = call[t] /\ b = before[t]
  OBVIOUS
<1> DEFINE k == c.i + 1
           h == Head(c.rest)
           e == Turn(c, 0)
           d == [e EXCEPT !.nodo = c.i + 1, !.rest = Tail(c.rest)]
<1>1. /\ c \in Records /\ c.pc \in {"exists", "father"} /\ c.rest # <<>> /\ c.rest \in Seq(Names)
      /\ c.i < NODE_TABLE_SIZE /\ c.reads = 2 /\ c.same /\ node_table[k].state # 0
      /\ call' = [call EXCEPT ![t] = d] /\ node_table' = node_table
      /\ before' = [before EXCEPT ![t] = b] /\ before' = before /\ answers' = answers
      /\ Knows(c, b) /\ ~Chose(t) /\ c.i \in 0 .. NODE_TABLE_SIZE + 1
  BY <1>0, Locals DEF Found, Compared, Looking, Goes, Chose
<1>2. /\ d.pc = c.pc /\ d.path = c.path /\ d.nodo = k /\ d.rest = Tail(c.rest) /\ d.i = 0
      /\ d.reads = 0
  <2>1. /\ e \in Records /\ e.pc = c.pc /\ e.path = c.path /\ e.i = 0 /\ e.reads = 0
    <3>1. 0 \in 0 .. NODE_TABLE_SIZE + 1
      BY NumberFacts
    <3> QED BY <1>1, <3>1, TurnFields
  <2> HIDE DEF e
  <2> QED BY <2>1 DEF Records
<1>3. k \in Nodes
  BY <1>1, NumberFacts DEF Nodes
<1>4. Complete(k) /\ node_table[k].parent = c.nodo /\ SameName(h, node_table[k])
  <2>1. c.whole
    BY <1>0 DEF Found, Strays
  <2>2. Compares(c, b)
    BY <1>1 DEF Knows
  <2> QED BY <1>1, <2>1, <2>2 DEF Compares
<1>13. node_table[k].name = h
  <2>1. Sound(k)
    BY <1>3, <1>4 DEF Good
  <2> QED BY <1>4, <2>1, SacAssumption DEF SameName, Sound
<1> HIDE DEF d, k
<1>5. /\ Stands(c.nodo, Path(c.nodo)) /\ Path(c.nodo) \in Seq(Names) /\ c.nodo # -1
      /\ Path(k) = Append(Path(c.nodo), h)
  BY <1>3, <1>4, <1>13, StandsUnder
<1>6. PICK done \in Seq(Names) : Follows(c, b, done)
  BY <1>1, <1>5 DEF Knows, Searches
<1> HIDE DEF h
<1>7. Path(c.nodo) = done
  BY <1>6 DEF Follows, Stands
<1>8. /\ h \in Names /\ Tail(c.rest) \in Seq(Names)
      /\ done \o c.rest = Append(done, h) \o Tail(c.rest)
  BY <1>1, OneNameOn DEF h
<1>9. Follows(d, b, Append(done, h))
  <2>1. Target(d) = Append(done, h) \o d.rest
    BY <1>2, <1>6, <1>8 DEF Follows, Target
  <2>2. Stands(d.nodo, Append(done, h))
    BY <1>2, <1>3, <1>4, <1>5, <1>7 DEF Stands
  <2>3. \A p : PassedBy(d, b, p)
    BY <1>2, NumberFacts DEF PassedBy, Nodes
  <2> QED BY <2>1, <2>2, <2>3 DEF Follows
<1>10. Knows(d, b)
  <2>1. Append(done, h) \in Seq(Names) /\ d.nodo # -1
    BY <1>2, <1>3, <1>8, AppendParts, NumberFacts
  <2>2. Searches(d, b)
    BY <1>9, <2>1 DEF Searches
  <2> QED BY <1>1, <1>2, <2>2 DEF Knows, Compares
<1>11. Good' /\ Dirs' = Dirs
  BY <1>1, <1>2, <1>10, ReaderKeeps
<1>12. UNCHANGED Tree!tree
  BY <1>0, <1>1, <1>2, <1>11, NothingAsked DEF Inv, Typed
<1> QED BY <1>11, <1>12

\* A node that does not match is not the next directory of the path.
LEMMA PassesStep ==
  ASSUME Inv, Good, TypeOK', NEW t \in Threads, Passes(t)
  PROVE  Good' /\ UNCHANGED Tree!tree
<1>0. PICK c, b : c = call[t] /\ b = before[t]
  OBVIOUS
<1> DEFINE k == c.i + 1
           h == Head(c.rest)
           d == Turn(c, c.i + 1)
<1>1. /\ c \in Records /\ c.pc \in {"exists", "father"} /\ c.rest # <<>> /\ c.rest \in Seq(Names)
      /\ c.i < NODE_TABLE_SIZE /\ c.reads = 2 /\ (~c.same \/ node_table[k].state = 0)
      /\ call' = [call EXCEPT ![t] = d] /\ node_table' = node_table
      /\ before' = [before EXCEPT ![t] = b] /\ before' = before /\ answers' = answers
      /\ Knows(c, b) /\ ~Chose(t) /\ c.i \in 0 .. NODE_TABLE_SIZE + 1
  BY <1>0, Locals DEF Passes, Compared, Looking, Goes, Chose
<1>2. /\ d.pc = c.pc /\ d.path = c.path /\ d.nodo = c.nodo /\ d.rest = c.rest /\ d.i = k
      /\ d.reads = 0
  <2>1. k \in 0 .. NODE_TABLE_SIZE + 1
    BY <1>1, NumberFacts
  <2> QED BY <1>1, <2>1, TurnFields
<1>10. Complete(k) => \/ Path(k) \notin b
                     \/ ~(node_table[k].parent = c.nodo /\ SameName(h, node_table[k]))
  <2>1. Compares(c, b) /\ (Complete(k) => c.same = FALSE)
    <3>1. c.same \in BOOLEAN
      BY <1>1 DEF Records
    <3> QED BY <1>1, <3>1 DEF Knows, Complete
  <2>2. c.whole \in BOOLEAN
    BY <1>1 DEF Records
  <2> QED BY <1>1, <2>1, <2>2 DEF Compares
<1>3. k \in Nodes /\ \A m \in Nodes : m <= k => m <= c.i \/ m = k
  BY <1>1, NumberFacts DEF Nodes
<1>4. h \in Names
  BY <1>1, OneNameOn
<1> HIDE DEF d, k, h
<1>5. Target(d) = Target(c)
  BY <1>2 DEF Target
<1>6. Searches(d, b)
  <2>1. CASE c.nodo = -1
    BY <1>1, <1>2, <1>5, <2>1 DEF Knows, Searches, Missed
  <2>2. CASE c.nodo # -1
    <3>1. PICK done \in Seq(Names) : Follows(c, b, done)
      BY <1>1, <2>2 DEF Knows, Searches
    <3>2. Complete(k) /\ Path(k) = Append(done, h) => Path(k) \notin b
      <4> SUFFICES ASSUME Complete(k), Path(k) = Append(done, h), Path(k) \in b PROVE FALSE
        OBVIOUS
      <4>0. PICK p, n, q : p = node_table[k].parent /\ n = node_table[k].name /\ q = Path(p)
        OBVIOUS
      <4>1. /\ n \in Names /\ Path(p) \in Seq(Names) /\ Path(k) = Append(Path(p), n)
            /\ Stands(p, Path(p)) /\ Sound(k)
        BY <1>3, <4>0, StandsUnder DEF Good
      <4>2. q = done /\ n = h
        <5>1. Append(q, n) = Append(done, h)
          BY <4>0, <4>1
        <5>2. /\ Parent(Append(q, n)) = q /\ NameOf(Append(q, n)) = n
              /\ Parent(Append(done, h)) = done /\ NameOf(Append(done, h)) = h
          BY <1>4, <3>1, <4>0, <4>1, AppendParts
        <5> QED BY <5>1, <5>2
      <4>3. p = c.nodo
        BY <3>1, <4>0, <4>1, <4>2, StandsOnce DEF Follows
      <4> QED BY <1>10, <4>0, <4>1, <4>2, <4>3 DEF SameName, Sound
    <3>3. PassedBy(d, b, Append(done, h))
      BY <1>1, <1>2, <1>3, <3>1, <3>2 DEF PassedBy, Follows, h
    <3>4. Follows(d, b, done)
      BY <1>2, <1>5, <3>1, <3>3 DEF Follows, h
    <3> QED BY <1>2, <2>2, <3>4 DEF Searches
  <2> QED BY <2>1, <2>2
<1>7. Knows(d, b)
  BY <1>1, <1>2, <1>6 DEF Knows, Compares
<1>8. Good' /\ Dirs' = Dirs
  BY <1>1, <1>2, <1>7, ReaderKeeps
<1>9. UNCHANGED Tree!tree
  BY <1>0, <1>1, <1>2, <1>8, NothingAsked DEF Inv, Typed
<1> QED BY <1>8, <1>9

\* When no node matches, the path was not there when the thread was called.
LEMMA MissesStep ==
  ASSUME Inv, Good, TypeOK', NEW t \in Threads, Misses(t)
  PROVE  Good' /\ UNCHANGED Tree!tree
<1>0. PICK c, b : c = call[t] /\ b = before[t]
  OBVIOUS
<1> DEFINE h == Head(c.rest)
           d == [c EXCEPT !.nodo = -1, !.rest = Tail(c.rest), !.i = 0]
<1>1. /\ c \in Records /\ c.pc \in {"exists", "father"} /\ c.rest # <<>> /\ c.rest \in Seq(Names)
      /\ c.i = NODE_TABLE_SIZE
      /\ call' = [call EXCEPT ![t] = d] /\ node_table' = node_table
      /\ before' = [before EXCEPT ![t] = b] /\ before' = before /\ answers' = answers
      /\ Knows(c, b) /\ ~Chose(t)
  BY <1>0, Locals DEF Misses, Looking, Goes, Chose
<1>8. c.reads = 0
  BY <1>0, <1>1, NumberFacts DEF Inv, Local, Reset
<1>2. /\ d.pc = c.pc /\ d.path = c.path /\ d.nodo = -1 /\ d.reads = 0
  BY <1>1, <1>8 DEF Records
<1>3. Target(d) = Target(c)
  BY <1>2 DEF Target
<1> HIDE DEF d
<1>4. Missed(c, b)
  <2>1. CASE c.nodo = -1
    BY <1>1, <2>1 DEF Knows, Searches
  <2>2. CASE c.nodo # -1
    <3>1. PICK done \in Seq(Names) : Follows(c, b, done)
      BY <1>1, <2>2 DEF Knows, Searches
    <3> DEFINE p == Append(done, h)
    <3>2. /\ h \in Names /\ Tail(c.rest) \in Seq(Names)
          /\ done \o c.rest = p \o Tail(c.rest)
      BY <1>1, OneNameOn
    <3>3. p \in Seq(Names) /\ p # <<>>
      BY <3>2, AppendParts
    <3>4. p \notin b
      <4>1. PassedBy(c, b, p)
        BY <1>1, <3>1 DEF Follows
      <4>2. \A m \in Nodes : m <= c.i
        BY <1>1, NumberFacts DEF Nodes
      <4> HIDE DEF p
      <4> QED BY <1>1, <4>1, <4>2, DirsAre DEF PassedBy, Knows
    <3>5. Target(c) = p \o Tail(c.rest)
      BY <3>1, <3>2 DEF Follows
    <3> HIDE DEF p
    <3>6. p \o Tail(c.rest) # <<>>
      BY <3>2, <3>3, ConcatEqualIffEmpty
    <3> QED BY <1>1, <3>2, <3>3, <3>4, <3>5, <3>6 DEF Missed, Knows, Closed
  <2> QED BY <2>1, <2>2
<1>5. Knows(d, b)
  BY <1>1, <1>2, <1>3, <1>4 DEF Knows, Searches, Missed, Compares
<1>6. Good' /\ Dirs' = Dirs
  BY <1>1, <1>2, <1>5, ReaderKeeps
<1>7. UNCHANGED Tree!tree
  BY <1>0, <1>1, <1>2, <1>6, NothingAsked DEF Inv, Typed
<1> QED BY <1>6, <1>7

\* What an answer leaves to be known.
LEMMA ReturnStep ==
  ASSUME Inv, Good, TypeOK', NEW t \in Threads, NEW a, call[t].pc # "idle", Returns(t, a),
         node_table' = node_table, ~Chose(t)
  PROVE  Good' /\ Dirs' = Dirs /\ Tree!Answer(t, a)
<1>1. call' = [call EXCEPT ![t] = Idle] /\ before' = [before EXCEPT ![t] = {}]
  BY DEF Returns, Goes
<1>2. Idle.pc = "idle" /\ Idle.reads = 0
  BY DEF Idle
<1>3. Knows(Idle, {})
  BY <1>2 DEF Knows, Closed, Compares
<1>4. Good' /\ Dirs' = Dirs
  BY <1>1, <1>2, <1>3, ReaderKeeps
<1> QED BY <1>4, Answered, Locals DEF Inv, Typed

\* EEXIST: the lookup has followed the whole path.
LEMMA ExistsStep ==
  ASSUME Inv, Good, TypeOK', NEW t \in Threads, Exists(t)
  PROVE  Good' /\ Tree!Next
<1>0. PICK c, b : c = call[t] /\ b = before[t]
  OBVIOUS
<1>1. /\ c.pc = "exists" /\ c.rest = <<>> /\ c.nodo # -1 /\ Knows(c, b) /\ c.path \in Seq(Names)
      /\ node_table' = node_table /\ Returns(t, "EEXIST")
  BY <1>0, Locals DEF Exists, Looked
<1>2. Good' /\ Dirs' = Dirs /\ Tree!Answer(t, "EEXIST")
  BY <1>0, <1>1, ReturnStep DEF Chose
<1>3. PICK done \in Seq(Names) : Follows(c, b, done)
  BY <1>1 DEF Knows, Searches
<1>4. c.path = done
  BY <1>1, <1>3, ConcatEmptySeq DEF Follows, Target
<1>5. c.path = <<>> \/ c.path \in Dirs
  BY <1>3, <1>4, StandsIn DEF Follows
<1>6. AbstractCall(t).path = c.path
  BY <1>0, <1>1 DEF AbstractCall
<1>7. Tree!Exists(t)
  BY <1>2, <1>5, <1>6 DEF Tree!Exists, Tree!There
<1> QED BY <1>2, <1>7 DEF Tree!Next

\* ENOENT: the parent was not there when the thread was called.
LEMMA NoParentStep ==
  ASSUME Inv, Good, TypeOK', NEW t \in Threads, NoParent(t)
  PROVE  Good' /\ Tree!Next
<1>0. PICK c, b : c = call[t] /\ b = before[t]
  OBVIOUS
<1>1. /\ c.pc = "father" /\ c.nodo = -1 /\ Knows(c, b) /\ c.path # <<>>
      /\ node_table' = node_table /\ Returns(t, "ENOENT")
  BY <1>0, Locals DEF NoParent, Looked, Inv, Typed, Named
<1>2. Good' /\ Dirs' = Dirs /\ Tree!Answer(t, "ENOENT")
  BY <1>0, <1>1, ReturnStep DEF Chose
<1>3. Parent(c.path) # <<>> /\ Parent(c.path) \notin b
  BY <1>1 DEF Knows, Searches, Missed, Target
<1>4. AbstractCall(t).path = c.path /\ AbstractCall(t).before = b
  BY <1>0, <1>1 DEF AbstractCall
<1>5. Tree!NoParent(t)
  BY <1>1, <1>2, <1>3, <1>4 DEF Tree!NoParent, Tree!There, Tree!Parent, Parent
<1> QED BY <1>2, <1>5 DEF Tree!Next

\* A path that was not there: its parent is looked for, from the root.
LEMMA LooksForParentStep ==
  ASSUME Inv, Good, TypeOK', NEW t \in Threads, LooksForParent(t)
  PROVE  Good' /\ UNCHANGED Tree!tree
<1>0. PICK c, b : c = call[t] /\ b = before[t]
  OBVIOUS
<1> DEFINE d == [c EXCEPT !.pc = "father", !.rest = Parent(c.path), !.nodo = 0]
<1>1. /\ c \in Records /\ c.pc = "exists" /\ c.rest = <<>> /\ c.path \in Seq(Names)
      /\ call' = [call EXCEPT ![t] = d] /\ node_table' = node_table
      /\ before' = [before EXCEPT ![t] = b] /\ before' = before /\ answers' = answers
      /\ Knows(c, b) /\ ~Chose(t)
  BY <1>0, Locals DEF LooksForParent, Looked, Goes, Chose
<1>2. c.i = 0 /\ c.reads = 0
  BY <1>0, <1>1 DEF Inv, Local, Reset, Looks
<1>3. /\ d.pc = "father" /\ d.path = c.path /\ d.nodo = 0 /\ d.rest = Parent(c.path) /\ d.i = 0
      /\ d.reads = 0
  BY <1>1, <1>2 DEF Records
<1> HIDE DEF d
<1>4. Target(d) = Parent(c.path) /\ Parent(c.path) \in Seq(Names)
  BY <1>1, <1>3, PathParts DEF Target
<1>5. Knows(d, b)
  BY <1>1, <1>3, <1>4, Begins DEF Knows
<1>6. Good' /\ Dirs' = Dirs
  BY <1>1, <1>3, <1>5, ReaderKeeps
<1>7. UNCHANGED Tree!tree
  BY <1>0, <1>1, <1>3, <1>6, NothingAsked DEF Inv, Typed
<1> QED BY <1>6, <1>7

\* The parent that was found is the path's.
LEMMA LooksForFreeStep ==
  ASSUME Inv, Good, TypeOK', NEW t \in Threads, LooksForFree(t)
  PROVE  Good' /\ UNCHANGED Tree!tree
<1>0. PICK c, b : c = call[t] /\ b = before[t]
  OBVIOUS
<1> DEFINE d == [c EXCEPT !.pc = "free", !.father = c.nodo]
<1>1. /\ c \in Records /\ c.pc = "father" /\ c.rest = <<>> /\ c.nodo # -1 /\ c.path \in Seq(Names)
      /\ call' = [call EXCEPT ![t] = d] /\ node_table' = node_table
      /\ before' = [before EXCEPT ![t] = b] /\ before' = before /\ answers' = answers
      /\ Knows(c, b) /\ ~Chose(t)
  BY <1>0, Locals DEF LooksForFree, Looked, Goes, Chose
<1>8. c.reads = 0
  BY <1>0, <1>1 DEF Inv, Local, Reset
<1>2. d.pc = "free" /\ d.path = c.path /\ d.father = c.nodo /\ d.reads = 0
  BY <1>1, <1>8 DEF Records
<1> HIDE DEF d
<1>3. PICK done \in Seq(Names) : Follows(c, b, done)
  BY <1>1 DEF Knows, Searches
<1>4. Parent(c.path) = done
  BY <1>1, <1>3, ConcatEmptySeq DEF Follows, Target
<1>5. Knows(d, b)
  BY <1>1, <1>2, <1>3, <1>4 DEF Knows, Follows, Compares
<1>6. Good' /\ Dirs' = Dirs
  BY <1>1, <1>2, <1>5, ReaderKeeps
<1>7. UNCHANGED Tree!tree
  BY <1>0, <1>1, <1>2, <1>6, NothingAsked DEF Inv, Typed
<1> QED BY <1>6, <1>7

\* A node is taken that nobody writes, or it counts as shared.
LEMMA TakesStep ==
  ASSUME Inv, Good, TypeOK', NEW t \in Threads, Takes(t), strayed' = {}
  PROVE  Good' /\ UNCHANGED Tree!tree
<1>0. PICK c, b : c = call[t] /\ b = before[t]
  OBVIOUS
<1> DEFINE k == NodeAt(c.i)
           d == [c EXCEPT !.pc = "state", !.node = k]
<1>1. /\ c \in Records /\ c.pc = "free" /\ node_table[k].state = 0
      /\ call' = [call EXCEPT ![t] = d] /\ node_table' = node_table
      /\ before' = [before EXCEPT ![t] = b] /\ before' = before /\ answers' = answers
      /\ Knows(c, b) /\ ~Chose(t)
  BY <1>0, Locals DEF Takes, Goes, Chose
<1>7. c.reads = 0
  BY <1>0, <1>1 DEF Inv, Local, Reset, Looks
<1>2. d.pc = "state" /\ d.path = c.path /\ d.father = c.father /\ d.node = k /\ d.reads = 0
  BY <1>1, <1>7 DEF Records
<1>3. \A u \in Threads : Chose(u) => call[u].node # k
  BY <1>0 DEF Takes, Strays
<1> HIDE DEF d, k
<1>4. Knows(d, b)
  BY <1>1, <1>2 DEF Knows, Compares
<1>5. Good' /\ Dirs' = Dirs
  BY <1>1, <1>2, <1>3, <1>4, ReaderKeeps DEF Taken
<1>6. UNCHANGED Tree!tree
  BY <1>0, <1>1, <1>2, <1>5, NothingAsked DEF Inv, Typed
<1> QED BY <1>5, <1>6

\* The search for a free node changes nothing that is known.
LEMMA SkipsTakenStep ==
  ASSUME Inv, Good, TypeOK', NEW t \in Threads, SkipsTaken(t)
  PROVE  Good' /\ UNCHANGED Tree!tree
<1>0. PICK c, b : c = call[t] /\ b = before[t]
  OBVIOUS
<1> DEFINE d == [c EXCEPT !.i = c.i + 1]
<1>1. /\ c \in Records /\ c.pc = "free"
      /\ call' = [call EXCEPT ![t] = d] /\ node_table' = node_table
      /\ before' = [before EXCEPT ![t] = b] /\ before' = before /\ answers' = answers
      /\ Knows(c, b) /\ ~Chose(t)
  BY <1>0, Locals DEF SkipsTaken, Goes, Chose
<1>6. c.reads = 0
  BY <1>0, <1>1 DEF Inv, Local, Reset, Looks
<1>2. d.pc = "free" /\ d.path = c.path /\ d.father = c.father /\ d.reads = 0
  BY <1>1, <1>6 DEF Records
<1> HIDE DEF d
<1>3. Knows(d, b)
  BY <1>1, <1>2 DEF Knows, Compares
<1>4. Good' /\ Dirs' = Dirs
  BY <1>1, <1>2, <1>3, ReaderKeeps
<1>5. UNCHANGED Tree!tree
  BY <1>0, <1>1, <1>2, <1>4, NothingAsked DEF Inv, Typed
<1> QED BY <1>4, <1>5

\* A store in a node that is not finished by it.
LEMMA WriterKeeps ==
  ASSUME Inv, Good, TypeOK', NEW t \in Threads, NEW c, NEW b, NEW k, NEW e,
         NEW pc \in {"name", "parent"},
         c = call[t], b = before[t], k = c.node, Chose(t), e.state # 0,
         pc = "parent" => /\ e.name = NameOf(c.path)
                          /\ NameOf(c.path) \in Full => c.father % BYTE = 0,
         node_table' = [node_table EXCEPT ![k] = e],
         call' = [call EXCEPT ![t] = [c EXCEPT !.pc = pc]],
         before' = before, answers' = answers
  PROVE  Good' /\ UNCHANGED Tree!tree
<1> DEFINE d == [c EXCEPT !.pc = pc]
<1>1. /\ call \in [Threads -> Records] /\ c \in Records /\ k \in Nodes /\ Knows(c, b)
      /\ node_table \in [Nodes -> Entries] /\ c.pc \in {"state", "name", "parent"}
      /\ before' \in [Threads -> SUBSET Seq(Names)] /\ c.reads = 0 /\ Writes(t)
  BY Locals DEF Inv, Typed, TypeOK, Entries, Chose, Local, Reset, Looks, Good
<1>2. d.pc = pc /\ d.path = c.path /\ d.father = c.father /\ d.node = k /\ d.reads = 0
  BY <1>1 DEF Records
<1> HIDE DEF d
<1>3. /\ call'[t] = d /\ \A u \in Threads \ {t} : call'[u] = call[u]
      /\ node_table'[k] = e /\ \A n \in Nodes \ {k} : node_table'[n] = node_table[n]
  BY <1>1 DEF d
<1>4. \A u \in Threads : (Chose(u)' <=> Chose(u)) /\ call'[u].node = call[u].node
  BY <1>2, <1>3 DEF Chose
<1>5. ~Complete(k) /\ ~Complete(k)'
  BY <1>1, <1>2, <1>3 DEF Complete, Writing, Writes, Taken
<1>6. \A n \in Nodes \ {k} : Complete(n)' <=> Complete(n)
  BY <1>2, <1>3 DEF Complete, Writing
<1>7. /\ \A n \in Nodes : Complete(n) => Complete(n)' /\ node_table'[n] = node_table[n]
      /\ \A n \in Nodes : Complete(n)' => Complete(n)
  BY <1>3, <1>5, <1>6
<1>8. /\ Dirs' = Dirs /\ \A n \in Nodes : Complete(n)' => Sound(n)'
      /\ OneEach' /\ Closed(Dirs')
  BY <1>7, SameTree
<1>9. Apart'
  BY <1>4 DEF Good, Apart
<1>10. ASSUME NEW u \in Threads PROVE Knows(call[u], before[u])'
  <2>1. PICK g, a : g = call'[u] /\ a = before'[u]
    OBVIOUS
  <2>2. Knows(g, a)
    <3>1. CASE u = t
      BY <1>1, <1>2, <1>3, <2>1, <3>1 DEF Knows, Compares
    <3>2. CASE u # t
      BY <1>3, <2>1, <3>2 DEF Good
    <3> QED BY <3>1, <3>2
  <2>3. Knows(g, a)'
    BY <1>7, <2>2, KnowsStill
  <2> QED BY <2>1, <2>3, OtherKnows
<1>11. ASSUME NEW u \in Threads PROVE Writes(u)'
  <2>1. CASE u = t
    BY <1>2, <1>3, <2>1 DEF Writes, Taken
  <2>2. CASE u # t
    <3>1. call[u] \in Records /\ call'[u] = call[u]
      BY <1>1, <1>3, <2>2
    <3>2. call[u].node \in Nodes
      BY <3>1 DEF Records
    <3>3. CASE Chose(u)
      <4>1. call[u].node # k
        BY <2>2, <3>3 DEF Good, Apart, Chose
      <4> QED BY <1>3, <3>1, <3>2, <4>1 DEF Good, Writes, Taken
    <3>4. CASE ~Chose(u)
      BY <3>1, <3>4 DEF Writes, Chose
    <3> QED BY <3>3, <3>4
  <2> QED BY <2>1, <2>2
<1>12. Good'
  BY <1>1, <1>8, <1>9, <1>10, <1>11 DEF Good
<1>13. UNCHANGED Tree!tree
  BY <1>1, <1>2, <1>8, NothingAsked DEF Inv, Typed, d
<1> QED BY <1>12, <1>13

\* The store of the state finishes nothing.
LEMMA StoreStateStep ==
  ASSUME Inv, Good, TypeOK', NEW t \in Threads, StoreState(t)
  PROVE  Good' /\ UNCHANGED Tree!tree
<1>0. PICK c, b, k : c = call[t] /\ b = before[t] /\ k = c.node
  OBVIOUS
<1> DEFINE e == [node_table[k] EXCEPT !.state = DIRECTORY_T]
<1>1. /\ node_table' = [node_table EXCEPT ![k] = e]
      /\ call' = [call EXCEPT ![t] = [c EXCEPT !.pc = "name"]]
      /\ before' = before /\ answers' = answers /\ Chose(t)
  BY <1>0 DEF StoreState, Stores, Goes, Chose
<1>2. node_table[k] \in Entries
  BY <1>0, Locals DEF Inv, Typed, TypeOK, Entries
<1>3. e.state # 0
  BY <1>2 DEF Entries, DIRECTORY_T
<1> HIDE DEF e
<1> QED BY <1>0, <1>1, <1>3, WriterKeeps

\* A name that fits is stored whole.
LEMMA StoreNameStep ==
  ASSUME Inv, Good, TypeOK', NEW t \in Threads, StoreName(t), strayed' = {}
  PROVE  Good' /\ UNCHANGED Tree!tree
<1>0. PICK c, b, k, n : c = call[t] /\ b = before[t] /\ k = c.node /\ n = NameOf(c.path)
  OBVIOUS
<1>1. n \notin Longer /\ (n \in Full => c.father % BYTE = 0)
  BY <1>0 DEF StoreName, Strays
<1>3. /\ node_table[k] \in Entries /\ c.pc = "name" /\ Chose(t)
      /\ call[t].path \in Seq(Names) /\ call[t].path # <<>>
  BY <1>0, Locals DEF Inv, Typed, TypeOK, Entries, StoreName, Chose, Named
<1>7. PICK bytes \in Int : Stores(k, [node_table[k] EXCEPT !.name = n, !.parent = bytes])
  BY <1>0, <1>1, <1>3, NameStored
<1> DEFINE e == [node_table[k] EXCEPT !.name = n, !.parent = bytes]
<1>2. /\ node_table' = [node_table EXCEPT ![k] = e]
      /\ call' = [call EXCEPT ![t] = [c EXCEPT !.pc = "parent"]]
      /\ before' = before /\ answers' = answers
  BY <1>0, <1>7 DEF StoreName, Stores, Goes
<1>4. e.state = node_table[k].state /\ e.name = n
  BY <1>3 DEF Entries
<1>5. Taken(k)
  BY <1>0, <1>3 DEF Good, Writes
<1> HIDE DEF e
<1>6. /\ e.state # 0 /\ e.name = NameOf(c.path)
      /\ NameOf(c.path) \in Full => c.father % BYTE = 0
  BY <1>0, <1>1, <1>4, <1>5 DEF Taken
<1> QED BY <1>0, <1>2, <1>3, <1>6, WriterKeeps

\* The store of the parent finishes the directory.
LEMMA StoreParentStep ==
  ASSUME Inv, Good, TypeOK', NEW t \in Threads, StoreParent(t), strayed' = {}
  PROVE  Good' /\ Tree!Next
<1>0. PICK c, b, k, p, f : /\ c = call[t] /\ b = before[t] /\ k = c.node /\ p = c.path
                           /\ f = c.father
  OBVIOUS
<1> DEFINE e == [node_table[k] EXCEPT !.parent = f]
<1>1. p \notin Dirs
  BY <1>0 DEF StoreParent, Strays
<1>2. /\ c.pc = "parent" /\ Chose(t) /\ node_table' = [node_table EXCEPT ![k] = e]
      /\ call' = [call EXCEPT ![t] = Idle] /\ before' = [before EXCEPT ![t] = {}]
      /\ Returns(t, "0")
  BY <1>0 DEF StoreParent, Stores, Returns, Goes, Chose
<1>3. /\ call \in [Threads -> Records] /\ node_table \in [Nodes -> Entries]
      /\ before \in [Threads -> SUBSET Seq(Names)]
      /\ k \in Nodes /\ p \in Seq(Names) /\ f \in Numbers \ {-1} /\ Knows(c, b)
  BY <1>0, Locals DEF Inv, Typed, TypeOK, Entries
<1>4. p # <<>> /\ f < k
  BY <1>0, <1>2 DEF Inv, Typed, Named, Local, Past
<1>5. e.state # 0 /\ e.name = NameOf(p) /\ e.parent = f /\ (NameOf(p) \in Full => f % BYTE = 0)
  <2>1. node_table[k] \in Entries
    BY <1>3
  <2>2. e.state = node_table[k].state /\ e.name = node_table[k].name /\ e.parent = f
    BY <2>1 DEF Entries
  <2> HIDE DEF e
  <2> QED BY <1>0, <1>2, <2>2 DEF Good, Writes, Taken
<1>6. /\ Parent(p) \in Seq(Names) /\ NameOf(p) \in Names /\ p = Append(Parent(p), NameOf(p))
  BY <1>3, <1>4, PathSplits
<1> HIDE DEF e
<1>7. /\ call'[t] = Idle /\ Idle.pc = "idle" /\ Idle.reads = 0 /\ before'[t] = {}
      /\ \A u \in Threads \ {t} : call'[u] = call[u] /\ before'[u] = before[u]
      /\ node_table'[k] = e /\ \A n \in Nodes \ {k} : node_table'[n] = node_table[n]
      /\ before' \in [Threads -> SUBSET Seq(Names)]
  BY <1>2, <1>3 DEF Idle
<1>8. /\ ~Chose(t)' /\ ~Writing(t)' /\ Writing(t)
      /\ \A u \in Threads \ {t} : (Chose(u)' <=> Chose(u)) /\ (Writing(u)' <=> Writing(u))
  BY <1>0, <1>2, <1>7 DEF Chose, Writing
<1>9. Complete(k)' /\ ~Complete(k)
  <2>1. \A u \in Threads \ {t} : Writing(u) => call[u].node # k
    BY <1>0, <1>2 DEF Good, Apart, Chose, Writing
  <2> QED BY <1>0, <1>2, <1>5, <1>7, <1>8, <2>1 DEF Complete
<1>10. \A n \in Nodes \ {k} : Complete(n)' <=> Complete(n)
  BY <1>0, <1>7, <1>8 DEF Complete
<1>11. \A n \in Nodes : Complete(n) => Complete(n)' /\ node_table'[n] = node_table[n]
  BY <1>7, <1>9, <1>10
<1>12. /\ \A n \in Nodes : Complete(n) => Path(n)' = Path(n)
       /\ \A n, q : Stands(n, q) => Stands(n, q)'
  BY <1>11, TreeGrows
<1>13. Stands(f, Parent(p)) /\ Stands(f, Parent(p))'
  BY <1>0, <1>2, <1>3, <1>12 DEF Knows
<1>14. Path(k)' = p
  <2>1. PathsOf(node_table')[k] = PathBy(PathsOf(node_table'), node_table', k)
    <3>1. node_table' \in [Nodes -> Entries]
      BY DEF TypeOK, Entries
    <3> QED BY <1>3, <3>1, NumberFacts, PathsUnfold
  <2>2. k # 0 /\ node_table'[k].parent = f /\ node_table'[k].name = NameOf(p)
    BY <1>3, <1>5, <1>7, NumberFacts
  <2>3. PathsOf(node_table')[k] = Append(PathsOf(node_table')[f], NameOf(p))
    <3>1. f \in 0 .. k - 1
      BY <1>3, <1>4, SacAssumption DEF Numbers, Nodes
    <3> QED BY <2>1, <2>2, <3>1 DEF PathBy
  <2> QED BY <1>6, <1>13, <2>3 DEF Path, Stands
<1>15. Dirs' = Dirs \cup {p}
  <2>1. Dirs' = {Path(n)' : n \in {m \in Nodes : Complete(m)'}}
    BY DEF Dirs, Path
  <2>2. Dirs = {Path(n) : n \in {m \in Nodes : Complete(m)}}
    BY DirsAre
  <2>3. ASSUME NEW q \in Dirs' PROVE q \in Dirs \cup {p}
    BY <1>10, <1>12, <1>14, <2>1, <2>2
  <2>4. ASSUME NEW q \in Dirs \cup {p} PROVE q \in Dirs'
    BY <1>3, <1>9, <1>11, <1>12, <1>14, <2>1, <2>2
  <2> QED BY <2>3, <2>4
<1>16. Parent(p) = <<>> \/ Parent(p) \in Dirs
  BY <1>13, StandsIn
<1>17. Closed(Dirs')
  BY <1>3, <1>4, <1>15, <1>16, ClosedGrows DEF Good
<1>18. OneEach'
  <2> SUFFICES ASSUME NEW m \in Nodes, NEW n \in Nodes, Complete(m)', Complete(n)',
                      Path(m)' = Path(n)', m # n
               PROVE  FALSE
    BY DEF OneEach
  <2>1. \A j \in Nodes \ {k} : Complete(j)' => Complete(j) /\ Path(j)' = Path(j) /\ Path(j) \in Dirs
    BY <1>10, <1>12, DirsAre
  <2>2. CASE m = k
    BY <1>1, <1>14, <2>1, <2>2
  <2>3. CASE n = k
    BY <1>1, <1>14, <2>1, <2>3
  <2>4. CASE m # k /\ n # k
    BY <2>1, <2>4 DEF Good, OneEach
  <2> QED BY <2>2, <2>3, <2>4
<1>19. ASSUME NEW n \in Nodes, Complete(n)' PROVE Sound(n)'
  <2>1. CASE n = k
    BY <1>5, <1>6, <1>7, <1>13, <2>1 DEF Sound, Stands
  <2>2. CASE n # k
    <3>1. Sound(n) /\ node_table'[n] = node_table[n]
      BY <1>7, <1>10, <1>19, <2>2 DEF Good
    <3>2. PICK q : q = node_table[n].parent
      OBVIOUS
    <3>3. q = 0 \/ q \in Nodes
      BY <1>10, <1>19, <2>2, <3>2, ParentNumber DEF Inv
    <3>4. q = 0 \/ Complete(q)'
      BY <1>11, <3>1, <3>2, <3>3 DEF Sound
    <3> QED BY <3>1, <3>2, <3>4 DEF Sound
  <2> QED BY <2>1, <2>2
<1>20. Apart'
  BY <1>7, <1>8 DEF Good, Apart
<1>21. ASSUME NEW u \in Threads PROVE Knows(call[u], before[u])'
  <2>1. CASE u = t
    BY <1>7, <2>1 DEF Knows, Closed, Compares
  <2>2. CASE u # t
    <3>1. PICK g, a : g = call'[u] /\ a = before'[u]
      OBVIOUS
    <3>2. Knows(g, a)
      BY <1>7, <2>2, <3>1 DEF Good
    <3>3. \A n \in Nodes : Complete(n)' /\ ~Complete(n) => Path(n)' \notin Dirs
      BY <1>1, <1>10, <1>14
    <3>4. Knows(g, a)'
      BY <1>11, <3>2, <3>3, KnowsStill
    <3> QED BY <3>1, <3>4, OtherKnows
  <2> QED BY <2>1, <2>2
<1>22. ASSUME NEW u \in Threads PROVE Writes(u)'
  <2>1. CASE u = t
    BY <1>7, <2>1 DEF Writes
  <2>2. CASE u # t
    <3>1. call[u] \in Records /\ call'[u] = call[u]
      BY <1>3, <1>7, <2>2
    <3>2. call[u].node \in Nodes
      BY <3>1 DEF Records
    <3>3. CASE Chose(u)
      <4>1. call[u].node # k
        BY <1>0, <1>2, <2>2, <3>3 DEF Good, Apart, Chose
      <4> QED BY <1>7, <3>1, <3>2, <4>1 DEF Good, Writes, Taken
    <3>4. CASE ~Chose(u)
      BY <3>1, <3>4 DEF Writes, Chose
    <3> QED BY <3>3, <3>4
  <2> QED BY <2>1, <2>2
<1>23. Good'
  BY <1>7, <1>17, <1>18, <1>19, <1>20, <1>21, <1>22 DEF Good
<1>24. Tree!Made(t)
  <2>1. Tree!Answer(t, "0")
    BY <1>0, <1>2, <1>3, Answered DEF Inv, Typed
  <2>2. AbstractCall(t).path = p
    BY <1>0, <1>2 DEF AbstractCall
  <2> QED BY <1>1, <1>4, <1>15, <1>16, <2>1, <2>2 DEF Tree!Made, Tree!There, Tree!Parent, Parent
<1> QED BY <1>23, <1>24 DEF Tree!Next

\* The instance brings a Cardinality of its own.
LEMMA SameCardinality == \A S : Tree!Cardinality(S) = Cardinality(S)
BY Zenon DEF Cardinality, Tree!Cardinality

\* EDQUOT: each node is a directory, or is being written by one of the others.
LEMMA NoRoomStep ==
  ASSUME Inv, Good, TypeOK', NEW t \in Threads, NoRoom(t)
  PROVE  Good' /\ Tree!Next
<1>1. /\ call[t].pc = "free" /\ call[t].i = NODE_TABLE_SIZE + 1
      /\ node_table' = node_table /\ Returns(t, "EDQUOT")
  BY DEF NoRoom, PastTable
<1>2. Good' /\ Dirs' = Dirs /\ Tree!Answer(t, "EDQUOT")
  BY <1>1, ReturnStep DEF Chose
<1>3. \A n \in Nodes : Taken(n)
  <2>1. Past(t)
    BY DEF Inv, Local
  <2>2. \A n \in Nodes : n < NODE_TABLE_SIZE + 1
    BY NumberFacts DEF Nodes
  <2> QED BY <1>1, <2>1, <2>2 DEF Past
<1> DEFINE K == {n \in Nodes : Complete(n)}
           L == Nodes \ K
           W == {u \in Threads \ {t} : [v \in Threads |-> AbstractCall(v)][u].on}
<1>4. IsFiniteSet(Nodes) /\ Cardinality(Nodes) = NODE_TABLE_SIZE
  BY NumberFacts, FS_Interval DEF Nodes
<1>5. /\ IsFiniteSet(K) /\ IsFiniteSet(L) /\ Cardinality(K) \in Nat
      /\ Cardinality(L) = NODE_TABLE_SIZE - Cardinality(K)
  <2>1. IsFiniteSet(K) /\ IsFiniteSet(L)
    BY <1>4, FS_Subset
  <2>2. Cardinality(L) = Cardinality(Nodes) - Cardinality(Nodes \cap K) /\ Nodes \cap K = K
    BY <1>4, FS_Difference
  <2>3. Cardinality(K) \in Nat
    BY <2>1, FS_CardinalityType
  <2> HIDE DEF K, L
  <2> QED BY <1>4, <2>1, <2>2, <2>3
<1>6. Cardinality(Dirs) = Cardinality(K)
  <2> DEFINE h == [n \in K |-> Path(n)]
  <2>1. h \in [K -> Dirs] /\ \A p \in Dirs : \E n \in K : h[n] = p
    BY DirsAre
  <2>2. \A m, n \in K : h[m] = h[n] => m = n
    BY DEF Good, OneEach
  <2> HIDE DEF h, K
  <2>3. h \in Surjection(K, Dirs) /\ h \in Injection(K, Dirs)
    BY <2>1, <2>2 DEF Surjection, Injection, IsInjective
  <2> QED BY <1>5, <2>3, FS_Surjection
<1>7. Cardinality(L) <= Cardinality(W) /\ Cardinality(W) \in Nat
  <2>1. IsFiniteSet(W)
    <3>1. IsFiniteSet(Threads) /\ W \in SUBSET Threads
      BY SacAssumption
    <3> HIDE DEF W
    <3> QED BY <3>1, FS_Subset
  <2>2. Cardinality(W) \in Nat
    <3> HIDE DEF W
    <3> QED BY <2>1, FS_CardinalityType
  <2>3. ASSUME NEW n \in L PROVE \E u \in W : call[u].node = n
    <3>1. PICK u \in Threads : Writing(u) /\ call[u].node = n
      BY <1>3 DEF Complete, Taken
    <3>2. u # t /\ AbstractCall(u).on
      BY <1>1, <3>1 DEF Writing, AbstractCall
    <3> QED BY <3>1, <3>2
  <2> DEFINE g == [n \in L |-> CHOOSE u \in W : call[u].node = n]
  <2> HIDE DEF W, L
  <2>4. \A n \in L : g[n] \in W /\ call[g[n]].node = n
    BY <2>3
  <2>5. g \in [L -> W] /\ \A m, n \in L : g[m] = g[n] => m = n
    <3>1. g = [n \in L |-> g[n]]
      OBVIOUS
    <3> HIDE DEF g
    <3> QED BY <2>4, <3>1
  <2> HIDE DEF g
  <2>6. g \in Injection(L, W)
    BY <2>5 DEF Injection, IsInjective
  <2> QED BY <2>1, <2>2, <2>6, FS_Injection
<1>8. Cardinality(Dirs) + Cardinality(W) >= NODE_TABLE_SIZE
  <2> HIDE DEF K, L, W
  <2> QED BY <1>5, <1>6, <1>7, NumberFacts
<1>9. Tree!NoRoom(t)
  <2>1. Tree!Cardinality(Dirs) = Cardinality(Dirs) /\ Tree!Cardinality(W) = Cardinality(W)
    BY SameCardinality
  <2> QED BY <1>2, <1>8, <2>1, Zenon DEF Tree!NoRoom
<1> QED BY <1>2, <1>9 DEF Tree!Next
-------------------------------------------------------------------------------
\* At the start there is only the root.
LEMMA InitGood == Init => Good /\ Tree!Init
<1> SUFFICES ASSUME Init PROVE Good /\ Tree!Init
  OBVIOUS
<1>1. /\ \A t \in Threads : call[t] = Idle /\ before[t] = {}
      /\ Idle.pc = "idle" /\ Idle.reads = 0 /\ Free.state = 0 /\ \A n \in Nodes : node_table[n] = Free
      /\ before \in [Threads -> SUBSET Seq(Names)] /\ answers = [t \in Threads |-> "none"]
  BY DEF Init, Idle, Free
<1>2. \A n \in Nodes : ~Complete(n)
  BY <1>1 DEF Complete
<1>3. Dirs = {}
  BY <1>2, DirsAre
<1>4. Good
  BY <1>1, <1>2, <1>3 DEF Good, OneEach, Apart, Closed, Knows, Compares, Writes, Chose
<1>5. \A t \in Threads : AbstractCall(t) = Tree!NoCall
  BY <1>1 DEF AbstractCall, Tree!NoCall
<1>6. [t \in Threads |-> AbstractCall(t)] = [t \in Threads |-> Tree!NoCall]
  BY <1>5
<1> QED BY <1>1, <1>3, <1>4, <1>6 DEF Tree!Init

\* What has happened has happened.
LEMMA StrayedStays == Next /\ strayed' = {} => strayed = {}
BY DEF Next, Steps, Create, ComparesParent, ComparesName, Found, Passes, Misses, Exists, LooksForParent, NoParent,
   LooksForFree, Takes, SkipsTaken, NoRoom, StoreState, StoreName, StoreParent, Strays

\* Each step is one of the tree's, or none.
LEMMA TreeStep ==
  ASSUME Inv, Good, TypeOK', Next, strayed' = {}
  PROVE  Good' /\ (Tree!Next \/ UNCHANGED Tree!tree)
<1>1. PICK t \in Threads : (\E path \in Paths : Create(t, path)) \/ Steps(t)
  BY DEF Next
<1>2. CASE \E path \in Paths : Create(t, path)
  BY <1>2, CreateStep
<1>3. CASE ComparesParent(t) \/ ComparesName(t) \/ Found(t) \/ Passes(t) \/ Misses(t)
  BY <1>3, ComparesParentStep, ComparesNameStep, FoundStep, PassesStep, MissesStep
<1>4. CASE Exists(t) \/ LooksForParent(t) \/ NoParent(t) \/ LooksForFree(t)
  BY <1>4, ExistsStep, LooksForParentStep, NoParentStep, LooksForFreeStep
<1>5. CASE Takes(t) \/ SkipsTaken(t) \/ NoRoom(t)
  BY <1>5, TakesStep, SkipsTakenStep, NoRoomStep
<1>6. CASE StoreState(t) \/ StoreName(t) \/ StoreParent(t)
  BY <1>6, StoreStateStep, StoreNameStep, StoreParentStep
<1> QED BY <1>1, <1>2, <1>3, <1>4, <1>5, <1>6 DEF Steps

\* The invariant with the tree in it is inductive.
LEMMA TreeInvStep == TreeInv /\ [Next]_vars => TreeInv'
<1> SUFFICES ASSUME TreeInv, [Next]_vars PROVE TreeInv'
  OBVIOUS
<1>1. Inv /\ Inv' /\ TypeOK'
  BY InvStep DEF TreeInv, Inv, Typed
<1>2. CASE Next
  <2>1. strayed' = {} => Good'
    BY <1>1, <1>2, StrayedStays, TreeStep DEF TreeInv
  <2> QED BY <1>1, <2>1 DEF TreeInv
<1>3. CASE UNCHANGED vars
  <2>1. Dirs' = Dirs /\ \A n : Path(n)' = Path(n) /\ Complete(n)' = Complete(n)
    BY <1>3 DEF vars, Dirs, Path, Complete, Writing
  <2>3. ASSUME NEW c, NEW b PROVE Compares(c, b)' <=> Compares(c, b)
    BY <1>3, <2>1 DEF vars, Compares
  <2>4. ASSUME NEW t \in Threads, Compares(call[t], before[t]) PROVE Compares(call[t], before[t])'
    <3>1. PICK c, b : c = call[t] /\ b = before[t]
      OBVIOUS
    <3>2. Compares(c, b)' /\ call'[t] = c /\ before'[t] = b
      BY <1>3, <2>3, <2>4, <3>1 DEF vars
    <3> QED BY <3>2 DEF Compares
  <2>5. ASSUME Good PROVE Good'
    <3>1. (\A n \in Nodes : Complete(n)' => Sound(n)') /\ OneEach' /\ Apart' /\ Closed(Dirs')
      BY <1>3, <2>1, <2>5 DEF vars, Good, Sound, OneEach, Apart, Closed, Chose
    <3>2. before' \in [Threads -> SUBSET Seq(Names)]
      BY <1>3, <2>5 DEF vars, Good
    <3>3. ASSUME NEW t \in Threads PROVE Knows(call[t], before[t])' /\ Writes(t)'
      <4>1. Knows(call[t], before[t]) /\ Writes(t)
        BY <2>5 DEF Good
      <4>2. Compares(call[t], before[t])'
        BY <2>4, <4>1 DEF Knows
      <4>3. Writes(t)'
        BY <1>3, <4>1 DEF vars, Writes, Taken
      <4> QED
        BY <1>3, <2>1, <4>1, <4>2, <4>3 DEF vars, Knows, Closed, Searches, Missed, Follows,
           PassedBy, Target, Stands
    <3> QED BY <3>1, <3>2, <3>3 DEF Good
  <2>2. strayed' = {} => Good'
    BY <1>3, <2>5 DEF vars, TreeInv
  <2> QED BY <1>1, <2>2 DEF TreeInv
<1> QED BY <1>2, <1>3

\* Until one of the four things happens the table is a tree of directories that only grows,
\* and each call is answered as it would be by one.
THEOREM TreeImplemented == Spec => ImplementsTree
<1>1. Init => TreeInv /\ Tree!Init
  BY InitInv, InitGood DEF TreeInv
<1>2. TreeInv /\ TreeInv' /\ [Next]_vars => [strayed' = {} => Tree!Next]_(Tree!tree)
  <2> SUFFICES ASSUME TreeInv, TreeInv', [Next]_vars, strayed' = {}
               PROVE  Tree!Next \/ UNCHANGED Tree!tree
    OBVIOUS
  <2>1. CASE Next
    <3>1. Inv /\ Good /\ TypeOK'
      BY <2>1, StrayedStays DEF TreeInv, Inv, Typed
    <3> QED BY <2>1, <3>1, TreeStep
  <2>2. CASE UNCHANGED vars
    <3>1. Dirs' = Dirs
      BY <2>2 DEF vars, Dirs, Complete, Writing
    <3>2. [t \in Threads |-> AbstractCall(t)]' = [t \in Threads |-> AbstractCall(t)]
      BY <2>2 DEF vars, AbstractCall
    <3> QED BY <2>2, <3>1, <3>2 DEF vars, Tree!tree
  <2> QED BY <2>1, <2>2
<1> QED BY <1>1, <1>2, TreeInvStep, PTL DEF Spec, ImplementsTree
===============================================================================
