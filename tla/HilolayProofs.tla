---------------------------- MODULE HilolayProofs -----------------------------
(***************************************************************************)
(* Proofs about Hilolay for every table size, quantum and bound.  The      *)
(* linked list is related to the sequence of ULTs it stands for: lemmas on *)
(* lib_enqueue and lib_get_next_ult, then on th_yield, then one step per   *)
(* operation; at the end, that Hilolay implements RoundRobin: a list       *)
(* determines the sequence it stands for, so every step can be read as a   *)
(* step of the abstract scheduler on that sequence.                        *)
(***************************************************************************)
EXTENDS Hilolay, TLAPS, SequenceTheorems, FiniteSetTheorems, WellFoundedInduction

\* The main thread has a slot, and NULL is none.
LEMMA SlotFacts == Main \in Slots /\ NULL \notin Slots
BY ConfigAssumption DEF Main, Slots, NULL

\* What lib_enqueue writes, field by field (hilolay.c:126-143).
LEMMA EnqueueIsReadyList ==
  ASSUME NEW l \in ReadyLists, NEW u \in Slots
  PROVE  /\ Enqueue(l, u) \in ReadyLists
         /\ Enqueue(l, u).head = IF l.head = NULL THEN u ELSE l.head
         /\ Enqueue(l, u).tail = u
         /\ \A s \in Slots : Enqueue(l, u).next[s] =
              IF s = u THEN NULL ELSE IF s = l.tail THEN u ELSE l.next[s]
BY DEF Enqueue, ReadyLists

\* lib_enqueue of a ULT that is not listed puts it at the end of the chain, whatever the
\* tail of an empty list still points at.
LEMMA EnqueueChain ==
  ASSUME NEW q \in Seq(Slots), NEW l \in ReadyLists, NEW u \in Slots,
         IsChain(q, l), \A i \in 1 .. Len(q) : q[i] # u
  PROVE  IsChain(Append(q, u), Enqueue(l, u))
<1> DEFINE p == Append(q, u)
           m == Enqueue(l, u)
<1>1. /\ p \in Seq(Slots) /\ p # <<>> /\ Len(p) = Len(q) + 1 /\ Len(q) \in Nat
      /\ p[Len(p)] = u
      /\ \A i \in 1 .. Len(q) : p[i] = q[i] /\ q[i] \in Slots
  OBVIOUS
<1>0. \A s \in Slots : m.next[s] = IF s = u THEN NULL ELSE IF s = l.tail THEN u ELSE l.next[s]
  BY EnqueueIsReadyList
<1>2. m.head = p[1]
  <2>1. m.head = IF l.head = NULL THEN u ELSE l.head
    BY EnqueueIsReadyList
  <2>2. CASE q = <<>>
    BY <1>1, <2>1, <2>2 DEF IsChain
  <2>3. CASE q # <<>>
    <3>1. 1 \in 1 .. Len(q) /\ l.head = q[1]
      BY <1>1, <2>3 DEF IsChain
    <3> QED BY <1>1, <2>1, <3>1, SlotFacts
  <2> QED BY <2>2, <2>3
<1>3. ASSUME NEW i \in 1 .. Len(p) - 1 PROVE m.next[p[i]] = p[i + 1]
  <2>1. i \in 1 .. Len(q) /\ p[i] = q[i] /\ q[i] # u
    BY <1>1
  <2>2. CASE i = Len(q)
    BY <1>1, <2>1, <2>2, EnqueueIsReadyList DEF IsChain
  <2>3. CASE i # Len(q)
    <3>1. i \in 1 .. Len(q) - 1 /\ i + 1 \in 1 .. Len(q)
      BY <2>1, <2>3, <1>1
    <3>2. q[i] # l.tail
      BY <3>1, <2>1, <2>3, <1>1 DEF IsChain
    <3>3. m.next[q[i]] = l.next[q[i]]
      BY <3>2, <1>0, <1>1, <2>1
    <3>4. l.next[q[i]] = q[i + 1]
      BY <3>1 DEF IsChain
    <3> QED BY <3>1, <3>3, <3>4, <1>1, <2>1
  <2> QED BY <2>2, <2>3
<1>4. m.tail = p[Len(p)] /\ m.next[m.tail] = NULL
  BY <1>1, EnqueueIsReadyList
<1>5. \A i, j \in 1 .. Len(p) : p[i] = p[j] => i = j
  <2> SUFFICES ASSUME NEW i \in 1 .. Len(p), NEW j \in 1 .. Len(p), p[i] = p[j]
               PROVE  i = j
    OBVIOUS
  <2>1. CASE i \in 1 .. Len(q) /\ j \in 1 .. Len(q)
    BY <1>1, <2>1 DEF IsChain
  <2>2. CASE i = Len(p) \/ j = Len(p)
    BY <1>1, <2>2
  <2> QED BY <1>1, <2>1, <2>2
<1> HIDE DEF p, m
<1>6. IsChain(p, m)
  BY <1>1, <1>2, <1>3, <1>4, <1>5 DEF IsChain
<1> QED BY <1>6 DEF p, m

\* lib_get_next_ult returns the first of the chain and leaves the others (hilolay.c:61-72).
LEMMA DequeueChain ==
  ASSUME NEW q \in Seq(Slots), NEW l \in ReadyLists, IsChain(q, l), q # <<>>
  PROVE  /\ l.head = q[1] /\ l.head \in Slots
         /\ Dequeue(l) \in ReadyLists
         /\ IsChain(Tail(q), Dequeue(l))
<1> DEFINE t == Tail(q)
           m == Dequeue(l)
<1>1. /\ t \in Seq(Slots) /\ Len(q) \in Nat \ {0} /\ Len(t) = Len(q) - 1
      /\ \A i \in 1 .. Len(t) : t[i] = q[i + 1] /\ i + 1 \in 1 .. Len(q)
      /\ t # <<>> => t[Len(t)] = q[Len(q)]
      /\ (t = <<>>) <=> (Len(q) = 1)
      /\ q[1] \in Slots
  <2>1. t \in Seq(Slots) /\ Len(q) \in Nat \ {0} /\ Len(t) = Len(q) - 1
    BY EmptySeq, HeadTailProperties
  <2>2. \A i \in 1 .. Len(t) : t[i] = q[i + 1] /\ i + 1 \in 1 .. Len(q)
    BY <2>1, HeadTailProperties
  <2>3. (t = <<>>) <=> (Len(t) = 0)
    BY <2>1, EmptySeq
  <2> QED BY <2>1, <2>2, <2>3, ElementOfSeq
<1>2. l.head = q[1] /\ l.tail = q[Len(q)] /\ l.next[l.tail] = NULL
  BY DEF IsChain
<1>3. m \in ReadyLists /\ m.head = l.next[q[1]] /\ m.tail = l.tail /\ m.next = l.next
  BY <1>1, <1>2 DEF Dequeue, ReadyLists
<1>4. m.head = IF t = <<>> THEN NULL ELSE t[1]
  <2>1. CASE Len(q) = 1
    BY <1>1, <1>2, <1>3, <2>1
  <2>2. CASE Len(q) # 1
    <3>1. 1 \in 1 .. Len(q) - 1 /\ 1 \in 1 .. Len(t)
      BY <1>1, <2>2
    <3>2. l.next[q[1]] = q[2]
      BY <3>1 DEF IsChain
    <3> QED BY <1>1, <1>3, <2>2, <3>1, <3>2
  <2> QED BY <2>1, <2>2
<1>5. \A i \in 1 .. Len(t) - 1 : m.next[t[i]] = t[i + 1]
  <2> SUFFICES ASSUME NEW i \in 1 .. Len(t) - 1 PROVE m.next[t[i]] = t[i + 1]
    OBVIOUS
  <2>1. i + 1 \in 1 .. Len(q) - 1 /\ t[i] = q[i + 1] /\ t[i + 1] = q[(i + 1) + 1]
    BY <1>1
  <2> QED BY <1>3, <2>1 DEF IsChain
<1>6. \A i, j \in 1 .. Len(t) : t[i] = t[j] => i = j
  BY <1>1 DEF IsChain
<1> HIDE DEF t, m
<1>7. IsChain(t, m)
  BY <1>1, <1>2, <1>3, <1>4, <1>5, <1>6 DEF IsChain
<1> QED BY <1>1, <1>2, <1>3, <1>7 DEF t, m

-------------------------------------------------------------------------------
(* The list and the states *)

\* Queueing a ULT that is not READY appends it to the list and makes it READY.
LEMMA EnqueueListed ==
  ASSUME NEW l \in ReadyLists, NEW st \in [Slots -> States], NEW u \in Slots,
         NEW q \in Seq(Slots), Listed(q, l, st), st[u] # "READY"
  PROVE  Listed(Append(q, u), Enqueue(l, u), [st EXCEPT ![u] = "READY"])
<1>2. \A i \in 1 .. Len(q) : q[i] \in Slots /\ st[q[i]] = "READY"
  BY ElementOfSeq DEF Listed
<1>3. IsChain(Append(q, u), Enqueue(l, u))
  BY <1>2, EnqueueChain DEF Listed
<1>4. Append(q, u) \in Seq(Slots) /\ Len(Append(q, u)) = Len(q) + 1 /\ Len(q) \in Nat
      /\ \A i \in 1 .. Len(q) + 1 : Append(q, u)[i] = IF i = Len(q) + 1 THEN u ELSE q[i]
  OBVIOUS
<1>5. {Append(q, u)[i] : i \in 1 .. Len(Append(q, u))} =
        {s \in Slots : [st EXCEPT ![u] = "READY"][s] = "READY"}
  <2>1. {Append(q, u)[i] : i \in 1 .. Len(Append(q, u))} = {q[i] : i \in 1 .. Len(q)} \cup {u}
    BY <1>4
  <2>2. {s \in Slots : [st EXCEPT ![u] = "READY"][s] = "READY"} =
          {s \in Slots : st[s] = "READY"} \cup {u}
    OBVIOUS
  <2> QED BY <2>1, <2>2 DEF Listed
<1> QED BY <1>3, <1>4, <1>5 DEF Listed

\* Taking the head of a list that is not empty, and giving it another state.
LEMMA DequeueListed ==
  ASSUME NEW l \in ReadyLists, NEW st \in [Slots -> States],
         NEW q \in Seq(Slots), Listed(q, l, st), l.head # NULL,
         NEW v \in States \ {"READY"}
  PROVE  /\ q # <<>> /\ l.head = q[1] /\ l.head \in Slots /\ st[l.head] = "READY"
         /\ Dequeue(l) \in ReadyLists
         /\ Tail(q) \in Seq(Slots)
         /\ Listed(Tail(q), Dequeue(l), [st EXCEPT ![l.head] = v])
<1>1. Listed(q, l, st)
  OBVIOUS
<1>2. q # <<>>
  BY <1>1 DEF Listed, IsChain
<1>3. l.head = q[1] /\ l.head \in Slots /\ Dequeue(l) \in ReadyLists
      /\ IsChain(Tail(q), Dequeue(l))
  BY <1>1, <1>2, DequeueChain DEF Listed
<1>4. Tail(q) \in Seq(Slots) /\ Len(Tail(q)) = Len(q) - 1 /\ Len(q) \in Nat \ {0}
      /\ \A i \in 1 .. Len(Tail(q)) : Tail(q)[i] = q[i + 1]
  BY <1>2, HeadTailProperties, EmptySeq
<1>5. st[l.head] = "READY"
  BY <1>1, <1>3, <1>4 DEF Listed
<1>6. {Tail(q)[i] : i \in 1 .. Len(Tail(q))} = {q[i] : i \in 1 .. Len(q)} \ {q[1]}
  <2>1. \A i \in 2 .. Len(q) : i - 1 \in 1 .. Len(Tail(q)) /\ Tail(q)[i - 1] = q[i]
    BY <1>4
  <2>2. \A i \in 1 .. Len(q) : q[i] = q[1] => i = 1
    BY <1>1, <1>4 DEF Listed, IsChain
  <2> QED BY <1>4, <2>1, <2>2
<1>7. {s \in Slots : [st EXCEPT ![l.head] = v][s] = "READY"} =
        {s \in Slots : st[s] = "READY"} \ {q[1]}
  BY <1>3
<1> QED BY <1>1, <1>2, <1>3, <1>4, <1>5, <1>6, <1>7 DEF Listed

\* Some sequence of ULTs agrees with the list l and the states st.
Coupled(l, st) == \E q \in Seq(Slots) : Listed(q, l, st)

\* lib_enqueue keeps the list and the states in agreement.
LEMMA EnqueueCoupled ==
  ASSUME NEW l \in ReadyLists, NEW st \in [Slots -> States], NEW u \in Slots,
         Coupled(l, st), st[u] # "READY"
  PROVE  Coupled(Enqueue(l, u), [st EXCEPT ![u] = "READY"])
<1>1. PICK q \in Seq(Slots) : Listed(q, l, st)
  BY DEF Coupled
<1>2. Append(q, u) \in Seq(Slots)
  OBVIOUS
<1> QED BY <1>1, <1>2, EnqueueListed DEF Coupled

\* So does lib_get_next_ult, once the ULT it returns is no longer READY.
LEMMA DequeueCoupled ==
  ASSUME NEW l \in ReadyLists, NEW st \in [Slots -> States],
         Coupled(l, st), l.head # NULL, NEW v \in States \ {"READY"}
  PROVE  /\ l.head \in Slots /\ st[l.head] = "READY"
         /\ Dequeue(l) \in ReadyLists
         /\ Coupled(Dequeue(l), [st EXCEPT ![l.head] = v])
BY DequeueListed DEF Coupled
-------------------------------------------------------------------------------
(* th_yield *)

\* What a caller of th_yield hands over: the list q agrees with the states st, and
\* the caller, the only one that may be RUNNING, is not in it.
Ready(q, st, bs, et) ==
  /\ q \in ReadyLists /\ st \in [Slots -> States]
  /\ bs \in [Slots -> Nat] /\ et \in [Slots -> Int]
  /\ Coupled(q, st)
  /\ current_ult \in Slots /\ now \in Nat
  /\ st[current_ult] # "READY"
  /\ \A s \in Slots : st[s] = "RUNNING" => s = current_ult

\* What it leaves behind when it switched.
Switched(st) ==
  /\ rq' \in ReadyLists /\ state' \in [Slots -> States]
  /\ burst_start' \in [Slots -> Nat] /\ execution_time' \in [Slots -> Int]
  /\ Coupled(rq', state')
  /\ current_ult' \in Slots
  /\ \A s \in Slots : state'[s] = "RUNNING" <=> s = current_ult'
  /\ \A s \in Slots : state'[s] = "FREE" <=> st[s] = "FREE"

\* th_yield, when somebody is ready, leaves one ULT RUNNING and the list in order.
LEMMA YieldToSwitches ==
  ASSUME NEW q, NEW st, NEW bs, NEW et, Ready(q, st, bs, et), YieldTo(q, st, bs, et)
  PROVE  Switched(st)
<1> DEFINE sel == q.head
           ran == [st EXCEPT ![sel] = "RUNNING"]
<1>1. /\ sel \in Slots /\ st[sel] = "READY" /\ sel # current_ult
      /\ Dequeue(q) \in ReadyLists
      /\ Coupled(Dequeue(q), ran)
  BY DequeueCoupled DEF Ready, YieldTo, States
<1>2. /\ current_ult' = sel
      /\ state' = [st EXCEPT ![current_ult] = IF st[current_ult] # "FREE" THEN "READY" ELSE "FREE",
                             ![sel] = "RUNNING"]
      /\ execution_time' = Summarized(et, bs)
      /\ burst_start' = [bs EXCEPT ![sel] = now]
      /\ rq' = IF st[current_ult] # "FREE" THEN Enqueue(Dequeue(q), current_ult) ELSE Dequeue(q)
  BY DEF YieldTo
<1>3. ran \in [Slots -> States] /\ ran[current_ult] # "READY"
  BY <1>1 DEF Ready, States
<1>4. rq' \in ReadyLists /\ Coupled(rq', state')
  <2>1. CASE st[current_ult] = "FREE"
    <3>1. state' = ran
      BY <1>1, <1>2, <2>1 DEF Ready
    <3> QED BY <1>1, <1>2, <2>1, <3>1
  <2>2. CASE st[current_ult] # "FREE"
    <3>1. state' = [ran EXCEPT ![current_ult] = "READY"]
      BY <1>1, <1>2, <2>2 DEF Ready
    <3>2. /\ Enqueue(Dequeue(q), current_ult) \in ReadyLists
          /\ Coupled(Enqueue(Dequeue(q), current_ult), [ran EXCEPT ![current_ult] = "READY"])
      BY <1>1, <1>3, EnqueueCoupled, EnqueueIsReadyList DEF Ready
    <3> QED BY <1>2, <2>2, <3>1, <3>2
  <2> QED BY <2>1, <2>2
<1>5. /\ state' \in [Slots -> States]
      /\ \A s \in Slots : state'[s] = "RUNNING" <=> s = current_ult'
      /\ \A s \in Slots : state'[s] = "FREE" <=> st[s] = "FREE"
  BY <1>1, <1>2 DEF Ready, States
<1>6. burst_start' \in [Slots -> Nat] /\ execution_time' \in [Slots -> Int]
  BY <1>1, <1>2 DEF Ready, Summarized
<1> QED BY <1>1, <1>2, <1>4, <1>5, <1>6 DEF Switched

\* An empty list has no READY ULT.
LEMMA EmptyListed ==
  ASSUME NEW l, NEW st, Coupled(l, st), l.head = NULL
  PROVE  \A s \in Slots : st[s] # "READY"
<1>1. PICK q \in Seq(Slots) : Listed(q, l, st)
  BY DEF Coupled
<1>2. q = <<>>
  <2> SUFFICES ASSUME q # <<>> PROVE FALSE
    OBVIOUS
  <2>1. q[1] = NULL /\ 1 \in 1 .. Len(q)
    BY <1>1, EmptySeq DEF Listed, IsChain
  <2> QED BY <2>1, ElementOfSeq, SlotFacts
<1>3. {q[i] : i \in 1 .. Len(q)} = {}
  BY <1>2, EmptySeq
<1> QED BY <1>1, <1>3 DEF Listed

\* A list has room for every ULT once: its length is at most MAX_ULTS.
LEMMA CoupledIffOrders ==
  ASSUME NEW l, NEW st
  PROVE  (\E q \in Orders : Listed(q, l, st)) <=> Coupled(l, st)
<1>1. ASSUME NEW q \in Orders PROVE q \in Seq(Slots)
  BY <1>1 DEF Orders
<1>2. ASSUME NEW q \in Seq(Slots), IsChain(q, l) PROVE q \in Orders
  <2>1. Len(q) \in Nat /\ q \in [1 .. Len(q) -> Slots]
    BY LenProperties
  <2>2. q \in Injection(1 .. Len(q), Slots)
    BY <1>2, <2>1 DEF IsChain, Injection, IsInjective
  <2>3. IsFiniteSet(Slots) /\ Cardinality(Slots) = MAX_ULTS
    BY FS_Interval, ConfigAssumption DEF Slots
  <2>4. Cardinality(1 .. Len(q)) <= MAX_ULTS
    BY <2>2, <2>3, FS_Injection
  <2>5. Cardinality(1 .. Len(q)) = IF 1 > Len(q) THEN 0 ELSE Len(q) - 1 + 1
    BY <2>1, FS_Interval
  <2>6. Len(q) <= MAX_ULTS
    BY <2>1, <2>4, <2>5, ConfigAssumption
  <2> QED BY <2>1, <2>6, ConfigAssumption DEF Orders
<1> QED BY <1>1, <1>2 DEF Coupled, Listed
-------------------------------------------------------------------------------
(* The invariant *)

\* The same of a th_yield that may find the list empty, when it is not.
LEMMA YieldSwitches ==
  ASSUME NEW q, NEW st, NEW bs, NEW et, Ready(q, st, bs, et), ThYield(q, st, bs, et),
         q.head # NULL
  PROVE  Switched(st)
BY YieldToSwitches DEF ThYield, YieldAlone

\* th_yield keeps the list, the states and the processor in order, alone or not.
LEMMA YieldKeeps ==
  ASSUME Ready(rq, state, burst_start, execution_time),
         \A s \in Slots : state[s] = "RUNNING" <=> s = current_ult,
         ThYield(rq, state, burst_start, execution_time)
  PROVE  Switched(state)
<1>1. CASE rq.head = NULL
  BY <1>1 DEF ThYield, YieldAlone, YieldTo, Ready, Switched
<1>2. CASE rq.head # NULL
  BY <1>2, YieldSwitches
<1> QED BY <1>1, <1>2

\* In a process that is up every caller of th_yield keeps its part of the bargain.
LEMMA InvReady ==
  ASSUME Inv, status = "up"
  PROVE  /\ Ready(rq, state, burst_start, execution_time)
         /\ state[current_ult] = "RUNNING"
         /\ state[Main] # "FREE"
         /\ \A s \in Slots : state[s] = "RUNNING" <=> s = current_ult
<1>1. current_ult \in Slots /\ state[current_ult] = "RUNNING"
  BY DEF Inv, InitOnce, OneRunning
<1>2. Coupled(rq, state)
  BY CoupledIffOrders DEF Inv, QueueIntact
<1> QED BY <1>1, <1>2 DEF Inv, TypeOK, OneRunning, Ready

\* th_create hands over the list with its new ULT at the tail.
LEMMA CreateReady ==
  ASSUME Inv, status = "up", NEW s \in Slots, state[s] = "FREE"
  PROVE  /\ Ready(Enqueue(rq, s), [state EXCEPT ![s] = "READY"],
                  [burst_start EXCEPT ![s] = 0], [execution_time EXCEPT ![s] = 0])
         /\ Enqueue(rq, s).head # NULL
<1> DEFINE st == [state EXCEPT ![s] = "READY"]
<1>1. /\ Ready(rq, state, burst_start, execution_time) /\ state[s] # "READY"
      /\ state[current_ult] = "RUNNING" /\ s # current_ult
  BY InvReady
<1>2. Coupled(Enqueue(rq, s), st)
  BY <1>1, EnqueueCoupled DEF Ready
<1>3. Enqueue(rq, s) \in ReadyLists /\ Enqueue(rq, s).head # NULL
  <2>1. rq \in ReadyLists
    BY <1>1 DEF Ready
  <2>2. /\ Enqueue(rq, s) \in ReadyLists
        /\ Enqueue(rq, s).head = IF rq.head = NULL THEN s ELSE rq.head
    BY <2>1, EnqueueIsReadyList
  <2> QED BY <2>2, SlotFacts
<1>4. /\ st \in [Slots -> States] /\ st[current_ult] # "READY"
      /\ \A t \in Slots : st[t] = "RUNNING" => t = current_ult
  BY <1>1 DEF Ready, States
<1>5. /\ [burst_start EXCEPT ![s] = 0] \in [Slots -> Nat]
      /\ [execution_time EXCEPT ![s] = 0] \in [Slots -> Int]
  BY <1>1 DEF Ready
<1> QED BY <1>1, <1>2, <1>3, <1>4, <1>5 DEF Ready

\* th_return hands over the list with main in it, so it is not empty.
LEMMA LeaveReady ==
  ASSUME Inv, status = "up", current_ult # Main, NEW et \in [Slots -> Int]
  PROVE  /\ Ready(rq, [state EXCEPT ![current_ult] = "FREE"], burst_start, et)
         /\ rq.head # NULL /\ state[Main] = "READY"
<1> DEFINE freed == [state EXCEPT ![current_ult] = "FREE"]
<1>1. state[Main] = "READY" /\ current_ult \in Slots
  BY InvReady, SlotFacts DEF Ready, States
<1>2. rq.head # NULL
  BY <1>1, InvReady, EmptyListed, SlotFacts DEF Ready
<1>3. Coupled(rq, freed)
  <2>1. {s \in Slots : freed[s] = "READY"} = {s \in Slots : state[s] = "READY"}
    BY <1>1, InvReady DEF Ready
  <2> QED BY <2>1, InvReady DEF Ready, Coupled, Listed
<1> QED BY <1>1, <1>2, <1>3, InvReady DEF Ready, States

\* Before lib_init the invariant holds: nothing is alive and nothing is listed.
THEOREM InitInv == Init => Inv
<1> SUFFICES ASSUME Init PROVE Inv
  OBVIOUS
<1>1. TypeOK
  <2>1. rq \in ReadyLists
    BY DEF Init, ReadyLists
  <2>2. armed \in BOOLEAN /\ returning \in BOOLEAN
    BY DEF Init
  <2> QED BY <2>1, <2>2 DEF Init, TypeOK, States
<1>2. QueueIntact
  <2>1. Listed(<<>>, rq, state)
    BY EmptySeq DEF Init, Listed, IsChain
  <2> QED BY <2>1, EmptySeq, CoupledIffOrders DEF Coupled, QueueIntact
<1> QED BY <1>1, <1>2 DEF Init, Inv, OneRunning, InitOnce, NeverAborts, NobodyLeftBehind,
                          UniqueIds

\* What is left to show of a step of a running process that switched.
LEMMA SwitchedInv ==
  ASSUME Inv, status = "up", status' = "up",
         NEW st, Switched(st), st[Main] # "FREE",
         id' \in [Slots -> Nat], NEXT_ID' \in Nat \ {0},
         armed' \in BOOLEAN, returning' \in BOOLEAN, now' \in Nat, cpu' \in [Slots -> Nat],
         UniqueIds'
  PROVE  Inv'
<1>1. TypeOK'
  BY DEF TypeOK, Switched
<1>2. QueueIntact'
  BY CoupledIffOrders DEF Switched, QueueIntact
<1>3. OneRunning' /\ InitOnce' /\ NeverAborts' /\ NobodyLeftBehind'
  BY SlotFacts DEF Switched, OneRunning, InitOnce, NeverAborts, NobodyLeftBehind
<1> QED BY <1>1, <1>2, <1>3 DEF Inv

\* Every call of the library, and the alarm, keeps the invariant.
THEOREM NextInv == Inv /\ [Next]_vars => Inv'
<1> SUFFICES ASSUME Inv, [Next]_vars PROVE Inv'
  OBVIOUS
<1> USE SlotFacts
<1>1. CASE LibInit
  <2>1. TypeOK'
    BY <1>1 DEF LibInit, Inv, TypeOK, ReadyLists, States, MAIN_THREAD_ID
  <2>2. Coupled(rq', state')
    <3>1. PICK q \in Seq(Slots) : Listed(q, rq, state)
      BY CoupledIffOrders DEF Inv, QueueIntact, Coupled
    <3>2. q = <<>>
      <4> SUFFICES ASSUME q # <<>> PROVE FALSE
        OBVIOUS
      <4>1. q[1] \in Slots /\ rq.head = q[1]
        BY <3>1, ElementOfSeq, EmptySeq DEF Listed, IsChain
      <4> QED BY <1>1, <4>1 DEF LibInit, Inv, InitOnce
    <3>3. rq'.head = NULL /\ \A s \in Slots : state'[s] # "READY"
      BY <1>1 DEF LibInit, Inv, InitOnce, TypeOK, ReadyLists
    <3>4. Listed(<<>>, rq', state')
      BY <3>3, EmptySeq DEF Listed, IsChain
    <3> QED BY <3>4, EmptySeq DEF Coupled
  <2>3. QueueIntact'
    BY <2>2, CoupledIffOrders DEF QueueIntact
  <2>4. OneRunning' /\ InitOnce' /\ NeverAborts' /\ NobodyLeftBehind' /\ UniqueIds'
    BY <1>1 DEF LibInit, Inv, TypeOK, OneRunning, InitOnce, NeverAborts, NobodyLeftBehind,
                UniqueIds, MAIN_THREAD_ID
  <2> QED BY <1>1, <2>1, <2>3, <2>4 DEF LibInit, Inv
<1>2. CASE ThCreate
  <2>1. PICK s \in FreeSlots :
          /\ id' = [id EXCEPT ![s] = NEXT_ID]
          /\ NEXT_ID' = NEXT_ID + 1
          /\ cpu' = [cpu EXCEPT ![s] = 0]
          /\ ThYield(Enqueue(rq, s), [state EXCEPT ![s] = "READY"],
                     [burst_start EXCEPT ![s] = 0], [execution_time EXCEPT ![s] = 0])
    BY <1>2 DEF ThCreate
  <2>2. status = "up" /\ s \in Slots /\ state[s] = "FREE"
    BY <1>2, <2>1 DEF ThCreate, InUserCode, FreeSlots
  <2> DEFINE st == [state EXCEPT ![s] = "READY"]
  <2>3. /\ Ready(Enqueue(rq, s), st, [burst_start EXCEPT ![s] = 0],
                 [execution_time EXCEPT ![s] = 0])
        /\ Enqueue(rq, s).head # NULL
    BY <2>2, CreateReady
  <2>4. Switched(st)
    BY <2>1, <2>3, YieldSwitches
  <2>5. UniqueIds'
    BY <2>1, <2>2, <2>4 DEF Inv, TypeOK, UniqueIds, Switched, States
  <2>6. st[Main] # "FREE"
    BY <2>2, InvReady DEF Inv, TypeOK
  <2>7. /\ id' \in [Slots -> Nat] /\ NEXT_ID' \in Nat \ {0} /\ cpu' \in [Slots -> Nat]
    BY <2>1, <2>2 DEF Inv, TypeOK
  <2>8. /\ armed' \in BOOLEAN /\ returning' \in BOOLEAN /\ now' \in Nat /\ status' = "up"
    BY <1>2, <2>2 DEF ThCreate, Inv, TypeOK, process
  <2> HIDE DEF st
  <2> QED BY <2>2, <2>4, <2>5, <2>6, <2>7, <2>8, SwitchedInv
<1>3. CASE /\ status = "up" /\ status' = "up"
           /\ ThYield(rq, state, burst_start, execution_time)
           /\ id' = id /\ NEXT_ID' = NEXT_ID /\ now' = now /\ cpu' = cpu
           /\ armed' \in BOOLEAN /\ returning' \in BOOLEAN
  <2>1. Switched(state)
    BY <1>3, InvReady, YieldKeeps
  <2>2. UniqueIds'
    BY <1>3, <2>1 DEF Inv, UniqueIds, Switched
  <2> QED BY <1>3, <2>1, <2>2, InvReady, SwitchedInv DEF Inv, TypeOK
<1>4. CASE \E et \in [Slots -> Int] : Leave(et)
  <2>1. PICK et \in [Slots -> Int] : Leave(et)
    BY <1>4
  <2> DEFINE freed == [state EXCEPT ![current_ult] = "FREE"]
  <2>2. /\ status = "up" /\ current_ult # Main
        /\ ThYield(rq, freed, burst_start, et)
        /\ status' = IF rq.head = NULL THEN "aborted" ELSE status
        /\ UNCHANGED <<id, NEXT_ID, armed, returning, now, cpu>>
    BY <2>1 DEF Leave, InUserCode
  <2>3. /\ Ready(rq, freed, burst_start, et) /\ rq.head # NULL
        /\ state[Main] = "READY" /\ current_ult \in Slots
    BY <2>2, LeaveReady, InvReady DEF Ready
  <2>7. Switched(freed)
    BY <2>2, <2>3, YieldSwitches
  <2>8. UniqueIds'
    BY <2>2, <2>3, <2>7 DEF Inv, TypeOK, UniqueIds, Switched
  <2>9. freed[Main] # "FREE"
    BY <2>2, <2>3, InvReady DEF Inv, TypeOK
  <2> HIDE DEF freed
  <2> QED BY <2>2, <2>3, <2>7, <2>8, <2>9, SwitchedInv DEF Inv, TypeOK
<1>5. CASE MainReturn \/ Tick
  <2>1. /\ status' = status /\ rq' = rq /\ state' = state /\ id' = id
        /\ NEXT_ID' = NEXT_ID /\ current_ult' = current_ult
        /\ burst_start' = burst_start /\ execution_time' = execution_time /\ armed' = armed
    BY <1>5 DEF MainReturn, Tick, tcbs, process
  <2>2. returning' \in BOOLEAN
    BY <1>5 DEF MainReturn, Tick, process, Inv, TypeOK
  <2>3. current_ult \in Slots
    BY <1>5 DEF MainReturn, Tick, InUserCode, Inv, InitOnce
  <2>4. now' \in Nat /\ cpu' \in [Slots -> Nat]
    BY <1>5, <2>3 DEF MainReturn, Tick, Inv, TypeOK
  <2>5. TypeOK'
    BY <2>1, <2>2, <2>4 DEF Inv, TypeOK
  <2> QED BY <2>1, <2>5 DEF Inv, QueueIntact, OneRunning, InitOnce, NeverAborts,
                            NobodyLeftBehind, UniqueIds
<1>6. CASE MainExit
  <2>1. \A s \in Slots \ {Main} : state[s] = "FREE"
    BY <1>6, InvReady, EmptyListed DEF MainExit, Draining, Ready, States
  <2> QED BY <1>6, <2>1 DEF MainExit, Draining, Inv, TypeOK, QueueIntact, OneRunning, InitOnce,
              NeverAborts, NobodyLeftBehind, UniqueIds, tcbs
<1>7. CASE UNCHANGED vars
  BY <1>7 DEF vars, tcbs, process, Inv, TypeOK, QueueIntact, OneRunning, InitOnce,
              NeverAborts, NobodyLeftBehind, UniqueIds
<1>8. CASE UserYield \/ MainDrain \/ EndOfQuantum
  BY <1>3, <1>8 DEF UserYield, MainDrain, EndOfQuantum, ThYield, process, InUserCode, Draining,
                    Inv, TypeOK
<1>9. CASE ThReturn \/ ThStop
  <2>1. ThStop => Summarized(execution_time, burst_start) \in [Slots -> Int]
    BY DEF Inv, TypeOK, Summarized, InitOnce, ThStop, Leave, InUserCode
  <2> QED BY <1>4, <1>9, <2>1 DEF ThReturn, ThStop, Inv, TypeOK
<1> QED BY <1>1, <1>2, <1>5, <1>6, <1>7, <1>8, <1>9 DEF Next, ThCreateFails, Gone

\* The invariant holds as long as the process lives.
THEOREM Invariance == Spec => []Inv
BY InitInv, NextInv, PTL DEF Spec

\* The fields keep their types in every reachable state (hilolay.h:41-68).
THEOREM TypeCorrect == Spec => []TypeOK
<1>1. Inv => TypeOK
  BY DEF Inv
<1> QED BY <1>1, Invariance, PTL

\* No ULT is lost or listed twice by lib_enqueue and lib_get_next_ult, however the
\* calls and the alarms follow one another, as long as none interrupts another.
THEOREM QueueStaysIntact == Spec => []QueueIntact
<1>1. Inv => QueueIntact
  BY DEF Inv
<1> QED BY <1>1, Invariance, PTL

\* The processor is never given to two ULTs, and main never loses its slot.
THEOREM OneRuns == Spec => []OneRunning
<1>1. Inv => OneRunning
  BY DEF Inv
<1> QED BY <1>1, Invariance, PTL

\* th_return's assertion is never reached (hilolay.c:22).
THEOREM AssertionHolds == Spec => []NeverAborts
<1>1. Inv => NeverAborts
  BY DEF Inv
<1> QED BY <1>1, Invariance, PTL

\* The exit of the main thread waits for every other ULT (hilolay.c:25-27).
THEOREM ExitWaits == Spec => []NobodyLeftBehind
<1>1. Inv => NobodyLeftBehind
  BY DEF Inv
<1> QED BY <1>1, Invariance, PTL

\* th_get_tid tells ULTs that are alive apart (hilolay.c:102, 171).
THEOREM IdsDiffer == Spec => []UniqueIds
<1>1. Inv => UniqueIds
  BY DEF Inv
<1> QED BY <1>1, Invariance, PTL
-------------------------------------------------------------------------------
(* The burst accounts *)

\* What et and bs must say of the processor time c under the states st.
Accounted(st, et, bs, c, cur, t) ==
  \A s \in Slots : /\ st[s] = "READY" => et[s] = c[s]
                   /\ st[s] = "RUNNING" /\ s = cur => et[s] + (t - bs[s]) = c[s]

\* th_yield closes the caller's burst and opens that of the ULT it selects, so that the
\* accounts stay right.
LEMMA YieldAccounts ==
  ASSUME NEW q, NEW st, NEW bs, NEW et, NEW c \in [Slots -> Nat],
         Ready(q, st, bs, et), ThYield(q, st, bs, et),
         Accounted(st, et, bs, c, current_ult, now)
  PROVE  Accounted(state', execution_time', burst_start', c, current_ult', now)
<1>1. CASE q.head = NULL
  BY <1>1 DEF ThYield, YieldAlone, YieldTo, Accounted
<1>2. CASE q.head # NULL
  <2>1. /\ q.head \in Slots /\ st[q.head] = "READY" /\ q.head # current_ult
        /\ st \in [Slots -> States] /\ bs \in [Slots -> Nat] /\ et \in [Slots -> Int]
        /\ current_ult \in Slots /\ now \in Nat
        /\ \A s \in Slots : st[s] = "RUNNING" => s = current_ult
    BY <1>2, DequeueCoupled DEF Ready, States
  <2>2. /\ current_ult' = q.head
        /\ state' = [st EXCEPT ![current_ult] = IF st[current_ult] # "FREE" THEN "READY" ELSE "FREE",
                               ![q.head] = "RUNNING"]
        /\ execution_time' = [et EXCEPT ![current_ult] = @ + (now - bs[current_ult])]
        /\ burst_start' = [bs EXCEPT ![q.head] = now]
    BY <1>2 DEF ThYield, YieldAlone, YieldTo, Summarized
  <2>3. ASSUME NEW s \in Slots, state'[s] = "READY" PROVE execution_time'[s] = c[s]
    <3>1. CASE s = current_ult
      <4>1. st[s] = "RUNNING"
        BY <2>1, <2>2, <2>3, <3>1 DEF Ready, States
      <4> QED BY <2>1, <2>2, <3>1, <4>1 DEF Accounted
    <3>2. CASE s # current_ult
      <4>1. st[s] = "READY"
        BY <2>1, <2>2, <2>3, <3>2
      <4> QED BY <2>1, <2>2, <3>2, <4>1 DEF Accounted
    <3> QED BY <3>1, <3>2
  <2>4. execution_time'[q.head] + (now - burst_start'[q.head]) = c[q.head]
    BY <2>1, <2>2 DEF Accounted
  <2> QED BY <2>2, <2>3, <2>4 DEF Accounted
<1> QED BY <1>1, <1>2

AccountsInv == status = "up" => Accounted(state, execution_time, burst_start, cpu, current_ult, now)

\* Every step keeps the accounts, given the invariant.
LEMMA NextAccounts == Inv /\ AccountsInv /\ [Next]_vars => AccountsInv'
<1> SUFFICES ASSUME Inv, AccountsInv, [Next]_vars, status' = "up"
             PROVE  Accounted(state', execution_time', burst_start', cpu', current_ult', now')
  BY DEF AccountsInv
<1>1. CASE LibInit
  BY <1>1, SlotFacts DEF LibInit, Inv, TypeOK, InitOnce, Accounted
<1>2. CASE ThCreate
  <2>1. PICK s \in FreeSlots :
          /\ cpu' = [cpu EXCEPT ![s] = 0]
          /\ ThYield(Enqueue(rq, s), [state EXCEPT ![s] = "READY"],
                     [burst_start EXCEPT ![s] = 0], [execution_time EXCEPT ![s] = 0])
    BY <1>2 DEF ThCreate
  <2>2. status = "up" /\ s \in Slots /\ state[s] = "FREE" /\ now' = now
    BY <1>2, <2>1 DEF ThCreate, InUserCode, FreeSlots
  <2>3. Ready(Enqueue(rq, s), [state EXCEPT ![s] = "READY"],
              [burst_start EXCEPT ![s] = 0], [execution_time EXCEPT ![s] = 0])
    BY <2>2, CreateReady
  <2>4. Accounted([state EXCEPT ![s] = "READY"], [execution_time EXCEPT ![s] = 0],
                  [burst_start EXCEPT ![s] = 0], [cpu EXCEPT ![s] = 0], current_ult, now)
    <3>1. s # current_ult
      BY <2>2, InvReady
    <3> QED BY <2>2, <3>1 DEF AccountsInv, Accounted, Inv, TypeOK
  <2>5. [cpu EXCEPT ![s] = 0] \in [Slots -> Nat]
    BY DEF Inv, TypeOK
  <2> QED BY <2>1, <2>2, <2>3, <2>4, <2>5, YieldAccounts
<1>3. CASE ThYield(rq, state, burst_start, execution_time) /\ status = "up" /\ UNCHANGED <<cpu, now>>
  BY <1>3, InvReady, YieldAccounts DEF AccountsInv, Inv, TypeOK
<1>4. CASE \E et \in [Slots -> Int] :
             /\ Leave(et)
             /\ \A s \in Slots : s # current_ult => et[s] = execution_time[s]
  <2>1. PICK et \in [Slots -> Int] :
               /\ Leave(et)
               /\ \A s \in Slots : s # current_ult => et[s] = execution_time[s]
    BY <1>4
  <2>2. /\ status = "up" /\ current_ult # Main /\ UNCHANGED <<cpu, now>>
        /\ ThYield(rq, [state EXCEPT ![current_ult] = "FREE"], burst_start, et)
    BY <2>1 DEF Leave, InUserCode
  <2>3. Ready(rq, [state EXCEPT ![current_ult] = "FREE"], burst_start, et)
    BY <2>2, LeaveReady
  <2>4. Accounted([state EXCEPT ![current_ult] = "FREE"], et, burst_start, cpu, current_ult, now)
    BY <2>1, <2>2, InvReady DEF AccountsInv, Accounted, Inv, TypeOK
  <2> QED BY <2>2, <2>3, <2>4, YieldAccounts DEF Inv, TypeOK
<1>5. CASE Tick
  <2>1. current_ult \in Slots /\ \A s \in Slots : state[s] = "RUNNING" <=> s = current_ult
    BY <1>5, InvReady DEF Tick, Ready
  <2> QED BY <1>5, <2>1 DEF Tick, AccountsInv, Accounted, Inv, TypeOK, tcbs, process
<1>6. CASE MainReturn \/ UNCHANGED vars
  BY <1>6 DEF MainReturn, InUserCode, vars, tcbs, process, AccountsInv
<1>7. CASE MainExit
  BY <1>7 DEF MainExit
<1>8. CASE UserYield \/ MainDrain \/ EndOfQuantum
  BY <1>3, <1>8 DEF UserYield, MainDrain, EndOfQuantum, ThYield, InUserCode, Draining
<1>9. CASE ThReturn \/ ThStop
  <2>1. execution_time \in [Slots -> Int]
    BY DEF Inv, TypeOK
  <2>2. ThStop => /\ Summarized(execution_time, burst_start) \in [Slots -> Int]
                  /\ \A s \in Slots : s # current_ult =>
                       Summarized(execution_time, burst_start)[s] = execution_time[s]
    BY DEF Inv, TypeOK, Summarized, InitOnce, ThStop, Leave, InUserCode
  <2> QED BY <1>4, <1>9, <2>1, <2>2 DEF ThReturn, ThStop
<1> QED BY <1>1, <1>2, <1>5, <1>6, <1>7, <1>8, <1>9 DEF Next, ThCreateFails, Gone

\* Switching, creating and preempting charge every second to the ULT that had the
\* processor (lib_summarize_burst, hilolay.c:203-207, and its calls).
THEOREM BurstsAreAccounted == Spec => []BurstsAccounted
<1>1. Init => AccountsInv
  BY DEF Init, AccountsInv
<1>2. Inv /\ AccountsInv => BurstsAccounted
  BY DEF AccountsInv, Accounted, BurstsAccounted, Inv, OneRunning
<1> QED BY <1>1, <1>2, NextAccounts, Invariance, PTL DEF Spec
-------------------------------------------------------------------------------
(* The refinement of RoundRobin *)

\* A set of natural numbers that is not empty has a least one.
LEMMA LeastNatural ==
  ASSUME NEW S \in SUBSET Nat, S # {}
  PROVE  \E x \in S : \A y \in S : x <= y
<1>1. PICK x \in S : \A y \in S : ~(<<y, x>> \in OpToRel(<, Nat))
  BY NatLessThanWellFounded, WFMin, Zenon
<1>2. ASSUME NEW y \in S, y < x PROVE <<y, x>> \in OpToRel(<, Nat)
  BY <1>2 DEF OpToRel
<1>3. \A y \in S : ~(y < x)
  BY <1>1, <1>2, Zenon
<1> QED BY <1>3

\* Two chains of the same list agree as far as both go.
LEMMA ChainsAgree ==
  ASSUME NEW p \in Seq(Slots), NEW q \in Seq(Slots), NEW l, IsChain(p, l), IsChain(q, l),
         NEW i \in Nat, i \in 1 .. Len(p), i \in 1 .. Len(q)
  PROVE  p[i] = q[i]
<1> DEFINE B == {k \in 1 .. Len(p) : k \in 1 .. Len(q) /\ p[k] # q[k]}
<1> SUFFICES ASSUME B # {} PROVE FALSE
  OBVIOUS
<1>1. B \in SUBSET Nat /\ Len(p) \in Nat /\ Len(q) \in Nat
  BY LenProperties
<1>2. PICK k \in B : \A j \in B : k <= j
  BY <1>1, LeastNatural
<1>3. p # <<>> /\ q # <<>>
  BY EmptySeq
<1>4. CASE k = 1
  BY <1>3, <1>4 DEF IsChain
<1>5. CASE k # 1
  <2>1. k - 1 \in 1 .. Len(p) - 1 /\ k - 1 \in 1 .. Len(q) - 1 /\ k - 1 \notin B
    BY <1>1, <1>2, <1>5
  <2>2. p[k - 1] = q[k - 1]
    BY <1>1, <2>1
  <2>3. p[(k - 1) + 1] = l.next[p[k - 1]] /\ q[(k - 1) + 1] = l.next[q[k - 1]]
    BY <2>1 DEF IsChain
  <2> QED BY <1>1, <1>2, <2>2, <2>3
<1> QED BY <1>4, <1>5

\* ... and neither goes further.
LEMMA ChainNotLonger ==
  ASSUME NEW p \in Seq(Slots), NEW q \in Seq(Slots), NEW l, IsChain(p, l), IsChain(q, l)
  PROVE  ~(Len(p) < Len(q))
<1> SUFFICES ASSUME Len(p) < Len(q) PROVE FALSE
  OBVIOUS
<1>1. Len(p) \in Nat /\ Len(q) \in Nat
  BY LenProperties
<1>2. q # <<>> /\ q[Len(p) + 1] \in Slots
  BY <1>1, EmptySeq, ElementOfSeq
<1>3. CASE Len(p) = 0
  BY <1>2, <1>3, EmptySeq, SlotFacts DEF IsChain
<1>4. CASE Len(p) # 0
  <2>1. p # <<>> /\ Len(p) \in 1 .. Len(p) /\ Len(p) \in 1 .. Len(q) - 1
    BY <1>1, <1>4, EmptySeq
  <2>2. p[Len(p)] = q[Len(p)]
    BY <1>1, <2>1, ChainsAgree
  <2>3. l.next[p[Len(p)]] = NULL
    BY <2>1 DEF IsChain
  <2>4. l.next[q[Len(p)]] = q[Len(p) + 1]
    BY <2>1 DEF IsChain
  <2> QED BY <1>2, <2>2, <2>3, <2>4, SlotFacts
<1> QED BY <1>3, <1>4

\* A list is the chain of one sequence only.
LEMMA ChainUnique ==
  ASSUME NEW p \in Seq(Slots), NEW q \in Seq(Slots), NEW l, IsChain(p, l), IsChain(q, l)
  PROVE  p = q
<1>1. Len(p) \in Nat /\ Len(q) \in Nat
  BY LenProperties
<1>2. Len(p) = Len(q)
  BY <1>1, ChainNotLonger
<1>3. \A i \in 1 .. Len(p) : p[i] = q[i]
  BY <1>1, <1>2, ChainsAgree
<1> QED BY <1>2, <1>3, SeqEqual

\* So the sequence that the refinement mapping chooses is the one that is listed.
LEMMA ListOfUnique ==
  ASSUME NEW l, NEW st, NEW q \in Seq(Slots), Listed(q, l, st)
  PROVE  ListOf(l, st) = q
<1>1. \E p \in Orders : Listed(p, l, st)
  BY CoupledIffOrders DEF Coupled
<1>2. ListOf(l, st) \in Orders /\ Listed(ListOf(l, st), l, st)
  BY <1>1 DEF ListOf
<1>3. ListOf(l, st) \in Seq(Slots)
  BY <1>2 DEF Orders
<1> QED BY <1>2, <1>3, ChainUnique DEF Listed

\* An empty list stands for the empty sequence.
LEMMA NothingListed ==
  ASSUME NEW l, NEW st, l.head = NULL, \A s \in Slots : st[s] # "READY"
  PROVE  ListOf(l, st) = <<>>
<1>1. Listed(<<>>, l, st)
  BY EmptySeq DEF Listed, IsChain
<1> QED BY <1>1, EmptySeq, ListOfUnique

\* The invariant says that the mapping is defined.
LEMMA InvListed ==
  ASSUME Inv
  PROVE  ReadySeq \in Seq(Slots) /\ Listed(ReadySeq, rq, state)
<1>1. PICK q \in Seq(Slots) : Listed(q, rq, state)
  BY CoupledIffOrders DEF Inv, QueueIntact, Coupled
<1> QED BY <1>1, ListOfUnique DEF ReadySeq

\* th_yield, seen on the sequences: the head runs, the caller goes to the end.
LEMMA YieldToList ==
  ASSUME NEW q, NEW st, NEW bs, NEW et, Ready(q, st, bs, et), YieldTo(q, st, bs, et),
         NEW w \in Seq(Slots), Listed(w, q, st)
  PROVE  /\ w # <<>> /\ current_ult' = w[1]
         /\ ReadySeq' = IF st[current_ult] # "FREE" THEN Append(Tail(w), current_ult)
                                                     ELSE Tail(w)
<1> DEFINE sel == q.head
           ran == [st EXCEPT ![sel] = "RUNNING"]
<1>1. /\ w # <<>> /\ sel = w[1] /\ sel \in Slots /\ st[sel] = "READY" /\ sel # current_ult
      /\ Dequeue(q) \in ReadyLists /\ Tail(w) \in Seq(Slots)
      /\ Listed(Tail(w), Dequeue(q), ran)
  <2>1. "RUNNING" \in States \ {"READY"} /\ q.head # NULL
    BY DEF States, YieldTo
  <2> QED BY <2>1, DequeueListed DEF Ready
<1>2. /\ current_ult' = sel
      /\ state' = [st EXCEPT ![current_ult] = IF st[current_ult] # "FREE" THEN "READY" ELSE "FREE",
                             ![sel] = "RUNNING"]
      /\ rq' = IF st[current_ult] # "FREE" THEN Enqueue(Dequeue(q), current_ult) ELSE Dequeue(q)
  BY DEF YieldTo
<1>3. CASE st[current_ult] = "FREE"
  <2>1. state' = ran
    BY <1>1, <1>2, <1>3 DEF Ready
  <2> QED BY <1>1, <1>2, <1>3, <2>1, ListOfUnique DEF ReadySeq
<1>4. CASE st[current_ult] # "FREE"
  <2>1. state' = [ran EXCEPT ![current_ult] = "READY"]
    BY <1>1, <1>2, <1>4 DEF Ready
  <2>2. ran \in [Slots -> States] /\ ran[current_ult] # "READY" /\ current_ult \in Slots
    BY <1>1 DEF Ready, States
  <2>3. /\ Append(Tail(w), current_ult) \in Seq(Slots)
        /\ Listed(Append(Tail(w), current_ult), Enqueue(Dequeue(q), current_ult),
                  [ran EXCEPT ![current_ult] = "READY"])
    <3>1. Append(Tail(w), current_ult) \in Seq(Slots)
      BY <1>1, <2>2
    <3> HIDE DEF ran
    <3> QED BY <1>1, <2>2, <3>1, EnqueueListed
  <2> QED BY <1>1, <1>2, <1>4, <2>1, <2>3, ListOfUnique DEF ReadySeq
<1> QED BY <1>1, <1>2, <1>3, <1>4
-------------------------------------------------------------------------------
(* The operations, seen on the sequences *)

\* Appending an element behind the head of a line and taking the head off.
LEMMA TurnOverAppend ==
  ASSUME NEW w \in Seq(Slots), w # <<>>, NEW u \in Slots
  PROVE  /\ w \o <<u>> # <<>>
         /\ Head(w \o <<u>>) = w[1]
         /\ Tail(w \o <<u>>) = Append(Tail(w), u)
OBVIOUS

\* Two elements joined to a line at once, or one after the other.
LEMMA TurnOverAppendTwo ==
  ASSUME NEW w \in Seq(Slots), NEW s \in Slots, NEW u \in Slots
  PROVE  w \o <<s, u>> = Append(w, s) \o <<u>>
OBVIOUS

\* The abstract scheduler's living threads are the ULTs that run or are ready.
LEMMA WaitingAre ==
  ASSUME Inv
  PROVE  Abstract!Alive = {current_ult} \cup {s \in Slots : state[s] = "READY"}
<1>1. {ReadySeq[i] : i \in DOMAIN ReadySeq} = {s \in Slots : state[s] = "READY"}
  BY InvListed, LenProperties DEF Listed
<1> QED BY <1>1 DEF Abstract!Alive, Abstract!ToSet

\* th_create is Spawn (hilolay.c:88-111).
LEMMA CreateSpawns == Inv /\ ThCreate => Abstract!Next
<1> SUFFICES ASSUME Inv, ThCreate PROVE Abstract!Next
  OBVIOUS
<1>1. PICK s \in FreeSlots :
        ThYield(Enqueue(rq, s), [state EXCEPT ![s] = "READY"],
                [burst_start EXCEPT ![s] = 0], [execution_time EXCEPT ![s] = 0])
  BY DEF ThCreate
<1>2. /\ status = "up" /\ status' = "up" /\ s \in Slots /\ state[s] = "FREE"
  BY <1>1 DEF ThCreate, InUserCode, FreeSlots, process
<1> DEFINE st == [state EXCEPT ![s] = "READY"]
<1>3. /\ Ready(Enqueue(rq, s), st, [burst_start EXCEPT ![s] = 0], [execution_time EXCEPT ![s] = 0])
      /\ YieldTo(Enqueue(rq, s), st, [burst_start EXCEPT ![s] = 0], [execution_time EXCEPT ![s] = 0])
  BY <1>1, <1>2, CreateReady DEF ThYield, YieldAlone
<1>4. /\ ReadySeq \in Seq(Slots) /\ Append(ReadySeq, s) \in Seq(Slots)
      /\ Listed(Append(ReadySeq, s), Enqueue(rq, s), st)
  <2>1. ReadySeq \in Seq(Slots) /\ Listed(ReadySeq, rq, state)
    BY InvListed
  <2>2. rq \in ReadyLists /\ state \in [Slots -> States] /\ state[s] # "READY"
    BY <1>2 DEF Inv, TypeOK
  <2>3. Append(ReadySeq, s) \in Seq(Slots)
    BY <1>2, <2>1
  <2> QED BY <1>2, <2>1, <2>2, <2>3, EnqueueListed
<1>5. current_ult \in Slots /\ s # current_ult /\ st[current_ult] # "FREE"
  BY <1>2, InvReady DEF Ready
<1> HIDE DEF st
<1>6. /\ Append(ReadySeq, s) # <<>> /\ current_ult' = Append(ReadySeq, s)[1]
      /\ ReadySeq' = Append(Tail(Append(ReadySeq, s)), current_ult)
  BY <1>3, <1>4, <1>5, YieldToList
<1>7. Abstract!TurnOver(<<s, current_ult>>)
  BY <1>2, <1>4, <1>5, <1>6, TurnOverAppend, TurnOverAppendTwo DEF Abstract!TurnOver
<1>8. s \notin Abstract!Alive /\ current_ult # NULL
  BY <1>2, <1>5, WaitingAre, SlotFacts
<1>9. Abstract!Spawn(s)
  BY <1>2, <1>7, <1>8 DEF Abstract!Spawn
<1> QED BY <1>2, <1>9 DEF Abstract!Next

\* th_yield by a ULT that is alive rotates the line, or does nothing.
LEMMA YieldRotates ==
  ASSUME Inv, status = "up", status' = "up", ThYield(rq, state, burst_start, execution_time)
  PROVE  Abstract!Next \/ UNCHANGED Abstract!vars
<1>1. CASE YieldAlone(rq, state, burst_start, execution_time)
  BY <1>1 DEF YieldAlone, ReadySeq, Abstract!vars
<1>2. CASE YieldTo(rq, state, burst_start, execution_time)
  <2>1. /\ ReadySeq \in Seq(Slots) /\ current_ult \in Slots /\ state[current_ult] = "RUNNING"
    BY InvReady, InvListed DEF Ready
  <2>2. /\ ReadySeq # <<>> /\ current_ult' = ReadySeq[1]
        /\ ReadySeq' = Append(Tail(ReadySeq), current_ult)
    BY <1>2, <2>1, InvReady, InvListed, YieldToList
  <2>3. Abstract!TurnOver(<<current_ult>>)
    BY <2>1, <2>2, TurnOverAppend DEF Abstract!TurnOver
  <2> QED BY <2>1, <2>2, <2>3, SlotFacts DEF Abstract!Rotate, Abstract!Next
<1> QED BY <1>1, <1>2 DEF ThYield

\* th_return and th_stop are Leave (hilolay.c:16-23, 74-79).
LEMMA LeaveLeaves ==
  ASSUME Inv, NEW et \in [Slots -> Int], Leave(et)
  PROVE  Abstract!Next
<1> DEFINE freed == [state EXCEPT ![current_ult] = "FREE"]
<1>1. /\ status = "up" /\ current_ult # Main /\ ThYield(rq, freed, burst_start, et)
      /\ status' = IF rq.head = NULL THEN "aborted" ELSE status
  BY DEF Leave, InUserCode
<1>2. Ready(rq, freed, burst_start, et) /\ rq.head # NULL /\ current_ult \in Slots
  BY <1>1, LeaveReady, InvReady DEF Ready
<1>3. YieldTo(rq, freed, burst_start, et) /\ freed[current_ult] = "FREE" /\ status' = "up"
  BY <1>1, <1>2 DEF ThYield, YieldAlone, Inv, TypeOK
<1>4. ReadySeq \in Seq(Slots) /\ Listed(ReadySeq, rq, freed)
  <2>1. {s \in Slots : freed[s] = "READY"} = {s \in Slots : state[s] = "READY"}
    BY <1>1, <1>2, InvReady DEF Inv, TypeOK
  <2> QED BY <2>1, InvListed DEF Listed
<1> HIDE DEF freed
<1>5. ReadySeq # <<>> /\ current_ult' = ReadySeq[1] /\ ReadySeq' = Tail(ReadySeq)
  BY <1>2, <1>3, <1>4, YieldToList
<1>6. Abstract!TurnOver(<<>>)
  BY <1>4, <1>5, ConcatEmptySeq DEF Abstract!TurnOver
<1> QED BY <1>1, <1>2, <1>3, <1>6, SlotFacts DEF Abstract!Leave, Abstract!Next

\* Every step of the library is a step of the abstract scheduler or changes nothing of it.
THEOREM StepSimulation == Inv /\ [Next]_vars => [Abstract!Next]_(Abstract!vars)
<1> SUFFICES ASSUME Inv, [Next]_vars PROVE [Abstract!Next]_(Abstract!vars)
  OBVIOUS
<1>1. CASE LibInit
  <2>1. /\ rq.head = NULL /\ rq'.head = NULL
        /\ \A s \in Slots : state[s] # "READY" /\ state'[s] # "READY"
    BY <1>1, SlotFacts DEF LibInit, Inv, InitOnce, TypeOK, ReadyLists
  <2>2. ReadySeq = <<>> /\ ReadySeq' = <<>>
    BY <2>1, NothingListed DEF ReadySeq
  <2> QED BY <1>1, <2>2 DEF LibInit, Inv, InitOnce, Abstract!Start, Abstract!Next
<1>2. CASE ThCreate
  BY <1>2, CreateSpawns
<1>3. CASE UserYield \/ MainDrain \/ EndOfQuantum
  BY <1>3, YieldRotates DEF UserYield, MainDrain, EndOfQuantum, ThYield, process, InUserCode, Draining
<1>4. CASE ThReturn
  BY <1>4, LeaveLeaves DEF ThReturn, Inv, TypeOK
<1>5. CASE ThStop
  <2>1. Summarized(execution_time, burst_start) \in [Slots -> Int]
    BY <1>5 DEF Inv, TypeOK, Summarized, InitOnce, ThStop, Leave, InUserCode
  <2> QED BY <1>5, <2>1, LeaveLeaves DEF ThStop
<1>6. CASE MainExit
  <2>1. ReadySeq = <<>>
    <3>1. ReadySeq \in Seq(Slots) /\ IsChain(ReadySeq, rq)
      BY InvListed DEF Listed
    <3> QED BY <1>6, <3>1, ElementOfSeq, EmptySeq, SlotFacts DEF IsChain, MainExit
  <2> QED BY <1>6, <2>1 DEF MainExit, Draining, tcbs, ReadySeq, Abstract!End, Abstract!Next
<1>7. CASE MainReturn \/ Tick \/ UNCHANGED vars
  BY <1>7 DEF MainReturn, Tick, vars, tcbs, process, ReadySeq, Abstract!vars
<1> QED BY <1>1, <1>2, <1>3, <1>4, <1>5, <1>6, <1>7 DEF Next, ThCreateFails, Gone

\* The library is a round-robin scheduler: the linked list, the slots and the states
\* show exactly the behaviours of RoundRobin.
THEOREM Refinement == Spec => ImplementsRoundRobin
<1>1. Init => Abstract!Init
  BY NothingListed DEF Init, ReadySeq, Abstract!Init
<1> QED BY <1>1, StepSimulation, Invariance, PTL DEF Spec, ImplementsRoundRobin, Abstract!Spec
===============================================================================
