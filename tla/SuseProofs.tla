------------------------------- MODULE SuseProofs -------------------------------
(***************************************************************************)
(* Proofs about the process of SUSE: its listener, for every number of     *)
(* clients, places and descriptors, and its scheduler, for every number of *)
(* threads and every degree of multiprogramming.                           *)
(***************************************************************************)
EXTENDS SuseScheduler, TLAPS, SequenceTheorems, FiniteSetTheorems

(* Lists *)

\* list_remove takes one element out and moves up those behind it.
LEMMA Removed ==
  ASSUME NEW S, NEW s \in Seq(S), NEW k \in 1 .. Len(s)
  PROVE  /\ RemoveAt(s, k) \in Seq(S)
         /\ Len(RemoveAt(s, k)) = Len(s) - 1
         /\ \A j \in 1 .. Len(s) - 1 : RemoveAt(s, k)[j] = IF j < k THEN s[j] ELSE s[j + 1]
<1> DEFINE a == SubSeq(s, 1, k - 1)
           b == SubSeq(s, k + 1, Len(s))
<1>1. Len(s) \in Nat /\ k \in Int /\ \A j \in 1 .. Len(s) : s[j] \in S
  BY SMT
<1>2. a \in Seq(S) /\ Len(a) = k - 1 /\ \A j \in 1 .. k - 1 : a[j] = s[j]
  <2>1. \A j \in 1 .. k - 1 : s[j] \in S
    BY <1>1
  <2>2. 1 \in Int /\ k - 1 \in Int
    BY <1>1
  <2> QED
    BY <1>1, <2>1, <2>2, SubSeqProperties
<1>3. b \in Seq(S) /\ Len(b) = Len(s) - k /\ \A j \in 1 .. Len(s) - k : b[j] = s[k + j]
  <2>1. \A j \in k + 1 .. Len(s) : s[j] \in S
    BY <1>1
  <2>2. k + 1 \in Int /\ Len(s) \in Int
    BY <1>1
  <2>3. /\ b \in Seq(S)
        /\ Len(b) = IF k + 1 <= Len(s) THEN Len(s) - (k + 1) + 1 ELSE 0
        /\ \A j \in 1 .. Len(s) - (k + 1) + 1 : b[j] = s[k + 1 + j - 1]
    BY <2>1, <2>2, SubSeqProperties
  <2> QED
    BY <1>1, <2>3
<1> HIDE DEF a, b
<1>4. /\ a \o b \in Seq(S) /\ Len(a \o b) = Len(a) + Len(b)
      /\ \A j \in 1 .. Len(a) + Len(b) : (a \o b)[j] = IF j <= Len(a) THEN a[j] ELSE b[j - Len(a)]
  BY <1>2, <1>3, ConcatProperties
<1>5. RemoveAt(s, k) = a \o b
  BY DEF RemoveAt, a, b
<1>6. ASSUME NEW j \in 1 .. Len(s) - 1
      PROVE  (a \o b)[j] = IF j < k THEN s[j] ELSE s[j + 1]
  <2>1. CASE j < k
    BY <1>1, <1>2, <1>3, <1>4, <2>1
  <2>2. CASE ~(j < k)
    <3>1. (a \o b)[j] = b[j - (k - 1)]
      BY <1>1, <1>2, <1>3, <1>4, <2>2
    <3>2. j - (k - 1) \in 1 .. Len(s) - k /\ k + (j - (k - 1)) = j + 1
      BY <1>1, <2>2
    <3> QED
      BY <1>3, <2>2, <3>1, <3>2
  <2> QED
    BY <2>1, <2>2
<1>7. Len(a \o b) = Len(s) - 1
  BY <1>1, <1>2, <1>3, <1>4
<1> QED
  BY <1>4, <1>5, <1>6, <1>7, Zenon

\* In a list of different elements the one that is removed is gone.
LEMMA RemovedInjective ==
  ASSUME NEW S, NEW s \in Seq(S), NEW k \in 1 .. Len(s), IsInjective(s)
  PROVE  /\ IsInjective(RemoveAt(s, k))
         /\ ToSet(RemoveAt(s, k)) = ToSet(s) \ {s[k]}
<1> DEFINE r == RemoveAt(s, k)
<1>1. /\ r \in Seq(S) /\ Len(r) = Len(s) - 1 /\ Len(s) \in Nat
      /\ \A j \in 1 .. Len(s) - 1 : r[j] = IF j < k THEN s[j] ELSE s[j + 1]
  BY Removed, SMT
<1> HIDE DEF r
<1>2. DOMAIN s = 1 .. Len(s) /\ DOMAIN r = 1 .. Len(s) - 1
  BY <1>1, LenProperties
<1>3. \A a, b \in 1 .. Len(s) : s[a] = s[b] => a = b
  BY <1>2 DEF IsInjective
<1>4. \A a, b \in 1 .. Len(s) - 1 : r[a] = r[b] => a = b
  <2> SUFFICES ASSUME NEW a \in 1 .. Len(s) - 1, NEW b \in 1 .. Len(s) - 1, r[a] = r[b] PROVE a = b
    OBVIOUS
  <2>1. /\ a \in 1 .. Len(s) /\ a + 1 \in 1 .. Len(s) /\ b \in 1 .. Len(s) /\ b + 1 \in 1 .. Len(s)
        /\ a \in Int /\ b \in Int /\ k \in Int
    BY <1>1
  <2>2. (IF a < k THEN a ELSE a + 1) = (IF b < k THEN b ELSE b + 1)
    BY <1>1, <1>3, <2>1
  <2> QED
    BY <2>1, <2>2
<1>5. \A j \in 1 .. Len(s) - 1 : r[j] \in ToSet(s) \ {s[k]}
  <2> SUFFICES ASSUME NEW j \in 1 .. Len(s) - 1 PROVE r[j] \in ToSet(s) \ {s[k]}
    OBVIOUS
  <2>1. j \in 1 .. Len(s) /\ j + 1 \in 1 .. Len(s) /\ j \in Int /\ k \in Int
    BY <1>1
  <2>2. CASE j < k
    BY <1>1, <1>2, <1>3, <2>1, <2>2 DEF ToSet
  <2>3. CASE ~(j < k)
    <3>1. r[j] = s[j + 1] /\ j + 1 # k
      BY <1>1, <2>1, <2>3
    <3> QED
      BY <1>2, <1>3, <2>1, <3>1 DEF ToSet
  <2> QED
    BY <2>2, <2>3
<1>6. \A j \in 1 .. Len(s) : j # k => s[j] \in ToSet(r)
  <2> SUFFICES ASSUME NEW j \in 1 .. Len(s), j # k PROVE s[j] \in ToSet(r)
    OBVIOUS
  <2>1. CASE j < k
    <3>1. j \in 1 .. Len(s) - 1 /\ r[j] = s[j]
      BY <1>1, <2>1
    <3> QED
      BY <1>2, <3>1 DEF ToSet
  <2>2. CASE j > k
    <3>1. j - 1 \in 1 .. Len(s) - 1 /\ ~(j - 1 < k) /\ (j - 1) + 1 = j
      BY <1>1, <2>2
    <3>2. r[j - 1] = s[j]
      BY <1>1, <3>1
    <3> QED
      BY <1>2, <3>1, <3>2 DEF ToSet
  <2> QED
    BY <1>1, <2>1, <2>2
<1>7. IsInjective(r)
  BY <1>2, <1>4 DEF IsInjective
<1>8. ToSet(r) = ToSet(s) \ {s[k]}
  <2>1. ToSet(r) \subseteq ToSet(s) \ {s[k]}
    BY <1>2, <1>5 DEF ToSet
  <2>2. ToSet(s) \ {s[k]} \subseteq ToSet(r)
    BY <1>2, <1>6 DEF ToSet
  <2> QED
    BY <2>1, <2>2
<1> QED
  BY <1>7, <1>8 DEF r

\* list_add puts one element at the end.
LEMMA Added ==
  ASSUME NEW S, NEW s \in Seq(S), NEW e \in S
  PROVE  /\ Append(s, e) \in Seq(S) /\ Len(Append(s, e)) = Len(s) + 1
         /\ ToSet(Append(s, e)) = ToSet(s) \cup {e}
         /\ IsInjective(s) /\ e \notin ToSet(s) => IsInjective(Append(s, e))
<1> DEFINE r == Append(s, e)
<1>1. /\ r \in Seq(S) /\ Len(r) = Len(s) + 1 /\ Len(s) \in Nat
      /\ \A j \in 1 .. Len(s) : r[j] = s[j]
      /\ r[Len(s) + 1] = e
  BY SMT
<1> HIDE DEF r
<1>2. DOMAIN s = 1 .. Len(s) /\ DOMAIN r = 1 .. Len(s) + 1
  BY <1>1, LenProperties
<1>3. DOMAIN r = DOMAIN s \cup {Len(s) + 1} /\ Len(s) + 1 \notin DOMAIN s
  BY <1>1, <1>2
<1>4. ToSet(r) = ToSet(s) \cup {e}
  <2>1. \A j \in DOMAIN s : j \in DOMAIN r /\ r[j] = s[j]
    BY <1>1, <1>2, <1>3, Zenon
  <2>2. Len(s) + 1 \in DOMAIN r /\ r[Len(s) + 1] = e
    BY <1>1, <1>3
  <2>3. \A j \in DOMAIN r : j \in DOMAIN s \/ j = Len(s) + 1
    BY <1>3
  <2> QED
    BY <2>1, <2>2, <2>3, Zenon DEF ToSet
<1>5. ASSUME IsInjective(s), e \notin ToSet(s) PROVE IsInjective(r)
  <2> SUFFICES ASSUME NEW a \in DOMAIN r, NEW b \in DOMAIN r, r[a] = r[b] PROVE a = b
    BY DEF IsInjective
  <2>1. \A j \in DOMAIN s : r[j] = s[j] /\ s[j] # e
    BY <1>1, <1>2, <1>5 DEF ToSet
  <2> QED
    BY <1>1, <1>3, <1>5, <2>1, Zenon DEF IsInjective
<1> QED
  BY <1>1, <1>4, <1>5 DEF r

\* Two lists one after the other have different elements when each has, and they share none.
LEMMA Joined ==
  ASSUME NEW S, NEW s \in Seq(S), NEW u \in Seq(S)
  PROVE  /\ ToSet(s \o u) = ToSet(s) \cup ToSet(u)
         /\ (IsInjective(s \o u) <=> /\ IsInjective(s) /\ IsInjective(u)
                                     /\ ToSet(s) \cap ToSet(u) = {})
<1> DEFINE r == s \o u
<1>1. /\ r \in Seq(S) /\ Len(r) = Len(s) + Len(u) /\ Len(s) \in Nat /\ Len(u) \in Nat
      /\ \A j \in 1 .. Len(s) + Len(u) : r[j] = IF j <= Len(s) THEN s[j] ELSE u[j - Len(s)]
  BY ConcatProperties, SMT
<1> HIDE DEF r
<1>2. DOMAIN s = 1 .. Len(s) /\ DOMAIN u = 1 .. Len(u) /\ DOMAIN r = 1 .. Len(s) + Len(u)
  BY <1>1, LenProperties
<1>3. \A j \in DOMAIN s : j \in DOMAIN r /\ r[j] = s[j]
  BY <1>1, <1>2
<1>4. \A j \in DOMAIN u : Len(s) + j \in DOMAIN r /\ r[Len(s) + j] = u[j] /\ Len(s) + j \notin DOMAIN s
  <2> SUFFICES ASSUME NEW j \in DOMAIN u
               PROVE  Len(s) + j \in DOMAIN r /\ r[Len(s) + j] = u[j] /\ Len(s) + j \notin DOMAIN s
    OBVIOUS
  <2>1. j \in 1 .. Len(u) /\ Len(s) + j \in 1 .. Len(s) + Len(u) /\ ~(Len(s) + j <= Len(s)) /\ (Len(s) + j) - Len(s) = j
    BY <1>1, <1>2
  <2>2. r[Len(s) + j] = u[(Len(s) + j) - Len(s)]
    BY <1>1, <2>1
  <2> QED
    BY <1>1, <1>2, <2>1, <2>2
<1>5. \A j \in DOMAIN r : j \in DOMAIN s \/ \E k \in DOMAIN u : j = Len(s) + k
  <2> SUFFICES ASSUME NEW j \in DOMAIN r, j \notin DOMAIN s PROVE \E k \in DOMAIN u : j = Len(s) + k
    OBVIOUS
  <2>1. j - Len(s) \in DOMAIN u /\ j = Len(s) + (j - Len(s))
    BY <1>1, <1>2
  <2> QED
    BY <2>1
<1>6. ToSet(r) = ToSet(s) \cup ToSet(u)
  BY <1>3, <1>4, <1>5, Zenon DEF ToSet
<1>7. ASSUME IsInjective(r) PROVE IsInjective(s) /\ IsInjective(u) /\ ToSet(s) \cap ToSet(u) = {}
  <2>1. IsInjective(s)
    BY <1>3, <1>7, Zenon DEF IsInjective
  <2>2. IsInjective(u)
    <3> SUFFICES ASSUME NEW a \in DOMAIN u, NEW b \in DOMAIN u, u[a] = u[b] PROVE a = b
      BY DEF IsInjective
    <3>1. Len(s) + a = Len(s) + b
      BY <1>4, <1>7, Zenon DEF IsInjective
    <3> QED
      BY <1>1, <1>2, <3>1
  <2>3. ToSet(s) \cap ToSet(u) = {}
    <3> SUFFICES ASSUME NEW a \in DOMAIN s, NEW b \in DOMAIN u, s[a] = u[b] PROVE FALSE
      BY DEF ToSet
    <3>1. a = Len(s) + b
      BY <1>3, <1>4, <1>7, Zenon DEF IsInjective
    <3> QED
      BY <1>4, <3>1, Zenon
  <2> QED
    BY <2>1, <2>2, <2>3
<1>8. ASSUME IsInjective(s), IsInjective(u), ToSet(s) \cap ToSet(u) = {} PROVE IsInjective(r)
  <2> SUFFICES ASSUME NEW a \in DOMAIN r, NEW b \in DOMAIN r, r[a] = r[b] PROVE a = b
    BY DEF IsInjective
  <2>1. \A x \in DOMAIN s, y \in DOMAIN u : s[x] # u[y]
    BY <1>8 DEF ToSet
  <2>2. CASE a \in DOMAIN s /\ b \in DOMAIN s
    BY <1>3, <1>8, <2>2, Zenon DEF IsInjective
  <2>3. CASE a \in DOMAIN s /\ b \notin DOMAIN s
    <3>1. PICK y \in DOMAIN u : b = Len(s) + y
      BY <1>5, <2>3, Zenon
    <3>2. s[a] = u[y]
      BY <1>3, <1>4, <2>3, <3>1, Zenon
    <3> QED
      BY <2>1, <2>3, <3>2, Zenon
  <2>4. CASE a \notin DOMAIN s /\ b \in DOMAIN s
    BY <1>3, <1>4, <1>5, <2>1, <2>4, Zenon
  <2>5. CASE a \notin DOMAIN s /\ b \notin DOMAIN s
    <3>1. PICK x \in DOMAIN u, y \in DOMAIN u : a = Len(s) + x /\ b = Len(s) + y
      BY <1>5, <2>5, Zenon
    <3>2. u[x] = u[y]
      BY <1>4, <3>1, Zenon
    <3> QED
      BY <1>8, <3>1, <3>2, Zenon DEF IsInjective
  <2> QED
    BY <2>2, <2>3, <2>4, <2>5
<1> QED
  BY <1>6, <1>7, <1>8 DEF r
-------------------------------------------------------------------------------
(* The listener *)

\* The listener has its socket.
Listens == listener \in {"sets", "select", "catch", "check"}

\* Once it listens, the n connections it took have the descriptors after its own, and the
\* oldest of them the places of the table.
Order(n) ==
  /\ n \in Nat /\ FirstFd + n <= LastFd
  /\ \A d \in Descriptors : /\ (holder[d] = "master" <=> d = FirstFd)
                            /\ (holder[d] = "free" <=> d > FirstFd + n)
  /\ client_socket = [p \in Places |-> IF n >= p THEN FirstFd + p ELSE 0]

\* Before that there is nothing.
Nothing == /\ \A d \in Descriptors : holder[d] = "free"
           /\ client_socket = [p \in Places |-> 0]
           /\ backlog = <<>>

\* What select watches, and what it found.
Watched == /\ listener = "select" => readfds = {FirstFd}
           /\ listener = "catch" => readfds = {FirstFd} /\ backlog # <<>>

ListenerInv ==
  /\ TypeOK
  /\ main \in {"load", "listener"} => listener = "none"
  /\ status = "up" => /\ IF Listens THEN \E n \in Nat : Order(n) ELSE Nothing
                      /\ Watched

\* There is one master, and the lowest free descriptor follows the last one given.
LEMMA Positions ==
  ASSUME TypeOK, NEW n \in Nat, Order(n)
  PROVE  /\ FirstFd \in Descriptors /\ Master = FirstFd
         /\ Given = FirstFd + 1 .. FirstFd + n /\ Cardinality(Given) = n
         /\ Lowest = IF FirstFd + n < LastFd THEN FirstFd + n + 1 ELSE -1
<1>1. FirstFd \in Nat /\ LastFd \in Nat /\ FirstFd <= LastFd /\ FirstFd \in Descriptors
  BY SuseAssumption DEF Descriptors
<1>2. Master = FirstFd
  BY <1>1 DEF Order, Master
<1>3. Given = FirstFd + 1 .. FirstFd + n
  <2>1. \A d \in Descriptors : d \in Given <=> holder[d] # "master" /\ holder[d] # "free"
    BY SuseAssumption DEF TypeOK, Given
  <2>2. \A d \in Descriptors : d \in Given <=> d \in FirstFd + 1 .. FirstFd + n
    BY <1>1, <2>1 DEF Order, Descriptors
  <2>3. Given \subseteq Descriptors /\ FirstFd + 1 .. FirstFd + n \subseteq Descriptors
    BY <1>1 DEF Given, Order, Descriptors
  <2> QED
    BY <2>2, <2>3
<1>4. Cardinality(Given) = n
  <2>1. FirstFd + 1 \in Int /\ FirstFd + n \in Int
    BY <1>1
  <2>2. \A a, b \in Int : Cardinality(a .. b) = IF a > b THEN 0 ELSE b - a + 1
    BY FS_Interval
  <2> QED
    BY <1>1, <1>3, <2>1, <2>2
<1>5. CASE FirstFd + n < LastFd
  <2> DEFINE k == FirstFd + n + 1
  <2>1. k \in Descriptors /\ holder[k] = "free"
    BY <1>1, <1>5 DEF Order, Descriptors
  <2>2. \A e \in FirstFd .. k - 1 : e \in Descriptors /\ holder[e] # "free"
    BY <1>1, <1>5 DEF Order, Descriptors
  <2>3. \A d \in Descriptors : holder[d] = "free" /\ d # k => k \in FirstFd .. d - 1
    BY <1>1, <1>5 DEF Order, Descriptors
  <2>4. Lowest = k
    <3> HIDE DEF k
    <3> QED
      BY <2>1, <2>2, <2>3 DEF Lowest
  <2> QED
    BY <1>1, <1>2, <1>3, <1>4, <1>5, <2>4
<1>6. CASE ~(FirstFd + n < LastFd)
  <2>1. \A d \in Descriptors : holder[d] # "free"
    BY <1>1, <1>6 DEF Order, Descriptors
  <2> QED
    BY <1>1, <1>2, <1>3, <1>4, <1>6, <2>1 DEF Lowest
<1> QED
  BY <1>5, <1>6

\* The process starts with nothing, and its listener not yet made.
LEMMA ListenerInit == Init => ListenerInv
<1> SUFFICES ASSUME Init PROVE ListenerInv
  OBVIOUS
<1>1. TypeOK
  BY EmptySeq DEF Init, TypeOK
<1> QED
  BY <1>1 DEF Init, ListenerInv, Listens, Nothing, Watched

\* main's steps change nothing the listener looks at, but for the one that starts it.
LEMMA MainStep == ListenerInv /\ Main => ListenerInv'
<1> SUFFICES ASSUME ListenerInv, Main PROVE ListenerInv'
  OBVIOUS
<1> USE DEF ListenerInv, Listens, Nothing, Watched, Order, TypeOK
<1>1. CASE LoadFails
  BY <1>1, EmptySeq DEF LoadFails, ProcessEnds, table
<1>2. CASE Load
  BY <1>2 DEF Load, kernel, table
<1>3. CASE StartListener
  BY <1>3 DEF StartListener, kernel, table
<1>4. CASE StartScheduler
  BY <1>4 DEF StartScheduler, kernel, table
<1> QED
  BY <1>1, <1>2, <1>3, <1>4 DEF Main

\* Nor do those of the scheduler's thread; each makes at most one semaphore.
LEMMA SchedulerStep == ListenerInv /\ Scheduler => ListenerInv'
<1> SUFFICES ASSUME ListenerInv, Scheduler PROVE ListenerInv'
  OBVIOUS
<1>1. /\ scheduler' \in {"none", "init", "semaphores", "metrics"}
      /\ UNCHANGED <<status, main, listener, holder, backlog, link, sent, client_socket, readfds>>
  BY DEF Scheduler, InitLists, InitSemaphore, StartMetrics, kernel, table, ListenerInv, TypeOK
<1>2. semphores' \in Seq({Garbage} \cup {Semaphores[p] : p \in DOMAIN Semaphores})
  <2>1. CASE InitSemaphore
    <3>1. Semaphores[Len(semphores) + 1] \in {Semaphores[p] : p \in DOMAIN Semaphores}
      <4>1. Len(semphores) \in Nat
        BY DEF ListenerInv, TypeOK
      <4>2. DOMAIN Semaphores = 1 .. Len(Semaphores) /\ Len(Semaphores) \in Nat
        BY SuseAssumption
      <4>3. Len(semphores) + 1 \in DOMAIN Semaphores
        BY <2>1, <4>1, <4>2 DEF InitSemaphore
      <4> QED
        BY <4>3
    <3> QED
      BY <2>1, <3>1 DEF InitSemaphore, ListenerInv, TypeOK
  <2>2. CASE ~InitSemaphore
    BY <2>2 DEF Scheduler, InitLists, StartMetrics, ListenerInv, TypeOK
  <2> QED
    BY <2>1, <2>2
<1> QED
  BY <1>1, <1>2 DEF ListenerInv, Listens, Nothing, Watched, Order, TypeOK

\* The listener's own steps.
LEMMA ListenerStep == ListenerInv /\ status = "up" /\ Listener => ListenerInv'
<1> SUFFICES ASSUME ListenerInv, status = "up", Listener PROVE ListenerInv'
  OBVIOUS
<1>0. FirstFd \in Nat \ {0} /\ LastFd \in Nat /\ FirstFd \in Descriptors
  BY SuseAssumption DEF Descriptors
<1>1. CASE CreateListenerFails \/ CatchFails
  BY <1>1, EmptySeq DEF CreateListenerFails, CatchFails, ProcessEnds, table, ListenerInv, TypeOK
<1>2. CASE CreateListener
  <2>1. Nothing /\ main \notin {"load", "listener"}
    BY <1>2 DEF CreateListener, ListenerInv, Listens
  <2>2. Lowest = FirstFd
    <3>1. \A e \in FirstFd .. FirstFd - 1 : holder[e] # "free"
      BY <1>0
    <3>2. \A d \in Descriptors : d # FirstFd => FirstFd \in FirstFd .. d - 1
      BY <1>0 DEF Descriptors
    <3> QED
      BY <1>0, <2>1, <3>1, <3>2 DEF Lowest, Nothing
  <2>3. Order(0)'
    <3>1. \A d \in Descriptors : holder'[d] = IF d = FirstFd THEN "master" ELSE "free"
      BY <1>0, <1>2, <2>1, <2>2 DEF CreateListener, Nothing, ListenerInv, TypeOK
    <3>2. \A d \in Descriptors : d > FirstFd + 0 <=> d # FirstFd
      BY <1>0 DEF Descriptors
    <3>3. client_socket' = [p \in Places |-> IF 0 >= p THEN FirstFd + p ELSE 0]
      BY <1>2, SuseAssumption DEF CreateListener, Places
    <3> QED
      BY <1>0, <3>1, <3>2, <3>3, SuseAssumption DEF Order
  <2>4. TypeOK'
    BY <1>0, <1>2, <2>2, <2>3 DEF CreateListener, ListenerInv, TypeOK
  <2> QED
    BY <1>2, <2>1, <2>3, <2>4 DEF CreateListener, ListenerInv, Listens, Watched
<1>3. CASE BuildSets
  <2>1. PICK n \in Nat : Order(n)
    BY <1>3 DEF BuildSets, ListenerInv, Listens
  <2>2. readfds' = {FirstFd}
    BY <1>3, <2>1, Positions DEF BuildSets, WithChildSockets, ListenerInv
  <2>3. Order(n)'
    BY <1>3, <2>1 DEF BuildSets, kernel, Order
  <2>4. TypeOK' /\ main \notin {"load", "listener"}
    BY <1>0, <1>3, <2>2 DEF BuildSets, kernel, ListenerInv, TypeOK
  <2> QED
    BY <1>3, <2>2, <2>3, <2>4 DEF BuildSets, ListenerInv, Listens, Watched
<1>4. CASE Select
  <2>1. PICK n \in Nat : Order(n)
    BY <1>4 DEF Select, ListenerInv, Listens
  <2>2. readfds = {FirstFd}
    BY <1>4 DEF Select, ListenerInv, Watched
  <2>3. holder[FirstFd] = "master" /\ sent \subseteq Clients
    BY <1>0, <2>1 DEF Order, ListenerInv, TypeOK
  <2>4. readfds' = {FirstFd} /\ backlog # <<>>
    BY <1>4, <2>2, <2>3, SuseAssumption DEF Select, Ready
  <2>5. Order(n)'
    BY <1>4, <2>1 DEF Select, kernel, Order
  <2>6. TypeOK' /\ main \notin {"load", "listener"}
    BY <1>0, <1>4, <2>4 DEF Select, kernel, ListenerInv, TypeOK
  <2> QED
    BY <1>4, <2>4, <2>5, <2>6 DEF Select, kernel, ListenerInv, Listens, Watched
<1>5. CASE Catch
  <2>1. PICK n \in Nat : Order(n)
    BY <1>5 DEF Catch, ListenerInv, Listens
  <2>2. Lowest = FirstFd + n + 1 /\ FirstFd + n < LastFd /\ Lowest \in Descriptors
    BY <1>0, <1>5, <2>1, Positions, SMT DEF Catch, ListenerInv, Descriptors
  <2> DEFINE c == Head(backlog)
  <2>3. /\ c \in Clients \cup {"left"} /\ c \notin {"free", "master"}
        /\ Tail(backlog) \in Seq(Clients \cup {"left"})
    BY <1>5, SuseAssumption DEF Catch, ListenerInv, TypeOK
  <2> HIDE DEF c
  <2>4. holder' = [holder EXCEPT ![Lowest] = c] /\ backlog' = Tail(backlog)
    BY <1>5 DEF Catch, c
  <2>5. client_socket' = [p \in Places |-> IF n + 1 >= p THEN FirstFd + p ELSE 0]
    <3>1. \A p \in Places : /\ p \in Nat
                            /\ client_socket[p] = IF n >= p THEN FirstFd + p ELSE 0
      BY <2>1 DEF Order, Places
    <3>2. \A p \in Places : client_socket[p] = 0 <=> p > n
      BY <1>0, <3>1
    <3>3. \A p \in Places : (\A j \in 1 .. p - 1 : client_socket[j] # 0) <=> p <= n + 1
      <4> SUFFICES ASSUME NEW p \in Places
                   PROVE  (\A j \in 1 .. p - 1 : client_socket[j] # 0) <=> p <= n + 1
        OBVIOUS
      <4>1. \A j \in 1 .. p - 1 : j \in Places /\ j \in Nat
        BY <3>1, SuseAssumption DEF Places
      <4>2. CASE p <= n + 1
        BY <3>1, <3>2, <4>1, <4>2
      <4>3. CASE p > n + 1
        <5>1. n + 1 \in 1 .. p - 1 /\ n + 1 \in Places /\ n + 1 > n
          BY <3>1, <4>1, <4>3
        <5> QED
          BY <3>1, <3>2, <4>3, <5>1
      <4> QED
        BY <3>1, <4>2, <4>3
    <3>4. \A p \in Places : (IF client_socket[p] = 0 /\ \A j \in 1 .. p - 1 : client_socket[j] # 0
                                 THEN Lowest ELSE client_socket[p])
                                = IF n + 1 >= p THEN FirstFd + p ELSE 0
      BY <1>0, <2>2, <3>1, <3>2, <3>3
    <3> QED
      BY <1>5, <3>4 DEF Catch, NewClient
  <2>6. Order(n + 1)'
    <3>1. \A d \in Descriptors : holder'[d] = IF d = Lowest THEN c ELSE holder[d]
      BY <2>2, <2>4 DEF ListenerInv, TypeOK
    <3>2. \A d \in Descriptors : d > FirstFd + (n + 1) <=> d > FirstFd + n /\ d # Lowest
      BY <1>0, <2>2 DEF Descriptors
    <3>3. Lowest # FirstFd /\ FirstFd + (n + 1) <= LastFd /\ n + 1 \in Nat
      BY <1>0, <2>2
    <3>4. \A d \in Descriptors : /\ (holder'[d] = "master" <=> d = FirstFd)
                                 /\ (holder'[d] = "free" <=> d > FirstFd + (n + 1))
      BY <2>1, <2>3, <3>1, <3>2, <3>3 DEF Order
    <3> QED
      BY <2>5, <3>3, <3>4, Zenon DEF Order
  <2>7. TypeOK' /\ main \notin {"load", "listener"}
    <3>1. client_socket' \in [Places -> {0} \cup Descriptors]
      <4>1. client_socket \in [Places -> {0} \cup Descriptors]
        BY DEF ListenerInv, TypeOK
      <4> QED
        BY <1>5, <2>2, <4>1 DEF Catch, NewClient
    <3>2. link' \in [Clients -> {"away", "waiting", "open"}]
      BY <1>5 DEF Catch, ListenerInv, TypeOK
    <3>3. holder' \in [Descriptors -> {"free", "master", "left"} \cup Clients]
      BY <2>2, <2>3, <2>4 DEF ListenerInv, TypeOK
    <3> QED
      BY <1>5, <2>3, <2>4, <3>1, <3>2, <3>3 DEF Catch, ListenerInv, TypeOK
  <2> QED
    BY <1>5, <2>1, <2>6, <2>7 DEF Catch, ListenerInv, Listens, Watched
<1>6. CASE Check
  BY <1>6 DEF Check, kernel, table, ListenerInv, Listens, Watched, Order, TypeOK
<1> QED
  BY <1>1, <1>2, <1>3, <1>4, <1>5, <1>6 DEF Listener

\* The clients'.
LEMMA SomeoneStep == ListenerInv /\ status = "up" /\ Someone => ListenerInv'
<1> SUFFICES ASSUME ListenerInv, status = "up",
                    NEW c \in Clients, Connect(c) \/ SendBytes(c) \/ Leave(c)
             PROVE  ListenerInv'
  BY DEF Someone
<1>1. CASE Connect(c)
  <2>1. Append(backlog, c) \in Seq(Clients \cup {"left"}) /\ Append(backlog, c) # <<>>
    BY DEF ListenerInv, TypeOK
  <2>2. Listens
    BY <1>1 DEF Connect, ListenerInv, Nothing
  <2>3. TypeOK'
    BY <1>1, <2>1 DEF Connect, table, ListenerInv, TypeOK
  <2> QED
    BY <1>1, <2>1, <2>2, <2>3 DEF Connect, table, ListenerInv, Listens, Watched, Order
<1>2. CASE SendBytes(c)
  BY <1>2 DEF SendBytes, table, ListenerInv, Listens, Nothing, Watched, Order, TypeOK
<1>3. CASE Leave(c)
  <2>1. /\ backlog' \in Seq(Clients \cup {"left"})
        /\ (backlog = <<>> <=> backlog' = <<>>)
    <3> DEFINE S == Clients \cup {"left"}
    <3>1. backlog \in Seq(S) /\ Len(backlog) \in Nat /\ DOMAIN backlog = 1 .. Len(backlog)
      BY DEF ListenerInv, TypeOK
    <3>2. backlog' = [p \in 1 .. Len(backlog) |-> IF backlog[p] = c THEN "left" ELSE backlog[p]]
      BY <1>3, <3>1 DEF Leave
    <3>3. \A p \in 1 .. Len(backlog) : backlog[p] \in S
      BY <3>1
    <3>4. backlog' \in [1 .. Len(backlog) -> S]
      BY <3>2, <3>3
    <3>5. backlog' \in Seq(S) /\ DOMAIN backlog' = 1 .. Len(backlog)
      <4>1. DOMAIN backlog' = 1 .. Len(backlog)
        BY <3>4
      <4>2. [1 .. Len(backlog) -> S] \in {[1 .. n -> S] : n \in Nat}
        BY <3>1
      <4>3. backlog' \in UNION {[1 .. n -> S] : n \in Nat}
        BY <3>4, <4>2, Zenon
      <4> QED
        BY <4>1, <4>3, SeqDef, Zenon
    <3>6. Len(backlog') = Len(backlog)
      BY <3>1, <3>5
    <3> QED
      BY <3>1, <3>5, <3>6, EmptySeq
  <2>2. \A d \in Descriptors : holder'[d] = IF holder[d] = c THEN "left" ELSE holder[d]
    BY <1>3 DEF Leave
  <2>3. c \notin {"free", "master", "left"}
    BY SuseAssumption
  <2>4. TypeOK'
    BY <1>3, <2>1 DEF Leave, table, ListenerInv, TypeOK
  <2>5. \A d \in Descriptors : /\ (holder'[d] = "master" <=> holder[d] = "master")
                               /\ (holder'[d] = "free" <=> holder[d] = "free")
    BY <2>2, <2>3
  <2>6. \A n \in Nat : Order(n) => Order(n)'
    <3>1. client_socket' = client_socket
      BY <1>3 DEF Leave, table
    <3> QED
      BY <2>5, <3>1, Zenon DEF Order
  <2>7. Nothing => Nothing'
    BY <1>3, <2>1, <2>5 DEF Leave, table, Nothing
  <2> QED
    BY <1>3, <2>1, <2>4, <2>6, <2>7 DEF Leave, table, ListenerInv, Listens, Watched
<1> QED
  BY <1>1, <1>2, <1>3

\* The calls that make lists and change threads leave the listener alone, and one that goes
\* wrong ends the process.
LEMMA SystemListener == ListenerInv /\ [SystemNext]_<<vars, sched>> => ListenerInv'
<1> SUFFICES ASSUME ListenerInv, [SystemNext]_<<vars, sched>> PROVE ListenerInv'
  OBVIOUS
<1>1. CASE UNCHANGED vars
  BY <1>1 DEF vars, ListenerInv, Listens, Nothing, Watched, Order, TypeOK
<1>2. CASE status = "up" /\ (Main \/ Scheduler \/ Listener \/ Someone)
  BY <1>2, MainStep, SchedulerStep, ListenerStep, SomeoneStep
<1>3. CASE ProcessEnds /\ UNCHANGED <<main, listener, scheduler, semphores, table>>
  BY <1>3, EmptySeq DEF ProcessEnds, table, ListenerInv, TypeOK
<1>4. ASSUME NEW t \in Tids, FinishThreadWild(t) PROVE ProcessEnds
  BY <1>4 DEF FinishThreadWild
<1> QED
  BY <1>1, <1>2, <1>3, <1>4 DEF SystemNext

LEMMA ListenerAlways == SystemSpec => []ListenerInv
<1>1. SystemInit => ListenerInv
  BY ListenerInit DEF SystemInit
<1> QED
  BY <1>1, SystemListener, PTL DEF SystemSpec

\* The table of the listener holds the oldest connections, each once, for every number of
\* clients, places and descriptors.
THEOREM OldestFirst == SystemSpec => []TableIsOldest
<1>1. ListenerInv => TableIsOldest
  <2> SUFFICES ASSUME ListenerInv, status = "up", NEW p \in Places
               PROVE  client_socket[p] = IF Cardinality(Given) >= p THEN FirstFd + p ELSE 0
    BY DEF TableIsOldest
  <2>1. CASE Listens
    <3>1. PICK n \in Nat : Order(n)
      BY <2>1 DEF ListenerInv
    <3>2. Cardinality(Given) = n
      BY <3>1, Positions DEF ListenerInv
    <3> QED
      BY <3>1, <3>2 DEF Order
  <2>2. CASE ~Listens
    <3>1. Nothing
      BY <2>2 DEF ListenerInv
    <3>2. Given = {}
      BY <3>1, SuseAssumption DEF Nothing, Given
    <3>3. Cardinality(Given) = 0
      BY <3>2, FS_EmptySet
    <3>4. p \in Nat \ {0}
      BY DEF Places
    <3> QED
      BY <3>1, <3>3, <3>4 DEF Nothing
  <2> QED
    BY <2>1, <2>2
<1> QED
  BY <1>1, ListenerAlways, PTL

\* The listener calls accept only when there is a connection to take.
THEOREM NeverWaits == SystemSpec => []AcceptNeverWaits
<1>1. ListenerInv => AcceptNeverWaits
  <2> SUFFICES ASSUME ListenerInv, status = "up", listener = "catch"
               PROVE  Master \in readfds /\ backlog # <<>>
    BY DEF AcceptNeverWaits
  <2>1. PICK n \in Nat : Order(n)
    BY DEF ListenerInv, Listens
  <2>2. Master = FirstFd
    BY <2>1, Positions DEF ListenerInv
  <2> QED
    BY <2>2 DEF ListenerInv, Watched
<1> QED
  BY <1>1, ListenerAlways, PTL
-------------------------------------------------------------------------------
(* The scheduler *)

States == {"READY", "EXEC", "BLOCKED", "EXIT"}
ThreadRecords == [pid : Pids, state : States, cpu_time : Times]

SchedTyped ==
  /\ part \in {"listener", "scheduler"}
  /\ thread \in Seq(ThreadRecords)
  /\ queue_new \in Seq(Tids) /\ queue_ready \in Seq(Tids) /\ queue_blocked \in Seq(Tids)
  /\ queue_exit \in Seq(DOMAIN programs)
  /\ DOMAIN programs \subseteq Pids
  /\ \A p \in DOMAIN programs : programs[p] \in {"NEW", "EXEC", "EXIT"}
  /\ program_exec \in {"none"} \cup DOMAIN programs
  /\ thread_exec \in {0} \cup Tids
  /\ multiprog \in Int /\ i \in Nat /\ asked \in Nat /\ readied \in 0 .. MaxReadied
  /\ inside \in {"none", "long", "short"}

\* NEW and READY share nothing, have nothing twice, and hold the threads that can run.
CanRun == {t \in Tids : thread[t].state = "READY"}
Apart == /\ IsInjective(queue_new) /\ IsInjective(queue_ready)
         /\ ToSet(queue_new) \cap ToSet(queue_ready) = {}
         /\ ToSet(queue_new) \cup ToSet(queue_ready) = CanRun

\* What an admission takes from the degree it adds to READY, and a dispatch gives it back;
\* only a thread that comes back from BLOCKED adds without taking.
Balance == multiprog + Len(queue_ready) = MaxMultiprog + readied

\* While there is room, each turn of the long-term loop has taken one thread.
Pass == /\ i >= 1
        /\ inside = "long" /\ Len(queue_ready) <= multiprog =>
             Len(queue_new) = asked - (i - 1) /\ i - 1 <= Len(queue_new) + 1

SchedInv == SchedTyped /\ Apart /\ Balance /\ HalfTheDegree /\ Pass

\* A thread changes its state, and nothing else does.
LEMMA StateChange ==
  ASSUME thread \in Seq(ThreadRecords), NEW t \in Tids, NEW st \in States
  PROVE  /\ State(t, st) \in Seq(ThreadRecords)
         /\ DOMAIN State(t, st) = Tids
         /\ \A u \in Tids : State(t, st)[u].state = IF u = t THEN st ELSE thread[u].state
<1>1. DOMAIN thread = 1 .. Len(thread) /\ thread[t] \in ThreadRecords /\ t \in 1 .. Len(thread)
  BY DEF Tids
<1>2. [thread[t] EXCEPT !.state = st] \in ThreadRecords
  BY <1>1 DEF ThreadRecords
<1>3. State(t, st) = [thread EXCEPT ![t] = [thread[t] EXCEPT !.state = st]]
  BY DEF State
<1>4. State(t, st) \in Seq(ThreadRecords)
  BY <1>1, <1>2, <1>3, ExceptSeq
<1>5. [thread[t] EXCEPT !.state = st].state = st
  BY <1>1 DEF ThreadRecords
<1> QED
  BY <1>1, <1>3, <1>4, <1>5 DEF Tids

\* The system starts with empty lists.
LEMMA SchedInit == SystemInit => SchedInv
<1> SUFFICES ASSUME SystemInit PROVE SchedInv
  OBVIOUS
<1>1. thread = <<>> /\ Tids = {} /\ CanRun = {}
  BY DEF SystemInit, Tids, CanRun
<1>2. DOMAIN programs = {}
  BY DEF SystemInit
<1>3. SchedTyped
  BY <1>1, <1>2, EmptySeq, SchedulerAssumption DEF SystemInit, SchedTyped
<1>4. ToSet(<<>>) = {} /\ IsInjective(<<>>)
  BY DEF ToSet, IsInjective
<1>5. Apart
  BY <1>1, <1>4 DEF SystemInit, Apart
<1>6. Balance /\ HalfTheDegree /\ Pass
  BY SchedulerAssumption, EmptySeq DEF SystemInit, Balance, HalfTheDegree, Pass
<1> QED
  BY <1>3, <1>5, <1>6 DEF SchedInv

\* A call that leaves the threads and the lists NEW and READY as they are.
LEMMA SideStep ==
  ASSUME SchedInv, SchedTyped', UNCHANGED <<thread, queue_new, queue_ready, multiprog, readied>>,
         inside' # "long", i' \in {i, 1}
  PROVE  SchedInv'
<1>1. Apart' /\ Balance' /\ HalfTheDegree'
  BY DEF SchedInv, Apart, CanRun, Tids, Balance, HalfTheDegree
<1> QED
  BY <1>1 DEF SchedInv, Pass

\* A call on a thread that runs: it is in neither list before or after.
LEMMA RunnerStep ==
  ASSUME SchedInv, SchedTyped', NEW t \in Tids, NEW st \in States \ {"READY"},
         thread[t].state = "EXEC", thread' = State(t, st),
         UNCHANGED <<queue_new, queue_ready, multiprog, readied, inside, i, asked>>
  PROVE  SchedInv'
<1>1. /\ DOMAIN State(t, st) = Tids
      /\ \A u \in Tids : State(t, st)[u].state = IF u = t THEN st ELSE thread[u].state
  BY StateChange DEF SchedInv, SchedTyped
<1>2. Tids' = Tids
  BY <1>1 DEF Tids
<1>3. CanRun' = CanRun
  BY <1>1, <1>2 DEF CanRun
<1>4. Apart'
  BY <1>3 DEF SchedInv, Apart
<1> QED
  BY <1>4 DEF SchedInv, Balance, HalfTheDegree, Pass

\* A new thread is put in NEW, and found nowhere else.
LEMMA CreateThreadStep ==
  ASSUME SchedInv, NEW p \in Pids, NEW time \in Times, CreateThread(p, time)
  PROVE  SchedInv'
<1> DEFINE r == [pid |-> p, state |-> "READY", cpu_time |-> time]
           t == Len(thread) + 1
<1>1. /\ thread \in Seq(ThreadRecords) /\ queue_new \in Seq(Tids) /\ queue_ready \in Seq(Tids)
      /\ queue_blocked \in Seq(Tids)
  BY DEF SchedInv, SchedTyped
<1>2. r \in ThreadRecords
  BY DEF ThreadRecords, States
<1>3. Tids = 1 .. Len(thread) /\ Len(thread) \in Nat
  BY <1>1 DEF Tids
<1>4. /\ thread' \in Seq(ThreadRecords) /\ Len(thread') = t /\ Tids' = 1 .. t
      /\ thread'[t] = r /\ \A u \in Tids : thread'[u] = thread[u]
  BY <1>1, <1>2, <1>3 DEF CreateThread, Tids
<1>5. Tids' = Tids \cup {t} /\ t \notin Tids /\ Tids \subseteq Tids'
  BY <1>3, <1>4
<1> HIDE DEF r, t
<1>6. queue_new' = Append(queue_new, t) /\ UNCHANGED <<queue_ready, queue_blocked>>
  BY <1>4 DEF CreateThread
<1>7. /\ queue_new \in Seq(Tids') /\ queue_ready \in Seq(Tids') /\ queue_blocked \in Seq(Tids')
  BY <1>1, <1>5, SeqMonotonic
<1>8. ToSet(queue_new) \subseteq Tids /\ ToSet(queue_ready) \subseteq Tids
  BY <1>1, LenProperties DEF ToSet
<1>9. /\ queue_new' \in Seq(Tids') /\ ToSet(queue_new') = ToSet(queue_new) \cup {t}
      /\ IsInjective(queue_new) => IsInjective(queue_new')
  <2>1. t \in Tids' /\ t \notin ToSet(queue_new)
    BY <1>5, <1>8
  <2>2. /\ Append(queue_new, t) \in Seq(Tids') /\ ToSet(Append(queue_new, t)) = ToSet(queue_new) \cup {t}
        /\ IsInjective(queue_new) /\ t \notin ToSet(queue_new) => IsInjective(Append(queue_new, t))
    BY <1>7, <2>1, Added
  <2> QED
    BY <1>6, <2>1, <2>2
<1>10. CanRun' = CanRun \cup {t}
  <2>1. thread'[t].state = "READY"
    BY <1>4 DEF r
  <2> QED
    BY <1>4, <1>5, <2>1 DEF CanRun
<1>11. Apart'
  BY <1>5, <1>6, <1>8, <1>9, <1>10 DEF SchedInv, Apart
<1>12. SchedTyped'
  BY <1>4, <1>5, <1>6, <1>7, <1>9 DEF CreateThread, SchedInv, SchedTyped
<1> QED
  BY <1>6, <1>11, <1>12 DEF CreateThread, SchedInv, Balance, HalfTheDegree, Pass

\* A thread comes back from BLOCKED, where it stays too.
LEMMA SetReadyStep ==
  ASSUME SchedInv, NEW t \in Tids, SetReadyThread(t)
  PROVE  SchedInv'
<1>1. /\ thread \in Seq(ThreadRecords) /\ queue_new \in Seq(Tids) /\ queue_ready \in Seq(Tids)
      /\ thread' = State(t, "READY") /\ queue_ready' = Append(queue_ready, t)
      /\ thread[t].state = "BLOCKED"
  BY DEF SchedInv, SchedTyped, SetReadyThread
<1>2. /\ thread' \in Seq(ThreadRecords) /\ Tids' = Tids
      /\ \A u \in Tids : thread'[u].state = IF u = t THEN "READY" ELSE thread[u].state
  BY <1>1, StateChange DEF Tids, States
<1>3. CanRun' = CanRun \cup {t} /\ t \notin CanRun
  BY <1>1, <1>2 DEF CanRun
<1>4. t \notin ToSet(queue_new) /\ t \notin ToSet(queue_ready)
  BY <1>3 DEF SchedInv, Apart
<1>5. /\ queue_ready' \in Seq(Tids) /\ ToSet(queue_ready') = ToSet(queue_ready) \cup {t}
      /\ Len(queue_ready') = Len(queue_ready) + 1 /\ Len(queue_ready) \in Nat
      /\ IsInjective(queue_ready) => IsInjective(queue_ready')
  BY <1>1, <1>4, Added, LenProperties
<1>6. Apart'
  BY <1>3, <1>4, <1>5 DEF SetReadyThread, SchedInv, Apart
<1>7. SchedTyped'
  BY <1>2, <1>5, SchedulerAssumption DEF SetReadyThread, SchedInv, SchedTyped
<1>8. Balance' /\ HalfTheDegree'
  <2>1. readied' = readied + 1 /\ multiprog' = multiprog
    BY DEF SetReadyThread
  <2>2. readied \in Nat /\ multiprog \in Int
    BY SchedulerAssumption DEF SchedInv, SchedTyped
  <2> QED
    BY <1>5, <2>1, <2>2, SchedulerAssumption DEF SchedInv, Balance, HalfTheDegree
<1> QED
  BY <1>6, <1>7, <1>8 DEF SetReadyThread, SchedInv, Pass

\* A turn of the long-term loop: the thread at the index goes over to READY, or stays.
LEMMA LongTermStep == SchedInv /\ LongTermTurn => SchedInv'
<1> SUFFICES ASSUME SchedInv, LongTermTurn PROVE SchedInv'
  OBVIOUS
<1>1. /\ queue_new \in Seq(Tids) /\ queue_ready \in Seq(Tids) /\ i \in Nat /\ i >= 1
      /\ multiprog \in Int /\ asked \in Nat /\ readied \in Nat
      /\ Len(queue_new) \in Nat /\ Len(queue_ready) \in Nat
  BY SchedulerAssumption, LenProperties DEF SchedInv, SchedTyped, Pass, LongTermTurn
<1>2. /\ inside = "long" /\ inside' = "long" /\ i <= Len(queue_new) /\ i' = i + 1
      /\ UNCHANGED <<thread, asked, readied>> /\ Tids' = Tids /\ CanRun' = CanRun
  BY DEF LongTermTurn, Tids, CanRun
<1>3. CASE Len(queue_ready) <= multiprog
  <2> DEFINE e == queue_new[i]
  <2>1. i \in 1 .. Len(queue_new) /\ e \in Tids
    BY <1>1, <1>2
  <2>2. /\ queue_new' = RemoveAt(queue_new, i) /\ queue_ready' = Append(queue_ready, e)
        /\ multiprog' = multiprog - 1
    BY <1>3 DEF LongTermTurn, Admits
  <2>3. /\ IsInjective(queue_new) /\ IsInjective(queue_ready)
        /\ ToSet(queue_new) \cap ToSet(queue_ready) = {}
        /\ ToSet(queue_new) \cup ToSet(queue_ready) = CanRun
    BY DEF SchedInv, Apart
  <2>4. e \in ToSet(queue_new)
    BY <1>1, <2>1, LenProperties DEF ToSet
  <2> HIDE DEF e
  <2>5. /\ queue_new' \in Seq(Tids) /\ Len(queue_new') = Len(queue_new) - 1
        /\ IsInjective(queue_new') /\ ToSet(queue_new') = ToSet(queue_new) \ {e}
    BY <1>1, <2>1, <2>2, <2>3, Removed, RemovedInjective DEF e
  <2>6. /\ queue_ready' \in Seq(Tids) /\ Len(queue_ready') = Len(queue_ready) + 1
        /\ IsInjective(queue_ready') /\ ToSet(queue_ready') = ToSet(queue_ready) \cup {e}
    BY <1>1, <2>1, <2>2, <2>3, <2>4, Added
  <2>7. Apart'
    BY <1>2, <2>3, <2>4, <2>5, <2>6 DEF Apart
  <2>8. SchedTyped'
    <3>1. multiprog' \in Int /\ i' \in Nat
      BY <1>1, <1>2, <2>2
    <3> QED
      BY <1>2, <2>5, <2>6, <3>1 DEF LongTermTurn, SchedInv, SchedTyped
  <2>9. Balance' /\ HalfTheDegree'
    <3>1. multiprog + Len(queue_ready) = MaxMultiprog + readied
      BY DEF SchedInv, Balance
    <3>2. /\ multiprog' + Len(queue_ready') = MaxMultiprog + readied'
          /\ 2 * Len(queue_ready') <= MaxMultiprog + 2 + 2 * readied'
      BY <1>1, <1>2, <1>3, <2>2, <2>6, <3>1, SchedulerAssumption
    <3> QED
      BY <3>2 DEF Balance, HalfTheDegree
  <2>10. Pass'
    BY <1>1, <1>2, <1>3, <2>5 DEF SchedInv, Pass
  <2> QED
    BY <2>7, <2>8, <2>9, <2>10 DEF SchedInv
<1>4. CASE ~(Len(queue_ready) <= multiprog)
  <2>1. UNCHANGED <<queue_new, queue_ready, multiprog>>
    BY <1>4 DEF LongTermTurn
  <2>2. Apart'
    BY <1>2, <2>1 DEF SchedInv, Apart
  <2>3. SchedTyped'
    BY <1>1, <1>2, <2>1 DEF LongTermTurn, SchedInv, SchedTyped
  <2>4. Balance' /\ HalfTheDegree' /\ Pass'
    BY <1>1, <1>2, <1>4, <2>1 DEF SchedInv, Balance, HalfTheDegree, Pass
  <2> QED
    BY <2>2, <2>3, <2>4 DEF SchedInv
<1> QED
  BY <1>3, <1>4

\* A turn of the short-term loop: the thread at the index leaves READY to run, or stays.
LEMMA ShortTermStep == SchedInv /\ ShortTermTurn => SchedInv'
<1> SUFFICES ASSUME SchedInv, ShortTermTurn PROVE SchedInv'
  OBVIOUS
<1>1. /\ queue_new \in Seq(Tids) /\ queue_ready \in Seq(Tids) /\ i \in Nat
      /\ multiprog \in Int /\ readied \in Nat /\ Len(queue_ready) \in Nat
      /\ thread \in Seq(ThreadRecords)
  BY SchedulerAssumption, LenProperties DEF SchedInv, SchedTyped
<1>2. inside = "short" /\ i >= 1 /\ i <= Len(queue_ready) /\ UNCHANGED <<queue_new, asked, readied>>
  BY DEF ShortTermTurn, SchedInv, Pass
<1>3. CASE Shortest = queue_ready[i]
  <2> DEFINE e == queue_ready[i]
  <2>1. i \in 1 .. Len(queue_ready) /\ e \in Tids
    BY <1>1, <1>2, <1>3
  <2>2. /\ queue_ready' = RemoveAt(queue_ready, i) /\ multiprog' = multiprog + 1
        /\ thread' = State(e, "EXEC") /\ thread_exec' = e /\ inside' = "none" /\ i' = 1
    BY <1>3 DEF ShortTermTurn, Dispatches
  <2>3. /\ IsInjective(queue_new) /\ IsInjective(queue_ready)
        /\ ToSet(queue_new) \cap ToSet(queue_ready) = {}
        /\ ToSet(queue_new) \cup ToSet(queue_ready) = CanRun
    BY DEF SchedInv, Apart
  <2>4. e \in ToSet(queue_ready)
    BY <1>1, <2>1, LenProperties DEF ToSet
  <2>5. /\ queue_ready' \in Seq(Tids) /\ Len(queue_ready') = Len(queue_ready) - 1
        /\ IsInjective(queue_ready') /\ ToSet(queue_ready') = ToSet(queue_ready) \ {e}
    BY <1>1, <2>1, <2>2, <2>3, Removed, RemovedInjective
  <2> HIDE DEF e
  <2>6. /\ thread' \in Seq(ThreadRecords) /\ Tids' = Tids
        /\ \A u \in Tids : thread'[u].state = IF u = e THEN "EXEC" ELSE thread[u].state
    BY <1>1, <2>1, <2>2, StateChange DEF Tids, States
  <2>7. CanRun' = CanRun \ {e}
    BY <2>6 DEF CanRun
  <2>8. Apart'
    BY <1>2, <2>3, <2>4, <2>5, <2>7 DEF Apart
  <2>9. SchedTyped'
    <3>1. multiprog' \in Int /\ i' \in Nat
      BY <1>1, <2>2
    <3> QED
      BY <2>1, <2>2, <2>5, <2>6, <3>1 DEF ShortTermTurn, SchedInv, SchedTyped
  <2>10. Balance' /\ HalfTheDegree'
    <3>1. /\ multiprog + Len(queue_ready) = MaxMultiprog + readied
          /\ 2 * Len(queue_ready) <= MaxMultiprog + 2 + 2 * readied
      BY DEF SchedInv, Balance, HalfTheDegree
    <3>2. /\ multiprog' + Len(queue_ready') = MaxMultiprog + readied'
          /\ 2 * Len(queue_ready') <= MaxMultiprog + 2 + 2 * readied'
      <4>1. multiprog' = multiprog + 1 /\ Len(queue_ready') = Len(queue_ready) - 1 /\ readied' = readied
        BY <1>2, <2>2, <2>5
      <4> QED
        BY <1>1, <3>1, <4>1, SchedulerAssumption
    <3> QED
      BY <3>2 DEF Balance, HalfTheDegree
  <2> QED
    BY <2>2, <2>8, <2>9, <2>10 DEF SchedInv, Pass
<1>4. CASE Shortest # queue_ready[i]
  <2>1. /\ UNCHANGED <<queue_ready, thread, thread_exec, multiprog, inside>> /\ i' = i + 1
    BY <1>4 DEF ShortTermTurn
  <2>2. Apart' /\ Tids' = Tids
    BY <1>2, <2>1 DEF SchedInv, Apart, CanRun, Tids
  <2>3. SchedTyped'
    BY <1>1, <1>2, <2>1 DEF ShortTermTurn, SchedInv, SchedTyped, Tids
  <2> QED
    BY <1>1, <1>2, <2>1, <2>2, <2>3 DEF SchedInv, Balance, HalfTheDegree, Pass
<1> QED
  BY <1>3, <1>4

\* Every step keeps the invariant of the lists.
LEMMA SchedStep == SchedInv /\ [SystemNext]_<<vars, sched>> => SchedInv'
<1> SUFFICES ASSUME SchedInv, [SystemNext]_<<vars, sched>> PROVE SchedInv'
  OBVIOUS
<1>1. CASE UNCHANGED sched
  <2>1. Tids' = Tids /\ CanRun' = CanRun
    BY <1>1 DEF sched, queues, Tids, CanRun
  <2> QED
    BY <1>1, <2>1 DEF sched, queues, SchedInv, SchedTyped, Apart, Balance, HalfTheDegree, Pass
<1>2. ASSUME NEW p \in Pids, CreateProgram(p) PROVE SchedInv'
  <2>1. Tids' = Tids
    BY <1>2 DEF CreateProgram, Tids
  <2>2. queue_exit \in Seq(DOMAIN programs')
    <3>1. DOMAIN programs \subseteq DOMAIN programs'
      BY <1>2 DEF CreateProgram
    <3> QED
      BY <3>1, SeqMonotonic DEF SchedInv, SchedTyped
  <2>3. SchedTyped'
    BY <1>2, <2>1, <2>2 DEF CreateProgram, queues, SchedInv, SchedTyped
  <2> QED
    BY <1>2, <2>3, SideStep DEF CreateProgram, queues
<1>3. ASSUME NEW p \in DOMAIN programs, ExecuteProgram(p) PROVE SchedInv'
  <2>1. Tids' = Tids
    BY <1>3 DEF ExecuteProgram, Tids
  <2>2. SchedTyped'
    BY <1>3, <2>1 DEF ExecuteProgram, queues, SchedInv, SchedTyped
  <2> QED
    BY <1>3, <2>2, SideStep DEF ExecuteProgram, queues
<1>4. CASE CallShortTerm
  <2>1. Tids' = Tids
    BY <1>4 DEF CallShortTerm, Tids
  <2>2. SchedTyped'
    BY <1>4, <2>1 DEF CallShortTerm, queues, SchedInv, SchedTyped
  <2> QED
    BY <1>4, <2>2, SideStep DEF CallShortTerm, queues
<1>5. CASE CallLongTerm
  <2>1. Tids' = Tids /\ CanRun' = CanRun
    BY <1>5 DEF CallLongTerm, Tids, CanRun
  <2>2. Len(queue_new) \in Nat
    BY LenProperties DEF SchedInv, SchedTyped
  <2>3. SchedTyped'
    BY <1>5, <2>1, <2>2 DEF CallLongTerm, queues, SchedInv, SchedTyped
  <2>4. Apart' /\ Balance' /\ HalfTheDegree'
    BY <1>5, <2>1 DEF CallLongTerm, queues, SchedInv, Apart, Balance, HalfTheDegree
  <2>5. Pass'
    BY <1>5, <2>2 DEF CallLongTerm, queues, Pass
  <2> QED
    BY <2>3, <2>4, <2>5 DEF SchedInv
<1>6. CASE Returns
  <2>1. Tids' = Tids /\ CanRun' = CanRun
    BY <1>6 DEF Returns, Tids, CanRun
  <2>2. SchedTyped'
    BY <1>6, <2>1 DEF Returns, queues, SchedInv, SchedTyped
  <2>3. Apart' /\ Balance' /\ HalfTheDegree'
    BY <1>6, <2>1 DEF Returns, queues, SchedInv, Apart, Balance, HalfTheDegree
  <2> QED
    BY <1>6, <2>2, <2>3 DEF Returns, SchedInv, Pass
<1>7. ASSUME NEW t \in Tids, BlockThread(t) PROVE SchedInv'
  <2>1. thread' = State(t, "BLOCKED") /\ queue_blocked' = Append(queue_blocked, t)
    BY <1>7 DEF BlockThread
  <2>2. thread' \in Seq(ThreadRecords) /\ Tids' = Tids
    BY <2>1, StateChange DEF SchedInv, SchedTyped, Tids, States
  <2>3. queue_blocked' \in Seq(Tids)
    BY <2>1, Added DEF SchedInv, SchedTyped
  <2>4. SchedTyped'
    BY <1>7, <2>2, <2>3 DEF BlockThread, SchedInv, SchedTyped
  <2> QED
    BY <1>7, <2>1, <2>4, RunnerStep DEF BlockThread, States
<1>8. ASSUME NEW t \in Tids, FinishThread(t) PROVE SchedInv'
  <2>1. /\ thread' = State(t, "EXIT") /\ queue_exit' = Append(queue_exit, thread[t].pid)
        /\ thread[t].pid \in DOMAIN programs
        /\ programs' = [programs EXCEPT ![thread[t].pid] = "EXIT"]
    BY <1>8 DEF FinishThread
  <2>2. thread' \in Seq(ThreadRecords) /\ Tids' = Tids
    BY <2>1, StateChange DEF SchedInv, SchedTyped, Tids, States
  <2>3. DOMAIN programs' = DOMAIN programs /\ queue_exit' \in Seq(DOMAIN programs)
    BY <2>1, Added DEF SchedInv, SchedTyped
  <2>4. \A p \in DOMAIN programs : programs'[p] \in {"NEW", "EXEC", "EXIT"}
    BY <2>1 DEF SchedInv, SchedTyped
  <2>5. SchedTyped'
    BY <1>8, <2>2, <2>3, <2>4 DEF FinishThread, SchedInv, SchedTyped
  <2> QED
    BY <1>8, <2>1, <2>5, RunnerStep DEF FinishThread, States
<1>9. ASSUME Calls PROVE SchedInv'
  BY <1>2, <1>3, <1>4, <1>5, <1>6, <1>7, <1>8, <1>9, CreateThreadStep, SetReadyStep,
     LongTermStep, ShortTermStep DEF Calls
<1>10. CASE SystemNext
  <2>1. UNCHANGED sched \/ Calls
    BY <1>10 DEF SystemNext, FinishThreadWild
  <2> QED
    BY <1>1, <1>9, <2>1
<1> QED
  BY <1>1, <1>10

LEMMA SchedAlways == SystemSpec => []SchedInv
BY SchedInit, SchedStep, PTL DEF SystemSpec

\* The lists and the threads stay in their types, in the listener too.
THEOREM SchedTypesCorrect == SystemSpec => []SchedTypeOK
<1>1. ListenerInv /\ SchedInv => SchedTypeOK
  BY DEF ListenerInv, SchedInv, SchedTyped, SchedTypeOK, ThreadRecords, States
<1> QED
  BY <1>1, ListenerAlways, SchedAlways, PTL

\* A thread that can run is in NEW or in READY, in one of them and once.
THEOREM InOnePlace == SystemSpec => []OnePlace
<1>1. SchedInv => OnePlace
  BY Joined DEF SchedInv, SchedTyped, Apart, CanRun, OnePlace
<1> QED
  BY <1>1, SchedAlways, PTL

\* A pass of the long-term scheduler that ends with room has taken half of the threads.
THEOREM HalfTaken == SystemSpec => []PassTakesHalf
<1>1. SchedInv => PassTakesHalf
  <2> SUFFICES ASSUME SchedInv, inside = "long", i > Len(queue_new), Len(queue_ready) <= multiprog
               PROVE  Len(queue_new) = asked \div 2
    BY DEF PassTakesHalf
  <2>1. Len(queue_new) \in Nat /\ i \in Nat /\ asked \in Nat
    BY LenProperties DEF SchedInv, SchedTyped
  <2>2. Len(queue_new) = asked - (i - 1) /\ i - 1 <= Len(queue_new) + 1
    BY DEF SchedInv, Pass
  <2>3. asked = 2 * Len(queue_new) \/ asked = 2 * Len(queue_new) + 1
    BY <2>1, <2>2
  <2> QED
    BY <2>1, <2>3
<1> QED
  BY <1>1, SchedAlways, PTL

\* Whatever MAX_MULTIPROG is, the scheduler fills READY to about half of it.
THEOREM HalfDegree == SystemSpec => []HalfTheDegree
<1>1. SchedInv => HalfTheDegree
  BY DEF SchedInv
<1> QED
  BY <1>1, SchedAlways, PTL
===============================================================================
