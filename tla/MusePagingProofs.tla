--------------------------- MODULE MusePagingProofs ---------------------------
(***************************************************************************)
(* Proofs about MusePaging.  The invariant that is inductive adds to the   *)
(* five that TLC checks one fact: the free frames are the last ones, since *)
(* they are taken from the lowest and nothing gives one back.  It is why   *)
(* pages that are taken one by one, with no look at whether they touch,    *)
(* make a contiguous segment.                                              *)
(***************************************************************************)
EXTENDS MusePaging, TLAPS, FiniteSetTheorems

\* The free frames are the last ones.
FreeAreLast == \E n \in 0 .. cantidad_paginas_totales :
                 FreeFrames = n .. cantidad_paginas_totales - 1

Safe == /\ TypeOK
        /\ OneSegmentEach
        /\ PageIsFrame
        /\ SegmentsDisjoint
        /\ SegmentsContiguous
        /\ FreeAreLast

\* There are finitely many pages.
LEMMA PagesTotal == cantidad_paginas_totales \in Nat
<1>1. ASSUME NEW a \in Nat, NEW b \in Nat \ {0} PROVE a \div b \in Nat
  BY SMT
<1> QED
  BY <1>1, MuseAssumption DEF cantidad_paginas_totales

\* The number of pages is an integer.
LEMMA PagesForInt == ASSUME NEW n \in Sizes PROVE PagesFor(n) \in Int
<1>1. ASSUME NEW a \in Nat, NEW b \in Nat \ {0} PROVE a \div b \in Nat /\ a % b \in 0 .. b - 1
  BY SMT
<1>2. n \in Nat
  BY MuseAssumption
<1>3. (n + Header) % W \in 0 .. W - 1
  BY <1>1, <1>2, MuseAssumption DEF Header
<1> DEFINE sum == (n + Header) % W
<1> HIDE DEF sum
<1>4. sum \in Nat /\ W - sum \in Nat
  BY <1>3, MuseAssumption DEF sum
<1>5. sum \div PAGE_SIZE \in Nat /\ (W - sum) \div PAGE_SIZE \in Nat
  BY <1>4, MuseAssumption, SMT
<1>6. (sum \div PAGE_SIZE) + 1 \in Int /\ 1 - ((W - sum) \div PAGE_SIZE) \in Int
  BY <1>5
<1> QED
  BY <1>6 DEF PagesFor, sum

\* The first k numbers of an interval are consecutive, and begin where it begins: what
\* k calls of asignarFrameLibre return (muse.c:310-320).
LEMMA FirstOfInterval ==
  ASSUME NEW a \in Nat, NEW b \in Nat, NEW k \in Nat, k > 0, a + k <= b
  PROVE  LET q == FirstOf(a .. b - 1, k)
         IN /\ q \in [1 .. k -> a .. b - 1]
            /\ q[1] = a
            /\ \A i, j \in 1 .. k : i < j => q[i] < q[j]
            /\ \A i \in 1 .. k - 1 : q[i + 1] = q[i] + 1
            /\ \A s \in a .. b - 1 : s <= q[k] <=> \E i \in 1 .. k : q[i] = s
<1> DEFINE S == a .. b - 1
           Below(s) == {r \in S : r < s}
           q == FirstOf(S, k)
<1>1. ASSUME NEW s \in S PROVE Cardinality(Below(s)) = s - a
  <2>1. Below(s) = a .. s - 1
    OBVIOUS
  <2>2. Cardinality(a .. s - 1) = IF a > s - 1 THEN 0 ELSE (s - 1) - a + 1
    BY FS_Interval
  <2> HIDE DEF Below
  <2> QED
    BY <2>1, <2>2
<1>2. ASSUME NEW i \in 1 .. k PROVE q[i] = a + i - 1
  <2>1. q[i] = CHOOSE s \in S : Cardinality(Below(s)) = i - 1
    BY DEF FirstOf
  <2> HIDE DEF q, Below
  <2>2. a + i - 1 \in S /\ Cardinality(Below(a + i - 1)) = i - 1
    <3>1. a + i - 1 \in S
      OBVIOUS
    <3>2. Cardinality(Below(a + i - 1)) = (a + i - 1) - a
      BY <1>1, <3>1
    <3> QED
      BY <3>1, <3>2
  <2>3. q[i] \in S /\ Cardinality(Below(q[i])) = i - 1
    BY <2>1, <2>2
  <2>4. Cardinality(Below(q[i])) = q[i] - a
    BY <1>1, <2>3
  <2> QED
    BY <2>3, <2>4
<1>3. q \in [1 .. k -> S]
  <2>1. q = [i \in 1 .. k |-> q[i]]
    BY DEF FirstOf
  <2>2. \A i \in 1 .. k : q[i] \in S
    <3> HIDE DEF q
    <3> QED
      BY <1>2
  <2> HIDE DEF q
  <2> QED
    BY <2>1, <2>2
<1> HIDE DEF q
<1>4. /\ \A i, j \in 1 .. k : i < j => q[i] < q[j]
      /\ q[1] = a
      /\ \A i \in 1 .. k - 1 : q[i + 1] = q[i] + 1
  BY <1>2
<1>5. \A s \in S : s <= q[k] <=> \E i \in 1 .. k : q[i] = s
  <2> TAKE s \in S
  <2>1. s <= q[k] => s - a + 1 \in 1 .. k /\ q[s - a + 1] = s
    BY <1>2
  <2>2. \A i \in 1 .. k : q[i] <= q[k]
    BY <1>2
  <2> QED
    BY <2>1, <2>2
<1> QED
  BY <1>3, <1>4, <1>5 DEF q

-------------------------------------------------------------------------------
(* The list of processes *)

\* procesar_id adds a process that is not there, with no segment, and disturbs no other
\* (muse.c:300-309).
LEMMA Registered ==
  ASSUME TypeOK, OneSegmentEach, NEW p \in Pids
  PROVE  LET l == procesar_id(p)
             at == Position(l, p)
         IN /\ l \in Seq(Processes)
            /\ Len(lista_procesos) <= Len(l)
            /\ at \in DOMAIN l /\ l[at].id = p
            /\ \A i, j \in DOMAIN l : l[i].id = l[j].id => i = j
            /\ \A i \in DOMAIN lista_procesos : l[i] = lista_procesos[i]
            /\ \A i \in DOMAIN l : i \notin DOMAIN lista_procesos =>
                 i = at /\ l[i].segments = <<>>
<1> DEFINE l == procesar_id(p)
           new == [id |-> p, segments |-> <<>>]
<1>1. lista_procesos \in Seq(Processes)
  BY DEF TypeOK
<1>2. \A i, j \in DOMAIN lista_procesos : lista_procesos[i].id = lista_procesos[j].id => i = j
  BY DEF OneSegmentEach
<1>3. CASE existe_proceso_en_lista(p)
  <2>1. l = lista_procesos
    BY <1>3 DEF procesar_id
  <2>2. PICK i \in DOMAIN lista_procesos : lista_procesos[i].id = p
    BY <1>3 DEF existe_proceso_en_lista
  <2>3. \A j \in DOMAIN lista_procesos : lista_procesos[j].id = p => i <= j
    BY <1>1, <1>2, <2>2
  <2>4. Position(l, p) \in DOMAIN l /\ l[Position(l, p)].id = p
    BY <2>1, <2>2, <2>3 DEF Position
  <2> QED
    BY <1>1, <1>2, <2>1, <2>4
<1>4. CASE ~existe_proceso_en_lista(p)
  <2>1. l = Append(lista_procesos, new)
    BY <1>4 DEF procesar_id
  <2>2. new \in Processes
    BY DEF Processes
  <2>3. /\ l \in Seq(Processes)
        /\ Len(l) = Len(lista_procesos) + 1
        /\ l[Len(lista_procesos) + 1] = new
        /\ \A i \in DOMAIN lista_procesos : l[i] = lista_procesos[i]
    <3> HIDE DEF new
    <3> QED
      BY <1>1, <2>1, <2>2
  <2>4. DOMAIN l = 1 .. Len(lista_procesos) + 1 /\ DOMAIN lista_procesos = 1 .. Len(lista_procesos)
        /\ Len(lista_procesos) \in Nat
    BY <1>1, <2>3
  <2>5. \A i \in DOMAIN lista_procesos : l[i].id # p
    BY <1>4, <2>3 DEF existe_proceso_en_lista
  <2>6. new.id = p /\ new.segments = <<>>
    OBVIOUS
  <2> HIDE DEF l, new
  <2>7. Position(l, p) = Len(lista_procesos) + 1
    <3> DEFINE last == Len(lista_procesos) + 1
    <3>1. last \in DOMAIN l /\ l[last].id = p
      BY <2>3, <2>4, <2>6
    <3>2. \A i \in DOMAIN l : l[i].id = p => i = last
      BY <2>4, <2>5
    <3> HIDE DEF last
    <3>3. last \in Nat
      BY <2>4 DEF last
    <3>4. /\ last \in DOMAIN l /\ l[last].id = p
          /\ \A j \in DOMAIN l : l[j].id = p => last <= j
      BY <3>1, <3>2, <3>3
    <3>5. Position(l, p) \in DOMAIN l /\ l[Position(l, p)].id = p
      BY <3>4 DEF Position
    <3> QED
      BY <3>2, <3>5 DEF last
  <2>8. \A i, j \in DOMAIN l : l[i].id = l[j].id => i = j
    <3> TAKE i, j \in DOMAIN l
    <3> HAVE l[i].id = l[j].id
    <3>1. CASE i \in DOMAIN lista_procesos /\ j \in DOMAIN lista_procesos
      BY <3>1, <2>3, <1>2
    <3>2. CASE i \notin DOMAIN lista_procesos \/ j \notin DOMAIN lista_procesos
      BY <3>2, <2>3, <2>4, <2>5, <2>6
    <3> QED
      BY <3>1, <3>2
  <2> QED
    BY <2>3, <2>4, <2>6, <2>7, <2>8 DEF l
<1> QED
  BY <1>3, <1>4

\* What a segment added to a process without one changes (muse.c:64-73).
LEMMA SegmentAdded ==
  ASSUME TypeOK, OneSegmentEach, NEW p \in Pids, NEW pages \in PageLists,
         Segments(p) = <<>>
  PROVE  LET l == WithSegment(p, pages)
         IN /\ l \in Seq(Processes)
            /\ \A i, j \in DOMAIN l : l[i].id = l[j].id => i = j
            /\ \E at \in DOMAIN l :
                 /\ l[at].segments = <<pages>>
                 /\ \A i \in DOMAIN l : i # at =>
                      i \in DOMAIN lista_procesos /\ l[i] = lista_procesos[i]
<1> DEFINE l0 == procesar_id(p)
           at == Position(l0, p)
           l == WithSegment(p, pages)
<1>1. /\ l0 \in Seq(Processes)
      /\ Len(lista_procesos) <= Len(l0)
      /\ at \in DOMAIN l0 /\ l0[at].id = p
      /\ \A i, j \in DOMAIN l0 : l0[i].id = l0[j].id => i = j
      /\ \A i \in DOMAIN lista_procesos : l0[i] = lista_procesos[i]
      /\ \A i \in DOMAIN l0 : i \notin DOMAIN lista_procesos => i = at
  BY Registered
<1>2. l0[at].segments = <<>>
  BY DEF Segments
<1>3. l = [l0 EXCEPT ![at].segments = Append(@, pages)]
  BY DEF WithSegment
<1> HIDE DEF l0, at, l
<1>4. l0[at] \in Processes
  BY <1>1
<1> DEFINE entry == [l0[at] EXCEPT !.segments = <<pages>>]
<1>5. Append(<<>>, pages) = <<pages>>
  BY SMT DEF PageLists
<1>6. l = [l0 EXCEPT ![at] = entry]
  BY <1>2, <1>3, <1>4, <1>5
<1>7. <<pages>> \in Seq(PageLists)
  OBVIOUS
<1>8. entry \in Processes /\ entry.segments = <<pages>> /\ entry.id = l0[at].id
  <2>1. <<pages>> \in Seq(PageLists)
    BY <1>7
  <2> QED
    BY <1>4, <2>1, Zenon DEF Processes
<1> HIDE DEF entry
<1>9. /\ l \in Seq(Processes)
      /\ DOMAIN l = DOMAIN l0
      /\ l[at] = entry
      /\ \A i \in DOMAIN l : i # at => l[i] = l0[i]
  BY <1>1, <1>6, <1>8
<1>10. \A i \in DOMAIN l : l[i].id = l0[i].id
  BY <1>8, <1>9
<1>11. \A i, j \in DOMAIN l : l[i].id = l[j].id => i = j
  BY <1>1, <1>9, <1>10
<1>12. \A i \in DOMAIN l : i # at => i \in DOMAIN lista_procesos /\ l[i] = lista_procesos[i]
  BY <1>1, <1>9
<1> QED
  BY <1>1, <1>8, <1>9, <1>11, <1>12 DEF l

-------------------------------------------------------------------------------
(* The steps *)

\* A state whose frames are those of a safe one, and whose list has new entries or
\* segments without pages, is safe.
LEMMA ListOnly ==
  ASSUME Safe, NEW l \in Seq(Processes), lista_procesos' = l, UNCHANGED frames,
         status' \in {"up", "hung", "wild", "exited"},
         \A i, j \in DOMAIN l : l[i].id = l[j].id => i = j,
         \A i \in DOMAIN l : \/ i \in DOMAIN lista_procesos /\ l[i] = lista_procesos[i]
                             \/ l[i].segments = <<>>
                             \/ l[i].segments = << <<>> >>
  PROVE  Safe'
<1>1. TypeOK' /\ PageIsFrame' /\ FreeAreLast'
  BY DEF Safe, TypeOK, PageIsFrame, FreeAreLast, FreeFrames, frames
<1>2. \A i \in DOMAIN l : \A s \in DOMAIN l[i].segments : \A k \in DOMAIN l[i].segments[s] :
        i \in DOMAIN lista_procesos /\ l[i] = lista_procesos[i]
  OBVIOUS
<1>3. OneSegmentEach'
  <2>1. Len(<<>>) = 0 /\ Len(<< <<>> >>) = 1
    OBVIOUS
  <2>2. ASSUME NEW i \in DOMAIN l PROVE Len(l[i].segments) <= 1
    <3>1. CASE l[i] = lista_procesos[i] /\ i \in DOMAIN lista_procesos
      BY <3>1 DEF Safe, OneSegmentEach
    <3>2. CASE l[i].segments = <<>>
      BY <3>2, <2>1
    <3>3. CASE l[i].segments = << <<>> >>
      BY <3>3, <2>1
    <3> QED
      BY <3>1, <3>2, <3>3
  <2> QED
    BY <2>2 DEF OneSegmentEach
<1>4. SegmentsDisjoint'
  BY <1>2 DEF Safe, SegmentsDisjoint, frames
<1>5. SegmentsContiguous'
  <2> SUFFICES ASSUME NEW i \in DOMAIN l, NEW s \in DOMAIN l[i].segments,
                      NEW k \in 1 .. Len(l[i].segments[s]) - 1
               PROVE  l[i].segments[s][k + 1] = l[i].segments[s][k] + 1
    BY DEF SegmentsContiguous
  <2>1. l[i].segments # <<>> /\ l[i].segments # << <<>> >>
    OBVIOUS
  <2>2. i \in DOMAIN lista_procesos /\ l[i] = lista_procesos[i]
    BY <2>1
  <2> QED
    BY <2>2 DEF Safe, SegmentsContiguous
<1> QED
  BY <1>1, <1>3, <1>4, <1>5 DEF Safe

\* GET and COPY register a process.
LEMMA AccessSafe == ASSUME Safe, NEW p \in Pids, Access(p) PROVE Safe'
<1> DEFINE l == procesar_id(p)
<1>1. TypeOK /\ OneSegmentEach
  BY DEF Safe
<1>2. /\ l \in Seq(Processes)
      /\ \A i, j \in DOMAIN l : l[i].id = l[j].id => i = j
      /\ \A i \in DOMAIN lista_procesos : l[i] = lista_procesos[i]
      /\ \A i \in DOMAIN l : i \notin DOMAIN lista_procesos => l[i].segments = <<>>
  BY <1>1, Registered
<1>3. lista_procesos' = l /\ UNCHANGED frames /\ status' \in {"up", "hung", "wild", "exited"}
  BY DEF Access
<1> HIDE DEF l
<1> QED
  BY <1>2, <1>3, ListOnly

\* A process gets a segment without pages.
LEMMA EmptySegmentSafe ==
  ASSUME Safe, NEW p \in Pids, Segments(p) = <<>>, lista_procesos' = WithSegment(p, <<>>),
         UNCHANGED frames, status' \in {"up", "hung", "wild"}
  PROVE  Safe'
<1> DEFINE l == WithSegment(p, <<>>)
<1>1. TypeOK /\ OneSegmentEach /\ <<>> \in PageLists
  BY DEF Safe, PageLists
<1>2. /\ l \in Seq(Processes)
      /\ \A i, j \in DOMAIN l : l[i].id = l[j].id => i = j
      /\ \E at \in DOMAIN l :
           /\ l[at].segments = << <<>> >>
           /\ \A i \in DOMAIN l : i # at =>
                i \in DOMAIN lista_procesos /\ l[i] = lista_procesos[i]
  BY <1>1, SegmentAdded
<1> HIDE DEF l
<1>3. lista_procesos' = l
  BY DEF l
<1> QED
  BY <1>2, <1>3, ListOnly

\* A process gets a segment with pages.
LEMMA MallocFirstSafe ==
  ASSUME Safe, NEW p \in Pids, NEW n \in Sizes, MallocFirst(p, n) PROVE Safe'
<1> DEFINE N == cantidad_paginas_totales
           k == PagesFor(n)
           l == WithSegment(p, FirstOf(FreePages, k))
<1>1. N \in Nat /\ k \in Nat /\ k > 0
  BY PagesTotal, PagesForInt DEF MallocFirst
<1>2. PICK a \in 0 .. N : FreeFrames = a .. N - 1
  BY DEF Safe, FreeAreLast
<1>3. FreePages = a .. N - 1
  BY <1>2 DEF Safe, PageIsFrame, FreePages, FreeFrames
<1>4. a + k <= N
  <2>1. Cardinality(a .. N - 1) >= k
    BY <1>1, <1>2 DEF MallocFirst, existe_memoria
  <2>2. Cardinality(a .. N - 1) = IF a > N - 1 THEN 0 ELSE (N - 1) - a + 1
    BY <1>1, FS_Interval
  <2> HIDE DEF N, k
  <2> QED
    BY <2>1, <2>2, <1>1
<1> DEFINE q == FirstOf(a .. N - 1, k)
<1>5. /\ q \in [1 .. k -> a .. N - 1]
      /\ \A i, j \in 1 .. k : i < j => q[i] < q[j]
      /\ \A i \in 1 .. k - 1 : q[i + 1] = q[i] + 1
      /\ \A s \in a .. N - 1 : s <= q[k] <=> \E i \in 1 .. k : q[i] = s
  <2> HIDE DEF N, k
  <2> QED
    BY <1>1, <1>4, FirstOfInterval
<1>6. /\ frame_libre' = [i \in Frames |-> frame_libre[i] /\ \A j \in 1 .. k : q[j] # i]
      /\ page_libre' = [i \in Frames |-> page_libre[i] /\ \A j \in 1 .. k : q[j] # i]
      /\ page_frame' = [i \in Frames |->
                           IF \E j \in 1 .. k : q[j] = i
                           THEN q[CHOOSE j \in 1 .. k : q[j] = i] ELSE page_frame[i]]
  BY <1>2, <1>3 DEF MallocFirst, TakeFrames
<1>7. lista_procesos' = l /\ status' \in {"up", "hung", "wild", "exited"}
  BY DEF MallocFirst, Walked
<1>8. Frames = 0 .. N - 1 /\ a .. N - 1 \subseteq Frames
  BY <1>1 DEF Frames
<1>9. l = WithSegment(p, q)
  BY <1>3
<1> HIDE DEF N, k, q, l
<1>10. q \in PageLists /\ Len(q) = k /\ DOMAIN q = 1 .. k
  <2>1. q \in [1 .. k -> Frames]
    BY <1>5, <1>8
  <2> QED
    BY <2>1, <1>1 DEF PageLists
<1>11. TypeOK /\ OneSegmentEach /\ Segments(p) = <<>>
  BY DEF Safe, MallocFirst
<1> DEFINE Only(x, at) == /\ x[at].segments = <<q>>
                          /\ \A i \in DOMAIN x : i # at =>
                               i \in DOMAIN lista_procesos /\ x[i] = lista_procesos[i]
           Added(x) == /\ x \in Seq(Processes)
                       /\ \A i, j \in DOMAIN x : x[i].id = x[j].id => i = j
                       /\ \E at \in DOMAIN x : Only(x, at)
<1>a. Added(WithSegment(p, q))
  BY <1>10, <1>11, SegmentAdded
<1>b. Added(l)
  <2> HIDE DEF Added
  <2> QED
    BY <1>9, <1>a
<1>12. PICK at \in DOMAIN l :
         /\ l[at].segments = <<q>>
         /\ \A i \in DOMAIN l : i # at =>
              i \in DOMAIN lista_procesos /\ l[i] = lista_procesos[i]
  BY <1>b
<1>13. /\ l \in Seq(Processes)
       /\ \A i, j \in DOMAIN l : l[i].id = l[j].id => i = j
  BY <1>b
<1> HIDE DEF Only, Added
<1>14. \A i \in Frames : (\E j \in 1 .. k : q[j] = i) =>
         page_frame'[i] = i /\ ~page_libre'[i] /\ ~frame_libre'[i]
  BY <1>6
<1>15. \A i \in Frames : ~(\E j \in 1 .. k : q[j] = i) =>
         /\ page_frame'[i] = page_frame[i]
         /\ page_libre'[i] = (page_libre[i] /\ TRUE)
         /\ frame_libre'[i] = (frame_libre[i] /\ TRUE)
  BY <1>6
<1>16. TypeOK'
  <2>1. frame_libre' \in [Frames -> BOOLEAN] /\ page_libre' \in [Frames -> BOOLEAN]
    BY <1>6
  <2>2. \A i \in Frames : page_frame'[i] \in Frames \cup {-1}
    BY <1>11, <1>14, <1>15 DEF TypeOK
  <2>3. page_frame' \in [Frames -> Frames \cup {-1}]
    BY <1>6, <2>2
  <2> QED
    BY <1>7, <1>13, <2>1, <2>3 DEF TypeOK
<1>17. PageIsFrame'
  <2>1. \A i \in Frames : (page_libre[i] <=> frame_libre[i]) /\ (~page_libre[i] => page_frame[i] = i)
    BY DEF Safe, PageIsFrame
  <2>2. \A i \in Frames : (page_libre'[i] <=> frame_libre'[i]) /\ (~page_libre'[i] => page_frame'[i] = i)
    BY <2>1, <1>14, <1>15
  <2> QED
    BY <2>2 DEF PageIsFrame
<1>18. OneSegmentEach'
  <2>1. Len(<<q>>) = 1
    OBVIOUS
  <2>2. ASSUME NEW i \in DOMAIN l PROVE Len(l[i].segments) <= 1
    <3>1. CASE i = at
      BY <3>1, <1>12, <2>1
    <3>2. CASE i # at
      BY <3>2, <1>11, <1>12 DEF OneSegmentEach
    <3> QED
      BY <3>1, <3>2
  <2> QED
    BY <1>7, <1>13, <2>2 DEF OneSegmentEach
<1>19. SegmentsContiguous'
  <2> SUFFICES ASSUME NEW i \in DOMAIN l, NEW s \in DOMAIN l[i].segments,
                      NEW m \in 1 .. Len(l[i].segments[s]) - 1
               PROVE  l[i].segments[s][m + 1] = l[i].segments[s][m] + 1
    BY <1>7 DEF SegmentsContiguous
  <2>1. CASE i = at
    <3>1. l[i].segments[s] = q
      BY <2>1, <1>12
    <3> QED
      BY <3>1, <1>5, <1>10
  <2>2. CASE i # at
    <3>1. i \in DOMAIN lista_procesos /\ l[i] = lista_procesos[i]
      BY <2>2, <1>12
    <3> QED
      BY <3>1 DEF Safe, SegmentsContiguous
  <2> QED
    BY <2>1, <2>2
<1>20. SegmentsDisjoint'
  <2>1. ASSUME NEW i \in DOMAIN l, NEW s \in DOMAIN l[i].segments,
               NEW m \in DOMAIN l[i].segments[s]
        PROVE  IF i = at THEN s = 1 /\ l[i].segments[s] = q /\ m \in 1 .. k
               ELSE /\ i \in DOMAIN lista_procesos /\ l[i] = lista_procesos[i]
                    /\ l[i].segments[s][m] \in Frames
                    /\ ~frame_libre[l[i].segments[s][m]]
    <3>1. CASE i = at
      BY <3>1, <1>10, <1>12
    <3>2. CASE i # at
      <4>1. i \in DOMAIN lista_procesos /\ l[i] = lista_procesos[i]
        BY <3>2, <1>12
      <4>2. ~frame_libre[l[i].segments[s][m]]
        BY <4>1 DEF Safe, SegmentsDisjoint
      <4>3. l[i] \in Processes
        BY <1>13
      <4>4. l[i].segments[s] \in Seq(Frames)
        BY <4>3 DEF Processes, PageLists
      <4>5. l[i].segments[s][m] \in Frames
        BY <4>4
      <4> QED
        BY <3>2, <4>1, <4>2, <4>5
    <3> QED
      BY <3>1, <3>2
  <2>2. ASSUME NEW i \in DOMAIN l, NEW s \in DOMAIN l[i].segments,
               NEW m \in DOMAIN l[i].segments[s]
        PROVE  ~frame_libre'[l[i].segments[s][m]]
    <3>1. CASE i = at
      <4>1. l[i].segments[s][m] \in Frames /\ \E j \in 1 .. k : q[j] = l[i].segments[s][m]
        BY <3>1, <2>1, <1>5, <1>8
      <4> QED
        BY <4>1, <1>14
    <3>2. CASE i # at
      BY <3>2, <2>1, <1>6
    <3> QED
      BY <3>1, <3>2
  <2>3. \A j \in 1 .. k : q[j] \in Frames /\ frame_libre[q[j]]
    BY <1>2, <1>5 DEF FreeFrames
  <2>4. ASSUME NEW i \in DOMAIN l, NEW j \in DOMAIN l,
               NEW s \in DOMAIN l[i].segments, NEW t \in DOMAIN l[j].segments,
               NEW m \in DOMAIN l[i].segments[s], NEW o \in DOMAIN l[j].segments[t],
               l[i].segments[s][m] = l[j].segments[t][o]
        PROVE  i = j /\ s = t /\ m = o
    <3>1. CASE i = at /\ j = at
      <4>1. s = 1 /\ t = 1 /\ m \in 1 .. k /\ o \in 1 .. k /\ q[m] = q[o]
        BY <3>1, <2>1, <2>4
      <4>2. m = o
        <5>1. q[m] \in Nat /\ q[o] \in Nat
          BY <4>1, <1>5
        <5> QED
          BY <4>1, <5>1, <1>5
      <4> QED
        BY <3>1, <4>1, <4>2
    <3>2. CASE i = at /\ j # at
      BY <3>2, <2>1, <2>3, <2>4
    <3>3. CASE i # at /\ j = at
      BY <3>3, <2>1, <2>3, <2>4
    <3>4. CASE i # at /\ j # at
      <4>1. /\ i \in DOMAIN lista_procesos /\ l[i] = lista_procesos[i]
            /\ j \in DOMAIN lista_procesos /\ l[j] = lista_procesos[j]
        BY <3>4, <1>12
      <4> QED
        BY <4>1, <2>4 DEF Safe, SegmentsDisjoint
    <3> QED
      BY <3>1, <3>2, <3>3, <3>4
  <2> QED
    BY <2>2, <2>4, <1>7 DEF SegmentsDisjoint
<1>21. FreeAreLast'
  <2>1. q[k] \in a .. N - 1
    BY <1>1, <1>5
  <2>2. \A i \in Frames : frame_libre'[i] <=> (i \in a .. N - 1 /\ i > q[k])
    <3> TAKE i \in Frames
    <3>1. frame_libre[i] <=> i \in a .. N - 1
      BY <1>2 DEF FreeFrames
    <3>2. i \in a .. N - 1 => (i <= q[k] <=> \E j \in 1 .. k : q[j] = i)
      BY <1>5
    <3>3. frame_libre'[i] <=> (frame_libre[i] /\ ~ \E j \in 1 .. k : q[j] = i)
      BY <1>6
    <3>4. i \in Int
      BY <1>8
    <3> QED
      BY <3>1, <3>2, <3>3, <3>4, <2>1
  <2>3. FreeFrames' = q[k] + 1 .. N - 1
    BY <2>1, <2>2, <1>1, <1>8 DEF FreeFrames
  <2>4. q[k] + 1 \in 0 .. N
    BY <2>1, <1>1
  <2> QED
    BY <2>3, <2>4 DEF FreeAreLast, N
<1> QED
  BY <1>16, <1>17, <1>18, <1>19, <1>20, <1>21 DEF Safe

\* The five invariants and the one they need hold together (muse.c:23-254).
THEOREM Invariance == Spec => []Safe
<1>1. Init => Safe
  <2> SUFFICES ASSUME Init PROVE Safe
    OBVIOUS
  <2>1. TypeOK
    BY DEF Init, TypeOK
  <2>2. FreeFrames = 0 .. cantidad_paginas_totales - 1
    BY DEF Init, FreeFrames, Frames
  <2>3. FreeAreLast
    BY <2>2, PagesTotal DEF FreeAreLast
  <2>4. OneSegmentEach /\ PageIsFrame /\ SegmentsDisjoint /\ SegmentsContiguous
    BY DEF Init, OneSegmentEach, PageIsFrame, SegmentsDisjoint, SegmentsContiguous
  <2> QED
    BY <2>1, <2>3, <2>4 DEF Safe
<1>2. Safe /\ [Next]_vars => Safe'
  <2> SUFFICES ASSUME Safe, [Next]_vars PROVE Safe'
    OBVIOUS
  <2>1. ASSUME NEW p \in Pids, NEW n \in Sizes, MallocFirst(p, n) PROVE Safe'
    BY <2>1, MallocFirstSafe
  <2>2. ASSUME NEW p \in Pids, NEW n \in Sizes, MallocNone(p, n) PROVE Safe'
    <3>1. /\ Segments(p) = <<>> /\ lista_procesos' = WithSegment(p, <<>>)
          /\ UNCHANGED frames /\ status' \in {"up", "hung", "wild"}
      BY <2>2 DEF MallocNone
    <3> QED
      BY <3>1, EmptySegmentSafe
  <2>3. ASSUME NEW p \in Pids, NEW n \in Sizes, MallocWild(p, n) PROVE Safe'
    <3>1. /\ Segments(p) = <<>> /\ lista_procesos' = WithSegment(p, <<>>)
          /\ UNCHANGED frames /\ status' \in {"up", "hung", "wild"}
      BY <2>3 DEF MallocWild, Walked
    <3> QED
      BY <3>1, EmptySegmentSafe
  <2>4. ASSUME NEW p \in Pids, Access(p) PROVE Safe'
    BY <2>4, AccessSafe
  <2>5. ASSUME UNCHANGED <<lista_procesos, frames>>,
               status' \in {"up", "hung", "wild", "exited"}
        PROVE  Safe'
    BY <2>5 DEF Safe, TypeOK, OneSegmentEach, PageIsFrame, SegmentsDisjoint,
                SegmentsContiguous, FreeAreLast, FreeFrames, frames
  <2>6. ASSUME NEW p \in Pids, MallocAgain(p) \/ Memfree(p) PROVE Safe'
    BY <2>5, <2>6 DEF MallocAgain, Memfree, Walked
  <2>7. ASSUME Disconnect \/ Gone \/ UNCHANGED vars PROVE Safe'
    <3>1. status \in {"up", "hung", "wild", "exited"}
      BY DEF Safe, TypeOK
    <3> QED
      BY <3>1, <2>5, <2>7 DEF Disconnect, Gone, vars
  <2> QED
    BY <2>1, <2>2, <2>3, <2>4, <2>6, <2>7 DEF Next, Handle
<1> QED
  BY <1>1, <1>2, PTL DEF Spec

\* Every variable keeps its type.
THEOREM TypeCorrect == Spec => []TypeOK
<1>1. Safe => TypeOK
  BY DEF Safe
<1> QED
  BY <1>1, Invariance, PTL

\* The number of a page is the number of its frame (muse.c:481).
THEOREM PagesAreFrames == Spec => []PageIsFrame
<1>1. Safe => PageIsFrame
  BY DEF Safe
<1> QED
  BY <1>1, Invariance, PTL

\* No page belongs to two segments (muse.c:356-379).
THEOREM PagesBelongToOne == Spec => []SegmentsDisjoint
<1>1. Safe => SegmentsDisjoint
  BY DEF Safe
<1> QED
  BY <1>1, Invariance, PTL

\* The frames of a segment follow one another (muse.c:399, 426, 442).
THEOREM SegmentsAreContiguous == Spec => []SegmentsContiguous
<1>1. Safe => SegmentsContiguous
  BY DEF Safe
<1> QED
  BY <1>1, Invariance, PTL

\* A process has one entry and at most one segment (muse.c:300-309, 438-441).
THEOREM OneSegmentOnly == Spec => []OneSegmentEach
<1>1. Safe => OneSegmentEach
  BY DEF Safe
<1> QED
  BY <1>1, Invariance, PTL
===============================================================================
