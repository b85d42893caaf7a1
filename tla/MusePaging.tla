------------------------------ MODULE MusePaging ------------------------------
(***************************************************************************)
(* muse, the memory server: which process owns which segment, page and     *)
(* frame.  The bytes of the arena are left out: what they decide here is   *)
(* only whether a handler that reads or writes them comes back, loops for  *)
(* ever, or leaves the arena, after which nothing more is said of it.      *)
(*                                                                         *)
(* muse.c has the leftovers of a merge: lines 502-513 repeat the search    *)
(* they interrupt and the last function is not closed.  The model follows  *)
(* the one reading with balanced braces, without those lines.              *)
(***************************************************************************)
EXTENDS Integers, Sequences, FiniteSets

CONSTANTS Pids,         \* the process ids the requests carry
          Sizes,        \* the sizes muse_alloc is called with
          W,            \* sizes are unsigned below W (2^32 in the code)
          PAGE_SIZE, MEMORY_SIZE, SWAP_SIZE   \* muse.config

(* muse.config holds nonnegative numbers, and a page has a size. *)
ASSUME MuseAssumption == /\ W \in Nat \ {0}
                         /\ Sizes \subseteq 0 .. W - 1
                         /\ PAGE_SIZE \in Nat \ {0}
                         /\ MEMORY_SIZE \in Nat /\ SWAP_SIZE \in Nat

Header == 5               \* sizeof(t_heapMetadata), packed

VARIABLES lista_procesos, \* <<[id, segments]>>; a segment is the list of the indices
                          \* (indiceVector) of its pages
          frame_libre,    \* vectorFrames[i].libre
          page_libre,     \* vectorAtributoPaginas[i].libre
          page_frame,     \* vectorAtributoPaginas[i].frame
          status          \* "up", "hung", "wild" (dead, or out of its memory), "exited"

frames == <<frame_libre, page_libre, page_frame>>
vars == <<lista_procesos, frames, status>>

cantidad_paginas_totales == (MEMORY_SIZE \div PAGE_SIZE) + (SWAP_SIZE \div PAGE_SIZE)
Frames == 0 .. cantidad_paginas_totales - 1

Init == /\ lista_procesos = <<>>
        /\ frame_libre = [i \in Frames |-> TRUE]
        /\ page_libre = [i \in Frames |-> TRUE]
        /\ page_frame = [i \in Frames |-> -1]
        /\ status = "up"
-------------------------------------------------------------------------------
(* Processes *)

existe_proceso_en_lista(p) == \E i \in DOMAIN lista_procesos : lista_procesos[i].id = p

\* A slip: the search is forgotten.
AlwaysANode(p) == Append(lista_procesos, [id |-> p, segments |-> <<>>])

\* procesar_id: the list, with p in it.
procesar_id(p) ==
  IF existe_proceso_en_lista(p) THEN lista_procesos
  ELSE Append(lista_procesos, [id |-> p, segments |-> <<>>])

\* Where procesar_id finds p in the list l: list_find takes the first.
Position(l, p) == CHOOSE i \in DOMAIN l : /\ l[i].id = p
                                          /\ \A j \in DOMAIN l : l[j].id = p => i <= j

\* list_add(nodoProceso->list_segmento, pages)
WithSegment(p, pages) ==
  LET l == procesar_id(p)
  IN [l EXCEPT ![Position(l, p)].segments = Append(@, pages)]

Segments(p) == LET l == procesar_id(p) IN l[Position(l, p)].segments
-------------------------------------------------------------------------------
(* Frames *)

\* cantidad_paginas_necesarias: the sum wraps, becomes a signed int and is divided
\* towards zero.
PagesFor(n) ==
  LET sum == (n + Header) % W
  IN IF 2 * sum < W THEN (sum \div PAGE_SIZE) + 1 ELSE 1 - ((W - sum) \div PAGE_SIZE)

FreeFrames == {i \in Frames : frame_libre[i]}
FreePages == {i \in Frames : page_libre[i]}

\* existe_memoria_parar_paginas counts free frames until it meets k.
existe_memoria(k) == IF k > 0 THEN Cardinality(FreeFrames) >= k
                     ELSE k = 0 /\ 0 \notin FreeFrames

\* The first k elements of S: what k calls of asignarFrameLibre or of
\* asignarIndiceVectorLibre return, each one taking the lowest that is left.
FirstOf(S, k) ==
  [i \in 1 .. k |-> CHOOSE s \in S : Cardinality({r \in S : r < s}) = i - 1]

\* Slips: a page stays free; a frame stays free.
PagesStayFree(k) ==
  LET f == FirstOf(FreeFrames, k)
  IN /\ frame_libre' = [i \in Frames |-> frame_libre[i] /\ \A j \in 1 .. k : f[j] # i]
     /\ UNCHANGED <<page_libre, page_frame>>
FramesStayFree(k) ==
  LET ix == FirstOf(FreePages, k)
  IN /\ page_libre' = [i \in Frames |-> page_libre[i] /\ \A j \in 1 .. k : ix[j] # i]
     /\ UNCHANGED <<frame_libre, page_frame>>

TakeFrames(k) ==
  LET f == FirstOf(FreeFrames, k)
      ix == FirstOf(FreePages, k)
  IN /\ frame_libre' = [i \in Frames |-> frame_libre[i] /\ \A j \in 1 .. k : f[j] # i]
     /\ page_libre' = [i \in Frames |-> page_libre[i] /\ \A j \in 1 .. k : ix[j] # i]
     /\ page_frame' = [i \in Frames |->
                         IF \E j \in 1 .. k : ix[j] = i
                         THEN f[CHOOSE j \in 1 .. k : ix[j] = i] ELSE page_frame[i]]
-------------------------------------------------------------------------------
(* The handlers *)

\* A walk over the block headers ends, turns in a circle, or leaves the arena.
Walked == status' \in {"up", "hung", "wild"}

\* asignar_dir_memoria finds pages for a process that has no segment.
MallocFirst(p, n) ==
  /\ status = "up"
  /\ Segments(p) = <<>>
  /\ PagesFor(n) > 0 /\ existe_memoria(PagesFor(n))
  /\ TakeFrames(PagesFor(n))
  /\ lista_procesos' = WithSegment(p, FirstOf(FreePages, PagesFor(n)))
  /\ Walked

\* It finds none and returns -1; the empty segment is added all the same.
MallocNone(p, n) ==
  /\ status = "up"
  /\ Segments(p) = <<>>
  /\ ~existe_memoria(PagesFor(n))
  /\ lista_procesos' = WithSegment(p, <<>>)
  /\ UNCHANGED <<frames, status>>

\* No page is needed, because the sum wrapped: primerFrameLibre and frameLibre are
\* used uninitialised.
MallocWild(p, n) ==
  /\ status = "up"
  /\ Segments(p) = <<>>
  /\ PagesFor(n) = 0 /\ existe_memoria(0)
  /\ lista_procesos' = WithSegment(p, <<>>)
  /\ UNCHANGED frames
  /\ Walked

\* recorer_segmento_espacio_libre on the last segment; without pages, list_get returns
\* NULL and the server dies on it.
MallocAgain(p) ==
  LET segs == Segments(p)
  IN /\ status = "up"
     /\ segs # <<>>
     /\ IF segs[Len(segs)] = <<>> THEN status' = "wild" ELSE Walked
     /\ UNCHANGED <<lista_procesos, frames>>

\* GET and COPY register the process before they look for it; they use the address
\* they are given, whatever it is.
Access(p) == /\ status = "up"
             /\ lista_procesos' = procesar_id(p)
             /\ UNCHANGED frames
             /\ status' \in {"up", "wild"}

\* A slip: MEMFREE gives the frames of the last segment back.
FreesFrames(p) ==
  LET segs == Segments(p)
      given == [i \in Frames |-> \E k \in DOMAIN segs[Len(segs)] : segs[Len(segs)][k] = i]
      at == Position(procesar_id(p), p)
  IN /\ status = "up" /\ segs # <<>>
     /\ frame_libre' = [i \in Frames |-> frame_libre[i] \/ given[i]]
     /\ page_libre' = [i \in Frames |-> page_libre[i] \/ given[i]]
     /\ lista_procesos' = [lista_procesos EXCEPT ![at].segments = <<>>]
     /\ UNCHANGED <<page_frame, status>>

\* MEMFREE changes no page, frame or process.
Memfree(p) == /\ status = "up"
              /\ UNCHANGED <<lista_procesos, frames>>
              /\ Walked

\* recv returns 0 or less: exit(1).
Disconnect == /\ status = "up"
              /\ status' = "exited"
              /\ UNCHANGED <<lista_procesos, frames>>

Gone == status # "up" /\ UNCHANGED vars

Handle(p) == \/ \E n \in Sizes : MallocFirst(p, n) \/ MallocNone(p, n) \/ MallocWild(p, n)
             \/ MallocAgain(p) \/ Access(p) \/ Memfree(p)

Next == (\E p \in Pids : Handle(p)) \/ Disconnect \/ Gone

Spec == Init /\ [][Next]_vars
-------------------------------------------------------------------------------
(* Properties *)

PageLists == Seq(Frames)
Processes == [id : Pids, segments : Seq(PageLists)]

TypeOK == /\ lista_procesos \in Seq(Processes)
          /\ frame_libre \in [Frames -> BOOLEAN]
          /\ page_libre \in [Frames -> BOOLEAN]
          /\ page_frame \in [Frames -> Frames \cup {-1}]
          /\ status \in {"up", "hung", "wild", "exited"}

\* A process is listed once, with at most one segment: the branches that would make a
\* second one are not written (muse.c:438-441).
OneSegmentEach ==
  /\ \A i, j \in DOMAIN lista_procesos : lista_procesos[i].id = lista_procesos[j].id => i = j
  /\ \A i \in DOMAIN lista_procesos : Len(lista_procesos[i].segments) <= 1

\* recorer_segmento_espacio_libre reads the index of a page as the number of its frame
\* (t_nodo_pagina as t_frames, muse.c:481): right because the two vectors are always
\* taken together.
PageIsFrame == \A i \in Frames : /\ page_libre[i] <=> frame_libre[i]
                                 /\ ~page_libre[i] => page_frame[i] = i

\* The pages of a segment are taken, and no page belongs to two segments.
SegmentsDisjoint ==
  /\ \A i \in DOMAIN lista_procesos : \A s \in DOMAIN lista_procesos[i].segments :
       \A k \in DOMAIN lista_procesos[i].segments[s] :
         ~frame_libre[lista_procesos[i].segments[s][k]]
  /\ \A i, j \in DOMAIN lista_procesos : \A s \in DOMAIN lista_procesos[i].segments :
       \A t \in DOMAIN lista_procesos[j].segments :
         \A k \in DOMAIN lista_procesos[i].segments[s] :
           \A m \in DOMAIN lista_procesos[j].segments[t] :
             lista_procesos[i].segments[s][k] = lista_procesos[j].segments[t][m] =>
               i = j /\ s = t /\ k = m

\* The frames of a segment follow one another, so that an address can be computed from
\* the first (muse.c:399, 426, 442), although nothing looks for a run of free frames.
SegmentsContiguous ==
  \A i \in DOMAIN lista_procesos : \A s \in DOMAIN lista_procesos[i].segments :
    LET q == lista_procesos[i].segments[s]
    IN \A k \in 1 .. Len(q) - 1 : q[k + 1] = q[k] + 1
===============================================================================
