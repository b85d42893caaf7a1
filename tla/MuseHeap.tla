------------------------------- MODULE MuseHeap -------------------------------
(***************************************************************************)
(* muse, the memory server, byte by byte: MusePaging with the arena and    *)
(* the chain of block headers the handlers keep in it.  A number is four   *)
(* bytes of base B, little end first, so B = 256 is the code; an address   *)
(* is an offset into memoria.                                              *)
(*                                                                         *)
(* The client's side is a ghost: the blocks it was given and has not       *)
(* freed, and what it last wrote at the beginning of each.                 *)
(***************************************************************************)
EXTENDS MusePaging

CONSTANTS B,            \* a byte is below B; W = B^4
          POINTER,      \* sizeof(void*): 4 or 8
          Garbage,      \* the bytes malloc may leave in the arena
          Contents,     \* the bytes muse_cpy writes
          Lengths,      \* how many bytes muse_cpy is asked to write
          MaxBlocks,    \* bound: blocks the clients ask for
          MaxStrayed    \* bound: a behaviour is followed until it has strayed more often

ASSUME HeapAssumption == /\ B \in Nat \ {0, 1} /\ W = B * B * B * B
                         /\ POINTER \in {4, 8}
                         /\ Garbage \cup Contents \subseteq 0 .. B - 1
                         /\ 2 * B * MEMORY_SIZE <= W   \* below 8 MB; muse.config has 4096 bytes
                         /\ Lengths \subseteq Nat /\ MaxBlocks \in Nat /\ MaxStrayed \in Nat

VARIABLES memoria,
          live,     \* ghost: blocks [at, size, len, byte]; its first len bytes were written
          asked,    \* ghost: allocations so far, for the bound
          strayed   \* ghost: what has happened that the server cannot take, see below

client == <<live, asked, strayed>>
heapVars == <<vars, memoria, client>>

Arena == 0 .. MEMORY_SIZE - 1
Inside(a, n) == n = 0 \/ (a >= 0 /\ a + n <= MEMORY_SIZE)

HeapInit == /\ Init
            /\ memoria \in {[a \in Arena |-> g] : g \in Garbage}
            /\ live = {} /\ asked = 0
            /\ strayed = IF \A a \in Arena : memoria[a] = 0 THEN {} ELSE {"garbage"}
-------------------------------------------------------------------------------
(* Headers.  A memory in the making is a record: m, and ok, FALSE once an   *)
(* access has left the arena.                                               *)

\* A slip: the higher digits stay in.
Place == <<1, B, B * B, B * B * B>>
ByteUncut(n, i) == n \div Place[i + 1]
Byte(n, i) == (n \div Place[i + 1]) % B
SizeAt(m, a) == m[a] + B * (m[a + 1] + B * (m[a + 2] + B * m[a + 3]))
LibreAt(m, a) == m[a + 4] # 0

Written(s, a, n, Cell(_)) ==
  IF s.ok /\ Inside(a, n)
  THEN [s EXCEPT !.m = [i \in Arena |-> IF a <= i /\ i < a + n THEN Cell(i - a) ELSE @[i]]]
  ELSE [s EXCEPT !.ok = FALSE]

\* memcpy(memoria + a, heap, sizeof(t_heapMetadata))
Put(s, a, size, libre) ==
  Written(s, a, Header, LAMBDA i : IF i < 4 THEN Byte(size, i) ELSE IF libre THEN 1 ELSE 0)

\* memset(memoria + a, '\0', n)
Zeroed(s, a, n) == Written(s, a, n, LAMBDA i : 0)

Signed(n) == IF 2 * (n % W) < W THEN n % W ELSE (n % W) - W
-------------------------------------------------------------------------------
(* recorer_segmento_espacio_libre *)

\* The page of an offset: C divides towards zero.
PageOf(o) == IF o >= 0 THEN o \div PAGE_SIZE ELSE -((-o) \div PAGE_SIZE)

\* Where the offset o of the segment seg is.
Address(seg, o) == seg[PageOf(o) + 1] * PAGE_SIZE + o - PageOf(o) * PAGE_SIZE

\* The walk stands on a header at o: it is out of the segment or the arena; the block is
\* free and has more than need bytes; otherwise the next header is after the block.
Lost(seg, o) == PageOf(o) \notin 0 .. Len(seg) - 1 \/ ~Inside(Address(seg, o), Header)
Fits(m, seg, need, o) == LibreAt(m, Address(seg, o)) /\ need < SizeAt(m, Address(seg, o))
Following(m, seg, o) == Signed(o + Header + SizeAt(m, Address(seg, o)))
Stops(m, seg, need, o) == \/ Lost(seg, o) \/ Fits(m, seg, need, o)
                          \/ Following(m, seg, o) > Len(seg) * PAGE_SIZE - 1

\* More headers than a walk can read without coming back to one.
Turns(seg) == (Len(seg) + 1) * PAGE_SIZE

\* The offset at which a walk stops that is at o, or at which it is after k more headers.
LastFrom(m, seg, need) ==
  LET last[k \in 0 .. Turns(seg)] ==
        [o \in Int |-> IF k = 0 \/ Stops(m, seg, need, o) THEN o
                       ELSE last[k - 1][Following(m, seg, o)]]
  IN last

\* A free block of seg with more than need bytes.
Walk(m, seg, need) ==
  LET o == LastFrom(m, seg, need)[Turns(seg)][0]
  IN IF ~Stops(m, seg, need, o) THEN [end |-> "hung"]
     ELSE IF Lost(seg, o) THEN [end |-> "wild"]
     ELSE IF Fits(m, seg, need, o)
     THEN [end |-> "found", at |-> Address(seg, o), ptr |-> o + Header]
     ELSE [end |-> "none"]

\* A slip: a block is taken whether it is free or not.
WalkAny(m, seg, need) ==
  IF seg # <<>> /\ Inside(seg[1] * PAGE_SIZE, Header) /\ need < SizeAt(m, seg[1] * PAGE_SIZE)
  THEN [end |-> "found", at |-> seg[1] * PAGE_SIZE, ptr |-> Header] ELSE Walk(m, seg, need)
CarveAny(s, seg, need) ==
  LET w == WalkAny(s.m, seg, need)
      size == SizeAt(s.m, w.at)
  IN IF w.end = "found"
     THEN [s |-> Put(Put(s, w.at, need, FALSE), w.at + Header + need,
                     (size - need - Header) % W, TRUE), ptr |-> w.ptr, end |-> "up"]
     ELSE [s |-> s, ptr |-> W - 1, end |-> "up"]

\* The block found is cut in two: need bytes, and the rest, free.
Carve(s, seg, need) ==
  LET w == Walk(s.m, seg, need)
      size == SizeAt(s.m, w.at)
  IN CASE w.end = "found" ->
            [s |-> Put(Put(s, w.at, need, FALSE), w.at + Header + need,
                       (size - need - Header) % W, TRUE),
             ptr |-> w.ptr, end |-> "up"]
       [] w.end = "none"  -> [s |-> s, ptr |-> W - 1, end |-> "up"]
       [] OTHER           -> [s |-> s, ptr |-> W - 1, end |-> w.end]

\* The rest has no room for its header.
Tight(s, seg, need) == LET w == Walk(s.m, seg, need)
                       IN w.end = "found" /\ SizeAt(s.m, w.at) - need < Header

\* No header fits into the arena where the walk of seg goes after its last block.
OnTheEdge(seg) == ~Inside((seg[Len(seg)] + 1) * PAGE_SIZE - 1, Header)
GoesPast(s, seg, need) ==
  \E k \in 0 .. Turns(seg) : LastFrom(s.m, seg, need)[k][0] = Len(seg) * PAGE_SIZE - 1

\* A slip: the new segment's first header counts itself.
FirstBlockCounted(s, seg, n) ==
  LET first == seg[1] * PAGE_SIZE
      sobran == Signed(Len(seg) * PAGE_SIZE - n - Header)
      s1 == Put(s, first, n + Header, FALSE)
      s2 == Put(s1, (seg[Len(seg)] + 1) * PAGE_SIZE - sobran, (sobran - 6) % W, TRUE)
  IN [s |-> s2, ptr |-> first + Header, end |-> "up"]

\* A slip: the rest is counted back from the beginning of the last page.
FirstBlockPageShort(s, seg, n) ==
  LET first == seg[1] * PAGE_SIZE
      sobran == Signed(Len(seg) * PAGE_SIZE - n - Header)
      s1 == Put(s, first, n, FALSE)
      s2 == Put(s1, seg[Len(seg)] * PAGE_SIZE - sobran, (sobran - 6) % W, TRUE)
  IN [s |-> s2, ptr |-> first + Header, end |-> "up"]

\* asignar_dir_memoria on the frames it has taken: a block of n bytes, a free one, a trial
\* walk for 5 bytes, and a header 10 bytes into the segment.  The rest is unsigned until it
\* is stored in an int.
FirstBlock(s, seg, n) ==
  LET first == seg[1] * PAGE_SIZE
      sobran == Signed(Len(seg) * PAGE_SIZE - n - Header)
      s1 == Put(s, first, n, FALSE)
      s2 == Put(s1, (seg[Len(seg)] + 1) * PAGE_SIZE - sobran, (sobran - 6) % W, TRUE)
      trial == Carve(s2, seg, 5)
      s3 == Put(trial.s, first + 10, (Len(seg) * PAGE_SIZE - 16) % W, TRUE)
  IN IF ~s2.ok THEN [s |-> s2, ptr |-> 0, end |-> "wild"]
     ELSE IF trial.end # "up" THEN trial
     ELSE [s |-> s3, ptr |-> first + Header, end |-> "up"]
-------------------------------------------------------------------------------
(* The handlers, with what they do to the arena *)

Memory == [m |-> memoria, ok |-> TRUE]

\* The server goes on with the memory s, or is lost.
Leaves(s, end) == IF s.ok THEN memoria' = s.m /\ status' = end
                  ELSE status' = "wild" /\ UNCHANGED memoria

(* What the server cannot take, and the client does not know:               *)
(*   garbage    the arena did not begin with zeros (the walk reads past it) *)
(*   tight      a block was cut so that no header fits into the rest        *)
(*   edge       the walk went on to the last byte of a segment and read a   *)
(*              header from there, past the arena                           *)
(*   small      the first block is too small for the header at offset 10    *)
(*   elsewhere  a segment that does not begin at frame 0 was searched: the  *)
(*              answer is an offset, and is used as an address              *)
(*   partial    muse_cpy wrote less, or more, than the block                *)
(*   brief      muse_get answered with more bytes than the block has        *)
(*   freed      muse_free zeroed from dir + 5 on                            *)
(*   swap       a segment got frames of the swap, which memoria has no room *)
(*              for                                                         *)
(*   wrapped    the size plus the header wrapped, to fewer pages than it    *)
(*              takes                                                       *)
(*   empty      the last segment of the process has no pages                *)
(*   nowhere    the client used the address of a failed allocation          *)
When(condition, what) == IF condition THEN {what} ELSE {}
Strays(S) == strayed' = strayed \cup S
InSwap(frame) == (frame + 1) * PAGE_SIZE > MEMORY_SIZE
Blames(what) == Strays({what}) /\ UNCHANGED <<memoria, live, asked>>

\* MALLOC_OK, whatever the address; -1 is no block.
Granted(ptr, n) ==
  /\ asked' = asked + 1
  /\ live' = IF ptr % W = W - 1 THEN live
             ELSE live \cup {[at |-> ptr % W, size |-> n, len |-> 0, byte |-> 0]}

\* The pages counted for n bytes and a header do not hold them.
Wraps(n) == PagesFor(n) * PAGE_SIZE < n + Header

HeapMallocFirst(p, n) ==
  LET f == FirstOf(FreeFrames, PagesFor(n))
      r == FirstBlock(Memory, f, n)
      rest == Signed(PagesFor(n) * PAGE_SIZE - n - Header)
  IN /\ asked < MaxBlocks
     /\ MallocFirst(p, n)
     /\ Leaves(r.s, r.end)
     /\ Granted(r.ptr, n)
     /\ Strays(When(Wraps(n), "wrapped") \cup When(n < 10, "small")
                 \cup When(rest - 6 \notin 0 .. 5 \cup (10 .. MEMORY_SIZE), "tight")
                 \cup When(rest - 6 \in 0 .. 5 /\ OnTheEdge(f), "edge")
                 \cup When(\E i \in 1 .. PagesFor(n) : InSwap(f[i]), "swap"))

HeapMallocNone(p, n) == /\ asked < MaxBlocks
                        /\ MallocNone(p, n)
                        /\ Granted(W - 1, n)
                        /\ UNCHANGED <<memoria, strayed>>

\* The headers go wherever the uninitialised frame numbers say.
HeapMallocWild(p, n) == /\ asked < MaxBlocks
                        /\ MallocWild(p, n)
                        /\ status' = "wild"
                        /\ Blames("wrapped")

HeapMallocAgain(p, n) ==
  LET seg == Segments(p)[Len(Segments(p))]
      r == Carve(Memory, seg, n)
  IN /\ asked < MaxBlocks
     /\ MallocAgain(p)
     /\ IF seg = <<>> THEN Blames("empty")
        ELSE /\ Leaves(r.s, r.end)
             /\ Granted(r.ptr, n)
             /\ Strays(When(Tight(Memory, seg, n), "tight") \cup When(seg[1] # 0, "elsewhere")
                        \cup When(OnTheEdge(seg) /\ GoesPast(Memory, seg, n), "edge"))

\* The address of a failed allocation.
Nowhere(dir) == When(dir % W = W - 1, "nowhere")

\* The answer is made of the POINTER bytes at src.
HeapGet(p, src) == /\ Access(p)
                   /\ status' = IF Inside(src, POINTER) THEN "up" ELSE "wild"
                   /\ Strays(Nowhere(src)
                               \cup When(\E b \in live : b.at = src /\ b.size < POINTER, "brief"))
                   /\ UNCHANGED <<memoria, live, asked>>

\* A slip: the copy begins at the header.
HeapCopyEarly(p, dst, n, c) ==
  LET s == Written(Put(Memory, dst - Header, n, FALSE), dst - 1, n, LAMBDA i : c)
  IN /\ Access(p)
     /\ Leaves(s, "up")
     /\ live' = {IF b.at = dst THEN [b EXCEPT !.len = n, !.byte = c] ELSE b : b \in live}
     /\ UNCHANGED <<asked, strayed>>

\* On a free header nothing is sent: SEG_FAULT is not a package that is serialized.
HeapCopy(p, dst, n, c) ==
  LET s == Written(Put(Memory, dst - Header, n, FALSE), dst, n, LAMBDA i : c)
      silent == Inside(dst - Header, Header) /\ LibreAt(memoria, dst - Header)
  IN /\ Access(p)
     /\ IF silent THEN status' = "up" /\ UNCHANGED memoria ELSE Leaves(s, "up")
     /\ live' = IF silent THEN live
                ELSE {IF b.at = dst THEN [b EXCEPT !.len = n, !.byte = c] ELSE b : b \in live}
     /\ Strays(Nowhere(dst) \cup When(\E b \in live : b.at = dst /\ b.size # n, "partial"))
     /\ UNCHANGED asked

\* header->libre after a memcpy of POINTER bytes: the flag is the fifth.
LibreRead(a) == IF POINTER >= Header THEN {LibreAt(memoria, a)} ELSE BOOLEAN

\* The backward search compares a pointer with an offset and never finds a block; it
\* passes over the headers from desp until dir - 5.
Behind(m, dir) ==
  LET next(o) == Signed(o + SizeAt(m, o) + 1)
      stops(o) == ~Inside(o, POINTER) \/ next(o) >= dir - Header
      last[k \in 0 .. MEMORY_SIZE] ==
        [o \in Int |-> IF k = 0 \/ stops(o) THEN o ELSE last[k - 1][next(o)]]
      desp == last[MEMORY_SIZE][0]
  IN IF ~stops(desp) THEN "hung" ELSE IF Inside(desp, POINTER) THEN "up" ELSE "wild"

Unknown(p) == /\ ~existe_proceso_en_lista(p)
              /\ Memfree(p) /\ status' = "up"
              /\ UNCHANGED <<memoria, client>>

\* memset from dir + 5 on; then, if what follows seems free, once more after it.
HeapFree(p, dir) ==
  LET size == SizeAt(memoria, dir - Header)
      s1 == Zeroed(Memory, dir + Header, size)
      both == (size + SizeAt(s1.m, dir + size)) % W
  IN /\ existe_proceso_en_lista(p)
     /\ Memfree(p)
     /\ UNCHANGED asked
     /\ IF ~Inside(dir - Header, POINTER)
        THEN status' = "wild" /\ Strays(Nowhere(dir)) /\ UNCHANGED <<memoria, live>>
        ELSE \E libre \in LibreRead(dir - Header) :
          IF libre
          THEN status' = "up" /\ UNCHANGED <<memoria, live, strayed>>
          ELSE IF ~s1.ok \/ ~Inside(dir + size, POINTER)
          THEN status' = "wild" /\ Strays({"freed"}) /\ UNCHANGED <<memoria, live>>
          ELSE /\ \E closest \in (IF POINTER >= Header THEN {LibreAt(s1.m, dir + size)} ELSE BOOLEAN) :
                    LET s == IF closest THEN Zeroed(s1, dir + both, both) ELSE s1
                    IN Leaves(s, IF s.ok THEN Behind(s.m, dir) ELSE "wild")
               /\ live' = {b \in live : b.at # dir}
               /\ Strays({"freed"})

HeapDisconnect == Disconnect /\ UNCHANGED <<memoria, client>>
HeapGone == Gone /\ UNCHANGED <<memoria, client>>
-------------------------------------------------------------------------------
\* A client that uses the blocks it was given, or the address -1 of a failure.
HeapNext ==
  \/ /\ Cardinality(strayed) <= MaxStrayed
     /\ \E p \in Pids :
       \/ \E n \in Sizes : \/ HeapMallocFirst(p, n) \/ HeapMallocNone(p, n)
                           \/ HeapMallocWild(p, n) \/ HeapMallocAgain(p, n)
       \/ \E at \in {b.at : b \in live} \cup {W - 1} :
            \/ HeapGet(p, at)
            \/ \E n \in Lengths, c \in Contents : HeapCopy(p, at, n, c)
            \/ HeapFree(p, at) \/ Unknown(p)
  \/ HeapDisconnect \/ HeapGone

HeapSpec == HeapInit /\ [][HeapNext]_heapVars
-------------------------------------------------------------------------------
(* Properties *)

HeapTypeOK == /\ TypeOK
              /\ memoria \in [Arena -> 0 .. B - 1]
              /\ live \subseteq [at : 0 .. W - 1, size : Sizes, len : Nat, byte : 0 .. B - 1]
              /\ asked \in 0 .. MaxBlocks
              /\ strayed \subseteq {"garbage", "tight", "edge", "small", "elsewhere", "partial",
                                    "brief", "freed", "swap", "wrapped", "empty", "nowhere"}

\* The cells of the segments, and of a block with its header.
SegmentCells == {f * PAGE_SIZE + i : f \in {f \in Frames : ~frame_libre[f]}, i \in 0 .. PAGE_SIZE - 1}
Cells(b) == b.at - Header .. b.at + b.size - 1

Apart == /\ \A b \in live : Cells(b) \subseteq SegmentCells
         /\ \A b, d \in live : b # d => Cells(b) \cap Cells(d) = {}

\* While nothing has strayed, a block the client was given lies, header and all, in pages
\* that are taken, and touches no other (libmuse.h:44-46).
BlocksApart == status = "up" /\ strayed = {} => Apart

\* Then the header of a block tells its size, and that it is taken: what the walks rely on.
HeadersIntact == status = "up" /\ strayed = {} =>
  \A b \in live : /\ SizeAt(memoria, b.at - Header) = b.size
                  /\ ~LibreAt(memoria, b.at - Header)

\* And what the client wrote is there until it writes again (libmuse.h:66-72).
DataIntact == status = "up" /\ strayed = {} =>
  \A b \in live : \A i \in 0 .. b.len - 1 : memoria[b.at + i] = b.byte

\* And the server neither leaves its memory nor turns in a circle: each way to bring it
\* down (muse.c:395, 399, 481, 526, 535) begins with one of these.
StaysUp == status \in {"wild", "hung"} => strayed # {}

\* A client that fills its blocks, frees none and starts from zeros has its blocks apart,
\* however closely they are cut (libmuse.h:44).
ClosestApart == status = "up" /\ strayed \subseteq {"tight"} => Apart
===============================================================================
