---------------------------- MODULE MuseHeapProofs ----------------------------
(***************************************************************************)
(* Proofs about MuseHeap for every page, memory and byte.  The blocks of a *)
(* segment are related to the set of offsets their headers stand at: first *)
(* arithmetic, then what is written and read in the arena, then the walk,  *)
(* then one step per handler.                                              *)
(***************************************************************************)
EXTENDS MuseHeap, MusePagingProofs, SequenceTheorems, WellFoundedInduction

-------------------------------------------------------------------------------
(* Arithmetic *)

\* A set of natural numbers that is not empty has a least one.
LEMMA LeastOf ==
  ASSUME NEW S \in SUBSET Nat, S # {}
  PROVE  \E x \in S : \A y \in S : x <= y
<1>1. PICK x \in S : \A y \in S : ~(<<y, x>> \in OpToRel(<, Nat))
  BY NatLessThanWellFounded, WFMin, Zenon
<1>2. ASSUME NEW y \in S, y < x PROVE <<y, x>> \in OpToRel(<, Nat)
  BY <1>2 DEF OpToRel
<1>3. \A y \in S : ~(y < x)
  BY <1>1, <1>2, Zenon
<1> QED BY <1>3

\* Quotient and rest.
LEMMA Division ==
  ASSUME NEW a \in Int, NEW b \in Nat \ {0}
  PROVE  /\ a \div b \in Int /\ a % b \in 0 .. b - 1
         /\ a = b * (a \div b) + (a % b)
         /\ a \in Nat => a \div b \in Nat
BY SMT

LEMMA DivisionNat ==
  ASSUME NEW a \in Nat, NEW b \in Nat \ {0}
  PROVE  a \div b \in Nat /\ a % b \in 0 .. b - 1 /\ a = (b * (a \div b)) + (a % b)
BY SMT

\* Products keep an order.
LEMMA ProductGrows ==
  ASSUME NEW a \in Int, NEW b \in Int, NEW c \in Nat, a <= b
  PROVE  a * c \in Int /\ b * c \in Int /\ a * c <= b * c
BY SMT

\* There is one quotient.
LEMMA QuotientIs ==
  ASSUME NEW b \in Nat \ {0}, NEW q \in Int, NEW r \in 0 .. b - 1, NEW a \in Int, a = b * q + r
  PROVE  a \div b = q /\ a % b = r
BY SMT

\* Dividing twice.
LEMMA QuotientTwice ==
  ASSUME NEW a \in Nat, NEW b \in Nat \ {0}, NEW c \in Nat \ {0}
  PROVE  b * c \in Nat \ {0} /\ a \div (b * c) = (a \div b) \div c
BY SMT

\* The bytes of a number are bytes; put together they are the number; the last of them is
\* needed only from B^3 on.
LEMMA BytesOf ==
  ASSUME NEW n \in Int, NEW i \in 0 .. 3
  PROVE  Byte(n, i) \in 0 .. B - 1
<1>1. B \in Nat \ {0} /\ B * B \in Nat \ {0} /\ B * B * B \in Nat \ {0}
  <2>1. B \in Nat \ {0}
    BY HeapAssumption
  <2> QED BY <2>1, QuotientTwice
<1>2. Place[i + 1] \in Nat \ {0}
  <2>1. CASE i = 0
    BY <2>1 DEF Place
  <2>2. CASE i = 1
    BY <1>1, <2>2 DEF Place
  <2>3. CASE i = 2
    BY <1>1, <2>3 DEF Place
  <2>4. CASE i = 3
    BY <1>1, <2>4 DEF Place
  <2> QED BY <2>1, <2>2, <2>3, <2>4
<1>3. n \div Place[i + 1] \in Int
  BY <1>2, Division
<1> QED BY <1>1, <1>3, Division DEF Byte

LEMMA NumberOfBytes ==
  ASSUME NEW n \in 0 .. W - 1
  PROVE  /\ Byte(n, 0) + (B * (Byte(n, 1) + (B * (Byte(n, 2) + (B * Byte(n, 3)))))) = n
         /\ n < B * B * B => Byte(n, 3) = 0
<1> DEFINE q1 == n \div B
           q2 == q1 \div B
           q3 == q2 \div B
<1>1. B \in Nat \ {0} /\ B * B \in Nat \ {0} /\ B * B * B \in Nat \ {0} /\ n \in Nat
  <2>1. B \in Nat \ {0} /\ W \in Nat
    BY HeapAssumption, MuseAssumption
  <2> QED BY <2>1, QuotientTwice
<1>2. /\ q1 \in Nat /\ n % B \in 0 .. B - 1 /\ n = (B * q1) + (n % B)
      /\ q2 \in Nat /\ q1 % B \in 0 .. B - 1 /\ q1 = (B * q2) + (q1 % B)
      /\ q3 \in Nat /\ q2 % B \in 0 .. B - 1 /\ q2 = (B * q3) + (q2 % B)
  <2>1. q1 \in Nat /\ n % B \in 0 .. B - 1 /\ n = (B * q1) + (n % B)
    BY <1>1, DivisionNat, Zenon
  <2> HIDE DEF q1
  <2>2. q2 \in Nat /\ q1 % B \in 0 .. B - 1 /\ q1 = (B * q2) + (q1 % B)
    BY <1>1, <2>1, DivisionNat, Zenon
  <2> HIDE DEF q2
  <2>3. q3 \in Nat /\ q2 % B \in 0 .. B - 1 /\ q2 = (B * q3) + (q2 % B)
    BY <1>1, <2>2, DivisionNat, Zenon
  <2> QED BY <2>1, <2>2, <2>3
<1>3. n \div (B * B) = q2 /\ n \div (B * B * B) = q3 /\ n \div 1 = n
  <2>1. ASSUME NEW b \in Nat \ {0} PROVE n \div (b * B) = (n \div b) \div B
    <3>1. n \in Nat /\ B \in Nat \ {0}
      BY <1>1
    <3> QED BY ONLY <3>1, b \in Nat \ {0}, SMT
  <2>2. n \div (B * B) = q2
    BY <1>1, <2>1, Zenon
  <2>3. n \div ((B * B) * B) = (n \div (B * B)) \div B
    BY <1>1, <2>1, Zenon
  <2> QED BY <1>1, <2>2, <2>3
<1>4. /\ Byte(n, 0) = n % B /\ Byte(n, 1) = q1 % B
      /\ Byte(n, 2) = q2 % B /\ Byte(n, 3) = q3 % B
  BY <1>1, <1>3 DEF Byte, Place
<1>5. q3 % B = q3
  <2>1. q3 < B
    <3> SUFFICES ASSUME B <= q3 PROVE FALSE
      BY <1>1, <1>2
    <3>1. B * B <= B * q3
      BY <1>1, <1>2, ProductGrows
    <3>2. B * B <= q2
      BY <1>1, <1>2, <3>1
    <3>3. (B * B) * B <= q2 * B /\ q2 * B = B * q2
      BY <1>1, <1>2, <3>2, ProductGrows
    <3>4. (B * B) * B <= q1
      BY <1>1, <1>2, <3>3
    <3>5. ((B * B) * B) * B <= q1 * B /\ q1 * B = B * q1
      BY <1>1, <1>2, <3>4, ProductGrows
    <3>6. W <= n
      BY <1>1, <1>2, <3>5, HeapAssumption
    <3> QED BY <3>6, <1>1, MuseAssumption
  <2> HIDE DEF q1, q2, q3
  <2>2. q3 \in 0 .. B - 1 /\ q3 \in Int /\ q3 = (B * 0) + q3
    BY <1>1, <1>2, <2>1
  <2> QED BY <1>1, <2>2, QuotientIs
<1>6. n < B * B * B => q3 = 0
  <2> SUFFICES ASSUME n < B * B * B, q3 >= 1 PROVE FALSE
    BY <1>2
  <2>1. B * q3 >= B
    BY <1>1, <1>2
  <2>2. q2 >= B
    BY <1>1, <1>2, <2>1
  <2>3. B * B <= q2 * B /\ q2 * B = B * q2
    BY <1>1, <1>2, <2>2, ProductGrows
  <2>4. q1 >= B * B
    BY <1>1, <1>2, <2>3
  <2>5. (B * B) * B <= q1 * B /\ q1 * B = B * q1
    BY <1>1, <1>2, <2>4, ProductGrows
  <2> QED BY <1>1, <1>2, <2>5
<1> HIDE DEF q1, q2, q3
<1>7. /\ Byte(n, 2) + (B * Byte(n, 3)) = q2
      /\ Byte(n, 1) + (B * q2) = q1
      /\ Byte(n, 0) + (B * q1) = n
  BY <1>1, <1>2, <1>4, <1>5
<1> QED BY <1>4, <1>5, <1>6, <1>7
-------------------------------------------------------------------------------
(* The arena *)

Bytes == 0 .. B - 1
Memories == [m : [Arena -> Bytes], ok : BOOLEAN]

\* The byte at i of a header of size bytes.
HeaderByte(size, libre, i) == IF i < 4 THEN Byte(size, i) ELSE IF libre THEN 1 ELSE 0

LEMMA HeaderByteIs ==
  ASSUME NEW size \in Int, NEW libre \in BOOLEAN, NEW i \in 0 .. 4
  PROVE  HeaderByte(size, libre, i) \in Bytes
<1>1. B \in Nat /\ B >= 2
  BY HeapAssumption
<1>2. CASE i < 4
  BY <1>2, BytesOf DEF HeaderByte, Bytes
<1>3. CASE ~(i < 4)
  BY <1>1, <1>3 DEF HeaderByte, Bytes
<1> QED BY <1>2, <1>3

\* What Put writes: the bytes of a header, where the header lies in the arena.
LEMMA PutIs ==
  ASSUME NEW s \in Memories, NEW a \in Int, NEW size \in Int, NEW libre \in BOOLEAN
  PROVE  LET t == Put(s, a, size, libre)
         IN /\ t \in Memories
            /\ t.ok = (s.ok /\ Inside(a, Header))
            /\ ~t.ok => t.m = s.m
            /\ t.ok => \A i \in Arena :
                 t.m[i] = IF a <= i /\ i < a + Header THEN HeaderByte(size, libre, i - a) ELSE s.m[i]
<1> DEFINE c == [i \in Arena |-> IF a <= i /\ i < a + Header
                                 THEN HeaderByte(size, libre, i - a) ELSE s.m[i]]
<1>1. s.m \in [Arena -> Bytes] /\ s.ok \in BOOLEAN /\ s = [m |-> s.m, ok |-> s.ok]
  BY DEF Memories
<1>2. \A i \in Arena : i \in Int
  BY MuseAssumption DEF Arena
<1>3. c \in [Arena -> Bytes]
  <2> SUFFICES ASSUME NEW i \in Arena, a <= i, i < a + Header
               PROVE  HeaderByte(size, libre, i - a) \in Bytes
    BY <1>1, Zenon
  <2>1. i - a \in 0 .. 4
    BY <1>2 DEF Header
  <2> QED BY <2>1, HeaderByteIs
<1>4. Put(s, a, size, libre) = IF s.ok /\ Inside(a, Header) THEN [s EXCEPT !.m = c]
                                                            ELSE [s EXCEPT !.ok = FALSE]
  BY Zenon DEF Put, Written, HeaderByte
<1>5. ASSUME NEW i \in Arena
      PROVE  c[i] = IF a <= i /\ i < a + Header THEN HeaderByte(size, libre, i - a) ELSE s.m[i]
  BY Zenon
<1> HIDE DEF c
<1>6. CASE s.ok /\ Inside(a, Header)
  <2> DEFINE t == Put(s, a, size, libre)
  <2>1. t = [m |-> c, ok |-> TRUE]
    BY <1>1, <1>4, <1>6
  <2>2. t.m = c /\ t.ok = TRUE /\ t \in Memories
    BY <1>3, <2>1 DEF Memories
  <2> HIDE DEF t
  <2>3. t.ok = (s.ok /\ Inside(a, Header))
    BY <1>6, <2>2
  <2> QED BY <1>5, <2>2, <2>3 DEF t
<1>7. CASE ~(s.ok /\ Inside(a, Header))
  <2> DEFINE t == Put(s, a, size, libre)
  <2>1. t = [m |-> s.m, ok |-> FALSE]
    BY <1>1, <1>4, <1>7
  <2>2. t.m = s.m /\ t.ok = FALSE /\ t \in Memories
    BY <1>1, <2>1 DEF Memories
  <2> HIDE DEF t
  <2>3. t.ok = (s.ok /\ Inside(a, Header))
    BY <1>7, <2>2
  <2> QED BY <2>2, <2>3 DEF t
<1> QED BY <1>6, <1>7

\* The cells of a header that lies in the arena.
LEMMA HeaderCells ==
  ASSUME NEW a \in Int, Inside(a, Header)
  PROVE  /\ a \in Arena /\ a + 1 \in Arena /\ a + 2 \in Arena /\ a + 3 \in Arena /\ a + 4 \in Arena
         /\ a \in Nat /\ a + 5 <= MEMORY_SIZE
BY MuseAssumption DEF Inside, Header, Arena

\* The memory t is s with a header written at a.
Headed(s, t, a, size, libre) ==
  /\ t \in Memories /\ t.ok
  /\ \A i \in Arena : i < a \/ a + 5 <= i => t.m[i] = s.m[i]
  /\ size \in 0 .. W - 1 => SizeAt(t.m, a) = size
  /\ LibreAt(t.m, a) <=> libre
  /\ size \in 0 .. W - 1 /\ size < B * B * B => t.m[a + 3] = 0

\* A header that was written is read back, and the cells around it are what they were.
LEMMA PutReads ==
  ASSUME NEW s \in Memories, s.ok, NEW a \in Int, Inside(a, Header), NEW size \in Int,
         NEW libre \in BOOLEAN
  PROVE  Headed(s, Put(s, a, size, libre), a, size, libre)
<1> DEFINE t == Put(s, a, size, libre)
<1>1. /\ t \in Memories /\ t.ok
      /\ \A i \in Arena : t.m[i] = IF a <= i /\ i < a + Header THEN HeaderByte(size, libre, i - a)
                                                               ELSE s.m[i]
  <2>1. /\ t \in Memories
        /\ t.ok = (s.ok /\ Inside(a, Header))
        /\ t.ok => \A i \in Arena :
             t.m[i] = IF a <= i /\ i < a + Header THEN HeaderByte(size, libre, i - a) ELSE s.m[i]
    BY PutIs
  <2> HIDE DEF t
  <2> QED BY <2>1
<1> HIDE DEF t
<1>2. \A i \in Arena : i \in Int
  BY MuseAssumption DEF Arena
<1>3. \A i \in Arena : i < a \/ a + 5 <= i => t.m[i] = s.m[i]
  BY <1>1, <1>2 DEF Header
<1>4. /\ t.m[a] = HeaderByte(size, libre, 0) /\ t.m[a + 1] = HeaderByte(size, libre, 1)
      /\ t.m[a + 2] = HeaderByte(size, libre, 2) /\ t.m[a + 3] = HeaderByte(size, libre, 3)
      /\ t.m[a + 4] = HeaderByte(size, libre, 4)
  <2>1. \A j \in 0 .. 4 : a + j \in Arena => t.m[a + j] = HeaderByte(size, libre, j)
    <3> SUFFICES ASSUME NEW j \in 0 .. 4, a + j \in Arena PROVE t.m[a + j] = HeaderByte(size, libre, j)
      OBVIOUS
    <3>1. (a + j) - a = j /\ a <= a + j /\ a + j < a + Header
      BY DEF Header
    <3> QED BY <1>1, <3>1
  <2> QED BY <2>1, HeaderCells
<1>5. /\ t.m[a] = Byte(size, 0) /\ t.m[a + 1] = Byte(size, 1) /\ t.m[a + 2] = Byte(size, 2)
      /\ t.m[a + 3] = Byte(size, 3) /\ t.m[a + 4] = IF libre THEN 1 ELSE 0
  BY <1>4 DEF HeaderByte
<1>6. size \in 0 .. W - 1 => SizeAt(t.m, a) = size
  BY <1>5, NumberOfBytes DEF SizeAt
<1>7. size \in 0 .. W - 1 /\ size < B * B * B => t.m[a + 3] = 0
  BY <1>5, NumberOfBytes
<1>8. LibreAt(t.m, a) <=> libre
  BY <1>5 DEF LibreAt
<1> QED BY <1>1, <1>3, <1>6, <1>7, <1>8 DEF t, Headed

\* The size that a header holds.
LEMMA SizeIsNatural ==
  ASSUME NEW m \in [Arena -> Bytes], NEW a \in Int, Inside(a, Header)
  PROVE  SizeAt(m, a) \in Nat
<1>1. B \in Nat /\ \A i \in Arena : m[i] \in Nat
  BY HeapAssumption DEF Bytes
<1>2. \A x, y \in Nat : x + (B * y) \in Nat
  BY <1>1
<1>3. m[a] \in Nat /\ m[a + 1] \in Nat /\ m[a + 2] \in Nat /\ m[a + 3] \in Nat
  BY <1>1, HeaderCells
<1>4. m[a + 2] + (B * m[a + 3]) \in Nat
  BY <1>2, <1>3
<1>5. m[a + 1] + (B * (m[a + 2] + (B * m[a + 3]))) \in Nat
  BY <1>2, <1>3, <1>4
<1> QED BY <1>2, <1>3, <1>5 DEF SizeAt

\* A header is read as before when its cells are as before.
LEMMA SameHeader ==
  ASSUME NEW m, NEW k, NEW a \in Int, Inside(a, Header),
         \A i \in Arena : a <= i /\ i < a + 5 => k[i] = m[i]
  PROVE  SizeAt(k, a) = SizeAt(m, a) /\ (LibreAt(k, a) <=> LibreAt(m, a))
<1>1. /\ k[a] = m[a] /\ k[a + 1] = m[a + 1] /\ k[a + 2] = m[a + 2] /\ k[a + 3] = m[a + 3]
      /\ k[a + 4] = m[a + 4]
  BY HeaderCells
<1> QED BY <1>1 DEF SizeAt, LibreAt

\* What memset and the memcpy of a client's bytes write.
Fill(s, a, n, c) == Written(s, a, n, LAMBDA i : c)

LEMMA FilledIs ==
  ASSUME NEW s \in Memories, NEW a, NEW n, NEW c \in Bytes, NEW t, t = Fill(s, a, n, c)
  PROVE  /\ t \in Memories
         /\ t.ok = (s.ok /\ Inside(a, n))
         /\ ~t.ok => t.m = s.m
         /\ t.ok => \A i \in Arena : t.m[i] = IF a <= i /\ i < a + n THEN c ELSE s.m[i]
<1> DEFINE d == [i \in Arena |-> IF a <= i /\ i < a + n THEN c ELSE s.m[i]]
<1>1. s.m \in [Arena -> Bytes] /\ s.ok \in BOOLEAN /\ s = [m |-> s.m, ok |-> s.ok]
  BY DEF Memories
<1>2. d \in [Arena -> Bytes]
  BY <1>1, Zenon
<1>3. t = IF s.ok /\ Inside(a, n) THEN [s EXCEPT !.m = d] ELSE [s EXCEPT !.ok = FALSE]
  BY Zenon DEF Fill, Written
<1>4. ASSUME NEW i \in Arena PROVE d[i] = IF a <= i /\ i < a + n THEN c ELSE s.m[i]
  BY Zenon
<1> HIDE DEF d
<1>5. CASE s.ok /\ Inside(a, n)
  <2>1. t = [m |-> d, ok |-> TRUE]
    BY ONLY <1>1, <1>3, <1>5
  <2>2. t.m = d /\ t.ok = TRUE /\ t \in Memories
    BY ONLY <1>2, <2>1 DEF Memories
  <2>3. t.ok = (s.ok /\ Inside(a, n))
    BY ONLY <1>5, <2>2
  <2> QED BY ONLY <1>4, <2>2, <2>3
<1>6. CASE ~(s.ok /\ Inside(a, n))
  <2>1. t = [m |-> s.m, ok |-> FALSE]
    BY ONLY <1>1, <1>3, <1>6
  <2>2. t.m = s.m /\ t.ok = FALSE /\ t \in Memories
    BY ONLY <1>1, <2>1 DEF Memories
  <2>3. t.ok = (s.ok /\ Inside(a, n))
    BY ONLY <1>6, <1>1, <2>2
  <2> QED BY ONLY <2>2, <2>3
<1> QED BY <1>5, <1>6

LEMMA ZeroedIs ==
  ASSUME NEW s \in Memories, NEW a, NEW n
  PROVE  Zeroed(s, a, n) \in Memories
<1>1. 0 \in Bytes
  BY HeapAssumption DEF Bytes
<1>2. Zeroed(s, a, n) = Fill(s, a, n, 0)
  BY Zenon DEF Zeroed, Fill
<1> QED BY <1>1, <1>2, FilledIs
-------------------------------------------------------------------------------
(* The walk *)

LEMMA TurnsNatural ==
  ASSUME NEW seg, Len(seg) \in Nat
  PROVE  Turns(seg) \in Nat /\ Len(seg) * PAGE_SIZE \in Nat /\ Len(seg) * PAGE_SIZE <= Turns(seg)
<1>1. PAGE_SIZE \in Nat /\ Len(seg) + 1 \in Nat /\ Len(seg) <= Len(seg) + 1
  BY MuseAssumption
<1>2. \A x, y \in Nat : x * y \in Nat
  BY SMT
<1> QED BY <1>1, <1>2, ProductGrows DEF Turns

\* The recursion of LastFrom has a solution, so that it says what it seems to say.
LEMMA LastFromIs ==
  ASSUME NEW m, NEW seg, NEW need, Len(seg) \in Nat
  PROVE  \A k \in 0 .. Turns(seg) : \A o \in Int :
           LastFrom(m, seg, need)[k][o] =
             IF k = 0 \/ Stops(m, seg, need, o) THEN o
             ELSE LastFrom(m, seg, need)[k - 1][Following(m, seg, o)]
<1> DEFINE Step(f, k) == [o \in Int |-> IF k = 0 \/ Stops(m, seg, need, o) THEN o
                                        ELSE f[k - 1][Following(m, seg, o)]]
           Solved(n) == \E f : f = [k \in 0 .. n |-> Step(f, k)]
           Bad == {n \in Nat : ~Solved(n)}
<1>1. Bad = {}
  <2> SUFFICES ASSUME Bad # {} PROVE FALSE
    OBVIOUS
  <2>0. Bad \in SUBSET Nat
    BY Zenon
  <2> HIDE DEF Solved
  <2>1. PICK n \in Bad : \A j \in Bad : n <= j
    <3> HIDE DEF Bad
    <3> QED BY <2>0, LeastOf
  <2> USE DEF Solved
  <2>2. CASE n = 0
    <3> DEFINE f == [k \in 0 .. 0 |-> [o \in Int |-> o]]
    <3>1. f = [k \in 0 .. 0 |-> Step(f, k)]
      <4>1. \A k \in 0 .. 0 : Step(f, k) = [o \in Int |-> o]
        OBVIOUS
      <4> QED BY <4>1, Zenon
    <3> HIDE DEF f
    <3> QED BY <2>1, <2>2, <3>1
  <2>3. CASE n # 0
    <3>1. n - 1 \in Nat /\ n - 1 \notin Bad
      <4> HIDE DEF Bad
      <4> QED BY <2>0, <2>1, <2>3
    <3>2. PICK f : f = [k \in 0 .. n - 1 |-> Step(f, k)]
      BY <3>1
    <3> DEFINE g == [k \in 0 .. n |-> IF k = n THEN Step(f, n) ELSE f[k]]
    <3>3. ASSUME NEW k \in 0 .. n PROVE g[k] = Step(g, k)
      <4>1. CASE k = n
        <5>1. g[n] = Step(f, n) /\ g[n - 1] = f[n - 1]
          BY <3>1
        <5> HIDE DEF g
        <5> QED BY <4>1, <5>1
      <4>2. CASE k # n
        <5>1. g[k] = f[k] /\ k \in 0 .. n - 1
          BY <3>1, <4>2
        <5>2. f[k] = Step(f, k)
          BY <3>2, <5>1, Zenon
        <5>3. k # 0 => g[k - 1] = f[k - 1]
          BY <3>1, <4>2
        <5> HIDE DEF g
        <5> QED BY <5>1, <5>2, <5>3
      <4> QED BY <4>1, <4>2
    <3>4. g = [k \in 0 .. n |-> Step(g, k)]
      <4>1. g = [k \in 0 .. n |-> g[k]]
        BY Zenon
      <4> HIDE DEF g
      <4> QED BY <3>3, <4>1, Zenon
    <3> HIDE DEF g
    <3> QED BY <2>1, <3>4
  <2> QED BY <2>2, <2>3
<1>2. Turns(seg) \in Nat
  BY TurnsNatural
<1>3. Solved(Turns(seg))
  BY <1>1, <1>2
<1>4. LastFrom(m, seg, need) = [k \in 0 .. Turns(seg) |-> Step(LastFrom(m, seg, need), k)]
  BY <1>3, Zenon DEF LastFrom
<1> SUFFICES ASSUME NEW g, g = LastFrom(m, seg, need), NEW k \in 0 .. Turns(seg), NEW o \in Int
             PROVE  g[k][o] = IF k = 0 \/ Stops(m, seg, need, o) THEN o
                              ELSE g[k - 1][Following(m, seg, o)]
  BY Zenon
<1>5. g[k] = Step(g, k)
  BY <1>4, Zenon
<1>6. Step(g, k)[o] = IF k = 0 \/ Stops(m, seg, need, o) THEN o
                      ELSE g[k - 1][Following(m, seg, o)]
  BY Zenon
<1> HIDE DEF Step
<1> QED BY <1>5, <1>6

LEMMA PagesNatural ==
  ASSUME NEW seg \in PageLists
  PROVE  Len(seg) \in Nat /\ \A i \in 1 .. Len(seg) : seg[i] \in Frames /\ seg[i] \in Nat
<1>1. Frames \subseteq Nat
  BY PagesTotal DEF Frames
<1>2. Len(seg) \in Nat /\ \A i \in 1 .. Len(seg) : seg[i] \in Frames
  BY LenProperties, ElementOfSeq DEF PageLists
<1> QED BY <1>1, <1>2

\* Where a walk goes, from a header it can read.
LEMMA PlacesInt ==
  ASSUME NEW seg \in PageLists, NEW o \in Int
  PROVE  /\ PageOf(o) \in Int
         /\ ~Lost(seg, o) => Address(seg, o) \in Int /\ Inside(Address(seg, o), Header)
<1>1. PAGE_SIZE \in Nat \ {0}
  BY MuseAssumption
<1>2. PageOf(o) \in Int
  BY <1>1, Division DEF PageOf
<1>3. ASSUME ~Lost(seg, o) PROVE Address(seg, o) \in Int
  <2>1. PageOf(o) + 1 \in 1 .. Len(seg)
    BY <1>2, <1>3 DEF Lost, PageLists
  <2>2. seg[PageOf(o) + 1] \in Int
    BY <2>1, PagesNatural
  <2>3. \A x, y \in Int : x * y \in Int
    BY SMT
  <2>4. seg[PageOf(o) + 1] * PAGE_SIZE \in Int /\ PageOf(o) * PAGE_SIZE \in Int
    BY <1>1, <1>2, <2>2, <2>3
  <2> QED BY <2>4 DEF Address
<1> QED BY <1>2, <1>3 DEF Lost

LEMMA FollowingInt ==
  ASSUME NEW m \in [Arena -> Bytes], NEW seg \in PageLists, NEW o \in Int, ~Lost(seg, o)
  PROVE  Following(m, seg, o) \in Int
<1>1. o + Header + SizeAt(m, Address(seg, o)) \in Int
  BY PlacesInt, SizeIsNatural DEF Header
<1>2. \A x \in Int : Signed(x) \in Int
  BY MuseAssumption, Division DEF Signed
<1> QED BY <1>1, <1>2 DEF Following

LEMMA LastFromInt ==
  ASSUME NEW m \in [Arena -> Bytes], NEW seg \in PageLists, NEW need
  PROVE  \A k \in 0 .. Turns(seg) : \A o \in Int : LastFrom(m, seg, need)[k][o] \in Int
<1>0. Len(seg) \in Nat /\ Turns(seg) \in Nat
  BY TurnsNatural DEF PageLists
<1> SUFFICES ASSUME NEW f, f = LastFrom(m, seg, need)
             PROVE  \A k \in 0 .. Turns(seg) : \A o \in Int : f[k][o] \in Int
  OBVIOUS
<1> DEFINE Bad == {k \in 0 .. Turns(seg) : \E o \in Int : f[k][o] \notin Int}
<1> SUFFICES ASSUME Bad # {} PROVE FALSE
  OBVIOUS
<1>1. Bad \in SUBSET Nat
  BY <1>0
<1>2. PICK k \in Bad : \A j \in Bad : k <= j
  <2> HIDE DEF Bad
  <2> QED BY <1>1, LeastOf
<1>3. PICK o \in Int : f[k][o] \notin Int
  BY <1>2
<1>4. f[k][o] = IF k = 0 \/ Stops(m, seg, need, o) THEN o ELSE f[k - 1][Following(m, seg, o)]
  <2>1. k \in 0 .. Turns(seg)
    BY <1>2
  <2>2. \A j \in 0 .. Turns(seg) : \A x \in Int :
           f[j][x] = IF j = 0 \/ Stops(m, seg, need, x) THEN x ELSE f[j - 1][Following(m, seg, x)]
    BY <1>0, LastFromIs
  <2> HIDE DEF Bad
  <2> QED BY <2>1, <2>2, Zenon
<1>5. k # 0 /\ ~Stops(m, seg, need, o) /\ f[k - 1][Following(m, seg, o)] \notin Int
  BY <1>3, <1>4
<1>6. Following(m, seg, o) \in Int
  BY <1>5, FollowingInt DEF Stops
<1>7. k - 1 \in Bad /\ k - 1 < k
  BY <1>0, <1>2, <1>5, <1>6
<1> HIDE DEF Bad
<1> QED BY <1>1, <1>2, <1>7

\* What a walk answers.
LEMMA WalkAnswers ==
  ASSUME NEW m \in [Arena -> Bytes], NEW seg \in PageLists, NEW need
  PROVE  LET w == Walk(m, seg, need)
         IN /\ w.end \in {"found", "none", "hung", "wild"}
            /\ w.end = "found" => w.at \in Int /\ w.ptr \in Int /\ Inside(w.at, Header)
<1>0. Turns(seg) \in 0 .. Turns(seg)
  BY TurnsNatural DEF PageLists
<1> DEFINE o == LastFrom(m, seg, need)[Turns(seg)][0]
<1>1. o \in Int
  BY <1>0, LastFromInt
<1>2. Walk(m, seg, need) =
        IF ~Stops(m, seg, need, o) THEN [end |-> "hung"]
        ELSE IF Lost(seg, o) THEN [end |-> "wild"]
        ELSE IF Fits(m, seg, need, o)
        THEN [end |-> "found", at |-> Address(seg, o), ptr |-> o + Header]
        ELSE [end |-> "none"]
  BY Zenon DEF Walk
<1> HIDE DEF o
<1>3. CASE ~Lost(seg, o)
  BY <1>1, <1>2, <1>3, PlacesInt DEF Header
<1>4. CASE Lost(seg, o)
  BY <1>2, <1>4
<1> QED BY <1>3, <1>4

LEMMA CarveAnswers ==
  ASSUME NEW s \in Memories, NEW seg \in PageLists, NEW need \in Int
  PROVE  LET r == Carve(s, seg, need)
         IN r.s \in Memories /\ r.ptr \in Int /\ r.end \in {"up", "hung", "wild"}
<1> DEFINE w == Walk(s.m, seg, need)
           size == SizeAt(s.m, w.at)
           one == Put(s, w.at, need, FALSE)
           two == Put(one, w.at + Header + need, (size - need - Header) % W, TRUE)
<1>1. s.m \in [Arena -> Bytes] /\ W \in Nat \ {0}
  BY MuseAssumption DEF Memories
<1>2. /\ w.end \in {"found", "none", "hung", "wild"}
      /\ w.end = "found" => w.at \in Int /\ w.ptr \in Int /\ Inside(w.at, Header)
  BY <1>1, WalkAnswers
<1>3. Carve(s, seg, need) =
        CASE w.end = "found" -> [s |-> two, ptr |-> w.ptr, end |-> "up"]
          [] w.end = "none"  -> [s |-> s, ptr |-> W - 1, end |-> "up"]
          [] OTHER           -> [s |-> s, ptr |-> W - 1, end |-> w.end]
  BY Zenon DEF Carve
<1>4. ASSUME w.end = "found" PROVE two \in Memories
  <2> HIDE DEF w
  <2>1. size \in Nat
    BY <1>1, <1>2, <1>4, SizeIsNatural
  <2>2. one \in Memories
    BY <1>2, <1>4, PutIs
  <2> HIDE DEF size, one
  <2>3. (size - need - Header) % W \in Int /\ w.at + Header + need \in Int
    BY <1>1, <1>2, <1>4, <2>1, Division DEF Header
  <2> QED BY <2>2, <2>3, PutIs
<1> HIDE DEF w, two
<1>5. CASE w.end = "found"
  BY <1>2, <1>3, <1>4, <1>5
<1>6. CASE w.end # "found"
  BY <1>1, <1>2, <1>3, <1>6
<1> QED BY <1>5, <1>6

LEMMA SignedInt == ASSUME NEW x \in Int PROVE Signed(x) \in Int
<1>1. x % W \in Int /\ W \in Int
  BY Division, MuseAssumption
<1> QED BY <1>1 DEF Signed

LEMMA FirstBlockAnswers ==
  ASSUME NEW s \in Memories, NEW seg \in PageLists, seg # <<>>, NEW n \in Int
  PROVE  LET r == FirstBlock(s, seg, n)
         IN r.s \in Memories /\ r.ptr \in Int /\ r.end \in {"up", "hung", "wild"}
<1> DEFINE first == seg[1] * PAGE_SIZE
           sobran == Signed(Len(seg) * PAGE_SIZE - n - Header)
           s1 == Put(s, first, n, FALSE)
           s2 == Put(s1, (seg[Len(seg)] + 1) * PAGE_SIZE - sobran, (sobran - 6) % W, TRUE)
           trial == Carve(s2, seg, 5)
           s3 == Put(trial.s, first + 10, (Len(seg) * PAGE_SIZE - 16) % W, TRUE)
<1>1. /\ first \in Int /\ sobran \in Int /\ (seg[Len(seg)] + 1) * PAGE_SIZE - sobran \in Int
      /\ (sobran - 6) % W \in Int /\ (Len(seg) * PAGE_SIZE - 16) % W \in Int
  <2>1. Len(seg) \in Nat /\ Len(seg) >= 1 /\ seg[1] \in Int /\ seg[Len(seg)] \in Int
    <3>1. Len(seg) \in Nat /\ Len(seg) >= 1
      BY EmptySeq, PagesNatural DEF PageLists
    <3> QED BY <3>1, PagesNatural
  <2>2. \A x, y \in Int : x * y \in Int
    BY SMT
  <2>3. first \in Int /\ Len(seg) * PAGE_SIZE \in Int /\ (seg[Len(seg)] + 1) * PAGE_SIZE \in Int
    BY <2>1, <2>2, MuseAssumption
  <2>4. \A x \in Int : x % W \in Int
    BY MuseAssumption, Division
  <2>5. Len(seg) * PAGE_SIZE - n - Header \in Int /\ Len(seg) * PAGE_SIZE - 16 \in Int
    BY <2>3 DEF Header
  <2>6. sobran \in Int
    BY <2>5, SignedInt
  <2>7. sobran - 6 \in Int /\ \A x \in Int : x - sobran \in Int
    <3> HIDE DEF sobran
    <3> QED BY <2>6
  <2> HIDE DEF first, sobran
  <2> QED BY <2>3, <2>4, <2>5, <2>6, <2>7
<1>2. s2 \in Memories
  <2>1. s1 \in Memories
    BY <1>1, PutIs
  <2> HIDE DEF s1, first, sobran
  <2> QED BY <1>1, <2>1, PutIs
<1>3. trial.s \in Memories /\ trial.ptr \in Int /\ trial.end \in {"up", "hung", "wild"}
  <2> HIDE DEF s2
  <2> QED BY <1>2, CarveAnswers
<1>4. s3 \in Memories
  <2>1. first + 10 \in Int
    BY <1>1
  <2> HIDE DEF trial, first, sobran
  <2> QED BY <1>1, <1>3, <2>1, PutIs
<1>5. FirstBlock(s, seg, n) =
        IF ~s2.ok THEN [s |-> s2, ptr |-> 0, end |-> "wild"]
        ELSE IF trial.end # "up" THEN trial
        ELSE [s |-> s3, ptr |-> first + Header, end |-> "up"]
  BY Zenon DEF FirstBlock
<1> HIDE DEF s2, trial, s3, first
<1> QED BY <1>1, <1>2, <1>3, <1>4, <1>5 DEF Header
-------------------------------------------------------------------------------
(* The server without its bytes, and the types *)

\* Each handler does to processes, pages and frames what MusePaging says.
LEMMA HeapStepIsStep == [HeapNext]_heapVars => [Next]_vars
<1> SUFFICES ASSUME [HeapNext]_heapVars PROVE [Next]_vars
  OBVIOUS
<1>1. ASSUME NEW p \in Pids, NEW n \in Sizes,
             \/ HeapMallocFirst(p, n) \/ HeapMallocNone(p, n)
             \/ HeapMallocWild(p, n) \/ HeapMallocAgain(p, n)
      PROVE  Next
  BY <1>1 DEF HeapMallocFirst, HeapMallocNone, HeapMallocWild, HeapMallocAgain, Handle, Next
<1>2. ASSUME NEW p \in Pids, NEW at,
             \/ HeapGet(p, at) \/ HeapFree(p, at) \/ Unknown(p)
             \/ \E n \in Lengths, c \in Contents : HeapCopy(p, at, n, c)
      PROVE  Next
  BY <1>2, Zenon DEF HeapGet, HeapFree, Unknown, HeapCopy, Handle, Next
<1>3. CASE HeapDisconnect \/ HeapGone \/ UNCHANGED heapVars
  BY <1>3 DEF HeapDisconnect, HeapGone, heapVars, Next
<1> QED BY <1>1, <1>2, <1>3, Zenon DEF HeapNext

\* The invariants of the processes, pages and frames, for the server with its bytes.
THEOREM PagingSafe == HeapSpec => []Safe
<1>1. HeapInit => Init
  BY DEF HeapInit
<1> QED BY <1>1, HeapStepIsStep, Invariance, PTL DEF HeapSpec, Spec

Blocks == [at : 0 .. W - 1, size : Sizes, len : Nat, byte : Bytes]

\* The pages that are taken for a new segment.
LEMMA PagesTaken ==
  ASSUME Safe, NEW p \in Pids, NEW n \in Sizes, MallocFirst(p, n)
  PROVE  LET f == FirstOf(FreeFrames, PagesFor(n))
         IN f \in PageLists /\ f # <<>> /\ Len(f) = PagesFor(n) /\ PagesFor(n) \in Nat \ {0}
<1> DEFINE N == cantidad_paginas_totales
           k == PagesFor(n)
<1>1. N \in Nat /\ k \in Nat /\ k > 0
  BY PagesTotal, PagesForInt DEF MallocFirst
<1>2. PICK a \in 0 .. N : FreeFrames = a .. N - 1
  BY DEF Safe, FreeAreLast
<1>3. Cardinality(a .. N - 1) >= k
  BY <1>1, <1>2 DEF MallocFirst, existe_memoria
<1>4. a \in Nat /\ Cardinality(a .. N - 1) = IF a > N - 1 THEN 0 ELSE N - a
  BY <1>1, FS_Interval
<1>5. a + k <= N
  BY <1>1, <1>3, <1>4
<1>6. FirstOf(a .. N - 1, k) \in [1 .. k -> a .. N - 1]
  BY <1>1, <1>4, <1>5, FirstOfInterval
<1> HIDE DEF k
<1>7. a .. N - 1 \subseteq Frames
  BY <1>1 DEF Frames
<1>8. FirstOf(FreeFrames, k) \in [1 .. k -> Frames]
  BY <1>2, <1>6, <1>7
<1>9. \A f \in [1 .. k -> Frames] : f \in Seq(Frames) /\ Len(f) = k /\ f # <<>>
  BY <1>1
<1> QED BY <1>1, <1>8, <1>9 DEF k, PageLists

Reasons == {"garbage", "tight", "edge", "small", "elsewhere", "partial",
            "brief", "freed", "swap", "wrapped", "empty", "nowhere"}

\* The types of what MuseHeap adds.
BytesOK == /\ memoria \in [Arena -> Bytes]
           /\ live \subseteq Blocks
           /\ asked \in 0 .. MaxBlocks
           /\ strayed \subseteq Reasons

LEMMA LeavesMemory ==
  ASSUME memoria \in [Arena -> Bytes], NEW s \in Memories, NEW end, Leaves(s, end)
  PROVE  memoria' \in [Arena -> Bytes]
BY DEF Memories, Leaves

LEMMA GrantedBlock ==
  ASSUME live \subseteq Blocks, asked \in 0 .. MaxBlocks, asked < MaxBlocks,
         NEW ptr \in Int, NEW n \in Sizes, Granted(ptr, n)
  PROVE  live' \subseteq Blocks /\ asked' \in 0 .. MaxBlocks
<1>1. MaxBlocks \in Nat /\ B \in Nat /\ B >= 2 /\ W \in Nat \ {0}
  BY HeapAssumption, MuseAssumption
<1>2. asked' \in 0 .. MaxBlocks
  BY <1>1 DEF Granted
<1>3. ptr % W \in 0 .. W - 1
  BY <1>1, Division
<1>4. [at |-> ptr % W, size |-> n, len |-> 0, byte |-> 0] \in Blocks
  BY <1>1, <1>3 DEF Blocks, Bytes
<1> QED BY <1>2, <1>4, Zenon DEF Granted

LEMMA StraysReasons ==
  ASSUME strayed \subseteq Reasons, NEW S \in SUBSET Reasons, Strays(S)
  PROVE  strayed' \subseteq Reasons
BY DEF Strays

LEMMA NowhereReason == ASSUME NEW dir PROVE Nowhere(dir) \in SUBSET Reasons
BY DEF Nowhere, When, Reasons

LEMMA MemoryIs ==
  ASSUME memoria \in [Arena -> Bytes]
  PROVE  Memory \in Memories /\ Memory.m = memoria /\ Memory.ok = TRUE
BY DEF Memory, Memories

LEMMA TypeMallocFirst ==
  ASSUME Safe, BytesOK, NEW p \in Pids, NEW n \in Sizes, HeapMallocFirst(p, n)
  PROVE  BytesOK'
<1> DEFINE f == FirstOf(FreeFrames, PagesFor(n))
           r == FirstBlock(Memory, f, n)
<1>1. f \in PageLists /\ f # <<>>
  BY PagesTaken DEF HeapMallocFirst
<1>2. n \in Int
  BY MuseAssumption
<1>3. Memory \in Memories
  BY MemoryIs DEF BytesOK
<1>4. r.s \in Memories /\ r.ptr \in Int
  <2> HIDE DEF f
  <2> QED BY <1>1, <1>2, <1>3, FirstBlockAnswers
<1>5. /\ asked < MaxBlocks /\ Leaves(r.s, r.end) /\ Granted(r.ptr, n)
      /\ \E S \in SUBSET Reasons : Strays(S)
  <2>1. asked < MaxBlocks /\ Leaves(r.s, r.end) /\ Granted(r.ptr, n)
    BY Zenon DEF HeapMallocFirst
  <2>2. ASSUME NEW a, NEW b, NEW c, NEW d, NEW e
        PROVE  When(e, "wrapped") \cup When(b, "small") \cup When(a, "tight") \cup When(c, "edge")
                 \cup When(d, "swap") \in SUBSET Reasons
    BY DEF When, Reasons
  <2>3. \E a, b, c, d, e : Strays(When(e, "wrapped") \cup When(b, "small") \cup When(a, "tight")
                                    \cup When(c, "edge") \cup When(d, "swap"))
    BY Zenon DEF HeapMallocFirst
  <2> QED BY <2>1, <2>2, <2>3, Zenon
<1> HIDE DEF r
<1> QED BY <1>4, <1>5, LeavesMemory, GrantedBlock, StraysReasons DEF BytesOK

LEMMA TypeMallocAgain ==
  ASSUME Safe, BytesOK, NEW p \in Pids, NEW n \in Sizes, HeapMallocAgain(p, n)
  PROVE  BytesOK'
<1> DEFINE seg == Segments(p)[Len(Segments(p))]
           r == Carve(Memory, seg, n)
<1>1. n \in Int /\ Memory \in Memories
  <2>1. n \in Int
    BY MuseAssumption
  <2>2. Memory \in Memories
    BY MemoryIs DEF BytesOK
  <2> QED BY <2>1, <2>2
<1>2. CASE seg = <<>>
  <2>1. Blames("empty")
    BY <1>2, Zenon DEF HeapMallocAgain
  <2>2. {"empty"} \in SUBSET Reasons
    BY DEF Reasons
  <2> QED BY <2>1, <2>2, StraysReasons DEF Blames, BytesOK
<1>3. CASE seg # <<>>
  <2>1. seg \in PageLists
    <3>1. Segments(p) # <<>>
      BY Zenon DEF HeapMallocAgain, MallocAgain
    <3>2. LET l == procesar_id(p)
              at == Position(l, p)
          IN l \in Seq(Processes) /\ at \in DOMAIN l
      BY Registered DEF Safe
    <3>3. Segments(p) \in Seq(PageLists)
      <4>1. PICK l, at : /\ l \in Seq(Processes) /\ l = procesar_id(p)
                         /\ at = Position(l, p) /\ at \in 1 .. Len(l)
        BY <3>2
      <4>2. l[at] \in Processes
        BY <4>1, ElementOfSeq
      <4>3. Segments(p) = l[at].segments
        BY <4>1, Zenon DEF Segments
      <4> QED BY <4>2, <4>3 DEF Processes
    <3>4. Len(Segments(p)) \in 1 .. Len(Segments(p))
      BY <3>1, <3>3, EmptySeq, LenProperties
    <3> QED BY <3>3, <3>4, ElementOfSeq
  <2>2. r.s \in Memories /\ r.ptr \in Int
    <3> HIDE DEF seg
    <3> QED BY <1>1, <2>1, CarveAnswers
  <2>3. /\ asked < MaxBlocks /\ Leaves(r.s, r.end) /\ Granted(r.ptr, n)
        /\ \E S \in SUBSET Reasons : Strays(S)
    <3>1. asked < MaxBlocks /\ Leaves(r.s, r.end) /\ Granted(r.ptr, n)
      BY <1>3, Zenon DEF HeapMallocAgain
    <3>2. ASSUME NEW a, NEW b, NEW c
          PROVE  When(a, "tight") \cup When(b, "elsewhere") \cup When(c, "edge") \in SUBSET Reasons
      BY DEF When, Reasons
    <3>3. \E a, b, c : Strays(When(a, "tight") \cup When(b, "elsewhere") \cup When(c, "edge"))
      BY <1>3, Zenon DEF HeapMallocAgain
    <3> QED BY <3>1, <3>2, <3>3, Zenon
  <2> HIDE DEF r
  <2> QED BY <2>2, <2>3, LeavesMemory, GrantedBlock, StraysReasons DEF BytesOK
<1> QED BY <1>2, <1>3

LEMMA TypeCopy ==
  ASSUME BytesOK, NEW p, NEW dst, NEW n \in Lengths, NEW c \in Contents, dst \in Int,
         HeapCopy(p, dst, n, c)
  PROVE  BytesOK'
<1> DEFINE one == Put(Memory, dst - Header, n, FALSE)
           s == Written(one, dst, n, LAMBDA i : c)
           changed == {IF b.at = dst THEN [b EXCEPT !.len = n, !.byte = c] ELSE b : b \in live}
<1>1. n \in Nat /\ c \in Bytes /\ dst - Header \in Int
  BY HeapAssumption DEF Bytes, Header
<1>2. Memory \in Memories
  BY MemoryIs DEF BytesOK
<1>3. s \in Memories
  <2>1. n \in Int /\ dst - Header \in Int /\ FALSE \in BOOLEAN
    BY <1>1
  <2>2. one \in Memories
    BY <1>2, <2>1, PutIs, Zenon
  <2> HIDE DEF one
  <2>3. s = Fill(one, dst, n, c)
    BY Zenon DEF Fill
  <2> QED BY <1>1, <2>2, <2>3, FilledIs
<1>4. changed \subseteq Blocks
  <2>1. ASSUME NEW b \in Blocks PROVE [b EXCEPT !.len = n, !.byte = c] \in Blocks
    BY <1>1 DEF Blocks
  <2> QED BY <2>1, Zenon DEF BytesOK
<1>5. /\ (status' = "up" /\ UNCHANGED memoria) \/ Leaves(s, "up")
      /\ live' = live \/ live' = changed
      /\ UNCHANGED asked
      /\ \E S \in SUBSET Reasons : Strays(S)
  <2>1. /\ (status' = "up" /\ UNCHANGED memoria) \/ Leaves(s, "up")
        /\ live' = live \/ live' = changed
        /\ UNCHANGED asked
    BY Zenon DEF HeapCopy
  <2>2. ASSUME NEW d PROVE Nowhere(dst) \cup When(d, "partial") \in SUBSET Reasons
    BY NowhereReason DEF When, Reasons
  <2>3. \E d : Strays(Nowhere(dst) \cup When(d, "partial"))
    BY Zenon DEF HeapCopy
  <2> QED BY <2>1, <2>2, <2>3, Zenon
<1> HIDE DEF s, changed
<1> QED BY <1>3, <1>4, <1>5, LeavesMemory, StraysReasons DEF BytesOK

LEMMA TypeFree ==
  ASSUME BytesOK, NEW p, NEW dir, HeapFree(p, dir)
  PROVE  BytesOK'
<1> DEFINE size == SizeAt(memoria, dir - Header)
           s1 == Zeroed(Memory, dir + Header, size)
           both == (size + SizeAt(s1.m, dir + size)) % W
           s2 == Zeroed(s1, dir + both, both)
<1>1. Memory \in Memories
  BY MemoryIs DEF BytesOK
<1>2. s1 \in Memories
  BY <1>1, ZeroedIs
<1>3. s2 \in Memories
  <2> HIDE DEF s1
  <2> QED BY <1>2, ZeroedIs
<1>4. Nowhere(dir) \in SUBSET Reasons /\ {"freed"} \in SUBSET Reasons
  BY NowhereReason DEF Reasons
<1>5. /\ UNCHANGED asked
      /\ \/ UNCHANGED memoria
         \/ \E end : Leaves(s1, end) \/ Leaves(s2, end)
      /\ UNCHANGED live \/ live' = {b \in live : b.at # dir}
      /\ \/ UNCHANGED strayed
         \/ \E S \in SUBSET Reasons : Strays(S)
  <2>1. UNCHANGED asked
    BY Zenon DEF HeapFree
  <2>2. CASE ~Inside(dir - Header, POINTER)
    BY <1>4, <2>1, <2>2, Zenon DEF HeapFree
  <2>3. CASE Inside(dir - Header, POINTER)
    <3>1. PICK libre \in LibreRead(dir - Header) :
             IF libre
             THEN status' = "up" /\ UNCHANGED <<memoria, live, strayed>>
             ELSE IF ~s1.ok \/ ~Inside(dir + size, POINTER)
             THEN status' = "wild" /\ Strays({"freed"}) /\ UNCHANGED <<memoria, live>>
             ELSE /\ \E closest \in (IF POINTER >= Header THEN {LibreAt(s1.m, dir + size)} ELSE BOOLEAN) :
                       LET s == IF closest THEN s2 ELSE s1
                       IN Leaves(s, IF s.ok THEN Behind(s.m, dir) ELSE "wild")
                  /\ live' = {b \in live : b.at # dir}
                  /\ Strays({"freed"})
      BY <2>3, Zenon DEF HeapFree
    <3> HIDE DEF s1, s2, size
    <3>2. CASE libre
      BY <2>1, <3>1, <3>2
    <3>3. CASE ~libre /\ (~s1.ok \/ ~Inside(dir + size, POINTER))
      BY <1>4, <2>1, <3>1, <3>3, Zenon
    <3>4. CASE ~libre /\ ~(~s1.ok \/ ~Inside(dir + size, POINTER))
      <4>1. PICK closest :
              LET s == IF closest THEN s2 ELSE s1
              IN Leaves(s, IF s.ok THEN Behind(s.m, dir) ELSE "wild")
        BY <3>1, <3>4, Zenon
      <4>2. (\E end : Leaves(s1, end)) \/ (\E end : Leaves(s2, end))
        <5>1. CASE closest
          BY <4>1, <5>1, Zenon
        <5>2. CASE ~closest
          BY <4>1, <5>2, Zenon
        <5> QED BY <5>1, <5>2
      <4>3. \E end : Leaves(s1, end) \/ Leaves(s2, end)
        BY <4>2, Zenon
      <4> QED BY <1>4, <2>1, <3>1, <3>4, <4>3, Zenon
    <3> QED BY <3>2, <3>3, <3>4, Zenon
  <2> QED BY <2>2, <2>3, Zenon
<1> HIDE DEF s1, s2
<1>6. memoria' \in [Arena -> Bytes]
  BY <1>2, <1>3, <1>5, LeavesMemory DEF BytesOK
<1>7. strayed' \subseteq Reasons
  BY <1>5, StraysReasons DEF BytesOK
<1> QED BY <1>5, <1>6, <1>7 DEF BytesOK

LEMMA TypeStep == Safe /\ BytesOK /\ [HeapNext]_heapVars => BytesOK'
<1> SUFFICES ASSUME Safe, BytesOK, [HeapNext]_heapVars PROVE BytesOK'
  OBVIOUS
<1>1. ASSUME NEW p \in Pids, NEW n \in Sizes,
             \/ HeapMallocFirst(p, n) \/ HeapMallocNone(p, n)
             \/ HeapMallocWild(p, n) \/ HeapMallocAgain(p, n)
      PROVE  BytesOK'
  <2>1. CASE HeapMallocNone(p, n)
    <3>1. asked < MaxBlocks /\ Granted(W - 1, n) /\ UNCHANGED <<memoria, strayed>> /\ W - 1 \in Int
      BY <2>1, MuseAssumption DEF HeapMallocNone
    <3> QED BY <3>1, GrantedBlock DEF BytesOK
  <2>2. CASE HeapMallocWild(p, n)
    <3>1. Blames("wrapped") /\ {"wrapped"} \in SUBSET Reasons
      BY <2>2 DEF HeapMallocWild, Reasons
    <3> QED BY <3>1, StraysReasons DEF Blames, BytesOK
  <2> QED BY <1>1, <2>1, <2>2, TypeMallocFirst, TypeMallocAgain
<1>2. ASSUME NEW p \in Pids, NEW at \in {b.at : b \in live} \cup {W - 1},
             \/ HeapGet(p, at) \/ HeapFree(p, at) \/ Unknown(p)
             \/ \E n \in Lengths, c \in Contents : HeapCopy(p, at, n, c)
      PROVE  BytesOK'
  <2>1. CASE HeapGet(p, at)
    <3>1. UNCHANGED <<memoria, live, asked>>
      BY <2>1 DEF HeapGet
    <3>2. ASSUME NEW d PROVE Nowhere(at) \cup When(d, "brief") \in SUBSET Reasons
      BY NowhereReason DEF When, Reasons
    <3>3. \E d : Strays(Nowhere(at) \cup When(d, "brief"))
      BY <2>1, Zenon DEF HeapGet
    <3>4. strayed' \subseteq Reasons
      BY <3>2, <3>3, StraysReasons DEF BytesOK
    <3> QED BY <3>1, <3>4 DEF BytesOK
  <2>2. CASE Unknown(p)
    BY <2>2 DEF Unknown, client, BytesOK
  <2>3. at \in Int
    <3>1. \A b \in live : b.at \in Int
      BY MuseAssumption DEF BytesOK, Blocks
    <3> QED BY <3>1, MuseAssumption
  <2> QED BY <1>2, <2>1, <2>2, <2>3, TypeFree, TypeCopy
<1>3. CASE HeapDisconnect \/ HeapGone \/ UNCHANGED heapVars
  BY <1>3 DEF HeapDisconnect, HeapGone, heapVars, client, BytesOK
<1> QED BY <1>1, <1>2, <1>3, Zenon DEF HeapNext

LEMMA TypeInit == HeapInit => BytesOK
<1> SUFFICES ASSUME HeapInit PROVE BytesOK
  OBVIOUS
<1>1. \A g \in Garbage : [a \in Arena |-> g] \in [Arena -> Bytes]
  BY HeapAssumption DEF Bytes
<1>2. memoria \in [Arena -> Bytes] /\ live = {} /\ asked = 0
  BY <1>1 DEF HeapInit
<1>3. strayed \subseteq Reasons
  BY DEF HeapInit, Reasons
<1> QED BY <1>2, <1>3, HeapAssumption DEF BytesOK

\* The server's vectors and lists, its memory of bytes, and the blocks of the clients keep
\* their types, whatever is written where.
THEOREM HeapTypeCorrect == HeapSpec => []HeapTypeOK
<1>1. Safe /\ BytesOK => HeapTypeOK
  BY DEF Safe, BytesOK, HeapTypeOK, Blocks, Bytes, Reasons
<1> QED BY <1>1, TypeInit, TypeStep, PagingSafe, PTL DEF HeapSpec
-------------------------------------------------------------------------------
(* The walk over a chain of headers *)

\* The header after the one at the offset o of the run of frames from base on.
After(m, base, o) == o + 5 + SizeAt(m, base + o)

\* Headers stand at the offsets S of the L cells from base on: from each the next one is
\* reached, and the last one is that of the last cell, which the walk reads by mistake.
Chain(m, base, L, S) ==
  /\ S \subseteq 0 .. L - 1 /\ 0 \in S /\ L - 1 \in S
  /\ \A o \in S : o # L - 1 => /\ After(m, base, o) \in S /\ o + 5 <= After(m, base, o)
                               /\ \A x \in S : x <= o \/ After(m, base, o) <= x

\* The pages of seg follow one another from f on.
Run(seg, f) == \A i \in 1 .. Len(seg) : seg[i] = f + (i - 1)

\* What the header of the last cell must be for the walk to end there.
Ends(m, a, L) == ~LibreAt(m, a) /\ 2 * (L + 4 + SizeAt(m, a)) < W

LEMMA SmallMemory == /\ MEMORY_SIZE \in Nat /\ 2 * MEMORY_SIZE <= W
                     /\ B * MEMORY_SIZE \in Nat /\ 2 * (B * MEMORY_SIZE) <= W
                     /\ 2 * MEMORY_SIZE <= B * B * B /\ W \in Nat \ {0}
                     /\ MEMORY_SIZE > 0 => 2 * MEMORY_SIZE < W
<1>1. B \in Nat /\ B >= 2 /\ MEMORY_SIZE \in Nat /\ W \in Nat \ {0}
  BY HeapAssumption, MuseAssumption
<1>2. \A x, y \in Nat : x * y \in Nat
  BY SMT
<1>3. B * MEMORY_SIZE \in Nat /\ 2 * (B * MEMORY_SIZE) = 2 * B * MEMORY_SIZE
  BY <1>1, <1>2
<1>4. 2 * (B * MEMORY_SIZE) <= W
  BY <1>3, HeapAssumption
<1>5. 2 * MEMORY_SIZE <= B * MEMORY_SIZE
  BY <1>1, ProductGrows
<1>6. 2 * MEMORY_SIZE <= B * B * B
  <2> DEFINE c == B * B * B
             d == 2 * MEMORY_SIZE
  <2>1. c \in Nat /\ d \in Nat /\ c * B = W
    BY <1>1, <1>2, HeapAssumption
  <2>2. d * B <= c * B
    BY <1>1, <1>3, <1>4, <2>1
  <2> SUFFICES ASSUME c < d PROVE FALSE
    BY <2>1
  <2> HIDE DEF c, d
  <2>3. (c + 1) * B <= d * B /\ (c + 1) * B = (c * B) + B
    BY <1>1, <2>1, ProductGrows
  <2> QED BY <1>1, <2>1, <2>2, <2>3
<1> QED BY <1>1, <1>3, <1>4, <1>5, <1>6

LEMMA SignedSmall ==
  ASSUME NEW x \in Nat, 2 * x < W
  PROVE  Signed(x) = x
<1>1. W \in Nat \ {0} /\ x < W
  BY MuseAssumption
<1>2. x % W = x
  BY <1>1
<1> QED BY <1>2 DEF Signed

\* An offset of a run of frames is the address from its base on.
LEMMA AddressInRun ==
  ASSUME NEW seg \in PageLists, NEW f \in Nat, Run(seg, f), NEW o \in Nat,
         o < Len(seg) * PAGE_SIZE
  PROVE  PageOf(o) \in 0 .. Len(seg) - 1 /\ Address(seg, o) = f * PAGE_SIZE + o
<1> DEFINE q == o \div PAGE_SIZE
<1>1. PAGE_SIZE \in Nat \ {0} /\ Len(seg) \in Nat
  BY MuseAssumption, PagesNatural
<1>2. q \in Nat /\ PAGE_SIZE * q <= o /\ PageOf(o) = q
  <2>1. q \in Nat /\ o % PAGE_SIZE \in 0 .. PAGE_SIZE - 1 /\ o = (PAGE_SIZE * q) + (o % PAGE_SIZE)
    BY <1>1, DivisionNat, Zenon
  <2>2. PageOf(o) = q
    BY DEF PageOf
  <2> HIDE DEF q
  <2>3. PAGE_SIZE * q \in Int
    BY <1>1, <2>1, ProductGrows
  <2> QED BY <2>1, <2>2, <2>3
<1> HIDE DEF q
<1>3. q < Len(seg)
  <2> SUFFICES ASSUME Len(seg) <= q PROVE FALSE
    BY <1>1, <1>2
  <2>1. Len(seg) * PAGE_SIZE <= q * PAGE_SIZE /\ q * PAGE_SIZE = PAGE_SIZE * q
    BY <1>1, <1>2, ProductGrows
  <2>2. Len(seg) * PAGE_SIZE \in Int /\ PAGE_SIZE * q \in Int
    BY <1>1, <1>2, ProductGrows
  <2> QED BY <1>2, <2>1, <2>2
<1>4. seg[q + 1] = f + q
  <2>1. q + 1 \in 1 .. Len(seg) /\ (q + 1) - 1 = q
    BY <1>1, <1>2, <1>3
  <2> QED BY <2>1 DEF Run
<1>5. (f + q) * PAGE_SIZE = (f * PAGE_SIZE) + (q * PAGE_SIZE)
  BY <1>1, <1>2
<1>6. f * PAGE_SIZE \in Int /\ q * PAGE_SIZE \in Int
  BY <1>1, <1>2, ProductGrows
<1>7. Address(seg, o) = f * PAGE_SIZE + o
  BY <1>2, <1>4, <1>5, <1>6 DEF Address
<1> QED BY <1>1, <1>2, <1>3, <1>7

\* The walk's step from a header of the chain.
LEMMA OnChain ==
  ASSUME NEW m \in [Arena -> Bytes], NEW seg \in PageLists, NEW f \in Nat, Run(seg, f),
         NEW L \in Nat, L = Len(seg) * PAGE_SIZE, NEW base \in Nat, base = f * PAGE_SIZE,
         base + L <= MEMORY_SIZE, NEW S, Chain(m, base, L, S), NEW o \in S, o # L - 1
  PROVE  /\ o \in Nat /\ Inside(base + o, Header) /\ After(m, base, o) \in S
         /\ After(m, base, o) >= o + 5 /\ After(m, base, o) <= L - 1
         /\ ~Lost(seg, o) /\ Address(seg, o) = base + o
         /\ Following(m, seg, o) = After(m, base, o)
<1>1. /\ o \in Nat /\ o < L - 1 /\ After(m, base, o) \in S /\ After(m, base, o) \in Nat
      /\ o + 5 <= After(m, base, o) /\ After(m, base, o) <= L - 1
  <2>1. /\ S \subseteq 0 .. L - 1 /\ After(m, base, o) \in S /\ o + 5 <= After(m, base, o)
    BY DEF Chain
  <2>2. o \in 0 .. L - 1 /\ After(m, base, o) \in 0 .. L - 1
    BY <2>1
  <2> QED BY <2>1, <2>2
<1>2. PageOf(o) \in 0 .. Len(seg) - 1 /\ Address(seg, o) = base + o
  BY <1>1, AddressInRun
<1>3. MEMORY_SIZE \in Nat /\ 2 * MEMORY_SIZE <= W /\ W \in Nat
  BY SmallMemory
<1>4. Inside(base + o, Header)
  BY <1>1, <1>3 DEF Inside, Header
<1>5. Following(m, seg, o) = Signed(After(m, base, o))
  BY <1>2 DEF Following, After, Header
<1>6. Signed(After(m, base, o)) = After(m, base, o)
  <2>1. 2 * After(m, base, o) < W
    BY <1>1, <1>3
  <2> QED BY <1>1, <2>1, SignedSmall
<1>7. ~Lost(seg, o)
  BY <1>2, <1>4 DEF Lost
<1> QED BY <1>1, <1>2, <1>4, <1>5, <1>6, <1>7

\* The walk at the last cell.
LEMMA AtTheEnd ==
  ASSUME NEW m \in [Arena -> Bytes], NEW seg \in PageLists, NEW f \in Nat, Run(seg, f),
         NEW L \in Nat, L = Len(seg) * PAGE_SIZE, NEW base \in Nat, base = f * PAGE_SIZE,
         base + L <= MEMORY_SIZE, L > 0, NEW need,
         OnTheEdge(seg) \/ Ends(m, base + L - 1, L)
  PROVE  /\ Stops(m, seg, need, L - 1)
         /\ Lost(seg, L - 1) <=> OnTheEdge(seg)
         /\ ~OnTheEdge(seg) => ~Fits(m, seg, need, L - 1)
<1>1. L - 1 \in Nat /\ L - 1 < L /\ Len(seg) \in Nat /\ Len(seg) >= 1 /\ PAGE_SIZE \in Nat
  <2>1. Len(seg) \in Nat /\ PAGE_SIZE \in Nat
    BY PagesNatural, MuseAssumption
  <2>2. Len(seg) # 0
    BY <2>1
  <2> QED BY <2>1, <2>2
<1>2. PageOf(L - 1) \in 0 .. Len(seg) - 1 /\ Address(seg, L - 1) = base + (L - 1)
  BY <1>1, AddressInRun
<1>3. (seg[Len(seg)] + 1) * PAGE_SIZE - 1 = base + L - 1
  <2>1. seg[Len(seg)] + 1 = f + Len(seg)
    <3>1. Len(seg) \in 1 .. Len(seg)
      BY <1>1
    <3> QED BY <1>1, <3>1 DEF Run
  <2>2. (f + Len(seg)) * PAGE_SIZE = (f * PAGE_SIZE) + (Len(seg) * PAGE_SIZE)
    BY <1>1
  <2> QED BY <2>1, <2>2
<1>4. base + (L - 1) = base + L - 1
  OBVIOUS
<1>5. Lost(seg, L - 1) <=> OnTheEdge(seg)
  BY <1>2, <1>3, <1>4 DEF Lost, OnTheEdge
<1>6. ASSUME ~OnTheEdge(seg)
      PROVE  ~Fits(m, seg, need, L - 1) /\ Following(m, seg, L - 1) > L - 1
  <2>1. /\ ~LibreAt(m, base + L - 1) /\ 2 * (L + 4 + SizeAt(m, base + L - 1)) < W
        /\ Inside(base + L - 1, Header)
    BY <1>3, <1>6 DEF Ends, OnTheEdge
  <2>2. SizeAt(m, base + L - 1) \in Nat
    <3>1. PICK a \in Int : a = base + L - 1
      OBVIOUS
    <3>2. m \in [Arena -> Bytes] /\ a \in Int /\ Inside(a, Header)
      BY <2>1, <3>1, Zenon
    <3>3. SizeAt(m, a) \in Nat
      BY ONLY <3>2, SizeIsNatural, Zenon
    <3> QED BY <3>1, <3>3, Zenon
  <2> DEFINE z == SizeAt(m, base + L - 1)
  <2>3. Following(m, seg, L - 1) = Signed(L + 4 + z)
    <3>1. (L - 1) + Header + z = L + 4 + z
      BY <2>2 DEF Header
    <3> QED BY <1>2, <1>4, <3>1 DEF Following
  <2>4. Signed(L + 4 + z) = L + 4 + z
    BY <2>1, <2>2, SignedSmall
  <2>5. ~Fits(m, seg, need, L - 1)
    BY <1>2, <1>4, <2>1 DEF Fits
  <2>6. L + 4 + z > L - 1
    BY <2>2
  <2> HIDE DEF z
  <2> QED BY <2>3, <2>4, <2>5, <2>6
<1> QED BY <1>1, <1>5, <1>6 DEF Stops

\* A header of a block that would do for need more bytes.
Usable(m, base, need, o) == LibreAt(m, base + o) /\ need < SizeAt(m, base + o)

\* The header last is that of the first block that will do, or there is none.
Reached(m, base, L, S, need, last) ==
  /\ last \in S
  /\ \/ last # L - 1 /\ Usable(m, base, need, last)
     \/ last = L - 1 /\ \A x \in S : x # L - 1 => ~Usable(m, base, need, x)

\* From a header of the chain the walk gets to the first block that will do, or to the end.
LEMMA LastOnChain ==
  ASSUME NEW m \in [Arena -> Bytes], NEW seg \in PageLists, NEW f \in Nat, Run(seg, f),
         NEW L \in Nat, L = Len(seg) * PAGE_SIZE, NEW base \in Nat, base = f * PAGE_SIZE,
         base + L <= MEMORY_SIZE, L > 0, NEW S, Chain(m, base, L, S), NEW need,
         OnTheEdge(seg) \/ Ends(m, base + L - 1, L), NEW g, g = LastFrom(m, seg, need)
  PROVE  Reached(m, base, L, S, need, g[Turns(seg)][0])
<1> DEFINE T == Turns(seg)
           Right(o, last) ==
             /\ last \in S
             /\ \/ last # L - 1 /\ Usable(m, base, need, last)
                \/ last = L - 1 /\ \A x \in S : x # L - 1 /\ o <= x => ~Usable(m, base, need, x)
           Bad == {k \in 0 .. T : \E o \in S : L - o <= k /\ ~Right(o, g[k][o])}
<1>0. /\ T \in Nat /\ L <= T /\ S \subseteq 0 .. L - 1 /\ 0 \in S /\ L - 1 \in S
      /\ Len(seg) \in Nat
  <2>1. Len(seg) \in Nat
    BY PagesNatural
  <2> QED BY <2>1, TurnsNatural DEF Chain
<1> HIDE DEF T
<1>1. Bad = {}
  <2> SUFFICES ASSUME Bad # {} PROVE FALSE
    OBVIOUS
  <2>1. Bad \in SUBSET Nat
    BY <1>0
  <2>2. PICK k \in Bad : \A j \in Bad : k <= j
    <3> HIDE DEF Bad
    <3> QED BY <2>1, LeastOf
  <2>3. PICK o \in S : L - o <= k /\ ~Right(o, g[k][o])
    BY <2>2
  <2>4. k \in 0 .. T /\ o \in 0 .. L - 1 /\ o \in Int /\ k # 0
    <3>1. k \in 0 .. T /\ o \in 0 .. L - 1
      BY <1>0, <2>2, <2>3
    <3> QED BY <2>3, <3>1
  <2>5. g[k][o] = IF k = 0 \/ Stops(m, seg, need, o) THEN o ELSE g[k - 1][Following(m, seg, o)]
    <3>1. \A j \in 0 .. T : \A x \in Int :
            g[j][x] = IF j = 0 \/ Stops(m, seg, need, x) THEN x ELSE g[j - 1][Following(m, seg, x)]
      <4> HIDE DEF Bad, Right
      <4>1. \A j \in 0 .. Turns(seg) : \A x \in Int :
              LastFrom(m, seg, need)[j][x] =
                IF j = 0 \/ Stops(m, seg, need, x) THEN x
                ELSE LastFrom(m, seg, need)[j - 1][Following(m, seg, x)]
        <5>1. Len(seg) \in Nat
          BY <1>0
        <5> QED BY ONLY <5>1, LastFromIs
      <4> QED BY <4>1, Zenon DEF T
    <3> HIDE DEF Bad
    <3> QED BY <2>4, <3>1, Zenon
  <2>6. CASE o = L - 1
    <3>1. Stops(m, seg, need, o)
      BY <2>6, AtTheEnd
    <3>2. g[k][o] = L - 1
      BY <2>5, <2>6, <3>1
    <3>3. \A x \in S : ~(x # L - 1 /\ o <= x)
      BY <1>0, <2>6
    <3> QED BY <1>0, <2>3, <3>2, <3>3
  <2>7. CASE o # L - 1 /\ Stops(m, seg, need, o)
    <3>1. /\ ~Lost(seg, o) /\ Address(seg, o) = base + o
          /\ Following(m, seg, o) = After(m, base, o) /\ After(m, base, o) <= L - 1
          /\ After(m, base, o) \in S
      BY <2>7, OnChain
    <3>2. Fits(m, seg, need, o)
      BY <1>0, <2>7, <3>1 DEF Stops
    <3>3. Usable(m, base, need, o)
      BY <3>1, <3>2 DEF Fits, Usable
    <3>4. g[k][o] = o
      BY <2>5, <2>7
    <3> QED BY <2>3, <2>7, <3>3, <3>4
  <2>8. CASE o # L - 1 /\ ~Stops(m, seg, need, o)
    <3>1. /\ Address(seg, o) = base + o /\ After(m, base, o) \in S
          /\ Following(m, seg, o) = After(m, base, o) /\ After(m, base, o) >= o + 5
      BY <2>8, OnChain
    <3>2. PICK a \in 0 .. L - 1 : a = After(m, base, o)
      BY <1>0, <3>1
    <3>3. k - 1 \in 0 .. T /\ L - a <= k - 1 /\ k - 1 < k
      <4>1. L - o <= k
        BY <2>3
      <4>2. o + 5 <= a /\ a \in Int /\ o \in Int /\ k \in Nat /\ k # 0 /\ k <= T
        BY <1>0, <2>4, <3>1, <3>2
      <4> HIDE DEF Bad, Right
      <4>3. T \in Nat /\ L \in Int
        BY <1>0
      <4> QED BY ONLY <4>1, <4>2, <4>3
    <3>4. k - 1 \notin Bad
      <4> HIDE DEF Bad
      <4> QED BY <2>1, <2>2, <2>4, <3>3
    <3>5. Right(a, g[k - 1][a])
      BY <3>1, <3>2, <3>3, <3>4
    <3>6. g[k][o] = g[k - 1][a]
      BY <2>4, <2>5, <2>8, <3>1, <3>2
    <3>7. ASSUME NEW x \in S, x # L - 1, o <= x, Usable(m, base, need, x) PROVE a <= x
      <4>1. x # o
        <5> SUFFICES ASSUME x = o PROVE FALSE
          OBVIOUS
        <5> QED BY <2>8, <3>1, <3>7 DEF Stops, Fits, Usable
      <4>2. x <= o \/ a <= x
        BY <2>8, <3>2 DEF Chain
      <4>3. x \in 0 .. L - 1
        BY <1>0
      <4> QED BY <2>4, <3>7, <4>1, <4>2, <4>3
    <3> QED BY <2>3, <3>5, <3>6, <3>7
  <2> QED BY <2>6, <2>7, <2>8
<1>2. T \notin Bad /\ T \in 0 .. T /\ L - 0 <= T
  <2> HIDE DEF Bad
  <2> QED BY <1>0, <1>1
<1>3. Right(0, g[T][0])
  BY <1>0, <1>2
<1>4. \A x \in S : 0 <= x
  BY <1>0
<1> QED BY <1>3, <1>4 DEF T, Reached

\* What the walk answers: the first block that will do, or that there is none, or, where the
\* segment ends with the arena, nothing any more.
LEMMA WalkOnChain ==
  ASSUME NEW m \in [Arena -> Bytes], NEW seg \in PageLists, NEW f \in Nat, Run(seg, f),
         NEW L \in Nat, L = Len(seg) * PAGE_SIZE, NEW base \in Nat, base = f * PAGE_SIZE,
         base + L <= MEMORY_SIZE, L > 0, NEW S, Chain(m, base, L, S), NEW need,
         OnTheEdge(seg) \/ Ends(m, base + L - 1, L)
  PROVE  \/ \E o \in S : /\ o # L - 1 /\ Usable(m, base, need, o)
                         /\ Walk(m, seg, need) =
                              [end |-> "found", at |-> base + o, ptr |-> o + Header]
         \/ /\ \A x \in S : x # L - 1 => ~Usable(m, base, need, x)
            /\ OnTheEdge(seg) => /\ Walk(m, seg, need) = [end |-> "wild"]
                                 /\ \E k \in 0 .. Turns(seg) : LastFrom(m, seg, need)[k][0] = L - 1
            /\ ~OnTheEdge(seg) => Walk(m, seg, need) = [end |-> "none"]
<1>0. PICK g : g = LastFrom(m, seg, need)
  OBVIOUS
<1>1. PICK o : o = g[Turns(seg)][0]
  OBVIOUS
<1>2. /\ o \in S
      /\ \/ o # L - 1 /\ Usable(m, base, need, o)
         \/ o = L - 1 /\ \A x \in S : x # L - 1 => ~Usable(m, base, need, x)
  <2>1. Reached(m, base, L, S, need, g[Turns(seg)][0])
    BY <1>0, LastOnChain
  <2> QED BY <1>1, <2>1 DEF Reached
<1>3. Walk(m, seg, need) =
        IF ~Stops(m, seg, need, o) THEN [end |-> "hung"]
        ELSE IF Lost(seg, o) THEN [end |-> "wild"]
        ELSE IF Fits(m, seg, need, o)
        THEN [end |-> "found", at |-> Address(seg, o), ptr |-> o + Header]
        ELSE [end |-> "none"]
  BY <1>0, <1>1, Zenon DEF Walk
<1>4. CASE o # L - 1
  <2>1. ~Lost(seg, o) /\ Address(seg, o) = base + o
    BY <1>2, <1>4, OnChain
  <2>2. Fits(m, seg, need, o)
    BY <1>2, <1>4, <2>1 DEF Fits, Usable
  <2>3. Stops(m, seg, need, o)
    BY <2>2, Zenon DEF Stops
  <2>4. Walk(m, seg, need) = [end |-> "found", at |-> base + o, ptr |-> o + Header]
    BY <1>3, <2>1, <2>2, <2>3, Zenon
  <2> QED BY <1>2, <1>4, <2>4, Zenon
<1>5. CASE o = L - 1
  <2>1. /\ Stops(m, seg, need, o) /\ (Lost(seg, o) <=> OnTheEdge(seg))
        /\ ~OnTheEdge(seg) => ~Fits(m, seg, need, o)
    BY <1>5, AtTheEnd
  <2>2. OnTheEdge(seg) => Walk(m, seg, need) = [end |-> "wild"]
    BY <1>3, <2>1, Zenon
  <2>3. ~OnTheEdge(seg) => Walk(m, seg, need) = [end |-> "none"]
    BY <1>3, <2>1, Zenon
  <2>4. Turns(seg) \in 0 .. Turns(seg)
    BY TurnsNatural, PagesNatural
  <2>5. \E k \in 0 .. Turns(seg) : LastFrom(m, seg, need)[k][0] = L - 1
    BY <1>0, <1>1, <1>5, <2>4, Zenon
  <2> QED BY <1>2, <1>5, <2>2, <2>3, <2>5, Zenon
<1> QED BY <1>4, <1>5
-------------------------------------------------------------------------------
(* Cutting a block in two *)

\* A size below B^3 leaves the last of its four bytes zero.
LEMMA SmallSize ==
  ASSUME NEW m \in [Arena -> Bytes], NEW a \in Int, Inside(a, Header), SizeAt(m, a) < B * B * B
  PROVE  m[a + 3] = 0
<1>1. PICK d0 \in Nat, d1 \in Nat, d2 \in Nat, d3 \in Nat :
        m[a] = d0 /\ m[a + 1] = d1 /\ m[a + 2] = d2 /\ m[a + 3] = d3
  BY HeaderCells DEF Bytes
<1>2. B \in Nat /\ d0 + B * (d1 + B * (d2 + B * d3)) < B * B * B
  BY <1>1, HeapAssumption DEF SizeAt
<1> SUFFICES ASSUME d3 >= 1 PROVE FALSE
  BY <1>1
<1>3. \A x, y \in Nat : x * y \in Nat
  BY SMT
<1>4. B * d3 \in Nat /\ B * d3 >= B
  BY <1>2
<1>5. PICK e2 \in Nat : e2 = d2 + B * d3 /\ e2 >= B
  BY <1>2, <1>4
<1>6. B * e2 \in Nat /\ B * B \in Nat /\ B * e2 >= B * B
  <2>1. B * B <= e2 * B /\ e2 * B = B * e2
    BY <1>2, <1>5, ProductGrows
  <2> QED BY <1>2, <1>3, <2>1
<1>7. PICK e1 \in Nat : e1 = d1 + B * e2 /\ e1 >= B * B
  BY <1>6
<1>8. B * e1 \in Nat /\ B * e1 >= B * B * B /\ B * B * B \in Nat
  <2>1. (B * B) * B <= e1 * B /\ e1 * B = B * e1
    BY <1>2, <1>6, <1>7, ProductGrows
  <2> QED BY <1>2, <1>3, <1>6, <2>1
<1>9. d0 + B * e1 < B * B * B
  BY <1>2, <1>5, <1>7
<1> QED BY <1>8, <1>9

\* A chain whose headers tell the same sizes is a chain.
LEMMA ChainKept ==
  ASSUME NEW m, NEW t, NEW base, NEW L, NEW S, Chain(m, base, L, S),
         \A o \in S : o # L - 1 => SizeAt(t, base + o) = SizeAt(m, base + o)
  PROVE  Chain(t, base, L, S)
<1>1. \A o \in S : o # L - 1 => After(t, base, o) = After(m, base, o)
  BY DEF After
<1> QED BY <1>1 DEF Chain

\* The new headers, of need bytes and of the rest, and what stays.
Cut(m, t, a, size, need) ==
  /\ \A i \in Arena :
       (i < a \/ (a + 5 <= i /\ i < a + 5 + need) \/ a + 10 + need <= i) => t[i] = m[i]
  /\ SizeAt(t, a) = need /\ ~LibreAt(t, a)
  /\ SizeAt(t, a + 5 + need) = size - need - 5 /\ LibreAt(t, a + 5 + need)

LEMMA TwoHeaders ==
  ASSUME NEW s \in Memories, s.ok, NEW a \in Nat, NEW size \in Nat, NEW need \in Nat,
         need + 5 <= size, a + 5 + size <= MEMORY_SIZE
  PROVE  LET t == Put(Put(s, a, need, FALSE), a + Header + need, (size - need - Header) % W, TRUE)
         IN t \in Memories /\ t.ok /\ Cut(s.m, t.m, a, size, need)
<1> DEFINE one == Put(s, a, need, FALSE)
<1>1. /\ MEMORY_SIZE \in Nat /\ 2 * MEMORY_SIZE <= W /\ W \in Nat \ {0}
      /\ Inside(a, Header) /\ Inside(a + 5 + need, Header) /\ size - need - 5 \in 0 .. W - 1
      /\ need \in 0 .. W - 1 /\ a + Header + need = a + 5 + need /\ a \in Int /\ a + 5 + need \in Int
      /\ need \in Int /\ size - need - 5 \in Int
  BY SmallMemory DEF Inside, Header
<1>2. (size - need - Header) % W = size - need - 5
  BY <1>1 DEF Header
<1>3. /\ one \in Memories /\ one.ok
      /\ \A i \in Arena : i < a \/ a + 5 <= i => one.m[i] = s.m[i]
      /\ SizeAt(one.m, a) = need /\ ~LibreAt(one.m, a)
  <2>1. Headed(s, one, a, need, FALSE)
    BY <1>1, PutReads
  <2> HIDE DEF one
  <2> QED BY <1>1, <2>1 DEF Headed
<1> HIDE DEF one
<1>4. PICK t : t = Put(one, a + 5 + need, size - need - 5, TRUE)
  OBVIOUS
<1>5. /\ t \in Memories /\ t.ok
      /\ \A i \in Arena : i < a + 5 + need \/ (a + 5 + need) + 5 <= i => t.m[i] = one.m[i]
      /\ SizeAt(t.m, a + 5 + need) = size - need - 5 /\ LibreAt(t.m, a + 5 + need)
  <2>1. Headed(one, t, a + 5 + need, size - need - 5, TRUE)
    BY <1>1, <1>3, <1>4, PutReads
  <2> QED BY <1>1, <2>1 DEF Headed
<1>6. \A i \in Arena : i \in Int
  BY <1>1 DEF Arena
<1>7. \A i \in Arena : a <= i /\ i < a + 5 => t.m[i] = one.m[i]
  BY <1>5, <1>6
<1>8. SizeAt(t.m, a) = need /\ ~LibreAt(t.m, a)
  BY <1>1, <1>3, <1>7, SameHeader
<1>9. \A i \in Arena : (i < a \/ (a + 5 <= i /\ i < a + 5 + need) \/ a + 10 + need <= i)
                          => t.m[i] = s.m[i]
  BY <1>3, <1>5, <1>6
<1> QED BY <1>1, <1>2, <1>4, <1>5, <1>8, <1>9 DEF Cut, one

\* The other headers of the chain are before the block that is cut, or after it.
LEMMA ChainAside ==
  ASSUME NEW m \in [Arena -> Bytes], NEW base \in Nat, NEW L \in Nat, NEW S, Chain(m, base, L, S),
         NEW o \in S, o # L - 1, NEW x \in S, x # o
  PROVE  /\ o \in Nat /\ x \in Nat /\ x <= L - 1 /\ L - 1 >= After(m, base, o)
         /\ \/ x # L - 1 /\ After(m, base, x) <= o /\ x + 5 <= After(m, base, x)
               /\ After(m, base, x) \in Nat
            \/ x >= After(m, base, o)
<1>1. /\ S \subseteq 0 .. L - 1 /\ After(m, base, o) \in S /\ o + 5 <= After(m, base, o)
      /\ L - 1 \in S
      /\ \A y \in S : y <= o \/ After(m, base, o) <= y
  BY DEF Chain
<1>2. x # L - 1 => /\ After(m, base, x) \in S /\ x + 5 <= After(m, base, x)
                   /\ \A y \in S : y <= x \/ After(m, base, x) <= y
  BY DEF Chain
<1>3. o \in 0 .. L - 1 /\ x \in 0 .. L - 1 /\ After(m, base, o) \in 0 .. L - 1
  BY <1>1
<1>4. x # L - 1 => After(m, base, x) \in 0 .. L - 1
  BY <1>1, <1>2
<1> QED BY <1>1, <1>2, <1>3, <1>4

\* Cutting a block adds one header to the chain.
LEMMA CutChain ==
  ASSUME NEW m \in [Arena -> Bytes], NEW t \in [Arena -> Bytes], NEW base \in Nat, NEW L \in Nat,
         base + L <= MEMORY_SIZE, NEW S, Chain(m, base, L, S), NEW o \in S, o # L - 1,
         NEW need \in Nat, NEW size \in Nat, size = SizeAt(m, base + o), need + 5 <= size,
         Cut(m, t, base + o, size, need)
  PROVE  Chain(t, base, L, S \cup {o + 5 + need})
<1> DEFINE e == o + 5 + need
           n == o + 5 + size
<1>1. /\ S \subseteq 0 .. L - 1 /\ 0 \in S /\ L - 1 \in S /\ n \in S /\ o \in 0 .. L - 1
      /\ After(m, base, o) = n /\ n \in 0 .. L - 1 /\ e \in Nat /\ e < n /\ e + 5 <= n /\ o + 5 <= e
      /\ \A y \in S : y <= o \/ n <= y
  <2>1. /\ S \subseteq 0 .. L - 1 /\ 0 \in S /\ L - 1 \in S /\ After(m, base, o) \in S
        /\ \A y \in S : y <= o \/ After(m, base, o) <= y
    BY DEF Chain
  <2>2. After(m, base, o) = n
    BY DEF After
  <2> QED BY <2>1, <2>2
<1>2. After(t, base, o) = e
  BY DEF Cut, After
<1>3. After(t, base, e) = n
  <2>1. SizeAt(t, base + e) = size - need - 5
    <3>1. base + e = (base + o) + 5 + need
      BY <1>1
    <3> QED BY <3>1 DEF Cut
  <2> QED BY <1>1, <2>1 DEF After
<1>4. ASSUME NEW x \in S, x # o, x # L - 1
      PROVE  /\ x \in Nat /\ After(t, base, x) = After(m, base, x)
             /\ After(m, base, x) \in S /\ x + 5 <= After(m, base, x) /\ After(m, base, x) \in Nat
             /\ \A y \in S : y <= x \/ After(m, base, x) <= y
             /\ After(m, base, x) <= o \/ x >= n
  <2>1. /\ After(m, base, x) \in S /\ x + 5 <= After(m, base, x)
        /\ \A y \in S : y <= x \/ After(m, base, x) <= y
    BY <1>4 DEF Chain
  <2>2. x \in Nat /\ After(m, base, x) \in Nat /\ After(m, base, x) <= L - 1
    <3>1. x \in 0 .. L - 1 /\ After(m, base, x) \in 0 .. L - 1
      BY <1>1, <2>1
    <3> QED BY <3>1
  <2>3. After(m, base, x) <= o \/ x >= n
    BY <1>1, <1>4, ChainAside
  <2>4. Inside(base + x, Header) /\ base + x \in Int
    BY <1>1, <2>1, <2>2, SmallMemory DEF Inside, Header
  <2>5. \A i \in Arena : base + x <= i /\ i < base + x + 5 => t[i] = m[i]
    <3> SUFFICES ASSUME NEW i \in Arena, base + x <= i, i < base + x + 5 PROVE t[i] = m[i]
      OBVIOUS
    <3>1. i \in Int
      BY SmallMemory DEF Arena
    <3>2. i < base + o \/ (base + o) + 10 + need <= i
      BY <1>1, <2>1, <2>2, <2>3, <3>1
    <3> QED BY <3>2 DEF Cut
  <2>6. SizeAt(t, base + x) = SizeAt(m, base + x)
    BY <2>4, <2>5, SameHeader
  <2> QED BY <2>1, <2>2, <2>3, <2>6 DEF After
<1> HIDE DEF e, n
<1>5. ASSUME NEW x \in S \cup {e}, x # L - 1
      PROVE  /\ After(t, base, x) \in S \cup {e} /\ x + 5 <= After(t, base, x)
             /\ \A y \in S \cup {e} : y <= x \/ After(t, base, x) <= y
  <2>1. \A y \in S : y \in 0 .. L - 1
    BY <1>1
  <2>2. CASE x = o
    BY <1>1, <1>2, <2>1, <2>2
  <2>3. CASE x = e
    BY <1>1, <1>3, <2>1, <2>3
  <2>4. CASE x # o /\ x # e
    BY <1>1, <1>4, <1>5, <2>1, <2>4
  <2> QED BY <2>2, <2>3, <2>4
<1>6. S \cup {e} \subseteq 0 .. L - 1
  BY <1>1
<1> QED BY <1>1, <1>5, <1>6 DEF Chain, e
-------------------------------------------------------------------------------
(* The clean arena *)

\* Two blocks and their headers do not touch.
Separate(b, d) == b.at + b.size <= d.at - 5 \/ d.at + d.size <= b.at - 5

\* A block that is in use: below U it has its header, that of a chain if it is in the first
\* L cells, and what was written to it.
Sound(m, b, U, L, S) ==
  /\ b.at >= 5 /\ b.at + b.size + 6 <= U
  /\ b.at - 5 >= L \/ (b.at - 5 \in S /\ b.at - 5 # L - 1)
  /\ SizeAt(m, b.at - 5) = b.size /\ ~LibreAt(m, b.at - 5)
  /\ b.len <= b.size
  /\ \A i \in 0 .. b.len - 1 : m[b.at + i] = b.byte

\* The memory when nothing has strayed: the first U cells belong to segments, the first L of
\* them to the segment at the beginning, whose headers are at S; the next segment, if there
\* is one, begins with a block in use; the cells after U are zero.
Tidy(m, lv, U, L, S) ==
  /\ L > 0 => Chain(m, 0, L, S) /\ m[L - 1] = 0
  /\ \A a \in Arena : a >= U => m[a] = 0
  /\ L < U => \E b \in lv : b.at = L + 5
  /\ \A b \in lv : Sound(m, b, U, L, S)
  /\ \A b, d \in lv : b # d => Separate(b, d)

LEMMA BlockParts ==
  ASSUME NEW b \in Blocks
  PROVE  b.at \in Nat /\ b.size \in Nat /\ b.len \in Nat /\ b.byte \in Bytes /\ b.at \in Int
<1>1. b.at \in 0 .. W - 1 /\ b.size \in Sizes /\ b.len \in Nat /\ b.byte \in Bytes
  BY DEF Blocks
<1>2. Sizes \subseteq Nat /\ 0 .. W - 1 \subseteq Nat
  BY MuseAssumption
<1>3. \A x \in Nat : x \in Int
  OBVIOUS
<1> QED BY <1>1, <1>2, <1>3, Zenon

\* A walk of the first segment ends at its last cell: what is read there is a header of no
\* bytes, or the size of the next segment's first block, B times.
LEMMA FirstSegmentEnds ==
  ASSUME NEW m \in [Arena -> Bytes], NEW lv \in SUBSET Blocks, NEW U \in Nat, NEW L \in Nat,
         L > 0, L <= U, U <= MEMORY_SIZE, NEW S, Tidy(m, lv, U, L, S), L + 4 <= MEMORY_SIZE
  PROVE  Ends(m, L - 1, L)
<1>1. /\ MEMORY_SIZE \in Nat /\ 2 * MEMORY_SIZE < W /\ W \in Nat /\ B \in Nat /\ B >= 2
      /\ B * MEMORY_SIZE \in Nat /\ 2 * (B * MEMORY_SIZE) <= W /\ 2 * MEMORY_SIZE <= B * B * B
  BY SmallMemory, HeapAssumption
<1>2. Inside(L - 1, Header) /\ L - 1 \in Int
  BY DEF Inside, Header
<1>3. m[L - 1] = 0
  BY DEF Tidy
<1>4. /\ SizeAt(m, L - 1) = m[L - 1] + B * (m[(L - 1) + 1] + B * (m[(L - 1) + 2] + B * m[(L - 1) + 3]))
      /\ LibreAt(m, L - 1) <=> m[(L - 1) + 4] # 0
  BY DEF SizeAt, LibreAt
<1>5. /\ SizeAt(m, L - 1) = B * (m[L] + B * (m[L + 1] + B * m[L + 2]))
      /\ LibreAt(m, L - 1) <=> m[L + 3] # 0
  <2>1. (L - 1) + 1 = L /\ (L - 1) + 2 = L + 1 /\ (L - 1) + 3 = L + 2 /\ (L - 1) + 4 = L + 3
    OBVIOUS
  <2>2. L \in Arena /\ L + 1 \in Arena /\ L + 2 \in Arena /\ L + 3 \in Arena
    BY <1>1 DEF Arena
  <2>3. PICK d0 \in Nat, d1 \in Nat, d2 \in Nat : m[L] = d0 /\ m[L + 1] = d1 /\ m[L + 2] = d2
    BY <2>2, HeapAssumption DEF Bytes
  <2>4. B * (d0 + B * (d1 + B * d2)) \in Int
    <3>1. \A x, y \in Nat : x * y \in Nat
      BY SMT
    <3> QED BY <1>1, <3>1
  <2> QED BY <1>3, <1>4, <2>1, <2>3, <2>4
<1>6. CASE L = U
  <2>1. L \in Arena /\ L + 1 \in Arena /\ L + 2 \in Arena /\ L + 3 \in Arena
    BY <1>1 DEF Arena
  <2>2. m[L] = 0 /\ m[L + 1] = 0 /\ m[L + 2] = 0 /\ m[L + 3] = 0
    BY <1>6, <2>1 DEF Tidy
  <2>3. SizeAt(m, L - 1) = 0 /\ ~LibreAt(m, L - 1)
    BY <1>1, <1>5, <2>2
  <2> QED BY <1>1, <2>3 DEF Ends
<1>7. CASE L < U
  <2>1. PICK b \in lv : b.at = L + 5
    BY <1>7 DEF Tidy
  <2>2. /\ b.at + b.size + 6 <= U /\ SizeAt(m, b.at - 5) = b.size /\ b.size \in Nat /\ b.at - 5 = L
    BY <2>1, BlockParts DEF Tidy, Sound
  <2> DEFINE n == b.size
  <2>3. n \in Nat /\ L + 11 + n <= MEMORY_SIZE /\ SizeAt(m, L) = n
    <3>1. PICK at : at = b.at
      OBVIOUS
    <3>2. at = L + 5 /\ at + n + 6 <= U /\ n \in Nat /\ SizeAt(m, at - 5) = n /\ at - 5 = L
      BY <2>1, <2>2, <3>1
    <3> HIDE DEF n
    <3>3. SizeAt(m, L) = n
      BY <3>2, Zenon
    <3> QED BY <1>1, <3>2, <3>3
  <2> HIDE DEF n
  <2>4. Inside(L, Header) /\ n < B * B * B
    <3>1. B * B * B \in Int
      BY <1>1
    <3> QED BY <1>1, <2>3, <3>1 DEF Inside, Header
  <2>5. m[L + 3] = 0
    BY <2>3, <2>4, SmallSize
  <2>6. SizeAt(m, L - 1) = B * n
    <3>1. n = m[L] + B * (m[L + 1] + B * (m[L + 2] + B * 0))
      BY <2>3, <2>5 DEF SizeAt
    <3>2. m[L + 2] \in Nat
      BY <2>4, HeaderCells, HeapAssumption DEF Bytes
    <3>3. m[L + 2] + B * 0 = m[L + 2]
      BY <1>1, <3>2
    <3> QED BY <1>5, <3>1, <3>3
  <2>7. 2 * (L + 4 + B * n) < W
    <3>1. (L + 4 + n) * B <= (MEMORY_SIZE - 7) * B
      BY <1>1, <2>3, ProductGrows
    <3>2. (L + 4 + n) * B = (L + 4) * B + n * B /\ (MEMORY_SIZE - 7) * B = MEMORY_SIZE * B - 7 * B
      BY <1>1, <2>3
    <3>3. 1 * (L + 4) <= B * (L + 4)
      BY <1>1, ProductGrows
    <3>4. n * B = B * n /\ (L + 4) * B = B * (L + 4) /\ MEMORY_SIZE * B = B * MEMORY_SIZE
      BY <1>1, <2>3
    <3> QED BY <1>1, <2>3, <3>1, <3>2, <3>3, <3>4
  <2> QED BY <1>5, <2>5, <2>6, <2>7 DEF Ends
<1> QED BY <1>6, <1>7

NewBlock(at, n) == [at |-> at, size |-> n, len |-> 0, byte |-> 0]

\* Cutting a free block of the first segment for a client keeps the memory tidy.
LEMMA CutTidy ==
  ASSUME NEW m \in [Arena -> Bytes], NEW t \in [Arena -> Bytes], NEW lv \in SUBSET Blocks,
         NEW U \in Nat, NEW L \in Nat, L > 0, L <= U, U <= MEMORY_SIZE, NEW S, Tidy(m, lv, U, L, S),
         NEW o \in S, o # L - 1, LibreAt(m, o), NEW need \in Nat, NEW size \in Nat,
         size = SizeAt(m, o), need + 5 <= size, Cut(m, t, o, size, need)
  PROVE  Tidy(t, lv \cup {NewBlock(o + 5, need)}, U, L, S \cup {o + 5 + need})
<1> DEFINE e == o + 5 + need
           new == NewBlock(o + 5, need)
<1>1. Chain(m, 0, L, S) /\ m[L - 1] = 0
  BY DEF Tidy
<1>2. /\ o \in Nat /\ After(m, 0, o) = o + 5 + size /\ o + 5 + size <= L - 1 /\ 0 + o = o
      /\ \A i \in Arena : i \in Int
  <2>1. /\ S \subseteq 0 .. L - 1 /\ After(m, 0, o) \in S
    BY <1>1 DEF Chain
  <2>2. o \in Nat /\ 0 + o = o
    BY <2>1
  <2>3. After(m, 0, o) = o + 5 + size
    BY <2>2 DEF After
  <2>4. After(m, 0, o) \in 0 .. L - 1
    BY <2>1
  <2>5. \A i \in Arena : i \in Int
    BY SmallMemory DEF Arena
  <2> QED BY <2>2, <2>3, <2>4, <2>5
<1>3. \A i \in Arena : i < o \/ o + 5 + size <= i => t[i] = m[i]
  BY <1>2 DEF Cut
<1>4. Chain(t, 0, L, S \cup {e})
  <2>1. 0 + L <= MEMORY_SIZE /\ 0 \in Nat /\ Cut(m, t, 0 + o, size, need) /\ size = SizeAt(m, 0 + o)
    BY <1>2, SmallMemory
  <2> QED BY <1>1, <2>1, CutChain
<1>5. t[L - 1] = m[L - 1]
  <2>1. L - 1 \in Arena
    BY SmallMemory DEF Arena
  <2> QED BY <1>2, <1>3, <2>1
<1>6. \A a \in Arena : a >= U => t[a] = 0
  <2>1. \A a \in Arena : a >= U => m[a] = 0 /\ o + 5 + size <= a
    BY <1>2 DEF Tidy
  <2> QED BY <1>3, <2>1
<1>7. ASSUME NEW b \in lv
      PROVE  /\ b.at \in Nat /\ b.size \in Nat /\ b.len \in Nat /\ b.at >= 5
             /\ b.at + b.size <= o \/ o + 5 + size <= b.at - 5
  <2>1. /\ b.at \in Nat /\ b.size \in Nat /\ b.len \in Nat
        /\ Sound(m, b, U, L, S)
    BY BlockParts DEF Tidy
  <2>2. /\ b.at >= 5 /\ SizeAt(m, b.at - 5) = b.size /\ ~LibreAt(m, b.at - 5)
        /\ b.at - 5 >= L \/ (b.at - 5 \in S /\ b.at - 5 # L - 1)
    BY <2>1 DEF Sound
  <2>3. CASE b.at - 5 >= L
    BY <1>2, <2>1, <2>2, <2>3
  <2>4. CASE b.at - 5 \in S /\ b.at - 5 # L - 1
    <3>1. PICK x \in S : x = b.at - 5
      BY <2>4
    <3>2. x # o /\ x # L - 1 /\ SizeAt(m, x) = b.size
      BY <2>2, <2>4, <3>1
    <3>3. /\ x \in Nat
          /\ \/ After(m, 0, x) <= o
             \/ x >= After(m, 0, o)
      BY <1>1, <3>2, ChainAside
    <3>4. After(m, 0, x) = b.at + b.size
      <4>1. 0 + x = x /\ x + 5 = b.at
        BY <2>1, <3>1, <3>3
      <4> QED BY <3>2, <4>1 DEF After
    <3> QED BY <1>2, <2>1, <2>2, <3>1, <3>3, <3>4
  <2> QED BY <2>1, <2>2, <2>3, <2>4
<1>8. ASSUME NEW b \in lv PROVE Sound(t, b, U, L, S \cup {e})
  <2>1. /\ b.at \in Nat /\ b.size \in Nat /\ b.len \in Nat /\ b.at >= 5
        /\ b.at + b.size <= o \/ o + 5 + size <= b.at - 5
    BY <1>7
  <2>2. Sound(m, b, U, L, S)
    BY DEF Tidy
  <2>3. \A i \in Arena : b.at - 5 <= i /\ (i < b.at \/ i < b.at + b.size) => t[i] = m[i]
    BY <1>2, <1>3, <2>1
  <2>4. Inside(b.at - 5, Header) /\ b.at - 5 \in Int
    BY <2>1, <2>2, SmallMemory DEF Inside, Header, Sound
  <2>5. SizeAt(t, b.at - 5) = SizeAt(m, b.at - 5) /\ (LibreAt(t, b.at - 5) <=> LibreAt(m, b.at - 5))
    <3>1. \A i \in Arena : b.at - 5 <= i /\ i < (b.at - 5) + 5 => t[i] = m[i]
      BY <1>2, <2>1, <2>3
    <3> QED BY <2>4, <3>1, SameHeader
  <2>6. \A i \in 0 .. b.len - 1 : t[b.at + i] = b.byte
    <3> SUFFICES ASSUME NEW i \in 0 .. b.len - 1 PROVE t[b.at + i] = b.byte
      OBVIOUS
    <3>1. b.at + i \in Arena /\ b.at + i < b.at + b.size /\ b.at - 5 <= b.at + i
      <4>1. b.at + b.size + 6 <= U /\ b.len <= b.size /\ i \in Nat /\ i < b.len
        BY <2>1, <2>2 DEF Sound
      <4>2. PICK at \in Nat, n \in Nat, k \in Nat : at = b.at /\ n = b.size /\ k = b.len
        BY <2>1
      <4>3. /\ at + n + 6 <= U /\ k <= n /\ i \in Nat /\ i < k /\ U \in Nat /\ MEMORY_SIZE \in Nat
            /\ U <= MEMORY_SIZE
        BY <4>1, <4>2, SmallMemory
      <4>4. at + i \in Arena /\ at + i < at + n /\ at - 5 <= at + i
        BY ONLY <4>3, at \in Nat, n \in Nat DEF Arena
      <4> QED BY <4>2, <4>4
    <3> QED BY <2>2, <2>3, <3>1 DEF Sound
  <2> QED BY <2>2, <2>5, <2>6 DEF Sound
<1>9. Sound(t, new, U, L, S \cup {e})
  <2>1. new.at = o + 5 /\ new.size = need /\ new.len = 0 /\ new.byte = 0 /\ new.at - 5 = o
    BY <1>2 DEF NewBlock
  <2>2. SizeAt(t, o) = need /\ ~LibreAt(t, o)
    BY DEF Cut
  <2>3. new.at >= 5 /\ new.at + new.size + 6 <= U /\ new.len <= new.size
    BY <1>2, <2>1
  <2> HIDE DEF new
  <2>4. \A i \in 0 .. new.len - 1 : t[new.at + i] = new.byte
    BY <2>1
  <2> QED BY <2>1, <2>2, <2>3, <2>4 DEF Sound
<1>10. ASSUME NEW b \in lv PROVE Separate(b, new) /\ Separate(new, b)
  <2>1. new.at = o + 5 /\ new.size = need
    BY DEF NewBlock
  <2> HIDE DEF new
  <2> QED BY <1>2, <1>7, <2>1 DEF Separate
<1> HIDE DEF new, e
<1>11. \A b, d \in lv \cup {new} : b # d => Separate(b, d)
  BY <1>10 DEF Tidy
<1>12. L < U => \E b \in lv \cup {new} : b.at = L + 5
  BY DEF Tidy
<1> QED BY <1>1, <1>4, <1>5, <1>6, <1>8, <1>9, <1>11, <1>12 DEF Tidy, new, e

\* What a client is told of a block at ptr, or of none.
Given(lv, ptr, n) == IF ptr % W = W - 1 THEN lv ELSE lv \cup {NewBlock(ptr % W, n)}

LEMMA GivenBlock ==
  ASSUME NEW lv, NEW ptr \in Nat, ptr < MEMORY_SIZE, NEW n
  PROVE  Given(lv, ptr, n) = lv \cup {NewBlock(ptr, n)}
<1>1. W \in Nat \ {0} /\ MEMORY_SIZE \in Nat /\ 2 * MEMORY_SIZE < W
  BY SmallMemory
<1>2. ptr % W = ptr /\ ptr # W - 1
  BY <1>1
<1> QED BY <1>2 DEF Given

LEMMA GivenNothing ==
  ASSUME NEW lv, NEW n
  PROVE  Given(lv, W - 1, n) = lv
<1>1. (W - 1) % W = W - 1
  BY MuseAssumption
<1> QED BY <1>1 DEF Given

\* Taking a block of the first segment, when the rest has room for its header and the walk
\* does not leave the arena, keeps the memory tidy and the server up.
LEMMA CarveTidy ==
  ASSUME NEW s \in Memories, s.ok, NEW seg \in PageLists, Run(seg, 0), NEW L \in Nat,
         L = Len(seg) * PAGE_SIZE, L > 0, NEW U \in Nat, L <= U, U <= MEMORY_SIZE,
         NEW lv \in SUBSET Blocks, NEW S, Tidy(s.m, lv, U, L, S), NEW need \in Nat,
         ~Tight(s, seg, need), ~(OnTheEdge(seg) /\ GoesPast(s, seg, need)), NEW r,
         r = Carve(s, seg, need)
  PROVE  /\ r.s.ok /\ r.end = "up"
         /\ \E T : Tidy(r.s.m, Given(lv, r.ptr, need), U, L, T)
<1>1. /\ s.m \in [Arena -> Bytes] /\ Chain(s.m, 0, L, S) /\ 0 = 0 * PAGE_SIZE /\ 0 + L <= MEMORY_SIZE
      /\ 0 + L - 1 = L - 1 /\ MEMORY_SIZE \in Nat
  BY SmallMemory, MuseAssumption DEF Memories, Tidy
<1>2. OnTheEdge(seg) \/ Ends(s.m, 0 + L - 1, L)
  <2> SUFFICES ASSUME ~OnTheEdge(seg) PROVE Ends(s.m, L - 1, L)
    BY <1>1
  <2>1. (seg[Len(seg)] + 1) * PAGE_SIZE = L
    <3>1. Len(seg) \in Nat /\ Len(seg) # 0
      BY <1>1, PagesNatural, MuseAssumption
    <3>2. seg[Len(seg)] = 0 + (Len(seg) - 1)
      BY <3>1 DEF Run
    <3> QED BY <3>1, <3>2
  <2>2. L + 4 <= MEMORY_SIZE
    BY <1>1, <2>1 DEF OnTheEdge, Inside, Header
  <2> QED BY <1>1, <2>2, FirstSegmentEnds
<1> DEFINE w == Walk(s.m, seg, need)
           size == SizeAt(s.m, w.at)
           two == Put(Put(s, w.at, need, FALSE), w.at + Header + need,
                      (size - need - Header) % W, TRUE)
<1>3. r = CASE w.end = "found" -> [s |-> two, ptr |-> w.ptr, end |-> "up"]
            [] w.end = "none"  -> [s |-> s, ptr |-> W - 1, end |-> "up"]
            [] OTHER           -> [s |-> s, ptr |-> W - 1, end |-> w.end]
  BY Zenon DEF Carve
<1>4. \/ \E o \in S : /\ o # L - 1 /\ Usable(s.m, 0, need, o)
                      /\ w = [end |-> "found", at |-> 0 + o, ptr |-> o + Header]
      \/ /\ OnTheEdge(seg) => \E k \in 0 .. Turns(seg) : LastFrom(s.m, seg, need)[k][0] = L - 1
         /\ ~OnTheEdge(seg) => w = [end |-> "none"]
  BY <1>1, <1>2, WalkOnChain
<1>5. ~Tight(s, seg, need) => (w.end = "found" => ~(size - need < Header))
  BY Zenon DEF Tight
<1>6. CASE \E o \in S : /\ o # L - 1 /\ Usable(s.m, 0, need, o)
                        /\ w = [end |-> "found", at |-> 0 + o, ptr |-> o + Header]
  <2>1. PICK o \in S : /\ o # L - 1 /\ Usable(s.m, 0, need, o)
                       /\ w = [end |-> "found", at |-> 0 + o, ptr |-> o + Header]
    BY <1>6
  <2>2. /\ S \subseteq 0 .. L - 1 /\ After(s.m, 0, o) \in S /\ o + 5 <= After(s.m, 0, o)
    BY <1>1, <2>1 DEF Chain
  <2>3. o \in Nat /\ 0 + o = o /\ After(s.m, 0, o) \in 0 .. L - 1 /\ o < L - 1
    <3>1. o \in 0 .. L - 1 /\ After(s.m, 0, o) \in 0 .. L - 1 /\ L \in Nat /\ o # L - 1
      BY <2>1, <2>2, Zenon
    <3> QED BY ONLY <3>1
  <2>4. w.end = "found" /\ w.at = o /\ w.ptr = o + 5
    BY <2>1, <2>3 DEF Header
  <2> HIDE DEF w
  <2>5. Inside(o, Header) /\ size = SizeAt(s.m, o) /\ size \in Nat
    <3>1. Inside(o, Header)
      BY <1>1, <2>2, <2>3 DEF Inside, Header
    <3> QED BY <1>1, <2>3, <2>4, <3>1, SizeIsNatural
  <2>6. LibreAt(s.m, o) /\ After(s.m, 0, o) = o + 5 + size
    BY <2>1, <2>3, <2>5 DEF Usable, After
  <2>7. need + 5 <= size
    BY <1>5, <2>4, <2>5 DEF Header
  <2>8. two = Put(Put(s, o, need, FALSE), o + Header + need, (size - need - Header) % W, TRUE)
    BY <2>4
  <2> HIDE DEF size
  <2>9. two \in Memories /\ two.ok /\ Cut(s.m, two.m, o, size, need)
    <3>1. o + 5 + size <= MEMORY_SIZE
      BY <1>1, <2>3, <2>6
    <3> HIDE DEF two
    <3> QED BY <2>3, <2>5, <2>7, <2>8, <3>1, TwoHeaders
  <2> HIDE DEF two
  <2>10. r.s = two /\ r.ptr = o + 5 /\ r.end = "up"
    BY <1>3, <2>4
  <2>11. Tidy(two.m, lv \cup {NewBlock(o + 5, need)}, U, L, S \cup {o + 5 + need})
    <3>1. two.m \in [Arena -> Bytes]
      BY <2>9 DEF Memories
    <3> QED BY <1>1, <2>1, <2>5, <2>6, <2>7, <2>9, <3>1, CutTidy
  <2>12. Given(lv, o + 5, need) = lv \cup {NewBlock(o + 5, need)}
    <3>1. o + 5 \in Nat /\ o + 5 < MEMORY_SIZE
      BY <1>1, <2>2, <2>3
    <3> QED BY <3>1, GivenBlock
  <2> QED BY <2>9, <2>10, <2>11, <2>12
<1>7. CASE /\ OnTheEdge(seg) => \E k \in 0 .. Turns(seg) : LastFrom(s.m, seg, need)[k][0] = L - 1
           /\ ~OnTheEdge(seg) => w = [end |-> "none"]
  <2>1. ~OnTheEdge(seg)
    BY <1>7 DEF GoesPast
  <2>2. w.end = "none"
    BY <1>7, <2>1
  <2> HIDE DEF w, two
  <2>3. r.s = s /\ r.ptr = W - 1 /\ r.end = "up"
    BY <1>3, <2>2
  <2>4. Given(lv, r.ptr, need) = lv
    BY <2>3, GivenNothing
  <2> QED BY <2>3, <2>4
<1> QED BY <1>4, <1>6, <1>7
-------------------------------------------------------------------------------
(* A new segment *)

\* The two headers of a new segment are a chain, on which a walk ends.
LEMMA NewChain ==
  ASSUME NEW m \in [Arena -> Bytes], NEW t \in [Arena -> Bytes], NEW base \in Nat, NEW L \in Nat,
         base + L <= MEMORY_SIZE, NEW n \in Nat, n + 11 <= L, Cut(m, t, base, L - 6, n),
         \A a \in Arena : a >= base => m[a] = 0
  PROVE  /\ Chain(t, base, L, {0, n + 5, L - 1})
         /\ base + L + 4 <= MEMORY_SIZE => Ends(t, base + L - 1, L)
         /\ LibreAt(t, base + (n + 5)) /\ SizeAt(t, base + (n + 5)) = L - n - 11
         /\ ~LibreAt(t, base + 0)
<1>1. /\ SizeAt(t, base + 0) = n /\ ~LibreAt(t, base + 0)
      /\ SizeAt(t, base + (n + 5)) = L - n - 11 /\ LibreAt(t, base + (n + 5))
  <2>1. base + 0 = base /\ base + (n + 5) = base + 5 + n /\ (L - 6) - n - 5 = L - n - 11
    OBVIOUS
  <2> QED BY <2>1 DEF Cut
<1>2. After(t, base, 0) = n + 5 /\ After(t, base, n + 5) = L - 1
  BY <1>1 DEF After
<1>3. Chain(t, base, L, {0, n + 5, L - 1})
  <2>1. {0, n + 5, L - 1} \subseteq 0 .. L - 1
    OBVIOUS
  <2>2. ASSUME NEW o \in {0, n + 5, L - 1}, o # L - 1
        PROVE  /\ After(t, base, o) \in {0, n + 5, L - 1} /\ o + 5 <= After(t, base, o)
               /\ \A x \in {0, n + 5, L - 1} : x <= o \/ After(t, base, o) <= x
    <3>1. CASE o = 0
      BY <1>2, <3>1
    <3>2. CASE o = n + 5
      BY <1>2, <3>2
    <3> QED BY <2>2, <3>1, <3>2
  <2> QED BY <2>1, <2>2 DEF Chain
<1>4. ASSUME base + L + 4 <= MEMORY_SIZE PROVE Ends(t, base + L - 1, L)
  <2>1. MEMORY_SIZE \in Nat /\ 2 * MEMORY_SIZE < W /\ W \in Nat /\ B \in Nat
    BY <1>4, SmallMemory, HeapAssumption
  <2> DEFINE a == base + L - 1
  <2>2. /\ a \in Arena /\ a + 1 \in Arena /\ a + 2 \in Arena /\ a + 3 \in Arena /\ a + 4 \in Arena
        /\ a >= base + 10 + n /\ a >= base /\ a \in Int
    BY <1>4, <2>1 DEF Arena
  <2> HIDE DEF a
  <2>3. \A i \in Arena : base + 10 + n <= i => t[i] = 0
    <3>1. \A i \in Arena : i \in Int
      BY <2>1 DEF Arena
    <3> QED BY <3>1 DEF Cut
  <2>4. t[a] = 0 /\ t[a + 1] = 0 /\ t[a + 2] = 0 /\ t[a + 3] = 0 /\ t[a + 4] = 0
    BY <2>2, <2>3
  <2>5. SizeAt(t, a) = 0 /\ ~LibreAt(t, a)
    BY <2>1, <2>4 DEF SizeAt, LibreAt
  <2> QED BY <1>4, <2>1, <2>5 DEF Ends, a
<1> QED BY <1>1, <1>3, <1>4

\* The memory k is m but for the cells from lo to before hi.
Around(k, m, lo, hi) == \A i \in Arena : i < lo \/ hi <= i => k[i] = m[i]

\* The headers of the chain are the first one, and others after its n bytes.
Spread(m, base, L, n) == \E S : Chain(m, base, L, S) /\ \A o \in S : o = 0 \/ o >= n + 5

\* The trial walk of a new segment cuts the free block, if it is big enough, and leaves the
\* client's block alone.
LEMMA TrialCarve ==
  ASSUME NEW s \in Memories, s.ok, NEW seg, NEW L \in Nat, NEW base \in Nat,
         base + L <= MEMORY_SIZE, NEW n \in Nat, n + 11 <= L,
         Chain(s.m, base, L, {0, n + 5, L - 1}),
         \/ \E o \in {0, n + 5, L - 1} :
              /\ o # L - 1 /\ Usable(s.m, base, 5, o)
              /\ Walk(s.m, seg, 5) = [end |-> "found", at |-> base + o, ptr |-> o + Header]
         \/ /\ \A x \in {0, n + 5, L - 1} : x # L - 1 => ~Usable(s.m, base, 5, x)
            /\ ~OnTheEdge(seg) => Walk(s.m, seg, 5) = [end |-> "none"],
         LibreAt(s.m, base + (n + 5)), SizeAt(s.m, base + (n + 5)) = L - n - 11,
         ~LibreAt(s.m, base + 0),
         L - n - 11 >= 10 \/ (L - n - 11 <= 5 /\ ~OnTheEdge(seg)),
         NEW r, r = Carve(s, seg, 5)
  PROVE  /\ r.s \in Memories /\ r.s.ok /\ r.end = "up"
         /\ Around(r.s.m, s.m, base + n + 5, base + L - 1) /\ Spread(r.s.m, base, L, n)
<1> DEFINE S0 == {0, n + 5, L - 1}
           w == Walk(s.m, seg, 5)
           size == SizeAt(s.m, w.at)
           two == Put(Put(s, w.at, 5, FALSE), w.at + Header + 5, (size - 5 - Header) % W, TRUE)
<1>1. s.m \in [Arena -> Bytes] /\ MEMORY_SIZE \in Nat /\ S0 \subseteq Nat /\ n + 5 \in S0
  <2>1. s.m \in [Arena -> Bytes] /\ MEMORY_SIZE \in Nat
    BY SmallMemory DEF Memories
  <2> QED BY <2>1
<1>2. r = CASE w.end = "found" -> [s |-> two, ptr |-> w.ptr, end |-> "up"]
            [] w.end = "none"  -> [s |-> s, ptr |-> W - 1, end |-> "up"]
            [] OTHER           -> [s |-> s, ptr |-> W - 1, end |-> w.end]
  BY Zenon DEF Carve
<1>3. \/ \E o \in S0 : /\ o # L - 1 /\ Usable(s.m, base, 5, o)
                       /\ w = [end |-> "found", at |-> base + o, ptr |-> o + Header]
      \/ /\ \A x \in S0 : x # L - 1 => ~Usable(s.m, base, 5, x)
         /\ ~OnTheEdge(seg) => w = [end |-> "none"]
  BY Zenon
<1>4. CASE \E o \in S0 : /\ o # L - 1 /\ Usable(s.m, base, 5, o)
                         /\ w = [end |-> "found", at |-> base + o, ptr |-> o + Header]
  <2>1. PICK o \in S0 : /\ o # L - 1 /\ Usable(s.m, base, 5, o)
                        /\ w = [end |-> "found", at |-> base + o, ptr |-> o + Header]
    BY <1>4
  <2>2. o = n + 5
    BY <2>1 DEF Usable
  <2>3. w.end = "found" /\ w.at = base + (n + 5)
    BY <2>1, <2>2
  <2>4. 5 < L - n - 11
    BY <2>1, <2>2 DEF Usable
  <2> HIDE DEF w
  <2>5. two = Put(Put(s, base + (n + 5), 5, FALSE), base + (n + 5) + Header + 5,
                  (L - n - 11 - 5 - Header) % W, TRUE)
    BY <2>3, Zenon
  <2> HIDE DEF two
  <2>6. two \in Memories /\ two.ok /\ Cut(s.m, two.m, base + (n + 5), L - n - 11, 5)
    <3>1. /\ base + (n + 5) \in Nat /\ L - n - 11 \in Nat /\ 5 \in Nat
          /\ 5 + 5 <= L - n - 11 /\ base + (n + 5) + 5 + (L - n - 11) <= MEMORY_SIZE
      BY <1>1, <2>4
    <3> QED BY <2>5, <3>1, TwoHeaders
  <2>7. r.s = two /\ r.end = "up"
    BY <1>2, <2>3
  <2>8. Chain(two.m, base, L, S0 \cup {(n + 5) + 5 + 5})
    <3>1. /\ two.m \in [Arena -> Bytes] /\ n + 5 # L - 1 /\ L - n - 11 \in Nat /\ 5 \in Nat
          /\ 5 + 5 <= L - n - 11
      BY <2>1, <2>2, <2>4, <2>6 DEF Memories
    <3> HIDE DEF S0
    <3> QED BY <1>1, <2>6, <3>1, CutChain DEF S0
  <2>9. \A i \in Arena : i < base + n + 5 \/ base + L - 1 <= i => two.m[i] = s.m[i]
    <3> SUFFICES ASSUME NEW i \in Arena, i < base + n + 5 \/ base + L - 1 <= i
                 PROVE  two.m[i] = s.m[i]
      OBVIOUS
    <3>1. i \in Int
      BY <1>1 DEF Arena
    <3>2. i < base + (n + 5) \/ base + (n + 5) + 10 + 5 <= i
      BY <2>4, <3>1
    <3> QED BY <2>6, <3>2 DEF Cut
  <2>10. \A o2 \in S0 \cup {(n + 5) + 5 + 5} : o2 = 0 \/ o2 >= n + 5
    OBVIOUS
  <2> QED BY <2>6, <2>7, <2>8, <2>9, <2>10, Zenon DEF Around, Spread
<1>5. CASE /\ \A x \in S0 : x # L - 1 => ~Usable(s.m, base, 5, x)
           /\ ~OnTheEdge(seg) => w = [end |-> "none"]
  <2>1. ~(5 < L - n - 11)
    <3>1. n + 5 # L - 1 => ~Usable(s.m, base, 5, n + 5)
      BY <1>1, <1>5
    <3> QED BY <3>1 DEF Usable
  <2>2. ~OnTheEdge(seg)
    BY <2>1
  <2>3. w.end = "none"
    BY <1>5, <2>2
  <2> HIDE DEF w, two
  <2>4. r.s = s /\ r.end = "up"
    BY <1>2, <2>3
  <2>5. \A o \in S0 : o = 0 \/ o >= n + 5
    OBVIOUS
  <2>6. Chain(s.m, base, L, S0) /\ s \in Memories /\ s.ok
    OBVIOUS
  <2> HIDE DEF S0
  <2>7. Spread(s.m, base, L, n)
    BY <2>5, <2>6, Zenon DEF Spread
  <2>8. Around(s.m, s.m, base + n + 5, base + L - 1)
    BY Zenon DEF Around
  <2> QED BY <2>4, <2>6, <2>7, <2>8, Zenon
<1> QED BY <1>3, <1>4, <1>5

\* The frame numbers of a run, as addresses.
LEMMA RunEnds ==
  ASSUME NEW seg \in PageLists, NEW f \in Nat, Run(seg, f), NEW L \in Nat,
         L = Len(seg) * PAGE_SIZE, L > 0, NEW base \in Nat, base = f * PAGE_SIZE
  PROVE  /\ seg[1] * PAGE_SIZE = base /\ (seg[Len(seg)] + 1) * PAGE_SIZE = base + L
         /\ OnTheEdge(seg) <=> base + L + 4 > MEMORY_SIZE
<1>1. Len(seg) \in Nat /\ Len(seg) # 0 /\ PAGE_SIZE \in Nat
  <2>1. Len(seg) \in Nat /\ PAGE_SIZE \in Nat
    BY PagesNatural, MuseAssumption
  <2> QED BY <2>1
<1>2. 1 \in 1 .. Len(seg) /\ Len(seg) \in 1 .. Len(seg)
  BY <1>1
<1>3. seg[1] = f /\ seg[Len(seg)] + 1 = f + Len(seg)
  BY <1>1, <1>2 DEF Run
<1>4. (f + Len(seg)) * PAGE_SIZE = (f * PAGE_SIZE) + (Len(seg) * PAGE_SIZE)
  BY <1>1
<1>5. seg[1] * PAGE_SIZE = base /\ (seg[Len(seg)] + 1) * PAGE_SIZE = base + L
  BY <1>3, <1>4
<1>6. OnTheEdge(seg) <=> base + L + 4 > MEMORY_SIZE
  <2>1. MEMORY_SIZE \in Nat
    BY SmallMemory
  <2>2. OnTheEdge(seg) <=> ~Inside(base + L - 1, Header)
    <3>1. OnTheEdge(seg) <=> ~Inside((seg[Len(seg)] + 1) * PAGE_SIZE - 1, Header)
      BY Zenon DEF OnTheEdge
    <3> QED BY ONLY <1>5, <3>1
  <2>3. Inside(base + L - 1, Header) <=> base + L + 4 <= MEMORY_SIZE
    BY <2>1 DEF Inside, Header
  <2> QED BY <2>1, <2>2, <2>3
<1> QED BY <1>5, <1>6

\* A header in the middle of the data of the first block is none of the chain's.
LEMMA HeaderInData ==
  ASSUME NEW m \in [Arena -> Bytes], NEW L \in Nat, NEW base \in Nat, base + L <= MEMORY_SIZE,
         NEW n \in Nat, n >= 10, n + 11 <= L, Spread(m, base, L, n),
         NEW k, Around(k, m, base + 10, base + 15)
  PROVE  Spread(k, base, L, n)
<1>1. \A i \in Arena : i \in Int
  BY SmallMemory DEF Arena
<1>2. PICK S : Chain(m, base, L, S) /\ \A o \in S : o = 0 \/ o >= n + 5
  BY DEF Spread
<1>3. ASSUME NEW o \in S, o # L - 1 PROVE SizeAt(k, base + o) = SizeAt(m, base + o)
  <2>1. /\ o \in 0 .. L - 1 /\ After(m, base, o) \in 0 .. L - 1 /\ o + 5 <= After(m, base, o)
    BY <1>2, <1>3 DEF Chain
  <2>2. o \in Nat /\ o + 5 <= L - 1
    BY <2>1
  <2>3. Inside(base + o, Header) /\ base + o \in Int
    BY <2>2, SmallMemory DEF Inside, Header
  <2>4. \A i \in Arena : base + o <= i /\ i < (base + o) + 5 => k[i] = m[i]
    <3> SUFFICES ASSUME NEW i \in Arena, base + o <= i, i < (base + o) + 5 PROVE k[i] = m[i]
      OBVIOUS
    <3>1. i < base + 10 \/ base + 15 <= i
      BY <1>1, <1>2, <2>2
    <3> QED BY <3>1 DEF Around
  <2> QED BY <2>3, <2>4, SameHeader
<1> QED BY <1>2, <1>3, ChainKept DEF Spread

\* The pages of seg are the L cells from base on.
Stretch(seg, f, base, L) ==
  Run(seg, f) /\ base = f * PAGE_SIZE /\ L = Len(seg) * PAGE_SIZE

\* What a new segment is made of: the client's block, and free ones.
WellMade(r, s, base, L, n) ==
  /\ r.s \in Memories /\ r.s.ok /\ r.end = "up" /\ r.ptr = base + 5
  /\ Around(r.s.m, s.m, base, base + L - 1)
  /\ SizeAt(r.s.m, base) = n /\ ~LibreAt(r.s.m, base) /\ Spread(r.s.m, base, L, n)

LEMMA FirstBlockMakes ==
  ASSUME NEW s \in Memories, s.ok, NEW seg \in PageLists, NEW f \in Nat, NEW base \in Nat,
         NEW L \in Nat, Stretch(seg, f, base, L),
         base + L <= MEMORY_SIZE, NEW n \in Nat, n >= 10, n + 11 <= L,
         \A a \in Arena : a >= base => s.m[a] = 0,
         L - n - 11 >= 10 \/ (L - n - 11 <= 5 /\ ~OnTheEdge(seg)),
         NEW r, r = FirstBlock(s, seg, n)
  PROVE  WellMade(r, s, base, L, n)
<1> DEFINE first == seg[1] * PAGE_SIZE
           sobran == Signed(Len(seg) * PAGE_SIZE - n - Header)
           s1 == Put(s, first, n, FALSE)
           s2 == Put(s1, (seg[Len(seg)] + 1) * PAGE_SIZE - sobran, (sobran - 6) % W, TRUE)
           trial == Carve(s2, seg, 5)
           s3 == Put(trial.s, first + 10, (Len(seg) * PAGE_SIZE - 16) % W, TRUE)
<1>0. r = IF ~s2.ok THEN [s |-> s2, ptr |-> 0, end |-> "wild"]
          ELSE IF trial.end # "up" THEN trial
          ELSE [s |-> s3, ptr |-> first + Header, end |-> "up"]
  BY Zenon DEF FirstBlock
<1>1. /\ first = base /\ (seg[Len(seg)] + 1) * PAGE_SIZE = base + L
      /\ (OnTheEdge(seg) <=> base + L + 4 > MEMORY_SIZE)
  <2>1. L > 0
    OBVIOUS
  <2> QED BY <2>1, RunEnds DEF Stretch
<1>2. /\ MEMORY_SIZE \in Nat /\ L > 0 /\ base \in Int /\ base + 5 \in Int /\ Inside(base, Header)
      /\ \A i \in Arena : i \in Int
  BY SmallMemory DEF Inside, Header, Arena
<1>3. s2 = Put(Put(s, base, n, FALSE), base + Header + n, ((L - 6) - n - Header) % W, TRUE)
  <2>1. /\ (base + L) - (L - n - Header) = base + Header + n
        /\ (L - n - Header) - 6 = (L - 6) - n - Header
    BY DEF Header
  <2>2. Signed(L - n - Header) = L - n - Header
    <3>1. L - n - Header \in Nat /\ 2 * (L - n - Header) < W
      BY <1>2, SmallMemory, MuseAssumption DEF Header
    <3> QED BY <3>1, SignedSmall
  <2> QED BY <1>1, <2>1, <2>2 DEF Stretch
<1>4. (L - 16) % W \in Int
  BY <1>2, Division, MuseAssumption
<1> HIDE DEF first, s2
<1>5. s2 \in Memories /\ s2.ok /\ Cut(s.m, s2.m, base, L - 6, n)
  <2>1. base \in Nat /\ L - 6 \in Nat /\ n + 5 <= L - 6 /\ base + 5 + (L - 6) <= MEMORY_SIZE
    BY <1>2
  <2> QED BY <1>3, <2>1, TwoHeaders
<1>6. s.m \in [Arena -> Bytes] /\ s2.m \in [Arena -> Bytes]
  BY <1>5 DEF Memories
<1>7. /\ Chain(s2.m, base, L, {0, n + 5, L - 1})
      /\ base + L + 4 <= MEMORY_SIZE => Ends(s2.m, base + L - 1, L)
      /\ LibreAt(s2.m, base + (n + 5)) /\ SizeAt(s2.m, base + (n + 5)) = L - n - 11
      /\ ~LibreAt(s2.m, base + 0)
  BY <1>5, <1>6, NewChain
<1>8. OnTheEdge(seg) \/ Ends(s2.m, base + L - 1, L)
  <2> SUFFICES ASSUME ~OnTheEdge(seg) PROVE Ends(s2.m, base + L - 1, L)
    OBVIOUS
  <2>1. base + L + 4 <= MEMORY_SIZE
    BY <1>1, <1>2
  <2> QED BY <1>7, <2>1, Zenon
<1>9. \/ \E o \in {0, n + 5, L - 1} :
           /\ o # L - 1 /\ Usable(s2.m, base, 5, o)
           /\ Walk(s2.m, seg, 5) = [end |-> "found", at |-> base + o, ptr |-> o + Header]
      \/ /\ \A x \in {0, n + 5, L - 1} : x # L - 1 => ~Usable(s2.m, base, 5, x)
         /\ ~OnTheEdge(seg) => Walk(s2.m, seg, 5) = [end |-> "none"]
  <2>1. Run(seg, f) /\ base = f * PAGE_SIZE /\ L = Len(seg) * PAGE_SIZE /\ L > 0
    BY <1>2, Zenon DEF Stretch
  <2>2. PICK t, S : t = s2.m /\ S = {0, n + 5, L - 1}
    OBVIOUS
  <2>3. /\ t \in [Arena -> Bytes] /\ seg \in PageLists /\ f \in Nat /\ L \in Nat /\ base \in Nat
        /\ base + L <= MEMORY_SIZE /\ Chain(t, base, L, S)
        /\ OnTheEdge(seg) \/ Ends(t, base + L - 1, L)
    BY <1>6, <1>7, <1>8, <2>2, Zenon
  <2>4. \/ \E o \in S : /\ o # L - 1 /\ Usable(t, base, 5, o)
                        /\ Walk(t, seg, 5) = [end |-> "found", at |-> base + o, ptr |-> o + Header]
        \/ /\ \A x \in S : x # L - 1 => ~Usable(t, base, 5, x)
           /\ ~OnTheEdge(seg) => Walk(t, seg, 5) = [end |-> "none"]
    BY ONLY <2>1, <2>3, WalkOnChain
  <2> QED BY <2>2, <2>4, Zenon
<1>10. /\ trial.s \in Memories /\ trial.s.ok /\ trial.end = "up"
       /\ Around(trial.s.m, s2.m, base + n + 5, base + L - 1) /\ Spread(trial.s.m, base, L, n)
  <2>1. PICK t : t = s2
    OBVIOUS
  <2>2. PICK x : x = trial
    OBVIOUS
  <2>3. /\ t \in Memories /\ t.ok /\ L \in Nat /\ base \in Nat /\ base + L <= MEMORY_SIZE
        /\ n \in Nat /\ n + 11 <= L /\ x = Carve(t, seg, 5)
        /\ Chain(t.m, base, L, {0, n + 5, L - 1})
        /\ LibreAt(t.m, base + (n + 5)) /\ SizeAt(t.m, base + (n + 5)) = L - n - 11
        /\ ~LibreAt(t.m, base + 0)
        /\ L - n - 11 >= 10 \/ (L - n - 11 <= 5 /\ ~OnTheEdge(seg))
    BY <1>5, <1>7, <2>1, <2>2, Zenon
  <2>4. \/ \E o \in {0, n + 5, L - 1} :
             /\ o # L - 1 /\ Usable(t.m, base, 5, o)
             /\ Walk(t.m, seg, 5) = [end |-> "found", at |-> base + o, ptr |-> o + Header]
        \/ /\ \A y \in {0, n + 5, L - 1} : y # L - 1 => ~Usable(t.m, base, 5, y)
           /\ ~OnTheEdge(seg) => Walk(t.m, seg, 5) = [end |-> "none"]
    BY <1>9, <2>1, Zenon
  <2>5. /\ x.s \in Memories /\ x.s.ok /\ x.end = "up"
        /\ Around(x.s.m, t.m, base + n + 5, base + L - 1) /\ Spread(x.s.m, base, L, n)
    BY ONLY <2>3, <2>4, TrialCarve
  <2> QED BY <2>1, <2>2, <2>5, Zenon
<1> HIDE DEF trial
<1>11. s3 = Put(trial.s, base + 10, (L - 16) % W, TRUE)
  BY <1>1 DEF Stretch
<1> HIDE DEF s3
<1>12. s3 \in Memories /\ s3.ok /\ Around(s3.m, trial.s.m, base + 10, base + 15)
  <2>1. Inside(base + 10, Header) /\ base + 10 \in Int /\ (base + 10) + 5 = base + 15
    BY <1>2 DEF Inside, Header
  <2>2. Headed(trial.s, s3, base + 10, (L - 16) % W, TRUE)
    BY <1>4, <1>10, <1>11, <2>1, PutReads
  <2> QED BY <2>1, <2>2, Zenon DEF Headed, Around
<1>13. Spread(s3.m, base, L, n)
  <2>1. PICK m, k : m = trial.s.m /\ k = s3.m
    OBVIOUS
  <2>2. m \in [Arena -> Bytes] /\ Spread(m, base, L, n) /\ Around(k, m, base + 10, base + 15)
    BY <1>10, <1>12, <2>1 DEF Memories
  <2>3. Spread(k, base, L, n)
    BY <2>2, HeaderInData
  <2> QED BY <2>1, <2>3
<1>14. r.s = s3 /\ r.end = "up" /\ r.ptr = base + 5
  <2>1. r = [s |-> s3, ptr |-> first + Header, end |-> "up"]
    BY <1>0, <1>5, <1>10, Zenon
  <2> QED BY <1>1, <2>1 DEF Header
<1>15. ASSUME NEW i \in Arena, i < base \/ base + L - 1 <= i PROVE s3.m[i] = s.m[i]
  <2>1. i < base \/ base + 10 + n <= i
    BY <1>2, <1>15
  <2>2. s2.m[i] = s.m[i]
    BY <1>5, <2>1 DEF Cut
  <2>3. i < base + n + 5 \/ base + L - 1 <= i
    BY <1>2, <1>15
  <2>4. i < base + 10 \/ base + 15 <= i
    BY <1>2, <1>15
  <2> QED BY <1>10, <1>12, <2>2, <2>3, <2>4, Zenon DEF Around
<1>16. SizeAt(s3.m, base) = n /\ ~LibreAt(s3.m, base)
  <2>1. \A i \in Arena : base <= i /\ i < base + 5 => s3.m[i] = s2.m[i]
    <3> SUFFICES ASSUME NEW i \in Arena, base <= i, i < base + 5 PROVE s3.m[i] = s2.m[i]
      OBVIOUS
    <3>1. i < base + n + 5 /\ i < base + 10
      BY <1>2
    <3> QED BY <1>10, <1>12, <3>1, Zenon DEF Around
  <2>2. SizeAt(s3.m, base) = SizeAt(s2.m, base) /\ (LibreAt(s3.m, base) <=> LibreAt(s2.m, base))
    BY <1>2, <2>1, SameHeader
  <2> QED BY <1>5, <2>2 DEF Cut
<1>17. Around(s3.m, s.m, base, base + L - 1)
  BY <1>15, Zenon DEF Around
<1> QED BY <1>12, <1>13, <1>14, <1>16, <1>17 DEF WellMade

\* Blocks are where they were when the cells below U are.
LEMMA SoundBelow ==
  ASSUME NEW m, NEW k, NEW U \in Nat, U <= MEMORY_SIZE, \A i \in Arena : i < U => k[i] = m[i],
         NEW b \in Blocks, NEW L, NEW S, Sound(m, b, U, L, S)
  PROVE  /\ SizeAt(k, b.at - 5) = b.size /\ ~LibreAt(k, b.at - 5)
         /\ \A i \in 0 .. b.len - 1 : k[b.at + i] = b.byte
<1>1. PICK at \in Nat, n \in Nat, l \in Nat : at = b.at /\ n = b.size /\ l = b.len
  BY BlockParts
<1>2. /\ at >= 5 /\ at + n + 6 <= U /\ SizeAt(m, at - 5) = n /\ ~LibreAt(m, at - 5) /\ l <= n
      /\ \A i \in 0 .. l - 1 : m[at + i] = b.byte
  BY <1>1, Zenon DEF Sound
<1>3. MEMORY_SIZE \in Nat /\ \A i \in Arena : i \in Int
  BY SmallMemory DEF Arena
<1>4. SizeAt(k, at - 5) = n /\ ~LibreAt(k, at - 5)
  <2>1. Inside(at - 5, Header) /\ at - 5 \in Int
    BY <1>2, <1>3 DEF Inside, Header
  <2>2. \A i \in Arena : at - 5 <= i /\ i < (at - 5) + 5 => k[i] = m[i]
    <3> SUFFICES ASSUME NEW i \in Arena, i < (at - 5) + 5 PROVE k[i] = m[i]
      OBVIOUS
    <3>1. i < U
      BY <1>2, <1>3
    <3> QED BY <3>1
  <2> QED BY <1>2, <2>1, <2>2, SameHeader
<1>5. ASSUME NEW i \in 0 .. l - 1 PROVE k[at + i] = b.byte
  <2>1. at + i \in Arena /\ at + i < U
    BY <1>2, <1>3 DEF Arena
  <2> QED BY <1>2, <2>1
<1> QED BY <1>1, <1>4, <1>5

\* A new segment after the first U cells keeps the memory tidy: it is the first one, or its
\* block is the one that a walk past the end of the first one reads.
LEMMA NewSegmentTidy ==
  ASSUME NEW m \in [Arena -> Bytes], NEW k \in [Arena -> Bytes], NEW lv \in SUBSET Blocks,
         NEW U \in Nat, NEW L \in Nat, L <= U, U > 0 => L > 0, NEW S, Tidy(m, lv, U, L, S),
         NEW D \in Nat, U + D <= MEMORY_SIZE, NEW n \in Nat, n + 11 <= D,
         Around(k, m, U, U + D - 1), SizeAt(k, U) = n, ~LibreAt(k, U), Spread(k, U, D, n),
         NEW V \in Nat, V = U + D, NEW K \in Nat, K = IF U = 0 THEN D ELSE L
  PROVE  \E T : Tidy(k, lv \cup {NewBlock(U + 5, n)}, V, K, T)
<1> DEFINE new == NewBlock(U + 5, n)
<1>1. /\ new.at = U + 5 /\ new.size = n /\ new.len = 0 /\ new.at - 5 = U
  BY DEF NewBlock
<1> HIDE DEF new
<1>2. MEMORY_SIZE \in Nat /\ U <= MEMORY_SIZE /\ \A i \in Arena : i \in Int
  BY SmallMemory DEF Arena
<1>3. \A i \in Arena : i < U => k[i] = m[i]
  BY Zenon DEF Around
<1>4. \A i \in Arena : i >= V => k[i] = 0
  <2> SUFFICES ASSUME NEW i \in Arena, i >= V PROVE k[i] = 0
    OBVIOUS
  <2>1. U + D - 1 <= i /\ i >= U
    BY <1>2
  <2>2. k[i] = m[i] /\ m[i] = 0
    BY <2>1, Zenon DEF Around, Tidy
  <2> QED BY <2>2
<1>5. ASSUME NEW T, U >= K \/ (U \in T /\ U # K - 1) PROVE Sound(k, new, V, K, T)
  <2>1. new.at >= 5 /\ new.at + new.size + 6 <= V /\ new.len <= new.size
    BY <1>1
  <2>2. \A i \in 0 .. new.len - 1 : k[new.at + i] = new.byte
    BY <1>1
  <2>3. SizeAt(k, new.at - 5) = new.size /\ ~LibreAt(k, new.at - 5)
    BY <1>1
  <2>4. new.at - 5 >= K \/ (new.at - 5 \in T /\ new.at - 5 # K - 1)
    BY <1>1, <1>5
  <2> QED BY <2>1, <2>2, <2>3, <2>4, Zenon DEF Sound
<1>6. ASSUME NEW b \in lv
      PROVE  /\ b.at \in Nat /\ b.size \in Nat /\ b.at >= 5 /\ b.at + b.size + 6 <= U
             /\ Separate(b, new) /\ Separate(new, b)
  <2>1. /\ b.at \in Nat /\ b.size \in Nat /\ b.at >= 5 /\ b.at + b.size + 6 <= U
    BY BlockParts DEF Tidy, Sound
  <2> QED BY <1>1, <2>1 DEF Separate
<1>7. \A b, d \in lv \cup {new} : b # d => Separate(b, d)
  BY <1>6, Zenon DEF Tidy
<1>8. CASE U = 0
  <2>1. lv = {}
    BY <1>6, <1>8
  <2>2. PICK T : Chain(k, U, D, T)
    BY DEF Spread
  <2>3. Chain(k, 0, K, T) /\ K > 0 /\ K = V /\ ~(K < V)
    BY <1>8, <2>2
  <2>4. k[K - 1] = 0
    <3>1. K - 1 \in Arena /\ U + D - 1 <= K - 1 /\ K - 1 >= U
      BY <1>2, <1>8 DEF Arena
    <3> QED BY <3>1, Zenon DEF Around, Tidy
  <2>5. Sound(k, new, V, K, T)
    <3>1. U \in T /\ U # K - 1
      BY <1>8, <2>3 DEF Chain
    <3> QED BY <1>5, <3>1
  <2> QED BY <1>4, <1>7, <2>1, <2>3, <2>4, <2>5 DEF Tidy, new
<1>9. CASE U > 0
  <2>1. K = L /\ L > 0 /\ Chain(m, 0, L, S) /\ m[L - 1] = 0 /\ U < V
    BY <1>9 DEF Tidy
  <2>2. Chain(k, 0, L, S)
    <3>1. ASSUME NEW o \in S, o # L - 1 PROVE SizeAt(k, 0 + o) = SizeAt(m, 0 + o)
      <4>1. /\ o \in 0 .. L - 1 /\ After(m, 0, o) \in 0 .. L - 1 /\ o + 5 <= After(m, 0, o)
        BY <2>1, <3>1 DEF Chain
      <4>2. 0 + o = o /\ o \in Nat /\ o + 5 <= L - 1
        BY <4>1
      <4>3. Inside(o, Header) /\ o \in Int
        BY <1>2, <4>2 DEF Inside, Header
      <4>4. \A i \in Arena : o <= i /\ i < o + 5 => k[i] = m[i]
        BY <1>2, <1>3, <4>2
      <4> QED BY <4>2, <4>3, <4>4, SameHeader
    <3> QED BY <2>1, <3>1, ChainKept
  <2>3. k[L - 1] = 0
    <3>1. L - 1 \in Arena /\ L - 1 < U
      BY <1>2, <2>1 DEF Arena
    <3> QED BY <1>3, <2>1, <3>1
  <2>4. \E b \in lv \cup {new} : b.at = L + 5
    <3>1. CASE L = U
      BY <1>1, <3>1
    <3>2. CASE L < U
      BY <3>2 DEF Tidy
    <3> QED BY <3>1, <3>2
  <2>5. Sound(k, new, V, L, S)
    BY <1>5, <2>1
  <2>6. ASSUME NEW b \in lv PROVE Sound(k, b, V, L, S)
    <3>1. Sound(m, b, U, L, S) /\ b \in Blocks
      BY DEF Tidy
    <3>2. /\ SizeAt(k, b.at - 5) = b.size /\ ~LibreAt(k, b.at - 5)
          /\ \A i \in 0 .. b.len - 1 : k[b.at + i] = b.byte
      BY <1>2, <1>3, <3>1, SoundBelow
    <3>3. b.at + b.size + 6 <= V
      BY <1>6
    <3> QED BY <3>1, <3>2, <3>3, Zenon DEF Sound
  <2>7. \A b \in lv \cup {new} : Sound(k, b, V, L, S)
    BY <2>5, <2>6
  <2>8. Tidy(k, lv \cup {new}, V, L, S)
    BY <1>4, <1>7, <2>2, <2>3, <2>4, <2>7, Zenon DEF Tidy
  <2>9. Tidy(k, lv \cup {new}, V, K, S)
    BY <2>1, <2>8
  <2> QED BY <2>9 DEF new
<1>10. U = 0 \/ U > 0
  OBVIOUS
<1> QED BY <1>8, <1>9, <1>10, Zenon
-------------------------------------------------------------------------------
(* The server when nothing has strayed *)

\* Frames that follow one another are a run.
LEMMA RunOf ==
  ASSUME NEW seg \in PageLists, seg # <<>>, \A i \in 1 .. Len(seg) - 1 : seg[i + 1] = seg[i] + 1
  PROVE  Run(seg, seg[1]) /\ Len(seg) \in Nat \ {0} /\ seg[1] \in Nat
<1>1. Len(seg) \in Nat /\ Len(seg) # 0 /\ \A i \in 1 .. Len(seg) : seg[i] \in Nat
  BY PagesNatural, EmptySeq DEF PageLists
<1>2. seg[1] \in Nat
  BY <1>1
<1> DEFINE Bad == {i \in 1 .. Len(seg) : seg[i] # seg[1] + (i - 1)}
<1> SUFFICES ASSUME Bad # {} PROVE FALSE
  BY <1>1, <1>2 DEF Run
<1>3. Bad \in SUBSET Nat
  BY <1>1
<1>4. PICK i \in Bad : \A j \in Bad : i <= j
  <2> HIDE DEF Bad
  <2> QED BY <1>3, LeastOf
<1>5. i \in 1 .. Len(seg) /\ i # 1
  BY <1>2, <1>4
<1>6. i - 1 \in 1 .. Len(seg) - 1 /\ i - 1 \notin Bad /\ (i - 1) + 1 = i
  <2> HIDE DEF Bad
  <2> QED BY <1>1, <1>3, <1>4, <1>5
<1>7. i - 1 \in 1 .. Len(seg)
  BY <1>1, <1>5, <1>6
<1>8. seg[i - 1] = seg[1] + ((i - 1) - 1) /\ seg[i] = seg[i - 1] + 1
  BY <1>6, <1>7
<1>9. seg[i] = seg[1] + (i - 1)
  <2>0. seg[1] \in Nat /\ seg[i - 1] \in Int /\ seg[i] \in Int
    <3> HIDE DEF Bad
    <3> QED BY <1>1, <1>2, <1>5, <1>7
  <2>1. PICK x \in Nat, y \in Int, z \in Int : x = seg[1] /\ y = seg[i - 1] /\ z = seg[i]
    BY <2>0, Zenon
  <2>2. y = x + ((i - 1) - 1) /\ z = y + 1 /\ i \in Int
    BY <1>5, <1>8, <2>1
  <2> HIDE DEF Bad
  <2> QED BY <2>1, <2>2
<1> QED BY <1>4, <1>9

\* The first u frames are taken, and memoria has room for them; if any are, the first k of
\* them are the segment that begins at frame 0.
Held(u, k) ==
  /\ u \in 0 .. cantidad_paginas_totales /\ FreeFrames = u .. cantidad_paginas_totales - 1
  /\ u * PAGE_SIZE <= MEMORY_SIZE
  /\ k \in 0 .. u /\ (u > 0 => k > 0)
  /\ \A i \in DOMAIN lista_procesos : \A s \in DOMAIN lista_procesos[i].segments :
       LET q == lista_procesos[i].segments[s] IN q # <<>> /\ q[1] = 0 => Len(q) = k

\* While nothing has strayed the server is up, and its memory is tidy.
Clean == strayed = {} =>
  /\ status \in {"up", "exited"}
  /\ \E u, k : Held(u, k) /\ \E S : Tidy(memoria, live, u * PAGE_SIZE, k * PAGE_SIZE, S)

\* The frames, as addresses.
LEMMA HeldNumbers ==
  ASSUME NEW u, NEW k, Held(u, k)
  PROVE  /\ u \in Nat /\ k \in Nat /\ k <= u /\ u * PAGE_SIZE \in Nat /\ k * PAGE_SIZE \in Nat
         /\ k * PAGE_SIZE <= u * PAGE_SIZE /\ u * PAGE_SIZE <= MEMORY_SIZE
         /\ u * PAGE_SIZE > 0 => k * PAGE_SIZE > 0
<1>1. /\ u \in Nat /\ k \in Nat /\ k <= u /\ (u > 0 => k > 0)
      /\ u * PAGE_SIZE <= MEMORY_SIZE /\ PAGE_SIZE \in Nat \ {0}
  BY PagesTotal, MuseAssumption DEF Held
<1>2. \A x, y \in Nat : x * y \in Nat
  BY SMT
<1>3. k * PAGE_SIZE <= u * PAGE_SIZE
  BY <1>1, ProductGrows
<1>4. k > 0 => k * PAGE_SIZE > 0
  <2>1. k > 0 => 1 * PAGE_SIZE <= k * PAGE_SIZE
    BY <1>1, ProductGrows
  <2> QED BY <1>1, <1>2, <2>1
<1>5. u = 0 => u * PAGE_SIZE = 0
  BY <1>1
<1> QED BY <1>1, <1>2, <1>3, <1>4, <1>5

\* New processes, and segments without pages, leave the frames as they are.
LEMMA HeldKept ==
  ASSUME NEW u, NEW k, Held(u, k), UNCHANGED frame_libre, NEW l, lista_procesos' = l,
         \A i \in DOMAIN l : \/ i \in DOMAIN lista_procesos /\ l[i] = lista_procesos[i]
                             \/ l[i].segments = <<>>
                             \/ l[i].segments = << <<>> >>
  PROVE  Held(u, k)'
<1>1. FreeFrames' = FreeFrames
  BY DEF FreeFrames
<1>2. ASSUME NEW i \in DOMAIN l, NEW s \in DOMAIN l[i].segments,
             l[i].segments[s] # <<>>, l[i].segments[s][1] = 0
      PROVE  Len(l[i].segments[s]) = k
  <2>1. CASE i \in DOMAIN lista_procesos /\ l[i] = lista_procesos[i]
    BY <1>2, <2>1, Zenon DEF Held
  <2>2. CASE l[i].segments = <<>>
    BY <1>2, <2>2
  <2>3. CASE l[i].segments = << <<>> >>
    BY <1>2, <2>3
  <2> QED BY <2>1, <2>2, <2>3
<1> QED BY <1>1, <1>2, Zenon DEF Held

\* What keeps the arena and the blocks, and the frames, keeps the memory tidy.
LEMMA CleanKept ==
  ASSUME Clean, strayed' = {} => strayed = {}, UNCHANGED <<memoria, live>>, status' \in {"up", "exited"},
         UNCHANGED frame_libre, NEW l, lista_procesos' = l,
         \A i \in DOMAIN l : \/ i \in DOMAIN lista_procesos /\ l[i] = lista_procesos[i]
                             \/ l[i].segments = <<>>
                             \/ l[i].segments = << <<>> >>
  PROVE  Clean'
<1> SUFFICES ASSUME strayed' = {}
             PROVE  \E u, k : Held(u, k)' /\ \E S : Tidy(memoria', live', u * PAGE_SIZE, k * PAGE_SIZE, S)
  BY Zenon DEF Clean
<1>1. PICK u, k : Held(u, k) /\ \E S : Tidy(memoria, live, u * PAGE_SIZE, k * PAGE_SIZE, S)
  BY DEF Clean
<1>2. Held(u, k)'
  BY <1>1, HeldKept
<1>3. memoria' = memoria /\ live' = live
  OBVIOUS
<1> QED BY <1>1, <1>2, <1>3, Zenon

\* A new segment takes the next frames.
LEMMA HeldMore ==
  ASSUME Safe, NEW u, NEW k, Held(u, k), NEW p \in Pids, NEW n \in Sizes, MallocFirst(p, n),
         NEW f, f = FirstOf(FreeFrames, PagesFor(n)), NEW j, j = PagesFor(n),
         \A i \in 1 .. j : ~InSwap(f[i])
  PROVE  /\ f \in PageLists /\ Len(f) = j /\ j \in Nat \ {0} /\ u \in Nat /\ Run(f, u)
         /\ (u + j) * PAGE_SIZE <= MEMORY_SIZE
         /\ Held(u + j, IF u = 0 THEN j ELSE k)'
<1> DEFINE N == cantidad_paginas_totales
<1>1. /\ N \in Nat /\ u \in 0 .. N /\ FreeFrames = u .. N - 1 /\ k \in 0 .. u /\ (u > 0 => k > 0)
      /\ u \in Nat
  BY PagesTotal DEF Held
<1>2. f \in PageLists /\ f # <<>> /\ Len(f) = j /\ j \in Nat \ {0}
  BY PagesTaken
<1>3. u + j <= N
  <2>1. Cardinality(u .. N - 1) >= j
    BY <1>1 DEF MallocFirst, existe_memoria
  <2>2. Cardinality(u .. N - 1) = IF u > N - 1 THEN 0 ELSE (N - 1) - u + 1
    BY <1>1, FS_Interval
  <2> HIDE DEF N
  <2> QED BY <1>1, <1>2, <2>1, <2>2
<1>4. f[1] = u /\ \A i \in 1 .. j - 1 : f[i + 1] = f[i] + 1
  <2> HIDE DEF N
  <2>1. /\ FirstOf(u .. N - 1, j)[1] = u
        /\ \A i \in 1 .. j - 1 : FirstOf(u .. N - 1, j)[i + 1] = FirstOf(u .. N - 1, j)[i] + 1
    <3>1. u \in Nat /\ N \in Nat /\ j \in Nat /\ j > 0 /\ u + j <= N
      BY <1>1, <1>2, <1>3
    <3> QED BY ONLY <3>1, FirstOfInterval
  <2> QED BY <1>1, <2>1
<1>5. Run(f, u)
  BY <1>2, <1>4, RunOf
<1>6. (u + j) * PAGE_SIZE <= MEMORY_SIZE
  <2>1. j \in 1 .. j /\ f[j] + 1 = u + j
    BY <1>1, <1>2, <1>5 DEF Run
  <2>2. (u + j) * PAGE_SIZE \in Int /\ MEMORY_SIZE \in Int
    BY <1>1, <1>2, MuseAssumption, ProductGrows
  <2>3. ~((u + j) * PAGE_SIZE > MEMORY_SIZE)
    BY <2>1, Zenon DEF InSwap
  <2> QED BY <2>2, <2>3
<1>7. FreeFrames' = u + j .. N - 1
  <2>1. frame_libre' = [i \in Frames |-> frame_libre[i] /\ \A x \in 1 .. j : f[x] # i]
    BY Zenon DEF MallocFirst, TakeFrames
  <2>2. Frames = 0 .. N - 1
    BY DEF Frames
  <2>3. ASSUME NEW i \in Frames PROVE frame_libre'[i] <=> i \in u + j .. N - 1
    <3>1. frame_libre'[i] <=> frame_libre[i] /\ \A x \in 1 .. j : f[x] # i
      BY <2>1
    <3>2. frame_libre[i] <=> i \in u .. N - 1
      BY <1>1 DEF FreeFrames
    <3>3. (\A x \in 1 .. j : f[x] # i) <=> (i < u \/ i >= u + j)
      <4>1. \A x \in 1 .. j : f[x] = u + (x - 1)
        BY <1>2, <1>5 DEF Run
      <4>2. i \in Int
        BY <1>1, <2>2
      <4>3. CASE i < u \/ i >= u + j
        BY <1>1, <1>2, <4>1, <4>2, <4>3
      <4>4. CASE ~(i < u \/ i >= u + j)
        <5>1. (i - u) + 1 \in 1 .. j /\ u + (((i - u) + 1) - 1) = i
          BY <1>1, <1>2, <4>2, <4>4
        <5> QED BY <4>1, <4>4, <5>1
      <4> QED BY <4>3, <4>4
    <3> HIDE DEF N
    <3> QED BY <1>1, <1>2, <2>2, <3>1, <3>2, <3>3
  <2> HIDE DEF N
  <2>4. u + j .. N - 1 \subseteq Frames
    BY <1>1, <1>2, <2>2
  <2> QED BY <2>3, <2>4 DEF FreeFrames
<1>8. ASSUME NEW i \in DOMAIN lista_procesos', NEW s \in DOMAIN lista_procesos'[i].segments,
             lista_procesos'[i].segments[s] # <<>>, lista_procesos'[i].segments[s][1] = 0
      PROVE  Len(lista_procesos'[i].segments[s]) = IF u = 0 THEN j ELSE k
  <2>1. FreePages = FreeFrames
    BY DEF Safe, PageIsFrame, FreePages, FreeFrames
  <2>2. lista_procesos' = WithSegment(p, f) /\ Segments(p) = <<>>
    BY <2>1, Zenon DEF MallocFirst
  <2>3. PICK at \in DOMAIN lista_procesos' :
          /\ lista_procesos'[at].segments = <<f>>
          /\ \A x \in DOMAIN lista_procesos' : x # at =>
               x \in DOMAIN lista_procesos /\ lista_procesos'[x] = lista_procesos[x]
    <3>1. LET l == WithSegment(p, f)
          IN \E at \in DOMAIN l :
               /\ l[at].segments = <<f>>
               /\ \A x \in DOMAIN l : x # at =>
                    x \in DOMAIN lista_procesos /\ l[x] = lista_procesos[x]
      BY <1>2, <2>2, SegmentAdded DEF Safe
    <3> QED BY <2>2, <3>1, Zenon
  <2>4. CASE i = at
    <3>1. lista_procesos'[i].segments[s] = f
      BY <2>3, <2>4
    <3> QED BY <1>2, <1>4, <1>8, <3>1
  <2>5. CASE i # at
    <3>1. i \in DOMAIN lista_procesos /\ lista_procesos'[i] = lista_procesos[i]
      BY <2>3, <2>5
    <3> DEFINE q == lista_procesos[i].segments[s]
    <3>2. s \in DOMAIN lista_procesos[i].segments /\ q # <<>> /\ q[1] = 0
      BY <1>8, <3>1
    <3>3. Len(q) = k
      BY <3>1, <3>2, Zenon DEF Held
    <3>4. u # 0
      <4>1. q \in PageLists
        <5>1. lista_procesos[i] \in Processes
          BY <3>1, ElementOfSeq DEF Safe, TypeOK
        <5>2. lista_procesos[i].segments \in Seq(PageLists)
          BY <5>1 DEF Processes
        <5> QED BY <3>2, <5>2, ElementOfSeq
      <4>2. 1 \in DOMAIN q /\ q[1] \in Frames
        <5> HIDE DEF q
        <5> QED BY <3>2, <4>1 DEF PageLists
      <4>3. ~frame_libre[q[1]]
        BY <3>1, <3>2, <4>2, Zenon DEF Safe, SegmentsDisjoint
      <4>4. 0 \in Frames /\ 0 \notin FreeFrames
        <5> HIDE DEF q
        <5> QED BY <3>2, <4>2, <4>3 DEF FreeFrames
      <4>5. 0 <= N - 1
        BY <1>1, <4>4 DEF Frames
      <4> HIDE DEF N
      <4> QED BY <1>1, <4>4, <4>5
    <3> QED BY <3>1, <3>3, <3>4
  <2> QED BY <2>4, <2>5
<1>9. Held(u + j, IF u = 0 THEN j ELSE k)'
  <2>1. /\ u + j \in 0 .. N /\ (IF u = 0 THEN j ELSE k) \in 0 .. u + j
        /\ (u + j > 0 => (IF u = 0 THEN j ELSE k) > 0)
    <3> HIDE DEF N
    <3> QED BY <1>1, <1>2, <1>3
  <2> QED BY <1>6, <1>7, <1>8, <2>1, Zenon DEF Held, cantidad_paginas_totales
<1> QED BY <1>1, <1>2, <1>5, <1>6, <1>9

\* What has not strayed had none of the conditions.
LEMMA Unstrayed ==
  ASSUME NEW S, Strays(S), strayed' = {}
  PROVE  strayed = {} /\ S = {}
BY DEF Strays

LEMMA UnstrayedWhen ==
  ASSUME NEW d, NEW x, When(d, x) = {}
  PROVE  ~d
BY DEF When

LEMMA LeavesWell ==
  ASSUME NEW s, NEW end, s.ok, Leaves(s, end)
  PROVE  memoria' = s.m /\ status' = end
BY DEF Leaves

LEMMA GrantedIs ==
  ASSUME NEW ptr, NEW n, Granted(ptr, n)
  PROVE  live' = Given(live, ptr, n)
BY DEF Granted, Given, NewBlock

LEMMA CleanMallocFirst ==
  ASSUME Safe, BytesOK, Clean, NEW p \in Pids, NEW n \in Sizes, HeapMallocFirst(p, n)
  PROVE  Clean'
<1> SUFFICES ASSUME strayed' = {} PROVE Clean'
  BY DEF Clean
<1>1. PICK f, j, r : /\ f = FirstOf(FreeFrames, PagesFor(n)) /\ j = PagesFor(n)
                     /\ r = FirstBlock(Memory, f, n)
  OBVIOUS
<1>2. /\ MallocFirst(p, n) /\ Leaves(r.s, r.end) /\ Granted(r.ptr, n)
      /\ Strays(When(Wraps(n), "wrapped") \cup When(n < 10, "small")
                 \cup When(Signed(j * PAGE_SIZE - n - Header) - 6 \notin 0 .. 5 \cup (10 .. MEMORY_SIZE), "tight")
                 \cup When(Signed(j * PAGE_SIZE - n - Header) - 6 \in 0 .. 5 /\ OnTheEdge(f), "edge")
                 \cup When(\E i \in 1 .. j : InSwap(f[i]), "swap"))
  BY <1>1, Zenon DEF HeapMallocFirst
<1>3. PICK rest :
        /\ rest = Signed(j * PAGE_SIZE - n - Header)
        /\ strayed = {} /\ ~Wraps(n)
        /\ rest - 6 \in 0 .. 5 \cup (10 .. MEMORY_SIZE)
        /\ ~(n < 10) /\ ~(rest - 6 \in 0 .. 5 /\ OnTheEdge(f))
        /\ ~\E i \in 1 .. j : InSwap(f[i])
  <2>1. PICK rest : rest = Signed(j * PAGE_SIZE - n - Header)
    OBVIOUS
  <2> DEFINE a == When(rest - 6 \notin 0 .. 5 \cup (10 .. MEMORY_SIZE), "tight")
             b == When(n < 10, "small")
             c == When(rest - 6 \in 0 .. 5 /\ OnTheEdge(f), "edge")
             d == When(\E i \in 1 .. j : InSwap(f[i]), "swap")
             e == When(Wraps(n), "wrapped")
  <2>2. strayed = {} /\ e \cup b \cup a \cup c \cup d = {}
    BY <1>2, <2>1, Unstrayed
  <2>3. a = {} /\ b = {} /\ c = {} /\ d = {} /\ e = {}
    <3> HIDE DEF a, b, c, d, e
    <3> QED BY <2>2
  <2> QED BY <2>1, <2>2, <2>3, UnstrayedWhen, Zenon
<1>4. PICK u, k, S : Held(u, k) /\ Tidy(memoria, live, u * PAGE_SIZE, k * PAGE_SIZE, S)
  BY <1>3 DEF Clean
<1>5. /\ f \in PageLists /\ Len(f) = j /\ j \in Nat \ {0} /\ u \in Nat /\ Run(f, u)
      /\ (u + j) * PAGE_SIZE <= MEMORY_SIZE
      /\ Held(u + j, IF u = 0 THEN j ELSE k)'
  BY <1>1, <1>2, <1>3, <1>4, HeldMore
<1>6. /\ k \in Nat /\ u * PAGE_SIZE \in Nat /\ k * PAGE_SIZE \in Nat
      /\ k * PAGE_SIZE <= u * PAGE_SIZE /\ u * PAGE_SIZE <= MEMORY_SIZE
      /\ (u * PAGE_SIZE > 0 => k * PAGE_SIZE > 0)
  BY <1>4, HeldNumbers
<1>7. PICK U \in Nat, L \in Nat, D \in Nat :
        U = u * PAGE_SIZE /\ L = k * PAGE_SIZE /\ D = j * PAGE_SIZE
  <2>1. j * PAGE_SIZE \in Nat
    BY <1>5, MuseAssumption, ProductGrows
  <2> QED BY <1>6, <2>1
<1>8. /\ (u + j) * PAGE_SIZE = U + D /\ Stretch(f, u, U, D)
      /\ (IF u = 0 THEN j ELSE k) * PAGE_SIZE = IF U = 0 THEN D ELSE L
  <2>1. (u + j) * PAGE_SIZE = (u * PAGE_SIZE) + (j * PAGE_SIZE)
    BY <1>5, MuseAssumption
  <2>2. u = 0 <=> u * PAGE_SIZE = 0
    BY <1>5, MuseAssumption
  <2> QED BY <1>5, <1>7, <2>1, <2>2 DEF Stretch
<1>9. /\ n \in Nat /\ n >= 10 /\ n + 11 <= D /\ U + D <= MEMORY_SIZE /\ L <= U
      /\ (U > 0 => L > 0) /\ MEMORY_SIZE \in Nat
      /\ D - n - 11 >= 10 \/ (D - n - 11 <= 5 /\ ~OnTheEdge(f))
  <2>1. n \in Nat /\ MEMORY_SIZE \in Nat
    BY MuseAssumption
  <2>2. /\ D - n - Header - 6 \in 0 .. 5 \cup (10 .. MEMORY_SIZE)
        /\ ~(n < 10) /\ ~(D - n - Header - 6 \in 0 .. 5 /\ OnTheEdge(f))
    <3>1. D - n - Header \in Nat
      BY <1>1, <1>3, <1>7, <2>1 DEF Wraps, Header
    <3>2. 2 * (D - n - Header) < W
      <4>1. U + D <= MEMORY_SIZE
        BY <1>5, <1>8
      <4>2. D - n - Header <= MEMORY_SIZE - 5
        BY <2>1, <4>1 DEF Header
      <4> QED BY <2>1, <3>1, <4>2, SmallMemory DEF Header
    <3>3. rest = D - n - Header
      BY <1>3, <1>7, <3>1, <3>2, SignedSmall
    <3> QED BY <1>3, <3>3
  <2>3. U + D <= MEMORY_SIZE /\ L <= U /\ (U > 0 => L > 0)
    BY <1>5, <1>6, <1>7, <1>8
  <2>4. D - n - Header - 6 = D - n - 11
    BY <2>1 DEF Header
  <2> QED BY ONLY <2>1, <2>2, <2>3, <2>4, D \in Nat
<1>10. Memory \in Memories /\ Memory.ok /\ Memory.m = memoria
  BY MemoryIs DEF BytesOK, Memory
<1>11. Tidy(memoria, live, U, L, S)
  BY <1>4, <1>7
<1>12. /\ r.s \in Memories /\ r.s.ok /\ r.end = "up" /\ r.ptr = U + 5
       /\ Around(r.s.m, memoria, U, U + D - 1)
       /\ SizeAt(r.s.m, U) = n /\ ~LibreAt(r.s.m, U) /\ Spread(r.s.m, U, D, n)
  <2>1. PICK s : s = Memory
    OBVIOUS
  <2>2. /\ s \in Memories /\ s.ok /\ f \in PageLists /\ u \in Nat /\ U \in Nat /\ D \in Nat
        /\ Stretch(f, u, U, D) /\ U + D <= MEMORY_SIZE /\ n \in Nat /\ n >= 10 /\ n + 11 <= D
        /\ \A a \in Arena : a >= U => s.m[a] = 0
        /\ D - n - 11 >= 10 \/ (D - n - 11 <= 5 /\ ~OnTheEdge(f))
        /\ r = FirstBlock(s, f, n)
    BY <1>1, <1>5, <1>8, <1>9, <1>10, <1>11, <2>1, Zenon DEF Tidy
  <2>3. WellMade(r, s, U, D, n)
    BY ONLY <2>2, FirstBlockMakes
  <2> QED BY <1>10, <2>1, <2>3 DEF WellMade
<1>13. memoria' = r.s.m /\ status' = "up" /\ live' = live \cup {NewBlock(U + 5, n)}
  <2>1. memoria' = r.s.m /\ status' = "up"
    BY <1>2, <1>12, LeavesWell
  <2>2. live' = Given(live, U + 5, n)
    BY <1>2, <1>12, GrantedIs
  <2>3. U + 5 \in Nat /\ U + 5 < MEMORY_SIZE
    BY <1>9
  <2> QED BY <2>1, <2>2, <2>3, GivenBlock
<1>14. \E T : Tidy(memoria', live', U + D, IF U = 0 THEN D ELSE L, T)
  <2>1. PICK m, x, lv, V, K : /\ m = memoria /\ x = r.s.m /\ lv = live /\ V = U + D
                              /\ K = IF U = 0 THEN D ELSE L
    OBVIOUS
  <2>2. /\ m \in [Arena -> Bytes] /\ x \in [Arena -> Bytes] /\ lv \in SUBSET Blocks
        /\ U \in Nat /\ L \in Nat /\ L <= U /\ (U > 0 => L > 0) /\ Tidy(m, lv, U, L, S)
        /\ D \in Nat /\ U + D <= MEMORY_SIZE /\ n \in Nat /\ n + 11 <= D
        /\ Around(x, m, U, U + D - 1) /\ SizeAt(x, U) = n /\ ~LibreAt(x, U) /\ Spread(x, U, D, n)
        /\ V \in Nat /\ V = U + D /\ K \in Nat /\ K = IF U = 0 THEN D ELSE L
    <3>1. m \in [Arena -> Bytes] /\ x \in [Arena -> Bytes] /\ lv \in SUBSET Blocks
      BY <1>12, <2>1 DEF BytesOK, Memories
    <3>2. V \in Nat /\ K \in Nat
      BY ONLY <2>1, U \in Nat, D \in Nat, L \in Nat
    <3> QED BY <1>9, <1>11, <1>12, <2>1, <3>1, <3>2, Zenon
  <2>3. \E T : Tidy(x, lv \cup {NewBlock(U + 5, n)}, V, K, T)
    BY ONLY <2>2, NewSegmentTidy
  <2> QED BY <1>13, <2>1, <2>3
<1>15. \E u2, k2 : Held(u2, k2)' /\ \E T : Tidy(memoria', live', u2 * PAGE_SIZE, k2 * PAGE_SIZE, T)
  <2>1. PICK u2, k2 : u2 = u + j /\ k2 = IF u = 0 THEN j ELSE k
    OBVIOUS
  <2>2. Held(u2, k2)'
    BY <1>5, <2>1
  <2>3. \E T : Tidy(memoria', live', u2 * PAGE_SIZE, k2 * PAGE_SIZE, T)
    BY <1>8, <1>14, <2>1
  <2> QED BY <2>2, <2>3
<1> QED BY <1>13, <1>15, Zenon DEF Clean

\* The list of a step that only registers a process, or adds an empty segment.
LEMMA RegisteredList ==
  ASSUME Safe, NEW p \in Pids, NEW l, l = procesar_id(p)
  PROVE  \A i \in DOMAIN l : \/ i \in DOMAIN lista_procesos /\ l[i] = lista_procesos[i]
                             \/ l[i].segments = <<>>
                             \/ l[i].segments = << <<>> >>
<1>1. /\ \A i \in DOMAIN lista_procesos : l[i] = lista_procesos[i]
      /\ \A i \in DOMAIN l : i \notin DOMAIN lista_procesos => l[i].segments = <<>>
  BY Registered DEF Safe
<1> QED BY <1>1, Zenon

LEMMA EmptySegmentList ==
  ASSUME Safe, NEW p \in Pids, Segments(p) = <<>>, NEW l, l = WithSegment(p, <<>>)
  PROVE  \A i \in DOMAIN l : \/ i \in DOMAIN lista_procesos /\ l[i] = lista_procesos[i]
                             \/ l[i].segments = <<>>
                             \/ l[i].segments = << <<>> >>
<1>1. TypeOK /\ OneSegmentEach /\ <<>> \in PageLists
  BY DEF Safe, PageLists
<1>2. \E at \in DOMAIN l :
        /\ l[at].segments = << <<>> >>
        /\ \A i \in DOMAIN l : i # at => i \in DOMAIN lista_procesos /\ l[i] = lista_procesos[i]
  <2>1. LET x == WithSegment(p, <<>>)
        IN \E at \in DOMAIN x :
             /\ x[at].segments = << <<>> >>
             /\ \A i \in DOMAIN x : i # at => i \in DOMAIN lista_procesos /\ x[i] = lista_procesos[i]
    BY <1>1, SegmentAdded
  <2> QED BY <2>1, Zenon
<1> QED BY <1>2, Zenon

LEMMA CleanMallocNone ==
  ASSUME Safe, Clean, NEW p \in Pids, NEW n \in Sizes, HeapMallocNone(p, n)
  PROVE  Clean'
<1>1. /\ Segments(p) = <<>> /\ lista_procesos' = WithSegment(p, <<>>) /\ status = "up"
      /\ UNCHANGED <<frames, status, memoria, strayed>> /\ Granted(W - 1, n)
  BY Zenon DEF HeapMallocNone, MallocNone
<1>2. live' = live
  BY <1>1, GrantedIs, GivenNothing
<1> QED BY <1>1, <1>2, EmptySegmentList, CleanKept DEF frames

\* The segment that is searched, and what is known of it when it begins at frame 0.
LEMMA SearchedSegment ==
  ASSUME Safe, NEW u, NEW k, Held(u, k), NEW p \in Pids, Segments(p) # <<>>, NEW seg,
         seg = Segments(p)[Len(Segments(p))], seg # <<>>, seg[1] = 0
  PROVE  seg \in PageLists /\ Run(seg, 0) /\ Len(seg) = k /\ k \in Nat \ {0}
<1>1. PICK l, at :
        /\ l \in Seq(Processes) /\ l = procesar_id(p) /\ at = Position(l, p) /\ at \in 1 .. Len(l)
        /\ \A i \in DOMAIN lista_procesos : l[i] = lista_procesos[i]
        /\ \A i \in DOMAIN l : i \notin DOMAIN lista_procesos => l[i].segments = <<>>
  <2>1. LET l == procesar_id(p)
            at == Position(l, p)
        IN /\ l \in Seq(Processes) /\ at \in DOMAIN l
           /\ \A i \in DOMAIN lista_procesos : l[i] = lista_procesos[i]
           /\ \A i \in DOMAIN l : i \notin DOMAIN lista_procesos => l[i].segments = <<>>
    BY Registered DEF Safe
  <2> QED BY <2>1
<1>2. Segments(p) = l[at].segments
  BY <1>1, Zenon DEF Segments
<1>3. at \in DOMAIN lista_procesos /\ l[at] = lista_procesos[at]
  BY <1>1, <1>2
<1> DEFINE q == lista_procesos[at].segments
           s == Len(q)
<1>4. q \in Seq(PageLists) /\ q # <<>> /\ seg = q[s]
  <2>1. l[at] \in Processes
    BY <1>1, ElementOfSeq
  <2>2. l[at].segments \in Seq(PageLists)
    BY <2>1 DEF Processes
  <2> QED BY <1>2, <1>3, <2>2
<1>5. s \in DOMAIN q /\ seg \in PageLists
  <2> HIDE DEF q
  <2> QED BY <1>4, EmptySeq, LenProperties, ElementOfSeq
<1>6. Len(seg) = k
  BY <1>3, <1>4, <1>5, Zenon DEF Held
<1>7. \A i \in 1 .. Len(seg) - 1 : seg[i + 1] = seg[i] + 1
  BY <1>3, <1>4, <1>5 DEF Safe, SegmentsContiguous
<1>8. Run(seg, seg[1]) /\ Len(seg) \in Nat \ {0}
  BY <1>5, <1>7, RunOf
<1> QED BY <1>5, <1>6, <1>8

LEMMA CleanMallocAgain ==
  ASSUME Safe, BytesOK, Clean, NEW p \in Pids, NEW n \in Sizes, HeapMallocAgain(p, n)
  PROVE  Clean'
<1> SUFFICES ASSUME strayed' = {} PROVE Clean'
  BY DEF Clean
<1>1. PICK seg, r : seg = Segments(p)[Len(Segments(p))] /\ r = Carve(Memory, seg, n)
  OBVIOUS
<1>2. MallocAgain(p) /\ IF seg = <<>> THEN Blames("empty")
                        ELSE /\ Leaves(r.s, r.end)
                             /\ Granted(r.ptr, n)
                             /\ Strays(When(Tight(Memory, seg, n), "tight") \cup When(seg[1] # 0, "elsewhere")
                                        \cup When(OnTheEdge(seg) /\ GoesPast(Memory, seg, n), "edge"))
  BY <1>1, Zenon DEF HeapMallocAgain
<1>3. seg # <<>>
  <2>1. ASSUME Blames("empty") PROVE FALSE
    BY <2>1 DEF Blames, Strays
  <2> QED BY <1>2, <2>1, Zenon
<1>4. /\ Leaves(r.s, r.end) /\ Granted(r.ptr, n) /\ strayed = {}
      /\ ~Tight(Memory, seg, n) /\ seg[1] = 0 /\ ~(OnTheEdge(seg) /\ GoesPast(Memory, seg, n))
  <2> DEFINE a == When(Tight(Memory, seg, n), "tight")
             b == When(seg[1] # 0, "elsewhere")
             c == When(OnTheEdge(seg) /\ GoesPast(Memory, seg, n), "edge")
  <2>0. Leaves(r.s, r.end) /\ Granted(r.ptr, n) /\ Strays(a \cup b \cup c)
    BY <1>2, <1>3, Zenon
  <2>1. strayed = {} /\ a \cup b \cup c = {}
    BY <2>0, Unstrayed
  <2>2. a = {} /\ b = {} /\ c = {}
    <3> HIDE DEF a, b, c
    <3> QED BY <2>1
  <2> QED BY <2>0, <2>1, <2>2, UnstrayedWhen, Zenon
<1>5. PICK u, k, S : Held(u, k) /\ Tidy(memoria, live, u * PAGE_SIZE, k * PAGE_SIZE, S)
  BY <1>4 DEF Clean
<1>6. /\ seg \in PageLists /\ Run(seg, 0) /\ Len(seg) = k /\ k \in Nat \ {0}
      /\ UNCHANGED <<lista_procesos, frame_libre>>
  <2>1. Segments(p) # <<>> /\ UNCHANGED <<lista_procesos, frame_libre>>
    BY <1>2, Zenon DEF MallocAgain, frames
  <2> QED BY <1>1, <1>3, <1>4, <1>5, <2>1, SearchedSegment
<1>7. PICK U \in Nat, L \in Nat :
        /\ U = u * PAGE_SIZE /\ L = k * PAGE_SIZE /\ L = Len(seg) * PAGE_SIZE
        /\ L > 0 /\ L <= U /\ U <= MEMORY_SIZE
  <2>1. /\ u * PAGE_SIZE \in Nat /\ k * PAGE_SIZE \in Nat
        /\ k * PAGE_SIZE <= u * PAGE_SIZE /\ u * PAGE_SIZE <= MEMORY_SIZE
    BY <1>5, HeldNumbers
  <2>2. k * PAGE_SIZE > 0
    BY <1>6, MuseAssumption
  <2> QED BY <1>6, <2>1, <2>2
<1>8. /\ r.s.ok /\ r.end = "up" /\ \E T : Tidy(r.s.m, Given(live, r.ptr, n), U, L, T)
  <2>1. PICK s, lv : s = Memory /\ lv = live
    OBVIOUS
  <2>2. /\ s \in Memories /\ s.ok /\ seg \in PageLists /\ Run(seg, 0) /\ L \in Nat
        /\ L = Len(seg) * PAGE_SIZE /\ L > 0 /\ U \in Nat /\ L <= U /\ U <= MEMORY_SIZE
        /\ lv \in SUBSET Blocks /\ Tidy(s.m, lv, U, L, S) /\ n \in Nat
        /\ ~Tight(s, seg, n) /\ ~(OnTheEdge(seg) /\ GoesPast(s, seg, n))
        /\ r = Carve(s, seg, n)
    <3>1. s \in Memories /\ s.ok /\ s.m = memoria /\ lv \in SUBSET Blocks
      BY <2>1, MemoryIs DEF BytesOK, Memory
    <3>2. n \in Nat
      BY MuseAssumption
    <3>3. Tidy(s.m, lv, U, L, S)
      BY <1>5, <1>7, <2>1, <3>1
    <3> QED BY <1>1, <1>4, <1>6, <1>7, <2>1, <3>1, <3>2, <3>3, Zenon
  <2>3. r.s.ok /\ r.end = "up" /\ \E T : Tidy(r.s.m, Given(lv, r.ptr, n), U, L, T)
    BY ONLY <2>2, CarveTidy, ZenonT(60)
  <2> QED BY <2>1, <2>3
<1>9. memoria' = r.s.m /\ status' = "up" /\ live' = Given(live, r.ptr, n)
  BY <1>4, <1>8, LeavesWell, GrantedIs
<1>10. Held(u, k)'
  BY <1>5, <1>6, HeldKept
<1>11. \E T : Tidy(memoria', live', u * PAGE_SIZE, k * PAGE_SIZE, T)
  BY <1>7, <1>8, <1>9
<1> QED BY <1>9, <1>10, <1>11, Zenon DEF Clean

\* What a step needs of a block in use.
LEMMA BlockInside ==
  ASSUME BytesOK, NEW b \in live, NEW u, NEW k, Held(u, k), NEW S,
         Tidy(memoria, live, u * PAGE_SIZE, k * PAGE_SIZE, S)
  PROVE  /\ b.at \in Nat /\ b.size \in Nat /\ b.at >= 5 /\ b.at + b.size + 6 <= MEMORY_SIZE
         /\ ~LibreAt(memoria, b.at - 5) /\ b.at % W # W - 1 /\ b.at < W - 1
<1>1. PICK U \in Nat : U = u * PAGE_SIZE /\ U <= MEMORY_SIZE
  BY HeldNumbers
<1>2. b \in Blocks /\ Sound(memoria, b, U, k * PAGE_SIZE, S)
  BY <1>1 DEF Tidy, BytesOK
<1>3. /\ b.at \in Nat /\ b.size \in Nat /\ b.at >= 5 /\ b.at + b.size + 6 <= U
      /\ ~LibreAt(memoria, b.at - 5)
  BY <1>2, BlockParts, Zenon DEF Sound
<1>4. MEMORY_SIZE \in Nat /\ W \in Nat \ {0} /\ (MEMORY_SIZE > 0 => 2 * MEMORY_SIZE < W)
  BY SmallMemory
<1>5. PICK at \in Nat, n \in Nat : at = b.at /\ n = b.size
  BY <1>3
<1>6. at + n + 6 <= MEMORY_SIZE /\ at < W - 1 /\ at % W = at
  <2>1. at + n + 6 <= U /\ U <= MEMORY_SIZE /\ at \in Nat /\ n \in Nat /\ U \in Nat
    BY <1>1, <1>3, <1>5, Zenon
  <2>2. at + n + 6 <= MEMORY_SIZE /\ at < W - 1 /\ at < W
    BY ONLY <1>4, <2>1
  <2>3. at % W = at
    BY ONLY <1>4, <2>1, <2>2
  <2> QED BY <2>2, <2>3
<1> QED BY <1>3, <1>4, <1>5, <1>6

\* The address that no block has.
LEMMA NowhereIs ==
  ASSUME NEW at \in {b.at : b \in live} \cup {W - 1}, Nowhere(at) = {}
  PROVE  \E b \in live : b.at = at
<1>1. (W - 1) % W = W - 1
  BY MuseAssumption
<1>2. at % W # W - 1
  BY UnstrayedWhen, Zenon DEF Nowhere
<1> QED BY <1>1, <1>2

LEMMA CleanGet ==
  ASSUME Safe, BytesOK, Clean, NEW p \in Pids, NEW at \in {b.at : b \in live} \cup {W - 1},
         HeapGet(p, at)
  PROVE  Clean'
<1> SUFFICES ASSUME strayed' = {} PROVE Clean'
  BY DEF Clean
<1>1. /\ Access(p) /\ status' = IF Inside(at, POINTER) THEN "up" ELSE "wild"
      /\ UNCHANGED <<memoria, live, asked>>
      /\ Strays(Nowhere(at) \cup When(\E b \in live : b.at = at /\ b.size < POINTER, "brief"))
  BY Zenon DEF HeapGet
<1>2. strayed = {} /\ Nowhere(at) = {} /\ ~\E b \in live : b.at = at /\ b.size < POINTER
  <2> DEFINE a == Nowhere(at)
             c == When(\E b \in live : b.at = at /\ b.size < POINTER, "brief")
  <2>1. strayed = {} /\ a \cup c = {}
    BY <1>1, Unstrayed
  <2>2. a = {} /\ c = {}
    <3> HIDE DEF a, c
    <3> QED BY <2>1
  <2> QED BY <2>1, <2>2, UnstrayedWhen, Zenon
<1>3. PICK u, k, S : Held(u, k) /\ Tidy(memoria, live, u * PAGE_SIZE, k * PAGE_SIZE, S)
  BY <1>2 DEF Clean
<1>4. PICK b \in live : b.at = at
  BY <1>2, NowhereIs
<1>5. /\ b.at \in Nat /\ b.size \in Nat /\ b.at >= 5 /\ b.at + b.size + 6 <= MEMORY_SIZE
  BY <1>3, BlockInside
<1>6. Inside(at, POINTER)
  <2>1. POINTER \in Nat /\ MEMORY_SIZE \in Nat
    BY HeapAssumption, MuseAssumption
  <2>2. POINTER <= b.size
    BY <1>2, <1>4, <1>5, <2>1
  <2>3. PICK n \in Nat, a \in Nat : n = b.size /\ a = at
    BY <1>4, <1>5
  <2>4. a + POINTER <= MEMORY_SIZE /\ a >= 0
    BY <1>4, <1>5, <2>1, <2>2, <2>3
  <2> QED BY <2>3, <2>4 DEF Inside
<1>7. status' = "up" /\ lista_procesos' = procesar_id(p) /\ UNCHANGED frame_libre
  BY <1>1, <1>6 DEF Access, frames
<1> QED BY <1>1, <1>2, <1>7, RegisteredList, CleanKept

LEMMA CleanFree ==
  ASSUME BytesOK, Clean, NEW p, NEW at \in {b.at : b \in live} \cup {W - 1},
         HeapFree(p, at)
  PROVE  Clean'
<1> SUFFICES ASSUME strayed' = {} PROVE Clean'
  BY DEF Clean
<1> DEFINE size == SizeAt(memoria, at - Header)
           s1 == Zeroed(Memory, at + Header, size)
<1>1. ASSUME Strays({"freed"}) PROVE FALSE
  BY <1>1 DEF Strays
<1>2. UNCHANGED <<lista_procesos, frame_libre>>
  BY DEF HeapFree, Memfree, frames
<1>3. Inside(at - Header, POINTER)
  <2> SUFFICES ASSUME ~Inside(at - Header, POINTER) PROVE FALSE
    OBVIOUS
  <2>1. Strays(Nowhere(at))
    BY Zenon DEF HeapFree
  <2>2. strayed = {} /\ Nowhere(at) = {}
    BY <2>1, Unstrayed
  <2>3. PICK u, k, S : Held(u, k) /\ Tidy(memoria, live, u * PAGE_SIZE, k * PAGE_SIZE, S)
    BY <2>2 DEF Clean
  <2>4. PICK b \in live : b.at = at
    BY <2>2, NowhereIs
  <2>5. at \in Nat /\ at >= 5 /\ at + 6 <= MEMORY_SIZE
    <3>1. /\ b.at \in Nat /\ b.size \in Nat /\ b.at >= 5 /\ b.at + b.size + 6 <= MEMORY_SIZE
          /\ MEMORY_SIZE \in Nat
      BY <2>3, BlockInside, MuseAssumption
    <3>2. PICK a \in Nat, n \in Nat : a = b.at /\ n = b.size
      BY <3>1
    <3>3. a >= 5 /\ a + 6 <= MEMORY_SIZE
      BY <3>1, <3>2
    <3> QED BY <2>4, <3>2, <3>3
  <2>6. Inside(at - Header, POINTER)
    BY <2>5, HeapAssumption, MuseAssumption DEF Inside, Header
  <2> QED BY <2>6
<1>4. PICK libre \in LibreRead(at - Header) :
        IF libre
        THEN status' = "up" /\ UNCHANGED <<memoria, live, strayed>>
        ELSE Strays({"freed"})
  BY <1>3, Zenon DEF HeapFree
<1>5. status' = "up" /\ UNCHANGED <<memoria, live, strayed>>
  BY <1>1, <1>4, Zenon
<1>6. PICK l : l = lista_procesos'
  OBVIOUS
<1>7. \A i \in DOMAIN l : i \in DOMAIN lista_procesos /\ l[i] = lista_procesos[i]
  BY <1>2, <1>6
<1>8. strayed' = {} => strayed = {}
  BY <1>5
<1> QED BY <1>2, <1>5, <1>6, <1>7, <1>8, CleanKept

\* A block whose cells have not changed is as sound as it was.
LEMMA SoundSame ==
  ASSUME NEW m, NEW t, NEW U \in Nat, U <= MEMORY_SIZE, NEW b \in Blocks, NEW L, NEW S,
         Sound(m, b, U, L, S), \A i \in Arena : b.at - 5 <= i /\ i < b.at + b.size => t[i] = m[i]
  PROVE  Sound(t, b, U, L, S)
<1>1. PICK at \in Nat, n \in Nat, l \in Nat : at = b.at /\ n = b.size /\ l = b.len
  BY BlockParts
<1>2. /\ at >= 5 /\ at + n + 6 <= U /\ SizeAt(m, at - 5) = n /\ ~LibreAt(m, at - 5) /\ l <= n
      /\ \A i \in 0 .. l - 1 : m[at + i] = b.byte
      /\ \A i \in Arena : at - 5 <= i /\ i < at + n => t[i] = m[i]
  BY <1>1, Zenon DEF Sound
<1>3. MEMORY_SIZE \in Nat /\ \A i \in Arena : i \in Int
  BY SmallMemory DEF Arena
<1>4. SizeAt(t, at - 5) = n /\ ~LibreAt(t, at - 5)
  <2>1. Inside(at - 5, Header) /\ at - 5 \in Int
    BY <1>2, <1>3 DEF Inside, Header
  <2>2. \A i \in Arena : at - 5 <= i /\ i < (at - 5) + 5 => t[i] = m[i]
    <3> SUFFICES ASSUME NEW i \in Arena, at - 5 <= i, i < (at - 5) + 5 PROVE t[i] = m[i]
      OBVIOUS
    <3>1. i < at + n
      BY <1>2, <1>3
    <3> QED BY <1>2, <3>1
  <2> QED BY <1>2, <2>1, <2>2, SameHeader
<1>5. ASSUME NEW i \in 0 .. l - 1 PROVE t[at + i] = b.byte
  <2>1. at + i \in Arena /\ at - 5 <= at + i /\ at + i < at + n
    BY <1>2, <1>3 DEF Arena
  <2> QED BY <1>2, <2>1
<1> QED BY <1>1, <1>4, <1>5, Zenon DEF Sound

\* The block b after n bytes c were written to it.
Filled(b, n, c) == [b EXCEPT !.len = n, !.byte = c]

\* The blocks after that: the one at the address at is filled.
FilledAt(lv, at, n, c) == {IF d.at = at THEN Filled(d, n, c) ELSE d : d \in lv}

\* Filling a block, no more and no less, keeps the memory tidy.
LEMMA CopyTidy ==
  ASSUME NEW m \in [Arena -> Bytes], NEW t \in [Arena -> Bytes], NEW lv \in SUBSET Blocks,
         NEW U \in Nat, NEW L \in Nat, L <= U, U <= MEMORY_SIZE, NEW S, Tidy(m, lv, U, L, S),
         NEW b \in lv, NEW at \in Nat, at = b.at, NEW n \in Nat, n = b.size, NEW c \in Bytes,
         Around(t, m, at - 5, at + n), SizeAt(t, at - 5) = n, ~LibreAt(t, at - 5),
         \A i \in 0 .. n - 1 : t[at + i] = c
  PROVE  Tidy(t, FilledAt(lv, at, n, c), U, L, S)
<1>1. /\ at >= 5 /\ at + n + 6 <= U /\ SizeAt(m, at - 5) = n /\ MEMORY_SIZE \in Nat
      /\ \/ at - 5 >= L
         \/ /\ at - 5 \in S /\ at - 5 # L - 1
  BY SmallMemory, Zenon DEF Tidy, Sound
<1>2. \A i \in Arena : i \in Int
  BY <1>1 DEF Arena
<1>3. \A i \in Arena : i < at - 5 \/ at + n <= i => t[i] = m[i]
  BY Zenon DEF Around
<1>4. ASSUME NEW d \in lv, d # b
      PROVE  /\ d.at \in Nat /\ d.size \in Nat /\ d.at >= 5 /\ d.at # at
             /\ d.at + d.size <= at - 5 \/ at + n <= d.at - 5
  <2>1. d.at \in Nat /\ d.size \in Nat /\ d.at >= 5
    BY BlockParts, Zenon DEF Tidy, Sound
  <2>2. Separate(d, b)
    BY <1>4 DEF Tidy
  <2>3. d.at + d.size <= at - 5 \/ at + n <= d.at - 5
    BY <2>2 DEF Separate
  <2>4. PICK da \in Nat, dn \in Nat : da = d.at /\ dn = d.size
    BY <2>1
  <2>5. da # at
    BY <2>1, <2>3, <2>4
  <2> QED BY <2>1, <2>3, <2>4, <2>5
<1>5. L > 0 => /\ Chain(t, 0, L, S) /\ t[L - 1] = 0
  <2> SUFFICES ASSUME L > 0 PROVE Chain(t, 0, L, S) /\ t[L - 1] = 0
    OBVIOUS
  <2>1. Chain(m, 0, L, S) /\ m[L - 1] = 0 /\ L - 1 \in S /\ S \subseteq 0 .. L - 1
    BY DEF Tidy, Chain
  <2>2. at - 5 < L => /\ at - 5 \in S /\ at - 5 # L - 1 /\ After(m, 0, at - 5) = at + n
    <3> SUFFICES ASSUME at - 5 < L
                 PROVE  at - 5 \in S /\ at - 5 # L - 1 /\ After(m, 0, at - 5) = at + n
      OBVIOUS
    <3>1. at - 5 \in S /\ at - 5 # L - 1
      BY <1>1
    <3>2. 0 + (at - 5) = at - 5 /\ (at - 5) + 5 + n = at + n
      BY <1>1
    <3> QED BY <1>1, <3>1, <3>2 DEF After
  <2>3. ASSUME NEW x \in S, x # at - 5
        PROVE  /\ x \in Nat
               /\ \/ x # L - 1 /\ x + 5 <= at - 5
                  \/ x = L - 1 /\ x < at - 5
                  \/ at + n <= x
    <3>1. x \in Nat /\ x <= L - 1
      BY <2>1
    <3>2. CASE at - 5 >= L
      <4>1. CASE x # L - 1
        <5>1. /\ x + 5 <= After(m, 0, x) /\ After(m, 0, x) \in 0 .. L - 1
          BY <2>1, <4>1 DEF Chain
        <5> QED BY <1>1, <3>1, <3>2, <4>1, <5>1
      <4>2. CASE x = L - 1
        BY <3>1, <3>2, <4>2
      <4> QED BY <4>1, <4>2
    <3>3. CASE at - 5 < L
      <4>1. /\ x \in Nat /\ L - 1 >= After(m, 0, at - 5)
            /\ \/ x # L - 1 /\ After(m, 0, x) <= at - 5 /\ x + 5 <= After(m, 0, x)
                  /\ After(m, 0, x) \in Nat
               \/ x >= After(m, 0, at - 5)
        BY <2>1, <2>2, <2>3, <3>3, ChainAside
      <4> QED BY <1>1, <2>2, <3>3, <4>1
    <3> QED BY <1>1, <3>2, <3>3
  <2>4. ASSUME NEW x \in S, x # L - 1 PROVE SizeAt(t, 0 + x) = SizeAt(m, 0 + x)
    <3>0. x \in Nat /\ 0 + x = x /\ x + 5 <= L - 1
      <4>1. /\ x + 5 <= After(m, 0, x) /\ After(m, 0, x) \in 0 .. L - 1 /\ x \in 0 .. L - 1
        BY <2>1, <2>4 DEF Chain
      <4> QED BY <4>1
    <3>1. CASE x = at - 5
      BY <1>1, <3>0, <3>1
    <3>2. CASE x # at - 5
      <4>1. x + 5 <= at - 5 \/ at + n <= x
        BY <2>3, <2>4, <3>2
      <4>2. \A i \in Arena : x <= i /\ i < x + 5 => t[i] = m[i]
        <5> SUFFICES ASSUME NEW i \in Arena, x <= i, i < x + 5 PROVE t[i] = m[i]
          OBVIOUS
        <5>1. i < at - 5 \/ at + n <= i
          BY <1>2, <3>0, <4>1
        <5> QED BY <1>3, <5>1
      <4>3. Inside(x, Header) /\ x \in Int
        BY <1>1, <3>0 DEF Inside, Header
      <4> QED BY <3>0, <4>2, <4>3, SameHeader
    <3> QED BY <3>1, <3>2
  <2>5. t[L - 1] = m[L - 1]
    <3>1. L - 1 \in Arena /\ L - 1 # at - 5
      <4>1. L - 1 \in Arena
        BY <1>1 DEF Arena
      <4> QED BY <1>1, <2>2, <4>1
    <3>2. L - 1 < at - 5 \/ at + n <= L - 1
      BY <2>1, <2>3, <3>1
    <3> QED BY <1>3, <3>1, <3>2
  <2> QED BY <2>1, <2>4, <2>5, ChainKept
<1>6. \A a \in Arena : a >= U => t[a] = 0
  <2> SUFFICES ASSUME NEW a \in Arena, a >= U PROVE t[a] = 0
    OBVIOUS
  <2>1. at + n <= a
    BY <1>1, <1>2
  <2> QED BY <1>3, <2>1 DEF Tidy
<1> DEFINE New(d) == IF d.at = at THEN Filled(d, n, c) ELSE d
<1>7. ASSUME NEW d \in lv PROVE New(d).at = d.at /\ New(d).size = d.size
  <2>1. d = [at |-> d.at, size |-> d.size, len |-> d.len, byte |-> d.byte]
    BY DEF Blocks
  <2>2. Filled(d, n, c).at = d.at /\ Filled(d, n, c).size = d.size
    BY <2>1 DEF Filled
  <2> QED BY <2>2
<1>8. ASSUME NEW d \in lv PROVE Sound(t, New(d), U, L, S)
  <2>1. CASE d = b
    <3>1. b = [at |-> b.at, size |-> b.size, len |-> b.len, byte |-> b.byte]
      BY DEF Blocks
    <3>2. PICK e : e = Filled(b, n, c)
      OBVIOUS
    <3>3. e.at = at /\ e.size = n /\ e.len = n /\ e.byte = c
      BY <3>1, <3>2 DEF Filled
    <3>4. Sound(t, e, U, L, S)
      BY <1>1, <3>3 DEF Sound
    <3> QED BY <2>1, <3>2, <3>4
  <2>2. CASE d # b
    <3>1. /\ d.at \in Nat /\ d.size \in Nat /\ d.at >= 5 /\ d.at # at
          /\ d.at + d.size <= at - 5 \/ at + n <= d.at - 5
      BY <1>4, <2>2
    <3>2. \A i \in Arena : d.at - 5 <= i /\ i < d.at + d.size => t[i] = m[i]
      <4> SUFFICES ASSUME NEW i \in Arena, d.at - 5 <= i, i < d.at + d.size PROVE t[i] = m[i]
        OBVIOUS
      <4>1. PICK da \in Nat, dn \in Nat : da = d.at /\ dn = d.size
        BY <3>1
      <4>2. i < at - 5 \/ at + n <= i
        BY <1>2, <3>1, <4>1
      <4> QED BY <1>3, <4>2
    <3>3. d \in Blocks /\ Sound(m, d, U, L, S)
      BY DEF Tidy
    <3>4. Sound(t, d, U, L, S)
      BY <3>2, <3>3, SoundSame
    <3> QED BY <3>1, <3>4
  <2> QED BY <2>1, <2>2
<1>9. ASSUME NEW d \in lv, NEW e \in lv, New(d) # New(e) PROVE Separate(New(d), New(e))
  <2>1. Separate(d, e)
    BY <1>9 DEF Tidy
  <2>2. New(d).at = d.at /\ New(d).size = d.size /\ New(e).at = e.at /\ New(e).size = e.size
    BY <1>7
  <2> HIDE DEF New
  <2> QED BY <2>1, <2>2 DEF Separate
<1>10. L < U => \E d \in lv : New(d).at = L + 5
  BY <1>7, Zenon DEF Tidy
<1> HIDE DEF New
<1>11. PICK new : new = {New(d) : d \in lv}
  OBVIOUS
<1>12. /\ L < U => \E d \in new : d.at = L + 5
       /\ \A d \in new : Sound(t, d, U, L, S)
       /\ \A d, e \in new : d # e => Separate(d, e)
  BY <1>8, <1>9, <1>10, <1>11
<1>13. Tidy(t, new, U, L, S)
  BY <1>5, <1>6, <1>12, Zenon DEF Tidy
<1>14. new = FilledAt(lv, at, n, c)
  BY <1>11, Zenon DEF New, FilledAt
<1> QED BY <1>13, <1>14

\* What muse_cpy makes of a block in use: its header again, and its n bytes.
Copied(s, at, n, c) == Fill(Put(s, at - Header, n, FALSE), at, n, c)
CopiedWell(t, s, at, n, c) ==
  /\ t \in Memories /\ t.ok /\ Around(t.m, s.m, at - 5, at + n)
  /\ SizeAt(t.m, at - 5) = n /\ ~LibreAt(t.m, at - 5)
  /\ \A i \in 0 .. n - 1 : t.m[at + i] = c

LEMMA CopyMakes ==
  ASSUME NEW s \in Memories, s.ok, NEW at \in Nat, at >= 5, NEW n \in Nat,
         at + n + 6 <= MEMORY_SIZE, NEW c \in Bytes, NEW t, t = Copied(s, at, n, c)
  PROVE  CopiedWell(t, s, at, n, c)
<1> DEFINE one == Put(s, at - Header, n, FALSE)
<1>1. /\ MEMORY_SIZE \in Nat /\ 2 * MEMORY_SIZE <= W /\ n \in 0 .. W - 1 /\ n \in Int
      /\ at - Header = at - 5 /\ at - 5 \in Int /\ Inside(at - 5, Header) /\ Inside(at, n)
      /\ \A i \in Arena : i \in Int
  BY SmallMemory DEF Inside, Header, Arena
<1>2. /\ one \in Memories /\ one.ok
      /\ \A i \in Arena : i < at - 5 \/ at <= i => one.m[i] = s.m[i]
      /\ SizeAt(one.m, at - 5) = n /\ ~LibreAt(one.m, at - 5)
  <2>1. Headed(s, one, at - 5, n, FALSE)
    <3>1. Headed(s, Put(s, at - 5, n, FALSE), at - 5, n, FALSE)
      BY <1>1, PutReads
    <3> QED BY <1>1, <3>1
  <2>2. (at - 5) + 5 = at
    OBVIOUS
  <2> HIDE DEF one
  <2> QED BY <1>1, <2>1, <2>2 DEF Headed
<1>3. /\ t \in Memories /\ t.ok
      /\ \A i \in Arena : t.m[i] = IF at <= i /\ i < at + n THEN c ELSE one.m[i]
  <2>1. /\ t \in Memories
        /\ t.ok = (one.ok /\ Inside(at, n))
        /\ t.ok => \A i \in Arena : t.m[i] = IF at <= i /\ i < at + n THEN c ELSE one.m[i]
    <3>1. t = Fill(one, at, n, c)
      BY DEF Copied
    <3> HIDE DEF one
    <3> QED BY <1>2, <3>1, FilledIs
  <2> HIDE DEF one
  <2> QED BY <1>1, <1>2, <2>1
<1> HIDE DEF one
<1>4. Around(t.m, s.m, at - 5, at + n)
  <2> SUFFICES ASSUME NEW i \in Arena, i < at - 5 \/ at + n <= i PROVE t.m[i] = s.m[i]
    BY DEF Around
  <2>1. ~(at <= i /\ i < at + n) /\ (i < at - 5 \/ at <= i)
    BY <1>1
  <2> QED BY <1>2, <1>3, <2>1
<1>5. SizeAt(t.m, at - 5) = n /\ ~LibreAt(t.m, at - 5)
  <2>1. \A i \in Arena : at - 5 <= i /\ i < (at - 5) + 5 => t.m[i] = one.m[i]
    BY <1>1, <1>3
  <2> QED BY <1>1, <1>2, <2>1, SameHeader
<1>6. ASSUME NEW i \in 0 .. n - 1 PROVE t.m[at + i] = c
  <2>1. at + i \in Arena /\ at <= at + i /\ at + i < at + n
    BY <1>1 DEF Arena
  <2> QED BY <1>3, <2>1
<1> QED BY <1>3, <1>4, <1>5, <1>6 DEF CopiedWell

LEMMA CleanCopy ==
  ASSUME Safe, BytesOK, Clean, NEW p \in Pids, NEW at \in {b.at : b \in live} \cup {W - 1},
         NEW n \in Lengths, NEW c \in Contents, HeapCopy(p, at, n, c)
  PROVE  Clean'
<1> SUFFICES ASSUME strayed' = {} PROVE Clean'
  BY DEF Clean
<1>1. PICK s : s = Written(Put(Memory, at - Header, n, FALSE), at, n, LAMBDA i : c)
  OBVIOUS
<1> DEFINE silent == Inside(at - Header, Header) /\ LibreAt(memoria, at - Header)
<1>2. /\ Access(p)
      /\ IF silent THEN status' = "up" /\ UNCHANGED memoria ELSE Leaves(s, "up")
      /\ live' = IF silent THEN live
                 ELSE {IF d.at = at THEN [d EXCEPT !.len = n, !.byte = c] ELSE d : d \in live}
      /\ Strays(Nowhere(at) \cup When(\E d \in live : d.at = at /\ d.size # n, "partial"))
  BY <1>1, Zenon DEF HeapCopy
<1>3. strayed = {} /\ Nowhere(at) = {} /\ ~\E d \in live : d.at = at /\ d.size # n
  <2> DEFINE a == Nowhere(at)
             e == When(\E d \in live : d.at = at /\ d.size # n, "partial")
  <2>1. strayed = {} /\ a \cup e = {}
    BY <1>2, Unstrayed
  <2>2. a = {} /\ e = {}
    <3> HIDE DEF a, e
    <3> QED BY <2>1
  <2> QED BY <2>1, <2>2, UnstrayedWhen, Zenon
<1>4. PICK u, k, S : Held(u, k) /\ Tidy(memoria, live, u * PAGE_SIZE, k * PAGE_SIZE, S)
  BY <1>3 DEF Clean
<1>5. PICK b \in live : b.at = at /\ b.size = n
  BY <1>3, NowhereIs
<1>6. /\ at \in Nat /\ n \in Nat /\ at >= 5 /\ at + n + 6 <= MEMORY_SIZE
      /\ ~LibreAt(memoria, at - 5) /\ at - Header = at - 5
  BY <1>4, <1>5, BlockInside DEF Header
<1>7. c \in Bytes /\ Memory \in Memories /\ Memory.ok /\ Memory.m = memoria
  BY HeapAssumption, MemoryIs DEF BytesOK, Bytes, Memory
<1>8. /\ s \in Memories /\ s.ok /\ Around(s.m, memoria, at - 5, at + n)
      /\ SizeAt(s.m, at - 5) = n /\ ~LibreAt(s.m, at - 5)
      /\ \A i \in 0 .. n - 1 : s.m[at + i] = c
  <2>1. PICK z : z = Memory
    OBVIOUS
  <2>2. /\ z \in Memories /\ z.ok /\ at \in Nat /\ at >= 5 /\ n \in Nat
        /\ at + n + 6 <= MEMORY_SIZE /\ c \in Bytes
    BY <1>6, <1>7, <2>1
  <2>3. s = Copied(z, at, n, c)
    BY <1>1, <2>1, Zenon DEF Copied, Fill
  <2>4. CopiedWell(s, z, at, n, c)
    BY ONLY <2>2, <2>3, CopyMakes
  <2> QED BY <1>7, <2>1, <2>4 DEF CopiedWell
<1>9. ~silent
  BY <1>6
<1> HIDE DEF silent
<1>10. /\ memoria' = s.m /\ status' = "up"
       /\ live' = FilledAt(live, at, n, c)
  <2>1. Leaves(s, "up")
    BY <1>2, <1>9
  <2>2. live' = {IF d.at = at THEN [d EXCEPT !.len = n, !.byte = c] ELSE d : d \in live}
    BY <1>2, <1>9
  <2> QED BY <1>8, <2>1, <2>2, LeavesWell, Zenon DEF Filled, FilledAt
<1>11. PICK U \in Nat, L \in Nat :
         U = u * PAGE_SIZE /\ L = k * PAGE_SIZE /\ L <= U /\ U <= MEMORY_SIZE
  BY <1>4, HeldNumbers
<1>12. Tidy(memoria', live', U, L, S)
  <2>1. PICK m, t, lv : m = memoria /\ t = s.m /\ lv = live
    OBVIOUS
  <2>2. /\ m \in [Arena -> Bytes] /\ t \in [Arena -> Bytes] /\ lv \in SUBSET Blocks
        /\ U \in Nat /\ L \in Nat /\ L <= U /\ U <= MEMORY_SIZE /\ Tidy(m, lv, U, L, S)
        /\ b \in lv /\ at \in Nat /\ at = b.at /\ n \in Nat /\ n = b.size /\ c \in Bytes
        /\ Around(t, m, at - 5, at + n) /\ SizeAt(t, at - 5) = n /\ ~LibreAt(t, at - 5)
        /\ \A i \in 0 .. n - 1 : t[at + i] = c
    <3>1. m \in [Arena -> Bytes] /\ t \in [Arena -> Bytes] /\ lv \in SUBSET Blocks
      BY <1>8, <2>1 DEF BytesOK, Memories
    <3> QED BY <1>4, <1>5, <1>6, <1>7, <1>8, <1>11, <2>1, <3>1, Zenon
  <2>3. Tidy(t, FilledAt(lv, at, n, c), U, L, S)
    BY ONLY <2>2, CopyTidy
  <2> QED BY <1>10, <2>1, <2>3
<1>13. lista_procesos' = procesar_id(p) /\ UNCHANGED frame_libre
  BY <1>2 DEF Access, frames
<1>14. Held(u, k)'
  BY <1>4, <1>13, RegisteredList, HeldKept
<1>15. \E T : Tidy(memoria', live', u * PAGE_SIZE, k * PAGE_SIZE, T)
  BY <1>11, <1>12
<1> QED BY <1>10, <1>14, <1>15, Zenon DEF Clean
-------------------------------------------------------------------------------
(* The invariant *)

LEMMA CleanInit == HeapInit => Clean
<1> SUFFICES ASSUME HeapInit, strayed = {}
             PROVE  /\ status \in {"up", "exited"}
                    /\ \E u, k : Held(u, k)
                         /\ \E S : Tidy(memoria, live, u * PAGE_SIZE, k * PAGE_SIZE, S)
  BY DEF Clean
<1> DEFINE N == cantidad_paginas_totales
<1>1. N \in Nat /\ MEMORY_SIZE \in Nat /\ PAGE_SIZE \in Nat
  BY PagesTotal, MuseAssumption
<1>2. /\ lista_procesos = <<>> /\ frame_libre = [i \in Frames |-> TRUE] /\ status = "up"
      /\ live = {} /\ \A a \in Arena : memoria[a] = 0
  BY DEF HeapInit, Init
<1>3. FreeFrames = 0 .. N - 1
  BY <1>2 DEF FreeFrames, Frames
<1>4. 0 * PAGE_SIZE = 0
  BY <1>1
<1>5. Held(0, 0)
  <2>1. 0 \in 0 .. N /\ 0 * PAGE_SIZE <= MEMORY_SIZE /\ 0 \in 0 .. 0 /\ ~(0 > 0)
    <3> HIDE DEF N
    <3> QED BY <1>1, <1>4
  <2>2. DOMAIN lista_procesos = {}
    BY <1>2
  <2> QED BY <1>3, <2>1, <2>2, Zenon DEF Held
<1>6. Tidy(memoria, live, 0, 0, {})
  BY <1>2 DEF Tidy
<1> QED BY <1>2, <1>4, <1>5, <1>6

\* The steps that touch neither the arena nor the processes.
LEMMA CleanSame ==
  ASSUME Clean, UNCHANGED <<memoria, live, strayed, lista_procesos, frame_libre>>,
         status' \in {"up", "exited"} \/ UNCHANGED status
  PROVE  Clean'
<1> SUFFICES ASSUME strayed = {} PROVE Clean'
  BY DEF Clean
<1>1. status' \in {"up", "exited"}
  BY DEF Clean
<1>2. PICK l : l = lista_procesos'
  OBVIOUS
<1>3. \A i \in DOMAIN l : i \in DOMAIN lista_procesos /\ l[i] = lista_procesos[i]
  BY <1>2
<1> QED BY <1>1, <1>2, <1>3, CleanKept

LEMMA CleanStep == Safe /\ BytesOK /\ Clean /\ [HeapNext]_heapVars => Clean'
<1> SUFFICES ASSUME Safe, BytesOK, Clean, [HeapNext]_heapVars PROVE Clean'
  OBVIOUS
<1>1. ASSUME NEW p \in Pids, NEW n \in Sizes, HeapMallocWild(p, n) PROVE Clean'
  <2>1. Strays({"wrapped"})
    BY <1>1 DEF HeapMallocWild, Blames
  <2>2. strayed' # {}
    BY <2>1 DEF Strays
  <2> QED BY <2>2 DEF Clean
<1>2. ASSUME NEW p \in Pids, Unknown(p) PROVE Clean'
  <2>1. /\ status' = "up" /\ UNCHANGED <<memoria, live, strayed, lista_procesos, frame_libre>>
    BY <1>2 DEF Unknown, Memfree, client, frames
  <2> QED BY <2>1, CleanSame
<1>3. CASE HeapDisconnect
  <2>1. /\ status' = "exited" /\ UNCHANGED <<memoria, live, strayed, lista_procesos, frame_libre>>
    BY <1>3 DEF HeapDisconnect, Disconnect, client, frames
  <2> QED BY <2>1, CleanSame
<1>4. CASE HeapGone \/ UNCHANGED heapVars
  <2>1. UNCHANGED <<status, memoria, live, strayed, lista_procesos, frame_libre>>
    BY <1>4 DEF HeapGone, Gone, heapVars, vars, client, frames
  <2> QED BY <2>1, CleanSame
<1>5. ASSUME NEW p \in Pids, NEW n \in Sizes,
             \/ HeapMallocFirst(p, n) \/ HeapMallocNone(p, n)
             \/ HeapMallocWild(p, n) \/ HeapMallocAgain(p, n)
      PROVE  Clean'
  BY <1>1, <1>5, CleanMallocFirst, CleanMallocNone, CleanMallocAgain
<1>6. ASSUME NEW p \in Pids, NEW at \in {b.at : b \in live} \cup {W - 1},
             \/ HeapGet(p, at) \/ HeapFree(p, at) \/ Unknown(p)
             \/ \E n \in Lengths, c \in Contents : HeapCopy(p, at, n, c)
      PROVE  Clean'
  <2>1. CASE \E n \in Lengths, c \in Contents : HeapCopy(p, at, n, c)
    <3>1. PICK n \in Lengths, c \in Contents : HeapCopy(p, at, n, c)
      BY <2>1
    <3> QED BY <3>1, CleanCopy
  <2> QED BY <1>2, <1>6, <2>1, CleanGet, CleanFree
<1> QED BY <1>3, <1>4, <1>5, <1>6, Zenon DEF HeapNext

\* Until something strays, every handler keeps the arena tidy: the chain of headers that
\* recorer_segmento_espacio_libre walks, the blocks in it, and zeros after the last page.
THEOREM AlwaysClean == HeapSpec => []Clean
BY CleanInit, CleanStep, TypeInit, TypeStep, PagingSafe, PTL DEF HeapSpec

\* The cells below U are those of the pages that are taken.
LEMMA CellsTaken ==
  ASSUME TypeOK, NEW u, NEW k, Held(u, k), NEW U \in Nat, U = u * PAGE_SIZE, NEW x \in Nat, x < U
  PROVE  x \in SegmentCells
<1> DEFINE N == cantidad_paginas_totales
           f == x \div PAGE_SIZE
           i == x % PAGE_SIZE
<1>1. /\ N \in Nat /\ u \in Nat /\ u <= N /\ FreeFrames = u .. N - 1 /\ PAGE_SIZE \in Nat \ {0}
  BY PagesTotal, MuseAssumption DEF Held
<1>2. f \in Nat /\ i \in 0 .. PAGE_SIZE - 1 /\ x = (PAGE_SIZE * f) + i
  <2>1. x \in Int
    OBVIOUS
  <2>2. /\ x \div PAGE_SIZE \in Int /\ x % PAGE_SIZE \in 0 .. PAGE_SIZE - 1
        /\ x = PAGE_SIZE * (x \div PAGE_SIZE) + (x % PAGE_SIZE)
        /\ x \in Nat => x \div PAGE_SIZE \in Nat
    BY ONLY <1>1, <2>1, Division
  <2> QED BY <2>2
<1> HIDE DEF f, i, N
<1>3. f * PAGE_SIZE = PAGE_SIZE * f /\ PAGE_SIZE * f \in Nat
  BY <1>1, <1>2
<1>4. f < u
  <2> SUFFICES ASSUME f >= u PROVE FALSE
    BY <1>1, <1>2
  <2>1. u * PAGE_SIZE <= f * PAGE_SIZE
    BY <1>1, <1>2, ProductGrows
  <2>2. PICK v \in Nat : v = f * PAGE_SIZE
    BY <1>3
  <2>3. U <= v /\ x = v + i /\ i >= 0 /\ i \in Int
    BY <1>2, <1>3, <2>1, <2>2
  <2> QED BY ONLY <2>3, U \in Nat, v \in Nat, x \in Nat, x < U
<1>5. f \in Frames /\ f \notin FreeFrames
  BY <1>1, <1>2, <1>4 DEF Frames, N
<1>6. f \in {g \in Frames : ~frame_libre[g]} /\ x = f * PAGE_SIZE + i
  BY <1>2, <1>3, <1>5 DEF FreeFrames
<1>7. PICK y, j : y = f /\ j = i
  OBVIOUS
<1>8. y \in {g \in Frames : ~frame_libre[g]} /\ j \in 0 .. PAGE_SIZE - 1 /\ x = y * PAGE_SIZE + j
  BY <1>2, <1>6, <1>7
<1> QED BY ONLY <1>8 DEF SegmentCells

LEMMA CleanApart ==
  ASSUME Safe, BytesOK, Clean, strayed = {}
  PROVE  Apart
<1>1. PICK u, k, S : Held(u, k) /\ Tidy(memoria, live, u * PAGE_SIZE, k * PAGE_SIZE, S)
  BY DEF Clean
<1>2. PICK U \in Nat : U = u * PAGE_SIZE
  BY <1>1, HeldNumbers
<1>3. ASSUME NEW b \in live PROVE /\ b.at \in Nat /\ b.size \in Nat /\ b.at >= 5
                                  /\ b.at + b.size + 6 <= U
  <2>1. b \in Blocks /\ Sound(memoria, b, U, k * PAGE_SIZE, S)
    BY <1>1, <1>2 DEF Tidy, BytesOK
  <2> QED BY <2>1, BlockParts, Zenon DEF Sound
<1>4. ASSUME NEW b \in live, NEW x \in Cells(b) PROVE x \in SegmentCells
  <2>1. PICK at \in Nat, n \in Nat : at = b.at /\ n = b.size /\ at >= 5 /\ at + n + 6 <= U
    BY <1>3
  <2>2. x \in Nat /\ x < U
    BY <2>1 DEF Cells, Header
  <2> QED BY <1>1, <1>2, <2>2, CellsTaken DEF Safe
<1>5. ASSUME NEW b \in live, NEW d \in live, b # d PROVE Cells(b) \cap Cells(d) = {}
  <2>1. Separate(b, d)
    BY <1>1, <1>5 DEF Tidy
  <2>2. PICK at \in Nat, n \in Nat, to \in Nat, m \in Nat :
          at = b.at /\ n = b.size /\ to = d.at /\ m = d.size
    BY <1>3
  <2>3. at + n <= to - 5 \/ to + m <= at - 5
    BY <2>1, <2>2 DEF Separate
  <2>4. (at - 5 .. at + n - 1) \cap (to - 5 .. to + m - 1) = {}
    BY <2>3
  <2> QED BY <2>2, <2>4 DEF Cells, Header
<1> QED BY <1>4, <1>5, Zenon DEF Apart

\* While nothing has strayed, the blocks the clients were given lie, with their headers, in
\* pages that were taken, and no two of them touch, whatever the sizes, pages and processes.
THEOREM BlocksAreApart == HeapSpec => []BlocksApart
<1>1. Safe /\ BytesOK /\ Clean => BlocksApart
  BY CleanApart DEF BlocksApart
<1> QED BY <1>1, AlwaysClean, TypeInit, TypeStep, PagingSafe, PTL DEF HeapSpec

LEMMA CleanBlocks ==
  ASSUME Clean, strayed = {}, NEW b \in live
  PROVE  /\ SizeAt(memoria, b.at - Header) = b.size /\ ~LibreAt(memoria, b.at - Header)
         /\ \A i \in 0 .. b.len - 1 : memoria[b.at + i] = b.byte
<1>1. PICK u, k, S : Tidy(memoria, live, u * PAGE_SIZE, k * PAGE_SIZE, S)
  BY DEF Clean
<1>2. Sound(memoria, b, u * PAGE_SIZE, k * PAGE_SIZE, S)
  BY <1>1 DEF Tidy
<1> QED BY <1>2, Zenon DEF Sound, Header

\* Then the header before a block tells its size and that it is taken, which is what
\* recorer_segmento_espacio_libre goes by.
THEOREM HeadersAreIntact == HeapSpec => []HeadersIntact
<1>1. Clean => HeadersIntact
  BY CleanBlocks DEF HeadersIntact
<1> QED BY <1>1, AlwaysClean, PTL

\* And what muse_cpy wrote is there until it writes again, whatever the server does for
\* others in between.
THEOREM DataIsIntact == HeapSpec => []DataIntact
<1>1. Clean => DataIntact
  BY CleanBlocks DEF DataIntact
<1> QED BY <1>1, AlwaysClean, PTL

\* The server leaves its memory, or turns in a circle, only after one of the things that
\* strayed lists: the list is complete for every size and every page.
THEOREM ServerStaysUp == HeapSpec => []StaysUp
<1>1. Clean => StaysUp
  BY DEF Clean, StaysUp
<1> QED BY <1>1, AlwaysClean, PTL
===============================================================================
