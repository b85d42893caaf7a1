------------------------- MODULE HilolayPreemptProofs -------------------------
(***************************************************************************)
(* Proofs about HilolayPreempt for every size of the table and every bound *)
(* of its counters, with SIGALRM before any statement.  First what no      *)
(* signal can break: the stacks keep a form and every slot that is used    *)
(* exists.  Then, until a signal strays, the invariant: a slot that is not *)
(* free owns the thread of its context, the calls of th_create that are    *)
(* under way have chosen different free slots, and between the statements  *)
(* of the library the ready list is a chain with one thread on its way in  *)
(* or out.                                                                 *)
(***************************************************************************)
EXTENDS HilolayPreempt, TLAPS, SequenceTheorems, FiniteSetTheorems, WellFoundedInduction

-------------------------------------------------------------------------------
(* The form of a stack *)

Base(frames) == frames[Len(frames)]

\* A thread's first frame; a call of th_create, made from that frame; lib_enqueue.
BasePcs == {"user", "free", "unreachable", "drain"}
CreatePcs == {"scan", "makecontext", "write", "yieldnow", "created"}
ListPcs == {"setready", "sethead", "link", "settail", "endlist"}

Shaped(frames) ==
  /\ frames \in Seq(Frames) /\ frames # <<>>
  /\ Base(frames).pc \in BasePcs
  /\ \A i \in 1 .. Len(frames) - 1 : frames[i].pc \notin BasePcs
  /\ \A i \in 1 .. Len(frames) :
       frames[i].pc \in CreatePcs => i = Len(frames) - 1 /\ Base(frames).pc = "user"

\* A th_create that has not made its context.
Creates(f) == f.pc \in {"scan", "makecontext"}
Pending(frames) == Len(frames) >= 2 /\ Creates(frames[Len(frames) - 1])

\* A frame is a record of its type, with the program counter it is given.
LEMMA NewFrame ==
  ASSUME NEW p \in Pcs
  PROVE  /\ Frame(p) \in Frames /\ Frame(p).pc = p
         /\ Frame(p).sel = NULL /\ Frame(p).ult = NULL /\ Frame(p).thread = NULL
<1>1. Frame(p) \in Frames
  BY Zenon DEF Frame, Blank, Frames, NULL, Pcs
<1> QED BY <1>1 DEF Frame, Blank

LEMMA Relabelled ==
  ASSUME NEW f \in Frames, NEW p \in Pcs
  PROVE  /\ [f EXCEPT !.pc = p] \in Frames
         /\ [f EXCEPT !.pc = p].pc = p
         /\ [f EXCEPT !.pc = p].sel = f.sel
         /\ [f EXCEPT !.pc = p].ult = f.ult
         /\ [f EXCEPT !.pc = p].old = f.old
         /\ [f EXCEPT !.pc = p].new = f.new
         /\ [f EXCEPT !.pc = p].thread = f.thread
<1>1. [f EXCEPT !.pc = p] \in Frames
  BY Zenon DEF Frames
<1> QED BY <1>1 DEF Frames

\* A stack has a frame, and a frame above the first unless it is the first.
LEMMA ShapeFacts ==
  ASSUME NEW s, Shaped(s)
  PROVE  /\ Len(s) \in Nat \ {0}
         /\ \A i \in 1 .. Len(s) : s[i] \in Frames
         /\ s[1].pc \in BasePcs <=> Len(s) = 1
         /\ Tail(s) \in Seq(Frames) /\ Len(Tail(s)) = Len(s) - 1
         /\ \A i \in 1 .. Len(s) - 1 : Tail(s)[i] = s[i + 1]
<1>1. Len(s) \in Nat \ {0}
  BY EmptySeq DEF Shaped
<1>2. \A i \in 1 .. Len(s) : s[i] \in Frames
  BY ElementOfSeq DEF Shaped
<1>3. s[1].pc \in BasePcs <=> Len(s) = 1
  <2>1. CASE Len(s) = 1
    BY <2>1 DEF Shaped, Base
  <2>2. CASE Len(s) # 1
    <3> DEFINE l == Len(s)
    <3>0. l \in Nat \ {0} /\ l # 1
      BY <1>1, <2>2
    <3> HIDE DEF l
    <3>1. 1 \in 1 .. l - 1
      BY <3>0
    <3> QED BY <1>1, <3>1 DEF Shaped, l
  <2> QED BY <2>1, <2>2
<1>4. Tail(s) \in Seq(Frames) /\ Len(Tail(s)) = Len(s) - 1
      /\ \A i \in 1 .. Len(s) - 1 : Tail(s)[i] = s[i + 1]
  BY HeadTailProperties DEF Shaped
<1> QED BY <1>1, <1>2, <1>3, <1>4

\* A frame put before a sequence of frames.
LEMMA Prefixed ==
  ASSUME NEW s \in Seq(Frames), NEW f \in Frames
  PROVE  /\ <<f>> \o s \in Seq(Frames) /\ <<f>> \o s # <<>>
         /\ Len(<<f>> \o s) = Len(s) + 1 /\ Len(s) \in Nat
         /\ (<<f>> \o s)[1] = f
         /\ \A i \in 2 .. Len(s) + 1 : (<<f>> \o s)[i] = s[i - 1]
         /\ Tail(<<f>> \o s) = s
<1>1. <<f>> \in Seq(Frames) /\ Len(<<f>>) = 1 /\ <<f>>[1] = f
  OBVIOUS
<1> DEFINE n == <<f>> \o s
<1>2. n \in Seq(Frames) /\ Len(n) = Len(s) + 1 /\ Len(s) \in Nat
      /\ \A i \in 1 .. 1 + Len(s) : n[i] = IF i <= 1 THEN <<f>>[i] ELSE s[i - 1]
  BY <1>1, ConcatProperties, LenProperties
<1> HIDE DEF n
<1>3. n # <<>> /\ n[1] = f /\ \A i \in 2 .. Len(s) + 1 : n[i] = s[i - 1]
  BY <1>1, <1>2, EmptySeq
<1>4. Tail(n) = s
  <2>1. Tail(n) \in Seq(Frames) /\ Len(Tail(n)) = Len(n) - 1
        /\ \A i \in 1 .. Len(Tail(n)) : Tail(n)[i] = n[i + 1]
    BY <1>2, <1>3, HeadTailProperties
  <2>2. Len(Tail(n)) = Len(s) /\ \A i \in 1 .. Len(Tail(n)) : Tail(n)[i] = s[i]
    BY <1>2, <1>3, <2>1
  <2> QED BY <2>1, <2>2, SeqEqual
<1> QED BY <1>2, <1>3, <1>4 DEF n

LEMMA TwoPrefixed ==
  ASSUME NEW s \in Seq(Frames), NEW f \in Frames, NEW g \in Frames
  PROVE  <<f, g>> \o s = <<f>> \o (<<g>> \o s)
<1> DEFINE a == <<f, g>> \o s
           r == <<g>> \o s
           b == <<f>> \o r
<1>1. /\ a \in Seq(Frames) /\ Len(a) = Len(s) + 2 /\ Len(s) \in Nat
      /\ a[1] = f /\ a[2] = g /\ \A i \in 3 .. Len(a) : a[i] = s[i - 2]
  <2>1. /\ <<f, g>> \in Seq(Frames) /\ Len(<<f, g>>) = 2
        /\ <<f, g>>[1] = f /\ <<f, g>>[2] = g
    OBVIOUS
  <2>2. /\ a \in Seq(Frames) /\ Len(a) = 2 + Len(s) /\ Len(s) \in Nat
        /\ \A i \in 1 .. 2 + Len(s) : a[i] = IF i <= 2 THEN <<f, g>>[i] ELSE s[i - 2]
    BY <2>1, ConcatProperties, LenProperties
  <2> HIDE DEF a
  <2> QED BY <2>1, <2>2
<1>2. /\ r \in Seq(Frames) /\ Len(r) = Len(s) + 1
      /\ r[1] = g /\ \A i \in 2 .. Len(r) : r[i] = s[i - 1]
  BY Prefixed
<1> HIDE DEF r
<1>3. /\ b \in Seq(Frames) /\ Len(b) = Len(r) + 1
      /\ b[1] = f /\ \A i \in 2 .. Len(b) : b[i] = r[i - 1]
  BY <1>2, Prefixed
<1> HIDE DEF a, b
<1>4. ASSUME NEW i \in 1 .. Len(a) PROVE a[i] = b[i]
  <2>1. CASE i = 1
    BY <1>1, <1>3, <2>1
  <2>2. CASE i = 2
    <3>1. i \in 2 .. Len(b) /\ i - 1 = 1
      BY <1>1, <1>2, <1>3, <2>2
    <3>2. b[i] = r[1]
      BY <1>3, <3>1
    <3> QED BY <1>1, <1>2, <2>2, <3>2
  <2>3. CASE i \in 3 .. Len(a)
    <3>1. i \in 2 .. Len(b) /\ i - 1 \in 2 .. Len(r) /\ (i - 1) - 1 = i - 2
      BY <1>1, <1>2, <1>3, <2>3
    <3>2. b[i] = r[i - 1] /\ r[i - 1] = s[(i - 1) - 1] /\ a[i] = s[i - 2]
      BY <1>1, <1>2, <1>3, <2>3, <3>1
    <3> QED BY <3>1, <3>2
  <2> QED BY <1>1, <2>1, <2>2, <2>3
<1>5. a = b
  <2>1. Len(a) = Len(b)
    BY <1>1, <1>2, <1>3
  <2> QED BY <1>1, <1>3, <1>4, <2>1, SeqEqual
<1> QED BY <1>5 DEF a, b, r

\* The next statement of the call on top.
LEMMA ShapeReplaced ==
  ASSUME NEW s, Shaped(s), NEW f \in Frames, f.pc \notin BasePcs, s[1].pc \notin BasePcs,
         f.pc \in CreatePcs => s[1].pc \in CreatePcs
  PROVE  /\ Shaped(<<f>> \o Tail(s)) /\ Base(<<f>> \o Tail(s)) = Base(s)
         /\ (Creates(f) <=> Creates(s[1])) => (Pending(<<f>> \o Tail(s)) <=> Pending(s))
         /\ Creates(s[1]) => Pending(s)
         /\ Creates(s[1]) /\ ~Creates(f) => ~Pending(<<f>> \o Tail(s))
         /\ Len(<<f>> \o Tail(s)) = Len(s) /\ Len(s) \in Nat \ {0, 1}
         /\ (<<f>> \o Tail(s))[1] = f
         /\ \A i \in 2 .. Len(s) : (<<f>> \o Tail(s))[i] = s[i]
<1> DEFINE n == <<f>> \o Tail(s)
<1>1. /\ Len(s) \in Nat \ {0, 1} /\ n \in Seq(Frames) /\ n # <<>> /\ Len(n) = Len(s)
      /\ n[1] = f /\ \A i \in 2 .. Len(s) : n[i] = s[i]
  BY ShapeFacts, Prefixed
<1> HIDE DEF n
<1>2. Shaped(n)
  BY <1>1 DEF Shaped, Base
<1>3. (Creates(f) <=> Creates(s[1])) => (Pending(n) <=> Pending(s))
  <2>1. CASE Len(s) = 2
    BY <1>1, <2>1 DEF Pending
  <2>2. CASE Len(s) # 2
    <3>1. n[Len(n) - 1] = s[Len(s) - 1]
      BY <1>1, <2>2
    <3> QED BY <1>1, <3>1 DEF Pending
  <2> QED BY <2>1, <2>2
<1>4. Creates(s[1]) => Len(s) = 2
  BY <1>1 DEF Shaped, Creates, CreatePcs
<1>5. /\ Creates(s[1]) => Pending(s)
      /\ Creates(s[1]) /\ ~Creates(f) => ~Pending(n)
  BY <1>1, <1>4 DEF Pending
<1> QED BY <1>1, <1>2, <1>3, <1>5 DEF Base, n

\* The next statement of a thread's own code.
LEMMA ShapeOfBase ==
  ASSUME NEW s, Shaped(s), s[1].pc \in BasePcs, NEW f \in Frames, f.pc \in BasePcs
  PROVE  /\ Shaped(<<f>> \o Tail(s)) /\ Base(<<f>> \o Tail(s)) = f
         /\ Len(<<f>> \o Tail(s)) = 1 /\ (<<f>> \o Tail(s))[1] = f
         /\ Base(s) = s[1] /\ ~Pending(s) /\ ~Pending(<<f>> \o Tail(s))
<1> DEFINE n == <<f>> \o Tail(s)
<1>1. /\ Len(s) = 1 /\ n \in Seq(Frames) /\ n # <<>> /\ Len(n) = 1 /\ n[1] = f
  BY ShapeFacts, Prefixed
<1> HIDE DEF n
<1>2. f.pc \notin CreatePcs
  BY DEF BasePcs, CreatePcs
<1>3. Base(n) = f /\ Base(s) = s[1] /\ ~Pending(s) /\ ~Pending(n)
  BY <1>1 DEF Base, Pending
<1>4. \A i \in 1 .. Len(n) : i = 1 /\ n[i].pc \notin CreatePcs
  BY <1>1, <1>2
<1>5. 1 .. Len(n) - 1 = {}
  BY <1>1
<1>6. Shaped(n)
  BY <1>1, <1>3, <1>4, <1>5 DEF Shaped
<1> QED BY <1>1, <1>3, <1>6 DEF n

\* A call made from the frame on top: th_create is called by the program only.
LEMMA ShapePushed ==
  ASSUME NEW s, Shaped(s), NEW f \in Frames, f.pc \notin BasePcs,
         f.pc \in CreatePcs => s[1].pc = "user"
  PROVE  /\ Shaped(<<f>> \o s) /\ Base(<<f>> \o s) = Base(s)
         /\ f.pc \notin CreatePcs => (Pending(<<f>> \o s) <=> Pending(s))
         /\ f.pc \in CreatePcs => ~Pending(s)
         /\ Len(<<f>> \o s) = Len(s) + 1 /\ Len(s) \in Nat \ {0}
         /\ (<<f>> \o s)[1] = f
         /\ \A i \in 2 .. Len(<<f>> \o s) : (<<f>> \o s)[i] = s[i - 1]
<1> DEFINE n == <<f>> \o s
<1>1. /\ Len(s) \in Nat \ {0} /\ n \in Seq(Frames) /\ n # <<>> /\ Len(n) = Len(s) + 1
      /\ n[1] = f /\ \A i \in 2 .. Len(n) : n[i] = s[i - 1]
  BY ShapeFacts, Prefixed DEF Shaped
<1> HIDE DEF n
<1>2. Base(n) = Base(s)
  BY <1>1 DEF Base
<1>3. f.pc \in CreatePcs => Len(s) = 1 /\ Base(s).pc = "user"
  <2> SUFFICES ASSUME f.pc \in CreatePcs PROVE Len(s) = 1 /\ Base(s).pc = "user"
    OBVIOUS
  <2>1. s[1].pc \in BasePcs
    BY DEF BasePcs
  <2> QED BY <2>1, ShapeFacts DEF Base
<1>4. Shaped(n)
  <2>1. \A i \in 1 .. Len(n) - 1 : n[i].pc \notin BasePcs
    BY <1>1 DEF Shaped
  <2>2. ASSUME NEW i \in 1 .. Len(n), n[i].pc \in CreatePcs
        PROVE  i = Len(n) - 1 /\ Base(n).pc = "user"
    <3>1. CASE i = 1
      BY <1>1, <1>2, <1>3, <2>2, <3>1
    <3>2. CASE i # 1
      <4>1. i \in 2 .. Len(n) /\ i - 1 \in 1 .. Len(s) /\ n[i] = s[i - 1]
        BY <1>1, <3>2
      <4>2. i - 1 = Len(s) - 1 /\ Base(s).pc = "user"
        BY <2>2, <4>1 DEF Shaped
      <4> QED BY <1>1, <1>2, <4>1, <4>2
    <3> QED BY <3>1, <3>2
  <2> QED BY <1>1, <1>2, <2>1, <2>2 DEF Shaped
<1>5. /\ f.pc \notin CreatePcs => (Pending(n) <=> Pending(s))
      /\ f.pc \in CreatePcs => ~Pending(s)
  <2>1. CASE Len(s) = 1
    BY <1>1, <2>1 DEF Pending, Creates, CreatePcs
  <2>2. CASE Len(s) # 1
    <3> DEFINE l == Len(s)
               m == Len(n)
    <3>0. l \in Nat \ {0} /\ l # 1 /\ m = l + 1
      BY <1>1, <2>2
    <3> HIDE DEF l, m
    <3>2. m - 1 = l /\ l \in 2 .. m /\ l - 1 >= 1
      BY <3>0
    <3>1. Len(n) - 1 = Len(s) /\ Len(s) \in 2 .. Len(n) /\ Len(s) - 1 >= 1
      BY <3>2 DEF l, m
    <3>3. n[Len(n) - 1] = s[Len(s) - 1]
      BY <1>1, <3>1
    <3> QED BY <1>1, <1>3, <2>2, <3>1, <3>3 DEF Pending
  <2> QED BY <2>1, <2>2
<1> QED BY <1>1, <1>2, <1>4, <1>5 DEF n

\* A call that returns to the frame under it.
LEMMA ShapePopped ==
  ASSUME NEW s, Shaped(s), s[1].pc \notin BasePcs
  PROVE  /\ Len(s) \in Nat \ {0, 1} /\ Len(Tail(s)) = Len(s) - 1
         /\ \A i \in 1 .. Len(Tail(s)) : Tail(s)[i] = s[i + 1]
         /\ Shaped(Tail(s)) /\ Base(Tail(s)) = Base(s)
         /\ ~Creates(s[1]) => (Pending(Tail(s)) <=> Pending(s))
         /\ Creates(s[1]) => Pending(s) /\ ~Pending(Tail(s))
<1> DEFINE n == Tail(s)
<1>1. /\ Len(s) \in Nat \ {0, 1} /\ n \in Seq(Frames) /\ Len(n) = Len(s) - 1
      /\ \A i \in 1 .. Len(n) : n[i] = s[i + 1]
  BY ShapeFacts
<1> HIDE DEF n
<1>2. n # <<>>
  BY <1>1, EmptySeq
<1>3. Base(n) = Base(s)
  BY <1>1 DEF Base
<1>4. Shaped(n)
  <2>1. \A i \in 1 .. Len(n) - 1 : n[i].pc \notin BasePcs
    BY <1>1 DEF Shaped
  <2>2. \A i \in 1 .. Len(n) :
          n[i].pc \in CreatePcs => i = Len(n) - 1 /\ Base(n).pc = "user"
    BY <1>1, <1>3 DEF Shaped
  <2> QED BY <1>1, <1>2, <1>3, <2>1, <2>2 DEF Shaped
<1>5. /\ ~Creates(s[1]) => (Pending(n) <=> Pending(s))
      /\ Creates(s[1]) => Pending(s) /\ ~Pending(n)
  <2>1. CASE Len(s) = 2
    BY <1>1, <2>1 DEF Pending
  <2>2. CASE Len(s) # 2
    <3>1. n[Len(n) - 1] = s[Len(s) - 1] /\ Len(n) >= 2
      BY <1>1, <2>2
    <3>2. ~Creates(s[1])
      BY <1>1, <2>2 DEF Shaped, Creates, CreatePcs
    <3> QED BY <1>1, <3>1, <3>2 DEF Pending
  <2> QED BY <2>1, <2>2
<1> QED BY <1>1, <1>3, <1>4, <1>5 DEF n
-------------------------------------------------------------------------------
(* What no signal breaks *)

\* A slot that was given a context: only such slots are ever queued.
Filled(s) == s \in Slots /\ context[s] \in Threads
Known(s) == s = NULL \/ Filled(s)

FrameOk(f) ==
  /\ Known(f.ult)
  /\ f.pc # "makecontext" => Known(f.sel)
  /\ f.pc \in {"makecontext", "write", "setrunning", "contexts", "setcurrent", "swap"} =>
       f.sel \in Slots
  /\ f.pc \in {"setcurrent", "swap"} => f.old \in Threads /\ f.new \in Threads

Held(frames) == Shaped(frames) /\ \A i \in 1 .. Len(frames) : FrameOk(frames[i])

\* The stacks with a call of th_create that has still to make its context; NULL stands for
\* the one that runs.
Makers == {k \in Threads \cup {NULL} : Pending(IF k = NULL THEN stack ELSE saved[k])}

TInv ==
  /\ TypeOK
  /\ Held(stack) /\ \A k \in Threads : saved[k] # <<>> => Held(saved[k])
  /\ Known(head) /\ Known(tail) /\ Filled(current_ult) /\ \A s \in Slots : Known(next[s])
  /\ status = "up" => created + Cardinality(Makers) <= calls

LEMMA SlotFacts == Main \in Slots /\ NULL \notin Slots /\ NULL \notin Threads /\ Threads \subseteq Nat
BY PreemptAssumption DEF Main, Slots, NULL, Threads

LEMMA MakersFinite == IsFiniteSet(Makers) /\ Cardinality(Makers) \in Nat
<1>1. IsFiniteSet(Threads \cup {NULL})
  <2>1. IsFiniteSet(Threads)
    BY FS_Interval, PreemptAssumption DEF Threads
  <2> QED BY <2>1, FS_AddElement
<1>2. Makers \in SUBSET (Threads \cup {NULL})
  BY DEF Makers
<1> QED BY <1>1, <1>2, FS_Subset, FS_CardinalityType

LEMMA FewerMakers ==
  ASSUME Makers' \subseteq Makers
  PROVE  Cardinality(Makers') \in Nat /\ Cardinality(Makers') <= Cardinality(Makers)
BY MakersFinite, FS_Subset, FS_CardinalityType

\* The running stack, with its top.
LEMMA HeldTop ==
  ASSUME TInv
  PROVE  /\ Shaped(stack) /\ Top = stack[1] /\ Top \in Frames /\ FrameOk(Top)
         /\ Len(stack) \in Nat \ {0}
         /\ Top.pc \in BasePcs <=> Len(stack) = 1
BY ShapeFacts DEF TInv, Held, Top

\* A step that makes no context and switches no stack.
LEMMA TypedStep ==
  ASSUME TInv, UNCHANGED <<saved, context, created>>,
         Shaped(stack'), \A i \in 1 .. Len(stack') : FrameOk(stack'[i]),
         state' \in [Slots -> {"FREE", "RUNNING", "READY"}],
         next' \in [Slots -> Slots \cup {NULL}],
         Known(head'), Known(tail'), Filled(current_ult'), \A s \in Slots : Known(next'[s]),
         unfinished' \subseteq unfinished,
         calls' \in 0 .. MaxThreads, signals' \in 0 .. MaxSignals, yields' \in 0 .. MaxYields,
         strayed' \subseteq {"linking", "yielding", "claimed"},
         status' \in {"up", "exited", "aborted", "wild"},
         status' = "up" =>
           \/ calls' = calls /\ (Pending(stack') => Pending(stack)) /\ status = "up"
           \/ calls' = calls + 1 /\ status = "up"
  PROVE  TInv'
<1>1. TypeOK'
  <2>1. stack' \in Seq(Frames) /\ head' \in Slots \cup {NULL} /\ tail' \in Slots \cup {NULL}
        /\ current_ult' \in Slots
    BY DEF Shaped, Known, Filled
  <2> QED BY <2>1 DEF TInv, TypeOK
<1>2. Held(stack)' /\ \A k \in Threads : (saved[k] # <<>> => Held(saved[k]))'
  BY DEF TInv, Held, FrameOk, Known, Filled
<1>3. (Known(head) /\ Known(tail) /\ Filled(current_ult) /\ \A s \in Slots : Known(next[s]))'
  BY DEF Known, Filled
<1>4. status' = "up" => created' + Cardinality(Makers') <= calls'
  <2>1. CASE calls' = calls /\ (Pending(stack') => Pending(stack)) /\ status = "up"
    <3>1. Makers' \subseteq Makers
      BY <2>1 DEF Makers
    <3> QED BY <2>1, <3>1, FewerMakers, MakersFinite DEF TInv, TypeOK
  <2>2. CASE calls' = calls + 1 /\ status = "up"
    <3>1. Makers' \subseteq Makers \cup {NULL}
      BY DEF Makers
    <3>2. IsFiniteSet(Makers \cup {NULL}) /\ Cardinality(Makers \cup {NULL}) \in Nat
          /\ Cardinality(Makers \cup {NULL}) <= Cardinality(Makers) + 1
      <4>1. Cardinality(Makers \cup {NULL}) =
              IF NULL \in Makers THEN Cardinality(Makers) ELSE Cardinality(Makers) + 1
        BY MakersFinite, FS_AddElement
      <4>2. IsFiniteSet(Makers \cup {NULL})
        BY MakersFinite, FS_AddElement
      <4> QED BY <4>1, <4>2, MakersFinite
    <3>3. Cardinality(Makers') \in Nat /\ Cardinality(Makers') <= Cardinality(Makers) + 1
      BY <3>1, <3>2, MakersFinite, FS_Subset, FS_CardinalityType
    <3> QED BY <2>2, <3>3, MakersFinite DEF TInv, TypeOK
  <2> QED BY <2>1, <2>2
<1> QED BY <1>1, <1>2, <1>3, <1>4 DEF TInv

\* The next statement of the call on top.
LEMMA HeldReplaced ==
  ASSUME TInv, NEW f \in Frames, f.pc \notin BasePcs, Top.pc \notin BasePcs,
         f.pc \in CreatePcs => Top.pc \in CreatePcs, FrameOk(f),
         stack' = <<f>> \o Tail(stack)
  PROVE  /\ Shaped(stack') /\ \A i \in 1 .. Len(stack') : FrameOk(stack'[i])
         /\ (Creates(f) <=> Creates(Top)) => (Pending(stack') <=> Pending(stack))
<1>1. Shaped(stack) /\ Top = stack[1] /\ \A i \in 1 .. Len(stack) : FrameOk(stack[i])
  BY HeldTop DEF TInv, Held
<1>2. /\ Shaped(stack') /\ stack'[1] = f /\ Len(stack') = Len(stack)
      /\ Len(stack) \in Nat \ {0, 1} /\ \A i \in 2 .. Len(stack) : stack'[i] = stack[i]
      /\ (Creates(f) <=> Creates(Top)) => (Pending(stack') <=> Pending(stack))
  BY <1>1, ShapeReplaced
<1>3. ASSUME NEW i \in 1 .. Len(stack') PROVE FrameOk(stack'[i])
  <2>1. i = 1 \/ i \in 2 .. Len(stack)
    BY <1>2
  <2> QED BY <1>1, <1>2, <2>1
<1> QED BY <1>2, <1>3

\* A call made from the frame on top, with the program counter that frame goes on at.
LEMMA HeldPushed ==
  ASSUME NEW s, Shaped(s), \A i \in 1 .. Len(s) : FrameOk(s[i]),
         NEW f \in Frames, f.pc \notin BasePcs, f.pc \in CreatePcs => s[1].pc = "user",
         FrameOk(f), stack' = <<f>> \o s
  PROVE  /\ Shaped(stack') /\ \A i \in 1 .. Len(stack') : FrameOk(stack'[i])
         /\ f.pc \notin CreatePcs => (Pending(stack') <=> Pending(s))
<1>1. /\ Shaped(stack') /\ stack'[1] = f /\ Len(stack') = Len(s) + 1
      /\ Len(s) \in Nat \ {0} /\ \A i \in 2 .. Len(stack') : stack'[i] = s[i - 1]
      /\ f.pc \notin CreatePcs => (Pending(stack') <=> Pending(s))
  BY ShapePushed
<1>2. ASSUME NEW i \in 1 .. Len(stack') PROVE FrameOk(stack'[i])
  <2>1. CASE i = 1
    BY <1>1, <2>1
  <2>2. CASE i # 1
    <3>1. i \in 2 .. Len(s) + 1 /\ i - 1 \in 1 .. Len(s)
      <4> DEFINE l == Len(s)
      <4>1. l \in Nat /\ i \in 1 .. l + 1
        BY <1>1
      <4> HIDE DEF l
      <4>2. i \in 2 .. l + 1 /\ i - 1 \in 1 .. l
        BY <2>2, <4>1
      <4> QED BY <4>2 DEF l
    <3> QED BY <1>1, <3>1
  <2> QED BY <2>1, <2>2
<1> QED BY <1>1, <1>2

\* The call on top, its frame at p, makes another.
LEMMA HeldCalls ==
  ASSUME TInv, NEW p \in Pcs, NEW f \in Frames,
         Top.pc \in BasePcs <=> p \in BasePcs, p \in CreatePcs => Top.pc \in CreatePcs,
         ~Creates(Top), p \notin {"scan", "makecontext"}, FrameOk([Top EXCEPT !.pc = p]),
         f.pc \notin BasePcs \cup CreatePcs, FrameOk(f), CallThen(f, p)
  PROVE  /\ Shaped(stack') /\ \A i \in 1 .. Len(stack') : FrameOk(stack'[i])
         /\ Pending(stack') <=> Pending(stack)
<1> DEFINE g == [Top EXCEPT !.pc = p]
           s == <<g>> \o Tail(stack)
<1>1. /\ Shaped(stack) /\ Top = stack[1] /\ Top \in Frames
      /\ \A i \in 1 .. Len(stack) : FrameOk(stack[i])
  BY HeldTop DEF TInv, Held
<1>2. g \in Frames /\ g.pc = p /\ FrameOk(g)
  BY <1>1, Relabelled
<1>3. stack' = <<f, g>> \o Tail(stack)
  BY DEF CallThen, Below
<1> HIDE DEF g
<1>4. stack' = <<f>> \o s
  BY <1>1, <1>2, <1>3, ShapeFacts, TwoPrefixed
<1>5. /\ Shaped(s) /\ (Pending(s) <=> Pending(stack)) /\ s[1] = g
      /\ Len(s) = Len(stack) /\ \A i \in 2 .. Len(stack) : s[i] = stack[i]
  <2>1. CASE Top.pc \in BasePcs
    <3>1. /\ Shaped(s) /\ (Pending(s) <=> Pending(stack)) /\ s[1] = g /\ Len(s) = 1
          /\ Len(stack) = 1
      BY <1>1, <1>2, <2>1, ShapeOfBase, ShapeFacts
    <3> QED BY <3>1
  <2>2. CASE Top.pc \notin BasePcs
    BY <1>1, <1>2, <2>2, ShapeReplaced DEF Creates
  <2> QED BY <2>1, <2>2
<1> HIDE DEF s
<1>6. ASSUME NEW i \in 1 .. Len(s) PROVE FrameOk(s[i])
  <2>1. Len(stack) \in Nat \ {0}
    BY <1>1, ShapeFacts
  <2>2. i = 1 \/ i \in 2 .. Len(stack)
    BY <1>5, <2>1
  <2> QED BY <1>1, <1>2, <1>5, <2>2
<1> QED BY <1>4, <1>5, <1>6, HeldPushed

\* The call on top returns.
LEMMA HeldPopped ==
  ASSUME NEW s, Shaped(s), \A i \in 1 .. Len(s) : FrameOk(s[i]), s[1].pc \notin BasePcs
  PROVE  /\ Shaped(Tail(s)) /\ \A i \in 1 .. Len(Tail(s)) : FrameOk(Tail(s)[i])
         /\ Pending(Tail(s)) => Pending(s)
<1>1. /\ Len(s) \in Nat \ {0, 1} /\ Len(Tail(s)) = Len(s) - 1
      /\ \A i \in 1 .. Len(Tail(s)) : Tail(s)[i] = s[i + 1]
      /\ Shaped(Tail(s)) /\ (Pending(Tail(s)) => Pending(s))
  BY ShapePopped
<1>2. \A i \in 1 .. Len(Tail(s)) : i + 1 \in 1 .. Len(s)
  BY <1>1
<1> QED BY <1>1, <1>2

LEMMA HeldReturned ==
  ASSUME TInv, Top.pc \in {"test", "resumed"}, NEW b, ReturnToCaller(b)
  PROVE  /\ Shaped(stack') /\ \A i \in 1 .. Len(stack') : FrameOk(stack'[i])
         /\ Pending(stack') => Pending(stack)
         /\ status' \in {"up", "exited", "aborted", "wild"}
<1>1. /\ Shaped(stack) /\ stack[1].pc \notin BasePcs
      /\ \A i \in 1 .. Len(stack) : FrameOk(stack[i])
  BY HeldTop DEF TInv, Held, BasePcs
<1>2. /\ Shaped(Below) /\ \A i \in 1 .. Len(Below) : FrameOk(Below[i])
      /\ Pending(Below) => Pending(stack)
  BY <1>1, HeldPopped DEF Below
<1>3. CASE Below[1].pc \in {"handler", "created"}
  <2>1. stack' = Tail(Below) /\ Below[1].pc \notin BasePcs
    BY <1>3 DEF ReturnToCaller, BasePcs
  <2> QED BY <1>2, <1>3, <2>1, HeldPopped DEF ReturnToCaller, TInv, TypeOK
<1>4. CASE Below[1].pc \notin {"handler", "created"}
  BY <1>2, <1>4 DEF ReturnToCaller, TInv, TypeOK
<1> QED BY <1>3, <1>4

\* A statement of lib_enqueue or th_yield leads to the next one of it.
LEMMA HeldGoto ==
  ASSUME TInv, NEW p \in Pcs, Goto(p), p \notin BasePcs \cup CreatePcs,
         Top.pc \notin BasePcs \cup CreatePcs, FrameOk([Top EXCEPT !.pc = p])
  PROVE  /\ Shaped(stack') /\ \A i \in 1 .. Len(stack') : FrameOk(stack'[i])
         /\ Pending(stack') <=> Pending(stack)
<1> DEFINE f == [Top EXCEPT !.pc = p]
<1>1. f \in Frames /\ f.pc = p
  BY HeldTop, Relabelled
<1>2. stack' = <<f>> \o Tail(stack)
  BY DEF Goto, Below
<1> HIDE DEF f
<1>3. ~Creates(f) /\ ~Creates(Top)
  BY <1>1 DEF Creates, CreatePcs
<1> QED BY <1>1, <1>2, <1>3, HeldReplaced DEF f

\* ... when it moves no slot of its frame.
LEMMA SameSlots ==
  ASSUME TInv, NEW p \in Pcs,
         p \notin {"makecontext", "write", "setrunning", "contexts", "setcurrent", "swap"}
                  \/ Top.sel \in Slots,
         p \in {"setcurrent", "swap"} => Top.pc \in {"setcurrent", "swap"},
         Top.pc # "makecontext"
  PROVE  FrameOk([Top EXCEPT !.pc = p])
<1>1. FrameOk(Top) /\ Top \in Frames
  BY HeldTop
<1>2. /\ [Top EXCEPT !.pc = p].pc = p /\ [Top EXCEPT !.pc = p].sel = Top.sel
      /\ [Top EXCEPT !.pc = p].ult = Top.ult /\ [Top EXCEPT !.pc = p].old = Top.old
      /\ [Top EXCEPT !.pc = p].new = Top.new
  BY <1>1, Relabelled
<1> QED BY <1>1, <1>2 DEF FrameOk

LEMMA NewFrameOk ==
  ASSUME NEW p \in Pcs,
         p \notin {"makecontext", "write", "setrunning", "contexts", "setcurrent", "swap"}
  PROVE  FrameOk(Frame(p))
BY NewFrame DEF FrameOk, Known

\* The program calls th_create or th_yield, main drains.
LEMMA TypedCalls ==
  ASSUME TInv, UserCreates \/ UserYields \/ Drain
  PROVE  TInv'
<1>1. PICK p \in {"scan", "head"} :
        /\ stack' = <<Frame(p)>> \o stack /\ Top.pc \in {"user", "drain"} /\ status = "up"
        /\ p = "scan" => Top.pc = "user" /\ calls < MaxThreads /\ calls' = calls + 1
                         /\ UNCHANGED yields
        /\ p = "head" => UNCHANGED calls /\ yields' \in 0 .. MaxYields
        /\ UNCHANGED <<ulib, unfinished, created, signals, status, strayed>>
  <2>1. CASE UserCreates
    BY <2>1 DEF UserCreates, At
  <2>2. CASE UserYields
    BY <2>2, PreemptAssumption DEF UserYields, At, TInv, TypeOK
  <2>3. CASE Drain
    BY <2>3 DEF Drain, At, counters, TInv, TypeOK
  <2> QED BY <2>1, <2>2, <2>3
<1> DEFINE f == Frame(p)
<1>2. f \in Frames /\ f.pc = p /\ FrameOk(f)
  BY NewFrame, NewFrameOk DEF Pcs
<1> HIDE DEF f
<1>3. stack' = <<f>> \o stack
  BY <1>1 DEF f
<1>4. Shaped(stack) /\ Top = stack[1] /\ \A i \in 1 .. Len(stack) : FrameOk(stack[i])
  BY HeldTop DEF TInv, Held
<1>5. /\ Shaped(stack') /\ \A i \in 1 .. Len(stack') : FrameOk(stack'[i])
      /\ p = "head" => (Pending(stack') <=> Pending(stack))
  BY <1>1, <1>2, <1>3, <1>4, HeldPushed DEF BasePcs, CreatePcs
<1>6. calls' \in 0 .. MaxThreads /\ yields' \in 0 .. MaxYields
  BY <1>1, PreemptAssumption DEF TInv, TypeOK
<1> QED BY <1>1, <1>5, <1>6, TypedStep DEF TInv, TypeOK, ulib

LEMMA TypedUserReturns ==
  ASSUME TInv, UserReturns
  PROVE  TInv'
<1> DEFINE p == IF current_ult = Main THEN "drain" ELSE "free"
           f == [Top EXCEPT !.pc = p]
<1>1. /\ Shaped(stack) /\ Top = stack[1] /\ Top \in Frames /\ FrameOk(Top)
      /\ Top.pc = "user" /\ Len(stack) = 1
  BY HeldTop DEF UserReturns, At, BasePcs
<1>2. p \in {"drain", "free"}
  OBVIOUS
<1>3. stack' = <<f>> \o Tail(stack) /\ UNCHANGED <<ulib, counters, status, strayed>>
      /\ unfinished' \subseteq unfinished
  BY DEF UserReturns, Goto, Below
<1> HIDE DEF p
<1>4. f \in Frames /\ f.pc = p /\ FrameOk(f)
  <2>1. p \in Pcs
    BY <1>2 DEF Pcs
  <2>2. FrameOk(f)
    BY <1>1, <1>2, <2>1, SameSlots
  <2> QED BY <1>1, <2>1, <2>2, Relabelled
<1> HIDE DEF f
<1>5. Shaped(stack') /\ Len(stack') = 1 /\ stack'[1] = f /\ ~Pending(stack')
  BY <1>1, <1>2, <1>3, <1>4, ShapeOfBase DEF BasePcs
<1> QED BY <1>3, <1>4, <1>5, TypedStep DEF TInv, TypeOK, ulib, counters, UserReturns, At

LEMMA TypedMarkFree ==
  ASSUME TInv, MarkFree
  PROVE  TInv'
<1>1. FrameOk(Frame("head")) /\ Frame("head") \in Frames /\ Frame("head").pc = "head"
  BY NewFrameOk, NewFrame DEF Pcs
<1>2. Top.pc = "free" /\ CallThen(Frame("head"), "unreachable")
  BY DEF MarkFree, At
<1>3. FrameOk([Top EXCEPT !.pc = "unreachable"])
  BY <1>2, SameSlots DEF Pcs
<1>4. /\ Shaped(stack') /\ \A i \in 1 .. Len(stack') : FrameOk(stack'[i])
      /\ Pending(stack') <=> Pending(stack)
  BY <1>1, <1>2, <1>3, HeldCalls DEF Pcs, BasePcs, CreatePcs, Creates
<1> QED BY <1>4, TypedStep DEF TInv, TypeOK, MarkFree, counters, At

\* th_create up to its new context, and its last call.
LEMMA TypedScanSlots ==
  ASSUME TInv, ScanSlots
  PROVE  TInv'
<1>1. Shaped(stack) /\ Top = stack[1] /\ Top \in Frames /\ FrameOk(Top) /\ Top.pc = "scan"
      /\ status = "up" /\ \A i \in 1 .. Len(stack) : FrameOk(stack[i])
  BY HeldTop DEF ScanSlots, At, TInv, Held
<1>2. UNCHANGED <<ulib, unfinished, counters, status>>
      /\ strayed' \subseteq {"linking", "yielding", "claimed"}
  BY DEF ScanSlots, TInv, TypeOK
<1>3. /\ Shaped(stack') /\ \A i \in 1 .. Len(stack') : FrameOk(stack'[i])
      /\ Pending(stack') => Pending(stack)
  <2>1. CASE FreeSlots = {}
    <3>1. stack' = Tail(stack) /\ stack[1].pc \notin BasePcs
      BY <1>1, <2>1 DEF ScanSlots, Below, BasePcs
    <3> QED BY <1>1, <3>1, HeldPopped
  <2>2. CASE FreeSlots # {}
    <3>1. PICK s \in Slots : GotoWith([Top EXCEPT !.pc = "makecontext", !.sel = s])
      BY <2>2 DEF ScanSlots, FreeSlots
    <3> DEFINE f == [Top EXCEPT !.pc = "makecontext", !.sel = s]
    <3>2. f \in Frames
      BY <1>1, <3>1, Zenon DEF Frames, Pcs
    <3>3. f.pc = "makecontext" /\ f.sel = s /\ f.ult = Top.ult
      BY <1>1 DEF Frames
    <3>4. stack' = <<f>> \o Tail(stack)
      BY <3>1 DEF GotoWith, Below
    <3> HIDE DEF f
    <3>5. FrameOk(f)
      BY <1>1, <3>1, <3>3 DEF FrameOk
    <3> QED BY <1>1, <3>2, <3>3, <3>4, <3>5, HeldReplaced DEF BasePcs, CreatePcs, Creates
  <2> QED BY <2>1, <2>2
<1> QED BY <1>1, <1>2, <1>3, TypedStep DEF TInv, TypeOK, ulib, counters

LEMMA TypedWriteTCB ==
  ASSUME TInv, WriteTCB
  PROVE  TInv'
<1> DEFINE f == [Frame("setready") EXCEPT !.ult = Top.sel]
<1>1. FrameOk(Top) /\ Top.pc = "write" /\ Top.sel \in Slots /\ Known(Top.sel)
  BY HeldTop DEF WriteTCB, At, FrameOk
<1>2. Frame("setready") \in Frames /\ Frame("setready").pc = "setready"
      /\ Frame("setready").sel = NULL
  BY NewFrame DEF Pcs
<1>3. f \in Frames
  BY <1>1, <1>2, Zenon DEF Frames
<1>4. f.pc = "setready" /\ f.ult = Top.sel /\ f.sel = NULL
  BY <1>2 DEF Frames
<1>5. CallThen(f, "yieldnow")
  BY DEF WriteTCB
<1> HIDE DEF f
<1>6. FrameOk(f)
  BY <1>1, <1>4 DEF FrameOk, Known
<1>7. FrameOk([Top EXCEPT !.pc = "yieldnow"])
  BY <1>1, SameSlots DEF Pcs
<1>8. /\ Shaped(stack') /\ \A i \in 1 .. Len(stack') : FrameOk(stack'[i])
      /\ Pending(stack') <=> Pending(stack)
  BY <1>1, <1>3, <1>4, <1>5, <1>6, <1>7, HeldCalls
     DEF Pcs, BasePcs, CreatePcs, ListPcs, Creates
<1>9. /\ next' \in [Slots -> Slots \cup {NULL}] /\ \A s \in Slots : Known(next'[s])
      /\ state' \in [Slots -> {"FREE", "RUNNING", "READY"}]
  BY DEF WriteTCB, TInv, TypeOK, Known
<1> QED BY <1>8, <1>9, TypedStep DEF TInv, TypeOK, WriteTCB, counters, At

LEMMA TypedYieldAfterCreate ==
  ASSUME TInv, YieldAfterCreate
  PROVE  TInv'
<1>1. FrameOk(Frame("head")) /\ Frame("head") \in Frames /\ Frame("head").pc = "head"
  BY NewFrameOk, NewFrame DEF Pcs
<1>2. Top.pc = "yieldnow" /\ CallThen(Frame("head"), "created")
  BY DEF YieldAfterCreate, At
<1>3. FrameOk([Top EXCEPT !.pc = "created"])
  BY <1>2, SameSlots DEF Pcs
<1>4. /\ Shaped(stack') /\ \A i \in 1 .. Len(stack') : FrameOk(stack'[i])
      /\ Pending(stack') <=> Pending(stack)
  BY <1>1, <1>2, <1>3, HeldCalls DEF Pcs, BasePcs, CreatePcs, Creates
<1> QED BY <1>4, TypedStep DEF TInv, TypeOK, YieldAfterCreate, ulib, counters, At

\* lib_enqueue.
LEMMA TypedEnqueue ==
  ASSUME TInv, SetReady \/ SetHead \/ LinkTail \/ SetTail
  PROVE  TInv'
<1>1. Top.pc \in {"setready", "sethead", "link", "settail"} /\ Top \in Frames /\ FrameOk(Top)
      /\ status = "up"
  BY HeldTop DEF SetReady, SetHead, LinkTail, SetTail, At
<1>2. Top.ult \in Slots \cup {NULL} /\ Known(Top.ult)
  BY <1>1 DEF FrameOk, Frames
<1>3. PICK p \in {"sethead", "link", "settail", "endlist"} : Goto(p)
  BY DEF SetReady, SetHead, LinkTail, SetTail
<1>4. FrameOk([Top EXCEPT !.pc = p])
  BY <1>1, SameSlots DEF Pcs
<1>5. /\ Shaped(stack') /\ \A i \in 1 .. Len(stack') : FrameOk(stack'[i])
      /\ Pending(stack') <=> Pending(stack)
  BY <1>1, <1>3, <1>4, HeldGoto DEF Pcs, BasePcs, CreatePcs
<1>6. UNCHANGED <<context, current_ult, saved, unfinished, counters, status, strayed>>
  BY DEF SetReady, SetHead, LinkTail, SetTail
<1>7. /\ state' \in [Slots -> {"FREE", "RUNNING", "READY"}]
      /\ Known(head') /\ Known(tail')
      /\ next' \in [Slots -> Slots \cup {NULL}] /\ \A s \in Slots : Known(next'[s])
  <2>1. CASE SetReady
    BY <2>1 DEF SetReady, TInv, TypeOK
  <2>2. CASE SetHead
    BY <1>2, <2>2 DEF SetHead, TInv, TypeOK
  <2>3. CASE LinkTail
    BY <1>2, <2>3 DEF LinkTail, TInv, TypeOK
  <2>4. CASE SetTail
    BY <1>2, <2>4 DEF SetTail, TInv, TypeOK
  <2> QED BY <2>1, <2>2, <2>3, <2>4
<1> QED BY <1>1, <1>5, <1>6, <1>7, TypedStep DEF TInv, TypeOK, counters

LEMMA TypedEndList ==
  ASSUME TInv, EndList
  PROVE  TInv'
<1>1. Shaped(stack) /\ stack[1].pc = "endlist" /\ \A i \in 1 .. Len(stack) : FrameOk(stack[i])
  BY HeldTop DEF EndList, At, TInv, Held
<1>2. stack' = Tail(stack)
  BY DEF EndList, Below
<1>3. /\ Shaped(stack') /\ \A i \in 1 .. Len(stack') : FrameOk(stack'[i])
      /\ Pending(stack') => Pending(stack)
  BY <1>1, <1>2, HeldPopped DEF BasePcs
<1>4. next' \in [Slots -> Slots \cup {NULL}] /\ \A s \in Slots : Known(next'[s])
  BY DEF EndList, TInv, TypeOK, Known
<1> QED BY <1>3, <1>4, TypedStep DEF TInv, TypeOK, EndList, counters, At

\* th_yield up to the switch.
LEMMA TypedReadHead ==
  ASSUME TInv, ReadHead
  PROVE  TInv'
<1> DEFINE f == [Top EXCEPT !.pc = "pop", !.sel = head]
<1>1. Top \in Frames /\ FrameOk(Top) /\ Top.pc = "head"
  BY HeldTop DEF ReadHead, At
<1>2. f \in Frames
  <2>1. head \in Slots \cup {NULL}
    BY DEF TInv, TypeOK
  <2> QED BY <1>1, <2>1, Zenon DEF Frames, Pcs
<1>3. f.pc = "pop" /\ f.sel = head /\ f.ult = Top.ult
  BY <1>1 DEF Frames
<1>4. stack' = <<f>> \o Tail(stack)
  BY DEF ReadHead, GotoWith, Below
<1> HIDE DEF f
<1>5. FrameOk(f)
  BY <1>1, <1>3 DEF FrameOk, TInv
<1>6. /\ Shaped(stack') /\ \A i \in 1 .. Len(stack') : FrameOk(stack'[i])
      /\ Pending(stack') <=> Pending(stack)
  BY <1>1, <1>2, <1>3, <1>4, <1>5, HeldReplaced DEF BasePcs, CreatePcs, Creates
<1> QED BY <1>6, TypedStep DEF TInv, TypeOK, ReadHead, ulib, counters, At

LEMMA TypedPopHead ==
  ASSUME TInv, PopHead
  PROVE  TInv'
<1>1. Top.pc = "pop" /\ Goto("test")
  BY DEF PopHead, At
<1>2. FrameOk([Top EXCEPT !.pc = "test"])
  BY <1>1, SameSlots DEF Pcs
<1>3. /\ Shaped(stack') /\ \A i \in 1 .. Len(stack') : FrameOk(stack'[i])
      /\ Pending(stack') <=> Pending(stack)
  BY <1>1, <1>2, HeldGoto DEF Pcs, BasePcs, CreatePcs
<1>4. Known(head')
  BY DEF PopHead, TInv, Known, Filled
<1> QED BY <1>3, <1>4, TypedStep DEF TInv, TypeOK, PopHead, counters, At

LEMMA TypedTestSelected ==
  ASSUME TInv, TestSelected
  PROVE  TInv'
<1>1. Top \in Frames /\ FrameOk(Top) /\ Top.pc = "test" /\ status = "up"
  BY HeldTop DEF TestSelected, At
<1>2. UNCHANGED <<ulib, unfinished, counters, strayed>>
  BY DEF TestSelected
<1>3. /\ Shaped(stack') /\ \A i \in 1 .. Len(stack') : FrameOk(stack'[i])
      /\ Pending(stack') => Pending(stack)
      /\ status' \in {"up", "exited", "aborted", "wild"}
  <2>1. CASE Top.sel = NULL
    <3>1. ReturnToCaller(FALSE)
      BY <2>1 DEF TestSelected
    <3> QED BY <1>1, <3>1, HeldReturned
  <2>2. CASE Top.sel # NULL
    <3>1. Top.sel \in Slots /\ UNCHANGED status
      BY <1>1, <2>2 DEF FrameOk, Known, Filled, TestSelected
    <3>2. FrameOk([Top EXCEPT !.pc = "setrunning"])
      BY <1>1, <3>1, SameSlots DEF Pcs
    <3>3. CASE state[current_ult] = "FREE"
      <4>1. Goto("setrunning")
        BY <2>2, <3>3 DEF TestSelected
      <4> QED BY <1>1, <3>1, <3>2, <4>1, HeldGoto DEF Pcs, BasePcs, CreatePcs
    <3>4. CASE state[current_ult] # "FREE"
      <4> DEFINE f == [Frame("setready") EXCEPT !.ult = current_ult]
      <4>1. Frame("setready") \in Frames /\ Frame("setready").pc = "setready"
            /\ Frame("setready").sel = NULL
        BY NewFrame DEF Pcs
      <4>2. current_ult \in Slots /\ Known(current_ult)
        BY DEF TInv, TypeOK, Known
      <4>3. f \in Frames
        BY <4>1, <4>2, Zenon DEF Frames
      <4>4. f.pc = "setready" /\ f.ult = current_ult /\ f.sel = NULL
        BY <4>1 DEF Frames
      <4>5. CallThen(f, "setrunning")
        BY <2>2, <3>4 DEF TestSelected
      <4> HIDE DEF f
      <4>6. FrameOk(f)
        BY <4>2, <4>4 DEF FrameOk, Known
      <4> QED BY <1>1, <3>1, <3>2, <4>3, <4>4, <4>5, <4>6, HeldCalls
              DEF Pcs, BasePcs, CreatePcs, Creates
    <3> QED BY <3>3, <3>4
  <2> QED BY <2>1, <2>2
<1> QED BY <1>1, <1>2, <1>3, TypedStep DEF TInv, TypeOK, ulib, counters

LEMMA TypedSetRunning ==
  ASSUME TInv, SetRunning
  PROVE  TInv'
<1>1. Top.pc = "setrunning" /\ Goto("contexts") /\ Top.sel \in Slots
  BY HeldTop DEF SetRunning, At, FrameOk
<1>2. FrameOk([Top EXCEPT !.pc = "contexts"])
  BY <1>1, SameSlots DEF Pcs
<1>3. /\ Shaped(stack') /\ \A i \in 1 .. Len(stack') : FrameOk(stack'[i])
      /\ Pending(stack') <=> Pending(stack)
  BY <1>1, <1>2, HeldGoto DEF Pcs, BasePcs, CreatePcs
<1> QED BY <1>3, TypedStep DEF TInv, TypeOK, SetRunning, counters, At

LEMMA TypedReadContexts ==
  ASSUME TInv, ReadContexts
  PROVE  TInv'
<1> DEFINE f == [Top EXCEPT !.pc = "setcurrent",
                            !.old = context[current_ult], !.new = context[Top.sel]]
<1>1. Top \in Frames /\ FrameOk(Top) /\ Top.pc = "contexts"
  BY HeldTop DEF ReadContexts, At
<1>2. context[current_ult] \in Threads /\ context[Top.sel] \in Threads /\ Top.sel \in Slots
  BY <1>1, SlotFacts DEF FrameOk, Known, Filled, TInv
<1>3. f \in Frames
  BY <1>1, <1>2, Zenon DEF Frames, Pcs
<1>4. /\ f.pc = "setcurrent" /\ f.sel = Top.sel /\ f.ult = Top.ult
      /\ f.old = context[current_ult] /\ f.new = context[Top.sel]
  BY <1>1 DEF Frames
<1>5. stack' = <<f>> \o Tail(stack)
  BY DEF ReadContexts, GotoWith, Below
<1> HIDE DEF f
<1>6. FrameOk(f)
  BY <1>1, <1>2, <1>4 DEF FrameOk
<1>7. /\ Shaped(stack') /\ \A i \in 1 .. Len(stack') : FrameOk(stack'[i])
      /\ Pending(stack') <=> Pending(stack)
  BY <1>1, <1>3, <1>4, <1>5, <1>6, HeldReplaced DEF BasePcs, CreatePcs, Creates
<1> QED BY <1>7, TypedStep DEF TInv, TypeOK, ReadContexts, ulib, counters, At

LEMMA TypedSetCurrent ==
  ASSUME TInv, SetCurrent
  PROVE  TInv'
<1>1. Top.pc = "setcurrent" /\ Goto("swap") /\ Top.sel \in Slots /\ Known(Top.sel)
  BY HeldTop DEF SetCurrent, At, FrameOk
<1>2. FrameOk([Top EXCEPT !.pc = "swap"])
  BY <1>1, SameSlots DEF Pcs
<1>3. /\ Shaped(stack') /\ \A i \in 1 .. Len(stack') : FrameOk(stack'[i])
      /\ Pending(stack') <=> Pending(stack)
  BY <1>1, <1>2, HeldGoto DEF Pcs, BasePcs, CreatePcs
<1>4. Filled(current_ult')
  BY <1>1, SlotFacts DEF SetCurrent, Known
<1> QED BY <1>3, <1>4, TypedStep DEF TInv, TypeOK, SetCurrent, counters, At

LEMMA TypedResume ==
  ASSUME TInv, Resume
  PROVE  TInv'
<1>1. Top.pc = "resumed" /\ ReturnToCaller(TRUE) /\ status = "up"
  BY DEF Resume, At
<1>2. /\ Shaped(stack') /\ \A i \in 1 .. Len(stack') : FrameOk(stack'[i])
      /\ Pending(stack') => Pending(stack)
      /\ status' \in {"up", "exited", "aborted", "wild"}
  BY <1>1, HeldReturned
<1> QED BY <1>1, <1>2, TypedStep DEF TInv, TypeOK, Resume, ulib, counters

LEMMA TypedSignal ==
  ASSUME TInv, Signal
  PROVE  TInv'
<1> DEFINE f == Frame("head")
           g == Frame("handler")
           s == <<g>> \o stack
<1>1. /\ f \in Frames /\ f.pc = "head" /\ FrameOk(f)
      /\ g \in Frames /\ g.pc = "handler" /\ FrameOk(g)
  BY NewFrame, NewFrameOk DEF Pcs
<1>2. Shaped(stack) /\ \A i \in 1 .. Len(stack) : FrameOk(stack[i])
  BY DEF TInv, Held
<1>3. stack' = <<f>> \o s
  BY <1>1, <1>2, TwoPrefixed DEF Signal, Shaped
<1> HIDE DEF f, g
<1>4. /\ Shaped(s) /\ (Pending(s) <=> Pending(stack)) /\ s[1] = g
      /\ Len(s) = Len(stack) + 1 /\ Len(stack) \in Nat \ {0}
      /\ \A i \in 2 .. Len(s) : s[i] = stack[i - 1]
  BY <1>1, <1>2, ShapePushed DEF BasePcs, CreatePcs
<1> HIDE DEF s
<1>5. ASSUME NEW i \in 1 .. Len(s) PROVE FrameOk(s[i])
  <2>1. CASE i = 1
    BY <1>1, <1>4, <2>1
  <2>2. CASE i # 1
    <3> DEFINE l == Len(stack)
               m == Len(s)
    <3>1. l \in Nat \ {0} /\ m = l + 1 /\ i \in 1 .. m
      BY <1>4
    <3> HIDE DEF l, m
    <3>2. i \in 2 .. m /\ i - 1 \in 1 .. l
      BY <2>2, <3>1
    <3> QED BY <1>2, <1>4, <3>2 DEF l, m
  <2> QED BY <2>1, <2>2
<1>6. /\ Shaped(stack') /\ \A i \in 1 .. Len(stack') : FrameOk(stack'[i])
      /\ Pending(stack') <=> Pending(stack)
  BY <1>1, <1>3, <1>4, <1>5, HeldPushed DEF BasePcs, CreatePcs
<1>7. signals' \in 0 .. MaxSignals /\ strayed' \subseteq {"linking", "yielding", "claimed"}
  BY PreemptAssumption DEF Signal, TInv, TypeOK
<1> QED BY <1>6, <1>7, TypedStep DEF TInv, TypeOK, Signal, ulib

\* th_create_context has a number for the new thread: the call on top was counted and has
\* not made its context.
LEMMA TypedMakeContext ==
  ASSUME TInv, MakeContext
  PROVE  TInv'
<1>0. PICK sel, k, u, f : /\ sel = Top.sel /\ k = created + 1 /\ u = UserFrame(k)
                          /\ f = [Top EXCEPT !.pc = "write"]
  OBVIOUS
<1>1. /\ Shaped(stack) /\ Top = stack[1] /\ Top.pc = "makecontext" /\ Top \in Frames
      /\ sel \in Slots /\ Known(Top.ult) /\ \A i \in 1 .. Len(stack) : FrameOk(stack[i])
  BY <1>0, HeldTop DEF MakeContext, At, TInv, Held, FrameOk
<1>2. /\ created' = k /\ context' = [context EXCEPT ![sel] = k]
      /\ saved' = [saved EXCEPT ![k] = <<u>>]
      /\ unfinished' = unfinished \cup {k}
      /\ stack' = <<f>> \o Tail(stack)
      /\ UNCHANGED <<state, head, tail, next, current_ult, calls, signals, yields, status,
                     strayed>>
      /\ status = "up"
  BY <1>0 DEF MakeContext, Goto, Below, At
<1>3. f \in Frames /\ f.pc = "write" /\ f.sel = sel /\ f.ult = Top.ult
  <2>1. "write" \in Pcs
    BY DEF Pcs
  <2> QED BY <1>0, <1>1, <2>1, Relabelled
<1>4. /\ Shaped(stack') /\ Len(stack') = Len(stack) /\ stack'[1] = f /\ Len(stack) \in Nat
      /\ \A i \in 2 .. Len(stack) : stack'[i] = stack[i]
      /\ Pending(stack) /\ ~Pending(stack')
  BY <1>1, <1>2, <1>3, ShapeReplaced DEF BasePcs, CreatePcs, Creates
<1>5. NULL \in Makers
  BY <1>4 DEF Makers
<1>6. k \in Threads /\ k \in Nat /\ k = created + 1 /\ created \in Nat /\ k <= MaxThreads
  <2>1. PICK c : c = Cardinality(Makers)
    OBVIOUS
  <2>2. c \in Nat \ {0}
    BY <1>5, <2>1, MakersFinite, FS_EmptySet
  <2>3. /\ created \in 0 .. MaxThreads /\ calls \in 0 .. MaxThreads
        /\ created + c <= calls
    BY <1>2, <2>1 DEF TInv, TypeOK
  <2> QED BY <1>0, <2>2, <2>3, PreemptAssumption DEF Threads
<1>7. u \in Frames /\ u.pc = "user" /\ u.sel = NULL /\ u.ult = NULL
  <2>1. UserFrame(k) \in Frames
    BY <1>6, Zenon DEF UserFrame, Blank, Frames, NULL, Pcs
  <2> QED BY <1>0, <2>1 DEF UserFrame, Blank
<1>8. /\ context' \in [Slots -> Threads \cup {NULL}] /\ context'[sel] = k
      /\ \A s \in Slots : s # sel => context'[s] = context[s]
  BY <1>1, <1>2, <1>6 DEF TInv, TypeOK
<1>9. \A s : (Filled(s) => s \in Slots /\ context'[s] \in Threads)
  BY <1>6, <1>8 DEF Filled
<1>10. \A g : FrameOk(g) => FrameOk(g)'
  BY <1>9 DEF FrameOk, Known, Filled
<1>11. FrameOk(f)'
  BY <1>1, <1>3, <1>6, <1>8, <1>9 DEF FrameOk, Known, Filled
<1>12. Held(stack)'
  <2>1. ASSUME NEW i \in 1 .. Len(stack') PROVE FrameOk(stack[i])'
    <3>1. CASE i = 1
      BY <1>4, <1>11, <3>1
    <3>2. CASE i # 1
      BY <1>1, <1>4, <1>10, <3>2
    <3> QED BY <3>1, <3>2
  <2> QED BY <1>4, <2>1 DEF Held
<1>13. /\ <<u>> \in Seq(Frames) /\ Len(<<u>>) = 1 /\ <<u>>[1] = u /\ <<u>> # <<>>
  BY <1>7
<1>14. Held(<<u>>)' /\ ~Pending(<<u>>)
  <2> PICK n : n = <<u>>
    OBVIOUS
  <2>1. 1 .. Len(n) = {1} /\ 1 .. Len(n) - 1 = {} /\ Base(n) = u
    BY <1>13 DEF Base
  <2>2. n \in Seq(Frames) /\ n # <<>> /\ n[1] = u
    BY <1>13
  <2>3. Shaped(n)
    BY <1>7, <2>1, <2>2 DEF Shaped, BasePcs, CreatePcs
  <2>4. \A i \in 1 .. Len(n) : FrameOk(n[i])'
    BY <1>7, <2>1, <2>2 DEF FrameOk, Known
  <2>5. ~Pending(n)
    BY <1>13 DEF Pending
  <2> QED BY <2>3, <2>4, <2>5 DEF Held
<1>15. /\ saved' \in [Threads -> Seq(Frames)] /\ saved'[k] = <<u>>
       /\ \A j \in Threads : j # k => saved'[j] = saved[j]
  BY <1>2, <1>6, <1>13 DEF TInv, TypeOK
<1>16. \A j \in Threads : (saved[j] # <<>> => Held(saved[j]))'
  <2> SUFFICES ASSUME NEW j \in Threads, saved'[j] # <<>> PROVE Held(saved[j])'
    OBVIOUS
  <2>1. CASE j = k
    BY <1>14, <1>15, <2>1
  <2>2. CASE j # k
    <3>1. saved'[j] = saved[j] /\ Held(saved[j])
      BY <1>15, <2>2 DEF TInv
    <3> QED BY <1>10, <3>1 DEF Held
  <2> QED BY <2>1, <2>2
<1>17. Makers' \subseteq Makers \ {NULL}
  BY <1>4, <1>14, <1>15, SlotFacts DEF Makers
<1>18. created' + Cardinality(Makers') <= calls'
  <2>1. IsFiniteSet(Makers \ {NULL}) /\ Cardinality(Makers \ {NULL}) = Cardinality(Makers) - 1
    BY <1>5, MakersFinite, FS_RemoveElement
  <2>2. Cardinality(Makers') <= Cardinality(Makers \ {NULL}) /\ Cardinality(Makers') \in Nat
    BY <1>17, <2>1, FS_Subset, FS_CardinalityType
  <2> QED BY <1>2, <1>6, <2>1, <2>2, MakersFinite DEF TInv, TypeOK
<1>19. TypeOK'
  <2>1. stack' \in Seq(Frames) /\ created' \in 0 .. MaxThreads /\ unfinished' \subseteq Threads
    <3>1. created' \in 0 .. MaxThreads
      BY <1>2, <1>6, PreemptAssumption
    <3>2. unfinished' \subseteq Threads
      BY <1>2, <1>6 DEF TInv, TypeOK
    <3> QED BY <1>4, <3>1, <3>2 DEF Shaped
  <2> QED BY <1>2, <1>8, <1>15, <2>1 DEF TInv, TypeOK
<1>20. (Known(head) /\ Known(tail) /\ Filled(current_ult) /\ \A s \in Slots : Known(next[s]))'
  BY <1>2, <1>9 DEF TInv, Known, Filled
<1> QED BY <1>12, <1>16, <1>18, <1>19, <1>20 DEF TInv

\* swapcontext moves the stacks of two threads; the calls of th_create move with them.
LEMMA TypedSwapContext ==
  ASSUME TInv, SwapContext
  PROVE  TInv'
<1> DEFINE r == [Top EXCEPT !.pc = "resumed"]
           z == <<r>> \o Tail(stack)
<1>0. PICK n, o : n = Top.new /\ o = Top.old
  OBVIOUS
<1> DEFINE suspended == [saved EXCEPT ![o] = z]
<1>1. /\ Shaped(stack) /\ Top = stack[1] /\ Top.pc = "swap" /\ Top \in Frames /\ FrameOk(Top)
      /\ o \in Threads /\ n \in Threads /\ \A i \in 1 .. Len(stack) : FrameOk(stack[i])
      /\ status = "up"
  BY <1>0, HeldTop DEF SwapContext, At, FrameOk, TInv, Held
<1>2. r \in Frames /\ r.pc = "resumed" /\ FrameOk(r)
  <2>1. FrameOk(r)
    BY <1>1, SameSlots DEF Pcs
  <2> QED BY <1>1, <2>1, Relabelled DEF Pcs
<1>3. /\ saved' = [suspended EXCEPT ![n] = <<>>]
      /\ status' = IF suspended[n] = <<>> THEN "wild" ELSE status
      /\ stack' = IF suspended[n] = <<>> THEN stack ELSE suspended[n]
      /\ UNCHANGED <<state, context, head, tail, next, current_ult, unfinished, counters,
                     strayed>>
  BY <1>0 DEF SwapContext, Below
<1> HIDE DEF r
<1>4. Held(z) /\ (Pending(z) <=> Pending(stack)) /\ z \in Seq(Frames) /\ z # <<>>
  <2>1. /\ Shaped(z) /\ (Pending(z) <=> Pending(stack)) /\ z[1] = r /\ Len(z) = Len(stack)
        /\ Len(stack) \in Nat /\ \A i \in 2 .. Len(stack) : z[i] = stack[i]
    BY <1>1, <1>2, ShapeReplaced DEF BasePcs, CreatePcs, Creates
  <2> HIDE DEF z
  <2>2. ASSUME NEW i \in 1 .. Len(z) PROVE FrameOk(z[i])
    <3>1. i = 1 \/ i \in 2 .. Len(stack)
      BY <2>1
    <3> QED BY <1>1, <1>2, <2>1, <3>1
  <2> QED BY <2>1, <2>2 DEF Held, Shaped
<1> HIDE DEF z
<1>5. /\ suspended \in [Threads -> Seq(Frames)] /\ suspended[o] = z
      /\ \A k \in Threads : k # o => suspended[k] = saved[k]
  BY <1>1, <1>4 DEF TInv, TypeOK
<1>6. \A k \in Threads : suspended[k] # <<>> => Held(suspended[k])
  BY <1>4, <1>5 DEF TInv
<1> HIDE DEF suspended
<1>7. /\ saved' \in [Threads -> Seq(Frames)] /\ saved'[n] = <<>>
      /\ \A k \in Threads : k # n => saved'[k] = suspended[k]
  <2>1. <<>> \in Seq(Frames)
    BY EmptySeq
  <2> QED BY <1>1, <1>3, <1>5, <2>1
<1>8. \A s : Filled(s)' <=> (s \in Slots /\ context[s] \in Threads)
  BY <1>3 DEF Filled
<1>9. \A g : Held(g)' <=> Held(g)
  BY <1>3 DEF Held, FrameOk, Known, Filled
<1>10. Held(stack') /\ status' \in {"up", "wild"}
  BY <1>1, <1>3, <1>6, Zenon DEF TInv
<1>11. Held(stack)' /\ \A k \in Threads : (saved[k] # <<>> => Held(saved[k]))'
  <2>1. \A k \in Threads : saved'[k] # <<>> => Held(saved'[k])
    BY <1>6, <1>7
  <2> QED BY <1>3, <1>10, <2>1 DEF Held, FrameOk, Known, Filled
<1>12. status' = "up" => created' + Cardinality(Makers') <= calls'
  <2> SUFFICES ASSUME status' = "up" PROVE created' + Cardinality(Makers') <= calls'
    OBVIOUS
  <2>1. stack' = suspended[n] /\ suspended[n] # <<>>
    BY <1>3
  <2>2. created' = created /\ calls' = calls /\ created \in Nat /\ calls \in Nat
        /\ created + Cardinality(Makers) <= calls
    BY <1>1, <1>3, PreemptAssumption DEF counters, TInv, TypeOK
  <2>3. ~Pending(<<>>)
    BY DEF Pending
  <2> DEFINE M == Makers \ {NULL, n}
  <2>4. IsFiniteSet(M) /\ Cardinality(M) \in Nat
        /\ Cardinality(M) + (IF NULL \in Makers THEN 1 ELSE 0)
             + (IF n \in Makers THEN 1 ELSE 0) = Cardinality(Makers)
    <3>1. IsFiniteSet(Makers \ {NULL}) /\ Cardinality(Makers \ {NULL}) \in Nat
          /\ Cardinality(Makers \ {NULL}) = Cardinality(Makers)
                                            - (IF NULL \in Makers THEN 1 ELSE 0)
      BY MakersFinite, FS_RemoveElement, FS_CardinalityType
    <3>2. M = (Makers \ {NULL}) \ {n} /\ (n \in Makers <=> n \in Makers \ {NULL})
      BY <1>1, SlotFacts
    <3>3. IsFiniteSet(M) /\ Cardinality(M) \in Nat
          /\ Cardinality(M) = Cardinality(Makers \ {NULL}) - (IF n \in Makers THEN 1 ELSE 0)
      <4> DEFINE K == Makers \ {NULL}
      <4> HIDE DEF K
      <4>1. IsFiniteSet(K) /\ M = K \ {n}
        BY <3>1, <3>2 DEF K
      <4> HIDE DEF M
      <4>2. IsFiniteSet(K \ {n}) /\ Cardinality(K \ {n}) \in Nat
            /\ Cardinality(K \ {n}) = IF n \in K THEN Cardinality(K) - 1 ELSE Cardinality(K)
        BY <4>1, FS_RemoveElement, FS_CardinalityType
      <4>3. Cardinality(K) \in Nat
        BY <3>1 DEF K
      <4>4. Cardinality(K \ {n}) = Cardinality(K) - (IF n \in K THEN 1 ELSE 0)
        BY <4>2, <4>3
      <4>5. n \in K <=> n \in Makers
        BY <3>2 DEF K
      <4> QED BY <4>1, <4>2, <4>4, <4>5 DEF K
    <3> QED BY <3>1, <3>3, MakersFinite
  <2>5. /\ n \in Makers <=> Pending(saved[n])
        /\ NULL \in Makers <=> Pending(stack)
    BY <1>1, SlotFacts DEF Makers
  <2>6. /\ NULL \in Makers' <=> Pending(stack')
        /\ n \notin Makers'
        /\ \A k \in Threads : k # n => (k \in Makers' <=> Pending(suspended[k]))
        /\ \A k \in Threads : k # n => (k \in Makers <=> Pending(saved[k]))
    BY <1>1, <1>7, <2>3, SlotFacts DEF Makers
  <2>7. CASE n = o
    <3>1. Makers' \subseteq M \cup {NULL} /\ (NULL \in Makers' => NULL \in Makers)
      BY <1>4, <1>5, <2>1, <2>5, <2>6, <2>7 DEF Makers
    <3>2. Cardinality(M \cup {NULL}) = Cardinality(M) + 1 /\ IsFiniteSet(M \cup {NULL})
      <4>1. NULL \notin M
        OBVIOUS
      <4> QED BY <2>4, <4>1, FS_AddElement
    <3>3. CASE NULL \in Makers
      <4>1. Cardinality(Makers') \in Nat /\ Cardinality(Makers') <= Cardinality(M) + 1
        BY <3>1, <3>2, FS_Subset, FS_CardinalityType
      <4> QED BY <2>2, <2>4, <3>3, <4>1, MakersFinite
    <3>4. CASE NULL \notin Makers
      <4>1. Makers' \subseteq M
        BY <3>1, <3>4
      <4>2. Cardinality(Makers') \in Nat /\ Cardinality(Makers') <= Cardinality(M)
        BY <2>4, <4>1, FS_Subset, FS_CardinalityType
      <4> QED BY <2>2, <2>4, <4>2, MakersFinite
    <3> QED BY <3>3, <3>4
  <2>8. CASE n # o
    <3> DEFINE A == IF Pending(stack) THEN M \cup {o} ELSE M
               B == IF Pending(saved[n]) THEN A \cup {NULL} ELSE A
    <3>1. suspended[n] = saved[n]
      BY <1>1, <1>5, <2>8
    <3>2. Makers' \subseteq B
      <4> SUFFICES ASSUME NEW k \in Makers' PROVE k \in B
        OBVIOUS
      <4>1. CASE k = NULL
        BY <2>1, <2>6, <3>1, <4>1
      <4>2. CASE k # NULL
        <5>1. k \in Threads /\ k # n
          BY <2>6, <4>2 DEF Makers
        <5>2. Pending(suspended[k])
          BY <2>6, <5>1
        <5>3. CASE k = o
          BY <1>4, <1>5, <5>2, <5>3
        <5>4. CASE k # o
          BY <1>5, <2>6, <4>2, <5>1, <5>2, <5>4
        <5> QED BY <5>3, <5>4
      <4> QED BY <4>1, <4>2
    <3>3. IsFiniteSet(A) /\ Cardinality(A) \in Nat
          /\ Cardinality(A) <= Cardinality(M) + (IF Pending(stack) THEN 1 ELSE 0)
      <4>1. IsFiniteSet(M \cup {o}) /\ Cardinality(M \cup {o}) \in Nat
            /\ Cardinality(M \cup {o}) <= Cardinality(M) + 1
        <5>1. Cardinality(M \cup {o}) = IF o \in M THEN Cardinality(M) ELSE Cardinality(M) + 1
          BY <2>4, FS_AddElement
        <5>2. IsFiniteSet(M \cup {o})
          BY <2>4, FS_AddElement
        <5> QED BY <2>4, <5>1, <5>2
      <4> QED BY <2>4, <4>1
    <3>4. IsFiniteSet(B) /\ Cardinality(B) \in Nat
          /\ Cardinality(B) <= Cardinality(A) + (IF Pending(saved[n]) THEN 1 ELSE 0)
      <4>1. IsFiniteSet(A \cup {NULL}) /\ Cardinality(A \cup {NULL}) \in Nat
            /\ Cardinality(A \cup {NULL}) <= Cardinality(A) + 1
        <5> HIDE DEF A
        <5>1. Cardinality(A \cup {NULL}) =
                IF NULL \in A THEN Cardinality(A) ELSE Cardinality(A) + 1
          BY <3>3, FS_AddElement
        <5>2. IsFiniteSet(A \cup {NULL})
          BY <3>3, FS_AddElement
        <5> QED BY <3>3, <5>1, <5>2
      <4> HIDE DEF A
      <4> QED BY <3>3, <4>1
    <3> HIDE DEF A, B
    <3>5. Cardinality(Makers') \in Nat /\ Cardinality(Makers') <= Cardinality(B)
      BY <3>2, <3>4, FS_Subset, FS_CardinalityType
    <3> HIDE DEF M
    <3> QED BY <2>2, <2>4, <2>5, <3>3, <3>4, <3>5, MakersFinite
  <2> QED BY <2>7, <2>8
<1>13. TypeOK'
  <2>1. stack' \in Seq(Frames)
    BY <1>10 DEF Held, Shaped
  <2> QED BY <1>3, <1>7, <1>10, <2>1 DEF TInv, TypeOK, counters
<1>14. (Known(head) /\ Known(tail) /\ Filled(current_ult) /\ \A s \in Slots : Known(next[s]))'
  BY <1>3 DEF TInv, Known, Filled
<1> QED BY <1>11, <1>12, <1>13, <1>14 DEF TInv

LEMMA TypedInit ==
  ASSUME Init
  PROVE  TInv
<1> DEFINE u == UserFrame(0)
<1>1. 0 \in Threads /\ Main = 0 /\ Main \in Slots
  BY PreemptAssumption, SlotFacts DEF Threads, Main
<1>2. u \in Frames /\ u.pc = "user" /\ u.sel = NULL /\ u.ult = NULL
  <2>1. u \in Frames
    BY <1>1, Zenon DEF UserFrame, Blank, Frames, NULL, Pcs
  <2> QED BY <2>1 DEF UserFrame, Blank
<1>3. stack = <<u>>
  BY DEF Init
<1> HIDE DEF u
<1>4. /\ stack \in Seq(Frames) /\ stack # <<>> /\ Len(stack) = 1 /\ stack[1] = u
      /\ Base(stack) = u /\ ~Pending(stack)
  BY <1>2, <1>3 DEF Base, Pending
<1>5. Held(stack)
  <2>1. 1 .. Len(stack) = {1} /\ 1 .. Len(stack) - 1 = {}
    BY <1>4
  <2>2. Shaped(stack)
    BY <1>2, <1>4, <2>1 DEF Shaped, BasePcs, CreatePcs
  <2>3. FrameOk(u)
    BY <1>2 DEF FrameOk, Known
  <2> QED BY <1>4, <2>1, <2>2, <2>3 DEF Held
<1>6. saved = [k \in Threads |-> <<>>] /\ <<>> \in Seq(Frames)
  BY EmptySeq DEF Init
<1>7. TypeOK
  BY <1>1, <1>4, <1>6, PreemptAssumption DEF Init, TypeOK, Main
<1>8. Makers = {}
  <2>1. ~Pending(<<>>)
    BY DEF Pending
  <2> QED BY <1>4, <1>6, <2>1 DEF Makers
<1>9. created + Cardinality(Makers) <= calls
  BY <1>8, FS_EmptySet DEF Init
<1>10. Known(head) /\ Known(tail) /\ Filled(current_ult) /\ \A s \in Slots : Known(next[s])
  BY <1>1 DEF Init, Known, Filled
<1> QED BY <1>5, <1>6, <1>7, <1>9, <1>10 DEF TInv

LEMMA TypedUnchanged ==
  ASSUME TInv, UNCHANGED vars
  PROVE  TInv'
<1>1. UNCHANGED <<state, context, head, tail, next, current_ult, saved, stack, unfinished,
                  created, calls, signals, yields, strayed, status>>
  BY DEF vars, ulib, counters
<1>2. Makers' = Makers /\ TypeOK'
  BY <1>1 DEF Makers, TInv, TypeOK
<1>3. Held(stack)' /\ \A k \in Threads : (saved[k] # <<>> => Held(saved[k]))'
  BY <1>1 DEF TInv, Held, FrameOk, Known, Filled
<1>4. (Known(head) /\ Known(tail) /\ Filled(current_ult) /\ \A s \in Slots : Known(next[s]))'
  BY <1>1 DEF TInv, Known, Filled
<1> QED BY <1>1, <1>2, <1>3, <1>4 DEF TInv

LEMMA StepTyped ==
  ASSUME TInv, [Next]_vars
  PROVE  TInv'
<1>1. CASE Library
  <2>1. CASE ScanSlots \/ MakeContext \/ WriteTCB \/ YieldAfterCreate
    BY <2>1, TypedScanSlots, TypedMakeContext, TypedWriteTCB, TypedYieldAfterCreate
  <2>2. CASE SetReady \/ SetHead \/ LinkTail \/ SetTail \/ EndList
    BY <2>2, TypedEnqueue, TypedEndList
  <2>3. CASE ReadHead \/ PopHead \/ TestSelected \/ SetRunning \/ ReadContexts
    BY <2>3, TypedReadHead, TypedPopHead, TypedTestSelected, TypedSetRunning,
       TypedReadContexts
  <2>4. CASE SetCurrent \/ SwapContext \/ Resume
    BY <2>4, TypedSetCurrent, TypedSwapContext, TypedResume
  <2> QED BY <1>1, <2>1, <2>2, <2>3, <2>4 DEF Library
<1>2. CASE UserCreates \/ UserYields \/ UserReturns \/ MarkFree \/ Drain
  BY <1>2, TypedCalls, TypedUserReturns, TypedMarkFree
<1>3. CASE Signal
  BY <1>3, TypedSignal
<1>4. CASE Gone \/ UNCHANGED vars
  BY <1>4, TypedUnchanged DEF Gone
<1> QED BY <1>1, <1>2, <1>3, <1>4 DEF Next

\* hilolay's types, wherever SIGALRM arrives: every slot, link, frame and counter stays in
\* its range, the table never gets a slot that does not exist, every slot that is queued,
\* selected or resumed was given a context, and no more contexts are made than th_create is
\* called, however the handlers' th_yields cut through it.
THEOREM TypeCorrect == Spec => []TypeOK
<1>1. Init => TInv
  BY TypedInit
<1>2. TInv /\ [Next]_vars => TInv'
  BY StepTyped
<1>3. TInv => TypeOK
  BY DEF TInv
<1> QED BY <1>1, <1>2, <1>3, PTL DEF Spec
-------------------------------------------------------------------------------
(* The stacks until a signal strays *)

\* The frames that may have others above them.
KeptPcs == {"scan", "makecontext", "write", "yieldnow", "created", "head", "resumed", "handler"}
QuietPcs == BasePcs \cup KeptPcs \cup {"pop"}

WellFormed(frames) ==
  /\ Shaped(frames)
  /\ \A i \in 2 .. Len(frames) - 1 :
       \/ frames[i].pc \in KeptPcs
       \/ i = 2 /\ frames[2].pc = "setrunning" /\ frames[1].pc \in ListPcs
  /\ frames[1].pc \in ListPcs =>
       Len(frames) >= 2 /\ frames[2].pc \in {"setrunning", "yieldnow"}

\* A th_create that has chosen its slot, and one that has given it a context; a frame that
\* swapcontext resumes; a thread that th_return has ended.
Claiming(frames) ==
  Len(frames) >= 2 /\ frames[Len(frames) - 1].pc \in {"makecontext", "write"}
Writing(frames) == Len(frames) >= 2 /\ frames[Len(frames) - 1].pc = "write"
Chosen(frames) == frames[Len(frames) - 1].sel
Resumes(frames) == \E i \in 1 .. Len(frames) : frames[i].pc = "resumed"
Unreachable(frames) == Base(frames).pc = "unreachable"

\* The calls of th_create and of swapcontext stand in one stack as in the other.
SameClaims(frames, before) ==
  /\ Claiming(frames) <=> Claiming(before)
  /\ Writing(frames) <=> Writing(before)
  /\ Claiming(frames) => Chosen(frames) = Chosen(before)

Follows(frames, before) ==
  /\ WellFormed(frames)
  /\ Base(frames) = Base(before)
  /\ Pending(frames) <=> Pending(before)
  /\ Resumes(frames) => Resumes(before)

Continues(frames, before) == Follows(frames, before) /\ SameClaims(frames, before)

LEMMA ContinuesOn ==
  ASSUME NEW a, NEW b, NEW c, Continues(a, b), Continues(b, c)
  PROVE  Continues(a, c)
BY DEF Continues, Follows, SameClaims

LEMMA WritingClaims ==
  ASSUME NEW s, Writing(s)
  PROVE  Claiming(s)
BY DEF Writing, Claiming

\* A stack has a frame, and a frame above the first unless it is the first.
LEMMA StackFacts ==
  ASSUME NEW s, WellFormed(s)
  PROVE  /\ Len(s) \in Nat \ {0}
         /\ \A i \in 1 .. Len(s) : s[i] \in Frames
         /\ s[1].pc \in BasePcs <=> Len(s) = 1
         /\ Tail(s) \in Seq(Frames) /\ Len(Tail(s)) = Len(s) - 1
         /\ \A i \in 1 .. Len(s) - 1 : Tail(s)[i] = s[i + 1]
BY ShapeFacts DEF WellFormed

\* The next statement of the call on top.
LEMMA TopReplaced ==
  ASSUME NEW s, WellFormed(s), NEW f \in Frames,
         f.pc \notin BasePcs, s[1].pc \notin BasePcs,
         f.pc \in CreatePcs => s[1].pc \in CreatePcs,
         f.pc \in ListPcs <=> s[1].pc \in ListPcs,
         Creates(f) <=> Creates(s[1])
  PROVE  /\ f.pc # "resumed" => Follows(<<f>> \o Tail(s), s)
         /\ f.pc # "resumed" /\ f.pc \notin {"makecontext", "write"}
              /\ s[1].pc \notin {"makecontext", "write"} => Continues(<<f>> \o Tail(s), s)
         /\ f.pc \notin {"makecontext", "write"} /\ s[1].pc \notin {"makecontext", "write"} =>
              SameClaims(<<f>> \o Tail(s), s)
         /\ WellFormed(<<f>> \o Tail(s)) /\ Base(<<f>> \o Tail(s)) = Base(s)
         /\ Pending(<<f>> \o Tail(s)) <=> Pending(s)
         /\ Len(<<f>> \o Tail(s)) = Len(s) /\ Len(s) >= 2
         /\ (<<f>> \o Tail(s))[1] = f
         /\ (<<f>> \o Tail(s))[2] = s[2]
<1> DEFINE n == <<f>> \o Tail(s)
<1>1. /\ Len(s) \in Nat \ {0, 1} /\ Shaped(n) /\ Base(n) = Base(s) /\ Len(n) = Len(s)
      /\ n[1] = f /\ \A i \in 2 .. Len(s) : n[i] = s[i]
      /\ Pending(n) <=> Pending(s)
  BY ShapeReplaced DEF WellFormed
<1> HIDE DEF n
<1>2. WellFormed(n)
  BY <1>1 DEF WellFormed
<1>3. f.pc \notin {"makecontext", "write"} /\ s[1].pc \notin {"makecontext", "write"} =>
        SameClaims(n, s)
  <2>1. CASE Len(s) = 2
    BY <1>1, <2>1 DEF SameClaims, Claiming, Writing
  <2>2. CASE Len(s) # 2
    <3>1. n[Len(n) - 1] = s[Len(s) - 1]
      BY <1>1, <2>2
    <3> QED BY <1>1, <3>1 DEF SameClaims, Claiming, Writing, Chosen
  <2> QED BY <2>1, <2>2
<1>4. f.pc # "resumed" => (Resumes(n) => Resumes(s))
  BY <1>1 DEF Resumes
<1>5. Len(s) >= 2 /\ n[2] = s[2]
  BY <1>1
<1>6. f.pc # "resumed" => Follows(n, s)
  BY <1>1, <1>2, <1>4 DEF Follows
<1>7. f.pc # "resumed" /\ f.pc \notin {"makecontext", "write"}
        /\ s[1].pc \notin {"makecontext", "write"} => Continues(n, s)
  BY <1>3, <1>6 DEF Continues
<1> QED BY <1>1, <1>2, <1>3, <1>5, <1>6, <1>7 DEF n

\* The next statement of a thread's own code.
LEMMA BaseReplaced ==
  ASSUME NEW s, WellFormed(s), s[1].pc \in BasePcs, NEW f \in Frames, f.pc \in BasePcs
  PROVE  /\ WellFormed(<<f>> \o Tail(s)) /\ Base(<<f>> \o Tail(s)) = f
         /\ Len(<<f>> \o Tail(s)) = 1 /\ (<<f>> \o Tail(s))[1] = f
         /\ Base(s) = s[1] /\ ~Pending(s) /\ ~Pending(<<f>> \o Tail(s))
         /\ ~Claiming(s) /\ ~Claiming(<<f>> \o Tail(s))
<1> DEFINE n == <<f>> \o Tail(s)
<1>1. /\ Shaped(n) /\ Base(n) = f /\ Len(n) = 1 /\ n[1] = f
      /\ Base(s) = s[1] /\ ~Pending(s) /\ ~Pending(n)
  BY ShapeOfBase DEF WellFormed
<1>2. Len(s) = 1
  BY StackFacts
<1> HIDE DEF n
<1>3. f.pc \notin ListPcs
  BY DEF BasePcs, ListPcs
<1>4. 2 .. Len(n) - 1 = {}
  BY <1>1
<1>5. WellFormed(n)
  BY <1>1, <1>3, <1>4 DEF WellFormed
<1> QED BY <1>1, <1>2, <1>5 DEF Claiming, n

\* A call made from the frame on top.
LEMMA FramePushed ==
  ASSUME NEW s, WellFormed(s), NEW f \in Frames, f.pc \notin BasePcs,
         \/ s[1].pc \in BasePcs \cup KeptPcs /\ f.pc \notin ListPcs
         \/ s[1].pc \in {"setrunning", "yieldnow"} /\ f.pc \in ListPcs,
         f.pc \notin CreatePcs, f.pc # "resumed"
  PROVE  /\ Continues(<<f>> \o s, s)
         /\ Len(<<f>> \o s) >= 2
         /\ (<<f>> \o s)[1] = f
         /\ (<<f>> \o s)[2] = s[1]
<1> DEFINE n == <<f>> \o s
<1>1. /\ Len(s) \in Nat \ {0} /\ Shaped(n) /\ Base(n) = Base(s) /\ Len(n) = Len(s) + 1
      /\ n[1] = f /\ \A i \in 2 .. Len(n) : n[i] = s[i - 1]
      /\ Pending(n) <=> Pending(s)
  BY ShapePushed DEF WellFormed
<1> HIDE DEF n
<1>2. WellFormed(n)
  <2>1. ASSUME NEW i \in 2 .. Len(n) - 1
        PROVE  \/ n[i].pc \in KeptPcs
               \/ i = 2 /\ n[2].pc = "setrunning" /\ n[1].pc \in ListPcs
    <3>1. i - 1 \in 1 .. Len(s) - 1 /\ n[i] = s[i - 1]
      BY <1>1
    <3>2. s[i - 1].pc \notin BasePcs
      BY <3>1 DEF WellFormed, Shaped
    <3>3. CASE i = 2
      BY <1>1, <3>1, <3>2, <3>3 DEF KeptPcs
    <3>4. CASE i # 2
      <4>1. i - 1 \in 2 .. Len(s) - 1
        BY <3>1, <3>4
      <4>2. \/ s[i - 1].pc \in KeptPcs
            \/ i - 1 = 2 /\ s[2].pc = "setrunning" /\ s[1].pc \in ListPcs
        BY <4>1 DEF WellFormed
      <4>3. s[1].pc \notin ListPcs
        BY DEF BasePcs, KeptPcs, ListPcs
      <4> QED BY <3>1, <4>2, <4>3
    <3> QED BY <3>3, <3>4
  <2>2. n[1].pc \in ListPcs => Len(n) >= 2 /\ n[2].pc \in {"setrunning", "yieldnow"}
    BY <1>1 DEF BasePcs, KeptPcs
  <2> QED BY <1>1, <2>1, <2>2 DEF WellFormed
<1>3. SameClaims(n, s)
  <2>1. CASE Len(s) = 1
    BY <1>1, <2>1 DEF SameClaims, Claiming, Writing, CreatePcs
  <2>2. CASE Len(s) # 1
    <3> DEFINE l == Len(s)
               m == Len(n)
    <3>0. l \in Nat \ {0} /\ l # 1 /\ m = l + 1
      BY <1>1, <2>2
    <3> HIDE DEF l, m
    <3>1. m - 1 = l /\ l \in 2 .. m /\ l - 1 >= 1 /\ m >= 2 /\ l >= 2
      BY <3>0
    <3>2. n[m - 1] = s[l - 1]
      BY <1>1, <3>1 DEF m
    <3> QED BY <3>1, <3>2 DEF SameClaims, Claiming, Writing, Chosen, l, m
  <2> QED BY <2>1, <2>2
<1>4. Resumes(n) => Resumes(s)
  BY <1>1 DEF Resumes
<1> QED BY <1>1, <1>2, <1>3, <1>4 DEF Continues, Follows, n

\* A call that returns to the frame under it.
LEMMA FramePopped ==
  ASSUME NEW s, WellFormed(s), s[1].pc \notin BasePcs
  PROVE  /\ Len(s) >= 2 /\ Tail(s)[1] = s[2]
         /\ WellFormed(Tail(s)) /\ Base(Tail(s)) = Base(s)
         /\ s[1].pc \notin {"scan", "makecontext", "write"} => Continues(Tail(s), s)
         /\ s[1].pc \notin {"makecontext", "write"} => SameClaims(Tail(s), s)
         /\ ~Pending(Tail(s)) \/ ~Creates(s[1])
         /\ s[2].pc \in BasePcs \cup KeptPcs \cup {"setrunning"}
         /\ s[2].pc = "setrunning" => s[1].pc \in ListPcs
<1> DEFINE n == Tail(s)
<1>1. /\ Len(s) \in Nat \ {0, 1} /\ Len(n) = Len(s) - 1
      /\ \A i \in 1 .. Len(n) : n[i] = s[i + 1]
      /\ Shaped(n) /\ Base(n) = Base(s)
      /\ ~Creates(s[1]) => (Pending(n) <=> Pending(s))
      /\ Creates(s[1]) => ~Pending(n)
  BY ShapePopped DEF WellFormed
<1> HIDE DEF n
<1>2. /\ s[2].pc \in BasePcs \cup KeptPcs \cup {"setrunning"}
      /\ s[2].pc = "setrunning" => s[1].pc \in ListPcs
  <2>1. CASE Len(s) = 2
    BY <2>1 DEF WellFormed, Shaped, Base, BasePcs
  <2>2. CASE Len(s) # 2
    <3>1. 2 \in 2 .. Len(s) - 1
      BY <1>1, <2>2
    <3> QED BY <3>1 DEF WellFormed, KeptPcs
  <2> QED BY <2>1, <2>2
<1>3. WellFormed(n)
  <2>1. ASSUME NEW i \in 2 .. Len(n) - 1 PROVE n[i].pc \in KeptPcs
    <3>1. i + 1 \in 2 .. Len(s) - 1 /\ i + 1 # 2 /\ n[i] = s[i + 1]
      BY <1>1
    <3> QED BY <3>1 DEF WellFormed
  <2>2. n[1].pc \notin ListPcs
    BY <1>1, <1>2 DEF BasePcs, KeptPcs, ListPcs
  <2> QED BY <1>1, <2>1, <2>2 DEF WellFormed
<1>4. Resumes(n) => Resumes(s)
  BY <1>1 DEF Resumes
<1>5. s[1].pc \notin {"makecontext", "write"} => SameClaims(n, s)
  <2>1. CASE Len(s) = 2
    BY <1>1, <2>1 DEF SameClaims, Claiming, Writing
  <2>2. CASE Len(s) # 2
    <3>1. n[Len(n) - 1] = s[Len(s) - 1] /\ Len(n) >= 2
      BY <1>1, <2>2
    <3> QED BY <1>1, <3>1 DEF SameClaims, Claiming, Writing, Chosen
  <2> QED BY <2>1, <2>2
<1>6. s[1].pc \notin {"scan", "makecontext", "write"} => ~Creates(s[1])
  BY DEF Creates
<1>7. Len(s) >= 2 /\ n[1] = s[2]
  BY <1>1
<1> QED BY <1>1, <1>2, <1>3, <1>4, <1>5, <1>6, <1>7 DEF Continues, Follows, n
-------------------------------------------------------------------------------
(* The invariant *)

Running == ThreadOf(stack)

\* The stack of thread k, <<>> when it has none.
StackOf(k) == IF k = Running THEN stack ELSE saved[k]

PendingSet == {k \in Threads : Pending(StackOf(k))}

\* A call of th_create that has not made its context still has its number to use.
Counters == /\ created \in Nat /\ calls \in 0 .. MaxThreads
            /\ signals \in 0 .. MaxSignals /\ yields \in 0 .. MaxYields
            /\ created + Cardinality(PendingSet) <= calls

Tables == /\ state \in [Slots -> {"FREE", "RUNNING", "READY"}]
          /\ context \in [Slots -> Threads \cup {NULL}]
          /\ head \in Slots \cup {NULL} /\ tail \in Slots \cup {NULL}
          /\ next \in [Slots -> Slots \cup {NULL}]
          /\ current_ult \in Slots
          /\ saved \in [Threads -> Seq(Frames)]
          /\ unfinished \subseteq Threads

\* The main thread is never in th_return's first branch, and a thread whose function
\* has ended is past its own code.
StackOk(k) == /\ WellFormed(StackOf(k)) /\ ThreadOf(StackOf(k)) = k
              /\ k <= created
              /\ Base(StackOf(k)).pc \in {"free", "unreachable"} => k # 0
              /\ Base(StackOf(k)).pc # "user" => k \notin unfinished

Stacks == /\ Running \in Threads /\ stack # <<>>
          /\ \A k \in Threads : StackOf(k) # <<>> => StackOk(k)
          /\ \A k \in Threads : k # Running /\ saved[k] # <<>> =>
               saved[k][1].pc \in {"user", "resumed"}

\* A slot that is not FREE owns the thread of its context, which has a stack and has not
\* returned; a th_create that has not written its slot owns the thread it has made; only a
\* thread that has returned stands in a FREE slot.
Owns(s) == /\ context[s] \in Threads
           /\ StackOf(context[s]) # <<>>
           /\ ~Unreachable(StackOf(context[s]))

HasOwner(k) ==
  \/ \E s \in Slots : state[s] # "FREE" /\ context[s] = k
  \/ \E c \in Threads : Writing(StackOf(c)) /\ context[Chosen(StackOf(c))] = k

Owners ==
  /\ state[Main] # "FREE" /\ context[Main] = 0
  /\ \A s \in Slots : state[s] # "FREE" => Owns(s)
  /\ \A s, t \in Slots :
       state[s] # "FREE" /\ state[t] # "FREE" /\ context[s] = context[t] => s = t
  /\ \A k \in unfinished : HasOwner(k)
  /\ state[current_ult] = "FREE" => Unreachable(stack)
  /\ Unreachable(stack) => ~Resumes(stack)
  /\ Top.pc # "swap" => context[current_ult] = Running

\* The slot th_create has chosen, once it has the context of the new thread.
Fresh(s) == /\ s \in Slots /\ Owns(s)
            /\ \A t \in Slots : state[t] # "FREE" => context[t] # context[s]

\* The calls of th_create that have chosen a slot and not written it: each is made by a
\* thread that has a slot, and no two have the same slot or the same new thread.
Claimants ==
  /\ \A c \in Threads : Claiming(StackOf(c)) =>
       /\ Chosen(StackOf(c)) \in Slots /\ state[Chosen(StackOf(c))] = "FREE"
       /\ \E s \in Slots : state[s] # "FREE" /\ context[s] = c
       /\ Writing(StackOf(c)) => Fresh(Chosen(StackOf(c)))
  /\ \A c, d \in Threads :
       Claiming(StackOf(c)) /\ Claiming(StackOf(d)) /\ c # d =>
         /\ Chosen(StackOf(c)) # Chosen(StackOf(d))
         /\ Writing(StackOf(c)) /\ Writing(StackOf(d)) =>
              context[Chosen(StackOf(c))] # context[Chosen(StackOf(d))]

Statuses == status \in {"up", "exited"} /\ (status = "exited" => unfinished = {})

\* The ready list as a sequence of slots.
First(q) == IF q = <<>> THEN NULL ELSE q[1]
Links(q) == /\ \A i, j \in 1 .. Len(q) : q[i] = q[j] => i = j
            /\ \A i \in 1 .. Len(q) - 1 : next[q[i]] = q[i + 1]
EndsAt(q, u) == q # <<>> => next[q[Len(q)]] = u
TailLast(q) == q # <<>> => tail = q[Len(q)]
Chain(q) == Links(q) /\ EndsAt(q, NULL) /\ head = First(q) /\ TailLast(q)

\* The READY slots are those of the list and some others, that are not on it.
Listed(q, others) ==
  /\ \A i \in 1 .. Len(q) : state[q[i]] = "READY" /\ q[i] \notin others
  /\ \A s \in Slots : state[s] = "READY" /\ s \notin others => \E i \in 1 .. Len(q) : q[i] = s
  /\ \A s \in others : s \in Slots /\ state[s] = "READY"

Only(s) == \A t \in Slots : state[t] = "RUNNING" => t = s

\* No slot is on its way into or out of the list.
Quiet(q) == Chain(q) /\ Listed(q, {}) /\ Only(current_ult) /\ state[current_ult] # "READY"

\* lib_enqueue, called by th_create for a new slot or by th_yield for the running one.
Listing(q) ==
  LET u == Top.ult
      sel == stack[2].sel
  IN /\ Links(q) /\ u \in Slots
     /\ EndsAt(q, IF Top.pc \in {"settail", "endlist"} THEN u ELSE NULL)
     /\ head = IF Top.pc \in {"link", "settail", "endlist"} /\ q = <<>> THEN u ELSE First(q)
     /\ IF Top.pc = "endlist" THEN tail = u ELSE TailLast(q)
     /\ \A i \in 1 .. Len(q) : q[i] # u
     /\ Only(current_ult)
     /\ stack[2].pc = "yieldnow" =>
          /\ Listed(q, {u}) /\ u # current_ult /\ state[current_ult] # "READY"
     /\ stack[2].pc = "setrunning" =>
          /\ u = current_ult /\ sel # u /\ state[u] # "FREE"
          /\ Listed(q, IF Top.pc = "setready" THEN {sel} ELSE {sel, u})
          /\ Top.pc = "setready" => state[u] # "READY"

\* th_yield, from the slot it has popped to the one it resumes.
Popped(q) == /\ Top.sel # current_ult
             /\ Chain(q) /\ Listed(q, {Top.sel})

Switching(q) == /\ Top.sel \in Slots /\ Top.sel # current_ult
                /\ Chain(q) /\ Listed(q, {})
                /\ Only(Top.sel) /\ state[Top.sel] = "RUNNING"

Taking(q) ==
  /\ Top.pc = "pop" => Top.sel = head
  /\ Top.pc = "test" => IF Top.sel = NULL THEN Quiet(q) /\ q = <<>>
                        ELSE Popped(q) /\ Only(current_ult) /\ state[current_ult] # "READY"
  /\ Top.pc = "setrunning" => Popped(q) /\ \A t \in Slots : state[t] # "RUNNING"
  /\ Top.pc = "contexts" => Switching(q)
  /\ Top.pc = "setcurrent" => /\ Switching(q)
                              /\ Top.old = context[current_ult]
                              /\ Top.new = context[Top.sel]
  /\ Top.pc = "swap" => /\ Quiet(q) /\ state[current_ult] = "RUNNING"
                        /\ Top.old = Running /\ Top.new = context[current_ult]
                        /\ Top.new # Running

List(q) == /\ q \in Seq(Slots)
           /\ Top.pc \in QuietPcs => Quiet(q)
           /\ Top.pc \in ListPcs => Listing(q)
           /\ Taking(q)

Rest == Counters /\ Tables /\ Stacks /\ Owners /\ Claimants /\ Statuses
IInv == Rest /\ \E q \in Seq(Slots) : List(q)
-------------------------------------------------------------------------------
(* Steps that stay in the running thread *)

LEMMA RunningStack ==
  ASSUME Stacks
  PROVE  /\ Running \in Threads /\ WellFormed(stack) /\ Running <= created
         /\ Base(stack).pc \in {"free", "unreachable"} => Running # 0
         /\ Base(stack).pc # "user" => Running \notin unfinished
         /\ Base(stack).thread = Running
         /\ Len(stack) \in Nat \ {0} /\ Top = stack[1] /\ Top \in Frames
         /\ Top.pc \in BasePcs <=> Len(stack) = 1
<1>1. Running \in Threads /\ StackOf(Running) = stack /\ stack # <<>>
  BY DEF Stacks, StackOf
<1>2. StackOk(Running)
  BY <1>1 DEF Stacks
<1>3. WellFormed(stack)
  BY <1>1, <1>2 DEF StackOk
<1> QED BY <1>1, <1>2, <1>3, StackFacts DEF StackOk, Running, ThreadOf, Base, Top

\* The running thread's stack goes on, the others are as they were.
LEMMA SameThread ==
  ASSUME Stacks, Follows(stack', stack), UNCHANGED <<saved, created, unfinished>>
  PROVE  /\ Stacks' /\ Running' = Running
         /\ \A k \in Threads : StackOf(k)' = IF k = Running THEN stack' ELSE StackOf(k)
         /\ \A k \in Threads : Base(StackOf(k)') = Base(StackOf(k))
         /\ \A k \in Threads : StackOf(k)' = <<>> <=> StackOf(k) = <<>>
         /\ PendingSet' = PendingSet
<1>1. WellFormed(stack') /\ stack' # <<>> /\ Base(stack') = Base(stack)
      /\ (Pending(stack') <=> Pending(stack))
  BY DEF Follows, WellFormed, Shaped
<1>2. Running' = Running
  BY <1>1 DEF Running, ThreadOf, Base
<1>3. \A k \in Threads : StackOf(k)' = IF k = Running THEN stack' ELSE StackOf(k)
  BY <1>2 DEF StackOf
<1>4. ASSUME NEW k \in Threads
      PROVE  /\ Base(StackOf(k)') = Base(StackOf(k))
             /\ StackOf(k)' = <<>> <=> StackOf(k) = <<>>
             /\ Pending(StackOf(k)') <=> Pending(StackOf(k))
  BY <1>1, <1>3, RunningStack DEF StackOf, Stacks
<1>5. ASSUME NEW k \in Threads, StackOf(k)' # <<>> PROVE StackOk(k)'
  <2>1. StackOk(k)
    BY <1>4, <1>5 DEF Stacks
  <2>2. WellFormed(StackOf(k)')
    BY <1>1, <1>3, <2>1 DEF StackOk
  <2> QED BY <1>4, <2>1, <2>2 DEF StackOk, ThreadOf, Base
<1>6. PendingSet' = PendingSet
  BY <1>4 DEF PendingSet
<1>7. Stacks'
  BY <1>1, <1>2, <1>5 DEF Stacks
<1> QED BY <1>2, <1>3, <1>4, <1>6, <1>7

\* What the slots need of thread k's stack in a step.
StackKept(k) == /\ StackOf(k)' = <<>> => StackOf(k) = <<>>
                /\ Unreachable(StackOf(k)') => Unreachable(StackOf(k))
                /\ SameClaims(StackOf(k)', StackOf(k))

LEMMA OwnStackKept ==
  ASSUME SameClaims(stack', stack), Unreachable(stack') => Unreachable(stack),
         stack' # <<>>,
         \A k \in Threads : StackOf(k)' = IF k = Running THEN stack' ELSE StackOf(k)
  PROVE  \A k \in Threads : StackKept(k)
<1> SUFFICES ASSUME NEW k \in Threads PROVE StackKept(k)
  OBVIOUS
<1>1. CASE k = Running
  <2>1. StackOf(k)' = stack' /\ StackOf(k) = stack
    BY <1>1 DEF StackOf
  <2> QED BY <2>1 DEF StackKept
<1>2. CASE k # Running
  <2>1. StackOf(k)' = StackOf(k)
    BY <1>2
  <2> QED BY <2>1 DEF StackKept, SameClaims
<1> QED BY <1>1, <1>2

LEMMA OwnsKept ==
  ASSUME NEW s \in Slots, Owns(s), context'[s] = context[s],
         \A k \in Threads : StackKept(k)
  PROVE  Owns(s)'
<1>1. PICK k \in Threads : k = context[s]
  BY DEF Owns
<1>2. StackOf(k) # <<>> /\ ~Unreachable(StackOf(k))
  BY <1>1 DEF Owns
<1>3. StackOf(k)' # <<>> /\ ~Unreachable(StackOf(k)')
  BY <1>2 DEF StackKept
<1>4. StackOf(context[s])' = StackOf(k)'
  BY <1>1 DEF StackOf
<1> QED BY <1>1, <1>3, <1>4 DEF Owns

\* While no slot is freed or taken, the owners stay.
LEMMA OwnersRemain ==
  ASSUME Owners, \A k \in Threads : StackKept(k), UNCHANGED context,
         unfinished' \subseteq unfinished,
         \A s \in Slots : state'[s] = "FREE" <=> state[s] = "FREE"
  PROVE  /\ \A s \in Slots : state'[s] # "FREE" => Owns(s)'
         /\ \A k \in unfinished' : HasOwner(k)'
<1>1. \A s \in Slots : state'[s] # "FREE" => Owns(s)'
  BY OwnsKept DEF Owners
<1>2. ASSUME NEW k \in unfinished' PROVE HasOwner(k)'
  <2>1. HasOwner(k)
    BY DEF Owners
  <2>2. CASE \E s \in Slots : state[s] # "FREE" /\ context[s] = k
    BY <2>2 DEF HasOwner
  <2>3. CASE \E c \in Threads : Writing(StackOf(c)) /\ context[Chosen(StackOf(c))] = k
    <3>1. PICK c \in Threads : Writing(StackOf(c)) /\ context[Chosen(StackOf(c))] = k
      BY <2>3
    <3>2. Writing(StackOf(c)') /\ Chosen(StackOf(c)') = Chosen(StackOf(c))
      BY <3>1, WritingClaims DEF StackKept, SameClaims
    <3>3. (Writing(StackOf(c)) /\ context[Chosen(StackOf(c))] = k)'
      BY <3>1, <3>2
    <3> QED BY <3>3 DEF HasOwner
  <2> QED BY <2>1, <2>2, <2>3 DEF HasOwner
<1> QED BY <1>1, <1>2

\* ... and so do the calls of th_create, while their threads keep their slots.
LEMMA ClaimantsRemain ==
  ASSUME Claimants, \A k \in Threads : StackKept(k), UNCHANGED context,
         \A s \in Slots : state[s] = "FREE" => state'[s] = "FREE",
         \A s \in Slots : state[s] # "FREE" /\ Claiming(StackOf(context[s])) => state'[s] # "FREE"
  PROVE  Claimants'
<1>1. \A c \in Threads : SameClaims(StackOf(c)', StackOf(c))
  BY DEF StackKept
<1>2. ASSUME NEW c \in Threads, Claiming(StackOf(c)')
      PROVE  /\ Chosen(StackOf(c)') \in Slots /\ state'[Chosen(StackOf(c)')] = "FREE"
             /\ \E s \in Slots : state'[s] # "FREE" /\ context'[s] = c
             /\ Writing(StackOf(c)') => Fresh(Chosen(StackOf(c)))'
  <2>0. SameClaims(StackOf(c)', StackOf(c))
    BY <1>1
  <2>1. Claiming(StackOf(c))
    BY <1>2, <2>0 DEF SameClaims
  <2>2. PICK u \in Slots : u = Chosen(StackOf(c)) /\ u = Chosen(StackOf(c)') /\ state[u] = "FREE"
    BY <2>0, <2>1 DEF Claimants, SameClaims
  <2>3. PICK s \in Slots : state[s] # "FREE" /\ context[s] = c
    BY <2>1 DEF Claimants
  <2>4. state'[s] # "FREE" /\ context'[s] = c
    BY <2>1, <2>3
  <2>5. ASSUME Writing(StackOf(c)') PROVE Fresh(u)'
    <3>1. Writing(StackOf(c))
      BY <2>0, <2>5 DEF SameClaims
    <3>2. Fresh(u)
      BY <2>1, <2>2, <3>1 DEF Claimants
    <3>3. Owns(u)'
      BY <3>2, OwnsKept DEF Fresh
    <3> QED BY <3>2, <3>3 DEF Fresh
  <2>6. Writing(StackOf(c)') => Fresh(Chosen(StackOf(c)))'
    BY <2>2, <2>5 DEF Fresh, Owns, StackOf
  <2> QED BY <2>2, <2>4, <2>6
<1>3. ASSUME NEW c \in Threads, NEW d \in Threads,
             Claiming(StackOf(c)'), Claiming(StackOf(d)'), c # d
      PROVE  /\ Chosen(StackOf(c)') # Chosen(StackOf(d)')
             /\ Writing(StackOf(c)') /\ Writing(StackOf(d)') =>
                  context'[Chosen(StackOf(c)')] # context'[Chosen(StackOf(d)')]
  BY <1>1, <1>3 DEF Claimants, SameClaims
<1> QED BY <1>2, <1>3 DEF Claimants

LEMMA OwnersKept ==
  ASSUME Stacks, Owners, Continues(stack', stack),
         UNCHANGED <<saved, created, unfinished, context, current_ult>>,
         \A s \in Slots : state'[s] = "FREE" <=> state[s] = "FREE",
         Main \in Slots, current_ult \in Slots, Top.pc # "swap", Top'.pc # "swap"
  PROVE  Owners' /\ \A k \in Threads : StackKept(k)
<1>1. /\ Running' = Running /\ stack' # <<>>
      /\ \A k \in Threads : StackOf(k)' = IF k = Running THEN stack' ELSE StackOf(k)
  BY SameThread DEF Continues, Follows, WellFormed, Shaped
<1>2. Unreachable(stack') <=> Unreachable(stack)
  BY DEF Continues, Follows, Unreachable
<1>3. \A k \in Threads : StackKept(k)
  BY <1>1, <1>2, OwnStackKept DEF Continues
<1>4. (\A s \in Slots : state'[s] # "FREE" => Owns(s)') /\ \A k \in unfinished' : HasOwner(k)'
  BY <1>3, OwnersRemain
<1> QED BY <1>1, <1>2, <1>3, <1>4 DEF Owners, Continues, Follows

\* What a statement that neither makes nor switches nor ends a thread keeps.
LEMMA RestKept ==
  ASSUME Rest, Continues(stack', stack),
         UNCHANGED <<saved, created, calls, unfinished, context, current_ult>>,
         state' \in [Slots -> {"FREE", "RUNNING", "READY"}],
         \A s \in Slots : state'[s] = "FREE" <=> state[s] = "FREE",
         head' \in Slots \cup {NULL}, tail' \in Slots \cup {NULL},
         next' \in [Slots -> Slots \cup {NULL}],
         signals' \in 0 .. MaxSignals, yields' \in 0 .. MaxYields,
         Top.pc # "swap", Top'.pc # "swap",
         Statuses'
  PROVE  Rest'
<1>1. Stacks' /\ PendingSet' = PendingSet
  BY SameThread DEF Rest, Continues
<1>2. Owners' /\ \A k \in Threads : StackKept(k)
  BY OwnersKept, SlotFacts DEF Rest, Tables
<1>3. Claimants'
  BY <1>2, ClaimantsRemain DEF Rest
<1>4. Tables' /\ Counters'
  BY <1>1 DEF Rest, Tables, Counters
<1> QED BY <1>1, <1>2, <1>3, <1>4 DEF Rest
-------------------------------------------------------------------------------
(* The statements at which nothing is on its way *)

LEMMA StillQuiet ==
  ASSUME NEW q \in Seq(Slots), Quiet(q),
         UNCHANGED <<state, head, tail, next, current_ult>>,
         Top'.pc \in QuietPcs, Top'.pc = "pop" => Top'.sel = head
  PROVE  List(q)'
<1>1. Quiet(q)'
  BY DEF Quiet, Chain, Links, EndsAt, TailLast, First, Listed, Only
<1>2. Top'.pc \notin ListPcs \cup {"test", "setrunning", "contexts", "setcurrent", "swap"}
  BY DEF QuietPcs, BasePcs, KeptPcs, ListPcs
<1> QED BY <1>1, <1>2 DEF List, Taking

\* A call of th_yield: by the program, the end of th_return, th_create or the handler.
LEMMA KeepsUserYields ==
  ASSUME IInv, UserYields
  PROVE  IInv'
<1> DEFINE f == Frame("head")
<1>1. PICK q \in Seq(Slots) : List(q)
  BY DEF IInv
<1>2. f \in Frames /\ f.pc = "head"
  BY NewFrame DEF Pcs
<1>3. WellFormed(stack) /\ Top = stack[1] /\ Top.pc = "user"
  BY RunningStack DEF IInv, Rest, UserYields, At
<1>4. stack' = <<f>> \o stack
  BY DEF UserYields
<1> HIDE DEF f
<1>5. Continues(stack', stack) /\ stack'[1] = f
  BY <1>2, <1>3, <1>4, FramePushed DEF BasePcs, ListPcs, CreatePcs
<1>6. Top'.pc = "head"
  BY <1>2, <1>5 DEF Top
<1>7. Rest'
  <2>1. yields' \in 0 .. MaxYields
    BY PreemptAssumption DEF IInv, Rest, Counters, UserYields
  <2> QED BY <1>3, <1>5, <1>6, <2>1, RestKept DEF IInv, Rest, Tables, Counters, UserYields, ulib,
            Statuses
<1>8. List(q)'
  BY <1>1, <1>3, <1>6, StillQuiet DEF List, QuietPcs, BasePcs, KeptPcs, UserYields, ulib
<1> QED BY <1>7, <1>8 DEF IInv

LEMMA KeepsDrain ==
  ASSUME IInv, Drain
  PROVE  IInv'
<1> DEFINE f == Frame("head")
<1>1. PICK q \in Seq(Slots) : List(q)
  BY DEF IInv
<1>2. f \in Frames /\ f.pc = "head"
  BY NewFrame DEF Pcs
<1>3. WellFormed(stack) /\ Top = stack[1] /\ Top.pc = "drain"
  BY RunningStack DEF IInv, Rest, Drain, At
<1>4. stack' = <<f>> \o stack
  BY DEF Drain
<1> HIDE DEF f
<1>5. Continues(stack', stack) /\ stack'[1] = f
  BY <1>2, <1>3, <1>4, FramePushed DEF BasePcs, ListPcs, CreatePcs
<1>6. Top'.pc = "head"
  BY <1>2, <1>5 DEF Top
<1>7. Rest'
  BY <1>3, <1>5, <1>6, RestKept DEF IInv, Rest, Tables, Counters, Drain, ulib, counters, Statuses
<1>8. List(q)'
  BY <1>1, <1>3, <1>6, StillQuiet DEF List, QuietPcs, BasePcs, KeptPcs, Drain, ulib
<1> QED BY <1>7, <1>8 DEF IInv

LEMMA KeepsYieldAfterCreate ==
  ASSUME IInv, YieldAfterCreate
  PROVE  IInv'
<1> DEFINE f == Frame("head")
           g == [Top EXCEPT !.pc = "created"]
           s == <<g>> \o Tail(stack)
<1>1. PICK q \in Seq(Slots) : List(q)
  BY DEF IInv
<1>2. f \in Frames /\ f.pc = "head"
  BY NewFrame DEF Pcs
<1>3. WellFormed(stack) /\ Top = stack[1] /\ Top.pc = "yieldnow" /\ Top \in Frames
  BY RunningStack DEF IInv, Rest, YieldAfterCreate, At
<1>4. g \in Frames /\ g.pc = "created"
  BY <1>3, Relabelled DEF Pcs
<1>5. stack' = <<f, g>> \o Tail(stack)
  BY DEF YieldAfterCreate, CallThen, Below
<1>6. stack' = <<f>> \o s
  BY <1>2, <1>3, <1>4, <1>5, StackFacts, TwoPrefixed
<1> HIDE DEF f, g
<1>7. Continues(s, stack) /\ s[1] = g
  BY <1>3, <1>4, TopReplaced DEF BasePcs, CreatePcs, ListPcs, Creates
<1> HIDE DEF s
<1>8. Continues(stack', s) /\ stack'[1] = f
  BY <1>2, <1>4, <1>6, <1>7, FramePushed DEF Continues, Follows, BasePcs, KeptPcs, ListPcs, CreatePcs
<1>9. Continues(stack', stack) /\ Top'.pc = "head"
  BY <1>2, <1>7, <1>8, ContinuesOn DEF Top
<1>10. Rest'
  BY <1>3, <1>9, RestKept DEF IInv, Rest, Tables, Counters, YieldAfterCreate, ulib, counters,
       Statuses
<1>11. List(q)'
  BY <1>1, <1>3, <1>9, StillQuiet DEF List, QuietPcs, BasePcs, KeptPcs, YieldAfterCreate, ulib
<1> QED BY <1>10, <1>11 DEF IInv

LEMMA KeepsSignal ==
  ASSUME IInv, Signal, strayed' = {}
  PROVE  IInv'
<1> DEFINE f == Frame("head")
           g == Frame("handler")
           s == <<g>> \o stack
<1>1. PICK q \in Seq(Slots) : List(q)
  BY DEF IInv
<1>2. f \in Frames /\ f.pc = "head" /\ g \in Frames /\ g.pc = "handler"
  BY NewFrame DEF Pcs
<1>3. WellFormed(stack) /\ Top = stack[1] /\ Top \in Frames
  BY RunningStack DEF IInv, Rest
<1>3a. Top.pc \in BasePcs \cup KeptPcs
  <2>1. Top.pc \notin Linking /\ Top.pc \notin Yielding
    BY DEF Signal
  <2> QED BY <1>3, <2>1 DEF Frames, Pcs, Linking, Yielding, BasePcs, KeptPcs
<1>4. stack' = <<f, g>> \o stack
  BY DEF Signal
<1>5. stack' = <<f>> \o s
  BY <1>2, <1>3, <1>4 DEF WellFormed, Shaped
<1> HIDE DEF f, g
<1>6. Continues(s, stack) /\ s[1] = g
  BY <1>2, <1>3, <1>3a, FramePushed DEF BasePcs, KeptPcs, ListPcs, CreatePcs
<1> HIDE DEF s
<1>7. Continues(stack', s) /\ stack'[1] = f
  BY <1>2, <1>5, <1>6, FramePushed DEF Continues, Follows, BasePcs, KeptPcs, ListPcs, CreatePcs
<1>8. Continues(stack', stack) /\ Top'.pc = "head"
  BY <1>2, <1>6, <1>7, ContinuesOn DEF Top
<1>9. Rest'
  <2>1. signals' \in 0 .. MaxSignals
    BY PreemptAssumption DEF IInv, Rest, Counters, Signal
  <2> QED BY <1>3, <1>3a, <1>8, <2>1, RestKept DEF IInv, Rest, Tables, Counters, Signal, ulib,
            Statuses, BasePcs, KeptPcs
<1>10. List(q)'
  BY <1>1, <1>3, <1>3a, <1>8, StillQuiet DEF List, QuietPcs, BasePcs, KeptPcs, Signal, ulib
<1> QED BY <1>9, <1>10 DEF IInv

\* lib_get_next_ult reads the head.
LEMMA KeepsReadHead ==
  ASSUME IInv, ReadHead
  PROVE  IInv'
<1> DEFINE f == [Top EXCEPT !.pc = "pop", !.sel = head]
<1>1. PICK q \in Seq(Slots) : List(q)
  BY DEF IInv
<1>2. WellFormed(stack) /\ Top = stack[1] /\ Top.pc = "head" /\ Top \in Frames
  BY RunningStack DEF IInv, Rest, ReadHead, At
<1>3. f \in Frames
  <2>1. head \in Slots \cup {NULL}
    BY DEF IInv, Rest, Tables
  <2> QED BY <1>2, <2>1, Zenon DEF Frames, Pcs
<1>4. f.pc = "pop" /\ f.sel = head
  BY <1>2 DEF Frames
<1>5. stack' = <<f>> \o Tail(stack)
  BY DEF ReadHead, GotoWith, Below
<1> HIDE DEF f
<1>6. Continues(stack', stack) /\ stack'[1] = f
  BY <1>2, <1>3, <1>4, <1>5, TopReplaced DEF BasePcs, CreatePcs, ListPcs, Creates
<1>7. Top'.pc = "pop" /\ Top'.sel = head
  BY <1>4, <1>6 DEF Top
<1>8. Rest'
  BY <1>2, <1>6, <1>7, RestKept DEF IInv, Rest, Tables, Counters, ReadHead, ulib, counters, Statuses
<1>9. List(q)'
  BY <1>1, <1>2, <1>7, StillQuiet DEF List, QuietPcs, BasePcs, KeptPcs, ReadHead, ulib
<1> QED BY <1>8, <1>9 DEF IInv
-------------------------------------------------------------------------------
(* Returns from th_yield *)

\* th_yield's frame goes, with the handler's or the creation's under it.
LEMMA YieldReturned ==
  ASSUME WellFormed(stack), Top.pc \in {"test", "resumed"}, NEW b, ReturnToCaller(b)
  PROVE  /\ Continues(stack', stack) /\ Top'.pc \in BasePcs \cup KeptPcs
         /\ Below[1] \in Frames
         /\ Below[1].pc = "unreachable" => Unreachable(stack)
         /\ Below[1].pc = "drain" => Base(stack).pc = "drain"
<1>1. Top = stack[1] /\ ~Creates(stack[1]) /\ stack[1].pc \notin BasePcs \cup ListPcs
  BY DEF Top, Creates, BasePcs, ListPcs
<1>2. /\ Continues(Below, stack) /\ Below[1] = stack[2] /\ Len(stack) >= 2
      /\ Below[1].pc \in BasePcs \cup KeptPcs
  BY <1>1, FramePopped DEF Below
<1>3. WellFormed(Below)
  BY <1>2 DEF Continues, Follows
<1>4. /\ Below[1] \in Frames
      /\ Below[1].pc \in {"unreachable", "drain"} => Below[1] = Base(stack)
  <2>1. Below[1].pc \in BasePcs <=> Len(Below) = 1
    BY <1>3, StackFacts
  <2>2. Len(Below) = 1 => Below[1] = Base(Below)
    BY DEF Base
  <2>3. Below[1] \in Frames
    BY <1>3, StackFacts
  <2> QED BY <1>2, <2>1, <2>2, <2>3 DEF Continues, Follows, BasePcs
<1>5. CASE Below[1].pc \in {"handler", "created"}
  <2>1. stack' = Tail(Below)
    BY <1>5 DEF ReturnToCaller
  <2>2. Below[1].pc \notin BasePcs \cup ListPcs \cup {"scan", "makecontext", "write"}
    BY <1>5 DEF BasePcs, ListPcs
  <2>3. Continues(Tail(Below), Below) /\ Tail(Below)[1].pc \in BasePcs \cup KeptPcs
    BY <1>3, <2>2, FramePopped
  <2> QED BY <1>2, <1>4, <2>1, <2>3, ContinuesOn DEF Top, Unreachable
<1>6. CASE Below[1].pc \notin {"handler", "created"}
  <2>1. stack' = Below
    BY <1>6 DEF ReturnToCaller
  <2> QED BY <1>2, <1>4, <2>1 DEF Top, Unreachable
<1> QED BY <1>5, <1>6

LEMMA KeepsResume ==
  ASSUME IInv, Resume
  PROVE  IInv'
<1>1. PICK q \in Seq(Slots) : List(q)
  BY DEF IInv
<1>2. WellFormed(stack) /\ Top = stack[1] /\ Top.pc = "resumed" /\ Len(stack) \in Nat \ {0}
  BY RunningStack DEF IInv, Rest, Resume, At
<1>3. ReturnToCaller(TRUE) /\ UNCHANGED <<ulib, unfinished, counters>> /\ status = "up"
  BY DEF Resume, At
<1>4. /\ Continues(stack', stack) /\ Top'.pc \in BasePcs \cup KeptPcs
      /\ Below[1].pc = "unreachable" => Unreachable(stack)
  BY <1>2, <1>3, YieldReturned
<1>5. Below[1].pc # "unreachable"
  <2>1. Resumes(stack)
    BY <1>2 DEF Resumes
  <2> QED BY <1>4, <2>1 DEF IInv, Rest, Owners
<1>6. Statuses'
  BY <1>3, <1>5 DEF IInv, Rest, Statuses, ReturnToCaller
<1>7. Rest'
  BY <1>2, <1>3, <1>4, <1>6, RestKept DEF IInv, Rest, Tables, Counters, ulib, counters,
     BasePcs, KeptPcs
<1>8. List(q)'
  BY <1>1, <1>2, <1>3, <1>4, StillQuiet DEF List, QuietPcs, BasePcs, KeptPcs, ulib
<1> QED BY <1>7, <1>8 DEF IInv

\* A th_create under way was called by a thread's own code.
LEMMA ClaimsOfUser ==
  ASSUME NEW s, WellFormed(s), Claiming(s)
  PROVE  Base(s).pc = "user" /\ Len(s) >= 2 /\ Len(s) \in Nat
<1>1. Len(s) \in Nat /\ Len(s) - 1 \in 1 .. Len(s) /\ s[Len(s) - 1].pc \in CreatePcs
  BY StackFacts DEF Claiming, CreatePcs
<1> QED BY <1>1 DEF WellFormed, Shaped, Claiming

\* Nothing else is ready: only the running thread can be unfinished, and it is not one
\* that has ended, for then the main thread would be on the list.
LEMMA AloneFacts ==
  ASSUME Rest, Quiet(<<>>), Top.pc = "test"
  PROVE  /\ ~Unreachable(stack)
         /\ Base(stack).pc = "drain" => unfinished = {}
<1>1. \A s \in Slots : state[s] # "READY"
  BY DEF Quiet, Listed
<1>2. \A s \in Slots : state[s] # "FREE" => s = current_ult
  BY <1>1 DEF Quiet, Only, Rest, Tables
<1>3. current_ult = Main /\ state[current_ult] # "FREE"
  BY <1>2, SlotFacts DEF Rest, Owners
<1>4. context[current_ult] = Running /\ Running \in Threads
  BY DEF Rest, Owners, Stacks
<1>5. ~Unreachable(stack)
  <2>1. Owns(current_ult)
    BY <1>3, SlotFacts DEF Rest, Owners
  <2> QED BY <1>4, <2>1 DEF Owns, StackOf
<1>6. Base(stack).pc = "drain" => \A k \in unfinished : k = Running
  <2> SUFFICES ASSUME Base(stack).pc = "drain", NEW k \in unfinished PROVE k = Running
    OBVIOUS
  <2>1. HasOwner(k)
    BY DEF Rest, Owners
  <2>2. CASE \E s \in Slots : state[s] # "FREE" /\ context[s] = k
    BY <1>2, <1>4, <2>2
  <2>3. CASE \E c \in Threads : Writing(StackOf(c)) /\ context[Chosen(StackOf(c))] = k
    <3>1. PICK c \in Threads : Writing(StackOf(c))
      BY <2>3
    <3>2. Claiming(StackOf(c))
      BY <3>1, WritingClaims
    <3>3. c = Running
      BY <1>2, <1>4, <3>2 DEF Rest, Claimants
    <3>4. Claiming(stack)
      BY <3>2, <3>3 DEF StackOf
    <3>5. Base(stack).pc = "user"
      BY <3>4, RunningStack, ClaimsOfUser DEF Rest
    <3> QED BY <3>5
  <2> QED BY <2>1, <2>2, <2>3 DEF HasOwner
<1>7. Base(stack).pc = "drain" => Running \notin unfinished
  BY RunningStack DEF Rest
<1> QED BY <1>5, <1>6, <1>7

\* th_yield found no other thread.
LEMMA KeepsTestAlone ==
  ASSUME IInv, TestSelected, Top.sel = NULL
  PROVE  IInv'
<1>1. PICK q \in Seq(Slots) : List(q)
  BY DEF IInv
<1>2. WellFormed(stack) /\ Top = stack[1] /\ Top.pc = "test"
  BY RunningStack DEF IInv, Rest, TestSelected, At
<1>3. ReturnToCaller(FALSE) /\ UNCHANGED <<ulib, unfinished, counters>> /\ status = "up"
  BY DEF TestSelected, At
<1>4. /\ Continues(stack', stack) /\ Top'.pc \in BasePcs \cup KeptPcs
      /\ Below[1].pc = "unreachable" => Unreachable(stack)
      /\ Below[1].pc = "drain" => Base(stack).pc = "drain"
  BY <1>2, <1>3, YieldReturned
<1>5. Quiet(q) /\ q = <<>>
  BY <1>1, <1>2 DEF List, Taking
<1>6. Statuses'
  <2>1. ~Unreachable(stack) /\ (Base(stack).pc = "drain" => unfinished = {})
    BY <1>2, <1>5, AloneFacts DEF IInv
  <2>2. Below[1].pc # "unreachable" /\ (Below[1].pc = "drain" => unfinished = {})
    BY <1>4, <2>1
  <2>3. status' \in {"up", "exited"} /\ (status' = "exited" => Below[1].pc = "drain")
    BY <1>3, <2>2 DEF ReturnToCaller
  <2> QED BY <1>3, <2>2, <2>3 DEF Statuses
<1>7. Rest'
  BY <1>2, <1>3, <1>4, <1>6, RestKept DEF IInv, Rest, Tables, Counters, ulib, counters,
     BasePcs, KeptPcs
<1>8. List(q)'
  BY <1>1, <1>3, <1>4, <1>5, StillQuiet DEF QuietPcs, BasePcs, KeptPcs, ulib
<1> QED BY <1>7, <1>8 DEF IInv
-------------------------------------------------------------------------------
(* lib_enqueue *)

\* A statement of a call leads to the next one of it.
LEMMA NextStatement ==
  ASSUME WellFormed(stack), NEW p \in Pcs, Goto(p),
         p \notin BasePcs \cup CreatePcs, p # "resumed",
         Top.pc \notin BasePcs \cup {"scan", "makecontext", "write"},
         p \in ListPcs <=> Top.pc \in ListPcs
  PROVE  /\ Continues(stack', stack)
         /\ Top'.pc = p /\ Top'.sel = Top.sel /\ Top'.ult = Top.ult
         /\ Top'.old = Top.old /\ Top'.new = Top.new
         /\ stack'[2] = stack[2]
<1> DEFINE f == [Top EXCEPT !.pc = p]
<1>1. Top = stack[1] /\ Top \in Frames
  BY StackFacts DEF Top
<1>2. /\ f \in Frames /\ f.pc = p /\ f.sel = Top.sel /\ f.ult = Top.ult
      /\ f.old = Top.old /\ f.new = Top.new
  BY <1>1, Relabelled
<1>3. stack' = <<f>> \o Tail(stack)
  BY DEF Goto, Below
<1>4. ~Creates(f) /\ ~Creates(Top) /\ f.pc \notin {"makecontext", "write"}
  BY <1>2 DEF Creates, CreatePcs
<1> HIDE DEF f
<1>5. Continues(stack', stack) /\ stack'[1] = f /\ stack'[2] = stack[2]
  BY <1>1, <1>2, <1>3, <1>4, TopReplaced
<1> QED BY <1>2, <1>5 DEF Top

LEMMA CallOfEnqueue ==
  ASSUME WellFormed(stack), Top.pc \in ListPcs
  PROVE  /\ Top.pc \notin BasePcs \cup {"scan", "makecontext", "write", "swap"}
         /\ Top.pc \notin QuietPcs
         /\ stack[2].pc \in {"setrunning", "yieldnow"}
BY DEF Top, WellFormed, Shaped, BasePcs, ListPcs, QuietPcs, KeptPcs

\* While lib_enqueue runs, only its own part of the invariant says anything.
LEMMA StillListing ==
  ASSUME NEW q \in Seq(Slots), Top'.pc \in ListPcs, Listing(q)'
  PROVE  List(q)'
BY DEF List, Taking, ListPcs, QuietPcs, BasePcs, KeptPcs

LEMMA KeepsSetReady ==
  ASSUME IInv, SetReady
  PROVE  IInv'
<1>0. PICK u, sel : u = Top.ult /\ sel = stack[2].sel
  OBVIOUS
<1>1. PICK q \in Seq(Slots) : List(q)
  BY DEF IInv
<1>2. WellFormed(stack) /\ Top.pc = "setready" /\ Top.pc \in ListPcs
  BY RunningStack DEF IInv, Rest, SetReady, At, ListPcs
<1>3. Goto("sethead") /\ state' = [state EXCEPT ![u] = "READY"]
      /\ UNCHANGED <<context, head, tail, next, current_ult, saved, unfinished, counters, status>>
  BY <1>0 DEF SetReady
<1>4. /\ Continues(stack', stack) /\ Top'.pc = "sethead" /\ Top'.ult = u
      /\ stack'[2] = stack[2]
  BY <1>0, <1>2, <1>3, CallOfEnqueue, NextStatement DEF Pcs, BasePcs, CreatePcs, ListPcs
<1>5. Listing(q)
  BY <1>1, <1>2 DEF List
<1>6. stack[2].pc \in {"setrunning", "yieldnow"}
  BY <1>2, CallOfEnqueue
<1>7. u \in Slots /\ state[u] # "FREE" /\ state \in [Slots -> {"FREE", "RUNNING", "READY"}]
  <2>1. stack[2].pc = "yieldnow" => state[u] = "READY"
    BY <1>0, <1>5 DEF Listing, Listed
  <2> QED BY <1>0, <1>5, <1>6, <2>1 DEF Listing, IInv, Rest, Tables
<1>8. /\ state' \in [Slots -> {"FREE", "RUNNING", "READY"}] /\ state'[u] = "READY"
      /\ \A s \in Slots : s # u => state'[s] = state[s]
  BY <1>3, <1>7
<1>9. Rest'
  BY <1>2, <1>3, <1>4, <1>7, <1>8, CallOfEnqueue, RestKept DEF IInv, Rest, Tables, Counters,
     counters, Statuses
<1>10. Listing(q)'
  <2>1. CASE stack[2].pc = "yieldnow"
    <3>1. state[u] = "READY" /\ u # current_ult /\ Listed(q, {u})
      BY <1>0, <1>5, <2>1 DEF Listing, Listed
    <3>2. \A s \in Slots : state'[s] = state[s]
      BY <1>8, <3>1
    <3>3. Listed(q, {u})'
      BY <1>7, <3>1, <3>2, ElementOfSeq DEF Listed
    <3>4. Only(current_ult)' /\ state'[current_ult'] # "READY"
      BY <1>3, <1>5, <2>1, <3>2 DEF Listing, Only, IInv, Rest, Tables
    <3> QED BY <1>0, <1>2, <1>3, <1>4, <1>5, <2>1, <3>1, <3>3, <3>4
            DEF Listing, Links, EndsAt, TailLast, First
  <2>2. CASE stack[2].pc = "setrunning"
    <3>1. u = current_ult /\ sel # u /\ Listed(q, {sel}) /\ \A i \in 1 .. Len(q) : q[i] # u
      BY <1>0, <1>2, <1>5, <2>2 DEF Listing
    <3>2. \A i \in 1 .. Len(q) : q[i] \in Slots
      BY ElementOfSeq
    <3>3. Listed(q, {sel, u})'
      BY <1>7, <1>8, <3>1, <3>2 DEF Listed
    <3>4. Only(current_ult)'
      BY <1>3, <1>5, <1>8, <3>1 DEF Listing, Only
    <3> QED BY <1>0, <1>2, <1>3, <1>4, <1>5, <1>8, <2>2, <3>1, <3>3, <3>4
            DEF Listing, Links, EndsAt, TailLast, First
  <2> QED BY <1>6, <2>1, <2>2
<1> QED BY <1>4, <1>9, <1>10, StillListing DEF IInv, ListPcs

LEMMA KeepsSetHead ==
  ASSUME IInv, SetHead
  PROVE  IInv'
<1> DEFINE u == Top.ult
<1>1. PICK q \in Seq(Slots) : List(q)
  BY DEF IInv
<1>2. WellFormed(stack) /\ Top.pc = "sethead" /\ Top.pc \in ListPcs
  BY RunningStack DEF IInv, Rest, SetHead, At, ListPcs
<1>3. Goto("link") /\ head' = (IF head = NULL THEN u ELSE head)
      /\ UNCHANGED <<state, context, tail, next, current_ult, saved, unfinished, counters, status>>
  BY DEF SetHead
<1>4. /\ Continues(stack', stack) /\ Top'.pc = "link" /\ Top'.ult = u
      /\ stack'[2] = stack[2]
  BY <1>2, <1>3, CallOfEnqueue, NextStatement DEF Pcs, BasePcs, CreatePcs, ListPcs
<1>5. Listing(q)
  BY <1>1, <1>2 DEF List
<1>6. head' \in Slots \cup {NULL}
  BY <1>3, <1>5 DEF Listing, IInv, Rest, Tables
<1>7. Rest'
  BY <1>2, <1>3, <1>4, <1>6, CallOfEnqueue, RestKept DEF IInv, Rest, Tables, Counters,
     counters, Statuses
<1>8. head' = IF q = <<>> THEN u ELSE First(q)
  <2>1. head = First(q)
    BY <1>2, <1>5 DEF Listing
  <2>2. q # <<>> => q[1] \in Slots
    BY EmptySeq, ElementOfSeq
  <2> QED BY <1>3, <2>1, <2>2, SlotFacts DEF First
<1>9. Listing(q)'
  <2>1. /\ Links(q)' /\ EndsAt(q, NULL)' /\ TailLast(q)' /\ Only(current_ult)'
        /\ First(q)' = First(q)
    BY <1>2, <1>3, <1>5 DEF Listing, Links, EndsAt, TailLast, First, Only
  <2>2. \A S : Listed(q, S)' <=> Listed(q, S)
    BY <1>3 DEF Listed
  <2> QED BY <1>2, <1>3, <1>4, <1>5, <1>8, <2>1, <2>2 DEF Listing
<1> QED BY <1>4, <1>7, <1>9, StillListing DEF IInv, ListPcs
LEMMA KeepsLinkTail ==
  ASSUME IInv, LinkTail
  PROVE  IInv'
<1>0. PICK u : u = Top.ult
  OBVIOUS
<1>1. PICK q \in Seq(Slots) : List(q)
  BY DEF IInv
<1>2. WellFormed(stack) /\ Top.pc = "link" /\ Top.pc \in ListPcs
  BY RunningStack DEF IInv, Rest, LinkTail, At, ListPcs
<1>3. Goto("settail") /\ next' = (IF tail = NULL THEN next ELSE [next EXCEPT ![tail] = u])
      /\ UNCHANGED <<state, context, head, tail, current_ult, saved, unfinished, counters, status>>
  BY <1>0 DEF LinkTail
<1>4. /\ Continues(stack', stack) /\ Top'.pc = "settail" /\ Top'.ult = u
      /\ stack'[2] = stack[2]
  BY <1>0, <1>2, <1>3, CallOfEnqueue, NextStatement DEF Pcs, BasePcs, CreatePcs, ListPcs
<1>5. Listing(q)
  BY <1>1, <1>2 DEF List
<1>6. /\ u \in Slots /\ next \in [Slots -> Slots \cup {NULL}] /\ tail \in Slots \cup {NULL}
      /\ next' \in [Slots -> Slots \cup {NULL}]
      /\ \A s \in Slots : next'[s] = IF s = tail THEN u ELSE next[s]
  <2>1. u \in Slots /\ next \in [Slots -> Slots \cup {NULL}] /\ tail \in Slots \cup {NULL}
    BY <1>0, <1>5 DEF Listing, IInv, Rest, Tables
  <2> QED BY <1>3, <2>1, SlotFacts
<1>7. Rest'
  BY <1>2, <1>3, <1>4, <1>6, CallOfEnqueue, RestKept DEF IInv, Rest, Tables, Counters,
     counters, Statuses
<1>8. Links(q) /\ TailLast(q)
  BY <1>2, <1>5 DEF Listing
<1>9. Len(q) \in Nat /\ \A i \in 1 .. Len(q) : q[i] \in Slots
  BY ElementOfSeq, LenProperties
<1>10. Links(q)'
  <2> SUFFICES ASSUME NEW i \in 1 .. Len(q) - 1 PROVE next'[q[i]] = q[i + 1]
    BY <1>8 DEF Links
  <2>1. i \in 1 .. Len(q) /\ Len(q) \in 1 .. Len(q) /\ i # Len(q) /\ q # <<>>
    BY <1>9, EmptySeq
  <2>2. q[i] # tail
    BY <1>8, <2>1 DEF Links, TailLast
  <2> QED BY <1>6, <1>8, <1>9, <2>1, <2>2 DEF Links
<1>11. EndsAt(q, u)'
  <2> SUFFICES ASSUME q # <<>> PROVE next'[q[Len(q)]] = u
    BY DEF EndsAt
  <2>1. Len(q) \in 1 .. Len(q)
    BY <1>9, EmptySeq
  <2> QED BY <1>6, <1>8, <1>9, <2>1 DEF TailLast
<1>12. Listing(q)'
  <2>1. TailLast(q)' /\ Only(current_ult)' /\ First(q)' = First(q)
    BY <1>3, <1>5, <1>8 DEF Listing, TailLast, First, Only
  <2>2. \A S : Listed(q, S)' <=> Listed(q, S)
    BY <1>3 DEF Listed
  <2> QED BY <1>0, <1>2, <1>3, <1>4, <1>5, <1>10, <1>11, <2>1, <2>2 DEF Listing
<1> QED BY <1>4, <1>7, <1>12, StillListing DEF IInv, ListPcs

LEMMA KeepsSetTail ==
  ASSUME IInv, SetTail
  PROVE  IInv'
<1>0. PICK u : u = Top.ult
  OBVIOUS
<1>1. PICK q \in Seq(Slots) : List(q)
  BY DEF IInv
<1>2. WellFormed(stack) /\ Top.pc = "settail" /\ Top.pc \in ListPcs
  BY RunningStack DEF IInv, Rest, SetTail, At, ListPcs
<1>3. Goto("endlist") /\ tail' = u
      /\ UNCHANGED <<state, context, head, next, current_ult, saved, unfinished, counters, status>>
  BY <1>0 DEF SetTail
<1>4. /\ Continues(stack', stack) /\ Top'.pc = "endlist" /\ Top'.ult = u
      /\ stack'[2] = stack[2]
  BY <1>0, <1>2, <1>3, CallOfEnqueue, NextStatement DEF Pcs, BasePcs, CreatePcs, ListPcs
<1>5. Listing(q)
  BY <1>1, <1>2 DEF List
<1>6. Rest'
  BY <1>0, <1>2, <1>3, <1>4, <1>5, CallOfEnqueue, RestKept DEF IInv, Rest, Tables, Counters,
     counters, Statuses, Listing
<1>7. Listing(q)'
  <2>1. /\ Links(q)' /\ EndsAt(q, u)' /\ Only(current_ult)' /\ First(q)' = First(q)
    BY <1>0, <1>2, <1>3, <1>5 DEF Listing, Links, EndsAt, First, Only
  <2>2. \A S : Listed(q, S)' <=> Listed(q, S)
    BY <1>3 DEF Listed
  <2> QED BY <1>0, <1>2, <1>3, <1>4, <1>5, <2>1, <2>2 DEF Listing
<1> QED BY <1>4, <1>6, <1>7, StillListing DEF IInv, ListPcs

\* A sequence of slots and one more at its end.
LEMMA Appended ==
  ASSUME NEW q \in Seq(Slots), NEW u \in Slots
  PROVE  /\ Append(q, u) \in Seq(Slots) /\ Append(q, u) # <<>>
         /\ Len(Append(q, u)) = Len(q) + 1 /\ Len(q) \in Nat
         /\ Append(q, u)[Len(q) + 1] = u
         /\ \A i \in 1 .. Len(q) : Append(q, u)[i] = q[i] /\ q[i] \in Slots
BY ElementOfSeq

\* lib_enqueue's last statement: the slot it queued is the last of the chain.
LEMMA Enqueued ==
  ASSUME NEW q \in Seq(Slots), NEW u \in Slots, Links(q), EndsAt(q, u),
         next \in [Slots -> Slots \cup {NULL}],
         head = (IF q = <<>> THEN u ELSE First(q)),
         \A i \in 1 .. Len(q) : q[i] # u,
         tail = u, next' = [next EXCEPT ![tail] = NULL], UNCHANGED <<head, tail>>
  PROVE  Chain(Append(q, u))'
<1> DEFINE p == Append(q, u)
<1>1. /\ p \in Seq(Slots) /\ p # <<>> /\ Len(p) = Len(q) + 1 /\ Len(q) \in Nat
      /\ p[Len(q) + 1] = u
      /\ \A i \in 1 .. Len(q) : p[i] = q[i] /\ q[i] \in Slots
  BY Appended
<1> HIDE DEF p
<1>2. next'[u] = NULL /\ \A s \in Slots : s # u => next'[s] = next[s]
  OBVIOUS
<1>3. \A i, j \in 1 .. Len(p) : p[i] = p[j] => i = j
  <2> SUFFICES ASSUME NEW i \in 1 .. Len(p), NEW j \in 1 .. Len(p), p[i] = p[j]
               PROVE  i = j
    OBVIOUS
  <2>1. CASE i \in 1 .. Len(q) /\ j \in 1 .. Len(q)
    BY <1>1, <2>1 DEF Links
  <2>2. CASE i = Len(q) + 1 \/ j = Len(q) + 1
    BY <1>1, <2>2
  <2> QED BY <1>1, <2>1, <2>2
<1>4. ASSUME NEW i \in 1 .. Len(p) - 1 PROVE next'[p[i]] = p[i + 1]
  <2>1. i \in 1 .. Len(q) /\ p[i] = q[i] /\ q[i] \in Slots \ {u}
    BY <1>1
  <2>2. CASE i = Len(q)
    <3>1. q # <<>>
      BY <2>1, <2>2, EmptySeq
    <3> QED BY <1>1, <1>2, <2>1, <2>2, <3>1 DEF EndsAt
  <2>3. CASE i # Len(q)
    <3>1. i \in 1 .. Len(q) - 1 /\ i + 1 \in 1 .. Len(q)
      BY <1>1, <2>1, <2>3
    <3> QED BY <1>1, <1>2, <2>1, <3>1 DEF Links
  <2> QED BY <2>2, <2>3
<1>5. head = p[1]
  <2>1. CASE q = <<>>
    BY <1>1, <2>1
  <2>2. CASE q # <<>>
    <3>1. 1 \in 1 .. Len(q)
      BY <1>1, <2>2, EmptySeq
    <3> QED BY <1>1, <2>2, <3>1 DEF First
  <2> QED BY <2>1, <2>2
<1>6. Chain(p)'
  BY <1>1, <1>2, <1>3, <1>4, <1>5 DEF Chain, Links, EndsAt, First, TailLast
<1> QED BY <1>6 DEF p

LEMMA KeepsEndList ==
  ASSUME IInv, EndList
  PROVE  IInv'
<1>0. PICK u, sel, p : u = Top.ult /\ sel = stack[2].sel /\ p = stack[2].pc
  OBVIOUS
<1>1. PICK q \in Seq(Slots) : List(q)
  BY DEF IInv
<1>2. WellFormed(stack) /\ Top = stack[1] /\ Top.pc = "endlist" /\ Top.pc \in ListPcs
  BY RunningStack DEF IInv, Rest, EndList, At, ListPcs
<1>3. stack' = Tail(stack) /\ next' = [next EXCEPT ![tail] = NULL]
      /\ UNCHANGED <<state, context, head, tail, current_ult, saved, unfinished, counters, status>>
  BY DEF EndList, Below
<1>4. p \in {"setrunning", "yieldnow"}
  BY <1>0, <1>2, CallOfEnqueue
<1>5. Continues(stack', stack) /\ Top'.pc = p /\ Top'.sel = sel
  <2>1. Top.pc \notin BasePcs /\ ~Creates(Top)
    BY <1>2 DEF BasePcs, Creates
  <2> QED BY <1>0, <1>2, <1>3, <2>1, FramePopped DEF Top
<1>6. Listing(q)
  BY <1>1, <1>2 DEF List
<1>7. /\ u \in Slots /\ Links(q) /\ EndsAt(q, u) /\ tail = u
      /\ head = (IF q = <<>> THEN u ELSE First(q))
      /\ \A i \in 1 .. Len(q) : q[i] # u
  BY <1>0, <1>2, <1>6 DEF Listing
<1>8. next \in [Slots -> Slots \cup {NULL}] /\ next' \in [Slots -> Slots \cup {NULL}]
  BY <1>3 DEF IInv, Rest, Tables
<1>9. Rest'
  BY <1>2, <1>3, <1>4, <1>5, <1>8, CallOfEnqueue, RestKept DEF IInv, Rest, Tables, Counters,
     counters, Statuses
<1> DEFINE r == Append(q, u)
<1>10. /\ r \in Seq(Slots) /\ Len(r) = Len(q) + 1 /\ Len(q) \in Nat /\ r[Len(q) + 1] = u
       /\ \A i \in 1 .. Len(q) : r[i] = q[i] /\ q[i] \in Slots
  BY <1>7, Appended
<1>11. Chain(r)'
  BY <1>3, <1>7, <1>8, Enqueued
<1> HIDE DEF r
<1>12. \A s : (\E i \in 1 .. Len(r) : r[i] = s) <=> s = u \/ \E i \in 1 .. Len(q) : q[i] = s
  BY <1>10
<1>13. List(r)'
  <2>1. CASE p = "yieldnow"
    <3>1. Listed(q, {u}) /\ u # current_ult /\ state[current_ult] # "READY" /\ Only(current_ult)
      BY <1>0, <1>6, <2>1 DEF Listing
    <3>2. Listed(r, {})'
      BY <1>3, <1>10, <1>12, <3>1 DEF Listed
    <3>3. Quiet(r)'
      BY <1>3, <1>11, <3>1, <3>2 DEF Quiet, Only
    <3> QED BY <1>5, <1>10, <2>1, <3>3 DEF List, Taking, ListPcs
  <2>2. CASE p = "setrunning"
    <3>1. /\ Listed(q, {sel, u}) /\ u = current_ult /\ sel # u /\ Only(current_ult)
      BY <1>0, <1>2, <1>6, <2>2 DEF Listing
    <3>2. Listed(r, {sel})'
      BY <1>3, <1>10, <1>12, <3>1 DEF Listed
    <3>3. \A t \in Slots : state'[t] # "RUNNING"
      BY <1>3, <3>1 DEF Only, Listed
    <3>4. Popped(r)'
      BY <1>3, <1>5, <1>11, <3>1, <3>2 DEF Popped
    <3> QED BY <1>5, <1>10, <2>2, <3>3, <3>4 DEF List, Taking, ListPcs, QuietPcs, BasePcs, KeptPcs
  <2> QED BY <1>4, <2>1, <2>2
<1> QED BY <1>9, <1>10, <1>13 DEF IInv
-------------------------------------------------------------------------------
(* th_yield *)

\* A sequence of slots without its first.
LEMMA Shortened ==
  ASSUME NEW q \in Seq(Slots), q # <<>>
  PROVE  /\ Tail(q) \in Seq(Slots) /\ Len(q) \in Nat \ {0} /\ Len(Tail(q)) = Len(q) - 1
         /\ \A i \in 1 .. Len(Tail(q)) : Tail(q)[i] = q[i + 1] /\ i + 1 \in 1 .. Len(q)
         /\ Tail(q) = <<>> <=> Len(q) = 1
         /\ \A i \in 1 .. Len(q) : q[i] \in Slots
<1>1. Tail(q) \in Seq(Slots) /\ Len(q) \in Nat \ {0} /\ Len(Tail(q)) = Len(q) - 1
  BY EmptySeq, HeadTailProperties
<1>2. \A i \in 1 .. Len(Tail(q)) : Tail(q)[i] = q[i + 1] /\ i + 1 \in 1 .. Len(q)
  BY <1>1, HeadTailProperties
<1>3. (Tail(q) = <<>>) <=> (Len(Tail(q)) = 0)
  BY <1>1, EmptySeq
<1> QED BY <1>1, <1>2, <1>3, ElementOfSeq

\* lib_get_next_ult's second statement: the slot it returns leaves the chain.
LEMMA Dequeued ==
  ASSUME NEW q \in Seq(Slots), q # <<>>, Chain(q), UNCHANGED <<next, tail>>,
         head' = next[head]
  PROVE  Chain(Tail(q))' /\ head = q[1]
<1> DEFINE t == Tail(q)
<1>1. /\ t \in Seq(Slots) /\ Len(q) \in Nat \ {0} /\ Len(t) = Len(q) - 1
      /\ \A i \in 1 .. Len(t) : t[i] = q[i + 1] /\ i + 1 \in 1 .. Len(q)
      /\ t = <<>> <=> Len(q) = 1
  BY Shortened
<1> HIDE DEF t
<1>2. head = q[1]
  BY DEF Chain, First
<1>3. \A i, j \in 1 .. Len(t) : t[i] = t[j] => i = j
  BY <1>1 DEF Chain, Links
<1>4. ASSUME NEW i \in 1 .. Len(t) - 1 PROVE next[t[i]] = t[i + 1]
  <2>1. i + 1 \in 1 .. Len(q) - 1 /\ t[i] = q[i + 1] /\ t[i + 1] = q[(i + 1) + 1]
    BY <1>1
  <2> QED BY <2>1 DEF Chain, Links
<1>5. t # <<>> => t[Len(t)] = q[Len(q)]
  BY <1>1
<1>6. next[q[1]] = First(t)
  <2>1. CASE Len(q) = 1
    BY <1>1, <2>1 DEF Chain, EndsAt, First
  <2>2. CASE Len(q) # 1
    <3>1. 1 \in 1 .. Len(q) - 1 /\ 1 \in 1 .. Len(t) /\ 1 + 1 = 2
      BY <1>1, <2>2
    <3>2. next[q[1]] = q[1 + 1] /\ t[1] = q[1 + 1]
      BY <1>1, <3>1 DEF Chain, Links
    <3> QED BY <1>1, <2>2, <3>2 DEF First
  <2> QED BY <2>1, <2>2
<1>7. Chain(t)'
  BY <1>1, <1>2, <1>3, <1>4, <1>5, <1>6 DEF Chain, Links, EndsAt, TailLast, First
<1> QED BY <1>2, <1>7 DEF t

LEMMA KeepsPopHead ==
  ASSUME IInv, PopHead
  PROVE  IInv'
<1>1. PICK q \in Seq(Slots) : List(q)
  BY DEF IInv
<1>2. WellFormed(stack) /\ Top = stack[1] /\ Top.pc = "pop"
  BY RunningStack DEF IInv, Rest, PopHead, At
<1>3. Goto("test") /\ head' = (IF head = NULL THEN NULL ELSE next[head])
      /\ UNCHANGED <<state, context, tail, next, current_ult, saved, unfinished, counters, status>>
  BY DEF PopHead
<1>4. /\ Continues(stack', stack) /\ Top'.pc = "test" /\ Top'.sel = Top.sel
  BY <1>2, <1>3, NextStatement DEF Pcs, BasePcs, CreatePcs, ListPcs
<1>5. Quiet(q) /\ Top.sel = head
  BY <1>1, <1>2 DEF List, Taking, QuietPcs
<1>6. head' \in Slots \cup {NULL}
  BY <1>3 DEF IInv, Rest, Tables
<1>7. Rest'
  BY <1>2, <1>3, <1>4, <1>6, RestKept DEF IInv, Rest, Tables, Counters, counters, Statuses
<1>8. CASE q = <<>>
  <2>1. head = NULL /\ head' = NULL
    BY <1>3, <1>5, <1>8 DEF Quiet, Chain, First
  <2>2. Quiet(q)' /\ Top'.sel = NULL
    BY <1>3, <1>4, <1>5, <2>1 DEF Quiet, Chain, Links, EndsAt, TailLast, First, Listed, Only
  <2>3. List(q)'
    BY <1>4, <1>8, <2>2 DEF List, Taking, QuietPcs, BasePcs, KeptPcs, ListPcs
  <2> QED BY <1>7, <2>3 DEF IInv
<1>9. CASE q # <<>>
  <2> DEFINE t == Tail(q)
  <2>1. /\ t \in Seq(Slots) /\ Len(q) \in Nat \ {0} /\ Len(t) = Len(q) - 1
        /\ \A i \in 1 .. Len(t) : t[i] = q[i + 1] /\ i + 1 \in 1 .. Len(q)
        /\ \A i \in 1 .. Len(q) : q[i] \in Slots
    BY <1>9, Shortened
  <2>2. head = q[1] /\ q[1] \in Slots
    BY <1>5, <1>9, <2>1 DEF Quiet, Chain, First
  <2>3. Chain(t)'
    BY <1>3, <1>5, <1>9, <2>2, Dequeued, SlotFacts DEF Quiet
  <2> HIDE DEF t
  <2>4. PICK sel \in Slots : sel = q[1]
    BY <2>2
  <2>5. \A i \in 1 .. Len(t) : t[i] # sel
    BY <1>5, <2>1, <2>4 DEF Quiet, Chain, Links
  <2>6. \A s : (\E i \in 1 .. Len(q) : q[i] = s) => s = sel \/ \E i \in 1 .. Len(t) : t[i] = s
    <3> SUFFICES ASSUME NEW i \in 1 .. Len(q), q[i] # sel
                 PROVE  \E j \in 1 .. Len(t) : t[j] = q[i]
      OBVIOUS
    <3>1. i - 1 \in 1 .. Len(t) /\ (i - 1) + 1 = i
      BY <2>1, <2>4
    <3> QED BY <2>1, <3>1
  <2>7. state[sel] = "READY"
    BY <1>5, <2>1, <2>4 DEF Quiet, Listed
  <2>8. Listed(t, {sel})'
    <3>1. \A i \in 1 .. Len(t) : state[t[i]] = "READY"
      BY <1>5, <2>1 DEF Quiet, Listed
    <3>2. \A s \in Slots : state[s] = "READY" => \E i \in 1 .. Len(q) : q[i] = s
      BY <1>5 DEF Quiet, Listed
    <3>3. \A s \in Slots : state[s] = "READY" /\ s # sel => \E i \in 1 .. Len(t) : t[i] = s
      BY <2>6, <3>2
    <3> QED BY <1>3, <2>5, <2>7, <3>1, <3>3 DEF Listed
  <2>9. Popped(t)' /\ Top'.sel = sel
    BY <1>3, <1>4, <1>5, <2>2, <2>3, <2>4, <2>7, <2>8 DEF Popped, Quiet
  <2>10. Only(current_ult)' /\ state'[current_ult'] # "READY" /\ Top'.sel # NULL
    BY <1>3, <1>5, <2>9, SlotFacts DEF Quiet, Only
  <2>11. List(t)'
    BY <1>4, <2>1, <2>9, <2>10 DEF List, Taking, QuietPcs, BasePcs, KeptPcs, ListPcs
  <2> QED BY <1>7, <2>1, <2>11 DEF IInv
<1> QED BY <1>8, <1>9

\* A thread was found: a ULT that has ended goes on, another is queued first.
LEMMA KeepsTestFree ==
  ASSUME IInv, TestSelected, Top.sel # NULL, state[current_ult] = "FREE"
  PROVE  IInv'
<1>1. PICK q \in Seq(Slots) : List(q)
  BY DEF IInv
<1>2. WellFormed(stack) /\ Top.pc = "test"
  BY RunningStack DEF IInv, Rest, TestSelected, At
<1>3. Goto("setrunning") /\ UNCHANGED <<ulib, unfinished, counters, status>>
  BY DEF TestSelected
<1>4. /\ Continues(stack', stack) /\ Top'.pc = "setrunning" /\ Top'.sel = Top.sel
  BY <1>2, <1>3, NextStatement DEF Pcs, BasePcs, CreatePcs, ListPcs
<1>5. Popped(q) /\ Only(current_ult)
  BY <1>1, <1>2 DEF List, Taking
<1>6. Rest'
  BY <1>2, <1>3, <1>4, RestKept DEF IInv, Rest, Tables, Counters, counters, ulib, Statuses
<1>7. Popped(q)' /\ \A t \in Slots : state'[t] # "RUNNING"
  BY <1>3, <1>4, <1>5 DEF Popped, Only, Chain, Links, EndsAt, TailLast, First, Listed, ulib
<1>8. List(q)'
  BY <1>4, <1>7 DEF List, Taking, QuietPcs, BasePcs, KeptPcs, ListPcs
<1> QED BY <1>6, <1>8 DEF IInv

LEMMA KeepsTestLive ==
  ASSUME IInv, TestSelected, Top.sel # NULL, state[current_ult] # "FREE"
  PROVE  IInv'
<1> DEFINE f == [Frame("setready") EXCEPT !.ult = current_ult]
           g == [Top EXCEPT !.pc = "setrunning"]
           s == <<g>> \o Tail(stack)
<1>1. PICK q \in Seq(Slots) : List(q)
  BY DEF IInv
<1>2. WellFormed(stack) /\ Top = stack[1] /\ Top.pc = "test" /\ Top \in Frames
  BY RunningStack DEF IInv, Rest, TestSelected, At
<1>3. current_ult \in Slots
  BY DEF IInv, Rest, Tables
<1>4. f \in Frames /\ f.pc = "setready" /\ f.ult = current_ult
  <2>1. Frame("setready") \in Frames /\ Frame("setready").pc = "setready"
    BY NewFrame DEF Pcs
  <2>2. f \in Frames
    BY <1>3, <2>1, Zenon DEF Frames
  <2> QED BY <2>1, <2>2 DEF Frames
<1>5. g \in Frames /\ g.pc = "setrunning" /\ g.sel = Top.sel
  BY <1>2, Relabelled DEF Pcs
<1>6. stack' = <<f, g>> \o Tail(stack) /\ UNCHANGED <<ulib, unfinished, counters, status>>
  BY DEF TestSelected, CallThen, Below
<1>7. stack' = <<f>> \o s
  BY <1>2, <1>4, <1>5, <1>6, StackFacts, TwoPrefixed
<1> HIDE DEF f, g
<1>8. Continues(s, stack) /\ s[1] = g
  BY <1>2, <1>5, TopReplaced DEF BasePcs, CreatePcs, ListPcs, Creates
<1> HIDE DEF s
<1>9. Continues(stack', s) /\ stack'[1] = f /\ stack'[2] = g
  BY <1>4, <1>5, <1>7, <1>8, FramePushed DEF Continues, Follows, BasePcs, ListPcs, CreatePcs
<1>10. Continues(stack', stack) /\ Top' = f
  BY <1>8, <1>9, ContinuesOn DEF Top
<1>11. Rest'
  BY <1>2, <1>4, <1>6, <1>10, RestKept DEF IInv, Rest, Tables, Counters, ulib, counters,
       Statuses
<1>12. Popped(q) /\ Only(current_ult) /\ state[current_ult] # "READY"
  BY <1>1, <1>2 DEF List, Taking
<1>13. PICK sel : sel = Top.sel
  OBVIOUS
<1>14. Listed(q, {sel})' /\ Links(q)' /\ EndsAt(q, NULL)' /\ TailLast(q)' /\ head' = First(q)'
       /\ Only(current_ult)'
  BY <1>6, <1>12, <1>13 DEF Popped, Only, Chain, Links, EndsAt, TailLast, First, Listed, ulib
<1>15. \A i \in 1 .. Len(q) : q[i] # current_ult
  BY <1>12 DEF Popped, Listed
<1>16. Listing(q)'
  BY <1>3, <1>4, <1>5, <1>6, <1>9, <1>10, <1>12, <1>13, <1>14, <1>15 DEF Listing, Popped, ulib
<1> QED BY <1>4, <1>10, <1>11, <1>16, StillListing DEF IInv, ListPcs
LEMMA KeepsSetRunning ==
  ASSUME IInv, SetRunning
  PROVE  IInv'
<1>0. PICK sel : sel = Top.sel
  OBVIOUS
<1>1. PICK q \in Seq(Slots) : List(q)
  BY DEF IInv
<1>2. WellFormed(stack) /\ Top.pc = "setrunning"
  BY RunningStack DEF IInv, Rest, SetRunning, At
<1>3. Goto("contexts") /\ state' = [state EXCEPT ![sel] = "RUNNING"]
      /\ UNCHANGED <<context, head, tail, next, current_ult, saved, unfinished, counters, status>>
  BY <1>0 DEF SetRunning
<1>4. /\ Continues(stack', stack) /\ Top'.pc = "contexts" /\ Top'.sel = sel
  BY <1>0, <1>2, <1>3, NextStatement DEF Pcs, BasePcs, CreatePcs, ListPcs
<1>5. /\ sel # current_ult /\ Chain(q) /\ Listed(q, {sel})
      /\ \A t \in Slots : state[t] # "RUNNING"
  BY <1>0, <1>1, <1>2 DEF List, Taking, Popped
<1>6. sel \in Slots /\ state[sel] = "READY" /\ state \in [Slots -> {"FREE", "RUNNING", "READY"}]
  BY <1>5 DEF Listed, IInv, Rest, Tables
<1>7. /\ state' \in [Slots -> {"FREE", "RUNNING", "READY"}] /\ state'[sel] = "RUNNING"
      /\ \A s \in Slots : s # sel => state'[s] = state[s]
  BY <1>3, <1>6
<1>8. Rest'
  BY <1>2, <1>3, <1>4, <1>6, <1>7, RestKept DEF IInv, Rest, Tables, Counters, counters, Statuses
<1>9. Listed(q, {})'
  <2>1. \A i \in 1 .. Len(q) : q[i] \in Slots /\ q[i] # sel /\ state[q[i]] = "READY"
    BY <1>5, ElementOfSeq DEF Listed
  <2>2. \A s \in Slots : state[s] = "READY" /\ s # sel => \E i \in 1 .. Len(q) : q[i] = s
    BY <1>5 DEF Listed
  <2> QED BY <1>7, <2>1, <2>2 DEF Listed
<1>10. Switching(q)'
  BY <1>3, <1>4, <1>5, <1>6, <1>7, <1>9
     DEF Switching, Only, Chain, Links, EndsAt, TailLast, First
<1>11. List(q)'
  BY <1>4, <1>10 DEF List, Taking, QuietPcs, BasePcs, KeptPcs, ListPcs
<1> QED BY <1>8, <1>11 DEF IInv

LEMMA KeepsReadContexts ==
  ASSUME IInv, ReadContexts
  PROVE  IInv'
<1> DEFINE f == [Top EXCEPT !.pc = "setcurrent",
                            !.old = context[current_ult], !.new = context[Top.sel]]
<1>0. PICK sel : sel = Top.sel
  OBVIOUS
<1>1. PICK q \in Seq(Slots) : List(q)
  BY DEF IInv
<1>2. WellFormed(stack) /\ Top = stack[1] /\ Top.pc = "contexts" /\ Top \in Frames
  BY RunningStack DEF IInv, Rest, ReadContexts, At
<1>3. Switching(q)
  BY <1>1, <1>2 DEF List, Taking
<1>4. /\ context[current_ult] \in Threads \cup {NULL}
      /\ context[Top.sel] \in Threads \cup {NULL}
  BY <1>3 DEF Switching, IInv, Rest, Tables
<1>5. f \in Frames
  BY <1>2, <1>4, Zenon DEF Frames, Pcs
<1>6. /\ f.pc = "setcurrent" /\ f.sel = sel
      /\ f.old = context[current_ult] /\ f.new = context[sel]
  BY <1>0, <1>2 DEF Frames
<1>7. stack' = <<f>> \o Tail(stack) /\ UNCHANGED <<ulib, unfinished, counters, status>>
  BY DEF ReadContexts, GotoWith, Below
<1> HIDE DEF f
<1>8. Continues(stack', stack) /\ Top' = f
  BY <1>2, <1>5, <1>6, <1>7, TopReplaced DEF BasePcs, CreatePcs, ListPcs, Creates, Top
<1>9. Rest'
  BY <1>2, <1>6, <1>7, <1>8, RestKept DEF IInv, Rest, Tables, Counters, ulib, counters, Statuses
<1>10. Switching(q)'
  BY <1>0, <1>3, <1>6, <1>7, <1>8
     DEF Switching, Only, Chain, Links, EndsAt, TailLast, First, Listed, ulib
<1>11. Top'.pc = "setcurrent" /\ Top'.old = context'[current_ult'] /\ Top'.new = context'[Top'.sel]
  BY <1>6, <1>7, <1>8 DEF ulib
<1>12. List(q)'
  BY <1>10, <1>11 DEF List, Taking, QuietPcs, BasePcs, KeptPcs, ListPcs
<1> QED BY <1>9, <1>12 DEF IInv

\* The slot becomes the current one while the old thread still runs.
LEMMA KeepsSetCurrent ==
  ASSUME IInv, SetCurrent
  PROVE  IInv'
<1>0. PICK sel : sel = Top.sel
  OBVIOUS
<1>1. PICK q \in Seq(Slots) : List(q)
  BY DEF IInv
<1>2. WellFormed(stack) /\ Top.pc = "setcurrent"
  BY RunningStack DEF IInv, Rest, SetCurrent, At
<1>3. Goto("swap") /\ current_ult' = sel
      /\ UNCHANGED <<state, context, head, tail, next, saved, unfinished, counters, status>>
  BY <1>0 DEF SetCurrent
<1>4. /\ Continues(stack', stack) /\ Top'.pc = "swap" /\ Top'.sel = sel
      /\ Top'.old = Top.old /\ Top'.new = Top.new
  BY <1>0, <1>2, <1>3, NextStatement DEF Pcs, BasePcs, CreatePcs, ListPcs
<1>5. /\ sel \in Slots /\ sel # current_ult /\ state[sel] = "RUNNING"
      /\ Chain(q) /\ Listed(q, {}) /\ Only(sel)
      /\ Top.old = context[current_ult] /\ Top.new = context[sel]
  BY <1>0, <1>1, <1>2 DEF List, Taking, Switching
<1>6. context[current_ult] = Running /\ current_ult \in Slots /\ Running \in Threads
  BY <1>2 DEF IInv, Rest, Owners, Tables, Stacks
<1>7. context[sel] # Running
  <2>1. CASE state[current_ult] = "FREE"
    <3>1. Unreachable(stack) /\ Owns(sel)
      BY <1>5, <2>1 DEF IInv, Rest, Owners
    <3> QED BY <3>1 DEF Owns, StackOf
  <2>2. CASE state[current_ult] # "FREE"
    BY <1>5, <1>6, <2>2 DEF IInv, Rest, Owners
  <2> QED BY <2>1, <2>2
<1>8. /\ Stacks' /\ Running' = Running /\ PendingSet' = PendingSet
      /\ \A k \in Threads : Base(StackOf(k)') = Base(StackOf(k))
      /\ \A k \in Threads : StackOf(k)' = <<>> <=> StackOf(k) = <<>>
  BY <1>3, <1>4, SameThread DEF IInv, Rest, counters, Continues
<1>9. \A k \in Threads : StackKept(k)
  <2>1. SameClaims(stack', stack) /\ (Unreachable(stack') => Unreachable(stack)) /\ stack' # <<>>
    BY <1>4 DEF Continues, Follows, WellFormed, Shaped, Unreachable
  <2>2. \A k \in Threads : StackOf(k)' = IF k = Running THEN stack' ELSE StackOf(k)
    BY <1>3, <1>8 DEF StackOf
  <2> QED BY <2>1, <2>2, OwnStackKept
<1>9a. Owners' /\ Claimants'
  <2>1. (\A s \in Slots : state'[s] # "FREE" => Owns(s)') /\ \A k \in unfinished' : HasOwner(k)'
    BY <1>3, <1>9, OwnersRemain DEF IInv, Rest
  <2>2. Claimants'
    BY <1>3, <1>9, ClaimantsRemain DEF IInv, Rest
  <2>3. state'[current_ult'] # "FREE"
    BY <1>3, <1>5
  <2>4. Unreachable(stack') => ~Resumes(stack')
    BY <1>4 DEF IInv, Rest, Owners, Continues, Follows, Unreachable
  <2> QED BY <1>3, <1>4, <2>1, <2>2, <2>3, <2>4 DEF IInv, Rest, Owners
<1>10. Rest'
  BY <1>3, <1>4, <1>5, <1>8, <1>9a DEF IInv, Rest, Tables, Counters, Statuses, counters
<1>11. Quiet(q)'
  BY <1>3, <1>5 DEF Quiet, Only, Chain, Links, EndsAt, TailLast, First, Listed
<1>12. /\ state'[current_ult'] = "RUNNING" /\ Top'.old = Running'
       /\ Top'.new = context'[current_ult'] /\ Top'.new # Running'
  BY <1>3, <1>4, <1>5, <1>6, <1>7, <1>8
<1>13. List(q)'
  BY <1>4, <1>11, <1>12 DEF List, Taking, QuietPcs, BasePcs, KeptPcs, ListPcs
<1> QED BY <1>10, <1>13 DEF IInv
-------------------------------------------------------------------------------
(* The context switch *)

\* The stack that runs goes to its context, that of the chosen slot's thread runs; the
\* two threads are not the same, so it was there to be resumed.
LEMMA Switched ==
  ASSUME IInv, SwapContext
  PROVE  \E n \in Threads :
           /\ n # Running /\ n = context[current_ult] /\ Running' = n
           /\ stack' = saved[n] /\ StackOk(n) /\ stack' # <<>> /\ UNCHANGED status
           /\ WellFormed(saved'[Running]) /\ Base(saved'[Running]) = Base(stack)
           /\ saved'[Running][1].pc = "resumed"
           /\ Pending(saved'[Running]) <=> Pending(stack)
           /\ SameClaims(saved'[Running], stack)
           /\ saved' \in [Threads -> Seq(Frames)]
           /\ \A k \in Threads : k # Running /\ k # n => saved'[k] = saved[k]
<1> DEFINE r == [Top EXCEPT !.pc = "resumed"]
           z == <<r>> \o Tail(stack)
<1>0. PICK n, o : n = Top.new /\ o = Top.old
  OBVIOUS
<1> DEFINE suspended == [saved EXCEPT ![o] = z]
<1>1. PICK q \in Seq(Slots) : List(q)
  BY DEF IInv
<1>2. WellFormed(stack) /\ Top = stack[1] /\ Top.pc = "swap" /\ Top \in Frames
  BY RunningStack DEF IInv, Rest, SwapContext, At
<1>3. state[current_ult] = "RUNNING" /\ o = Running /\ n = context[current_ult] /\ n # o
  BY <1>0, <1>1, <1>2 DEF List, Taking
<1>4. /\ o \in Threads /\ n \in Threads /\ saved[n] # <<>> /\ StackOk(n)
      /\ saved \in [Threads -> Seq(Frames)]
  <2>1. Owns(current_ult) /\ saved \in [Threads -> Seq(Frames)] /\ o \in Threads
    BY <1>3 DEF IInv, Rest, Owners, Tables, Stacks
  <2>2. n \in Threads /\ StackOf(n) # <<>> /\ StackOf(n) = saved[n]
    BY <1>3, <2>1 DEF Owns, StackOf
  <2> QED BY <2>1, <2>2 DEF IInv, Rest, Stacks
<1>5. r \in Frames /\ r.pc = "resumed"
  BY <1>2, Relabelled DEF Pcs
<1> HIDE DEF r
<1>6. /\ WellFormed(z) /\ Base(z) = Base(stack) /\ z[1] = r
      /\ Pending(z) <=> Pending(stack)
      /\ SameClaims(z, stack)
  BY <1>2, <1>5, TopReplaced DEF BasePcs, CreatePcs, ListPcs, Creates
<1>7. z \in Seq(Frames)
  BY <1>6 DEF WellFormed, Shaped
<1>8. /\ saved' = [suspended EXCEPT ![n] = <<>>]
      /\ status' = IF suspended[n] = <<>> THEN "wild" ELSE status
      /\ stack' = IF suspended[n] = <<>> THEN stack ELSE suspended[n]
  BY <1>0 DEF SwapContext, Below, r
<1> HIDE DEF z
<1>9. suspended[n] = saved[n]
  BY <1>3, <1>4
<1>10. stack' = saved[n] /\ status' = status
  BY <1>4, <1>8, <1>9
<1>11. /\ saved' \in [Threads -> Seq(Frames)] /\ saved'[o] = z
       /\ \A k \in Threads : k # o /\ k # n => saved'[k] = saved[k]
  <2>1. <<>> \in Seq(Frames)
    BY EmptySeq
  <2> QED BY <1>3, <1>4, <1>7, <1>8, <2>1
<1>12. Running' = n
  <2>1. StackOf(n) = saved[n]
    BY <1>3 DEF StackOf
  <2> QED BY <1>4, <1>10, <2>1 DEF StackOk, Running
<1> QED BY <1>3, <1>4, <1>5, <1>6, <1>10, <1>11, <1>12

LEMMA KeepsSwapContext ==
  ASSUME IInv, SwapContext
  PROVE  IInv'
<1>1. PICK q \in Seq(Slots) : List(q)
  BY DEF IInv
<1>2. PICK n \in Threads :
        /\ n # Running /\ n = context[current_ult] /\ Running' = n
        /\ stack' = saved[n] /\ StackOk(n) /\ stack' # <<>> /\ UNCHANGED status
        /\ WellFormed(saved'[Running]) /\ Base(saved'[Running]) = Base(stack)
        /\ saved'[Running][1].pc = "resumed"
        /\ Pending(saved'[Running]) <=> Pending(stack)
        /\ SameClaims(saved'[Running], stack)
        /\ saved' \in [Threads -> Seq(Frames)]
        /\ \A k \in Threads : k # Running /\ k # n => saved'[k] = saved[k]
  BY Switched
<1>3. PICK o \in Threads : o = Running
  BY DEF IInv, Rest, Stacks
<1>4. UNCHANGED <<state, context, head, tail, next, current_ult, unfinished, counters>>
      /\ Top.pc = "swap"
  BY DEF SwapContext, At
<1>5. Quiet(q) /\ state[current_ult] = "RUNNING"
  BY <1>1, <1>4 DEF List, Taking
<1>6. WellFormed(stack) /\ stack # <<>>
  BY RunningStack DEF IInv, Rest, Stacks
<1>7. \A k \in Threads : StackOf(k)' = IF k = o THEN saved'[o] ELSE StackOf(k)
  BY <1>2, <1>3 DEF StackOf
<1>8. saved'[o] # <<>>
  BY <1>2, <1>3 DEF WellFormed, Shaped
<1>9. ASSUME NEW k \in Threads
      PROVE  /\ Base(StackOf(k)') = Base(StackOf(k))
             /\ StackOf(k)' = <<>> <=> StackOf(k) = <<>>
             /\ Pending(StackOf(k)') <=> Pending(StackOf(k))
  BY <1>2, <1>3, <1>6, <1>7, <1>8 DEF StackOf
<1>10. PendingSet' = PendingSet
  BY <1>9 DEF PendingSet
<1>11. Stacks'
  <2>1. ASSUME NEW k \in Threads, StackOf(k)' # <<>> PROVE StackOk(k)'
    <3>1. StackOk(k)
      BY <1>9, <2>1 DEF IInv, Rest, Stacks
    <3>2. WellFormed(StackOf(k)')
      BY <1>2, <1>3, <1>7, <3>1 DEF StackOk
    <3> QED BY <1>4, <1>9, <3>1, <3>2 DEF StackOk, ThreadOf, Base, counters
  <2>2. ASSUME NEW k \in Threads, k # n, saved'[k] # <<>>
        PROVE  saved'[k][1].pc \in {"user", "resumed"}
    BY <1>2, <1>3, <2>2 DEF IInv, Rest, Stacks
  <2> QED BY <1>2, <2>1, <2>2 DEF Stacks
<1>12. Top'.pc \in {"user", "resumed"}
  BY <1>2 DEF IInv, Rest, Stacks, Top
<1>12a. \A k \in Threads : StackKept(k)
  <2> SUFFICES ASSUME NEW k \in Threads PROVE StackKept(k)
    OBVIOUS
  <2>1. SameClaims(StackOf(k)', StackOf(k))
    <3>1. CASE k = o
      <4>1. StackOf(k)' = saved'[o] /\ StackOf(k) = stack
        BY <1>3, <1>7, <3>1 DEF StackOf
      <4> QED BY <1>2, <1>3, <4>1
    <3>2. CASE k # o
      <4>1. StackOf(k)' = StackOf(k)
        BY <1>7, <3>2
      <4> QED BY <4>1 DEF SameClaims
    <3> QED BY <3>1, <3>2
  <2> QED BY <1>9, <2>1 DEF StackKept, Unreachable
<1>13. Owners' /\ Claimants'
  <2>1. (\A s \in Slots : state'[s] # "FREE" => Owns(s)') /\ \A k \in unfinished' : HasOwner(k)'
    BY <1>4, <1>12a, OwnersRemain DEF IInv, Rest
  <2>2. Claimants'
    BY <1>4, <1>12a, ClaimantsRemain DEF IInv, Rest
  <2>3. state'[current_ult'] # "FREE" /\ context'[current_ult'] = Running'
    BY <1>2, <1>4, <1>5
  <2>4. ~Unreachable(stack')
    <3>1. Owns(current_ult)
      BY <1>5 DEF IInv, Rest, Owners, Tables
    <3> QED BY <1>2, <3>1 DEF Owns, StackOf
  <2> QED BY <1>4, <2>1, <2>2, <2>3, <2>4 DEF IInv, Rest, Owners
<1>14. Rest'
  BY <1>2, <1>4, <1>10, <1>11, <1>12, <1>13
     DEF IInv, Rest, Tables, Counters, Statuses, counters
<1>15. List(q)'
  BY <1>4, <1>5, <1>12, StillQuiet DEF QuietPcs, BasePcs, KeptPcs
<1> QED BY <1>14, <1>15 DEF IInv
-------------------------------------------------------------------------------
(* th_return *)

\* The running thread's stack changes its base or its calls, it is still its own.
LEMMA OwnStackChanged ==
  ASSUME Stacks, WellFormed(stack'), Base(stack').thread = Base(stack).thread,
         UNCHANGED <<saved, created>>, unfinished' \subseteq unfinished,
         Base(stack').pc \in {"free", "unreachable"} => Running # 0,
         Base(stack').pc # "user" => Running \notin unfinished'
  PROVE  /\ Stacks' /\ Running' = Running
         /\ \A k \in Threads : StackOf(k)' = IF k = Running THEN stack' ELSE StackOf(k)
<1>1. Running' = Running /\ stack' # <<>>
  BY DEF Running, ThreadOf, Base, WellFormed, Shaped
<1>2. \A k \in Threads : StackOf(k)' = IF k = Running THEN stack' ELSE StackOf(k)
  BY <1>1 DEF StackOf
<1>3. ASSUME NEW k \in Threads, StackOf(k)' # <<>> PROVE StackOk(k)'
  <2>1. CASE k = Running
    <3>1. StackOf(k)' = stack' /\ ThreadOf(stack') = k
      BY <1>1, <1>2, <2>1 DEF Running
    <3>2. k <= created
      BY <2>1, RunningStack
    <3> QED BY <2>1, <3>1, <3>2 DEF StackOk
  <2>2. CASE k # Running
    <3>1. StackOf(k)' = StackOf(k) /\ StackOk(k)
      BY <1>2, <1>3, <2>2 DEF Stacks
    <3> QED BY <3>1 DEF StackOk
  <2> QED BY <2>1, <2>2
<1>4. Stacks'
  BY <1>1, <1>3 DEF Stacks
<1> QED BY <1>1, <1>2, <1>4

\* At the program's own statements the running thread stands in its slot.
LEMMA UserSlot ==
  ASSUME Rest, Base(stack).pc # "unreachable", Top.pc # "swap"
  PROVE  /\ current_ult \in Slots /\ state[current_ult] # "FREE"
         /\ context[current_ult] = Running
BY DEF Rest, Tables, Owners, Unreachable

LEMMA KeepsUserReturns ==
  ASSUME IInv, UserReturns
  PROVE  IInv'
<1> DEFINE p == IF current_ult = Main THEN "drain" ELSE "free"
           f == [Top EXCEPT !.pc = p]
<1>1. PICK q \in Seq(Slots) : List(q)
  BY DEF IInv
<1>2. WellFormed(stack) /\ Top = stack[1] /\ Top.pc = "user" /\ Top \in Frames
      /\ Top.pc \in BasePcs /\ Base(stack).thread = Running /\ Running \in Threads
  BY RunningStack DEF IInv, Rest, UserReturns, At, BasePcs
<1>3. /\ stack' = <<f>> \o Tail(stack) /\ unfinished' = unfinished \ {Top.thread}
      /\ UNCHANGED <<ulib, counters, status>>
  BY DEF UserReturns, Goto, Below
<1>4. p \in {"drain", "free"} /\ (p = "free" => current_ult # Main)
  OBVIOUS
<1> HIDE DEF p
<1>5. f \in Frames /\ f.pc = p /\ f.thread = Top.thread
  <2>1. p \in Pcs /\ Top \in Frames
    BY <1>2, <1>4 DEF Pcs
  <2> QED BY <2>1, Relabelled
<1> HIDE DEF f
<1>6. /\ WellFormed(stack') /\ Base(stack') = f /\ stack'[1] = f /\ Len(stack') = 1
      /\ Base(stack) = stack[1] /\ ~Pending(stack) /\ ~Pending(stack')
  BY <1>2, <1>3, <1>4, <1>5, BaseReplaced DEF BasePcs
<1>6a. ~Claiming(stack) /\ ~Claiming(stack')
  BY <1>2, <1>3, <1>4, <1>5, BaseReplaced DEF BasePcs
<1>7. Top.thread = Running /\ Top'.pc = p
  BY <1>2, <1>5, <1>6 DEF Top
<1>8. state[current_ult] # "FREE" /\ context[current_ult] = Running /\ current_ult \in Slots
  BY <1>2, <1>6, UserSlot DEF IInv
<1>9. p = "free" => Running # 0
  BY <1>4, <1>8, SlotFacts DEF IInv, Rest, Owners
<1>10. /\ Stacks' /\ Running' = Running
       /\ \A k \in Threads : StackOf(k)' = IF k = Running THEN stack' ELSE StackOf(k)
  BY <1>2, <1>3, <1>4, <1>5, <1>6, <1>7, <1>9, OwnStackChanged
     DEF IInv, Rest, ulib, counters
<1>11. \A k \in Threads :
         /\ Pending(StackOf(k)') <=> Pending(StackOf(k))
         /\ StackOf(k)' = <<>> => StackOf(k) = <<>>
         /\ Unreachable(StackOf(k)') => Unreachable(StackOf(k))
  BY <1>4, <1>5, <1>6, <1>10 DEF StackOf, Unreachable, WellFormed, Shaped
<1>12. PendingSet' = PendingSet
  BY <1>11 DEF PendingSet
<1>12a. \A k \in Threads : StackKept(k)
  <2>1. SameClaims(stack', stack)
    BY <1>6a, WritingClaims DEF SameClaims
  <2>2. (Unreachable(stack') => Unreachable(stack)) /\ stack' # <<>>
    BY <1>4, <1>5, <1>6 DEF Unreachable, WellFormed, Shaped
  <2> QED BY <1>10, <2>1, <2>2, OwnStackKept
<1>13. Owners' /\ Claimants'
  <2>1. (\A s \in Slots : state'[s] # "FREE" => Owns(s)') /\ \A k \in unfinished' : HasOwner(k)'
    BY <1>3, <1>12a, OwnersRemain DEF IInv, Rest, ulib
  <2>2. Claimants'
    BY <1>3, <1>12a, ClaimantsRemain DEF IInv, Rest, ulib
  <2>3. ~Unreachable(stack')
    BY <1>4, <1>5, <1>6 DEF Unreachable
  <2> QED BY <1>3, <1>8, <1>10, <2>1, <2>2, <2>3 DEF IInv, Rest, Owners, ulib
<1>14. Rest'
  BY <1>3, <1>10, <1>12, <1>13
     DEF IInv, Rest, Tables, Counters, Statuses, counters, ulib
<1>15. List(q)'
  BY <1>1, <1>2, <1>3, <1>4, <1>7, StillQuiet DEF List, QuietPcs, BasePcs, KeptPcs, ulib
<1> QED BY <1>14, <1>15 DEF IInv

\* th_return of another thread than main: its slot is FREE while it still runs.
LEMMA KeepsMarkFree ==
  ASSUME IInv, MarkFree
  PROVE  IInv'
<1> DEFINE f == Frame("head")
           g == [Top EXCEPT !.pc = "unreachable"]
           b == <<g>> \o Tail(stack)
<1>0. PICK c : c = current_ult
  OBVIOUS
<1>1. PICK q \in Seq(Slots) : List(q)
  BY DEF IInv
<1>2. WellFormed(stack) /\ Top = stack[1] /\ Top.pc = "free" /\ Top \in Frames
      /\ Top.pc \in BasePcs /\ Base(stack).thread = Running /\ Running \in Threads
      /\ (Base(stack).pc = "free" => Running # 0 /\ Running \notin unfinished)
  BY RunningStack DEF IInv, Rest, MarkFree, At, BasePcs
<1>3. /\ stack' = <<f, g>> \o Tail(stack) /\ state' = [state EXCEPT ![c] = "FREE"]
      /\ UNCHANGED <<context, head, tail, next, current_ult, saved, unfinished, counters, status>>
  BY <1>0 DEF MarkFree, CallThen, Below
<1>4. f \in Frames /\ f.pc = "head"
  BY NewFrame DEF Pcs
<1>5. g \in Frames /\ g.pc = "unreachable" /\ g.thread = Top.thread
  <2>1. "unreachable" \in Pcs /\ Top \in Frames
    BY <1>2 DEF Pcs
  <2> QED BY <2>1, Relabelled
<1>6. stack' = <<f>> \o b
  BY <1>2, <1>3, <1>4, <1>5, StackFacts, TwoPrefixed
<1> HIDE DEF f, g
<1>7. /\ WellFormed(b) /\ Base(b) = g /\ b[1] = g /\ Len(b) = 1
      /\ Base(stack) = stack[1] /\ ~Pending(stack) /\ ~Pending(b)
  BY <1>2, <1>5, BaseReplaced DEF BasePcs
<1> HIDE DEF b
<1>7a. ~Claiming(stack) /\ ~Claiming(b)
  BY <1>2, <1>5, BaseReplaced DEF BasePcs, b
<1>8. Continues(stack', b) /\ stack'[1] = f
  BY <1>4, <1>5, <1>6, <1>7, FramePushed DEF BasePcs, ListPcs, CreatePcs
<1>9. /\ WellFormed(stack') /\ Base(stack') = g /\ ~Pending(stack') /\ ~Resumes(stack')
      /\ Top'.pc = "head" /\ Top.thread = Running
  <2>1. ~Resumes(b)
    BY <1>5, <1>7 DEF Resumes
  <2> QED BY <1>2, <1>4, <1>7, <1>8, <2>1 DEF Continues, Follows, Top
<1>10. /\ c \in Slots /\ state[c] # "FREE" /\ context[c] = Running /\ Running # 0
       /\ Running \notin unfinished /\ state \in [Slots -> {"FREE", "RUNNING", "READY"}]
  BY <1>0, <1>2, <1>7, UserSlot DEF IInv, Rest, Tables
<1>11. c # Main
  BY <1>10 DEF IInv, Rest, Owners
<1>12. /\ state' \in [Slots -> {"FREE", "RUNNING", "READY"}]
       /\ state'[c] = "FREE" /\ \A s \in Slots : s # c => state'[s] = state[s]
  BY <1>3, <1>10
<1>13. /\ Stacks' /\ Running' = Running
       /\ \A k \in Threads : StackOf(k)' = IF k = Running THEN stack' ELSE StackOf(k)
  BY <1>2, <1>3, <1>5, <1>9, <1>10, OwnStackChanged DEF IInv, Rest, counters
<1>14. \A k \in Threads : Pending(StackOf(k)') <=> Pending(StackOf(k))
  BY <1>7, <1>9, <1>13 DEF StackOf
<1>15. PendingSet' = PendingSet
  BY <1>14 DEF PendingSet
<1>15a. ~Claiming(stack')
  BY <1>7a, <1>8 DEF Continues, SameClaims
<1>15b. ASSUME NEW j \in Threads, j # Running PROVE StackOf(j)' = StackOf(j)
  BY <1>13, <1>15b
<1>15c. ASSUME NEW j \in Threads, Claiming(StackOf(j)) \/ Claiming(StackOf(j)') PROVE j # Running
  BY <1>7a, <1>13, <1>15a, <1>15c DEF StackOf
<1>15d. ASSUME NEW s \in Slots, Owns(s), s # c, context[s] # Running PROVE Owns(s)'
  <2>1. PICK j \in Threads : j = context[s]
    BY <1>15d DEF Owns
  <2>2. StackOf(j)' # <<>> /\ ~Unreachable(StackOf(j)')
    BY <1>15b, <1>15d, <2>1 DEF Owns
  <2>3. StackOf(context[s])' = StackOf(j)' /\ context'[s] = context[s]
    BY <1>3, <2>1 DEF StackOf
  <2> QED BY <1>15d, <2>1, <2>2, <2>3 DEF Owns
<1>16. Owners'
  <2>1. ASSUME NEW s \in Slots, state'[s] # "FREE" PROVE Owns(s)'
    <3>1. s # c /\ state[s] # "FREE" /\ Owns(s)
      BY <1>12, <2>1 DEF IInv, Rest, Owners
    <3>2. context[s] # Running
      BY <1>10, <3>1 DEF IInv, Rest, Owners
    <3> QED BY <1>15d, <3>1, <3>2
  <2>2. ASSUME NEW k \in unfinished' PROVE HasOwner(k)'
    <3>0. HasOwner(k) /\ k # Running
      BY <1>3, <1>10, <2>2 DEF IInv, Rest, Owners
    <3>1. CASE \E s \in Slots : state[s] # "FREE" /\ context[s] = k
      BY <1>3, <1>10, <1>12, <3>0, <3>1 DEF HasOwner
    <3>2. CASE \E d \in Threads : Writing(StackOf(d)) /\ context[Chosen(StackOf(d))] = k
      <4>1. PICK d \in Threads : Writing(StackOf(d)) /\ context[Chosen(StackOf(d))] = k
        BY <3>2
      <4>2. StackOf(d)' = StackOf(d)
        BY <1>15b, <1>15c, <4>1, WritingClaims
      <4>3. (Writing(StackOf(d)) /\ context[Chosen(StackOf(d))] = k)'
        BY <1>3, <4>1, <4>2
      <4> QED BY <4>3 DEF HasOwner
    <3> QED BY <3>0, <3>1, <3>2 DEF HasOwner
  <2>3. Unreachable(stack')
    BY <1>5, <1>9 DEF Unreachable
  <2>4. state'[Main] # "FREE"
    BY <1>11, <1>12, SlotFacts DEF IInv, Rest, Owners
  <2>5. \A s, t \in Slots :
          state'[s] # "FREE" /\ state'[t] # "FREE" /\ context[s] = context[t] => s = t
    BY <1>12 DEF IInv, Rest, Owners
  <2> QED BY <1>0, <1>3, <1>9, <1>10, <1>13, <2>1, <2>2, <2>3, <2>4, <2>5
          DEF IInv, Rest, Owners
<1>16a. Claimants'
  <2>1. ASSUME NEW d \in Threads, Claiming(StackOf(d)')
        PROVE  /\ Claiming(StackOf(d)) /\ StackOf(d)' = StackOf(d)
               /\ Chosen(StackOf(d)) \in Slots /\ state'[Chosen(StackOf(d))] = "FREE"
               /\ \E s \in Slots : state'[s] # "FREE" /\ context'[s] = d
               /\ Writing(StackOf(d)) => Fresh(Chosen(StackOf(d)))'
    <3>1. d # Running
      BY <1>15c, <2>1
    <3>2. StackOf(d)' = StackOf(d) /\ Claiming(StackOf(d))
      BY <1>15b, <2>1, <3>1
    <3>3. PICK u \in Slots : u = Chosen(StackOf(d)) /\ state[u] = "FREE"
      BY <3>2 DEF IInv, Rest, Claimants
    <3>4. PICK s \in Slots : state[s] # "FREE" /\ context[s] = d
      BY <3>2 DEF IInv, Rest, Claimants
    <3>5. s # c /\ state'[s] # "FREE" /\ context'[s] = d /\ u # c /\ state'[u] = "FREE"
      BY <1>3, <1>10, <1>12, <3>1, <3>3, <3>4
    <3>6. ASSUME Writing(StackOf(d)) PROVE Fresh(u)'
      <4>1. Fresh(u)
        BY <3>2, <3>3, <3>6 DEF IInv, Rest, Claimants
      <4>2. context[u] # Running /\ Owns(u)
        BY <1>10, <4>1 DEF Fresh
      <4>3. Owns(u)'
        BY <1>15d, <3>5, <4>2
      <4> QED BY <1>3, <1>12, <4>1, <4>3 DEF Fresh
    <3>7. Writing(StackOf(d)) => Fresh(Chosen(StackOf(d)))'
      <4>1. Chosen(StackOf(d))' = u
        BY <3>2, <3>3
      <4> QED BY <3>6, <4>1 DEF Fresh, Owns, StackOf
    <3> QED BY <3>2, <3>3, <3>5, <3>7
  <2>2. ASSUME NEW d \in Threads, NEW e \in Threads,
               Claiming(StackOf(d)'), Claiming(StackOf(e)'), d # e
        PROVE  /\ Chosen(StackOf(d)') # Chosen(StackOf(e)')
               /\ Writing(StackOf(d)') /\ Writing(StackOf(e)') =>
                    context'[Chosen(StackOf(d)')] # context'[Chosen(StackOf(e)')]
    BY <1>3, <2>1, <2>2 DEF IInv, Rest, Claimants
  <2> QED BY <2>1, <2>2 DEF Claimants
<1>17. Rest'
  BY <1>3, <1>9, <1>12, <1>13, <1>15, <1>16, <1>16a
     DEF IInv, Rest, Tables, Counters, Statuses, counters
<1>18. Quiet(q)'
  <2>1. Quiet(q)
    BY <1>1, <1>2 DEF List, QuietPcs
  <2>2. \A i \in 1 .. Len(q) : q[i] \in Slots /\ q[i] # c
    BY <1>0, <2>1, ElementOfSeq DEF Quiet, Listed
  <2>3. Listed(q, {})'
    BY <1>12, <2>1, <2>2 DEF Quiet, Listed
  <2> QED BY <1>0, <1>3, <1>10, <1>12, <2>1, <2>3
          DEF Quiet, Chain, Links, EndsAt, TailLast, First, Only
<1>19. List(q)'
  BY <1>9, <1>18 DEF List, Taking, ListPcs
<1> QED BY <1>17, <1>19 DEF IInv
-------------------------------------------------------------------------------
(* th_create *)

\* Threads with a call of th_create that has not made its context are finitely many.
LEMMA PendingFinite == IsFiniteSet(PendingSet) /\ Cardinality(PendingSet) \in Nat
<1>1. IsFiniteSet(Threads)
  BY FS_Interval, PreemptAssumption DEF Threads
<1>2. PendingSet \in SUBSET Threads
  BY DEF PendingSet
<1> QED BY <1>1, <1>2, FS_Subset, FS_CardinalityType

\* One more, and one fewer.
LEMMA PendingAdded ==
  ASSUME Running \in Threads, PendingSet' = PendingSet \cup {Running}
  PROVE  Cardinality(PendingSet') \in Nat /\ Cardinality(PendingSet') <= Cardinality(PendingSet) + 1
<1>1. IsFiniteSet(PendingSet) /\ Cardinality(PendingSet) \in Nat
  BY PendingFinite
<1>2. Cardinality(PendingSet \cup {Running}) =
        IF Running \in PendingSet THEN Cardinality(PendingSet) ELSE Cardinality(PendingSet) + 1
  BY <1>1, FS_AddElement
<1> QED BY <1>1, <1>2

LEMMA PendingRemoved ==
  ASSUME Running \in PendingSet, PendingSet' = PendingSet \ {Running}
  PROVE  /\ Cardinality(PendingSet) \in Nat \ {0}
         /\ Cardinality(PendingSet') = Cardinality(PendingSet) - 1
<1>1. IsFiniteSet(PendingSet) /\ Cardinality(PendingSet) \in Nat
  BY PendingFinite
<1>2. Cardinality(PendingSet \ {Running}) =
        IF Running \in PendingSet THEN Cardinality(PendingSet) - 1 ELSE Cardinality(PendingSet)
  BY <1>1, FS_RemoveElement
<1>3. Cardinality(PendingSet) # 0
  BY <1>1, FS_EmptySet
<1> QED BY <1>1, <1>2, <1>3

\* The owners stay while the running thread's own calls change.
LEMMA OwnersStay ==
  ASSUME Stacks, Owners, Claimants, WellFormed(stack'), Base(stack') = Base(stack),
         SameClaims(stack', stack),
         UNCHANGED <<saved, created, unfinished, state, context, current_ult>>,
         Top.pc # "swap", Top'.pc # "swap",
         Resumes(stack') => Resumes(stack)
  PROVE  /\ Owners' /\ Claimants' /\ Stacks' /\ Running' = Running
         /\ \A k \in Threads : StackOf(k)' = IF k = Running THEN stack' ELSE StackOf(k)
<1>1. /\ Stacks' /\ Running' = Running
      /\ \A k \in Threads : StackOf(k)' = IF k = Running THEN stack' ELSE StackOf(k)
  BY RunningStack, OwnStackChanged
<1>2. Unreachable(stack') <=> Unreachable(stack)
  BY DEF Unreachable
<1>3. \A k \in Threads : StackKept(k)
  BY <1>1, <1>2, OwnStackKept DEF WellFormed, Shaped
<1>4. (\A s \in Slots : state'[s] # "FREE" => Owns(s)') /\ \A k \in unfinished' : HasOwner(k)'
  BY <1>3, OwnersRemain
<1>5. Claimants'
  BY <1>3, ClaimantsRemain
<1> QED BY <1>1, <1>2, <1>4, <1>5 DEF Owners

\* The call of th_create on top is the only one of its thread.
LEMMA TopCreates ==
  ASSUME Stacks, Top.pc \in CreatePcs
  PROVE  /\ Len(stack) = 2 /\ Base(stack).pc = "user" /\ StackOf(Running) = stack
         /\ Claiming(stack) <=> Top.pc \in {"makecontext", "write"}
         /\ Writing(stack) <=> Top.pc = "write"
         /\ Chosen(stack) = Top.sel
<1>1. WellFormed(stack) /\ Top = stack[1] /\ Len(stack) \in Nat \ {0}
  BY RunningStack
<1>2. 1 = Len(stack) - 1 /\ Base(stack).pc = "user"
  <2>1. 1 \in 1 .. Len(stack)
    BY <1>1
  <2> QED BY <1>1, <2>1 DEF WellFormed, Shaped
<1>3. Len(stack) = 2 /\ stack[Len(stack) - 1] = Top
  <2>1. PICK l \in Nat : l = Len(stack)
    BY <1>1
  <2>2. 1 = l - 1
    BY <1>2, <2>1
  <2>3. l = 2
    BY <2>2
  <2> QED BY <1>1, <2>1, <2>2, <2>3
<1> QED BY <1>2, <1>3 DEF StackOf, Claiming, Writing, Chosen

\* The program calls th_create: a call that is still to be counted.
LEMMA KeepsUserCreates ==
  ASSUME IInv, UserCreates
  PROVE  IInv'
<1> DEFINE f == Frame("scan")
<1>1. PICK q \in Seq(Slots) : List(q)
  BY DEF IInv
<1>2. f \in Frames /\ f.pc = "scan"
  BY NewFrame DEF Pcs
<1>3. WellFormed(stack) /\ Top = stack[1] /\ Top.pc = "user" /\ Len(stack) = 1
      /\ Running \in Threads
  BY RunningStack DEF IInv, Rest, UserCreates, At, BasePcs
<1>4. /\ stack' = <<f>> \o stack /\ calls < MaxThreads /\ calls' = calls + 1
      /\ UNCHANGED <<ulib, unfinished, created, signals, yields, status>>
  BY DEF UserCreates
<1> HIDE DEF f
<1>5. /\ stack' \in Seq(Frames) /\ stack' # <<>> /\ Len(stack') = 2
      /\ stack'[1] = f /\ stack'[2] = stack[1]
  BY <1>2, <1>3, <1>4, Prefixed DEF WellFormed, Shaped
<1>6. Base(stack') = Base(stack) /\ Base(stack).pc = "user"
  BY <1>3, <1>5 DEF Base
<1>7. WellFormed(stack') /\ Pending(stack') /\ ~Resumes(stack')
  <2>1. \A i \in 1 .. Len(stack') : i = 1 \/ i = 2
    BY <1>5
  <2>2. 1 .. Len(stack') - 1 = {1} /\ 2 .. Len(stack') - 1 = {} /\ Len(stack') - 1 = 1
    BY <1>5
  <2>3. Pending(stack')
    BY <1>2, <1>5, <2>2 DEF Pending, Creates
  <2>4. ~Resumes(stack')
    BY <1>2, <1>3, <1>5, <2>1 DEF Resumes
  <2>5. WellFormed(stack')
    BY <1>2, <1>3, <1>5, <1>6, <2>1, <2>2 DEF WellFormed, Shaped, BasePcs, CreatePcs, ListPcs
  <2> QED BY <2>3, <2>4, <2>5
<1>8. Top'.pc = "scan"
  BY <1>2, <1>5 DEF Top
<1>8a. SameClaims(stack', stack)
  <2>1. Len(stack') - 1 = 1
    BY <1>5
  <2> QED BY <1>2, <1>3, <1>5, <2>1 DEF SameClaims, Claiming, Writing
<1>9. /\ Owners' /\ Claimants' /\ Stacks' /\ Running' = Running
      /\ \A k \in Threads : StackOf(k)' = IF k = Running THEN stack' ELSE StackOf(k)
  BY <1>3, <1>4, <1>6, <1>7, <1>8, <1>8a, OwnersStay DEF IInv, Rest, ulib
<1>10. PendingSet' = PendingSet \cup {Running}
  BY <1>3, <1>7, <1>9 DEF PendingSet
<1>11. Counters'
  <2>1. /\ Cardinality(PendingSet') \in Nat /\ Cardinality(PendingSet) \in Nat
        /\ Cardinality(PendingSet') <= Cardinality(PendingSet) + 1
    BY <1>3, <1>10, PendingAdded, PendingFinite
  <2> QED BY <1>4, <2>1, PreemptAssumption DEF IInv, Rest, Counters
<1>12. Rest'
  BY <1>4, <1>8, <1>9, <1>11 DEF IInv, Rest, Tables, Statuses, ulib
<1>13. List(q)'
  BY <1>1, <1>3, <1>4, <1>8, StillQuiet DEF List, QuietPcs, BasePcs, KeptPcs, ulib
<1> QED BY <1>12, <1>13 DEF IInv

\* The table is full: th_create returns.
LEMMA KeepsScanFull ==
  ASSUME IInv, ScanSlots, FreeSlots = {}
  PROVE  IInv'
<1>1. PICK q \in Seq(Slots) : List(q)
  BY DEF IInv
<1>2. WellFormed(stack) /\ Top = stack[1] /\ Top.pc = "scan" /\ Running \in Threads
      /\ stack # <<>>
  BY RunningStack DEF IInv, Rest, ScanSlots, At, Stacks
<1>3. stack' = Tail(stack) /\ UNCHANGED <<ulib, unfinished, counters, status>>
  BY DEF ScanSlots, Below
<1>4. /\ WellFormed(stack') /\ Base(stack') = Base(stack) /\ ~Pending(stack')
      /\ Top' = stack[2] /\ stack[2].pc \in BasePcs \cup KeptPcs
      /\ Resumes(stack') => Resumes(stack)
      /\ SameClaims(stack', stack)
  <2>1. stack[1].pc \notin BasePcs \cup ListPcs /\ Creates(stack[1])
    BY <1>2 DEF BasePcs, ListPcs, Creates
  <2>2. /\ WellFormed(stack') /\ Base(stack') = Base(stack) /\ ~Pending(stack')
        /\ Top' = stack[2] /\ stack[2].pc \in BasePcs \cup KeptPcs
        /\ SameClaims(stack', stack)
    BY <1>2, <1>3, <2>1, FramePopped DEF Top
  <2>3. Resumes(stack') => Resumes(stack)
    BY <1>2, <1>3, StackFacts DEF Resumes
  <2> QED BY <2>2, <2>3
<1>5. Pending(stack)
  BY <1>2 DEF WellFormed, Shaped, CreatePcs, Pending, Creates
<1>6. /\ Owners' /\ Claimants' /\ Stacks' /\ Running' = Running
      /\ \A k \in Threads : StackOf(k)' = IF k = Running THEN stack' ELSE StackOf(k)
  BY <1>2, <1>3, <1>4, OwnersStay DEF IInv, Rest, ulib, BasePcs, KeptPcs, counters
<1>7. PendingSet' = PendingSet \ {Running} /\ Running \in PendingSet
  BY <1>2, <1>4, <1>5, <1>6 DEF PendingSet, StackOf
<1>8. Counters'
  <2>1. /\ Cardinality(PendingSet) \in Nat
        /\ Cardinality(PendingSet') = Cardinality(PendingSet) - 1
    BY <1>7, PendingRemoved
  <2> QED BY <1>3, <2>1 DEF IInv, Rest, Counters, counters
<1>9. Rest'
  BY <1>3, <1>4, <1>6, <1>8 DEF IInv, Rest, Tables, Statuses, ulib
<1>10. List(q)'
  BY <1>1, <1>2, <1>3, <1>4, StillQuiet DEF List, QuietPcs, BasePcs, KeptPcs, ulib
<1> QED BY <1>9, <1>10 DEF IInv

\* A slot that no suspended th_create has chosen.
LEMMA NotChosen ==
  ASSUME Stacks, NEW s, ~Claimed(s), NEW c \in Threads, c # Running, Claiming(StackOf(c))
  PROVE  Chosen(StackOf(c)) # s
<1> PICK z : z = saved[c]
  OBVIOUS
<1>1. StackOf(c) = z
  BY DEF StackOf
<1>2. z # <<>>
  BY <1>1 DEF Claiming
<1>3. WellFormed(z)
  BY <1>1, <1>2 DEF Stacks, StackOk
<1>4. Len(z) - 1 \in DOMAIN z
  BY <1>1, <1>3, ClaimsOfUser DEF WellFormed, Shaped
<1>5. ~Claims(z[Len(z) - 1], s)
  BY <1>4 DEF Claimed
<1> QED BY <1>1, <1>5 DEF Claims, Claiming, Chosen

LEMMA KeepsScanSlots ==
  ASSUME IInv, ScanSlots, strayed' = {}
  PROVE  IInv'
<1>1. CASE FreeSlots = {}
  BY <1>1, KeepsScanFull
<1>2. CASE FreeSlots # {}
  <2>1. PICK s \in FreeSlots : /\ GotoWith([Top EXCEPT !.pc = "makecontext", !.sel = s])
                               /\ ~Claimed(s)
    BY <1>2 DEF ScanSlots
  <2> DEFINE f == [Top EXCEPT !.pc = "makecontext", !.sel = s]
  <2>2. PICK q \in Seq(Slots) : List(q)
    BY DEF IInv
  <2>3. WellFormed(stack) /\ Top = stack[1] /\ Top.pc = "scan" /\ Top \in Frames
        /\ Running \in Threads
    BY RunningStack DEF IInv, Rest, ScanSlots, At
  <2>4. s \in Slots /\ state[s] = "FREE"
    BY DEF FreeSlots
  <2>5. f \in Frames
    BY <2>3, <2>4, Zenon DEF Frames, Pcs
  <2>6. f.pc = "makecontext" /\ f.sel = s
    BY <2>3 DEF Frames
  <2>7. stack' = <<f>> \o Tail(stack) /\ UNCHANGED <<ulib, unfinished, counters, status>>
    BY <2>1 DEF ScanSlots, GotoWith, Below
  <2> HIDE DEF f
  <2>8. Follows(stack', stack) /\ Top' = f
    BY <2>3, <2>5, <2>6, <2>7, TopReplaced DEF BasePcs, CreatePcs, ListPcs, Creates, Top
  <2>9. /\ Stacks' /\ PendingSet' = PendingSet /\ Running' = Running
        /\ \A k \in Threads : StackOf(k)' = IF k = Running THEN stack' ELSE StackOf(k)
        /\ \A k \in Threads : Base(StackOf(k)') = Base(StackOf(k))
        /\ \A k \in Threads : StackOf(k)' = <<>> <=> StackOf(k) = <<>>
    BY <2>7, <2>8, SameThread DEF IInv, Rest, ulib, counters
  <2>10. /\ Base(stack).pc = "user" /\ StackOf(Running) = stack
         /\ ~Claiming(stack) /\ ~Writing(stack)
    BY <2>3, TopCreates DEF IInv, Rest, CreatePcs
  <2>11. Claiming(stack') /\ ~Writing(stack') /\ Chosen(stack') = s
    <3>1. (Stacks /\ Top.pc \in CreatePcs)'
      BY <2>6, <2>8, <2>9 DEF CreatePcs
    <3>2. (/\ Claiming(stack) <=> Top.pc \in {"makecontext", "write"}
           /\ Writing(stack) <=> Top.pc = "write"
           /\ Chosen(stack) = Top.sel)'
      BY <3>1, TopCreates, PTL
    <3> QED BY <2>6, <2>8, <3>2
  <2>12. UNCHANGED <<state, context, head, tail, next, current_ult, saved, unfinished, created,
                    calls, signals, yields, status>>
    BY <2>7 DEF ulib, counters
  <2>13. ASSUME NEW t \in Slots, Owns(t) PROVE Owns(t)'
    <3>1. PICK k \in Threads : k = context[t]
      BY <2>13 DEF Owns
    <3>2. StackOf(k)' # <<>> /\ ~Unreachable(StackOf(k)')
      BY <2>9, <2>13, <3>1 DEF Owns, Unreachable
    <3>3. StackOf(context[t])' = StackOf(k)'
      BY <2>12, <3>1 DEF StackOf
    <3> QED BY <2>12, <2>13, <3>1, <3>2, <3>3 DEF Owns
  <2>14. ASSUME NEW c \in Threads, c # Running PROVE StackOf(c)' = StackOf(c)
    BY <2>9, <2>14
  <2>15. Owners'
    <3>1. ASSUME NEW k \in unfinished' PROVE HasOwner(k)'
      <4>0. HasOwner(k)
        BY <2>12, <3>1 DEF IInv, Rest, Owners
      <4>1. CASE \E t \in Slots : state[t] # "FREE" /\ context[t] = k
        BY <2>12, <4>1 DEF HasOwner
      <4>2. CASE \E c \in Threads : Writing(StackOf(c)) /\ context[Chosen(StackOf(c))] = k
        <5>1. PICK c \in Threads : Writing(StackOf(c)) /\ context[Chosen(StackOf(c))] = k
          BY <4>2
        <5>2. StackOf(c)' = StackOf(c)
          BY <2>10, <2>14, <5>1
        <5>3. (Writing(StackOf(c)) /\ context[Chosen(StackOf(c))] = k)'
          BY <2>12, <5>1, <5>2
        <5> QED BY <5>3 DEF HasOwner
      <4> QED BY <4>0, <4>1, <4>2 DEF HasOwner
    <3>2. \A t \in Slots : state'[t] # "FREE" => Owns(t)'
      BY <2>12, <2>13 DEF IInv, Rest, Owners
    <3>3. Unreachable(stack') <=> Unreachable(stack)
      BY <2>8 DEF Follows, Unreachable
    <3> QED BY <2>3, <2>6, <2>8, <2>9, <2>12, <3>1, <3>2, <3>3 DEF IInv, Rest, Owners, Follows
  <2>16. Claimants'
    <3>1. \E t \in Slots : state[t] # "FREE" /\ context[t] = Running
      <4>1. current_ult \in Slots /\ state[current_ult] # "FREE" /\ context[current_ult] = Running
        BY <2>3, <2>10, UserSlot DEF IInv
      <4> QED BY <4>1
    <3>2. ASSUME NEW c \in Threads, Claiming(StackOf(c)')
          PROVE  /\ Chosen(StackOf(c)') \in Slots /\ state'[Chosen(StackOf(c)')] = "FREE"
                 /\ \E t \in Slots : state'[t] # "FREE" /\ context'[t] = c
                 /\ Writing(StackOf(c)') => Fresh(Chosen(StackOf(c)))'
      <4>1. CASE c = Running
        <5>1. StackOf(c)' = stack'
          BY <2>9, <4>1
        <5> QED BY <2>4, <2>11, <2>12, <3>1, <4>1, <5>1
      <4>2. CASE c # Running
        <5>1. StackOf(c)' = StackOf(c)
          BY <2>14, <4>2
        <5>2. PICK u \in Slots : u = Chosen(StackOf(c)) /\ state[u] = "FREE"
          BY <3>2, <5>1 DEF IInv, Rest, Claimants
        <5>3. \E t \in Slots : state[t] # "FREE" /\ context[t] = c
          BY <3>2, <5>1 DEF IInv, Rest, Claimants
        <5>4. ASSUME Writing(StackOf(c)) PROVE Fresh(u)'
          <6>1. Fresh(u)
            BY <3>2, <5>1, <5>2, <5>4 DEF IInv, Rest, Claimants
          <6> QED BY <2>12, <2>13, <6>1 DEF Fresh
        <5>5. Chosen(StackOf(c))' = u
          BY <5>1, <5>2
        <5>6. Writing(StackOf(c)') => Fresh(Chosen(StackOf(c)))'
          BY <5>1, <5>4, <5>5 DEF Fresh, Owns, StackOf
        <5> QED BY <2>12, <5>1, <5>2, <5>3, <5>6
      <4> QED BY <4>1, <4>2
    <3>3. ASSUME NEW c \in Threads, c # Running, Claiming(StackOf(c)')
          PROVE  Claiming(StackOf(c)) /\ StackOf(c)' = StackOf(c) /\ Chosen(StackOf(c)) # s
      BY <2>1, <2>14, <3>3, NotChosen DEF IInv, Rest
    <3>4. ASSUME NEW c \in Threads, NEW d \in Threads,
                 Claiming(StackOf(c)'), Claiming(StackOf(d)'), c # d
          PROVE  /\ Chosen(StackOf(c)') # Chosen(StackOf(d)')
                 /\ Writing(StackOf(c)') /\ Writing(StackOf(d)') =>
                      context'[Chosen(StackOf(c)')] # context'[Chosen(StackOf(d)')]
      <4>1. CASE c = Running
        BY <2>9, <2>11, <3>3, <3>4, <4>1
      <4>2. CASE d = Running
        BY <2>9, <2>11, <3>3, <3>4, <4>2
      <4>3. CASE c # Running /\ d # Running
        BY <2>12, <3>3, <3>4, <4>3 DEF IInv, Rest, Claimants
      <4> QED BY <4>1, <4>2, <4>3
    <3> QED BY <3>2, <3>4 DEF Claimants
  <2>17. Rest'
    BY <2>9, <2>12, <2>15, <2>16 DEF IInv, Rest, Tables, Counters, Statuses
  <2>18. List(q)'
    BY <2>2, <2>3, <2>6, <2>8, <2>12, StillQuiet DEF List, QuietPcs, BasePcs, KeptPcs
  <2> QED BY <2>17, <2>18 DEF IInv
<1> QED BY <1>1, <1>2

\* th_create_context: the new thread has a number of its own, no slot that is not FREE
\* names it, and its stack is ready to start.
LEMMA KeepsMakeContext ==
  ASSUME IInv, MakeContext
  PROVE  IInv'
<1> DEFINE u == UserFrame(created + 1)
           f == [Top EXCEPT !.pc = "write"]
<1>0. PICK sel, k : sel = Top.sel /\ k = created + 1
  OBVIOUS
<1>1. PICK q \in Seq(Slots) : List(q)
  BY DEF IInv
<1>2. WellFormed(stack) /\ Top = stack[1] /\ Top.pc = "makecontext" /\ Top \in Frames
      /\ Running \in Threads /\ Running <= created /\ stack # <<>>
  BY RunningStack DEF IInv, Rest, MakeContext, At, Stacks
<1>3. /\ created' = k /\ context' = [context EXCEPT ![sel] = k]
      /\ saved' = [saved EXCEPT ![k] = <<u>>]
      /\ unfinished' = unfinished \cup {k}
      /\ stack' = <<f>> \o Tail(stack)
      /\ UNCHANGED <<state, head, tail, next, current_ult, calls, signals, yields, status>>
      /\ status = "up"
  BY <1>0 DEF MakeContext, Goto, Below, At
<1>4. Pending(stack) /\ Base(stack).pc = "user"
  BY <1>2 DEF WellFormed, Shaped, CreatePcs, Pending, Creates
<1>5. Running \in PendingSet
  BY <1>2, <1>4 DEF PendingSet, StackOf
<1>6. k \in Threads /\ created \in Nat
  <2>1. Cardinality(PendingSet) \in Nat \ {0}
    <3>1. IsFiniteSet(PendingSet)
      BY PendingFinite
    <3> QED BY <1>5, <3>1, PendingFinite, FS_EmptySet
  <2> QED BY <1>0, <2>1, PreemptAssumption DEF IInv, Rest, Counters, Threads
<1>6a. /\ StackOf(Running) = stack /\ Claiming(stack) /\ Chosen(stack) = sel
       /\ ~Writing(stack)
  BY <1>0, <1>2, TopCreates DEF IInv, Rest, CreatePcs
<1>7. sel \in Slots /\ state[sel] = "FREE"
  BY <1>2, <1>6a DEF IInv, Rest, Claimants
<1>8. /\ context \in [Slots -> Threads \cup {NULL}] /\ saved \in [Threads -> Seq(Frames)]
      /\ unfinished \subseteq Threads /\ current_ult \in Slots
  BY DEF IInv, Rest, Tables
\* The stack of the new thread, and the running one.
<1>9. u \in Frames /\ u.pc = "user" /\ u.thread = k
  <2>1. u \in Frames
    BY <1>0, <1>6, Zenon DEF UserFrame, Blank, Frames, NULL, Pcs
  <2> QED BY <1>0, <2>1 DEF UserFrame, Blank
<1>10. f \in Frames /\ f.pc = "write" /\ f.sel = sel
  <2>1. "write" \in Pcs
    BY DEF Pcs
  <2> QED BY <1>0, <1>2, <2>1, Relabelled
<1> HIDE DEF u, f
<1>11. /\ <<u>> \in Seq(Frames) /\ <<u>> # <<>> /\ Len(<<u>>) = 1 /\ <<u>>[1] = u
       /\ Base(<<u>>) = u /\ ThreadOf(<<u>>) = k /\ ~Pending(<<u>>)
  BY <1>9 DEF Base, ThreadOf, Pending
<1>12. WellFormed(<<u>>)
  <2> DEFINE n == <<u>>
  <2>1. \A i \in 1 .. Len(n) : i = 1 /\ n[i].pc = "user"
    BY <1>9, <1>11
  <2>2. 1 .. Len(n) - 1 = {} /\ 2 .. Len(n) - 1 = {}
    BY <1>11
  <2> HIDE DEF n
  <2>3. n \in Seq(Frames) /\ n # <<>> /\ n[1] = u /\ Base(n) = u
    BY <1>11 DEF n
  <2>4. WellFormed(n)
    BY <1>9, <2>1, <2>2, <2>3 DEF WellFormed, Shaped, BasePcs, CreatePcs, ListPcs
  <2> QED BY <2>4 DEF n
<1>13. /\ WellFormed(stack') /\ Base(stack') = Base(stack) /\ stack'[1] = f /\ Top' = f
       /\ ~Pending(stack') /\ (Resumes(stack') => Resumes(stack))
  <2>1. /\ Len(stack) >= 2 /\ Len(stack) \in Nat /\ stack' \in Seq(Frames) /\ stack' # <<>>
        /\ Len(stack') = Len(stack) /\ stack'[1] = f
        /\ \A i \in 2 .. Len(stack) : stack'[i] = stack[i]
    <3>1. Top.pc \notin BasePcs
      BY <1>2 DEF BasePcs
    <3> DEFINE l == Len(stack)
    <3>2. Len(stack) \in Nat /\ Len(stack) >= 2
      <4>1. l \in Nat \ {0} /\ (Top.pc \in BasePcs <=> l = 1)
        BY <1>2, StackFacts
      <4> HIDE DEF l
      <4>2. l \in Nat /\ l >= 2
        BY <3>1, <4>1
      <4> QED BY <4>2 DEF l
    <3> HIDE DEF l
    <3>3. Tail(stack) \in Seq(Frames) /\ Len(Tail(stack)) = Len(stack) - 1
          /\ \A i \in 1 .. Len(stack) - 1 : Tail(stack)[i] = stack[i + 1]
      BY <1>2, StackFacts
    <3> QED BY <1>3, <1>10, <3>2, <3>3, Prefixed
  <2>2. Len(stack) = 2
    BY <1>2, <2>1 DEF WellFormed, Shaped, CreatePcs
  <2>3. /\ \A i \in 1 .. 2 : i = 1 \/ i = 2
        /\ 1 .. 2 - 1 = {1} /\ 2 .. 2 - 1 = {}
    OBVIOUS
  <2>4. Base(stack') = Base(stack) /\ Base(stack) = stack[2]
    BY <2>1, <2>2 DEF Base
  <2>5. WellFormed(stack')
    BY <1>2, <1>4, <1>10, <2>1, <2>2, <2>3, <2>4 DEF WellFormed, Shaped, BasePcs, CreatePcs, ListPcs
  <2>6. ~Pending(stack') /\ (Resumes(stack') => Resumes(stack))
    BY <1>10, <2>1, <2>2, <2>3 DEF Pending, Creates, Resumes
  <2> QED BY <2>1, <2>4, <2>5, <2>6 DEF Top
<1>14. Running' = Running /\ k # Running
  BY <1>0, <1>2, <1>6, <1>13, SlotFacts DEF Running, ThreadOf, Base
<1>15. /\ saved' \in [Threads -> Seq(Frames)] /\ saved'[k] = <<u>>
       /\ \A j \in Threads : j # k => saved'[j] = saved[j]
  BY <1>3, <1>6, <1>8, <1>11
<1>16. \A j \in Threads :
         StackOf(j)' = IF j = Running THEN stack' ELSE IF j = k THEN <<u>> ELSE StackOf(j)
  BY <1>14, <1>15 DEF StackOf
<1>17. \A j \in Threads : StackOf(j) # <<>> => j <= created /\ j # k
  BY <1>0, <1>6, SlotFacts DEF IInv, Rest, Stacks, StackOk
<1>18. PendingSet' = PendingSet \ {Running}
  <2>1. ~Pending(StackOf(k))
    <3>1. StackOf(k) = <<>>
      BY <1>6, <1>17
    <3> QED BY <3>1 DEF Pending
  <2> QED BY <1>11, <1>13, <1>16, <2>1 DEF PendingSet
<1>19. Counters'
  <2>1. /\ Cardinality(PendingSet) \in Nat \ {0}
        /\ Cardinality(PendingSet') = Cardinality(PendingSet) - 1
    BY <1>5, <1>18, PendingRemoved
  <2> QED BY <1>0, <1>3, <1>6, <2>1 DEF IInv, Rest, Counters
<1>20. Stacks'
  <2>1. ASSUME NEW j \in Threads, StackOf(j)' # <<>> PROVE StackOk(j)'
    <3>1. CASE j = Running
      <4>1. StackOf(j)' = stack' /\ ThreadOf(stack') = j
        BY <1>14, <1>16, <3>1 DEF Running
      <4>2. j <= created'
        BY <1>0, <1>2, <1>3, <1>6, <3>1, SlotFacts
      <4> QED BY <1>4, <1>13, <4>1, <4>2 DEF StackOk
    <3>2. CASE j = k
      <4>1. StackOf(j)' = <<u>>
        BY <1>14, <1>16, <3>2
      <4>2. k <= created' /\ u.pc \notin {"free", "unreachable"}
        BY <1>3, <1>6, <1>9, SlotFacts
      <4> QED BY <1>9, <1>11, <1>12, <3>2, <4>1, <4>2 DEF StackOk
    <3>3. CASE j # Running /\ j # k
      <4>1. StackOf(j)' = StackOf(j) /\ StackOk(j)
        BY <1>16, <2>1, <3>3 DEF IInv, Rest, Stacks
      <4>2. j <= created' /\ (j \in unfinished' => j \in unfinished)
        BY <1>0, <1>3, <1>6, <3>3, <4>1, SlotFacts DEF StackOk
      <4> QED BY <4>1, <4>2 DEF StackOk
    <3> QED BY <3>1, <3>2, <3>3
  <2>2. ASSUME NEW j \in Threads, j # Running', saved'[j] # <<>>
        PROVE  saved'[j][1].pc \in {"user", "resumed"}
    BY <1>9, <1>11, <1>14, <1>15, <2>2 DEF IInv, Rest, Stacks
  <2> QED BY <1>2, <1>13, <1>14, <2>1, <2>2 DEF Stacks, WellFormed, Shaped
<1>21. /\ context' \in [Slots -> Threads \cup {NULL}] /\ context'[sel] = k
       /\ \A s \in Slots : s # sel => context'[s] = context[s]
       /\ \A s \in Slots : state[s] # "FREE" => s # sel
  BY <1>3, <1>6, <1>7, <1>8
<1>22. ASSUME NEW s \in Slots, s # sel, Owns(s)
       PROVE  Owns(s)' /\ context'[s] = context[s] /\ context[s] # k /\ context[s] \in Threads
  <2>1. PICK j \in Threads : j = context[s]
    BY <1>22 DEF Owns
  <2>2. j # k /\ StackOf(j) # <<>> /\ ~Unreachable(StackOf(j))
    BY <1>17, <1>22, <2>1 DEF Owns
  <2>3. StackOf(j)' # <<>> /\ ~Unreachable(StackOf(j)')
    BY <1>13, <1>16, <2>2 DEF StackOf, Unreachable, WellFormed, Shaped
  <2>4. StackOf(context[s])' = StackOf(j)' /\ context'[s] = j
    BY <1>21, <1>22, <2>1 DEF StackOf
  <2> QED BY <2>1, <2>2, <2>3, <2>4 DEF Owns
<1>22a. ASSUME NEW s \in Slots, state[s] # "FREE"
        PROVE  Owns(s)' /\ context'[s] = context[s] /\ context[s] # k /\ context[s] \in Threads
  BY <1>21, <1>22, <1>22a DEF IInv, Rest, Owners
<1>22b. Claiming(stack') /\ Writing(stack') /\ Chosen(stack') = sel
  <2>1. (Stacks /\ Top.pc \in CreatePcs)'
    BY <1>10, <1>13, <1>20 DEF CreatePcs
  <2>2. (/\ Claiming(stack) <=> Top.pc \in {"makecontext", "write"}
         /\ Writing(stack) <=> Top.pc = "write"
         /\ Chosen(stack) = Top.sel)'
    BY <2>1, TopCreates, PTL
  <2> QED BY <1>10, <1>13, <2>2
<1>22c. ASSUME NEW d \in Threads, d # Running, Claiming(StackOf(d)) \/ Claiming(StackOf(d)')
        PROVE  /\ Claiming(StackOf(d)) /\ StackOf(d)' = StackOf(d)
               /\ Chosen(StackOf(d)) \in Slots \ {sel}
  <2>1. ~Claiming(<<u>>)
    BY <1>11 DEF Claiming
  <2>2. ~Claiming(StackOf(k))
    <3>1. StackOf(k) = <<>>
      BY <1>6, <1>17
    <3> QED BY <3>1 DEF Claiming
  <2>3. d # k /\ StackOf(d)' = StackOf(d)
    BY <1>16, <1>22c, <2>1, <2>2
  <2>4. Claiming(StackOf(d))
    BY <1>22c, <2>3
  <2> QED BY <1>2, <1>6a, <1>22c, <2>3, <2>4 DEF IInv, Rest, Claimants
<1>23. Owners'
  <2>1. \A s \in Slots : state'[s] # "FREE" => Owns(s)'
    BY <1>3, <1>22a
  <2>2. ASSUME NEW j \in unfinished' PROVE HasOwner(j)'
    <3>1. CASE j = k
      <4>1. StackOf(Running)' = stack'
        BY DEF StackOf
      <4>2. (Writing(StackOf(Running)) /\ context[Chosen(StackOf(Running))] = k)'
        BY <1>14, <1>21, <1>22b, <4>1 DEF StackOf
      <4>3. Running' \in Threads
        BY <1>2, <1>14
      <4> QED BY <3>1, <4>2, <4>3 DEF HasOwner
    <3>2. CASE j # k
      <4>0. HasOwner(j)
        BY <1>3, <3>2 DEF IInv, Rest, Owners
      <4>1. CASE \E s \in Slots : state[s] # "FREE" /\ context[s] = j
        BY <1>3, <1>22a, <4>1 DEF HasOwner
      <4>2. CASE \E d \in Threads : Writing(StackOf(d)) /\ context[Chosen(StackOf(d))] = j
        <5>1. PICK d \in Threads : Writing(StackOf(d)) /\ context[Chosen(StackOf(d))] = j
          BY <4>2
        <5>2. d # Running /\ Claiming(StackOf(d))
          BY <1>6a, <5>1, WritingClaims
        <5>3. StackOf(d)' = StackOf(d) /\ Chosen(StackOf(d)) \in Slots \ {sel}
          BY <1>22c, <5>2
        <5>4. (Writing(StackOf(d)) /\ context[Chosen(StackOf(d))] = j)'
          BY <1>21, <5>1, <5>3
        <5> QED BY <5>4 DEF HasOwner
      <4> QED BY <4>0, <4>1, <4>2 DEF HasOwner
    <3> QED BY <3>1, <3>2
  <2>3. state[Main] # "FREE" /\ context'[Main] = 0
    BY <1>22a, SlotFacts DEF IInv, Rest, Owners
  <2>4. \A s, t \in Slots :
          state[s] # "FREE" /\ state[t] # "FREE" /\ context'[s] = context'[t] => s = t
    BY <1>22a DEF IInv, Rest, Owners
  <2>5. state[current_ult] # "FREE"
    BY <1>4 DEF IInv, Rest, Owners, Unreachable
  <2>6. context'[current_ult] = Running
    BY <1>2, <1>8, <1>22a, <2>5 DEF IInv, Rest, Owners
  <2>7. ~Unreachable(stack')
    BY <1>4, <1>13 DEF Unreachable
  <2> QED BY <1>3, <1>14, <2>1, <2>2, <2>3, <2>4, <2>5, <2>6, <2>7 DEF Owners
<1>24. Claimants'
  <2>1. Fresh(sel)'
    <3>1. StackOf(k)' = <<u>>
      BY <1>6, <1>14, <1>16
    <3>2. StackOf(k)' # <<>> /\ ~Unreachable(StackOf(k)')
      BY <1>9, <1>11, <3>1 DEF Unreachable
    <3>3. StackOf(context[sel])' = StackOf(k)'
      BY <1>21 DEF StackOf
    <3>4. Owns(sel)'
      BY <1>6, <1>21, <3>2, <3>3 DEF Owns
    <3> QED BY <1>3, <1>7, <1>21, <1>22a, <3>4 DEF Fresh
  <2>2. \E s \in Slots : state'[s] # "FREE" /\ context'[s] = Running
    <3>1. PICK s \in Slots : state[s] # "FREE" /\ context[s] = Running
      BY <1>2, <1>6a DEF IInv, Rest, Claimants
    <3> QED BY <1>3, <1>22a, <3>1
  <2>3. ASSUME NEW d \in Threads, d # Running, Claiming(StackOf(d)')
        PROVE  /\ Chosen(StackOf(d)') \in Slots /\ state'[Chosen(StackOf(d)')] = "FREE"
               /\ \E s \in Slots : state'[s] # "FREE" /\ context'[s] = d
               /\ Writing(StackOf(d)') => Fresh(Chosen(StackOf(d)))'
    <3>1. Claiming(StackOf(d)) /\ StackOf(d)' = StackOf(d)
      BY <1>22c, <2>3
    <3>2. PICK v \in Slots \ {sel} : v = Chosen(StackOf(d))
      BY <1>22c, <2>3
    <3>3. state[v] = "FREE" /\ \E s \in Slots : state[s] # "FREE" /\ context[s] = d
      BY <3>1, <3>2 DEF IInv, Rest, Claimants
    <3>4. ASSUME Writing(StackOf(d)) PROVE Fresh(v)'
      <4>1. Fresh(v)
        BY <3>1, <3>2, <3>4 DEF IInv, Rest, Claimants
      <4>2. Owns(v)' /\ context'[v] = context[v]
        BY <1>22, <4>1 DEF Fresh
      <4> QED BY <1>3, <1>22a, <4>1, <4>2 DEF Fresh
    <3>5. Chosen(StackOf(d))' = v
      BY <3>1, <3>2
    <3>6. Writing(StackOf(d)') => Fresh(Chosen(StackOf(d)))'
      BY <3>1, <3>4, <3>5 DEF Fresh, Owns, StackOf
    <3> QED BY <1>3, <1>22a, <3>1, <3>2, <3>3, <3>6
  <2>4. StackOf(Running)' = stack' /\ Running' = Running
    BY <1>2, <1>14, <1>16
  <2>5. ASSUME NEW d \in Threads, Claiming(StackOf(d)')
        PROVE  /\ Chosen(StackOf(d)') \in Slots /\ state'[Chosen(StackOf(d)')] = "FREE"
               /\ \E s \in Slots : state'[s] # "FREE" /\ context'[s] = d
               /\ Writing(StackOf(d)') => Fresh(Chosen(StackOf(d)))'
    <3>1. CASE d = Running
      <4>1. StackOf(d)' = stack'
        BY <1>16, <3>1
      <4>2. Chosen(StackOf(d))' = sel
        BY <1>22b, <4>1
      <4>3. Fresh(Chosen(StackOf(d)))'
        BY <2>1, <4>2 DEF Fresh, Owns, StackOf
      <4> QED BY <1>3, <1>7, <1>22b, <2>2, <3>1, <4>1, <4>3
    <3>2. CASE d # Running
      BY <2>3, <2>5, <3>2
    <3> QED BY <3>1, <3>2
  <2>6. ASSUME NEW d \in Threads, d # Running, Claiming(StackOf(d)'), Writing(StackOf(d)')
        PROVE  context'[Chosen(StackOf(d)')] # k
    <3>1. /\ Claiming(StackOf(d)) /\ StackOf(d)' = StackOf(d)
          /\ Chosen(StackOf(d)) \in Slots \ {sel}
      BY <1>22c, <2>6
    <3>2. PICK v \in Slots \ {sel} : v = Chosen(StackOf(d))
      BY <3>1
    <3>3. Owns(v)
      BY <2>6, <3>1, <3>2 DEF IInv, Rest, Claimants, Fresh
    <3> QED BY <1>22, <3>1, <3>2, <3>3
  <2>7. ASSUME NEW d \in Threads, NEW e \in Threads,
               Claiming(StackOf(d)'), Claiming(StackOf(e)'), d # e
        PROVE  /\ Chosen(StackOf(d)') # Chosen(StackOf(e)')
               /\ Writing(StackOf(d)') /\ Writing(StackOf(e)') =>
                    context'[Chosen(StackOf(d)')] # context'[Chosen(StackOf(e)')]
    <3>1. CASE d = Running
      <4>1. StackOf(d)' = stack'
        BY <1>16, <3>1
      <4> QED BY <1>21, <1>22b, <1>22c, <2>6, <2>7, <3>1, <4>1
    <3>2. CASE e = Running
      <4>1. StackOf(e)' = stack'
        BY <1>16, <3>2
      <4> QED BY <1>21, <1>22b, <1>22c, <2>6, <2>7, <3>2, <4>1
    <3>3. CASE d # Running /\ e # Running
      <4>1. /\ Claiming(StackOf(d)) /\ StackOf(d)' = StackOf(d)
            /\ Claiming(StackOf(e)) /\ StackOf(e)' = StackOf(e)
            /\ Chosen(StackOf(d)) \in Slots \ {sel} /\ Chosen(StackOf(e)) \in Slots \ {sel}
        BY <1>22c, <2>7, <3>3
      <4>2. /\ Chosen(StackOf(d)) # Chosen(StackOf(e))
            /\ Writing(StackOf(d)) /\ Writing(StackOf(e)) =>
                 context[Chosen(StackOf(d))] # context[Chosen(StackOf(e))]
        BY <2>7, <4>1 DEF IInv, Rest, Claimants
      <4> QED BY <1>21, <4>1, <4>2
    <3> QED BY <3>1, <3>2, <3>3
  <2> QED BY <2>5, <2>7 DEF Claimants
<1>25. Rest'
  BY <1>3, <1>6, <1>8, <1>15, <1>19, <1>20, <1>21, <1>23, <1>24
     DEF IInv, Rest, Tables, Statuses
<1>26. List(q)'
  <2>1. Top'.pc = "write"
    BY <1>10, <1>13
  <2> QED BY <1>1, <1>2, <1>3, <2>1, StillQuiet DEF List, QuietPcs, BasePcs, KeptPcs
<1> QED BY <1>25, <1>26 DEF IInv

\* lib_write_TCB: the slot becomes READY and is queued next.
LEMMA KeepsWriteTCB ==
  ASSUME IInv, WriteTCB
  PROVE  IInv'
<1> DEFINE f == [Frame("setready") EXCEPT !.ult = Top.sel]
           g == [Top EXCEPT !.pc = "yieldnow"]
           s == <<g>> \o Tail(stack)
<1>0. PICK u : u = Top.sel
  OBVIOUS
<1>1. PICK q \in Seq(Slots) : List(q)
  BY DEF IInv
<1>2. WellFormed(stack) /\ Top = stack[1] /\ Top.pc = "write" /\ Top \in Frames
  BY RunningStack DEF IInv, Rest, WriteTCB, At
<1>2a. /\ StackOf(Running) = stack /\ Claiming(stack) /\ Writing(stack) /\ Chosen(stack) = u
       /\ Running \in Threads
  BY <1>0, <1>2, TopCreates, RunningStack DEF IInv, Rest, CreatePcs
<1>3. Fresh(u) /\ u \in Slots /\ state[u] = "FREE"
  BY <1>2a DEF IInv, Rest, Claimants
<1>4. f \in Frames /\ f.pc = "setready" /\ f.ult = u
  <2>1. Frame("setready") \in Frames /\ Frame("setready").pc = "setready"
    BY NewFrame DEF Pcs
  <2>2. f \in Frames
    BY <1>0, <1>3, <2>1, Zenon DEF Frames
  <2> QED BY <1>0, <2>1, <2>2 DEF Frames
<1>5. g \in Frames /\ g.pc = "yieldnow"
  BY <1>2, Relabelled DEF Pcs
<1>6. /\ stack' = <<f, g>> \o Tail(stack)
      /\ state' = [state EXCEPT ![u] = "READY"] /\ next' = [next EXCEPT ![u] = NULL]
      /\ UNCHANGED <<context, head, tail, current_ult, saved, unfinished, counters, status>>
  BY <1>0 DEF WriteTCB, CallThen, Below
<1>7. stack' = <<f>> \o s
  BY <1>2, <1>4, <1>5, <1>6, StackFacts, TwoPrefixed
<1> HIDE DEF f, g
<1>8. Follows(s, stack) /\ s[1] = g /\ Len(s) = Len(stack)
  BY <1>2, <1>5, TopReplaced DEF BasePcs, CreatePcs, ListPcs, Creates
<1> HIDE DEF s
<1>8a. ~Claiming(s)
  <2>1. Len(s) = 2
    BY <1>2, <1>8, TopCreates DEF IInv, Rest, CreatePcs
  <2>2. s[Len(s) - 1] = g
    BY <1>8, <2>1
  <2> QED BY <1>5, <2>2 DEF Claiming
<1>9. Continues(stack', s) /\ stack'[1] = f /\ stack'[2] = g
  BY <1>4, <1>5, <1>7, <1>8, FramePushed DEF Continues, Follows, BasePcs, ListPcs, CreatePcs
<1>10. Follows(stack', stack) /\ Top' = f /\ ~Claiming(stack')
  BY <1>8, <1>8a, <1>9 DEF Top, Continues, Follows, SameClaims
<1>11. /\ state \in [Slots -> {"FREE", "RUNNING", "READY"}] /\ current_ult \in Slots
       /\ next \in [Slots -> Slots \cup {NULL}]
  BY DEF IInv, Rest, Tables
<1>12. /\ state' \in [Slots -> {"FREE", "RUNNING", "READY"}]
       /\ state'[u] = "READY" /\ \A t \in Slots : t # u => state'[t] = state[t]
       /\ next' \in [Slots -> Slots \cup {NULL}]
       /\ next'[u] = NULL /\ \A t \in Slots : t # u => next'[t] = next[t]
  BY <1>3, <1>6, <1>11
<1>13. /\ Stacks' /\ Running' = Running /\ PendingSet' = PendingSet
       /\ \A k \in Threads : StackOf(k)' = IF k = Running THEN stack' ELSE StackOf(k)
       /\ \A k \in Threads : Base(StackOf(k)') = Base(StackOf(k))
       /\ \A k \in Threads : StackOf(k)' = <<>> <=> StackOf(k) = <<>>
  BY <1>6, <1>10, SameThread DEF IInv, Rest, counters
<1>14. Base(stack).pc = "user" /\ state[current_ult] # "FREE" /\ u # current_ult /\ u # Main
  <2>1. Base(stack).pc = "user"
    BY <1>2a, RunningStack, ClaimsOfUser DEF IInv, Rest
  <2> QED BY <1>3, <2>1 DEF IInv, Rest, Owners, Unreachable
<1>15. ASSUME NEW t \in Slots, Owns(t) PROVE Owns(t)'
  <2>1. PICK j \in Threads : j = context[t]
    BY <1>15 DEF Owns
  <2>2. StackOf(j)' # <<>> /\ ~Unreachable(StackOf(j)')
    BY <1>13, <1>15, <2>1 DEF Owns, Unreachable
  <2>3. StackOf(context[t])' = StackOf(j)' /\ context'[t] = j
    BY <1>6, <2>1 DEF StackOf
  <2> QED BY <2>1, <2>2, <2>3 DEF Owns
<1>16. ASSUME NEW d \in Threads, Claiming(StackOf(d)')
       PROVE  /\ d # Running /\ Claiming(StackOf(d)) /\ StackOf(d)' = StackOf(d)
              /\ Chosen(StackOf(d)) \in Slots \ {u}
              /\ Writing(StackOf(d)) => context[Chosen(StackOf(d))] # context[u]
  <2>1. d # Running /\ StackOf(d)' = StackOf(d)
    BY <1>10, <1>13, <1>16
  <2>2. Claiming(StackOf(d))
    BY <1>16, <2>1
  <2> QED BY <1>2a, <2>1, <2>2 DEF IInv, Rest, Claimants
<1>17. Owners'
  <2>1. ASSUME NEW t \in Slots, state'[t] # "FREE" PROVE Owns(t)'
    BY <1>3, <1>12, <1>15, <2>1 DEF IInv, Rest, Owners, Fresh
  <2>2. ASSUME NEW j \in unfinished' PROVE HasOwner(j)'
    <3>0. HasOwner(j)
      BY <1>6, <2>2 DEF IInv, Rest, Owners
    <3>1. CASE \E t \in Slots : state[t] # "FREE" /\ context[t] = j
      <4>1. \E t \in Slots : state'[t] # "FREE" /\ context'[t] = j
        BY <1>3, <1>6, <1>12, <3>1
      <4> QED BY <4>1 DEF HasOwner
    <3>2. CASE \E d \in Threads : Writing(StackOf(d)) /\ context[Chosen(StackOf(d))] = j
      <4>1. PICK d \in Threads : Writing(StackOf(d)) /\ context[Chosen(StackOf(d))] = j
        BY <3>2
      <4>2. CASE d = Running
        <5>1. state'[u] # "FREE" /\ context'[u] = j
          BY <1>2a, <1>6, <1>12, <4>1, <4>2
        <5> QED BY <1>3, <5>1 DEF HasOwner
      <4>3. CASE d # Running
        <5>1. StackOf(d)' = StackOf(d)
          BY <1>13, <4>3
        <5>2. (Writing(StackOf(d)) /\ context[Chosen(StackOf(d))] = j)'
          BY <1>6, <4>1, <5>1
        <5> QED BY <5>2 DEF HasOwner
      <4> QED BY <4>2, <4>3
    <3> QED BY <3>0, <3>1, <3>2 DEF HasOwner
  <2>3. state'[Main] # "FREE" /\ state'[current_ult] # "FREE"
    BY <1>11, <1>12, <1>14, SlotFacts DEF IInv, Rest, Owners
  <2>4. \A r, t \in Slots :
          state'[r] # "FREE" /\ state'[t] # "FREE" /\ context[r] = context[t] => r = t
    BY <1>3, <1>12 DEF IInv, Rest, Owners, Fresh
  <2>5. ~Unreachable(stack')
    BY <1>10, <1>14 DEF Follows, Unreachable
  <2> QED BY <1>2, <1>6, <1>13, <2>1, <2>2, <2>3, <2>4, <2>5 DEF IInv, Rest, Owners
<1>17a. Claimants'
  <2>1. ASSUME NEW d \in Threads, Claiming(StackOf(d)')
        PROVE  /\ Chosen(StackOf(d)') \in Slots /\ state'[Chosen(StackOf(d)')] = "FREE"
               /\ \E t \in Slots : state'[t] # "FREE" /\ context'[t] = d
               /\ Writing(StackOf(d)') => Fresh(Chosen(StackOf(d)))'
    <3>1. Claiming(StackOf(d)) /\ StackOf(d)' = StackOf(d)
      BY <1>16, <2>1
    <3>2. PICK v \in Slots \ {u} : v = Chosen(StackOf(d))
      BY <1>16, <2>1
    <3>3. state[v] = "FREE" /\ \E t \in Slots : state[t] # "FREE" /\ context[t] = d
      BY <3>1, <3>2 DEF IInv, Rest, Claimants
    <3>4. state'[v] = "FREE" /\ \E t \in Slots : state'[t] # "FREE" /\ context'[t] = d
      BY <1>3, <1>6, <1>12, <3>2, <3>3
    <3>5. ASSUME Writing(StackOf(d)) PROVE Fresh(v)'
      <4>1. Fresh(v) /\ context[v] # context[u]
        BY <1>16, <2>1, <3>1, <3>2, <3>5 DEF IInv, Rest, Claimants
      <4>2. Owns(v)'
        BY <1>15, <4>1 DEF Fresh
      <4>3. \A t \in Slots : state'[t] # "FREE" => context'[t] # context'[v]
        BY <1>6, <1>12, <4>1 DEF Fresh
      <4> QED BY <4>2, <4>3 DEF Fresh
    <3>6. Chosen(StackOf(d))' = v
      BY <3>1, <3>2
    <3>7. Writing(StackOf(d)') => Fresh(Chosen(StackOf(d)))'
      BY <3>1, <3>5, <3>6 DEF Fresh, Owns, StackOf
    <3> QED BY <3>1, <3>2, <3>4, <3>7
  <2>2. ASSUME NEW d \in Threads, NEW e \in Threads,
               Claiming(StackOf(d)'), Claiming(StackOf(e)'), d # e
        PROVE  /\ Chosen(StackOf(d)') # Chosen(StackOf(e)')
               /\ Writing(StackOf(d)') /\ Writing(StackOf(e)') =>
                    context'[Chosen(StackOf(d)')] # context'[Chosen(StackOf(e)')]
    BY <1>6, <1>16, <2>2 DEF IInv, Rest, Claimants
  <2> QED BY <2>1, <2>2 DEF Claimants
<1>18. Rest'
  BY <1>4, <1>6, <1>10, <1>11, <1>12, <1>13, <1>17, <1>17a
     DEF IInv, Rest, Tables, Counters, Statuses, counters
<1>19. Quiet(q)
  BY <1>1, <1>2 DEF List, QuietPcs, KeptPcs
<1>20. Len(q) \in Nat /\ \A i \in 1 .. Len(q) : q[i] \in Slots /\ q[i] # u
  BY <1>3, <1>19, ElementOfSeq, LenProperties DEF Quiet, Listed
<1>21. Listed(q, {u})'
  BY <1>3, <1>12, <1>19, <1>20 DEF Quiet, Listed
<1>22. Links(q)' /\ EndsAt(q, NULL)' /\ TailLast(q)' /\ head' = First(q)'
  <2>1. \A i \in 1 .. Len(q) - 1 : i \in 1 .. Len(q)
    BY <1>20
  <2>2. q # <<>> => Len(q) \in 1 .. Len(q)
    BY EmptySeq
  <2> QED BY <1>6, <1>12, <1>19, <1>20, <2>1, <2>2
          DEF Quiet, Chain, Links, EndsAt, TailLast, First
<1>23. Only(current_ult)' /\ state'[current_ult'] # "READY"
  BY <1>6, <1>11, <1>12, <1>14, <1>19 DEF Quiet, Only
<1>24. Listing(q)'
  BY <1>3, <1>4, <1>5, <1>6, <1>9, <1>10, <1>14, <1>20, <1>21, <1>22, <1>23 DEF Listing
<1> QED BY <1>4, <1>10, <1>18, <1>24, StillListing DEF IInv, ListPcs
-------------------------------------------------------------------------------
(* Every step *)

\* lib_init leaves an empty list and the main thread in its own code.
LEMMA InitEstablishes ==
  ASSUME Init
  PROVE  IInv
<1> DEFINE u == UserFrame(0)
<1>1. u \in Frames /\ u.pc = "user" /\ u.thread = 0
  <2>1. 0 \in Threads
    BY PreemptAssumption DEF Threads
  <2>2. u \in Frames
    BY <2>1, Zenon DEF UserFrame, Blank, Frames, NULL, Pcs
  <2> QED BY <2>2 DEF UserFrame, Blank
<1>2. stack = <<u>>
  BY DEF Init
<1> HIDE DEF u
<1>3. /\ stack \in Seq(Frames) /\ stack # <<>> /\ Len(stack) = 1 /\ stack[1] = u
      /\ Base(stack) = u /\ Running = 0 /\ Top = u /\ ~Pending(stack) /\ ~Resumes(stack)
  BY <1>1, <1>2 DEF Base, Running, ThreadOf, Top, Pending, Resumes
<1>4. WellFormed(stack)
  <2>1. \A i \in 1 .. Len(stack) : i = 1 /\ stack[i].pc = "user"
    BY <1>1, <1>3
  <2>2. 1 .. Len(stack) - 1 = {} /\ 2 .. Len(stack) - 1 = {}
    BY <1>3
  <2> QED BY <1>1, <1>3, <2>1, <2>2 DEF WellFormed, Shaped, BasePcs, CreatePcs, ListPcs
<1>5. /\ 0 \in Threads /\ Main \in Slots /\ NULL \notin Slots
      /\ Main = 0 /\ current_ult = Main /\ created = 0 /\ unfinished = {0}
      /\ saved = [k \in Threads |-> <<>>]
  BY PreemptAssumption, SlotFacts DEF Init, Threads, Main
<1>6. \A k \in Threads : IF k = 0 THEN StackOf(k) = stack ELSE StackOf(k) = <<>>
  BY <1>3, <1>5 DEF StackOf
<1>7. Counters
  <2>1. ~Pending(<<>>)
    BY DEF Pending
  <2>2. PendingSet = {}
    BY <1>3, <1>6, <2>1 DEF PendingSet
  <2>3. Cardinality(PendingSet) = 0
    BY <2>2, FS_EmptySet
  <2> QED BY <2>3, PreemptAssumption DEF Counters, Init
<1>8. Tables
  <2>1. saved \in [Threads -> Seq(Frames)]
    BY <1>5
  <2> QED BY <1>5, <2>1 DEF Tables, Init
<1>9. Stacks
  BY <1>1, <1>3, <1>4, <1>5, <1>6 DEF Stacks, StackOk, ThreadOf, Base
<1>10. Owners
  <2>1. \A s \in Slots : state[s] # "FREE" => s = Main
    BY DEF Init
  <2>2. state[Main] = "RUNNING" /\ context[Main] = 0
    BY <1>5 DEF Init
  <2>3. Owns(Main)
    BY <1>1, <1>3, <1>5, <1>6, <2>2 DEF Owns, Unreachable
  <2> QED BY <1>1, <1>3, <1>5, <2>1, <2>2, <2>3 DEF Owners, HasOwner, Unreachable
<1>11. Claimants /\ Statuses
  <2>1. ~Claiming(<<>>) /\ ~Claiming(stack)
    BY <1>3 DEF Claiming
  <2>2. \A k \in Threads : ~Claiming(StackOf(k))
    BY <1>6, <2>1
  <2> QED BY <2>2 DEF Claimants, Statuses, Init
<1>12. List(<<>>)
  <2> PICK q : q = <<>>
    OBVIOUS
  <2>1. q \in Seq(Slots) /\ Len(q) = 0
    OBVIOUS
  <2>2. 1 .. Len(q) = {} /\ 1 .. Len(q) - 1 = {}
    BY <2>1
  <2>3. \A s \in Slots : state[s] # "READY"
    BY DEF Init
  <2>4. Quiet(q)
    BY <1>5, <2>2, <2>3
    DEF Quiet, Chain, Links, EndsAt, First, TailLast, Listed, Only, Init
  <2>5. List(q)
    BY <1>1, <1>3, <2>1, <2>4 DEF List, Taking, ListPcs, QuietPcs
  <2> QED BY <2>5
<1>13. \E q \in Seq(Slots) : List(q)
  <2>1. <<>> \in Seq(Slots)
    OBVIOUS
  <2> QED BY <1>12, <2>1, Zenon
<1> QED BY <1>7, <1>8, <1>9, <1>10, <1>11, <1>13 DEF IInv, Rest

LEMMA KeepsUnchanged ==
  ASSUME IInv, UNCHANGED vars
  PROVE  IInv'
<1>0. UNCHANGED <<state, context, head, tail, next, current_ult, saved, stack, unfinished,
                  created, calls, signals, yields, status>>
  BY DEF vars, ulib, counters
<1>1. Top' = Top /\ Running' = Running /\ \A k : StackOf(k)' = StackOf(k)
  BY <1>0 DEF Top, Running, ThreadOf, StackOf
<1>2. PendingSet' = PendingSet
  BY <1>1 DEF PendingSet
<1>3. Counters' /\ Tables' /\ Statuses'
  BY <1>0, <1>2 DEF IInv, Rest, Counters, Tables, Statuses
<1>4. Stacks'
  BY <1>0, <1>1 DEF IInv, Rest, Stacks, StackOk
<1>5. ASSUME NEW c PROVE UNCHANGED <<Claiming(StackOf(c)), Writing(StackOf(c)), Chosen(StackOf(c))>>
  BY <1>1
<1>5a. \A k : HasOwner(k)' <=> HasOwner(k)
  BY <1>0, <1>5 DEF HasOwner
<1>6. ASSUME NEW s PROVE Owns(s)' <=> Owns(s)
  <2>1. StackOf(context[s])' = StackOf(context[s])
    BY <1>0, <1>1 DEF StackOf
  <2> QED BY <1>0, <2>1 DEF Owns
<1>7. Owners'
  BY <1>0, <1>1, <1>5a, <1>6 DEF IInv, Rest, Owners
<1>7a. ASSUME NEW c PROVE Fresh(Chosen(StackOf(c)))' <=> Fresh(Chosen(StackOf(c)))
  <2>1. Owns(Chosen(StackOf(c)))' <=> Owns(Chosen(StackOf(c)))
    BY <1>0, <1>1, <1>5 DEF Owns, StackOf
  <2> QED BY <1>0, <1>5, <2>1 DEF Fresh
<1>7b. Claimants'
  BY <1>0, <1>5, <1>7a DEF IInv, Rest, Claimants
<1>8. PICK q \in Seq(Slots) : List(q)
  BY DEF IInv
<1>9. List(q)'
  <2>1. /\ \A u : EndsAt(q, u)' <=> EndsAt(q, u)
        /\ \A o : Listed(q, o)' <=> Listed(q, o)
        /\ \A s : Only(s)' <=> Only(s)
        /\ Links(q)' <=> Links(q)
        /\ TailLast(q)' <=> TailLast(q)
    BY <1>0 DEF EndsAt, Listed, Only, Links, TailLast
  <2>2. Chain(q)' <=> Chain(q)
    BY <1>0, <2>1 DEF Chain, First
  <2>3. (Quiet(q)' <=> Quiet(q)) /\ (Listing(q)' <=> Listing(q))
    BY <1>0, <1>1, <2>1, <2>2 DEF Quiet, Listing, First
  <2>4. (Popped(q)' <=> Popped(q)) /\ (Switching(q)' <=> Switching(q))
    BY <1>0, <1>1, <2>1, <2>2 DEF Popped, Switching
  <2>5. Taking(q)' <=> Taking(q)
    BY <1>0, <1>1, <2>1, <2>2, <2>3, <2>4 DEF Taking
  <2> QED BY <1>1, <1>8, <2>3, <2>5 DEF List
<1> QED BY <1>3, <1>4, <1>7, <1>7b, <1>9 DEF IInv, Rest

LEMMA KeepsTestSelected ==
  ASSUME IInv, TestSelected
  PROVE  IInv'
BY KeepsTestAlone, KeepsTestFree, KeepsTestLive

LEMMA StepKeeps ==
  ASSUME IInv, [Next]_vars, strayed' = {}
  PROVE  IInv'
<1>1. CASE Library
  <2>1. CASE ScanSlots \/ MakeContext \/ WriteTCB \/ YieldAfterCreate
    BY <2>1, KeepsScanSlots, KeepsMakeContext, KeepsWriteTCB, KeepsYieldAfterCreate
  <2>2. CASE SetReady \/ SetHead \/ LinkTail \/ SetTail \/ EndList
    BY <2>2, KeepsSetReady, KeepsSetHead, KeepsLinkTail, KeepsSetTail, KeepsEndList
  <2>3. CASE ReadHead \/ PopHead \/ TestSelected \/ SetRunning \/ ReadContexts
    BY <2>3, KeepsReadHead, KeepsPopHead, KeepsTestSelected, KeepsSetRunning,
       KeepsReadContexts
  <2>4. CASE SetCurrent \/ SwapContext \/ Resume
    BY <2>4, KeepsSetCurrent, KeepsSwapContext, KeepsResume
  <2> QED BY <1>1, <2>1, <2>2, <2>3, <2>4 DEF Library
<1>2. CASE UserCreates \/ UserYields \/ UserReturns \/ MarkFree \/ Drain
  BY <1>2, KeepsUserCreates, KeepsUserYields, KeepsUserReturns, KeepsMarkFree, KeepsDrain
<1>3. CASE Signal
  BY <1>3, KeepsSignal
<1>4. CASE Gone
  BY <1>4, KeepsUnchanged DEF Gone
<1>5. CASE UNCHANGED vars
  BY <1>5, KeepsUnchanged
<1> QED BY <1>1, <1>2, <1>3, <1>4, <1>5 DEF Next

\* What has strayed stays strayed.
LEMMA StrayedStays ==
  ASSUME [Next]_vars
  PROVE  strayed \subseteq strayed'
<1>1. CASE Library
  <2>1. CASE ScanSlots
    BY <2>1 DEF ScanSlots
  <2>2. CASE MakeContext \/ WriteTCB \/ YieldAfterCreate
    BY <2>2 DEF MakeContext, WriteTCB, YieldAfterCreate
  <2>3. CASE SetReady \/ SetHead \/ LinkTail \/ SetTail \/ EndList
    BY <2>3 DEF SetReady, SetHead, LinkTail, SetTail, EndList
  <2>4. CASE ReadHead \/ PopHead \/ TestSelected \/ SetRunning \/ ReadContexts
    BY <2>4 DEF ReadHead, PopHead, TestSelected, SetRunning, ReadContexts
  <2>5. CASE SetCurrent \/ SwapContext \/ Resume
    BY <2>5 DEF SetCurrent, SwapContext, Resume
  <2> QED BY <1>1, <2>1, <2>2, <2>3, <2>4, <2>5 DEF Library
<1>2. CASE UserCreates \/ UserYields \/ UserReturns \/ MarkFree \/ Drain
  BY <1>2 DEF UserCreates, UserYields, UserReturns, MarkFree, Drain
<1>3. CASE Signal
  BY <1>3 DEF Signal
<1>4. CASE Gone \/ UNCHANGED vars
  BY <1>4 DEF Gone, vars
<1> QED BY <1>1, <1>2, <1>3, <1>4 DEF Next

\* Until a signal strays, the stacks, the owners of the slots, the creations under way and
\* the ready list are as they should be.
THEOREM AlwaysIInv == Spec => [](strayed = {} => IInv)
<1>1. Init => (strayed = {} => IInv)
  BY InitEstablishes
<1>2. (strayed = {} => IInv) /\ [Next]_vars => (strayed = {} => IInv)'
  BY StepKeeps, StrayedStays
<1> QED BY <1>1, <1>2, PTL DEF Spec

\* th_return's assertion (hilolay.c:21) fails only after a signal has cut through the list
\* or a switch, or two creations have chosen one slot: until then th_yield never comes back
\* to a thread whose function has ended, because its slot is FREE, no creation that is
\* under way has given that slot away, and the ready list does not hold it.
THEOREM AssertionHolds == Spec => []AbortsOnlyStrayed
<1>1. (strayed = {} => IInv) => AbortsOnlyStrayed
  BY DEF IInv, Rest, Statuses, AbortsOnlyStrayed
<1> QED BY <1>1, AlwaysIInv, PTL
-------------------------------------------------------------------------------
(* Nobody is lost *)

LEMMA LeastNatural ==
  ASSUME NEW S \in SUBSET Nat, S # {}
  PROVE  \E x \in S : \A y \in S : x <= y
<1>1. PICK x \in S : \A y \in S : ~(<<y, x>> \in OpToRel(<, Nat))
  BY NatLessThanWellFounded, WFMin, Zenon
<1>2. ASSUME NEW y \in S, y < x PROVE <<y, x>> \in OpToRel(<, Nat)
  BY <1>2 DEF OpToRel
<1>3. \A y \in S : ~(y < x)
  BY <1>1, <1>2, Zenon
<1> QED BY <1>3

\* The list has room for every slot once.
LEMMA ListFits ==
  ASSUME NEW q \in Seq(Slots), Links(q)
  PROVE  Len(q) \in Nat /\ Len(q) <= MAX_ULTS
<1>1. Len(q) \in Nat /\ q \in [1 .. Len(q) -> Slots]
  BY LenProperties
<1>2. q \in Injection(1 .. Len(q), Slots)
  BY <1>1 DEF Links, Injection, IsInjective
<1>3. IsFiniteSet(Slots) /\ Cardinality(Slots) = MAX_ULTS
  BY FS_Interval, PreemptAssumption DEF Slots
<1>4. Cardinality(1 .. Len(q)) <= MAX_ULTS
  BY <1>2, <1>3, FS_Injection
<1>5. Cardinality(1 .. Len(q)) = IF 1 > Len(q) THEN 0 ELSE Len(q) - 1 + 1
  BY <1>1, FS_Interval
<1> QED BY <1>1, <1>4, <1>5, PreemptAssumption

\* The walk along the next pointers, when the list is a chain.
LEMMA NodeUnfolds ==
  ASSUME NEW q \in Seq(Slots), Chain(q)
  PROVE  node = [i \in 1 .. MAX_ULTS |->
                   IF i = 1 THEN head
                   ELSE IF node[i - 1] = NULL THEN NULL ELSE next[node[i - 1]]]
<1> DEFINE w == [i \in 1 .. MAX_ULTS |-> IF i <= Len(q) THEN q[i] ELSE NULL]
           v == [i \in 1 .. MAX_ULTS |->
                   IF i = 1 THEN head ELSE IF w[i - 1] = NULL THEN NULL ELSE next[w[i - 1]]]
<1>1. Len(q) \in Nat /\ Links(q) /\ EndsAt(q, NULL) /\ head = First(q)
  BY LenProperties DEF Chain
<1>2. ASSUME NEW i \in 1 .. MAX_ULTS PROVE w[i] = v[i]
  <2>1. CASE i = 1
    <3>1. q = <<>> <=> ~(1 <= Len(q))
      BY <1>1, EmptySeq
    <3> QED BY <1>1, <2>1, <3>1 DEF First
  <2>2. CASE i # 1 /\ i - 1 <= Len(q)
    <3>1. i - 1 \in 1 .. MAX_ULTS /\ i - 1 \in 1 .. Len(q)
      BY <1>1, <2>2, PreemptAssumption
    <3>2. w[i - 1] = q[i - 1] /\ q[i - 1] # NULL
      BY <3>1, <2>2, ElementOfSeq, SlotFacts
    <3>3. v[i] = next[q[i - 1]]
      BY <2>2, <3>2
    <3>4. CASE i <= Len(q)
      <4>1. i - 1 \in 1 .. Len(q) - 1 /\ (i - 1) + 1 = i
        BY <1>1, <3>1, <3>4
      <4>2. next[q[i - 1]] = q[i]
        BY <1>1, <4>1 DEF Links
      <4> QED BY <3>3, <3>4, <4>2
    <3>5. CASE ~(i <= Len(q))
      <4>1. i - 1 = Len(q) /\ q # <<>>
        BY <1>1, <3>1, <3>5, EmptySeq
      <4>2. next[q[i - 1]] = NULL
        BY <1>1, <4>1 DEF EndsAt
      <4> QED BY <3>3, <3>5, <4>2
    <3> QED BY <3>4, <3>5
  <2>3. CASE i # 1 /\ ~(i - 1 <= Len(q))
    <3>1. i - 1 \in 1 .. MAX_ULTS /\ ~(i <= Len(q))
      BY <1>1, <2>3, PreemptAssumption
    <3>2. w[i - 1] = NULL
      BY <2>3, <3>1
    <3> QED BY <2>3, <3>1, <3>2
  <2> QED BY <2>1, <2>2, <2>3
<1>3. w = v
  BY <1>2, Zenon
<1> HIDE DEF w
<1>4. \E f : f = [i \in 1 .. MAX_ULTS |->
                    IF i = 1 THEN head ELSE IF f[i - 1] = NULL THEN NULL ELSE next[f[i - 1]]]
  BY <1>3, Zenon
<1> QED BY <1>4, Zenon DEF node

\* ... and it passes by every slot of the chain.
LEMMA ChainReached ==
  ASSUME NEW q \in Seq(Slots), Chain(q), NEW i \in 1 .. Len(q)
  PROVE  q[i] \in Reachable
<1>1. Len(q) \in Nat /\ Len(q) <= MAX_ULTS /\ Links(q) /\ head = First(q)
  BY ListFits DEF Chain
<1>2. \A j \in 1 .. MAX_ULTS :
        node[j] = IF j = 1 THEN head
                  ELSE IF node[j - 1] = NULL THEN NULL ELSE next[node[j - 1]]
  <2> DEFINE n == node
             u == [j \in 1 .. MAX_ULTS |->
                     IF j = 1 THEN head
                     ELSE IF n[j - 1] = NULL THEN NULL ELSE next[n[j - 1]]]
  <2>1. n = u
    BY NodeUnfolds
  <2> HIDE DEF n
  <2>2. \A j \in 1 .. MAX_ULTS :
          u[j] = IF j = 1 THEN head
                 ELSE IF n[j - 1] = NULL THEN NULL ELSE next[n[j - 1]]
    OBVIOUS
  <2> HIDE DEF u
  <2> QED BY <2>1, <2>2 DEF n
<1> DEFINE B == {j \in 1 .. Len(q) : node[j] # q[j]}
<1>3. B = {}
  <2> SUFFICES ASSUME B # {} PROVE FALSE
    OBVIOUS
  <2>1. B \in SUBSET Nat
    BY <1>1
  <2>2. PICK k \in B : \A j \in B : k <= j
    BY <2>1, LeastNatural
  <2>3. k \in 1 .. Len(q) /\ k \in 1 .. MAX_ULTS
    BY <1>1, PreemptAssumption
  <2>4. CASE k = 1
    <3>1. q # <<>>
      BY <1>1, <2>3, EmptySeq
    <3> QED BY <1>1, <1>2, <2>3, <2>4, <3>1 DEF First
  <2>5. CASE k # 1
    <3>1. k - 1 \in 1 .. Len(q) - 1 /\ k - 1 \in 1 .. Len(q) /\ (k - 1) + 1 = k
      BY <1>1, <2>3, <2>5
    <3>2. ~(k <= k - 1)
      BY <2>3
    <3>3. node[k - 1] = q[k - 1]
      BY <2>2, <3>1, <3>2
    <3>4. q[k - 1] # NULL
      BY <3>1, ElementOfSeq, SlotFacts
    <3>5. next[q[k - 1]] = q[k]
      BY <1>1, <3>1 DEF Links
    <3> QED BY <1>2, <2>3, <2>5, <3>3, <3>4, <3>5
  <2> QED BY <2>4, <2>5
<1>4. i \in 1 .. MAX_ULTS /\ node[i] = q[i] /\ q[i] # NULL
  BY <1>1, <1>3, PreemptAssumption, ElementOfSeq, SlotFacts
<1> QED BY <1>4 DEF Reachable

\* Until a signal strays no unfinished thread is lost: between two calls of the library it
\* runs, can be resumed from a READY slot of the list, or belongs to a creation that has not
\* written its slot yet; swapcontext never resumes what was resumed before, and the process
\* exits only after the last of them.
THEOREM NobodyIsLost == Spec => []NobodyLost
<1>1. ASSUME IInv, At("user"), NEW k \in unfinished
      PROVE  \/ Top.thread = k /\ context[current_ult] = k
             \/ \E s \in Reachable : /\ context[s] = k /\ state[s] = "READY"
                                     /\ saved[k] # <<>> /\ ThreadOf(saved[k]) = k
             \/ Made(k)
  <2>1. Top.pc = "user" /\ k \in Threads
    BY <1>1 DEF At, IInv, Rest, Tables
  <2>2. /\ Len(stack) = 1 /\ Top.thread = Running
        /\ context[current_ult] = Running /\ state[current_ult] # "FREE"
    <3>1. Len(stack) = 1 /\ Top = stack[1] /\ Base(stack).thread = Running
      BY <1>1, <2>1, RunningStack DEF IInv, Rest, BasePcs
    <3> QED BY <1>1, <2>1, <3>1 DEF Base, Unreachable, IInv, Rest, Owners
  <2>3. HasOwner(k)
    BY <1>1 DEF IInv, Rest, Owners
  <2>4. PICK q \in Seq(Slots) : List(q)
    BY <1>1 DEF IInv
  <2>5. Quiet(q)
    BY <2>1, <2>4 DEF List, QuietPcs, BasePcs
  <2>6. ASSUME NEW s \in Slots, context[s] = k, state[s] = "RUNNING"
        PROVE  Top.thread = k /\ context[current_ult] = k
    BY <2>2, <2>5, <2>6 DEF Quiet, Only
  <2>7. ASSUME NEW s \in Slots, context[s] = k, state[s] = "READY"
        PROVE  s \in Reachable /\ saved[k] # <<>> /\ ThreadOf(saved[k]) = k
    <3>1. PICK i \in 1 .. Len(q) : q[i] = s
      BY <2>5, <2>7 DEF Quiet, Listed
    <3>2. s \in Reachable
      BY <2>5, <3>1, ChainReached DEF Quiet
    <3>3. k # Running
      <4>1. s # current_ult /\ current_ult \in Slots
        BY <1>1, <2>5, <2>7 DEF Quiet, IInv, Rest, Tables
      <4> QED BY <1>1, <2>2, <2>7, <4>1 DEF IInv, Rest, Owners
    <3>4. StackOf(k) = saved[k]
      BY <3>3 DEF StackOf
    <3>5. saved[k] # <<>>
      BY <1>1, <2>7, <3>4 DEF IInv, Rest, Owners, Owns
    <3>6. ThreadOf(saved[k]) = k
      BY <1>1, <2>1, <3>4, <3>5 DEF IInv, Rest, Stacks, StackOk
    <3> QED BY <3>2, <3>5, <3>6
  <2>8. ASSUME NEW c \in Threads, Writing(StackOf(c)), context[Chosen(StackOf(c))] = k
        PROVE  Made(k)
    <3>1. c # Running
      <4>1. ~Writing(stack)
        BY <2>2 DEF Writing
      <4>2. c = Running => StackOf(c) = stack
        BY DEF StackOf
      <4> QED BY <2>8, <4>1, <4>2
    <3>2. PICK z : z = saved[c]
      OBVIOUS
    <3>3. StackOf(c) = z
      BY <3>1, <3>2 DEF StackOf
    <3>4. WellFormed(z) /\ Claiming(z)
      <4>1. z # <<>>
        BY <2>8, <3>3 DEF Writing
      <4> QED BY <1>1, <2>8, <3>3, <4>1, WritingClaims DEF IInv, Rest, Stacks, StackOk
    <3>5. Len(z) - 1 \in DOMAIN z
      BY <3>4, ClaimsOfUser DEF WellFormed, Shaped
    <3>6. z[Len(z) - 1].pc = "write" /\ context[z[Len(z) - 1].sel] = k
      BY <2>8, <3>3 DEF Writing, Chosen
    <3> QED BY <3>2, <3>5, <3>6 DEF Made
  <2>9. CASE \E s \in Slots : state[s] # "FREE" /\ context[s] = k
    <3>1. PICK s \in Slots : state[s] # "FREE" /\ context[s] = k
      BY <2>9
    <3>2. state[s] \in {"READY", "RUNNING"}
      BY <1>1, <3>1 DEF IInv, Rest, Tables
    <3> QED BY <2>6, <2>7, <3>1, <3>2
  <2>10. CASE \E c \in Threads : Writing(StackOf(c)) /\ context[Chosen(StackOf(c))] = k
    BY <2>8, <2>10
  <2> QED BY <2>3, <2>9, <2>10 DEF HasOwner
<1>2. (strayed = {} => IInv) => NobodyLost
  BY <1>1 DEF NobodyLost, IInv, Rest, Statuses
<1> QED BY <1>2, AlwaysIInv, PTL
===============================================================================
