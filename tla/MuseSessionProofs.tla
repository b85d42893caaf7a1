--------------------------- MODULE MuseSessionProofs ---------------------------
(***************************************************************************)
(* Proofs about MuseSession.  The types hold for any number of ULTs.  With *)
(* one, the two directions of the connection hold what belongs to its      *)
(* current call and nothing else until a signal cuts a recv short, from    *)
(* which it follows that they implement the procedure call of MuseRpc and  *)
(* that answers do not stray.                                              *)
(***************************************************************************)
EXTENDS MuseSession, TLAPS, SequenceTheorems

Calls == [op : Ops, id : 0 .. MaxCalls]
Results == [how : {"none", "ok", "error", "undefined"}, id : 0 .. MaxCalls]

\* Requests, replies and results are of their types.
LEMMA Typed ==
  ASSUME NEW r \in Requests
  PROVE  /\ r \in Calls
         /\ Replies(r) \subseteq Seq(Parts)
<1>1. r.op \in Ops /\ r.id \in 1 .. MaxCalls /\ r \in Calls
  BY SessionAssumption, SMT DEF Requests, Calls
<1>2. Body(r) \in Parts
  BY <1>1, Zenon DEF Body, Parts
<1>3. \A op \in {"MALLOC_OK", "FREE_RESPONSE", "GET_OK", "SEG_FAULT"} : Opcode(op, r) \in Parts
  BY <1>1, Zenon DEF Opcode, Parts
<1>4. \A o \in Parts, b \in Parts : <<o, b>> \in Seq(Parts) /\ <<o>> \in Seq(Parts) /\ <<>> \in Seq(Parts)
  BY SMT
<1> HIDE DEF Parts, Requests, Calls
<1>5. Replies(r) \subseteq Seq(Parts)
  BY <1>1, <1>2, <1>3, <1>4 DEF Replies, Ops
<1> QED
  BY <1>1, <1>5

\* The initial states are of their types.
LEMMA InitTyped == Init => TypeOK
<1> SUFFICES ASSUME Init PROVE TypeOK
  OBVIOUS
<1>1. [op |-> "MALLOC", id |-> 0] \in Calls /\ [how |-> "none", id |-> 0] \in Results
  BY SessionAssumption, SMT DEF Calls, Results, Ops
<1>2. call \in [Ults -> Calls] /\ got \in [Ults -> Results]
  BY <1>1, Zenon DEF Init
<1>3. /\ pc \in [Ults -> {"idle", "opcode", "body"}]
      /\ to_muse \in Seq(Requests) /\ to_client \in Seq(Parts)
      /\ muse \in {"up", "hung", "gone"} /\ client \in {"open", "closed", "lost"}
      /\ calls \in 0 .. MaxCalls
  BY SessionAssumption, EmptySeq, SMT DEF Init
<1>4. interrupted \in BOOLEAN
  BY DEF Init
<1> QED
  BY <1>2, <1>3, <1>4, Zenon DEF TypeOK, Calls, Results

\* A new call is a request.
LEMMA NewRequest ==
  ASSUME TypeOK, NEW u \in Ults, NEW op \in Ops, calls < MaxCalls, calls' = calls + 1,
         call' = [call EXCEPT ![u] = [op |-> op, id |-> calls + 1]]
  PROVE  /\ calls' \in 0 .. MaxCalls
         /\ call'[u] = [op |-> op, id |-> calls + 1]
         /\ call'[u] \in Requests
         /\ call' \in [Ults -> Calls]
<1>1. calls + 1 \in 1 .. MaxCalls /\ calls' \in 0 .. MaxCalls
  BY SessionAssumption, SMT DEF TypeOK
<1>2. [op |-> op, id |-> calls + 1] \in Requests
  BY <1>1, Zenon DEF Requests
<1>3. call'[u] = [op |-> op, id |-> calls + 1]
  BY Zenon DEF TypeOK
<1>4. call' \in [Ults -> Calls]
  BY <1>2, Typed, Zenon DEF TypeOK, Calls
<1> QED
  BY <1>1, <1>2, <1>3, <1>4

\* The part that is received is one.
LEMMA HeadTyped ==
  ASSUME TypeOK, to_client # <<>>
  PROVE  /\ Head(to_client) \in Parts
         /\ Head(to_client).id \in 0 .. MaxCalls
         /\ Tail(to_client) \in Seq(Parts)
<1>1. Head(to_client) \in Parts /\ Tail(to_client) \in Seq(Parts)
  BY HeadTailProperties DEF TypeOK
<1>2. Head(to_client).id \in 0 .. MaxCalls
  BY <1>1, SessionAssumption, SMT DEF Parts
<1> QED
  BY <1>1, <1>2

\* What a call returns is of its type.
LEMMA ReturnsTyped ==
  ASSUME TypeOK, NEW u \in Ults, NEW how \in {"ok", "error", "undefined"},
         NEW id \in 0 .. MaxCalls, Returns(u, how, id)
  PROVE  pc' \in [Ults -> {"idle", "opcode", "body"}] /\ got' \in [Ults -> Results]
<1>1. [how |-> how, id |-> id] \in Results
  BY Zenon DEF Results
<1> QED
  BY <1>1, Zenon DEF TypeOK, Returns, Results

\* Every step keeps the types.
LEMMA NextTyped == TypeOK /\ [Next]_vars => TypeOK'
<1> SUFFICES ASSUME TypeOK, [Next]_vars PROVE TypeOK'
  OBVIOUS
<1>1. CASE Serve
  <2>1. PICK reply \in Replies(Head(to_muse)) : to_client' = to_client \o reply
    BY <1>1 DEF Serve
  <2>2. Head(to_muse) \in Requests /\ Tail(to_muse) \in Seq(Requests)
    BY <1>1, HeadTailProperties DEF Serve, TypeOK
  <2>3. to_client' \in Seq(Parts)
    BY <2>1, <2>2, Typed, ConcatProperties DEF TypeOK
  <2> QED
    BY <1>1, <2>2, <2>3 DEF Serve, TypeOK
<1>2. CASE Die
  <2>1. Tail(to_muse) \in Seq(Requests)
    BY <1>2, HeadTailProperties DEF Die, TypeOK
  <2> QED
    BY <1>2, <2>1 DEF Die, TypeOK
<1>3. CASE Exit \/ Close \/ UNCHANGED vars
  BY <1>3 DEF Exit, Close, vars, TypeOK
<1>4. ASSUME NEW u \in Ults, NEW op \in Ops, Call(u, op) PROVE TypeOK'
  <2>1. /\ calls' \in 0 .. MaxCalls
        /\ call'[u] \in Requests
        /\ call' \in [Ults -> Calls]
    BY <1>4, NewRequest DEF Call
  <2>2. to_muse' \in Seq(Requests)
    BY <1>4, <2>1, AppendProperties DEF Call, TypeOK
  <2>3. pc' \in [Ults -> {"idle", "opcode", "body"}]
    BY <1>4, Zenon DEF Call, TypeOK
  <2> QED
    BY <1>4, <2>1, <2>2, <2>3 DEF Call, TypeOK, Calls
<1>5. ASSUME NEW u \in Ults, NEW op \in Ops, CallNobody(u, op) PROVE TypeOK'
  <2>1. /\ calls' \in 0 .. MaxCalls
        /\ call' \in [Ults -> Calls]
    BY <1>5, NewRequest DEF CallNobody
  <2>2. pc' \in [Ults -> {"idle", "opcode", "body"}]
    BY <1>5, Zenon DEF CallNobody, TypeOK
  <2> QED
    BY <1>5, <2>1, <2>2 DEF CallNobody, TypeOK, Calls
<1>6. ASSUME NEW u \in Ults, RecvOpcode(u) PROVE TypeOK'
  <2> DEFINE unreadable == Unreadable(call[u].op, Head(to_client))
             short == Short(call[u].op, Head(to_client).op)
  <2>1. /\ to_client' \in Seq(Parts)
        /\ Head(to_client).id \in 0 .. MaxCalls
    BY <1>6, HeadTyped DEF RecvOpcode
  <2>2. /\ pc' \in [Ults -> {"idle", "opcode", "body"}]
        /\ got' \in [Ults -> Results]
        /\ client' \in {"open", "lost"}
    <3>1. CASE unreadable
      BY <1>6, <3>1, Zenon DEF RecvOpcode, TypeOK, Results
    <3>2. CASE ~unreadable /\ short
      <4>1. PICK how \in {"error", "undefined"} : Returns(u, how, Head(to_client).id) /\ UNCHANGED client
        BY <1>6, <3>2 DEF RecvOpcode
      <4> QED
        BY <1>6, <2>1, <4>1, ReturnsTyped DEF RecvOpcode
    <3>3. CASE ~unreadable /\ ~short
      BY <1>6, <3>3, Zenon DEF RecvOpcode, TypeOK, Results
    <3> QED
      BY <3>1, <3>2, <3>3
  <2> QED
    BY <1>6, <2>1, <2>2 DEF RecvOpcode, TypeOK, Results
<1>7. ASSUME NEW u \in Ults, RecvBody(u) PROVE TypeOK'
  <2>1. /\ to_client' \in Seq(Parts)
        /\ Head(to_client).id \in 0 .. MaxCalls
    BY <1>7, HeadTyped DEF RecvBody
  <2>2. /\ pc' \in [Ults -> {"idle", "opcode", "body"}]
        /\ got' \in [Ults -> Results]
        /\ client' \in {"open", "lost"}
    <3>1. CASE Head(to_client).part = "opcode"
      BY <1>7, <3>1, Zenon DEF RecvBody, TypeOK, Results
    <3>2. CASE Head(to_client).part # "opcode"
      BY <1>7, <2>1, <3>2, ReturnsTyped DEF RecvBody
    <3> QED
      BY <3>1, <3>2
  <2> QED
    BY <1>7, <2>1, <2>2 DEF RecvBody, TypeOK, Results
<1>8. ASSUME NEW u \in Ults, RecvNothing(u) \/ RecvInterrupted(u) PROVE TypeOK'
  <2>1. call[u].id \in 0 .. MaxCalls
    BY SessionAssumption, SMT DEF TypeOK
  <2>2. Unanswered(u)
    BY <1>8 DEF RecvNothing, RecvInterrupted
  <2>3. /\ pc' \in [Ults -> {"idle", "opcode", "body"}]
        /\ got' \in [Ults -> Results]
        /\ client' \in {"open", "lost", "closed"}
    <3>1. CASE pc[u] = "body" \/ call[u].op = "COPY"
      BY <2>2, <3>1, Zenon DEF Unanswered, TypeOK, Results
    <3>2. CASE ~(pc[u] = "body" \/ call[u].op = "COPY")
      <4>1. Returns(u, "undefined", call[u].id) /\ UNCHANGED client
        BY <2>2, <3>2 DEF Unanswered
      <4> QED
        BY <2>1, <4>1, ReturnsTyped DEF TypeOK
    <3> QED
      BY <3>1, <3>2
  <2> QED
    BY <1>8, <2>3 DEF RecvNothing, RecvInterrupted, TypeOK, Results
<1> QED
  BY <1>1, <1>2, <1>3, <1>4, <1>5, <1>6, <1>7, <1>8 DEF Next, Recv

\* Whatever the ULTs, their number and the server do, every variable has its type: what is
\* received is part of a reply, and what a call returns belongs to a call that was made
\* (libmuse.c:26-120).
THEOREM SessionTypesCorrect == Spec => []TypeOK
<1> QED
  BY InitTyped, NextTyped, PTL DEF Spec
-------------------------------------------------------------------------------
(* One ULT *)

\* What the connection holds while the only ULT does nothing, has asked, is being answered,
\* has half of its answer, or waits for an answer that does not come.
Quiet(u) == pc[u] = "idle" /\ to_muse = <<>> /\ to_client = <<>> /\ got[u].id = call[u].id
Waits(u) == /\ pc[u] = "opcode" /\ to_muse = <<call[u]>> /\ to_client = <<>>
            /\ call[u] \in Requests /\ muse # "gone"
Answered(u) == /\ pc[u] = "opcode" /\ to_muse = <<>> /\ to_client # <<>>
               /\ call[u] \in Requests /\ to_client \in Replies(call[u])
Half(u) == pc[u] = "body" /\ to_muse = <<>> /\ to_client = <<Body(call[u])>>
Dropped(u) == pc[u] = "opcode" /\ to_muse = <<>> /\ to_client = <<>>

InStep(u) == /\ call[u].id = calls
             /\ Quiet(u) \/ Waits(u) \/ Answered(u) \/ Half(u) \/ Dropped(u)

Inv(u) == TypeOK /\ InStep(u)
Unless(u) == TypeOK /\ (interrupted \/ InStep(u))

\* The stage of a call whose number is id, for given contents of the connection.
StageOf(tm, tc, id, p) ==
  LET reply == {tc[i].part : i \in {j \in DOMAIN tc : tc[j].id = id}}
      asked == \E i \in DOMAIN tm : tm[i].id = id
  IN CASE asked -> "asked"
       [] ~asked /\ "body" \in reply -> "accepted"
       [] ~asked /\ reply = {"opcode"} -> "refused"
       [] OTHER -> IF p = "idle" THEN "idle" ELSE "dropped"

LEMMA StageIsStageOf ==
  ASSUME NEW u
  PROVE  /\ Stage(u) = StageOf(to_muse, to_client, call[u].id, pc[u])
         /\ Stage(u)' = StageOf(to_muse', to_client', call'[u].id, pc'[u])
<1> QED
  BY Zenon DEF Stage, Asked, Reply, StageOf

\* What the handlers answer to a request: a package that the function waits for, a bare
\* opcode to a free, nothing to a copy.
LEMMA RepliesAre ==
  ASSUME NEW r \in Requests, NEW reply \in Replies(r)
  PROVE  \/ \E op : /\ reply = <<Opcode(op, r), Body(r)>>
                    /\ ~Short(r.op, op) /\ op # "SEG_FAULT"
         \/ reply = <<Opcode("SEG_FAULT", r)>> /\ r.op = "MEMFREE"
         \/ reply = <<>> /\ r.op = "COPY"
<1>1. r.op \in {"MALLOC", "MEMFREE", "GET", "COPY"}
  BY SMT DEF Requests, Ops
<1>2. CASE r.op = "MALLOC"
  BY <1>2, SMT DEF Replies, Short
<1>3. CASE r.op = "MEMFREE"
  BY <1>3, SMT DEF Replies, Short
<1>4. CASE r.op = "GET"
  BY <1>4, SMT DEF Replies, Short
<1>5. CASE r.op = "COPY"
  BY <1>5, SMT DEF Replies, Short
<1> QED
  BY <1>1, <1>2, <1>3, <1>4, <1>5

\* The stages of the abstract call, before and after a step.
stages == [v \in Ults |-> Stage(v)]

LEMMA StageFacts ==
  ASSUME NEW u, Ults = {u}
  PROVE  /\ stages[u] = Stage(u)
         /\ \A x : Stage(u)' = x => stages' = [stages EXCEPT ![u] = x]
         /\ Stage(u)' = Stage(u) => stages' = stages
         /\ \A c \in Ults : stages[c] = Stage(u)
<1> QED
  BY Zenon DEF stages

\* The parts of an answer.
LEMMA PartFacts ==
  ASSUME NEW r, NEW op
  PROVE  /\ Body(r).part = "body" /\ Body(r).id = r.id
         /\ Opcode(op, r).part = "opcode" /\ Opcode(op, r).id = r.id /\ Opcode(op, r).op = op
<1> QED
  BY SMT DEF Body, Opcode

\* The stage of a ULT in each state of the connection.
LEMMA StageWhen ==
  ASSUME NEW r, NEW op
  PROVE  /\ StageOf(<<>>, <<>>, r.id, "idle") = "idle"
         /\ StageOf(<<>>, <<>>, r.id, "opcode") = "dropped"
         /\ \A p : StageOf(<<r>>, <<>>, r.id, p) = "asked"
         /\ \A p : StageOf(<<>>, <<Body(r)>>, r.id, p) = "accepted"
         /\ \A p : StageOf(<<>>, <<Opcode(op, r), Body(r)>>, r.id, p) = "accepted"
         /\ \A p : StageOf(<<>>, <<Opcode(op, r)>>, r.id, p) = "refused"
<1>1. /\ Body(r).part = "body" /\ Body(r).id = r.id
      /\ Opcode(op, r).part = "opcode" /\ Opcode(op, r).id = r.id
  BY PartFacts
<1>2. ASSUME NEW p
      PROVE  /\ StageOf(<<>>, <<>>, r.id, p) = IF p = "idle" THEN "idle" ELSE "dropped"
             /\ StageOf(<<r>>, <<>>, r.id, p) = "asked"
             /\ StageOf(<<>>, <<Body(r)>>, r.id, p) = "accepted"
             /\ StageOf(<<>>, <<Opcode(op, r), Body(r)>>, r.id, p) = "accepted"
             /\ StageOf(<<>>, <<Opcode(op, r)>>, r.id, p) = "refused"
  <2>1. StageOf(<<>>, <<>>, r.id, p) = IF p = "idle" THEN "idle" ELSE "dropped"
    BY SMT DEF StageOf
  <2>2. StageOf(<<r>>, <<>>, r.id, p) = "asked"
    BY SMT DEF StageOf
  <2>3. StageOf(<<>>, <<Body(r)>>, r.id, p) = "accepted"
    BY <1>1, SMT DEF StageOf
  <2>4. StageOf(<<>>, <<Opcode(op, r), Body(r)>>, r.id, p) = "accepted"
    BY <1>1, SMT DEF StageOf
  <2>5. StageOf(<<>>, <<Opcode(op, r)>>, r.id, p) = "refused"
    BY <1>1, SMT DEF StageOf
  <2> QED
    BY <2>1, <2>2, <2>3, <2>4, <2>5
<1>3. StageOf(<<>>, <<>>, r.id, "idle") = "idle" /\ StageOf(<<>>, <<>>, r.id, "opcode") = "dropped"
  BY <1>2, SMT
<1> QED
  BY <1>2, <1>3, Zenon

LEMMA StageNow ==
  ASSUME NEW u
  PROVE  /\ Quiet(u) => Stage(u) = "idle"
         /\ Waits(u) => Stage(u) = "asked"
         /\ Half(u) => Stage(u) = "accepted"
         /\ Dropped(u) => Stage(u) = "dropped"
<1>0. Stage(u) = StageOf(to_muse, to_client, call[u].id, pc[u])
  BY StageIsStageOf
<1>1. Quiet(u) => Stage(u) = "idle"
  <2> SUFFICES ASSUME Quiet(u) PROVE Stage(u) = "idle"
    OBVIOUS
  <2>1. Stage(u) = StageOf(<<>>, <<>>, call[u].id, "idle")
    BY <1>0, Zenon DEF Quiet
  <2> QED
    BY <2>1, StageWhen, Zenon
<1>2. Waits(u) => Stage(u) = "asked"
  <2> SUFFICES ASSUME Waits(u) PROVE Stage(u) = "asked"
    OBVIOUS
  <2>1. Stage(u) = StageOf(<<call[u]>>, <<>>, call[u].id, pc[u])
    BY <1>0, Zenon DEF Waits
  <2> QED
    BY <2>1, StageWhen, Zenon
<1>3. Half(u) => Stage(u) = "accepted"
  <2> SUFFICES ASSUME Half(u) PROVE Stage(u) = "accepted"
    OBVIOUS
  <2>1. Stage(u) = StageOf(<<>>, <<Body(call[u])>>, call[u].id, pc[u])
    BY <1>0, Zenon DEF Half
  <2> QED
    BY <2>1, StageWhen, Zenon
<1>4. Dropped(u) => Stage(u) = "dropped"
  <2> SUFFICES ASSUME Dropped(u) PROVE Stage(u) = "dropped"
    OBVIOUS
  <2>1. Stage(u) = StageOf(<<>>, <<>>, call[u].id, "opcode")
    BY <1>0, Zenon DEF Dropped
  <2> QED
    BY <2>1, StageWhen, Zenon
<1> QED
  BY <1>1, <1>2, <1>3, <1>4

LEMMA StageThen ==
  ASSUME NEW u
  PROVE  /\ Quiet(u)' => Stage(u)' = "idle"
         /\ Waits(u)' => Stage(u)' = "asked"
         /\ Half(u)' => Stage(u)' = "accepted"
         /\ Dropped(u)' => Stage(u)' = "dropped"
<1>0. Stage(u)' = StageOf(to_muse', to_client', call'[u].id, pc'[u])
  BY StageIsStageOf
<1>1. Quiet(u)' => Stage(u)' = "idle"
  <2> SUFFICES ASSUME Quiet(u)' PROVE Stage(u)' = "idle"
    OBVIOUS
  <2>1. Stage(u)' = StageOf(<<>>, <<>>, call'[u].id, "idle")
    BY <1>0, Zenon DEF Quiet
  <2> QED
    BY <2>1, StageWhen, Zenon
<1>2. Waits(u)' => Stage(u)' = "asked"
  <2> SUFFICES ASSUME Waits(u)' PROVE Stage(u)' = "asked"
    OBVIOUS
  <2>1. Stage(u)' = StageOf(<<call'[u]>>, <<>>, call'[u].id, pc'[u])
    BY <1>0, Zenon DEF Waits
  <2> QED
    BY <2>1, StageWhen, Zenon
<1>3. Half(u)' => Stage(u)' = "accepted"
  <2> SUFFICES ASSUME Half(u)' PROVE Stage(u)' = "accepted"
    OBVIOUS
  <2>1. Stage(u)' = StageOf(<<>>, <<Body(call'[u])>>, call'[u].id, pc'[u])
    BY <1>0, Zenon DEF Half
  <2> QED
    BY <2>1, StageWhen, Zenon
<1>4. Dropped(u)' => Stage(u)' = "dropped"
  <2> SUFFICES ASSUME Dropped(u)' PROVE Stage(u)' = "dropped"
    OBVIOUS
  <2>1. Stage(u)' = StageOf(<<>>, <<>>, call'[u].id, "opcode")
    BY <1>0, Zenon DEF Dropped
  <2> QED
    BY <2>1, StageWhen, Zenon
<1> QED
  BY <1>1, <1>2, <1>3, <1>4
-------------------------------------------------------------------------------
\* A call takes the next number, and the connection holds its request, or nothing.
LEMMA CallAsks ==
  ASSUME NEW u, Ults = {u}, Inv(u), NEW op \in Ops, Call(u, op)
  PROVE  InStep(u)' /\ Rpc!Ask(u)
<1>1. Quiet(u) /\ call[u].id = calls /\ stages[u] = "idle"
  BY StageNow, StageFacts DEF Inv, InStep, Quiet, Waits, Answered, Half, Dropped, Call
<1>2. /\ call'[u] = [op |-> op, id |-> calls + 1]
      /\ call'[u] \in Requests
  BY NewRequest DEF Inv, Call
<1>3. to_muse' = <<call'[u]>> /\ to_client' = <<>> /\ pc'[u] = "opcode"
  BY <1>1 DEF Call, Quiet, Inv, TypeOK
<1>4. Waits(u)' /\ InStep(u)'
  <2>1. call'[u].id = calls + 1 /\ calls' = calls + 1
    <3>1. calls' = calls + 1
      BY DEF Call
    <3> QED
      BY <1>2, <3>1, SMT
  <2>2. Waits(u)'
    BY <1>2, <1>3, Zenon DEF Waits, Call
  <2> QED
    BY <2>1, <2>2, Zenon DEF InStep
<1>5. stages' = [stages EXCEPT ![u] = "asked"]
  BY <1>4, StageThen, StageFacts
<1>6. Rpc!Max({call[d].id : d \in Ults}) = calls
  <2>1. {call[d].id : d \in Ults} = {calls} /\ calls \in Nat
    BY <1>1, SessionAssumption DEF Inv, TypeOK
  <2> QED
    BY <2>1 DEF Rpc!Max
<1>7. 1 + calls = calls + 1
  BY SessionAssumption DEF Inv, TypeOK
<1> QED
  BY <1>1, <1>4, <1>5, <1>6, <1>7, Zenon DEF Rpc!Ask, Call, stages

LEMMA CallNobodyAsks ==
  ASSUME NEW u, Ults = {u}, Inv(u), NEW op \in Ops, CallNobody(u, op)
  PROVE  InStep(u)' /\ Rpc!Ask(u)
<1>1. Quiet(u) /\ call[u].id = calls /\ stages[u] = "idle"
  BY StageNow, StageFacts DEF Inv, InStep, Quiet, Waits, Answered, Half, Dropped, CallNobody
<1>2. call'[u] = [op |-> op, id |-> calls + 1]
  BY NewRequest DEF Inv, CallNobody
<1>3. to_muse' = <<>> /\ to_client' = <<>> /\ pc'[u] = "opcode"
  BY <1>1 DEF CallNobody, Quiet, Inv, TypeOK
<1>4. Dropped(u)' /\ InStep(u)'
  <2>1. call'[u].id = calls + 1 /\ calls' = calls + 1
    <3>1. calls' = calls + 1
      BY DEF CallNobody
    <3> QED
      BY <1>2, <3>1, SMT
  <2>2. Dropped(u)'
    BY <1>3, Zenon DEF Dropped
  <2> QED
    BY <2>1, <2>2, Zenon DEF InStep
<1>5. stages' = [stages EXCEPT ![u] = "dropped"]
  BY <1>4, StageThen, StageFacts
<1>6. Rpc!Max({call[d].id : d \in Ults}) = calls
  <2>1. {call[d].id : d \in Ults} = {calls} /\ calls \in Nat
    BY <1>1, SessionAssumption DEF Inv, TypeOK
  <2> QED
    BY <2>1 DEF Rpc!Max
<1>7. 1 + calls = calls + 1
  BY SessionAssumption DEF Inv, TypeOK
<1> QED
  BY <1>1, <1>4, <1>5, <1>6, <1>7, Zenon DEF Rpc!Ask, CallNobody, stages

\* The server takes the request, and what it answers is that request's reply.
LEMMA ServeServes ==
  ASSUME NEW u, Ults = {u}, Inv(u), Serve
  PROVE  InStep(u)' /\ Rpc!Serve(u)
<1>1. Waits(u) /\ call[u].id = calls /\ stages[u] = "asked"
  BY StageNow, StageFacts DEF Inv, InStep, Quiet, Waits, Answered, Half, Dropped, Serve
<1>2. to_muse' = <<>> /\ to_client' \in Replies(call[u]) /\ pc'[u] = "opcode" /\ call' = call
  <2>1. PICK reply \in Replies(Head(to_muse)) : to_client' = to_client \o reply
    BY DEF Serve
  <2>2. Head(to_muse) = call[u] /\ Tail(to_muse) = <<>>
    BY <1>1 DEF Waits
  <2>3. to_client' = reply
    <3>1. reply \in Seq(Parts)
      BY <1>1, <2>2, Typed DEF Waits
    <3> QED
      BY <1>1, <2>1, <3>1, ConcatEmptySeq DEF Waits
  <2> QED
    BY <1>1, <2>2, <2>3 DEF Waits, Serve
<1>3. InStep(u)'
  BY <1>1, <1>2, Zenon DEF InStep, Waits, Answered, Dropped, Serve
<1>4. Stage(u)' = StageOf(<<>>, to_client', call[u].id, "opcode")
  BY <1>2, StageIsStageOf
<1>5. \/ Stage(u)' = "accepted"
      \/ Stage(u)' = "refused" /\ call[u].op = "MEMFREE"
      \/ Stage(u)' = "dropped" /\ call[u].op = "COPY"
  <2>1. call[u] \in Requests
    BY <1>1 DEF Waits
  <2>2. CASE \E op : to_client' = <<Opcode(op, call[u]), Body(call[u])>>
    BY <1>4, <2>2, StageWhen, Zenon
  <2>3. CASE to_client' = <<Opcode("SEG_FAULT", call[u])>> /\ call[u].op = "MEMFREE"
    <3>1. StageOf(<<>>, <<Opcode("SEG_FAULT", call[u])>>, call[u].id, "opcode") = "refused"
      BY StageWhen
    <3> QED
      BY <1>4, <2>3, <3>1, Zenon
  <2>4. CASE to_client' = <<>> /\ call[u].op = "COPY"
    BY <1>4, <2>4, StageWhen, Zenon
  <2> QED
    BY <1>2, <2>1, <2>2, <2>3, <2>4, RepliesAre, Zenon
<1> DEFINE Ends == {"accepted"} \cup CASE call[u].op = "MEMFREE" -> {"refused"}
                                         [] call[u].op = "COPY" -> {"dropped"}
                                         [] OTHER -> {}
<1>6. Stage(u)' \in Ends
  BY <1>5, SMT
<1>7. \E end \in Ends : stages' = [stages EXCEPT ![u] = end]
  <2> HIDE DEF Ends
  <2> QED
    BY <1>6, StageFacts, Zenon
<1> QED
  BY <1>1, <1>3, <1>7, Zenon DEF Rpc!Serve, Serve, stages

\* The server ends, or hangs, over the request.
LEMMA DieFails ==
  ASSUME NEW u, Ults = {u}, Inv(u), Die
  PROVE  InStep(u)' /\ Rpc!Fail(u)
<1>1. Waits(u) /\ call[u].id = calls /\ stages[u] = "asked"
  BY StageNow, StageFacts DEF Inv, InStep, Quiet, Waits, Answered, Half, Dropped, Die
<1>2. Dropped(u)' /\ InStep(u)'
  <2>1. to_muse' = <<>>
    BY <1>1 DEF Waits, Die
  <2> QED
    BY <1>1, <2>1, Zenon DEF Waits, Dropped, InStep, Die
<1>3. stages' = [stages EXCEPT ![u] = "dropped"]
  BY <1>2, StageThen, StageFacts
<1>4. muse' \in {"hung", "gone"}
  BY DEF Die
<1> QED
  BY <1>1, <1>2, <1>3, <1>4, Zenon DEF Rpc!Fail, Die, stages

\* The server ends with the client, and the client ends between calls.
LEMMA ExitAndClose ==
  ASSUME NEW u, Ults = {u}, Inv(u), Exit \/ Close \/ UNCHANGED vars
  PROVE  /\ InStep(u)'
         /\ Exit => Rpc!Ends
         /\ Close => Rpc!Close
         /\ UNCHANGED vars => UNCHANGED Rpc!rpc
<1>1. UNCHANGED <<pc, call, got, to_muse, to_client, calls>>
  BY DEF Exit, Close, vars
<1>2. stages' = stages
  <2>1. Stage(u)' = Stage(u)
    BY <1>1, StageIsStageOf, Zenon
  <2> QED
    BY <2>1, StageFacts
<1>3. InStep(u)'
  <2>1. CASE Waits(u)
    <3>1. muse' # "gone"
      BY <2>1 DEF Waits, Exit, Close, vars
    <3> QED
      BY <1>1, <2>1, <3>1, Zenon DEF Inv, InStep, Waits
  <2>2. CASE ~Waits(u)
    BY <1>1, <2>2, Zenon DEF Inv, InStep, Quiet, Answered, Half, Dropped
  <2> QED
    BY <2>1, <2>2
<1>4. Exit => Rpc!Ends
  BY <1>2, Zenon DEF Exit, Rpc!Ends, stages
<1>5. Close => Rpc!Close
  <2> SUFFICES ASSUME Close PROVE Rpc!Close
    OBVIOUS
  <2>1. \A c \in Ults : stages[c] = "idle"
    <3>1. Quiet(u)
      BY DEF Inv, InStep, Quiet, Waits, Answered, Half, Dropped, Close
    <3> QED
      BY <3>1, StageNow, StageFacts
  <2> QED
    BY <1>2, <2>1, Zenon DEF Close, Rpc!Close, stages
<1>6. UNCHANGED vars => UNCHANGED Rpc!rpc
  BY <1>2, Zenon DEF vars, Rpc!rpc, stages
<1> QED
  BY <1>3, <1>4, <1>5, <1>6

\* A return of the function is a return of the abstract call.
LEMMA ReturnReturns ==
  ASSUME NEW u, Ults = {u}, Inv(u), NEW how, Returns(u, how, call[u].id), client = "open",
         to_muse' = <<>>, to_client' = <<>>, UNCHANGED <<call, muse, client, calls>>
  PROVE  InStep(u)' /\ Rpc!Return(u, how)
<1>1. pc'[u] = "idle" /\ got'[u] = [how |-> how, id |-> call[u].id]
  BY DEF Returns, Inv, TypeOK
<1>2. got'[u].id = call'[u].id
  BY <1>1
<1>3. Quiet(u)' /\ InStep(u)'
  BY <1>1, <1>2, Zenon DEF Quiet, InStep, Inv
<1>4. stages' = [stages EXCEPT ![u] = "idle"]
  BY <1>3, StageThen, StageFacts
<1> QED
  BY <1>3, <1>4, Zenon DEF Returns, Rpc!Return, stages

\* The ULT takes the opcode of its own answer, which ends the call or announces a package.
LEMMA OpcodeReturnsOrStays ==
  ASSUME NEW u, Ults = {u}, Inv(u), RecvOpcode(u)
  PROVE  InStep(u)' /\ (Rpc!Returns(u) \/ UNCHANGED Rpc!rpc)
<1> DEFINE part == Head(to_client)
<1>1. Answered(u) /\ call[u].id = calls
  BY DEF Inv, InStep, Quiet, Waits, Answered, Half, Dropped, RecvOpcode
<1>2. /\ client = "open" /\ to_muse' = <<>> /\ to_client' = Tail(to_client)
      /\ UNCHANGED <<call, muse, calls>>
  BY <1>1 DEF RecvOpcode, Answered
<1>3. Stage(u) = StageOf(<<>>, to_client, call[u].id, pc[u])
  BY <1>1, StageIsStageOf DEF Answered
<1>4. ASSUME NEW op, to_client = <<Opcode(op, call[u]), Body(call[u])>>, ~Short(call[u].op, op),
             op # "SEG_FAULT"
      PROVE  InStep(u)' /\ UNCHANGED Rpc!rpc
  <2>1. part = Opcode(op, call[u]) /\ Tail(to_client) = <<Body(call[u])>>
    BY <1>4
  <2>2. part.part = "opcode" /\ part.op = op
    BY <2>1, PartFacts
  <2>3. pc' = [pc EXCEPT ![u] = "body"] /\ UNCHANGED <<got, client>>
    BY <1>4, <2>2 DEF RecvOpcode, Unreadable
  <2>4. Half(u)' /\ InStep(u)'
    <3>1. pc'[u] = "body"
      BY <2>3 DEF Inv, TypeOK
    <3> QED
      BY <1>1, <1>2, <2>1, <3>1, Zenon DEF Half, InStep
  <2>5. Stage(u)' = Stage(u)
    <3>1. Stage(u) = "accepted"
      BY <1>3, <1>4, StageWhen, Zenon
    <3> QED
      BY <2>4, <3>1, StageThen
  <2>6. stages' = stages
    BY <2>5, StageFacts
  <2> QED
    BY <1>2, <2>3, <2>4, <2>6, Zenon DEF Rpc!rpc, stages
<1>5. ASSUME to_client = <<Opcode("SEG_FAULT", call[u])>>, call[u].op = "MEMFREE"
      PROVE  InStep(u)' /\ Rpc!Returns(u)
  <2>1. part = Opcode("SEG_FAULT", call[u]) /\ Tail(to_client) = <<>>
    BY <1>5
  <2>2. part.part = "opcode" /\ part.op = "SEG_FAULT" /\ part.id = call[u].id
    BY <2>1, PartFacts
  <2>3. Short(call[u].op, part.op)
    BY <1>5, <2>2 DEF Short
  <2>4. Returns(u, "error", call[u].id) /\ UNCHANGED client
    BY <1>5, <2>2, <2>3 DEF RecvOpcode, Unreadable
  <2>5. InStep(u)' /\ Rpc!Return(u, "error")
    BY <1>2, <2>1, <2>4, ReturnReturns
  <2>6. stages[u] = "refused"
    <3>1. StageOf(<<>>, <<Opcode("SEG_FAULT", call[u])>>, call[u].id, pc[u]) = "refused"
      BY StageWhen
    <3> QED
      BY <1>3, <1>5, <3>1, StageFacts
  <2> QED
    BY <2>5, <2>6 DEF Rpc!Returns, stages
<1> QED
  BY <1>1, <1>4, <1>5, RepliesAre, Zenon DEF Answered

\* The package that follows is the answer to the same call.
LEMMA BodyReturns ==
  ASSUME NEW u, Ults = {u}, Inv(u), RecvBody(u)
  PROVE  InStep(u)' /\ Rpc!Returns(u)
<1>1. Half(u)
  BY DEF Inv, InStep, Quiet, Waits, Answered, Half, Dropped, RecvBody
<1>2. Head(to_client) = Body(call[u]) /\ Tail(to_client) = <<>>
  BY <1>1 DEF Half
<1>3. Head(to_client).part = "body" /\ Head(to_client).id = call[u].id
  BY <1>2, PartFacts
<1>4. Returns(u, "ok", call[u].id) /\ UNCHANGED client
  BY <1>3 DEF RecvBody
<1>5. InStep(u)' /\ Rpc!Return(u, "ok")
  BY <1>1, <1>2, <1>4, ReturnReturns DEF RecvBody, Half
<1>6. stages[u] = "accepted"
  BY <1>1, StageNow, StageFacts
<1> QED
  BY <1>5, <1>6 DEF Rpc!Returns, stages

\* With the server gone the call ends without an answer, or the client is lost.
LEMMA NothingReturnsOrLoses ==
  ASSUME NEW u, Ults = {u}, Inv(u), RecvNothing(u)
  PROVE  InStep(u)' /\ (Rpc!Returns(u) \/ Rpc!Lost(u))
<1>1. Dropped(u) /\ stages[u] = "dropped"
  <2>1. Dropped(u)
    BY DEF Inv, InStep, Quiet, Waits, Answered, Half, Dropped, RecvNothing
  <2> QED
    BY <2>1, StageNow, StageFacts
<1>2. CASE call[u].op = "COPY"
  <2>1. UNCHANGED <<pc, call, got, to_muse, to_client, calls>> /\ client' = "lost"
    BY <1>2 DEF RecvNothing, Unanswered
  <2>2. InStep(u)'
    BY <1>1, <2>1, Zenon DEF Inv, InStep, Dropped
  <2>3. stages' = stages
    <3>1. Stage(u)' = Stage(u)
      BY <2>1, StageIsStageOf, Zenon
    <3> QED
      BY <3>1, StageFacts
  <2> QED
    BY <1>1, <2>1, <2>2, <2>3, Zenon DEF Rpc!Lost, RecvNothing, stages
<1>3. CASE call[u].op # "COPY"
  <2>1. Returns(u, "undefined", call[u].id) /\ UNCHANGED client
    BY <1>1, <1>3 DEF RecvNothing, Unanswered, Dropped
  <2>2. InStep(u)' /\ Rpc!Return(u, "undefined")
    BY <1>1, <2>1, ReturnReturns DEF RecvNothing, Dropped
  <2> QED
    BY <1>1, <2>2 DEF Rpc!Returns, RecvNothing, stages
<1> QED
  BY <1>2, <1>3

\* Every step of the connection but an interruption is a step of the procedure call, or
\* changes nothing of it.
LEMMA StepSimulation ==
  ASSUME NEW u, Ults = {u}
  PROVE  Inv(u) /\ ~interrupted' /\ [Next]_vars => InStep(u)' /\ [Rpc!Next]_(Rpc!rpc)
<1> SUFFICES ASSUME Inv(u), ~interrupted', [Next]_vars PROVE InStep(u)' /\ [Rpc!Next]_(Rpc!rpc)
  OBVIOUS
<1> USE DEF Rpc!Next
<1>1. CASE Serve
  BY <1>1, ServeServes
<1>2. CASE Die
  BY <1>2, DieFails
<1>3. CASE Exit \/ Close \/ UNCHANGED vars
  BY <1>3, ExitAndClose
<1>4. ASSUME NEW op \in Ops, Call(u, op) \/ CallNobody(u, op) PROVE InStep(u)' /\ Rpc!Next
  BY <1>4, CallAsks, CallNobodyAsks
<1>5. CASE RecvOpcode(u)
  BY <1>5, OpcodeReturnsOrStays
<1>6. CASE RecvBody(u)
  BY <1>6, BodyReturns
<1>7. CASE RecvNothing(u)
  BY <1>7, NothingReturnsOrLoses
<1>8. ~RecvInterrupted(u)
  BY DEF RecvInterrupted
<1> QED
  BY <1>1, <1>2, <1>3, <1>4, <1>5, <1>6, <1>7, <1>8 DEF Next, Recv

\* An interruption is not undone.
LEMMA InterruptedStays == [Next]_vars /\ interrupted => interrupted'
<1> QED
  BY DEF Next, Recv, Serve, Die, Exit, Close, Call, CallNobody, RecvOpcode, RecvBody,
         RecvNothing, RecvInterrupted, vars

\* So the invariant holds until an interruption, and with it the simulation.
LEMMA UnlessSimulation ==
  ASSUME NEW u, Ults = {u}, Unless(u), [Next]_vars
  PROVE  Unless(u)' /\ [~interrupted' => Rpc!Next]_(Rpc!rpc)
<1>1. CASE interrupted'
  BY <1>1, NextTyped DEF Unless
<1>2. CASE ~interrupted'
  <2>1. Inv(u)
    BY <1>2, InterruptedStays DEF Unless, Inv
  <2> QED
    BY <1>2, <2>1, StepSimulation, NextTyped DEF Unless, Inv
<1> QED
  BY <1>1, <1>2

\* The initial states have the invariant and are initial states of the procedure call.
LEMMA InitSimulation ==
  ASSUME NEW u, Ults = {u}
  PROVE  Init => Unless(u) /\ Rpc!Init
<1> SUFFICES ASSUME Init PROVE Unless(u) /\ Rpc!Init
  OBVIOUS
<1>1. call[u].id = 0 /\ got[u].id = 0 /\ pc[u] = "idle"
  BY DEF Init
<1>2. Quiet(u) /\ Unless(u)
  BY <1>1, InitTyped DEF Init, Quiet, InStep, Unless
<1>3. stages = [c \in Ults |-> "idle"]
  BY <1>2, StageNow DEF stages
<1>4. call \in [Ults -> [op : Ops, id : {0}]]
  BY DEF Init, Ops
<1> QED
  BY <1>2, <1>3, <1>4 DEF Init, Rpc!Init, stages

\* With one ULT the connection is a procedure call until a signal cuts a recv short: a call
\* returns what the server said of that call, at most once, and anything else only after the
\* server's end; nothing is left over for the next call to take (libmuse.c:26-120,
\* muse.c:79-248).
THEOREM OneCallAtATime ==
  ASSUME NEW u, Ults = {u}
  PROVE  Spec => ImplementsRpc
<1>1. Init => Unless(u) /\ Rpc!Init
  BY InitSimulation
<1>2. Unless(u) /\ [Next]_vars => Unless(u)' /\ [~interrupted' => Rpc!Next]_(Rpc!rpc)
  BY UnlessSimulation
<1> QED
  BY <1>1, <1>2, PTL DEF Spec, ImplementsRpc

\* ... and what the last call returned is the answer to that call.  Two ULTs are enough for
\* this to fail without any signal, because the socket is shared and the answers carry no
\* number.
THEOREM OneUltOwnAnswer ==
  ASSUME NEW u, Ults = {u}
  PROVE  Spec => []OwnAnswer
<1>1. Init => Unless(u)
  BY InitSimulation
<1>2. Unless(u) /\ [Next]_vars => Unless(u)'
  BY UnlessSimulation
<1>3. Unless(u) => OwnAnswer
  BY DEF Unless, InStep, Quiet, Waits, Answered, Half, Dropped, OwnAnswer
<1> QED
  BY <1>1, <1>2, <1>3, PTL DEF Spec
===============================================================================
