----------------------------- MODULE MuseSession -----------------------------
(***************************************************************************)
(* A client of muse: the ULTs of one process, which share the socket       *)
(* muse_fd, the two directions of the connection, and the server's loop.   *)
(* A reply travels as an opcode and, if it is a package, a body; a ULT     *)
(* takes them with two calls to recv, and the alarm of hilolay may hand    *)
(* the processor over before either, or cut one short.  What a handler     *)
(* computes is left out: it answers, answers nothing, dies, or never comes *)
(* back.                                                                   *)
(***************************************************************************)
EXTENDS Integers, Sequences

CONSTANTS Ults,       \* the threads of the client that call libmuse
          MaxCalls    \* bound: calls they make

ASSUME SessionAssumption == MaxCalls \in Nat

VARIABLES pc,         \* what each ULT does: "idle", "opcode", "body"
          call,       \* the call it is in, or was last in: [op, id]
          got,        \* what the last one returned: [how, id]
          to_muse,    \* requests on their way
          to_client,  \* parts of replies on their way: [part, op, id]
          muse,       \* "up", "hung", "gone"
          client,     \* "open", "closed", "lost" (killed, or reading garbage)
          calls,      \* for the bound
          interrupted \* ghost: a signal has cut a recv short

vars == <<pc, call, got, to_muse, to_client, muse, client, calls, interrupted>>

Ops == {"MALLOC", "MEMFREE", "GET", "COPY"}

Init == /\ pc = [u \in Ults |-> "idle"]
        /\ call = [u \in Ults |-> [op |-> "MALLOC", id |-> 0]]
        /\ got = [u \in Ults |-> [how |-> "none", id |-> 0]]
        /\ to_muse = <<>> /\ to_client = <<>>
        /\ muse = "up" /\ client = "open"
        /\ calls = 0
        /\ interrupted = FALSE
-------------------------------------------------------------------------------
(* The server *)

Opcode(op, r) == [part |-> "opcode", op |-> op, id |-> r.id]
Body(r) == [part |-> "body", op |-> "none", id |-> r.id]

\* A slip: COPY has a reply of its own, which nobody serializes.
CopyResponses(r) ==
  CASE r.op = "MALLOC"  -> { <<Opcode("MALLOC_OK", r), Body(r)>> }
    [] r.op = "COPY"    -> { <<Opcode("COPY_RESPONSE", r), Body(r)>> }
    [] OTHER            -> { <<Opcode("GET_OK", r), Body(r)>> }

\* A slip: free answers nothing on an error.
SilentReplies(r) ==
  CASE r.op = "MALLOC"  -> { <<Opcode("MALLOC_OK", r), Body(r)>> }
    [] r.op = "MEMFREE" -> { <<Opcode("FREE_RESPONSE", r), Body(r)>>, <<>> }
    [] OTHER            -> { <<Opcode("GET_OK", r), Body(r)>> }

\* utils_package_send_to sends an opcode and a body; MEMFREE's SEG_FAULT is a bare send;
\* COPY's SEG_FAULT has no case in utils_serialize_and_send.
Replies(r) ==
  CASE r.op = "MALLOC"  -> { <<Opcode("MALLOC_OK", r), Body(r)>> }
    [] r.op = "MEMFREE" -> { <<Opcode("FREE_RESPONSE", r), Body(r)>>, <<Opcode("SEG_FAULT", r)>> }
    [] r.op = "GET"     -> { <<Opcode("GET_OK", r), Body(r)>> }
    [] r.op = "COPY"    -> { <<Opcode("GET_OK", r), Body(r)>>, <<>> }

\* One turn of the loop of muse_server_init.
Serve == /\ muse = "up"
         /\ to_muse # <<>>
         /\ \E reply \in Replies(Head(to_muse)) : to_client' = to_client \o reply
         /\ to_muse' = Tail(to_muse)
         /\ UNCHANGED <<pc, call, got, muse, client, calls, interrupted>>

\* The handler walks out of the arena, or in a circle (MALLOC, MEMFREE).
Die == /\ muse = "up"
       /\ to_muse # <<>>
       /\ \/ muse' = "gone"
          \/ Head(to_muse).op \in {"MALLOC", "MEMFREE"} /\ muse' = "hung"
       /\ to_muse' = Tail(to_muse)
       /\ UNCHANGED <<pc, call, got, to_client, client, calls, interrupted>>

\* recv returns 0: exit(1).
Exit == /\ muse = "up"
        /\ client # "open"
        /\ to_muse = <<>>
        /\ muse' = "gone"
        /\ UNCHANGED <<pc, call, got, to_muse, to_client, client, calls, interrupted>>
-------------------------------------------------------------------------------
(* libmuse *)

\* A slip: muse_free does not wait.
CallAndForget(u, op) ==
  /\ client = "open" /\ muse # "gone"
  /\ pc[u] = "idle"
  /\ calls < MaxCalls
  /\ calls' = calls + 1
  /\ call' = [call EXCEPT ![u] = [op |-> op, id |-> calls + 1]]
  /\ to_muse' = Append(to_muse, call'[u])
  /\ pc' = [pc EXCEPT ![u] = IF op = "MEMFREE" THEN "idle" ELSE "opcode"]
  /\ got' = IF op = "MEMFREE" THEN [got EXCEPT ![u] = [how |-> "ok", id |-> calls + 1]] ELSE got
  /\ UNCHANGED <<to_client, muse, client, interrupted>>

\* A ULT calls muse_alloc, muse_free, muse_get or muse_cpy, which send a request and wait.
Call(u, op) ==
  /\ client = "open" /\ muse # "gone"
  /\ pc[u] = "idle"
  /\ calls < MaxCalls
  /\ calls' = calls + 1
  /\ call' = [call EXCEPT ![u] = [op |-> op, id |-> calls + 1]]
  /\ to_muse' = Append(to_muse, call'[u])
  /\ pc' = [pc EXCEPT ![u] = "opcode"]
  /\ UNCHANGED <<got, to_client, muse, client, interrupted>>

\* With the server gone the request is lost, or SIGPIPE ends the process.
CallNobody(u, op) ==
  /\ client = "open" /\ muse = "gone"
  /\ pc[u] = "idle"
  /\ calls < MaxCalls
  /\ calls' = calls + 1
  /\ call' = [call EXCEPT ![u] = [op |-> op, id |-> calls + 1]]
  /\ pc' = [pc EXCEPT ![u] = "opcode"]
  /\ client' \in {"open", "lost"}
  /\ UNCHANGED <<got, to_muse, to_client, muse, interrupted>>

Returns(u, how, id) == /\ pc' = [pc EXCEPT ![u] = "idle"]
                       /\ got' = [got EXCEPT ![u] = [how |-> how, id |-> id]]

\* The opcodes after which a function returns at once: for muse_free any but
\* FREE_RESPONSE; for muse_alloc and muse_get SEG_FAULT, and then what they return for
\* an opcode they do not know is undefined.
Short(op, answer) == CASE op = "MEMFREE" -> answer # "FREE_RESPONSE"
                       [] op = "MALLOC"  -> answer # "MALLOC_OK"
                       [] op = "GET"     -> answer # "GET_OK"
                       [] op = "COPY"    -> FALSE

\* A body taken for an opcode; or muse_cpy gets SEG_FAULT, for which nothing is
\* deserialized, and follows NULL.
Unreadable(op, part) == \/ part.part = "body"
                        \/ op = "COPY" /\ part.op = "SEG_FAULT"

RecvOpcode(u) ==
  LET part == Head(to_client)
  IN /\ client = "open"
     /\ pc[u] = "opcode"
     /\ to_client # <<>>
     /\ to_client' = Tail(to_client)
     /\ CASE Unreadable(call[u].op, part) -> client' = "lost" /\ UNCHANGED <<pc, got>>
          [] ~Unreadable(call[u].op, part) /\ Short(call[u].op, part.op) ->
               /\ Returns(u, IF part.op = "SEG_FAULT" THEN "error" ELSE "undefined", part.id)
               /\ UNCHANGED client
          [] OTHER -> pc' = [pc EXCEPT ![u] = "body"] /\ UNCHANGED <<got, client>>
     /\ UNCHANGED <<call, to_muse, muse, calls, interrupted>>

\* utils_receive_package
RecvBody(u) ==
  LET part == Head(to_client)
  IN /\ client = "open"
     /\ pc[u] = "body"
     /\ to_client # <<>>
     /\ to_client' = Tail(to_client)
     /\ IF part.part = "opcode" THEN client' = "lost" /\ UNCHANGED <<pc, got>>
        ELSE Returns(u, "ok", part.id) /\ UNCHANGED client
     /\ UNCHANGED <<call, to_muse, muse, calls, interrupted>>

\* recv returns 0 or -1, which nobody looks at: the opcode is still the one that was sent.
\* muse_alloc and muse_get fall off their switch, muse_free returns, muse_cpy goes on to
\* read a package into variables that nothing has set, as does a body that is cut short.
Unanswered(u) ==
  IF pc[u] = "body" \/ call[u].op = "COPY"
  THEN client' = "lost" /\ UNCHANGED <<pc, got>>
  ELSE Returns(u, "undefined", call[u].id) /\ UNCHANGED client

RecvNothing(u) ==
  /\ client = "open"
  /\ pc[u] # "idle"
  /\ to_client = <<>> /\ muse = "gone"
  /\ Unanswered(u)
  /\ UNCHANGED <<call, to_muse, to_client, muse, calls, interrupted>>

\* In a program with hilolay the alarm interrupts the recv that waits (EINTR: its handler is
\* installed without SA_RESTART); what it waited for may still be on its way.
RecvInterrupted(u) ==
  /\ client = "open"
  /\ pc[u] # "idle"
  /\ Unanswered(u)
  /\ interrupted' = TRUE
  /\ UNCHANGED <<call, to_muse, to_client, muse, calls>>

\* muse_close
Close == /\ client = "open"
         /\ \A u \in Ults : pc[u] = "idle"
         /\ client' = "closed"
         /\ UNCHANGED <<pc, call, got, to_muse, to_client, muse, calls, interrupted>>

Recv(u) == RecvOpcode(u) \/ RecvBody(u) \/ RecvNothing(u)

Next == \/ Serve \/ Die \/ Exit \/ Close
        \/ \E u \in Ults : Recv(u) \/ RecvInterrupted(u) \/ \E op \in Ops : Call(u, op) \/ CallNobody(u, op)

Spec == Init /\ [][Next]_vars

\* The server reads what is sent to it, and the alarm gives every ULT its turn.
FairSpec == Spec /\ WF_vars(Serve \/ Die) /\ \A u \in Ults : WF_vars(Recv(u))
-------------------------------------------------------------------------------
(* Properties *)

Requests == [op : Ops, id : 1 .. MaxCalls]
Parts == [part : {"opcode", "body"},
          op : {"none", "MALLOC_OK", "FREE_RESPONSE", "GET_OK", "SEG_FAULT"}, id : 1 .. MaxCalls]

TypeOK == /\ pc \in [Ults -> {"idle", "opcode", "body"}]
          /\ call \in [Ults -> [op : Ops, id : 0 .. MaxCalls]]
          /\ got \in [Ults -> [how : {"none", "ok", "error", "undefined"}, id : 0 .. MaxCalls]]
          /\ to_muse \in Seq(Requests)
          /\ to_client \in Seq(Parts)
          /\ muse \in {"up", "hung", "gone"}
          /\ client \in {"open", "closed", "lost"}
          /\ calls \in 0 .. MaxCalls
          /\ interrupted \in BOOLEAN

\* Until a signal cuts a recv short, a call returns the answer to its own request.
OwnAnswer == interrupted \/ \A u \in Ults : pc[u] = "idle" => got[u].id = call[u].id

\* What the connection holds of a ULT's last call.
Asked(u) == \E i \in DOMAIN to_muse : to_muse[i].id = call[u].id
Reply(u) == {to_client[i].part : i \in {j \in DOMAIN to_client : to_client[j].id = call[u].id}}
Stage(u) == CASE Asked(u) -> "asked"
              [] ~Asked(u) /\ "body" \in Reply(u) -> "accepted"
              [] ~Asked(u) /\ Reply(u) = {"opcode"} -> "refused"
              [] OTHER -> IF pc[u] = "idle" THEN "idle" ELSE "dropped"

Rpc == INSTANCE MuseRpc WITH Callers <- Ults, stage <- [u \in Ults |-> Stage(u)],
                             result <- got, server <- muse, process <- client

\* With one ULT, and until a signal cuts a recv short, the two streams of parts are a
\* procedure call: whatever the server does to a request, the call returns what it said of
\* this request and of no other, at most once, and a result nobody sent only after the
\* server's end; nothing is left over that the next call would take for its answer, and while
\* the server lives the stream is read where a reply begins (libmuse.c:26-120, muse.c:79-248).
ImplementsRpc == Rpc!Init /\ [][~interrupted' => Rpc!Next]_(Rpc!rpc)

\* A call returns, interrupted or not, if the server does not hang and the client is not lost.
Over(u) == pc[u] = "idle" \/ muse = "hung" \/ client = "lost"
CallReturns == \A u \in Ults : pc[u] # "idle" /\ call[u].op # "COPY" ~> Over(u)

\* So does muse_cpy (libmuse.h:70: -1 if there is an error).
CpyReturns == \A u \in Ults : pc[u] # "idle" /\ call[u].op = "COPY" ~> Over(u)
===============================================================================
