-------------------------------- MODULE MuseRpc --------------------------------
(***************************************************************************)
(* What the connection to muse promises a caller of libmuse (the comments  *)
(* of libmuse.h): a procedure call.  Each caller has a call of its own,    *)
(* which the server carries out at most once; it returns what the server   *)
(* said of that very call, and anything else only once the server is gone. *)
(* There is no connection here: no opcodes, no bodies, no order.           *)
(***************************************************************************)
EXTENDS Naturals, FiniteSetsExt

CONSTANTS Callers, Ops

VARIABLES stage,    \* "idle", "asked", "accepted", "refused", or "dropped": no answer comes
          call,     \* the call each one is in, or was last in: [op, id]
          result,   \* what its last one returned: [how, id]
          server,   \* "up", "hung", "gone"
          process   \* the callers': "open", "closed", "lost"

rpc == <<stage, call, result, server, process>>

Init == /\ stage = [c \in Callers |-> "idle"]
        /\ call \in [Callers -> [op : Ops, id : {0}]]
        /\ result = [c \in Callers |-> [how |-> "none", id |-> 0]]
        /\ server = "up" /\ process = "open"

\* A call with the next number; with nobody to take it, SIGPIPE may end the process.
Ask(c) == /\ process = "open" /\ stage[c] = "idle"
          /\ \E op \in Ops :
               call' = [call EXCEPT ![c] = [op |-> op, id |-> 1 + Max({call[d].id : d \in Callers})]]
          /\ IF server = "gone"
             THEN process' \in {"open", "lost"} /\ stage' = [stage EXCEPT ![c] = "dropped"]
             ELSE UNCHANGED process /\ stage' = [stage EXCEPT ![c] = "asked"]
          /\ UNCHANGED <<result, server>>

\* The server carries the call out, refuses it (only a free is), or, for a copy, says nothing.
Serve(c) == /\ server = "up" /\ stage[c] = "asked"
            /\ \E end \in {"accepted"} \cup CASE call[c].op = "MEMFREE" -> {"refused"}
                                               [] call[c].op = "COPY" -> {"dropped"}
                                               [] OTHER -> {} :
                 stage' = [stage EXCEPT ![c] = end]
            /\ UNCHANGED <<call, result, server, process>>

\* It ends over a call, or goes round in one.
Fail(c) == /\ server = "up" /\ stage[c] = "asked"
           /\ server' \in {"hung", "gone"}
           /\ stage' = [stage EXCEPT ![c] = "dropped"]
           /\ UNCHANGED <<call, result, process>>

Return(c, how) == /\ process = "open"
                  /\ stage' = [stage EXCEPT ![c] = "idle"]
                  /\ result' = [result EXCEPT ![c] = [how |-> how, id |-> call[c].id]]
                  /\ UNCHANGED <<call, server, process>>

Returns(c) == \/ stage[c] = "accepted" /\ Return(c, "ok")
              \/ stage[c] = "refused" /\ Return(c, "error")
              \/ stage[c] = "dropped" /\ server = "gone" /\ Return(c, "undefined")

\* A caller that waits for an answer from nobody may take the process down.
Lost(c) == /\ stage[c] = "dropped" /\ server = "gone" /\ process = "open"
           /\ process' = "lost"
           /\ UNCHANGED <<stage, call, result, server>>

Close == /\ process = "open"
         /\ \A c \in Callers : stage[c] = "idle"
         /\ process' = "closed"
         /\ UNCHANGED <<stage, call, result, server>>

\* The server ends when the process it serves does.
Ends == /\ process # "open" /\ server = "up"
        /\ server' = "gone"
        /\ UNCHANGED <<stage, call, result, process>>

Next == \/ \E c \in Callers : Ask(c) \/ Serve(c) \/ Fail(c) \/ Returns(c) \/ Lost(c)
        \/ Close \/ Ends

Spec == Init /\ [][Next]_rpc
===============================================================================
