-------------------------------- MODULE Servers --------------------------------
(***************************************************************************)
(* Who takes packages apart.  muse accepts one connection and its only     *)
(* thread reads it (muse.c).  sac_server accepts as many as come and gives *)
(* each to a detached thread, which takes requests apart, logs them and    *)
(* answers nothing (sac_server.c); on the other side sac_cli sends one     *)
(* request for each operation of FUSE and reports it as done (sac_cli.c,   *)
(* read as if the brace that is missing after line 71 were there).         *)
(***************************************************************************)
EXTENDS Wire

CONSTANTS Clients,        \* the connections of SAC clients
          Lib,            \* libmuse's connection, and the thread of muse that reads it
          Threads,        \* bound: the threads of sac_server, 1 .. n in the order it makes them
          MAX_FD,         \* descriptors sac_server may have, beyond those it starts with
          None,
          LibMessages,    \* what libmuse sends
          Operations,     \* Operations[c]: the [op, id, path] that are sent on c
          Pointers        \* what lies in memory from pathname on: the pointer's own bytes

ASSUME ServersAssumption ==
  /\ Conns = Clients \cup {Lib} /\ Readers = Threads \cup {Lib}
  /\ Lib \notin Clients /\ Lib \notin Threads /\ None \notin Clients
  /\ MAX_FD \in Nat /\ Threads = 1 .. Cardinality(Threads)
  /\ \A c \in Clients : \A o \in Operations[c] : o.op \in Nat /\ o.id \in Nat /\ o.path \in Seq(1 .. B - 1)
  /\ LibMessages \subseteq [op : Nat, fields : Seq(Seq(0 .. B - 1))]
  /\ Pointers \subseteq Seq(0 .. B - 1)
  /\ \A c \in Clients : \A o \in Operations[c], p \in Pointers : Len(p) >= Len(o.path) /\ Len(p) >= 1

VARIABLES backlog,    \* connections that wait to be accepted
          closed,     \* connections whose client has gone
          table,      \* table[fd]: the connection behind a descriptor of sac_server
          cell,       \* cell[r]: the int that accept's result is handed over in
          fd,         \* fd[r]: the thread's copy of it
          server,     \* sac_server is "up", or "dead"
          given       \* ghost: the connection that was accepted for a thread

vars == <<wire, backlog, closed, table, cell, fd, server, given>>
process == <<table, cell, fd, server, given>>

FDs == 1 .. MAX_FD

\* The two programs share nothing: either libmuse or the SAC clients stay away.
Init == /\ sent = [c \in Conns |-> <<>>]
        /\ flight = [c \in Conns |-> <<>>]
        /\ arrived = [c \in Conns |-> <<>>]
        /\ pc = [r \in Readers |-> IF r = Lib THEN "opcode" ELSE "none"]
        /\ \E g \in Garbage : protocol = [r \in Readers |-> g]
        /\ size = [r \in Readers |-> 0]
        /\ received = [r \in Readers |-> <<>>]
        /\ torn = [r \in Readers |-> FALSE]
        /\ backlog = <<>>
        /\ closed \in {Clients, {Lib}}
        /\ table = [f \in FDs |-> None]
        /\ cell = [r \in Threads |-> 0]
        /\ fd = [r \in Threads |-> 0]
        /\ server = "up"
        /\ given = [r \in Threads |-> None]
-------------------------------------------------------------------------------
(* sac_cli, and libmuse *)

READ_DIR == 17
READ == 18

\* The path as utils_serialize_and_send puts it in: whole for READ alone; one byte of the
\* pointer for READ_DIR; else as many bytes as the path has, of the pointer and what follows.
PathField(op, path, pointer) == CASE op = READ_DIR -> SubSeq(pointer, 1, 1)
                                  [] op = READ     -> path \o <<0>>
                                  [] OTHER         -> SubSeq(pointer, 1, Len(path))

Request(o, pointer) ==
  [op |-> o.op, fields |-> <<Bytes(o.id), PathField(o.op, o.path, pointer)>>]

\* The reader r has a case for a message, and its length is that of an int.
Sendable(r, m) == /\ m.op \in Cases[r] /\ m.op < Power[INT]
                  /\ 2 * Len(Fields(m)) < Power[INT]

(* muse and sac_server have a case for all that libmuse and sac_cli send. *)
ASSUME MessagesAssumption ==
  /\ \A m \in LibMessages : Sendable(Lib, m)
  /\ \A c \in Clients : \A o \in Operations[c], p \in Pointers, r \in Threads : Sendable(r, Request(o, p))

Connected(c) == c = Lib \/ (\E i \in DOMAIN backlog : backlog[i] = c) \/ \E f \in FDs : table[f] = c

\* sac_cli_init
Connect(c) == /\ c \in Clients /\ server = "up"
              /\ ~Connected(c) /\ c \notin closed
              /\ backlog' = Append(backlog, c)
              /\ UNCHANGED <<wire, closed, process>>

\* sac_readdir, sac_read, sac_open, sac_getattr, sac_write, sac_rm_directory: 0, whatever
\* becomes of the request.
Operate(c, o) == /\ c \in Clients /\ Connected(c) /\ c \notin closed /\ server = "up"
                 /\ \E p \in Pointers : Send(c, Request(o, p))
                 /\ UNCHANGED <<backlog, closed, process>>

Ask(m) == /\ Lib \notin closed
          /\ Send(Lib, m)
          /\ UNCHANGED <<backlog, closed, process>>

\* A client ends; what it has sent still arrives.
Leave(c) == /\ Connected(c) /\ c \notin closed
            /\ closed' = closed \cup {c}
            /\ UNCHANGED <<wire, backlog, process>>

Arrives(c) == /\ Arrive(c)
              /\ UNCHANGED <<backlog, closed, process>>
-------------------------------------------------------------------------------
(* sac_server: accepting *)

FreeFDs == {f \in FDs : table[f] = None}
NextThread(r) == /\ server = "up" /\ pc[r] = "none"
                 /\ \A s \in Threads : s < r => pc[s] # "none"

\* pthread_create makes the thread, or does not, and nobody asks.
Starts(r) == /\ \E where \in {"start", "never"} : pc' = [pc EXCEPT ![r] = where]
             /\ UNCHANGED <<streams, protocol, size, received, torn>>

\* A slip: one cell for all of them.
OneCell(r, f) == cell' = [s \in Threads |-> f]
HandsOver(r, f) == cell' = [cell EXCEPT ![r] = f]

\* accept takes the first connection and the lowest descriptor.
Accept(r) ==
  /\ NextThread(r) /\ backlog # <<>>
  /\ \E f \in FreeFDs : /\ \A g \in FreeFDs : f <= g
                        /\ table' = [table EXCEPT ![f] = Head(backlog)]
                        /\ HandsOver(r, f)
  /\ given' = [given EXCEPT ![r] = Head(backlog)]
  /\ backlog' = Tail(backlog)
  /\ Starts(r)
  /\ UNCHANGED <<closed, fd, server>>

\* Without a free descriptor accept fails at once, and -1 gets a thread too.
AcceptFails(r) == /\ NextThread(r) /\ FreeFDs = {}
                  /\ HandsOver(r, -1)
                  /\ Starts(r)
                  /\ UNCHANGED <<backlog, closed, table, fd, server, given>>
-------------------------------------------------------------------------------
(* handle_connection *)

\* int fd = *((int *) arg); free(arg);
Begin(r) == /\ server = "up" /\ pc[r] = "start"
            /\ fd' = [fd EXCEPT ![r] = cell[r]]
            /\ cell' = [cell EXCEPT ![r] = 0]
            /\ pc' = [pc EXCEPT ![r] = "opcode"]
            /\ UNCHANGED <<streams, protocol, size, received, torn, backlog, closed, table, server, given>>

Serves(r, c) == IF r = Lib THEN c = Lib ELSE server = "up" /\ fd[r] \in FDs /\ table[fd[r]] = c

\* recv returns 0, the client being gone, or -1: the thread ends, and the descriptor stays
\* open.  (muse exits.)
AtEnd(c) == c \in closed /\ flight[c] = <<>> /\ arrived[c] = <<>>
Ends(r) == /\ pc[r] = "opcode"
           /\ \/ r # Lib /\ server = "up" /\ fd[r] = -1
              \/ \E c \in Conns : Serves(r, c) /\ AtEnd(c)
           /\ pc' = [pc EXCEPT ![r] = "ended"]
           /\ UNCHANGED <<streams, protocol, size, received, torn, backlog, closed, process>>

\* The path is copied to where pathname points, which malloc left as it was: the process
\* dies of it, or it does not.
CopiesPath(r) ==
  IF r # Lib /\ received' # received THEN server' \in {"up", "dead"} ELSE server' = server

\* Nothing is known of a reader that an opcode came to in two pieces, and it is followed no
\* further.
Receives(r) == /\ ~torn[r]
               /\ \E c \in Conns : Serves(r, c) /\ Reads(r, c)
               /\ CopiesPath(r)
               /\ UNCHANGED <<backlog, closed, table, cell, fd, given>>

Next == \/ \E c \in Clients : Connect(c) \/ \E o \in Operations[c] : Operate(c, o)
        \/ \E m \in LibMessages : Ask(m)
        \/ \E c \in Conns : Leave(c) \/ Arrives(c)
        \/ \E r \in Threads : Accept(r) \/ AcceptFails(r) \/ Begin(r)
        \/ \E r \in Readers : Receives(r) \/ Ends(r)

Spec == Init /\ [][Next]_vars

\* TCP delivers, the listener accepts and the threads run: one of them goes on while any can.
Goes == \/ \E c \in Conns : Arrives(c)
        \/ \E r \in Threads : Accept(r) \/ Begin(r)
        \/ \E r \in Readers : Receives(r)

FairSpec == Spec /\ WF_vars(Goes)
-------------------------------------------------------------------------------
(* Properties *)

ByteSeqs == Seq(0 .. B - 1)

TypeOK ==
  /\ sent \in [Conns -> Seq([op : Nat, fields : Seq(ByteSeqs)])]
  /\ flight \in [Conns -> ByteSeqs] /\ arrived \in [Conns -> ByteSeqs]
  /\ pc \in [Readers -> {"none", "never", "start", "opcode", "size", "buffer", "ended", "lost"}]
  /\ protocol \in [Readers -> [1 .. INT -> 0 .. B - 1]]
  /\ size \in [Readers -> -Power[INT] .. Power[INT]]
  /\ received \in [Readers -> Seq([op : Nat, fields : Seq(ByteSeqs)])]
  /\ torn \in [Readers -> BOOLEAN]
  /\ backlog \in Seq(Clients) /\ closed \subseteq Conns
  /\ table \in [FDs -> Clients \cup {None}]
  /\ cell \in [Threads -> {-1} \cup 0 .. MAX_FD] /\ fd \in [Threads -> {-1} \cup 0 .. MAX_FD]
  /\ server \in {"up", "dead"}
  /\ given \in [Threads -> Clients \cup {None}]

Running(r) == pc[r] \in {"opcode", "size", "buffer"}

\* A thread reads the connection that was accepted for it, as long as it runs, and no other
\* thread does: the int it is handed (sac_server.c:80-86, 97-98) is its own, and no
\* descriptor comes back to be somebody else's.
OwnConnection ==
  \A r \in Threads : Running(r) =>
    /\ IF fd[r] = -1 THEN given[r] = None ELSE given[r] = table[fd[r]] /\ given[r] # None
    /\ \A s \in Threads \ {r} : Running(s) /\ fd[r] # -1 => fd[s] # fd[r]

\* The connection c is for the reader r to read, and what was sent on it.
For(c, r) == IF r = Lib THEN c = Lib ELSE given[r] = c
SentTo(r) == IF r = Lib THEN sent[Lib] ELSE IF given[r] = None THEN <<>> ELSE sent[given[r]]

\* However the bytes of all connections are cut and interleaved, a reader takes apart the
\* messages of its own connection, whole, in the order they were sent, as long as no opcode
\* is cut (utils.c:427-459, sac_server.c:100-166, muse.c:42-50).
Delivered == \A r \in Readers : ~torn[r] => IsPrefix(received[r], SentTo(r)) /\ pc[r] # "lost"

\* A request that a client was told is done is taken apart in the end (sac_cli.c:96-97 and
\* the like), unless the opcode was cut, sac_server is dead, its thread could
\* not be made, or the descriptors have run out.
Excused(c) == \/ c # Lib /\ server = "dead"
              \/ \E r \in Readers : For(c, r) /\ torn[r]
              \/ \E r \in Readers : For(c, r) /\ pc[r] = "never"
              \/ c # Lib /\ FreeFDs = {} /\ \A f \in FDs : table[f] # c
Handled(c) == sent[c] = <<>> \/ \E r \in Readers : For(c, r) /\ received[r] = sent[c]

AllArrive == []<>(\A c \in Conns : Handled(c) \/ Excused(c))
===============================================================================
