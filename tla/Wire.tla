--------------------------------- MODULE Wire ---------------------------------
(***************************************************************************)
(* The packages of shared-common on TCP connections.  A package is an      *)
(* opcode, the size of what follows, and fields that each carry their      *)
(* size.  TCP hands the bytes over in pieces of any length; the opcode is  *)
(* read with a plain recv, which takes what is there, the rest with        *)
(* MSG_WAITALL, which waits.  An int is INT bytes of base B, little end    *)
(* first (4 and 256 in the code).                                          *)
(*                                                                         *)
(* This module has the actions; Servers says who takes them.               *)
(***************************************************************************)
EXTENDS Integers, SequencesExt

CONSTANTS INT, B,
          Conns,        \* the connections
          Readers,      \* the threads that take packages apart
          Cases,        \* Cases[r]: the opcodes r's switch has a case for
          Garbage,      \* what an int may hold that nobody has set
          MaxSent       \* bound: messages sent

ASSUME WireAssumption ==
  /\ INT \in Nat \ {0} /\ B \in Nat \ {0, 1} /\ MaxSent \in Nat
  /\ Cases \in [Readers -> SUBSET Nat]
  /\ Garbage \subseteq [1 .. INT -> 0 .. B - 1]

VARIABLES sent,        \* sent[c]: the messages [op, fields] sent on c; a field is its bytes
          flight,      \* flight[c]: bytes on their way
          arrived,     \* arrived[c]: bytes that recv can take
          pc,          \* pc[r]: where the reader is: "opcode", "size", "buffer", or "lost"
          protocol,    \* protocol[r]: the opcode variable, which keeps its bytes between reads
          size,        \* size[r]: utils_receive_buffer's size
          received,    \* received[r]: the messages taken apart
          torn         \* torn[r]: a recv of an opcode came back with less than an int

streams == <<sent, flight, arrived>>
readers == <<pc, protocol, size, received, torn>>
wire == <<streams, readers>>

\* What a byte stands for by its place, and the number of ints.
Power[i \in 0 .. INT] == IF i = 0 THEN 1 ELSE B * Power[i - 1]

\* A slip: the higher digits stay in.
BytesUncut(n) == [i \in 1 .. INT |-> n \div Power[i - 1]]
Bytes(n) == [i \in 1 .. INT |-> (n \div Power[i - 1]) % B]
Number(s) == LET from[i \in 1 .. Len(s) + 1] == IF i > Len(s) THEN 0 ELSE s[i] + (B * from[i + 1])
             IN from[1]
Signed(n) == IF 2 * n < Power[INT] THEN n ELSE n - Power[INT]

\* utils_package_add, field after field.
Fields(m) == FlattenSeq([i \in DOMAIN m.fields |-> Bytes(Len(m.fields[i])) \o m.fields[i]])

\* A slip: the header of the package is counted as one int.
PackageCutShort(m) ==
  SubSeq(Bytes(m.op) \o Bytes(Len(Fields(m))) \o Fields(m), 1, INT + Len(Fields(m)))

\* utils_package_send_to
Package(m) == Bytes(m.op) \o Bytes(Len(Fields(m))) \o Fields(m)

SentInAll == FoldFunction(LAMBDA q, n : n + Len(q), 0, sent)

Send(c, m) == /\ SentInAll < MaxSent
              /\ sent' = [sent EXCEPT ![c] = Append(@, m)]
              /\ flight' = [flight EXCEPT ![c] = @ \o Package(m)]
              /\ UNCHANGED <<arrived, readers>>

\* A byte arrives; between two reads any number of them may.
Arrive(c) == /\ flight[c] # <<>>
             /\ arrived' = [arrived EXCEPT ![c] = Append(@, Head(flight[c]))]
             /\ flight' = [flight EXCEPT ![c] = Tail(@)]
             /\ UNCHANGED <<sent, readers>>

Take(c, n) == /\ arrived' = [arrived EXCEPT ![c] = SubSeq(@, n + 1, Len(@))]
              /\ UNCHANGED <<sent, flight>>

\* recv(fd, &protocol, sizeof(int), 0); an opcode without a case is passed over.
RecvOpcode(r, c) ==
  LET n == IF Len(arrived[c]) < INT THEN Len(arrived[c]) ELSE INT
      p == SubSeq(arrived[c], 1, n) \o SubSeq(protocol[r], n + 1, INT)
  IN /\ pc[r] = "opcode"
     /\ arrived[c] # <<>>
     /\ Take(c, n)
     /\ protocol' = [protocol EXCEPT ![r] = p]
     /\ torn' = [torn EXCEPT ![r] = @ \/ n < INT]
     /\ pc' = [pc EXCEPT ![r] = IF Number(p) \in Cases[r] THEN "size" ELSE "opcode"]
     /\ UNCHANGED <<size, received>>

\* utils_receive_buffer: the size, then as many bytes.
RecvSize(r, c) ==
  LET n == Signed(Number(SubSeq(arrived[c], 1, INT)))
  IN /\ pc[r] = "size"
     /\ Len(arrived[c]) >= INT
     /\ Take(c, INT)
     /\ size' = [size EXCEPT ![r] = n]
     /\ pc' = [pc EXCEPT ![r] = IF n >= 0 THEN "buffer" ELSE "lost"]
     /\ UNCHANGED <<protocol, received, torn>>

\* utils_receive_package: the fields of a buffer, or "lost" when they run past it.
Parsed(b) ==
  LET length(k) == Number(SubSeq(b, k + 1, k + INT))
      from[k \in 0 .. Len(b)] ==
        LET next == k + INT + length(k)
        IN IF k = Len(b) THEN [ok |-> TRUE, fields |-> <<>>]
           ELSE IF Len(b) < k + INT \/ Len(b) < next THEN [ok |-> FALSE, fields |-> <<>>]
           ELSE [ok |-> from[next].ok,
                 fields |-> <<SubSeq(b, k + INT + 1, next)>> \o from[next].fields]
  IN from[0]

\* The bytes b, taken from c, are taken apart.
TakesApart(r, c, b) ==
  LET parsed == Parsed(b)
  IN /\ Take(c, Len(b))
     /\ pc' = [pc EXCEPT ![r] = IF parsed.ok THEN "opcode" ELSE "lost"]
     /\ received' = [received EXCEPT ![r] =
                       IF parsed.ok THEN Append(@, [op |-> Number(protocol[r]), fields |-> parsed.fields])
                       ELSE @]
     /\ UNCHANGED <<protocol, size, torn>>

\* A slip: the buffer is read without MSG_WAITALL.
RecvBufferAtOnce(r, c) ==
  /\ pc[r] = "buffer"
  /\ arrived[c] # <<>>
  /\ TakesApart(r, c, SubSeq(arrived[c], 1, IF Len(arrived[c]) < size[r] THEN Len(arrived[c]) ELSE size[r]))

RecvBuffer(r, c) == /\ pc[r] = "buffer"
                    /\ Len(arrived[c]) >= size[r]
                    /\ TakesApart(r, c, SubSeq(arrived[c], 1, size[r]))

Reads(r, c) == RecvOpcode(r, c) \/ RecvSize(r, c) \/ RecvBuffer(r, c)
===============================================================================
