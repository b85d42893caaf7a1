------------------------------- MODULE MCServers -------------------------------
EXTENDS Servers

\* MALLOC (two ints), COPY (with a content of no byte and of two).
MCLibMessages == {[op |-> 1, fields |-> << <<6, 0>>, <<3, 1>> >>],
                  [op |-> 3, fields |-> << <<5, 0>>, <<>> >>],
                  [op |-> 3, fields |-> << <<5, 0>>, <<7, 6>> >>]}

\* One client lists directories, the other reads a file, with small ids.
MCOperations == [c \in Clients |-> IF c = "c1" THEN {[op |-> 17, id |-> 9, path |-> <<6>>]}
                                  ELSE {[op |-> 18, id |-> 5, path |-> <<6, 3>>]}]

\* MALLOC, MEMFREE, COPY, GET have a case in muse, GET_ATTR to RM_DIR in sac_server.
MCCases == [r \in Readers |-> IF r = Lib THEN 1 .. 4 ELSE 16 .. 23]

MCPointers == { <<2, 4>> }
MCGarbage == { <<0, 2>> }
MCThreads == 1 .. 3
MCConns == Clients \cup {Lib}
MCReaders == MCThreads \cup {Lib}
===============================================================================
