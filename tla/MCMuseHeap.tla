------------------------------ MODULE MCMuseHeap ------------------------------
EXTENDS MuseHeap, TLC

\* Processes are told apart by their ids alone.
Alike == Permutations(Pids)

\* In pages of 32 bytes: two bytes, cut from what a segment has left; a block of one page,
\* with room for a second and without; one of three pages, and one of all the arena; one
\* whose sum with the header wraps to no page, one to a negative number and so to a page that
\* has more than a page left, and one to a byte.
SomeSizes == {2, 10, 20, 60, 100, 4040, 4090, 4092}

\* 30 bytes out of 33 that are left, as 2 out of the 3 that are left when client-tests.c
\* has taken 200 (pages of 32).
TightSizes == {10, 30}
===============================================================================
