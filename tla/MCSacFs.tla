-------------------------------- MODULE MCSacFs --------------------------------
EXTENDS SacFs, TLC

\* A plain name, one of 71 bytes, and two of more that begin with those: what runs over is
\* the number of a node, or that of none.
MCNames == {"a", "full", "longer", "longest"}
CutTo71(n) == "full"
BytesOver(n) == IF n = "longer" THEN {1} ELSE {-1}

\* Directories of the root and of a directory that may be there or not; the 71 bytes under
\* a number whose low byte is not 0, and under the root.
MCPaths == {<<>>, <<"a">>, <<"a", "a">>, <<"a", "full">>, <<"full">>, <<"longer">>, <<"a", "longest">>}

Alike == Permutations(Threads)
===============================================================================
