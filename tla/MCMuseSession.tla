---------------------------- MODULE MCMuseSession ----------------------------
EXTENDS MuseSession

\* A program without ULTs, and one with two.
OneThread == {"main"}
TwoThreads == {"main", "ult"}
===============================================================================
