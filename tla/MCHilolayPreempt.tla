--------------------------- MODULE MCHilolayPreempt ---------------------------
EXTENDS HilolayPreempt
===============================================================================
