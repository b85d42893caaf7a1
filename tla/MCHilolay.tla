------------------------------ MODULE MCHilolay -------------------------------
EXTENDS Hilolay
===============================================================================
