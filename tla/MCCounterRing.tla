--------------------------- MODULE MCCounterRing ----------------------------
(* A small instance of CounterRing for TLC.                                *)
EXTENDS CounterRing
=============================================================================
