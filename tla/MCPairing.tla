----------------------------- MODULE MCPairing ------------------------------
(* A small instance of Pairing for TLC.                                    *)
EXTENDS Pairing, TLC

\* No flow tells one key, or one value of a PCR, from another.
Symmetry == Permutations(Keys) \cup Permutations(Values)
=============================================================================
