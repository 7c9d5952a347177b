--------------------------- MODULE MCRegistryFile ---------------------------
(* Small instances of RegistryFile for TLC.                                *)
EXTENDS RegistryFile, TLC

\* Prints differ in nothing but their name.
PrintSymmetry == Permutations(Prints)
=============================================================================
