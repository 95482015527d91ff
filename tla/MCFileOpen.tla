----------------------------- MODULE MCFileOpen -----------------------------
(* Small instance: two threads on one file, and as many handles as one call *)
(* each and the FILEs of both can hold.                                     *)
EXTENDS FileOpen, TLC

Symmetry == Permutations(Handle)
=============================================================================
