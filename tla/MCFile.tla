------------------------------- MODULE MCFile -------------------------------
(* Instances of File for TLC.                                              *)
EXTENDS File, TLC

FileSymmetry == Permutations(Proc)
=============================================================================
