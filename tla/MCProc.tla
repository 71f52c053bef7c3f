------------------------------- MODULE MCProc -------------------------------
(* Proc for TLC: the CPUs are interchangeable, the slots are not (the scans *)
(* of proc.c go through them in order).                                     *)
EXTENDS ProcInv, TLC

\* One argument sys_settickets rejects, the minimum, and one above it.
MCTicketArgs == {-1, 1, 2}

CpuSymmetry == Permutations(CPU)
=============================================================================
