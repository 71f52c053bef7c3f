------------------------------- MODULE MCLog --------------------------------
(* Log for TLC: blocks, values and the threads other than InitOp are        *)
(* interchangeable.                                                         *)
EXTENDS LogInv, TLC

LogSymmetry == Permutations(Block) \cup Permutations(Value)
                   \cup Permutations(Op \ {InitOp})
=============================================================================
