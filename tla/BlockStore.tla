----------------------------- MODULE BlockStore -----------------------------
(***************************************************************************)
(* What bio.c promises: bread() returns a block locked and with what was   *)
(* last written to it, until brelse().                                     *)
(***************************************************************************)
EXTENDS Naturals

CONSTANTS Block, Value, Proc, NoProc

VARIABLES
    content,   \* the last value written to each block
    holder     \* the process that has the block locked

vars == <<content, holder>>

Init ==
    /\ content \in [Block -> Value]
    /\ holder = [k \in Block |-> NoProc]

Acquire(p, k) ==
    /\ holder[k] = NoProc
    /\ holder' = [holder EXCEPT ![k] = p]
    /\ UNCHANGED content

Write(p, k, v) ==
    /\ holder[k] = p
    /\ content' = [content EXCEPT ![k] = v]
    /\ UNCHANGED holder

Release(p, k) ==
    /\ holder[k] = p
    /\ holder' = [holder EXCEPT ![k] = NoProc]
    /\ UNCHANGED content

Next ==
    \E p \in Proc, k \in Block :
        Acquire(p, k) \/ (\E v \in Value : Write(p, k, v)) \/ Release(p, k)

Spec == Init /\ [][Next]_vars
=============================================================================
