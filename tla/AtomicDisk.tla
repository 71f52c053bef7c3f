----------------------------- MODULE AtomicDisk -----------------------------
(***************************************************************************)
(* What log.c promises to the file system: a store of blocks on which      *)
(* operations run concurrently.  Their writes are seen at once, become     *)
(* durable all together at a moment when no operation is in progress, and  *)
(* a crash takes the disk back to the last such moment.                    *)
(***************************************************************************)
CONSTANTS
    Block,   \* block numbers
    Value,   \* contents of a block
    Op       \* threads that run file system operations

VARIABLES
    store,   \* what survives a crash
    view,    \* what a read returns
    active   \* the threads between begin_op() and end_op()

vars == <<store, view, active>>

Init ==
    /\ store \in [Block -> Value]
    /\ view = store
    /\ active = {}

Begin(p) ==
    /\ p \notin active
    /\ active' = active \cup {p}
    /\ UNCHANGED <<store, view>>

Write(p, b, v) ==
    /\ p \in active
    /\ view' = [view EXCEPT ![b] = v]
    /\ UNCHANGED <<store, active>>

End(p) ==
    /\ p \in active
    /\ active' = active \ {p}
    /\ UNCHANGED <<store, view>>

Commit ==
    /\ active = {}
    /\ store' = view
    /\ UNCHANGED <<view, active>>

Crash ==
    /\ view' = store
    /\ active' = {}
    /\ UNCHANGED store

Next ==
    \/ \E p \in Op : Begin(p) \/ End(p)
    \/ \E p \in Op, b \in Block, v \in Value : Write(p, b, v)
    \/ Commit
    \/ Crash

Spec == Init /\ [][Next]_vars
=============================================================================
