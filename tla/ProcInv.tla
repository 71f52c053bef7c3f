------------------------------ MODULE ProcInv -------------------------------
(***************************************************************************)
(* The inductive invariant of Proc: what ptable.lock protects, who may     *)
(* touch a slot without it, and how slots, parents and pids fit together.  *)
(***************************************************************************)
EXTENDS Proc

\* States of a process that can still run.
Live == {"SLEEPING", "RUNNABLE", "RUNNING"}

InFork(p) == pc[p] \in {"forked", "filled"}

\* scheduler(), sched(): the lock belongs to the scheduler while it picks; the
\* thread a CPU runs without the lock is RUNNING, and no other thread is.
CpuInv ==
    /\ lock # NoCpu => sched[lock] \in {"pick", "run"}
    /\ \A c \in CPU :
        /\ sched[c] # "run" => cproc[c] = NoProc
        /\ sched[c] = "pick" => lock = c
        /\ sched[c] = "run" =>
            /\ cproc[c] \in Slot
            /\ state[cproc[c]] \in Live \cup {"ZOMBIE"}
            /\ lock # c => state[cproc[c]] = "RUNNING" /\ pc[cproc[c]] # "wait"
    /\ OneCpuPerProcess

\* fork(): the slot it fills is EMBRYO, is its own, and has no parent until
\* it has been filled.
ForkInv ==
    /\ \A p \in Slot : InFork(p) =>
        /\ state[p] \in {"RUNNABLE", "RUNNING"}
        /\ np[p] \in Slot /\ np[p] # initproc
        /\ state[np[p]] = "EMBRYO"
        /\ parent[np[p]] = IF pc[p] = "filled" THEN p ELSE NoProc
        /\ pc[p] = "filled" => kstack[np[p]]
        /\ pc[np[p]] = "user"
    /\ \A p, q \in Slot : InFork(p) /\ InFork(q) /\ np[p] = np[q] => p = q
    /\ \A q \in Slot : state[q] = "EMBRYO" =>
        \E p \in Slot : InFork(p) /\ np[p] = q
    /\ \A q \in Slot : state[q] = "UNUSED" => parent[q] = NoProc

\* exit(), wait(): the family tree and what a process in use owns.
TreeInv ==
    /\ state[initproc] \in Live /\ parent[initproc] = NoProc
    /\ \A p \in Slot :
        /\ parent[p] # p
        /\ state[p] \in Live \cup {"ZOMBIE"} => kstack[p]
        /\ state[p] = "SLEEPING" => pc[p] = "wait"
    /\ ParentCanWait
    /\ WaiterHasReason

\* allocproc(): pids are used once, also those left behind by a failed fork().
PidInv ==
    /\ \A p \in Slot : pid[p] < nextpid /\ (state[p] # "UNUSED" => pid[p] # 0)
    /\ \A p, q \in Slot : pid[p] = pid[q] /\ pid[p] # 0 => p = q

\* scheduler(): nothing the other CPUs do without the lock changes the total
\* between the draw and the second scan.
DrawInv ==
    \A c \in CPU : sched[c] = "pick" => winner[c] < totalTickets

\* proc.c: CPUs, locks, slots, families, pids and the draw fit together at every
\* moment, inside the critical sections of ptable.lock and outside of them.
ProcInvariant == TypeOK /\ CpuInv /\ ForkInv /\ TreeInv /\ PidInv /\ DrawInv
=============================================================================
