-------------------------------- MODULE Proc --------------------------------
(***************************************************************************)
(* The process table of proc.c: fork, exit, wait, kill, yield, settickets  *)
(* and the per-CPU lottery scheduler, with ptable.lock and the hand-over   *)
(* of that lock across swtch() modelled explicitly.                        *)
(*                                                                         *)
(* A critical section of ptable.lock that neither gives up the CPU nor     *)
(* overlaps an unlocked write is one step.  A section that ends in swtch() *)
(* is split at the swtch: the thread changes its own state while it still  *)
(* runs on its kernel stack and holds the lock, and the scheduler thread   *)
(* of the same CPU releases the lock afterwards.  The two table scans of   *)
(* scheduler() are two steps, because settickets writes without the lock.  *)
(***************************************************************************)
EXTENDS Integers, FiniteSets

CONSTANTS
    NPROC,       \* slots of ptable.proc
    CPU,         \* the processors
    NoCpu,       \* ptable.lock is free
    MINTICKETS,  \* 10 in userinit, fork and sys_settickets
    TicketArgs,  \* arguments passed to settickets
    KillArgs,    \* arguments passed to kill
    INT_MAX,     \* the largest int
    MaxPid       \* bound: no fork once nextpid exceeds it

Slot == 1 .. NPROC
initproc == 1    \* userinit takes the first slot of the empty table
NoProc == 0      \* a null struct proc *

ASSUME ProcAssumption ==
    /\ NPROC \in Nat \ {0}
    /\ NoCpu \notin CPU
    /\ MINTICKETS \in Nat \ {0}
    /\ INT_MAX \in Nat /\ MINTICKETS <= INT_MAX
    /\ TicketArgs \subseteq (- INT_MAX) .. INT_MAX
    /\ KillArgs \subseteq Nat
    /\ MaxPid \in Nat

VARIABLES
    state, pid, parent, chan, killed, tickets, kstack,   \* struct proc
    pc,       \* where the process's kernel thread continues
    np,       \* the local np of fork()
    nextpid,
    lock,     \* the CPU holding ptable.lock
    cproc,    \* cpu->proc
    sched,    \* what the CPU's scheduler thread is doing
    winner    \* the local winner of scheduler()

procVars == <<state, pid, parent, chan, killed, tickets, kstack, pc, np>>
vars == <<procVars, nextpid, lock, cproc, sched, winner>>

States == {"UNUSED", "EMBRYO", "SLEEPING", "RUNNABLE", "RUNNING", "ZOMBIE"}

\* "user": in user mode, or past syscall() in trap()
\* "sys": in a system call, past the first killed check of trap()
\* "forked": allocproc() returned in fork(); "filled": np is filled in
\* "wait": asleep in wait(), or just back from sched() there
PCs == {"user", "sys", "forked", "filled", "wait"}

-----------------------------------------------------------------------------
(* The lottery.                                                            *)

\* int addition of two non-overflowing ints, as the -O0 build computes it.
Wrap(x) == IF x > INT_MAX THEN x - 2 * (INT_MAX + 1) ELSE x

\* What each slot adds to totalTickets and to counter.
Weight == [p \in Slot |-> IF state[p] = "RUNNABLE" THEN tickets[p] ELSE 0]

\* The accumulator of both loops of scheduler() after slot i.
Counter(w) ==
    LET sum[i \in 0 .. NPROC] == IF i = 0 THEN 0 ELSE Wrap(sum[i-1] + w[i])
    IN  sum

totalTickets == Counter(Weight)[NPROC]

\* The slots at which the second loop may break.
BreakAt(w) == {p \in Slot : state[p] = "RUNNABLE" /\ Counter(Weight)[p] > w}

First(S) == CHOOSE p \in S : \A q \in S : p <= q

-----------------------------------------------------------------------------
(* Boot: userinit() has made the first process runnable.                   *)

Init ==
    /\ state = [p \in Slot |-> IF p = initproc THEN "RUNNABLE" ELSE "UNUSED"]
    /\ pid = [p \in Slot |-> IF p = initproc THEN 1 ELSE 0]
    /\ parent = [p \in Slot |-> NoProc]
    /\ chan = [p \in Slot |-> NoProc]
    /\ killed = [p \in Slot |-> FALSE]
    /\ tickets = [p \in Slot |-> IF p = initproc THEN MINTICKETS ELSE 0]
    /\ kstack = [p \in Slot |-> p = initproc]
    /\ pc = [p \in Slot |-> "user"]
    /\ np = [p \in Slot |-> NoProc]
    /\ nextpid = 2
    /\ lock = NoCpu
    /\ cproc = [c \in CPU |-> NoProc]
    /\ sched = [c \in CPU |-> "idle"]
    /\ winner = [c \in CPU |-> 0]

\* CPU c executes the thread of process p.
Runs(c, p) == sched[c] = "run" /\ cproc[c] = p

-----------------------------------------------------------------------------
(* The scheduler thread of CPU c.                                          *)

\* Take ptable.lock, add up the tickets of the runnable processes, draw.
\* With a total of at most 0 the lock is released and nothing has changed.
SchedDraw(c) ==
    /\ sched[c] = "idle"
    /\ lock = NoCpu
    /\ totalTickets > 0
    /\ \E w \in 0 .. totalTickets - 1 : winner' = [winner EXCEPT ![c] = w]
    /\ lock' = c
    /\ sched' = [sched EXCEPT ![c] = "pick"]
    /\ UNCHANGED <<procVars, nextpid, cproc>>

\* Second scan, then switch to the winner with ptable.lock still held.
SchedPick(c) ==
    /\ sched[c] = "pick"
    /\ BreakAt(winner[c]) # {}
    /\ LET p == First(BreakAt(winner[c]))
       IN  /\ cproc' = [cproc EXCEPT ![c] = p]
           /\ state' = [state EXCEPT ![p] = "RUNNING"]
    /\ sched' = [sched EXCEPT ![c] = "run"]
    /\ winner' = [winner EXCEPT ![c] = 0]
    /\ UNCHANGED <<pid, parent, chan, killed, tickets, kstack, pc, np,
                   nextpid, lock>>

\* sched(): the thread holds ptable.lock and has left RUNNING; it switches to
\* the scheduler, which forgets it and releases the lock.
Swtch(c, p) ==
    /\ Runs(c, p)
    /\ lock = c
    /\ state[p] # "RUNNING"
    /\ cproc' = [cproc EXCEPT ![c] = NoProc]
    /\ sched' = [sched EXCEPT ![c] = "idle"]
    /\ lock' = NoCpu
    /\ UNCHANGED <<procVars, nextpid, winner>>

-----------------------------------------------------------------------------
(* The thread of process p on CPU c.                                       *)

\* forkret(), or yield() after sched(): release the lock the scheduler took.
Resume(c, p) ==
    /\ Runs(c, p)
    /\ lock = c
    /\ state[p] = "RUNNING"
    /\ pc[p] # "wait"
    /\ lock' = NoCpu
    /\ UNCHANGED <<procVars, nextpid, cproc, sched, winner>>

\* The thread runs and holds no lock.
Free(c, p) == Runs(c, p) /\ lock # c

\* trap(): a system call starts unless the process is killed.
Syscall(c, p) ==
    /\ Free(c, p)
    /\ pc[p] = "user" /\ ~killed[p]
    /\ pc' = [pc EXCEPT ![p] = "sys"]
    /\ UNCHANGED <<state, pid, parent, chan, killed, tickets, kstack, np,
                   nextpid, lock, cproc, sched, winner>>

\* In a system call; a kill() that comes now is only seen after it.
InSys(c, p) == Free(c, p) /\ pc[p] = "sys"

\* A system call returns with the table as it was: fork() with a full table,
\* kill() of an unknown pid, settickets() below the minimum, and the calls
\* that do not touch the table.
SysReturn(c, p) ==
    /\ InSys(c, p)
    /\ pc' = [pc EXCEPT ![p] = "user"]
    /\ UNCHANGED <<state, pid, parent, chan, killed, tickets, kstack, np,
                   nextpid, lock, cproc, sched, winner>>

\* Mutated yield(): the state is changed without ptable.lock.
Yield_nolock(c, p) ==
    /\ Free(c, p)
    /\ state' = [state EXCEPT ![p] = "RUNNABLE"]
    /\ UNCHANGED <<pid, parent, chan, killed, tickets, kstack, pc, np,
                   nextpid, lock, cproc, sched, winner>>

\* The timer interrupt of trap(), in user mode or in the kernel: yield().
\* Also a killed process yields, when the timer finds it in the kernel.
Yield(c, p) ==
    /\ Free(c, p)
    /\ lock = NoCpu
    /\ lock' = c
    /\ state' = [state EXCEPT ![p] = "RUNNABLE"]
    /\ UNCHANGED <<pid, parent, chan, killed, tickets, kstack, pc, np,
                   nextpid, cproc, sched, winner>>

\* Mutated allocproc(): the pid counter is not advanced.
PidAfter_same == nextpid

PidAfter == nextpid + 1

\* fork(): allocproc() claims the first free slot and the next pid.  With a
\* full table fork() returns -1 and nothing has changed.
ForkAlloc(c, p) ==
    /\ InSys(c, p)
    /\ lock = NoCpu
    /\ nextpid <= MaxPid
    /\ \E q \in Slot : state[q] = "UNUSED"
    /\ LET q == First({r \in Slot : state[r] = "UNUSED"})
       IN  /\ state' = [state EXCEPT ![q] = "EMBRYO"]
           /\ pid' = [pid EXCEPT ![q] = nextpid]
           /\ pc' = [pc EXCEPT ![p] = "forked", ![q] = "user"]
           /\ np' = [np EXCEPT ![p] = q]
    /\ nextpid' = PidAfter
    /\ UNCHANGED <<parent, chan, killed, tickets, kstack, lock, cproc,
                   sched, winner>>

\* kalloc() or copyuvm() fails: the slot is given back, without the lock and
\* with its pid still in it.
ForkFail(c, p) ==
    /\ Free(c, p)
    /\ pc[p] = "forked"
    /\ state' = [state EXCEPT ![np[p]] = "UNUSED"]
    /\ pc' = [pc EXCEPT ![p] = "user"]
    /\ np' = [np EXCEPT ![p] = NoProc]
    /\ UNCHANGED <<pid, parent, chan, killed, tickets, kstack, nextpid, lock,
                   cproc, sched, winner>>

\* The tickets of a child: its parent's, and 10 at least.
ForkTickets(p) == IF MINTICKETS < tickets[p] THEN tickets[p] ELSE MINTICKETS

\* The child gets its stack, its memory, its parent and its tickets.
ForkFill(c, p) ==
    /\ Free(c, p)
    /\ pc[p] = "forked"
    /\ kstack' = [kstack EXCEPT ![np[p]] = TRUE]
    /\ parent' = [parent EXCEPT ![np[p]] = p]
    /\ tickets' = [tickets EXCEPT ![np[p]] = ForkTickets(p)]
    /\ pc' = [pc EXCEPT ![p] = "filled"]
    /\ UNCHANGED <<state, pid, chan, killed, np, nextpid, lock, cproc, sched,
                   winner>>

\* The child becomes RUNNABLE under the lock and fork() returns its pid.
ForkRun(c, p) ==
    /\ Free(c, p)
    /\ pc[p] = "filled"
    /\ lock = NoCpu
    /\ state' = [state EXCEPT ![np[p]] = "RUNNABLE"]
    /\ pc' = [pc EXCEPT ![p] = "user"]
    /\ np' = [np EXCEPT ![p] = NoProc]
    /\ UNCHANGED <<pid, parent, chan, killed, tickets, kstack, nextpid, lock,
                   cproc, sched, winner>>

Children(p) == {q \in Slot : parent[q] = p}

\* wakeup1(ch) applied to the states st.
Wakeup1(st, ch) ==
    [q \in Slot |-> IF st[q] = "SLEEPING" /\ chan[q] = ch
                    THEN "RUNNABLE" ELSE st[q]]

\* Mutated exit(): the parent is not woken.
ExitWakeups_none(p) == state

\* The wakeups of exit(): the parent, and init when it inherits a zombie.
ExitWakeups(p) ==
    LET st == Wakeup1(state, parent[p])
    IN  IF \E q \in Children(p) : state[q] = "ZOMBIE"
        THEN Wakeup1(st, initproc) ELSE st

\* Mutated exit(): the children keep their parent.
Reparent_skip(p) == parent

\* exit() passes the children to init.
Reparent(p) ==
    [q \in Slot |-> IF parent[q] = p THEN initproc ELSE parent[q]]

\* The system call, or one of the killed checks of trap().
Exits(c, p) ==
    \/ InSys(c, p)
    \/ Free(c, p) /\ pc[p] = "user" /\ killed[p]

\* Mutated exit(): ptable.lock is released before the last sched().
Exit_unlocked(c, p) ==
    /\ Exits(c, p)
    /\ p # initproc
    /\ lock = NoCpu
    /\ state' = [ExitWakeups(p) EXCEPT ![p] = "ZOMBIE"]
    /\ parent' = Reparent(p)
    /\ UNCHANGED <<pid, chan, killed, tickets, kstack, pc, np, nextpid, lock,
                   cproc, sched, winner>>

\* exit(), called by the process or by trap() once it is killed.
Exit(c, p) ==
    /\ Exits(c, p)
    /\ p # initproc
    /\ lock = NoCpu
    /\ lock' = c
    /\ state' = [ExitWakeups(p) EXCEPT ![p] = "ZOMBIE"]
    /\ parent' = Reparent(p)
    /\ UNCHANGED <<pid, chan, killed, tickets, kstack, pc, np, nextpid, cproc,
                   sched, winner>>

\* Mutated wait(): the scan stops at the first child.
Zombies_first(p) ==
    {q \in Children(p) : state[q] = "ZOMBIE" /\ q = First(Children(p))}

Zombies(p) == {q \in Children(p) : state[q] = "ZOMBIE"}

\* p is in wait() and holds ptable.lock, or enters wait() and takes it.
InWait(c, p) ==
    \/ InSys(c, p) /\ lock = NoCpu
    \/ Runs(c, p) /\ pc[p] = "wait" /\ lock = c /\ state[p] = "RUNNING"

\* wait() finds an exited child, frees its slot and returns.
WaitReap(c, p) ==
    /\ InWait(c, p)
    /\ Zombies(p) # {}
    /\ LET q == First(Zombies(p))
       IN  /\ state' = [state EXCEPT ![q] = "UNUSED"]
           /\ kstack' = [kstack EXCEPT ![q] = FALSE]
           /\ pid' = [pid EXCEPT ![q] = 0]
           /\ parent' = [parent EXCEPT ![q] = NoProc]
           /\ killed' = [killed EXCEPT ![q] = FALSE]
    /\ chan' = [chan EXCEPT ![p] = NoProc]
    /\ pc' = [pc EXCEPT ![p] = "user"]
    /\ lock' = NoCpu
    /\ UNCHANGED <<tickets, np, nextpid, cproc, sched, winner>>

\* wait() returns -1: no children, or killed.
WaitFail(c, p) ==
    /\ InWait(c, p)
    /\ Zombies(p) = {}
    /\ Children(p) = {} \/ killed[p]
    /\ chan' = [chan EXCEPT ![p] = NoProc]
    /\ pc' = [pc EXCEPT ![p] = "user"]
    /\ lock' = NoCpu
    /\ UNCHANGED <<state, pid, parent, killed, tickets, kstack, np, nextpid,
                   cproc, sched, winner>>

\* wait() goes to sleep on the caller's own slot.
WaitSleep(c, p) ==
    /\ InWait(c, p)
    /\ Zombies(p) = {}
    /\ Children(p) # {} /\ ~killed[p]
    /\ chan' = [chan EXCEPT ![p] = p]
    /\ state' = [state EXCEPT ![p] = "SLEEPING"]
    /\ pc' = [pc EXCEPT ![p] = "wait"]
    /\ lock' = c
    /\ UNCHANGED <<pid, parent, killed, tickets, kstack, np, nextpid, cproc,
                   sched, winner>>

\* Mutated kill(): the victim is marked but not woken.
KillState_nowake(q) == state

\* kill() makes a sleeping victim runnable.
KillState(q) ==
    IF state[q] = "SLEEPING" THEN [state EXCEPT ![q] = "RUNNABLE"] ELSE state

\* kill(k): the first slot that holds pid k, whatever its state.
Kill(c, p, k) ==
    /\ InSys(c, p)
    /\ lock = NoCpu
    /\ \E q \in Slot : pid[q] = k
    /\ LET q == First({r \in Slot : pid[r] = k})
       IN  /\ killed' = [killed EXCEPT ![q] = TRUE]
           /\ state' = KillState(q)
    /\ pc' = [pc EXCEPT ![p] = "user"]
    /\ UNCHANGED <<pid, parent, chan, tickets, kstack, np, nextpid, lock,
                   cproc, sched, winner>>

\* Mutated sys_settickets(): the tickets go to the caller's parent.
SetTicketsSlot_parent(p) == IF parent[p] = NoProc THEN p ELSE parent[p]

\* setTicket(): the first slot that holds the caller's own pid.
SetTicketsSlot(p) == First({q \in Slot : pid[q] = pid[p]})

TicketsAccepted(n) == n >= MINTICKETS

\* sys_settickets(): no lock is taken.
SetTickets(c, p, n) ==
    /\ InSys(c, p)
    /\ TicketsAccepted(n)
    /\ tickets' = [tickets EXCEPT ![SetTicketsSlot(p)] = n]
    /\ pc' = [pc EXCEPT ![p] = "user"]
    /\ UNCHANGED <<state, pid, parent, chan, killed, kstack, np, nextpid,
                   lock, cproc, sched, winner>>

Thread(c, p) ==
    \/ Swtch(c, p) \/ Resume(c, p) \/ Yield(c, p)
    \/ Syscall(c, p) \/ SysReturn(c, p)
    \/ ForkAlloc(c, p) \/ ForkFail(c, p) \/ ForkFill(c, p) \/ ForkRun(c, p)
    \/ Exit(c, p)
    \/ WaitReap(c, p) \/ WaitFail(c, p) \/ WaitSleep(c, p)
    \/ \E k \in KillArgs : Kill(c, p, k)
    \/ \E n \in TicketArgs : SetTickets(c, p, n)

Next ==
    \E c \in CPU :
        \/ SchedDraw(c)
        \/ SchedPick(c)
        \/ \E p \in Slot : Thread(c, p)

Spec == Init /\ [][Next]_vars

-----------------------------------------------------------------------------
(* Properties.                                                             *)

\* Every field keeps its C type.
TypeOK ==
    /\ state \in [Slot -> States]
    /\ pid \in [Slot -> Nat]
    /\ parent \in [Slot -> Slot \cup {NoProc}]
    /\ chan \in [Slot -> Slot \cup {NoProc}]
    /\ killed \in [Slot -> BOOLEAN]
    /\ tickets \in [Slot -> 0 .. INT_MAX]
    /\ kstack \in [Slot -> BOOLEAN]
    /\ pc \in [Slot -> PCs]
    /\ np \in [Slot -> Slot \cup {NoProc}]
    /\ nextpid \in Nat
    /\ lock \in CPU \cup {NoCpu}
    /\ cproc \in [CPU -> Slot \cup {NoProc}]
    /\ sched \in [CPU -> {"idle", "pick", "run"}]
    /\ winner \in [CPU -> Nat]

\* scheduler()/sched(): no kernel stack is executed by two CPUs, and a process
\* the table calls RUNNING is on one.
OneCpuPerProcess ==
    /\ \A c, d \in CPU : cproc[c] = cproc[d] /\ cproc[c] # NoProc => c = d
    /\ \A p \in Slot : state[p] = "RUNNING" => \E c \in CPU : Runs(c, p)

\* scheduler(): although settickets writes without ptable.lock, the ticket
\* drawn after the first scan still has an owner in the second one, so p never
\* runs past the end of ptable.proc.
DrawHasWinner ==
    \A c \in CPU : sched[c] = "pick" =>
        /\ winner[c] < totalTickets
        /\ BreakAt(winner[c]) # {}

\* wait()/kfree: the kernel stack of the thread a CPU executes is never freed
\* under it, in particular not between exit() and its last swtch().
StackInUse == \A c \in CPU : sched[c] = "run" => kstack[cproc[c]]

\* exit(), wait(), kill(): a process asleep in wait() has a child that has not
\* exited, no child that has, and has not been killed: no wakeup is lost.
WaiterHasReason ==
    \A p \in Slot : state[p] = "SLEEPING" =>
        /\ chan[p] = p /\ ~killed[p]
        /\ Children(p) # {} /\ Zombies(p) = {}

\* exit() and fork(): every process but init always has a parent that can
\* still call wait() for it, so no zombie is left that nobody can reap.
ParentCanWait ==
    \A p \in Slot \ {initproc} :
        state[p] \notin {"UNUSED", "EMBRYO"} =>
            /\ parent[p] \in Slot
            /\ state[parent[p]] \in {"SLEEPING", "RUNNABLE", "RUNNING"}

\* allocproc(), setTicket(): looking up the pid of a process in use finds that
\* process, also when a failed fork() left its pid in an earlier slot.
PidFindsOwner ==
    \A p \in Slot : state[p] # "UNUSED" =>
        First({q \in Slot : pid[q] = pid[p]}) = p

\* "no process are ready to run tickets are 0 in this case" (scheduler): the
\* scheduler only passes a round when no process is RUNNABLE.
RunnableGivesTickets ==
    (\E p \in Slot : state[p] = "RUNNABLE") => totalTickets > 0

-----------------------------------------------------------------------------
(* Liveness.  Threads and schedulers keep running (weak fairness), the     *)
(* timer keeps interrupting, the spin lock and the lottery leave nobody    *)
(* out for ever (strong fairness), and init is in the loop of init.c.      *)

Draws(c, p) == SchedDraw(c) /\ First(BreakAt(winner'[c])) = p

\* The steps a kernel thread takes without a choice of the user program; at
\* every control point at most one kind of them is enabled.
KernelStep(c, p) ==
    \/ ForkFill(c, p) \/ ForkFail(c, p) \/ ForkRun(c, p)
    \/ SysReturn(c, p)
    \/ pc[p] = "user" /\ Exit(c, p)
    \/ pc[p] = "wait" /\ (WaitReap(c, p) \/ WaitFail(c, p) \/ WaitSleep(c, p))

Fairness ==
    /\ \A c \in CPU : WF_vars(SchedPick(c))
    /\ \A p \in Slot :
        /\ SF_vars(\E c \in CPU : Draws(c, p))
        /\ SF_vars(\E c \in CPU : Yield(c, p))
        /\ WF_vars(\E c \in CPU : Swtch(c, p) \/ Resume(c, p))
        /\ SF_vars(\E c \in CPU : KernelStep(c, p))
    /\ SF_vars(\E c \in CPU : Syscall(c, initproc))
    /\ SF_vars(\E c \in CPU : WaitReap(c, initproc))

FairSpec == Spec /\ Fairness

\* kill() and trap(): a process that is killed, asleep or not, exits.
KilledExits ==
    \A p \in Slot \ {initproc} :
        killed[p] /\ state[p] # "UNUSED" ~> state[p] \in {"ZOMBIE", "UNUSED"}

\* exit() and init's wait(): a zombie that init has to reap is reaped.
OrphansReaped ==
    \A p \in Slot :
        state[p] = "ZOMBIE" /\ parent[p] = initproc ~> state[p] = "UNUSED"
=============================================================================
