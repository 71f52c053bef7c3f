------------------------------ MODULE Spinlock ------------------------------
(***************************************************************************)
(* Spin locks (spinlock.c): acquire() and release() with pushcli() and     *)
(* popcli(), on CPUs that take interrupts whose handlers acquire the same  *)
(* locks.  A CPU runs a thread and, on top of it, at most one handler: an  *)
(* interrupt gate turns interrupts off and iret turns them on again.       *)
(*                                                                         *)
(* A thread acquires locks in a fixed order and releases them in any       *)
(* order; a handler acquires one lock and releases it.  Each step is one   *)
(* access to memory that another CPU may see, or one change of the flag.   *)
(***************************************************************************)
EXTENDS Integers

CONSTANTS
    CPU, NoCpu,
    NLOCK          \* locks 1 .. NLOCK, in the order threads acquire them

ASSUME SpinAssumption == NoCpu \notin CPU /\ NLOCK \in Nat \ {0}

Lock == 1 .. NLOCK
Frame == {"thread", "intr"}

VARIABLES
    locked, lkcpu,         \* struct spinlock
    intr,                  \* FL_IF of each CPU
    ncli, intena,          \* struct cpu
    top,                   \* the frame a CPU runs
    at, lk, eflags,        \* of each frame: where it is, the lock it acquires
                           \* or releases, and the flags it read
    held,                  \* of each frame: the locks it has
    panicked

spinVars == <<locked, lkcpu, intr, ncli, intena, top, at, lk, eflags, held, panicked>>

SpinInit ==
    /\ locked = [l \in Lock |-> FALSE]
    /\ lkcpu = [l \in Lock |-> NoCpu]
    /\ intr = [c \in CPU |-> TRUE]
    /\ ncli = [c \in CPU |-> 0]
    /\ intena = [c \in CPU |-> FALSE]
    /\ top = [c \in CPU |-> "thread"]
    /\ at = [c \in CPU |-> [f \in Frame |-> "run"]]
    /\ lk = [c \in CPU |-> [f \in Frame |-> 1]]
    /\ eflags = [c \in CPU |-> [f \in Frame |-> FALSE]]
    /\ held = [c \in CPU |-> [f \in Frame |-> {}]]
    /\ panicked = FALSE

\* The frame that runs on c, its place and its lock.
At(c, a) == ~panicked /\ at[c][top[c]] = a
Goto(c, a) == at' = [at EXCEPT ![c][top[c]] = a]
Lk(c) == lk[c][top[c]]

\* holding(), when no other CPU writes to the lock meanwhile.
Holding(c, l) == locked[l] /\ lkcpu[l] = c

-----------------------------------------------------------------------------
(* acquire().                                                              *)

\* pushcli() reads the flags.
Acquire(c, l) ==
    /\ At(c, "run")
    /\ IF top[c] = "thread" THEN \A m \in held[c]["thread"] : m < l
       ELSE held[c]["intr"] = {}
    /\ lk' = [lk EXCEPT ![c][top[c]] = l]
    /\ eflags' = [eflags EXCEPT ![c][top[c]] = intr[c]]
    /\ Goto(c, "cli")
    /\ UNCHANGED <<locked, lkcpu, intr, ncli, intena, top, held, panicked>>

\* intena after pushcli()
SavedFlags(c) == IF ncli[c] = 0 THEN eflags[c][top[c]] ELSE intena[c]

Cli(c) == FALSE

Pushed(c) == ncli[c] + 1

\* The rest of pushcli().
Pushcli(c) ==
    /\ At(c, "cli")
    /\ intr' = [intr EXCEPT ![c] = Cli(c)]
    /\ intena' = [intena EXCEPT ![c] = SavedFlags(c)]
    /\ ncli' = [ncli EXCEPT ![c] = Pushed(c)]
    /\ Goto(c, "locked")
    /\ UNCHANGED <<locked, lkcpu, top, lk, eflags, held, panicked>>

\* holding() in acquire(): lk->locked is read, and then lk->cpu.
HoldingLocked(c) ==
    /\ At(c, "locked")
    /\ Goto(c, IF locked[Lk(c)] THEN "cpu" ELSE "spin")
    /\ UNCHANGED <<locked, lkcpu, intr, ncli, intena, top, lk, eflags, held, panicked>>

HoldingCpu(c) ==
    /\ At(c, "cpu")
    /\ panicked' = (lkcpu[Lk(c)] = c)
    /\ Goto(c, "spin")
    /\ UNCHANGED <<locked, lkcpu, intr, ncli, intena, top, lk, eflags, held>>

\* Mutated acquire(): xchg is not looked at.
Free_any(l) == TRUE

Free(l) == ~locked[l]

\* The xchg that finds the lock free.
Xchg(c) ==
    /\ At(c, "spin") /\ Free(Lk(c))
    /\ locked' = [locked EXCEPT ![Lk(c)] = TRUE]
    /\ Goto(c, "setcpu")
    /\ UNCHANGED <<lkcpu, intr, ncli, intena, top, lk, eflags, held, panicked>>

SetCpu(c) ==
    /\ At(c, "setcpu")
    /\ lkcpu' = [lkcpu EXCEPT ![Lk(c)] = c]
    /\ held' = [held EXCEPT ![c][top[c]] = @ \cup {Lk(c)}]
    /\ Goto(c, "run")
    /\ UNCHANGED <<locked, intr, ncli, intena, top, lk, eflags, panicked>>

-----------------------------------------------------------------------------
(* release().                                                              *)

\* Mutated release(): lk->cpu is left as it is.
Owner_kept(l) == lkcpu[l]

\* lk->cpu after release()
Owner(l) == NoCpu

Release(c, l) ==
    /\ At(c, "run") /\ l \in held[c][top[c]]
    /\ panicked' = ~Holding(c, l)
    /\ lkcpu' = [lkcpu EXCEPT ![l] = Owner(l)]
    /\ lk' = [lk EXCEPT ![c][top[c]] = l]
    /\ held' = [held EXCEPT ![c][top[c]] = @ \ {l}]
    /\ Goto(c, "unlock")
    /\ UNCHANGED <<locked, intr, ncli, intena, top, eflags>>

Unlock(c) ==
    /\ At(c, "unlock")
    /\ locked' = [locked EXCEPT ![Lk(c)] = FALSE]
    /\ Goto(c, "popcli")
    /\ UNCHANGED <<lkcpu, intr, ncli, intena, top, lk, eflags, held, panicked>>

Popcli(c) ==
    /\ At(c, "popcli")
    /\ panicked' = (intr[c] \/ ncli[c] < 1)
    /\ ncli' = [ncli EXCEPT ![c] = @ - 1]
    /\ intr' = [intr EXCEPT ![c] = ncli[c] = 1 /\ intena[c]]
    /\ Goto(c, "run")
    /\ lk' = [lk EXCEPT ![c][top[c]] = 1]
    /\ eflags' = [eflags EXCEPT ![c][top[c]] = FALSE]
    /\ UNCHANGED <<locked, lkcpu, intena, top, held>>

-----------------------------------------------------------------------------
(* Interrupts.                                                             *)

Interrupt(c) ==
    /\ ~panicked /\ top[c] = "thread" /\ intr[c]
    /\ top' = [top EXCEPT ![c] = "intr"]
    /\ intr' = [intr EXCEPT ![c] = FALSE]
    /\ UNCHANGED <<locked, lkcpu, ncli, intena, at, lk, eflags, held, panicked>>

Iret(c) ==
    /\ At(c, "run") /\ top[c] = "intr" /\ held[c]["intr"] = {}
    /\ top' = [top EXCEPT ![c] = "thread"]
    /\ intr' = [intr EXCEPT ![c] = TRUE]
    /\ UNCHANGED <<locked, lkcpu, ncli, intena, at, lk, eflags, held, panicked>>

SpinNext ==
    \E c \in CPU :
        \/ \E l \in Lock : Acquire(c, l) \/ Release(c, l)
        \/ Pushcli(c) \/ HoldingLocked(c) \/ HoldingCpu(c) \/ Xchg(c) \/ SetCpu(c) \/ Unlock(c) \/ Popcli(c)
        \/ Interrupt(c) \/ Iret(c)

SpinSpec == SpinInit /\ [][SpinNext]_spinVars

-----------------------------------------------------------------------------
(* Properties.                                                             *)

\* Type correctness.
SpinTypeOK ==
    /\ locked \in [Lock -> BOOLEAN] /\ lkcpu \in [Lock -> CPU \cup {NoCpu}]
    /\ intr \in [CPU -> BOOLEAN] /\ intena \in [CPU -> BOOLEAN]
    /\ ncli \in [CPU -> 0 .. NLOCK + 1]
    /\ top \in [CPU -> Frame]
    /\ at \in [CPU -> [Frame -> {"run", "cli", "locked", "cpu", "spin", "setcpu",
                                  "unlock", "popcli"}]]
    /\ lk \in [CPU -> [Frame -> Lock]] /\ eflags \in [CPU -> [Frame -> BOOLEAN]]
    /\ held \in [CPU -> [Frame -> SUBSET Lock]]
    /\ panicked \in BOOLEAN

\* acquire() gives a lock to one frame of one CPU at a time.
Exclusive ==
    /\ SpinTypeOK
    /\ \A l \in Lock : \A x, y \in CPU \X Frame :
          l \in held[x[1]][x[2]] /\ l \in held[y[1]][y[2]] => x = y

\* No CPU ever panics in acquire(), release() or popcli(): holding(), which
\* reads lk->locked and lk->cpu of a lock that other CPUs are taking and
\* releasing, never takes another CPU's lock for its own, and no handler asks
\* for a lock of the thread it interrupted, which would never be released.
NeverPanics == ~panicked

\* Interrupts come back: a thread between its calls that holds no lock has
\* interrupts on, whatever locks it held, in whatever order it released them
\* and whatever handlers ran meanwhile.
InterruptsComeBack ==
    \A c \in CPU :
        top[c] = "thread" /\ at[c]["thread"] = "run" /\ held[c]["thread"] = {}
          => intr[c]

\* acquire(), release(), pushcli() and popcli() nest.
LocksNest == NeverPanics /\ InterruptsComeBack
=============================================================================
