------------------------------ MODULE MCKernel ------------------------------
(***************************************************************************)
(* One run for the parts of the kernel that share no state in the model:   *)
(* pipes, the console, the keyboard, the clock, spin locks and user        *)
(* memory.  part says which of them moves; the others stay in their        *)
(* initial states.                                                         *)
(***************************************************************************)
EXTENDS Pipe, Clock, Spinlock, Args, TLC

CONSTANTS Tty, NoTty, INPUT_BUF, TTYUINT, Counts, COLS, ROWS, Keys, QUEUE,
          Proc, InitProc, NPage, PGSIZE, NPTE, NPDE, Deltas, Ends

VARIABLES
    buf, r, w, e, pos, ttylock, rd, ttykilled,               \* Console
    shift, down, queue,                                      \* Kbd
    mem, state, kstack, sz, as, vpc, a, to, child,           \* Vm
    part

conVars == <<buf, r, w, e, pos, ttylock, rd, ttykilled>>
kbdVars == <<shift, down, queue>>
vmVars == <<mem, state, kstack, sz, as, vpc, a, to, child>>

Con == INSTANCE Console WITH Reader <- Tty, NoReader <- NoTty, UINT <- TTYUINT,
                             lock <- ttylock, killed <- ttykilled
Kb == INSTANCE Kbd
Mem == INSTANCE Vm WITH pc <- vpc

MCInit ==
    /\ Init /\ Con!Init /\ Kb!Init /\ ClockInit /\ SpinInit /\ Mem!Init
    /\ part \in {"pipe", "console", "kbd", "clock", "spinlock", "vm"}

MCNext ==
    \/ part = "pipe" /\ Next /\ UNCHANGED <<conVars, kbdVars, clockVars, spinVars, vmVars, part>>
    \/ part = "console" /\ Con!Next /\ UNCHANGED <<vars, kbdVars, clockVars, spinVars, vmVars, part>>
    \/ part = "kbd" /\ Kb!Next /\ UNCHANGED <<vars, conVars, clockVars, spinVars, vmVars, part>>
    \/ part = "clock" /\ ClockNext /\ UNCHANGED <<vars, conVars, kbdVars, spinVars, vmVars, part>>
    \/ part = "spinlock" /\ SpinNext /\ UNCHANGED <<vars, conVars, kbdVars, clockVars, vmVars, part>>
    \/ part = "vm" /\ Mem!Next /\ UNCHANGED <<vars, conVars, kbdVars, clockVars, spinVars, part>>

MCSpec == MCInit /\ [][MCNext]_<<vars, conVars, kbdVars, clockVars, spinVars, vmVars, part>>

\* Arguments of sleep(); the negative one is a large unsigned number.
MCNaps == {-1, 0, 2}

\* Arguments of sbrk().
MCDeltas == {-3, -2, 3}

\* The two readers of the pipe and of the console, the two sleepers and the two
\* CPUs are the same two model values: only one part moves, so this loses nothing.
Symmetry == Permutations(Reader) \cup Permutations(Byte)

-----------------------------------------------------------------------------
(* The properties of the modules that are instantiated here, and one that  *)
(* three modules share.                                                    *)

\* No wakeup is lost in piperead() and pipewrite(), consoleread() and sys_sleep():
\* who sleeps in one of them has nothing to do yet (and, in a pipe, nobody left
\* that a killed writer failed to wake).
NoLostWakeup ==
    /\ part = "pipe" => SleeperHasReason
    /\ part = "console" => Con!TypeOK /\ Con!SleeperHasNoInput
    /\ part = "clock" => ClockTypeOK /\ SleeperHasTimeLeft

\* The ring buffer of consoleintr() and consoleread() implements line input.
TtySpec == Con!TtySpec

\* kbdgetc() ends with a modifier only while one of its keys is down.
NoStuckModifier == part = "kbd" => Kb!TypeOK /\ Kb!NoStuckModifier

\* kalloc(), kfree(), allocuvm(), copyuvm(), exec(): each page is free or used once.
PagesAccounted == part = "vm" => Mem!PagesAccounted

\* allocuvm(), deallocuvm(): what is below sz is mapped, to pages that have been
\* filled, and nothing above it.
SizeMapped == part = "vm" => Mem!SizeMapped /\ Mem!InUseIsFilled
=============================================================================
