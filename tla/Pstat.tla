-------------------------------- MODULE Pstat -------------------------------
(***************************************************************************)
(* getpinfo (sys_getpinfo of sysproc.c, fillpstat of proc.c) on top of the *)
(* process table: the caller copies the table without ptable.lock, so the  *)
(* other CPUs, and this one when the timer interrupts the copy, change it  *)
(* meanwhile.  One process calls it at a time.                             *)
(***************************************************************************)
EXTENDS Proc

VARIABLES
    caller,    \* the process inside fillpstat(), or NoProc
    row,       \* p and i of fillpstat(): the slot to copy
    step,      \* "test": at the checks of p->state; "copy", "state": after them
    pstat      \* the table of the caller

infoVars == <<caller, row, step, pstat>>

\* *states[p->state]
Letter ==
    [UNUSED |-> "U", EMBRYO |-> "E", SLEEPING |-> "S", RUNNABLE |-> "A",
     RUNNING |-> "R", ZOMBIE |-> "Z"]

InfoInit ==
    /\ Init
    /\ caller = NoProc /\ row = 1 /\ step = "test"
    /\ pstat = [q \in Slot |-> [inuse |-> FALSE, tickets |-> 0, pid |-> 0, state |-> "E"]]

\* sys_getpinfo(): argptr() accepted the pointer.
Begin(c, p) ==
    /\ InSys(c, p) /\ caller = NoProc
    /\ caller' = p /\ row' = 1 /\ step' = "test"
    /\ UNCHANGED <<vars, pstat>>

\* The next slot; after the last one the call prints the table and returns.
Advance(p) ==
    /\ step' = "test"
    /\ IF row < NPROC
       THEN row' = row + 1 /\ UNCHANGED <<caller, pc>>
       ELSE row' = 1 /\ caller' = NoProc /\ pc' = [pc EXCEPT ![p] = "user"]
    /\ UNCHANGED <<state, pid, parent, chan, killed, tickets, kstack, np, nextpid,
                   lock, cproc, sched, winner>>

\* p->state == UNUSED: the row is marked free and keeps what it holds.
SkipRow(c, p) ==
    /\ InSys(c, p) /\ caller = p /\ step = "test"
    /\ state[row] = "UNUSED"
    /\ pstat' = [pstat EXCEPT ![row].inuse = FALSE]
    /\ Advance(p)

TestRow(c, p) ==
    /\ InSys(c, p) /\ caller = p /\ step = "test"
    /\ state[row] # "UNUSED"
    /\ pstat' = [pstat EXCEPT ![row].inuse = TRUE]
    /\ step' = "copy"
    /\ UNCHANGED <<vars, caller, row>>

CopyRow(c, p) ==
    /\ InSys(c, p) /\ caller = p /\ step = "copy"
    /\ pstat' = [pstat EXCEPT ![row].tickets = tickets[row], ![row].pid = pid[row]]
    /\ step' = "state"
    /\ UNCHANGED <<vars, caller, row>>

CopyState(c, p) ==
    /\ InSys(c, p) /\ caller = p /\ step = "state"
    /\ pstat' = [pstat EXCEPT ![row].state = Letter[state[row]]]
    /\ Advance(p)

fillpstat(c, p) == SkipRow(c, p) \/ TestRow(c, p) \/ CopyRow(c, p) \/ CopyState(c, p)

\* A step of Proc; inside fillpstat() the caller is only preempted and resumed.
Others ==
    /\ \E c \in CPU :
        \/ SchedDraw(c) \/ SchedPick(c)
        \/ \E p \in Slot :
            IF p = caller THEN Swtch(c, p) \/ Resume(c, p) \/ Yield(c, p) ELSE Thread(c, p)
    /\ UNCHANGED infoVars

InfoNext == Others \/ \E c \in CPU, p \in Slot : Begin(c, p) \/ fillpstat(c, p)

InfoSpec == InfoInit /\ [][InfoNext]_<<vars, infoVars>>

-----------------------------------------------------------------------------

\* "'E', 'R', 'A', 'S', 'Z' (embryo, running, runnable, sleeping, zombie)", the
\* states of pstat_t (pstat.h): a row that fillpstat() marked in use and finished
\* has one of these letters.
RowHasState ==
    \A q \in Slot :
        pstat[q].inuse /\ ~(caller # NoProc /\ row = q) =>
            pstat[q].state \in {"E", "R", "A", "S", "Z"}
=============================================================================
