------------------------------- MODULE Clock --------------------------------
(***************************************************************************)
(* The clock: the timer interrupt of trap() on CPU 0, and processes in     *)
(* sleep() (sys_sleep() of sysproc.c).  tickslock makes the steps atomic;  *)
(* kill() does not take it, and may come between the test of killed and    *)
(* the sleep().                                                            *)
(* ticks is unsigned and wraps around; the argument n is an int that the   *)
(* comparison with it converts to unsigned.                                *)
(***************************************************************************)
EXTENDS Integers

CONSTANTS
    Sleeper,
    NTICKS,        \* ticks counts modulo NTICKS (2^32)
    Naps           \* arguments of sleep()

ASSUME ClockAssumption == NTICKS \in Nat \ {0} /\ Naps \subseteq Int

VARIABLES
    ticks,
    nap,           \* of each process: where it is, ticks0 and n
    dead,          \* p->killed
    slept          \* the ticks since a process called sleep(), for SleepsLongEnough

clockVars == <<ticks, nap, dead, slept>>

Awake == [pc |-> "user", ticks0 |-> 0, n |-> 0]

ClockInit ==
    /\ ticks = 0
    /\ nap = [p \in Sleeper |-> Awake]
    /\ dead = [p \in Sleeper |-> FALSE]
    /\ slept = [p \in Sleeper |-> 0]

\* Mutated sys_sleep(): the times are compared instead of their difference.
TimeLeft_absolute(p) == ticks < (nap[p].ticks0 + nap[p].n) % NTICKS

\* ticks - ticks0 < n
TimeLeft(p) == (ticks - nap[p].ticks0) % NTICKS < nap[p].n

\* Nobody holds tickslock, on the way from its test to its sleep.
LockFree == \A p \in Sleeper : nap[p].pc # "tosleep"

\* The start of sys_sleep().
SysSleep(p, n) ==
    /\ nap[p].pc = "user" /\ ~dead[p] /\ LockFree
    /\ nap' = [nap EXCEPT ![p] = [pc |-> "loop", ticks0 |-> ticks, n |-> n % NTICKS]]
    /\ slept' = [slept EXCEPT ![p] = 0]
    /\ UNCHANGED <<ticks, dead>>

\* A turn of its loop: on to sleep(), or return 0, or -1 when killed.
SleepTurn(p) ==
    /\ nap[p].pc = "loop" /\ LockFree
    /\ nap' = [nap EXCEPT ![p] = IF TimeLeft(p) /\ ~dead[p] THEN [@ EXCEPT !.pc = "tosleep"]
                                 ELSE Awake]
    /\ slept' = IF TimeLeft(p) /\ ~dead[p] THEN slept ELSE [slept EXCEPT ![p] = 0]
    /\ UNCHANGED <<ticks, dead>>

\* sleep(&ticks, &tickslock)
SleepTicks(p) ==
    /\ nap[p].pc = "tosleep"
    /\ nap' = [nap EXCEPT ![p].pc = "sleep"]
    /\ UNCHANGED <<ticks, dead, slept>>

\* wakeup(&ticks)
WakeTicks == [p \in Sleeper |-> IF nap[p].pc = "sleep" THEN [nap[p] EXCEPT !.pc = "loop"] ELSE nap[p]]

Timer ==
    /\ LockFree
    /\ ticks' = (ticks + 1) % NTICKS
    /\ nap' = WakeTicks
    /\ slept' = [p \in Sleeper |-> IF nap[p].pc = "user" \/ slept[p] = NTICKS THEN slept[p]
                                   ELSE slept[p] + 1]
    /\ UNCHANGED dead

KillSleeper(p) ==
    /\ ~dead[p] /\ dead' = [dead EXCEPT ![p] = TRUE]
    /\ nap' = [nap EXCEPT ![p].pc = IF @ = "sleep" THEN "loop" ELSE @]
    /\ UNCHANGED <<ticks, slept>>

ClockNext ==
    \/ Timer
    \/ \E p \in Sleeper : SleepTurn(p) \/ SleepTicks(p) \/ KillSleeper(p) \/ \E n \in Naps : SysSleep(p, n)

ClockSpec == ClockInit /\ [][ClockNext]_clockVars

-----------------------------------------------------------------------------
(* Properties.                                                             *)

\* Type correctness.
ClockTypeOK ==
    /\ ticks \in 0 .. NTICKS - 1
    /\ nap \in [Sleeper -> [pc : {"user", "loop", "tosleep", "sleep"},
                            ticks0 : 0 .. NTICKS - 1, n : 0 .. NTICKS - 1]]
    /\ dead \in [Sleeper -> BOOLEAN]
    /\ slept \in [Sleeper -> 0 .. NTICKS]

\* A sleep() that is not killed lasts for n timer interrupts or more, also when
\* ticks wraps around meanwhile; a negative n counts as its unsigned value.
SleepsLongEnough ==
    [][\A p \in Sleeper : nap[p].pc = "loop" /\ nap'[p].pc = "user" /\ ~dead[p]
          => slept[p] >= nap[p].n]_clockVars

\* A process is asleep only while it has time left: no timer interrupt comes
\* between its test and its sleep without waking it.  A kill() may come there,
\* and the process then sleeps on until the next tick.
SleeperHasTimeLeft ==
    \A p \in Sleeper : nap[p].pc = "sleep" => TimeLeft(p)
=============================================================================
