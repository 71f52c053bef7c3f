----------------------------- MODULE ProcProofs -----------------------------
(***************************************************************************)
(* Proofs about Proc, for every number of slots, CPUs and tickets:         *)
(* ProcInvariant is inductive, and the safety properties follow from it.   *)
(***************************************************************************)
EXTENDS ProcInv, WellFoundedInduction, TLAPS

-----------------------------------------------------------------------------
(* Least elements.                                                         *)

\* The order of the naturals is well-founded.
LEMMA NatOrder ==
    \E R : /\ IsWellFoundedOn(R, Nat)
           /\ \A x, y \in Nat : <<y, x>> \in R <=> y < x
<1>1. \A x, y \in Nat : <<y, x>> \in OpToRel(<, Nat) <=> y < x
  BY Zenon DEF OpToRel
<1> QED
  BY <1>1, NatLessThanWellFounded, Zenon

\* A nonempty set of naturals has a least element.
LEMMA NatMin ==
    ASSUME NEW S, S \subseteq Nat, S # {}
    PROVE  \E x \in S : \A y \in S : x <= y
<1>1. PICK R : /\ IsWellFoundedOn(R, Nat)
               /\ \A x, y \in Nat : <<y, x>> \in R <=> y < x
  BY NatOrder, Zenon
<1>2. PICK x \in S : \A y \in S : ~(<<y, x>> \in R)
  BY <1>1, WFMin, Zenon
<1>3. ASSUME NEW y \in S PROVE x <= y
  <2>1. ~(y < x)
    BY <1>1, <1>2, Zenon
  <2> QED
    BY <2>1
<1> QED
  BY <1>3, Zenon

\* The first hit of a scan through ptable.proc.
LEMMA FirstIn ==
    ASSUME NEW S, S \subseteq Slot, S # {}
    PROVE  First(S) \in S /\ \A q \in S : First(S) <= q
<1>1. S \subseteq Nat
  BY ProcAssumption DEF Slot
<1>2. \E x \in S : \A y \in S : x <= y
  BY <1>1, NatMin, Zenon
<1> QED
  BY <1>2, Zenon DEF First

\* allocproc(): what the scan for an UNUSED slot finds.
LEMMA UnusedFound ==
    ASSUME NEW q \in Slot, state[q] = "UNUSED"
    PROVE  /\ First({r \in Slot : state[r] = "UNUSED"}) \in Slot
           /\ state[First({r \in Slot : state[r] = "UNUSED"})] = "UNUSED"
<1> DEFINE S == {r \in Slot : state[r] = "UNUSED"}
<1>1. S \subseteq Slot /\ S # {}
  BY Zenon
<1>2. First(S) \in S
  <2> HIDE DEF S
  <2> QED
    BY <1>1, FirstIn, Zenon
<1> QED
  BY <1>2, Zenon

-----------------------------------------------------------------------------
(* Types.                                                                  *)

\* Every step keeps the C types.
LEMMA TypeStep == ProcInvariant /\ [Next]_vars => TypeOK'
<1> SUFFICES ASSUME ProcInvariant, [Next]_vars PROVE TypeOK'
  BY Zenon
<1>type. TypeOK
  BY Zenon DEF ProcInvariant
<1>0. initproc \in Slot
  BY ProcAssumption DEF Slot, initproc
<1>1. ASSUME NEW c \in CPU, SchedDraw(c) PROVE TypeOK'
  <2>1. PICK w \in 0 .. totalTickets - 1 : winner' = [winner EXCEPT ![c] = w]
    BY <1>1, Zenon DEF SchedDraw
  <2> QED
    BY <1>1, <2>1, <1>type DEF TypeOK, SchedDraw, procVars
<1>2. ASSUME NEW c \in CPU, SchedPick(c) PROVE TypeOK'
  <2>1. First(BreakAt(winner[c])) \in Slot
    BY <1>2, FirstIn, Zenon DEF SchedPick, BreakAt
  <2> QED
    BY <1>2, <2>1, <1>type, Zenon DEF TypeOK, SchedPick, States
<1>3. ASSUME NEW c \in CPU, NEW p \in Slot, Swtch(c, p) PROVE TypeOK'
  BY <1>3, <1>type, Zenon DEF TypeOK, Swtch, procVars
<1>4. ASSUME NEW c \in CPU, NEW p \in Slot, Resume(c, p) PROVE TypeOK'
  BY <1>4, <1>type, Zenon DEF TypeOK, Resume, procVars
<1>5. ASSUME NEW c \in CPU, NEW p \in Slot, Yield(c, p) PROVE TypeOK'
  BY <1>5, <1>type, Zenon DEF TypeOK, Yield, States
<1>6. ASSUME NEW c \in CPU, NEW p \in Slot, Syscall(c, p) \/ SysReturn(c, p)
      PROVE  TypeOK'
  BY <1>6, <1>type, Zenon DEF TypeOK, Syscall, SysReturn, PCs
<1>7. ASSUME NEW c \in CPU, NEW p \in Slot, ForkAlloc(c, p) PROVE TypeOK'
  <2> DEFINE q == First({r \in Slot : state[r] = "UNUSED"})
  <2>1. q \in Slot
    BY <1>7, UnusedFound, Zenon DEF ForkAlloc
  <2> QED
    BY <1>7, <2>1, <1>type DEF TypeOK, ForkAlloc, States, PCs, PidAfter
<1>8. ASSUME NEW c \in CPU, NEW p \in Slot, ForkFail(c, p) PROVE TypeOK'
  BY <1>8, <1>type, Zenon DEF TypeOK, ForkFail, States, PCs, NoProc
<1>9. ASSUME NEW c \in CPU, NEW p \in Slot, ForkFill(c, p) PROVE TypeOK'
  <2>1. ForkTickets(p) \in 0 .. INT_MAX
    BY ProcAssumption, <1>type DEF TypeOK, ForkTickets
  <2> QED
    BY <1>9, <2>1, <1>type, Zenon DEF TypeOK, ForkFill, PCs
<1>10. ASSUME NEW c \in CPU, NEW p \in Slot, ForkRun(c, p) PROVE TypeOK'
  BY <1>10, <1>type, Zenon DEF TypeOK, ForkRun, States, PCs, NoProc
<1>11. ASSUME NEW c \in CPU, NEW p \in Slot, Exit(c, p) PROVE TypeOK'
  <2>1. ExitWakeups(p) \in [Slot -> States]
    BY <1>type, Zenon DEF TypeOK, ExitWakeups, Wakeup1, States
  <2>2. Reparent(p) \in [Slot -> Slot \cup {NoProc}]
    BY <1>0, <1>type, Zenon DEF TypeOK, Reparent
  <2> QED
    BY <1>11, <2>1, <2>2, <1>type, Zenon DEF TypeOK, Exit, States
<1>12. ASSUME NEW c \in CPU, NEW p \in Slot, WaitReap(c, p) PROVE TypeOK'
  BY <1>12, <1>type, Zenon DEF TypeOK, WaitReap, States, PCs, NoProc
<1>13. ASSUME NEW c \in CPU, NEW p \in Slot, WaitFail(c, p) \/ WaitSleep(c, p)
       PROVE  TypeOK'
  BY <1>13, <1>type DEF TypeOK, WaitFail, WaitSleep, States, PCs, NoProc
<1>14. ASSUME NEW c \in CPU, NEW p \in Slot, NEW k \in KillArgs, Kill(c, p, k)
       PROVE  TypeOK'
  <2>1. \A q : KillState(q) \in [Slot -> States]
    BY <1>type, Zenon DEF TypeOK, KillState, States
  <2> QED
    BY <1>14, <2>1, <1>type, Zenon DEF TypeOK, Kill, PCs
<1>15. ASSUME NEW c \in CPU, NEW p \in Slot, NEW n \in TicketArgs,
              SetTickets(c, p, n)
       PROVE  TypeOK'
  <2>1. n \in 0 .. INT_MAX
    BY <1>15, ProcAssumption DEF SetTickets, TicketsAccepted
  <2> QED
    BY <1>15, <2>1, <1>type, Zenon DEF TypeOK, SetTickets, PCs
<1>16. CASE UNCHANGED vars
  BY <1>16, <1>type, Zenon DEF TypeOK, vars, procVars
<1> QED
  BY <1>1, <1>2, <1>3, <1>4, <1>5, <1>6, <1>7, <1>8, <1>9, <1>10, <1>11, <1>12, <1>13,
     <1>14, <1>15, <1>16, Zenon DEF Next, Thread

-----------------------------------------------------------------------------
(* What the scans find, and what it means to run.                          *)

\* wait(): the child it reaps is a zombie of the caller.
LEMMA ZombieFound ==
    ASSUME NEW p \in Slot, Zombies(p) # {}
    PROVE  /\ First(Zombies(p)) \in Slot
           /\ state[First(Zombies(p))] = "ZOMBIE"
           /\ parent[First(Zombies(p))] = p
<1>1. First(Zombies(p)) \in Zombies(p)
  BY FirstIn, Zenon DEF Zombies, Children
<1> QED
  BY <1>1, Zenon DEF Zombies, Children

\* scheduler(): the second scan stops at a RUNNABLE process.
LEMMA PickFound ==
    ASSUME NEW w, BreakAt(w) # {}
    PROVE  First(BreakAt(w)) \in Slot /\ state[First(BreakAt(w))] = "RUNNABLE"
<1>1. First(BreakAt(w)) \in BreakAt(w)
  BY FirstIn, Zenon DEF BreakAt
<1> QED
  BY <1>1, Zenon DEF BreakAt

\* kill(), setTicket(): the slot found by pid.
LEMMA PidFound ==
    ASSUME NEW k, NEW q \in Slot, pid[q] = k
    PROVE  /\ First({r \in Slot : pid[r] = k}) \in Slot
           /\ pid[First({r \in Slot : pid[r] = k})] = k
<1> DEFINE S == {r \in Slot : pid[r] = k}
<1>1. S \subseteq Slot /\ S # {}
  BY Zenon
<1>2. First(S) \in S
  <2> HIDE DEF S
  <2> QED
    BY <1>1, FirstIn, Zenon
<1> QED
  BY <1>2, Zenon

\* A thread that runs without ptable.lock is RUNNING.
LEMMA FreeRuns ==
    ASSUME ProcInvariant, NEW c \in CPU, NEW p \in Slot, Free(c, p)
    PROVE  state[p] = "RUNNING" /\ sched[c] = "run" /\ cproc[c] = p /\ lock # c
BY Zenon DEF ProcInvariant, CpuInv, Free, Runs

\* So is a thread in wait() that is about to look for a zombie.
LEMMA WaitRuns ==
    ASSUME ProcInvariant, NEW c \in CPU, NEW p \in Slot, InWait(c, p)
    PROVE  /\ state[p] = "RUNNING" /\ sched[c] = "run" /\ cproc[c] = p
           /\ lock \in {NoCpu, c}
           /\ pc[p] \in {"sys", "wait"}
BY FreeRuns, Zenon DEF InWait, InSys, Runs

\* wakeup1() only turns sleepers into RUNNABLE processes.
LEMMA WakeupState ==
    ASSUME TypeOK, NEW p \in Slot, NEW q \in Slot
    PROVE  \/ ExitWakeups(p)[q] = state[q]
           \/ state[q] = "SLEEPING" /\ ExitWakeups(p)[q] = "RUNNABLE"
BY Zenon DEF ExitWakeups, Wakeup1, TypeOK

\* exit(): the states it leaves behind.
LEMMA ExitStates ==
    ASSUME TypeOK, NEW c \in CPU, NEW p \in Slot, Exit(c, p), NEW q \in Slot
    PROVE  state'[q] = IF q = p THEN "ZOMBIE" ELSE ExitWakeups(p)[q]
<1>1. DOMAIN ExitWakeups(p) = Slot
  BY Zenon DEF ExitWakeups, Wakeup1
<1> QED
  BY <1>1, Zenon DEF Exit

\* exit(): the caller becomes a zombie, and of the others some are woken.
LEMMA ExitEffect ==
    ASSUME ProcInvariant, NEW c \in CPU, NEW p \in Slot, Exit(c, p)
    PROVE  /\ state'[p] = "ZOMBIE"
           /\ \A q \in Slot : q # p =>
                 \/ state'[q] = state[q]
                 \/ state[q] = "SLEEPING" /\ state'[q] = "RUNNABLE"
<1>1. TypeOK
  BY Zenon DEF ProcInvariant
<1>2. ASSUME NEW q \in Slot
      PROVE  /\ state'[q] = IF q = p THEN "ZOMBIE" ELSE ExitWakeups(p)[q]
             /\ \/ ExitWakeups(p)[q] = state[q]
                \/ state[q] = "SLEEPING" /\ ExitWakeups(p)[q] = "RUNNABLE"
  BY <1>1, ExitStates, WakeupState
<1> QED
  BY <1>2, Zenon

-----------------------------------------------------------------------------
(* CPUs and ptable.lock.                                                   *)

\* Every step keeps CpuInv: the lock is handed over across swtch(), and a
\* thread that gives up the CPU stays out of reach until it has left it.
LEMMA CpuStep == ProcInvariant /\ [Next]_vars => CpuInv'
<1> SUFFICES ASSUME ProcInvariant, [Next]_vars PROVE CpuInv'
  BY Zenon
<1>type. /\ state \in [Slot -> States] /\ pc \in [Slot -> PCs]
         /\ cproc \in [CPU -> Slot \cup {NoProc}]
         /\ sched \in [CPU -> {"idle", "pick", "run"}]
  BY Zenon DEF ProcInvariant, TypeOK
<1>cpu. CpuInv
  BY Zenon DEF ProcInvariant
<1>fork. ForkInv
  BY Zenon DEF ProcInvariant
<1>0. NoCpu \notin CPU /\ NoProc \notin Slot
  BY ProcAssumption DEF Slot, NoProc
<1>1. ASSUME NEW c \in CPU, SchedDraw(c) PROVE CpuInv'
  BY <1>1, <1>0, <1>type, <1>cpu DEF CpuInv, OneCpuPerProcess, Runs, SchedDraw,
     procVars
<1>2. ASSUME NEW c \in CPU, SchedPick(c) PROVE CpuInv'
  <2> DEFINE q == First(BreakAt(winner[c]))
  <2>1. q \in Slot /\ state[q] = "RUNNABLE"
    BY <1>2, PickFound, Zenon DEF SchedPick
  <2>2. \A d \in CPU : cproc[d] # q
    BY <1>2, <2>1, <1>0, <1>cpu, Zenon DEF CpuInv, SchedPick
  <2> QED
    BY <1>2, <2>1, <2>2, <1>0, <1>type, <1>cpu DEF CpuInv, OneCpuPerProcess,
       Runs, Live, SchedPick
<1>3. ASSUME NEW c \in CPU, NEW p \in Slot, Swtch(c, p) PROVE CpuInv'
  BY <1>3, <1>0, <1>type, <1>cpu DEF CpuInv, OneCpuPerProcess, Runs, Swtch,
     procVars
<1>4. ASSUME NEW c \in CPU, NEW p \in Slot, Resume(c, p) PROVE CpuInv'
  BY <1>4, <1>0, <1>cpu DEF CpuInv, OneCpuPerProcess, Runs, Resume, procVars
<1>5. ASSUME NEW c \in CPU, NEW p \in Slot, Yield(c, p) PROVE CpuInv'
  BY <1>5, <1>0, FreeRuns, <1>cpu DEF CpuInv, OneCpuPerProcess, Runs, Live, Yield
<1>6. ASSUME NEW c \in CPU, NEW p \in Slot, Syscall(c, p) \/ SysReturn(c, p)
      PROVE  CpuInv'
  BY <1>6, <1>0, <1>type, <1>cpu DEF CpuInv, OneCpuPerProcess, Runs, Syscall,
     SysReturn, InSys, Free
<1>7. ASSUME NEW c \in CPU, NEW p \in Slot, ForkAlloc(c, p) PROVE CpuInv'
  <2> DEFINE q == First({r \in Slot : state[r] = "UNUSED"})
  <2>1. q \in Slot /\ state[q] = "UNUSED"
    BY <1>7, UnusedFound, Zenon DEF ForkAlloc
  <2> QED
    BY <1>7, <2>1, <1>0, <1>type, <1>cpu DEF CpuInv, OneCpuPerProcess, Runs,
       ForkAlloc, InSys
<1>8. ASSUME NEW c \in CPU, NEW p \in Slot, ForkFail(c, p) PROVE CpuInv'
  BY <1>8, <1>0, <1>cpu, <1>fork DEF CpuInv, OneCpuPerProcess, Runs, Live, ForkFail,
     ForkInv, InFork
<1>9. ASSUME NEW c \in CPU, NEW p \in Slot, ForkFill(c, p) PROVE CpuInv'
  BY <1>9, <1>0, <1>cpu DEF CpuInv, OneCpuPerProcess, Runs, ForkFill
<1>10. ASSUME NEW c \in CPU, NEW p \in Slot, ForkRun(c, p) PROVE CpuInv'
  BY <1>10, <1>0, <1>cpu, <1>fork DEF CpuInv, OneCpuPerProcess, Runs, ForkRun, ForkInv,
     InFork
<1>11. ASSUME NEW c \in CPU, NEW p \in Slot, Exit(c, p) PROVE CpuInv'
  <2>1. state[p] = "RUNNING" /\ sched[c] = "run" /\ cproc[c] = p /\ lock # c
    BY <1>11, FreeRuns, Zenon DEF Exit, Exits, InSys
  <2>2. \A q \in Slot : q # p => \/ state'[q] = state[q]
                                 \/ state[q] = "SLEEPING" /\ state'[q] = "RUNNABLE"
    <3> QED
      BY <1>11, ExitEffect, Zenon
  <2>3. state'[p] = "ZOMBIE"
    <3> QED
      BY <1>11, ExitEffect, Zenon
  <2> QED
    BY <1>11, <2>1, <2>2, <2>3, <1>0, <1>cpu DEF CpuInv, OneCpuPerProcess, Runs, Exit
<1>12. ASSUME NEW c \in CPU, NEW p \in Slot, WaitReap(c, p) PROVE CpuInv'
  <2> DEFINE q == First(Zombies(p))
  <2>1. q \in Slot /\ state[q] = "ZOMBIE"
    BY <1>12, ZombieFound, Zenon DEF WaitReap
  <2>2. /\ state[p] = "RUNNING" /\ sched[c] = "run" /\ cproc[c] = p
        /\ lock \in {NoCpu, c}
    BY <1>12, WaitRuns, Zenon DEF WaitReap
  <2> QED
    BY <1>12, <2>1, <2>2, <1>0, <1>type, <1>cpu DEF CpuInv, OneCpuPerProcess,
       Runs, WaitReap
<1>13. ASSUME NEW c \in CPU, NEW p \in Slot, WaitFail(c, p) PROVE CpuInv'
  BY <1>13, WaitRuns, <1>0, <1>type, <1>cpu DEF CpuInv, OneCpuPerProcess, Runs, WaitFail
<1>14. ASSUME NEW c \in CPU, NEW p \in Slot, WaitSleep(c, p) PROVE CpuInv'
  BY <1>14, WaitRuns, <1>0, <1>cpu DEF CpuInv, OneCpuPerProcess, Runs, Live, WaitSleep
<1>15. ASSUME NEW c \in CPU, NEW p \in Slot, NEW k \in KillArgs, Kill(c, p, k)
       PROVE  CpuInv'
  BY <1>15, <1>0, <1>cpu DEF CpuInv, OneCpuPerProcess, Runs, Kill, KillState
<1>16. ASSUME NEW c \in CPU, NEW p \in Slot, NEW n \in TicketArgs,
              SetTickets(c, p, n)
       PROVE  CpuInv'
  BY <1>16, <1>0, <1>cpu DEF CpuInv, OneCpuPerProcess, Runs, SetTickets
<1>17. CASE UNCHANGED vars
  BY <1>17, <1>cpu, Zenon DEF CpuInv, OneCpuPerProcess, Runs, vars, procVars
<1> QED
  BY <1>1, <1>2, <1>3, <1>4, <1>5, <1>6, <1>7, <1>8, <1>9, <1>10, <1>11, <1>12, <1>13,
     <1>14, <1>15, <1>16, <1>17, Zenon DEF Next, Thread


-----------------------------------------------------------------------------
(* Slots under construction, and pids.                                     *)

\* Every step keeps ForkInv: only the fork() that claimed a slot fills it,
\* gives it back or releases it.
LEMMA ForkStep == ProcInvariant /\ [Next]_vars => ForkInv'
<1> SUFFICES ASSUME ProcInvariant, [Next]_vars PROVE ForkInv'
  BY Zenon
<1>type. /\ state \in [Slot -> States] /\ pc \in [Slot -> PCs]
         /\ np \in [Slot -> Slot \cup {NoProc}] /\ kstack \in [Slot -> BOOLEAN]
         /\ parent \in [Slot -> Slot \cup {NoProc}]
  BY Zenon DEF ProcInvariant, TypeOK
<1>fork. ForkInv
  BY Zenon DEF ProcInvariant
<1>tree. TreeInv
  BY Zenon DEF ProcInvariant
<1>0. NoProc \notin Slot /\ initproc \in Slot
  BY ProcAssumption DEF Slot, NoProc, initproc
<1>1. ASSUME NEW c \in CPU, SchedDraw(c) PROVE ForkInv'
  BY <1>1, <1>fork DEF ForkInv, InFork, SchedDraw, procVars
<1>2. ASSUME NEW c \in CPU, SchedPick(c) PROVE ForkInv'
  <2> DEFINE q == First(BreakAt(winner[c]))
  <2>1. q \in Slot /\ state[q] = "RUNNABLE"
    BY <1>2, PickFound, Zenon DEF SchedPick
  <2> QED
    BY <1>2, <2>1, <1>fork DEF ForkInv, InFork, SchedPick
<1>3. ASSUME NEW c \in CPU, NEW p \in Slot, Swtch(c, p) PROVE ForkInv'
  BY <1>3, <1>fork DEF ForkInv, InFork, Swtch, procVars
<1>4. ASSUME NEW c \in CPU, NEW p \in Slot, Resume(c, p) PROVE ForkInv'
  BY <1>4, <1>fork DEF ForkInv, InFork, Resume, procVars
<1>5. ASSUME NEW c \in CPU, NEW p \in Slot, Yield(c, p) PROVE ForkInv'
  BY <1>5, FreeRuns, <1>fork DEF ForkInv, InFork, Yield
<1>6. ASSUME NEW c \in CPU, NEW p \in Slot, Syscall(c, p) \/ SysReturn(c, p)
      PROVE  ForkInv'
  <2>1. pc[p] \in {"user", "sys"} /\ state[p] = "RUNNING"
    BY <1>6, FreeRuns, Zenon DEF Syscall, SysReturn, InSys
  <2> QED
    BY <1>6, <2>1, <1>type, <1>fork DEF ForkInv, InFork, Syscall, SysReturn
<1>7. ASSUME NEW c \in CPU, NEW p \in Slot, ForkAlloc(c, p) PROVE ForkInv'
  <2> DEFINE q == First({r \in Slot : state[r] = "UNUSED"})
  <2>1. q \in Slot /\ state[q] = "UNUSED"
    BY <1>7, UnusedFound, Zenon DEF ForkAlloc
  <2>2. state[p] = "RUNNING" /\ pc[p] = "sys"
    BY <1>7, FreeRuns, Zenon DEF ForkAlloc, InSys
  <2>3. q # initproc /\ q # p
    BY <2>1, <2>2, <1>tree, Zenon DEF TreeInv, Live
  <2>4. /\ state' = [state EXCEPT ![q] = "EMBRYO"]
        /\ pc' = [pc EXCEPT ![p] = "forked", ![q] = "user"]
        /\ np' = [np EXCEPT ![p] = q]
        /\ UNCHANGED <<parent, kstack>>
    BY <1>7, Zenon DEF ForkAlloc
  <2> HIDE DEF q
  <2> QED
    BY <2>1, <2>2, <2>3, <2>4, <1>0, <1>type, <1>fork DEF ForkInv, InFork
<1>8. ASSUME NEW c \in CPU, NEW p \in Slot, ForkFail(c, p) PROVE ForkInv'
  BY <1>8, FreeRuns, <1>type, <1>fork DEF ForkInv, InFork, ForkFail
<1>9. ASSUME NEW c \in CPU, NEW p \in Slot, ForkFill(c, p) PROVE ForkInv'
  BY <1>9, FreeRuns, <1>type, <1>fork DEF ForkInv, InFork, ForkFill
<1>10. ASSUME NEW c \in CPU, NEW p \in Slot, ForkRun(c, p) PROVE ForkInv'
  BY <1>10, FreeRuns, <1>type, <1>fork DEF ForkInv, InFork, ForkRun
<1>11. ASSUME NEW c \in CPU, NEW p \in Slot, Exit(c, p) PROVE ForkInv'
  <2>1. state[p] = "RUNNING" /\ pc[p] \in {"user", "sys"}
    BY <1>11, FreeRuns, Zenon DEF Exit, Exits, InSys
  <2>2. \A q \in Slot : q # p => \/ state'[q] = state[q]
                                 \/ state[q] = "SLEEPING" /\ state'[q] = "RUNNABLE"
    <3> QED
      BY <1>11, ExitEffect, Zenon
  <2>3. state'[p] = "ZOMBIE"
    <3> QED
      BY <1>11, ExitEffect, Zenon
  <2>4. \A q \in Slot : parent[q] # p => parent'[q] = parent[q]
    BY <1>11, Zenon DEF Exit, Reparent
  <2>5. UNCHANGED <<pc, np, kstack>>
    BY <1>11, Zenon DEF Exit
  <2> QED
    BY <2>1, <2>2, <2>3, <2>4, <2>5, <1>0, <1>fork DEF ForkInv, InFork
<1>12. ASSUME NEW c \in CPU, NEW p \in Slot, WaitReap(c, p) PROVE ForkInv'
  <2> DEFINE q == First(Zombies(p))
  <2>1. q \in Slot /\ state[q] = "ZOMBIE"
    BY <1>12, ZombieFound, Zenon DEF WaitReap
  <2>2. state[p] = "RUNNING" /\ pc[p] \in {"sys", "wait"}
    BY <1>12, WaitRuns, Zenon DEF WaitReap
  <2> QED
    BY <1>12, <2>1, <2>2, <1>type, <1>fork DEF ForkInv, InFork, WaitReap
<1>13. ASSUME NEW c \in CPU, NEW p \in Slot, WaitFail(c, p) \/ WaitSleep(c, p)
       PROVE  ForkInv'
  <2>1. state[p] = "RUNNING" /\ pc[p] \in {"sys", "wait"}
    BY <1>13, WaitRuns, Zenon DEF WaitFail, WaitSleep
  <2> QED
    BY <1>13, <2>1, <1>type, <1>fork DEF ForkInv, InFork, WaitFail, WaitSleep
<1>14. ASSUME NEW c \in CPU, NEW p \in Slot, NEW k \in KillArgs, Kill(c, p, k)
       PROVE  ForkInv'
  <2>1. state[p] = "RUNNING" /\ pc[p] = "sys"
    BY <1>14, FreeRuns, Zenon DEF Kill, InSys
  <2> QED
    BY <1>14, <2>1, <1>fork DEF ForkInv, InFork, Kill, KillState
<1>15. ASSUME NEW c \in CPU, NEW p \in Slot, NEW n \in TicketArgs,
              SetTickets(c, p, n)
       PROVE  ForkInv'
  <2>1. state[p] = "RUNNING" /\ pc[p] = "sys"
    BY <1>15, FreeRuns, Zenon DEF SetTickets, InSys
  <2> QED
    BY <1>15, <2>1, <1>fork DEF ForkInv, InFork, SetTickets
<1>16. CASE UNCHANGED vars
  BY <1>16, <1>fork DEF ForkInv, InFork, vars, procVars
<1> QED
  BY <1>1, <1>2, <1>3, <1>4, <1>5, <1>6, <1>7, <1>8, <1>9, <1>10, <1>11, <1>12, <1>13,
     <1>14, <1>15, <1>16, Zenon DEF Next, Thread

\* Every step keeps PidInv: nextpid is never handed out twice.
LEMMA PidStep == ProcInvariant /\ [Next]_vars => PidInv'
<1> SUFFICES ASSUME ProcInvariant, [Next]_vars PROVE PidInv'
  BY Zenon
<1>type. /\ state \in [Slot -> States] /\ pid \in [Slot -> Nat] /\ nextpid \in Nat
         /\ np \in [Slot -> Slot \cup {NoProc}]
  BY Zenon DEF ProcInvariant, TypeOK
<1>fork. ForkInv
  BY Zenon DEF ProcInvariant
<1>pid. PidInv
  BY Zenon DEF ProcInvariant
<1>1. ASSUME NEW c \in CPU, NEW p \in Slot, ForkAlloc(c, p) PROVE PidInv'
  <2> DEFINE q == First({r \in Slot : state[r] = "UNUSED"})
  <2>1. q \in Slot
    BY <1>1, UnusedFound, Zenon DEF ForkAlloc
  <2>2. /\ pid' = [pid EXCEPT ![q] = nextpid]
        /\ nextpid' = nextpid + 1
        /\ state' = [state EXCEPT ![q] = "EMBRYO"]
    BY <1>1, Zenon DEF ForkAlloc, PidAfter
  <2> HIDE DEF q
  <2> QED
    BY <2>1, <2>2, <1>type, <1>pid DEF PidInv
<1>2. ASSUME NEW c \in CPU, NEW p \in Slot, WaitReap(c, p) PROVE PidInv'
  BY <1>2, <1>type, <1>pid DEF PidInv, WaitReap
<1>3. ASSUME NEW c \in CPU, NEW p \in Slot, Exit(c, p) PROVE PidInv'
  <2>1. state[p] = "RUNNING"
    BY <1>3, FreeRuns, Zenon DEF Exit, Exits, InSys
  <2>2. \A q \in Slot : state'[q] # "UNUSED" => state[q] # "UNUSED"
    <3> QED
      BY <1>3, <2>1, ExitEffect, Zenon
  <2> QED
    BY <1>3, <2>2, <1>pid, Zenon DEF PidInv, Exit
<1>4. ASSUME NEW c \in CPU, SchedPick(c) PROVE PidInv'
  <2>1. state[First(BreakAt(winner[c]))] = "RUNNABLE"
    BY <1>4, PickFound, Zenon DEF SchedPick
  <2> QED
    BY <1>4, <2>1, <1>pid DEF PidInv, SchedPick
<1>5. ASSUME NEW c \in CPU, NEW p \in Slot, ForkFail(c, p) \/ ForkRun(c, p)
      PROVE  PidInv'
  BY <1>5, <1>type, <1>fork, <1>pid DEF PidInv, ForkFail, ForkRun, ForkInv,
     InFork
<1>6. ASSUME NEW c \in CPU, NEW p \in Slot, WaitSleep(c, p) \/ Yield(c, p)
      PROVE  PidInv'
  <2>1. state[p] = "RUNNING"
    BY <1>6, WaitRuns, FreeRuns DEF WaitSleep, Yield
  <2> QED
    BY <1>6, <2>1, <1>type, <1>pid, Zenon DEF PidInv, WaitSleep, Yield
<1>7. ASSUME NEW c \in CPU, NEW p \in Slot, NEW k \in KillArgs, Kill(c, p, k)
      PROVE  PidInv'
  BY <1>7, <1>pid DEF PidInv, Kill, KillState
<1>a. ASSUME UNCHANGED <<pid, nextpid, state>> PROVE PidInv'
  BY <1>a, <1>pid, Zenon DEF PidInv
<1>8. ASSUME NEW c \in CPU, NEW p \in Slot,
             \/ Swtch(c, p) \/ Resume(c, p) \/ Syscall(c, p) \/ SysReturn(c, p)
             \/ ForkFill(c, p) \/ WaitFail(c, p)
             \/ \E n \in TicketArgs : SetTickets(c, p, n)
      PROVE  PidInv'
  <2>1. CASE Swtch(c, p) \/ Resume(c, p)
    BY <2>1, <1>a, Zenon DEF Swtch, Resume, procVars
  <2>2. CASE Syscall(c, p) \/ SysReturn(c, p) \/ ForkFill(c, p)
    BY <2>2, <1>a, Zenon DEF Syscall, SysReturn, ForkFill
  <2>3. CASE WaitFail(c, p) \/ \E n \in TicketArgs : SetTickets(c, p, n)
    BY <2>3, <1>a, Zenon DEF WaitFail, SetTickets
  <2> QED
    BY <1>8, <2>1, <2>2, <2>3, Zenon
<1>9. ASSUME NEW c \in CPU, SchedDraw(c) PROVE PidInv'
  BY <1>9, <1>a, Zenon DEF SchedDraw, procVars
<1>10. CASE UNCHANGED vars
  BY <1>10, <1>a, Zenon DEF vars, procVars
<1> QED
  BY <1>1, <1>2, <1>3, <1>4, <1>5, <1>6, <1>7, <1>8, <1>9, <1>10, Zenon DEF Next, Thread

-----------------------------------------------------------------------------
(* The family tree.                                                        *)

\* Steps that leave parents, channels, kill marks and stacks alone, and only
\* move processes between RUNNABLE and RUNNING, keep TreeInv.
LEMMA TreeKept ==
    ASSUME ProcInvariant,
           UNCHANGED <<parent, chan, kstack, killed>>,
           \A q \in Slot :
               /\ \/ state'[q] = state[q]
                  \/ {state[q], state'[q]} \subseteq {"RUNNABLE", "RUNNING"}
               /\ state[q] = "SLEEPING" => pc'[q] = pc[q]
    PROVE  TreeInv'
<1>0. initproc \in Slot
  BY ProcAssumption DEF Slot, initproc
<1>1. /\ state'[initproc] \in Live /\ parent'[initproc] = NoProc
      /\ \A p \in Slot :
          /\ parent'[p] # p
          /\ state'[p] \in Live \cup {"ZOMBIE"} => kstack'[p]
          /\ state'[p] = "SLEEPING" => pc'[p] = "wait"
  BY <1>0 DEF ProcInvariant, TreeInv, Live
<1>2. ParentCanWait'
  BY Zenon DEF ProcInvariant, TreeInv, ParentCanWait
<1>3. WaiterHasReason'
  BY DEF ProcInvariant, TreeInv, WaiterHasReason, Children, Zombies
<1> QED
  BY <1>1, <1>2, <1>3, Zenon DEF TreeInv

\* Every step keeps TreeInv: exit() and wait() leave no orphan and lose no
\* wakeup.
LEMMA TreeStep == ProcInvariant /\ [Next]_vars => TreeInv'
<1> SUFFICES ASSUME ProcInvariant, [Next]_vars PROVE TreeInv'
  BY Zenon
<1>type. TypeOK
  BY Zenon DEF ProcInvariant
<1>fork. ForkInv
  BY Zenon DEF ProcInvariant
<1>tree. TreeInv
  BY Zenon DEF ProcInvariant
<1>wait. WaiterHasReason
  BY <1>tree, Zenon DEF TreeInv
<1>parent. ParentCanWait
  BY <1>tree, Zenon DEF TreeInv
<1>0. NoProc \notin Slot /\ initproc \in Slot
  BY ProcAssumption DEF Slot, NoProc, initproc
<1>1. ASSUME NEW c \in CPU, SchedDraw(c) PROVE TreeInv'
  BY <1>1, TreeKept, Zenon DEF SchedDraw, procVars
<1>2. ASSUME NEW c \in CPU, SchedPick(c) PROVE TreeInv'
  <2>1. state[First(BreakAt(winner[c]))] = "RUNNABLE"
    BY <1>2, PickFound, Zenon DEF SchedPick
  <2>2. \A q \in Slot : \/ state'[q] = state[q]
                        \/ {state[q], state'[q]} \subseteq {"RUNNABLE", "RUNNING"}
    BY <1>2, <2>1 DEF SchedPick
  <2> QED
    BY <1>2, <2>2, TreeKept, Zenon DEF SchedPick
<1>3. ASSUME NEW c \in CPU, NEW p \in Slot,
             Swtch(c, p) \/ Resume(c, p)
      PROVE  TreeInv'
  BY <1>3, TreeKept, Zenon DEF Swtch, Resume, procVars
<1>4. ASSUME NEW c \in CPU, NEW p \in Slot, Yield(c, p) PROVE TreeInv'
  <2>1. state[p] = "RUNNING"
    BY <1>4, FreeRuns, Zenon DEF Yield
  <2>2. \A q \in Slot : \/ state'[q] = state[q]
                        \/ {state[q], state'[q]} \subseteq {"RUNNABLE", "RUNNING"}
    BY <1>4, <2>1 DEF Yield
  <2> QED
    BY <1>4, <2>2, TreeKept, Zenon DEF Yield
<1>5. ASSUME NEW c \in CPU, NEW p \in Slot, Syscall(c, p) \/ SysReturn(c, p)
      PROVE  TreeInv'
  <2>1. state[p] = "RUNNING"
    BY <1>5, FreeRuns, Zenon DEF Syscall, SysReturn, InSys
  <2> QED
    BY <1>5, <2>1, TreeKept, <1>type, Zenon DEF TypeOK, Syscall, SysReturn
<1>6. ASSUME NEW c \in CPU, NEW p \in Slot, NEW n \in TicketArgs,
             SetTickets(c, p, n)
      PROVE  TreeInv'
  <2>1. state[p] = "RUNNING"
    BY <1>6, FreeRuns, Zenon DEF SetTickets, InSys
  <2> QED
    BY <1>6, <2>1, TreeKept DEF SetTickets
<1>7. ASSUME NEW c \in CPU, NEW p \in Slot, ForkAlloc(c, p) PROVE TreeInv'
  <2> DEFINE q == First({r \in Slot : state[r] = "UNUSED"})
  <2>1. q \in Slot /\ state[q] = "UNUSED"
    BY <1>7, UnusedFound, Zenon DEF ForkAlloc
  <2>2. state[p] = "RUNNING"
    BY <1>7, FreeRuns, Zenon DEF ForkAlloc, InSys
  <2>3. /\ state' = [state EXCEPT ![q] = "EMBRYO"]
        /\ pc' = [pc EXCEPT ![p] = "forked", ![q] = "user"]
        /\ UNCHANGED <<parent, chan, killed, kstack>>
    BY <1>7, Zenon DEF ForkAlloc
  <2> HIDE DEF q
  <2>4. ParentCanWait'
    BY <2>1, <2>3, <1>parent DEF ParentCanWait
  <2>5. WaiterHasReason'
    BY <2>1, <2>3, <1>wait DEF WaiterHasReason, Children, Zombies
  <2> QED
    BY <2>1, <2>2, <2>3, <2>4, <2>5, <1>0, <1>type, <1>tree DEF TypeOK, TreeInv, Live
<1>8. ASSUME NEW c \in CPU, NEW p \in Slot, ForkFail(c, p) PROVE TreeInv'
  <2>1. state[p] = "RUNNING" /\ np[p] \in Slot /\ state[np[p]] = "EMBRYO"
    BY <1>8, FreeRuns, <1>fork, Zenon DEF ForkFail, ForkInv, InFork
  <2>2. ParentCanWait'
    BY <1>8, <2>1, <1>parent DEF ForkFail, ParentCanWait
  <2>3. WaiterHasReason'
    BY <1>8, <2>1, <1>wait DEF ForkFail, WaiterHasReason, Children, Zombies
  <2> QED
    BY <1>8, <2>1, <2>2, <2>3, <1>0, <1>tree DEF ForkFail, TreeInv, Live
<1>9. ASSUME NEW c \in CPU, NEW p \in Slot, ForkFill(c, p) PROVE TreeInv'
  <2>1. /\ state[p] = "RUNNING"
        /\ np[p] \in Slot /\ np[p] # initproc /\ state[np[p]] = "EMBRYO"
        /\ parent[np[p]] = NoProc
    BY <1>9, FreeRuns, <1>fork, Zenon DEF ForkFill, ForkInv, InFork
  <2>2. ParentCanWait'
    BY <1>9, <2>1, <1>parent DEF ForkFill, ParentCanWait
  <2>3. WaiterHasReason'
    BY <1>9, <2>1, <1>0, <1>wait DEF ForkFill, WaiterHasReason, Children, Zombies
  <2> QED
    BY <1>9, <2>1, <2>2, <2>3, <1>0, <1>tree DEF ForkFill, TreeInv, Live
<1>10. ASSUME NEW c \in CPU, NEW p \in Slot, ForkRun(c, p) PROVE TreeInv'
  <2>1. /\ state[p] = "RUNNING"
        /\ np[p] \in Slot /\ np[p] # initproc /\ state[np[p]] = "EMBRYO"
        /\ parent[np[p]] = p /\ kstack[np[p]]
    BY <1>10, FreeRuns, <1>fork, Zenon DEF ForkRun, ForkInv, InFork
  <2>2. ParentCanWait'
    BY <1>10, <2>1, <1>parent DEF ForkRun, ParentCanWait
  <2>3. WaiterHasReason'
    BY <1>10, <2>1, <1>wait DEF ForkRun, WaiterHasReason, Children, Zombies
  <2> QED
    BY <1>10, <2>1, <2>2, <2>3, <1>0, <1>tree DEF ForkRun, TreeInv, Live
<1>11. ASSUME NEW c \in CPU, NEW p \in Slot, Exit(c, p) PROVE TreeInv'
  <2>1. state[p] = "RUNNING" /\ p # initproc
    BY <1>11, FreeRuns, Zenon DEF Exit, Exits, InSys
  <2>2. \A q \in Slot : q # p => \/ state'[q] = state[q]
                                 \/ state[q] = "SLEEPING" /\ state'[q] = "RUNNABLE"
    <3> QED
      BY <1>11, ExitEffect, Zenon
  <2>3. state'[p] = "ZOMBIE"
    <3> QED
      BY <1>11, ExitEffect, Zenon
  <2>4. /\ \A q \in Slot :
            parent'[q] = IF parent[q] = p THEN initproc ELSE parent[q]
        /\ UNCHANGED <<pc, kstack, chan, killed>>
    BY <1>11, Zenon DEF Exit, Reparent
  <2>5. parent[p] # p
    BY <1>tree, Zenon DEF TreeInv
  <2>6. ParentCanWait'
    <3> SUFFICES ASSUME NEW q \in Slot \ {initproc},
                        state'[q] \notin {"UNUSED", "EMBRYO"}
                 PROVE  parent'[q] \in Slot /\ state'[parent'[q]] \in Live
      BY Zenon DEF ParentCanWait, Live
    <3>1. state[q] \notin {"UNUSED", "EMBRYO"}
      BY <2>1, <2>2, Zenon
    <3>2. parent[q] \in Slot /\ state[parent[q]] \in Live
      BY <3>1, <1>parent, Zenon DEF ParentCanWait, Live
    <3>3. CASE parent[q] = p
      <4>1. parent'[q] = initproc /\ state[initproc] \in Live
        BY <2>4, <3>3, <1>tree, Zenon DEF TreeInv
      <4> QED
        BY <2>1, <2>2, <4>1, <1>0, Zenon DEF Live
    <3>4. CASE parent[q] # p
      <4>1. parent'[q] = parent[q]
        BY <2>4, <3>4, Zenon
      <4> QED
        BY <2>2, <3>2, <3>4, <4>1, Zenon DEF Live
    <3> QED
      BY <3>3, <3>4, Zenon
  <2>7. ASSUME NEW q \in Slot, state'[q] = "SLEEPING"
        PROVE  /\ chan'[q] = q /\ ~killed'[q]
               /\ Children(q)' # {} /\ Zombies(q)' = {}
    <3>1. q # p /\ state[q] = "SLEEPING" /\ chan[q] = q
      <4>1. q # p /\ state[q] = "SLEEPING"
        BY <2>7, <2>2, <2>3, Zenon
      <4> QED
        BY <4>1, <1>wait, Zenon DEF WaiterHasReason
    <3>2. ExitWakeups(p)[q] = "SLEEPING"
      BY <1>11, <2>7, <3>1, <1>type, ExitStates, Zenon
    <3>3. /\ q # parent[p]
          /\ q = initproc => ~\E r \in Children(p) : state[r] = "ZOMBIE"
      BY <3>1, <3>2, Zenon DEF ExitWakeups, Wakeup1
    <3>4. PICK r \in Slot : parent[r] = q
      BY <3>1, <1>wait, Zenon DEF WaiterHasReason, Children
    <3>5. parent'[r] = q
      BY <2>4, <3>1, <3>4, Zenon
    <3>6. ASSUME NEW z \in Slot, parent'[z] = q, state'[z] = "ZOMBIE"
          PROVE  FALSE
      <4>1. z # p
        BY <3>6, <3>3, <2>4, <2>5, Zenon
      <4>2. state[z] = "ZOMBIE"
        BY <4>1, <3>6, <2>2, Zenon
      <4>3. parent[z] = q \/ (parent[z] = p /\ q = initproc)
        BY <3>6, <2>4, Zenon
      <4>4. parent[z] # q
        BY <4>2, <3>1, <1>wait, Zenon DEF WaiterHasReason, Children, Zombies
      <4> QED
        BY <4>2, <4>3, <4>4, <3>3, Zenon DEF Children
    <3> QED
      BY <3>1, <3>5, <3>6, <2>4, <1>wait DEF WaiterHasReason, Children, Zombies
  <2>8. WaiterHasReason'
    BY <2>7, Zenon DEF WaiterHasReason
  <2>9. /\ state'[initproc] \in Live /\ parent'[initproc] = NoProc
        /\ \A q \in Slot :
            /\ parent'[q] # q
            /\ state'[q] \in Live \cup {"ZOMBIE"} => kstack'[q]
            /\ state'[q] = "SLEEPING" => pc'[q] = "wait"
    <3>1. /\ state[initproc] \in Live /\ parent[initproc] = NoProc
          /\ \A q \in Slot :
              /\ parent[q] # q
              /\ state[q] \in Live \cup {"ZOMBIE"} => kstack[q]
              /\ state[q] = "SLEEPING" => pc[q] = "wait"
      BY <1>tree, Zenon DEF TreeInv
    <3>2. state'[initproc] \in Live /\ parent'[initproc] = NoProc
      BY <2>1, <2>2, <2>4, <3>1, <1>0, Zenon DEF Live
    <3>3. ASSUME NEW q \in Slot
          PROVE  /\ state'[q] \in Live \cup {"ZOMBIE"} => kstack'[q]
                 /\ state'[q] = "SLEEPING" => pc'[q] = "wait"
      BY <2>1, <2>2, <2>3, <2>4, <3>1 DEF Live
    <3>4. ASSUME NEW q \in Slot PROVE parent'[q] # q
      BY <2>1, <2>4, <3>1, <1>0
    <3> QED
      BY <3>2, <3>3, <3>4, Zenon
  <2> QED
    BY <2>6, <2>8, <2>9, Zenon DEF TreeInv
<1>12. ASSUME NEW c \in CPU, NEW p \in Slot, WaitReap(c, p) PROVE TreeInv'
  <2> DEFINE q == First(Zombies(p))
  <2>1. q \in Slot /\ state[q] = "ZOMBIE" /\ parent[q] = p
    BY <1>12, ZombieFound, Zenon DEF WaitReap
  <2>2. state[p] = "RUNNING"
    BY <1>12, WaitRuns, Zenon DEF WaitReap
  <2>3. /\ state' = [state EXCEPT ![q] = "UNUSED"]
        /\ kstack' = [kstack EXCEPT ![q] = FALSE]
        /\ parent' = [parent EXCEPT ![q] = NoProc]
        /\ killed' = [killed EXCEPT ![q] = FALSE]
        /\ chan' = [chan EXCEPT ![p] = NoProc]
        /\ pc' = [pc EXCEPT ![p] = "user"]
    BY <1>12, Zenon DEF WaitReap
  <2> HIDE DEF q
  <2>4. ParentCanWait'
    BY <2>1, <2>2, <2>3, <1>type, <1>parent, Zenon DEF TypeOK, ParentCanWait
  <2>5. WaiterHasReason'
    BY <2>1, <2>2, <2>3, <1>0, <1>wait DEF WaiterHasReason, Children, Zombies
  <2> QED
    BY <2>1, <2>2, <2>3, <2>4, <2>5, <1>0, <1>type, <1>tree DEF TypeOK, TreeInv, Live
<1>13. ASSUME NEW c \in CPU, NEW p \in Slot, WaitFail(c, p) PROVE TreeInv'
  <2>1. state[p] = "RUNNING"
    BY <1>13, WaitRuns, Zenon DEF WaitFail
  <2>2. WaiterHasReason'
    BY <1>13, <2>1, <1>wait DEF WaitFail, WaiterHasReason, Children, Zombies
  <2> QED
    BY <1>13, <2>1, <2>2, <1>tree DEF WaitFail, TreeInv, ParentCanWait
<1>14. ASSUME NEW c \in CPU, NEW p \in Slot, WaitSleep(c, p) PROVE TreeInv'
  <2>1. state[p] = "RUNNING"
    BY <1>14, WaitRuns, Zenon DEF WaitSleep
  <2>2. /\ state' = [state EXCEPT ![p] = "SLEEPING"]
        /\ chan' = [chan EXCEPT ![p] = p]
        /\ UNCHANGED <<parent, killed, kstack>>
        /\ Children(p) # {} /\ Zombies(p) = {} /\ ~killed[p]
    BY <1>14, Zenon DEF WaitSleep
  <2>3. state \in [Slot -> States] /\ chan \in [Slot -> Slot \cup {NoProc}]
    BY <1>type, Zenon DEF TypeOK
  <2>4. WaiterHasReason'
    BY <2>1, <2>2, <2>3, <1>wait DEF WaiterHasReason, Children, Zombies
  <2>5. ParentCanWait'
    BY <2>1, <2>2, <2>3, <1>parent, Zenon DEF ParentCanWait
  <2> QED
    BY <1>14, <2>1, <2>4, <2>5, <1>0, <1>type, <1>tree, Zenon DEF TypeOK, WaitSleep, TreeInv,
       Live
<1>15. ASSUME NEW c \in CPU, NEW p \in Slot, NEW k \in KillArgs, Kill(c, p, k)
       PROVE  TreeInv'
  <2> DEFINE q == First({r \in Slot : pid[r] = k})
  <2>1. q \in Slot
    BY <1>15, PidFound, Zenon DEF Kill
  <2>2. state[p] = "RUNNING"
    BY <1>15, FreeRuns, Zenon DEF Kill, InSys
  <2>3. /\ killed' = [killed EXCEPT ![q] = TRUE]
        /\ state' = IF state[q] = "SLEEPING"
                    THEN [state EXCEPT ![q] = "RUNNABLE"] ELSE state
        /\ pc' = [pc EXCEPT ![p] = "user"]
        /\ UNCHANGED <<parent, chan, kstack>>
    BY <1>15, Zenon DEF Kill, KillState
  <2> HIDE DEF q
  <2>4. ParentCanWait'
    BY <2>1, <2>3, <1>parent DEF ParentCanWait
  <2>5. WaiterHasReason'
    BY <2>1, <2>3, <1>type, <1>wait DEF TypeOK, WaiterHasReason, Children, Zombies
  <2> QED
    BY <2>1, <2>2, <2>3, <2>4, <2>5, <1>0, <1>tree DEF TreeInv, Live
<1>16. CASE UNCHANGED vars
  BY <1>16, TreeKept, Zenon DEF vars, procVars
<1> QED
  BY <1>1, <1>2, <1>3, <1>4, <1>5, <1>6, <1>7, <1>8, <1>9, <1>10, <1>11, <1>12, <1>13,
     <1>14, <1>15, <1>16, Zenon DEF Next, Thread

-----------------------------------------------------------------------------
(* The lottery.                                                            *)

\* The equations of a scan of scheduler() over slots 1..n.
IsScan(f, w, n) ==
    f = [i \in 0 .. n |-> IF i = 0 THEN 0 ELSE Wrap(f[i-1] + w[i])]

\* Adding tickets to an int gives an int.
LEMMA WrapInt ==
    ASSUME NEW x \in Int, x <= INT_MAX, NEW t \in 0 .. INT_MAX
    PROVE  Wrap(x + t) \in Int /\ Wrap(x + t) <= INT_MAX
BY ProcAssumption DEF Wrap

\* A scan over any number of slots exists.
LEMMA ScanExists ==
    ASSUME NEW w, NEW m \in Nat
    PROVE  \E f : IsScan(f, w, m)
<1> DEFINE Bad == {n \in Nat : ~\E f : IsScan(f, w, n)}
<1> SUFFICES ASSUME Bad # {} PROVE FALSE
  BY Zenon
<1>1. PICK n \in Bad : \A k \in Bad : n <= k
  BY NatMin, Zenon
<1>2. n # 0
  <2>1. IsScan([i \in 0 .. 0 |-> 0], w, 0)
    BY DEF IsScan
  <2> QED
    BY <2>1, Zenon
<1>3. n - 1 \in Nat /\ n - 1 \notin Bad
  BY <1>1, <1>2
<1>4. PICK f : IsScan(f, w, n - 1)
  BY <1>3, Zenon
<1> DEFINE g == [i \in 0 .. n |->
                    IF i = n THEN Wrap(f[n-1] + w[n]) ELSE f[i]]
<1>5. IsScan(g, w, n)
  <2>1. ASSUME NEW i \in 0 .. n
        PROVE  g[i] = IF i = 0 THEN 0 ELSE Wrap(g[i-1] + w[i])
    <3>1. CASE i = n
      <4>1. g[i-1] = f[n-1]
        BY <3>1, <1>2
      <4> QED
        BY <3>1, <4>1, <1>2, Zenon
    <3>2. CASE i # n
      <4>1. i \in 0 .. n - 1 /\ g[i] = f[i]
        BY <3>2
      <4>2. f[i] = IF i = 0 THEN 0 ELSE Wrap(f[i-1] + w[i])
        BY <4>1, <1>4, Zenon DEF IsScan
      <4>3. i # 0 => g[i-1] = f[i-1]
        BY <3>2
      <4> QED
        BY <4>1, <4>2, <4>3, Zenon
    <3> QED
      BY <3>1, <3>2, Zenon
  <2> QED
    BY <2>1, Zenon DEF IsScan
<1> QED
  BY <1>5, Zenon

\* The accumulator of scheduler() obeys its loop.
LEMMA CounterLoop ==
    ASSUME NEW w
    PROVE  /\ Counter(w)[0] = 0
           /\ \A i \in 1 .. NPROC :
               Counter(w)[i] = Wrap(Counter(w)[i-1] + w[i])
<1>1. PICK f : IsScan(f, w, NPROC)
  BY ScanExists, ProcAssumption, Zenon
<1>2. IsScan(Counter(w), w, NPROC)
  BY <1>1, Zenon DEF IsScan, Counter
<1> DEFINE g == Counter(w)
<1>3. g = [i \in 0 .. NPROC |-> IF i = 0 THEN 0 ELSE Wrap(g[i-1] + w[i])]
  BY <1>2, Zenon DEF IsScan
<1> HIDE DEF g
<1>4. g[0] = 0 /\ \A i \in 1 .. NPROC : g[i] = Wrap(g[i-1] + w[i])
  BY <1>3, ProcAssumption
<1> QED
  BY <1>4, Zenon DEF g

\* The accumulator stays an int.
LEMMA CounterInt ==
    ASSUME NEW w \in [Slot -> 0 .. INT_MAX], NEW m \in 0 .. NPROC
    PROVE  Counter(w)[m] \in Int /\ Counter(w)[m] <= INT_MAX
<1> DEFINE g == Counter(w)
           Bad == {i \in 0 .. NPROC : ~(g[i] \in Int /\ g[i] <= INT_MAX)}
<1>1. g[0] = 0 /\ \A i \in 1 .. NPROC : g[i] = Wrap(g[i-1] + w[i])
  BY CounterLoop, Zenon
<1> HIDE DEF g
<1> SUFFICES ASSUME Bad # {} PROVE FALSE
  BY Zenon DEF g
<1>2. PICK n \in Bad : \A k \in Bad : n <= k
  <2>1. Bad \subseteq Nat
    BY ProcAssumption
  <2> HIDE DEF Bad
  <2> QED
    BY <2>1, NatMin, Zenon
<1>3. n # 0
  BY <1>1, ProcAssumption
<1>4. n \in 1 .. NPROC /\ n - 1 \in 0 .. NPROC /\ n - 1 \notin Bad
  BY <1>2, <1>3, ProcAssumption
<1>5. g[n-1] \in Int /\ g[n-1] <= INT_MAX /\ w[n] \in 0 .. INT_MAX
  BY <1>4, Zenon DEF Slot
<1>6. g[n] \in Int /\ g[n] <= INT_MAX
  BY <1>1, <1>4, <1>5, WrapInt, Zenon
<1> QED
  BY <1>6, <1>4, Zenon

\* A slot that is not RUNNABLE does not count.
LEMMA WeightType == TypeOK => Weight \in [Slot -> 0 .. INT_MAX]
BY ProcAssumption DEF TypeOK, Weight

\* scheduler(): a ticket below the total has an owner, also after an overflow.
LEMMA TicketHasOwner ==
    ASSUME TypeOK, NEW v \in Nat, v < totalTickets
    PROVE  BreakAt(v) # {}
<1> DEFINE g == Counter(Weight)
           Above == {i \in 0 .. NPROC : g[i] > v}
<1>1. g[0] = 0 /\ \A i \in 1 .. NPROC : g[i] = Wrap(g[i-1] + Weight[i])
  BY CounterLoop, Zenon
<1>2. \A i \in 0 .. NPROC : g[i] \in Int /\ g[i] <= INT_MAX
  BY WeightType, CounterInt, Zenon
<1>3. NPROC \in Above
  BY ProcAssumption DEF totalTickets
<1> HIDE DEF g
<1>4. PICK n \in Above : \A k \in Above : n <= k
  <2>1. Above \subseteq Nat
    BY ProcAssumption
  <2> HIDE DEF Above
  <2> QED
    BY <1>3, <2>1, NatMin, Zenon
<1>5. n # 0
  BY <1>1, <1>4
<1>6. n \in Slot /\ n - 1 \in 0 .. NPROC /\ n - 1 \notin Above
  BY <1>4, <1>5, ProcAssumption DEF Slot
<1>7. state[n] = "RUNNABLE"
  <2> SUFFICES ASSUME state[n] # "RUNNABLE" PROVE FALSE
    BY Zenon
  <2>1. Weight[n] = 0
    BY <1>6, Zenon DEF Weight
  <2>2. g[n] = Wrap(g[n-1] + 0)
    BY <1>1, <1>6, <2>1, Zenon DEF Slot
  <2>3. g[n] = g[n-1]
    <3>1. g[n-1] \in Int /\ g[n-1] <= INT_MAX
      BY <1>2, <1>6, Zenon
    <3>2. g[n-1] + 0 = g[n-1]
      BY <3>1
    <3>3. Wrap(g[n-1]) = g[n-1]
      BY <3>1, ProcAssumption DEF Wrap
    <3> QED
      BY <2>2, <3>2, <3>3, Zenon
  <2> QED
    BY <2>3, <1>4, <1>6, Zenon
<1> QED
  BY <1>4, <1>6, <1>7, Zenon DEF BreakAt, g

\* What a RUNNABLE process weighs decides the total.
LEMMA SameWeight == Weight' = Weight => totalTickets' = totalTickets
BY Zenon DEF totalTickets

\* setTicket(): a process in use finds itself.
LEMMA OwnSlot ==
    ASSUME ProcInvariant, NEW p \in Slot, state[p] # "UNUSED"
    PROVE  First({q \in Slot : pid[q] = pid[p]}) = p
<1>1. pid[First({q \in Slot : pid[q] = pid[p]})] = pid[p]
  BY PidFound, Zenon
<1>2. First({q \in Slot : pid[q] = pid[p]}) \in Slot
  BY PidFound, Zenon
<1> QED
  BY <1>1, <1>2, Zenon DEF ProcInvariant, PidInv

\* Every step keeps DrawInv: what the other CPUs may do while the lock is held
\* changes neither which processes are RUNNABLE nor their tickets.
LEMMA DrawStep == ProcInvariant /\ [Next]_vars => DrawInv'
<1> SUFFICES ASSUME ProcInvariant, [Next]_vars, NEW d \in CPU,
                    sched'[d] = "pick"
             PROVE  (winner[d] < totalTickets)'
  BY Zenon DEF DrawInv
<1>type. TypeOK
  BY Zenon DEF ProcInvariant
<1>cpu. CpuInv
  BY Zenon DEF ProcInvariant
<1>fork. ForkInv
  BY Zenon DEF ProcInvariant
<1>draw. DrawInv
  BY Zenon DEF ProcInvariant
<1>0. NoCpu \notin CPU
  BY ProcAssumption, Zenon
<1>a. ASSUME sched[d] = "pick", winner'[d] = winner[d], Weight' = Weight
      PROVE  (winner[d] < totalTickets)'
  BY <1>a, SameWeight, <1>draw, Zenon DEF DrawInv
<1>b. sched[d] = "pick" => lock = d
  BY <1>cpu, Zenon DEF CpuInv
<1>1. ASSUME NEW c \in CPU, SchedDraw(c) PROVE (winner[d] < totalTickets)'
  <2>1. Weight' = Weight
    BY <1>1, Zenon DEF SchedDraw, procVars, Weight
  <2>2. totalTickets' = totalTickets
    BY <2>1, SameWeight, Zenon
  <2>3. sched[d] = "pick" => FALSE
    BY <1>1, <1>b, <1>0, Zenon DEF SchedDraw
  <2>4. d = c
    BY <1>1, <2>3 DEF SchedDraw
  <2>5. totalTickets \in Int
    <3>1. Weight \in [Slot -> 0 .. INT_MAX]
      BY WeightType, Zenon DEF ProcInvariant
    <3>2. NPROC \in 0 .. NPROC
      BY ProcAssumption
    <3> QED
      BY <3>1, <3>2, CounterInt, Zenon DEF totalTickets
  <2> QED
    BY <1>1, <2>2, <2>4, <2>5, <1>type DEF TypeOK, SchedDraw
<1>2. ASSUME NEW c \in CPU, SchedPick(c) PROVE (winner[d] < totalTickets)'
  <2>1. sched[c] = "pick" /\ d # c /\ sched[d] = "pick"
    BY <1>2, <1>type, Zenon DEF TypeOK, SchedPick
  <2> QED
    BY <2>1, <1>b, <1>cpu, Zenon DEF CpuInv
<1>3. ASSUME NEW c \in CPU, NEW p \in Slot,
             Swtch(c, p) \/ Resume(c, p) \/ Yield(c, p) \/ ForkAlloc(c, p)
                 \/ ForkRun(c, p) \/ Exit(c, p)
                 \/ (\E k \in KillArgs : Kill(c, p, k))
      PROVE  FALSE
  <2>1. sched[d] = "pick"
    BY <1>3, <1>type, Zenon DEF TypeOK, Swtch, Resume, Yield, ForkAlloc, ForkRun, Exit,
       Kill
  <2>2. lock = NoCpu \/ (lock = c /\ sched[c] = "run")
    BY <1>3, Zenon DEF Swtch, Resume, Yield, ForkAlloc, ForkRun, Exit, Kill, Runs
  <2> QED
    BY <2>1, <2>2, <1>b, <1>0, Zenon
<1>4. ASSUME NEW c \in CPU, NEW p \in Slot,
             WaitReap(c, p) \/ WaitFail(c, p) \/ WaitSleep(c, p)
      PROVE  FALSE
  <2>1. sched[d] = "pick"
    BY <1>4, Zenon DEF WaitReap, WaitFail, WaitSleep
  <2>2. lock = NoCpu \/ (lock = c /\ sched[c] = "run")
    BY <1>4, WaitRuns, Zenon DEF WaitReap, WaitFail, WaitSleep
  <2> QED
    BY <2>1, <2>2, <1>b, <1>0, Zenon
<1>5. ASSUME NEW c \in CPU, NEW p \in Slot, Syscall(c, p) \/ SysReturn(c, p)
      PROVE  (winner[d] < totalTickets)'
  BY <1>5, <1>a, Zenon DEF Syscall, SysReturn, Weight
<1>6. ASSUME NEW c \in CPU, NEW p \in Slot, ForkFail(c, p)
      PROVE  (winner[d] < totalTickets)'
  <2>1. np[p] \in Slot /\ state[np[p]] = "EMBRYO"
    BY <1>6, <1>fork, Zenon DEF ForkFail, ForkInv, InFork
  <2>2. Weight' = Weight
    BY <1>6, <2>1 DEF ForkFail, Weight
  <2> QED
    BY <1>6, <2>2, <1>a, Zenon DEF ForkFail
<1>7. ASSUME NEW c \in CPU, NEW p \in Slot, ForkFill(c, p)
      PROVE  (winner[d] < totalTickets)'
  <2>1. np[p] \in Slot /\ state[np[p]] = "EMBRYO"
    BY <1>7, <1>fork, Zenon DEF ForkFill, ForkInv, InFork
  <2>2. Weight' = Weight
    BY <1>7, <2>1 DEF ForkFill, Weight
  <2> QED
    BY <1>7, <2>2, <1>a, Zenon DEF ForkFill
<1>8. ASSUME NEW c \in CPU, NEW p \in Slot, NEW n \in TicketArgs,
             SetTickets(c, p, n)
      PROVE  (winner[d] < totalTickets)'
  <2>1. state[p] = "RUNNING"
    BY <1>8, FreeRuns, Zenon DEF SetTickets, InSys
  <2>2. SetTicketsSlot(p) = p
    BY <2>1, OwnSlot, Zenon DEF SetTicketsSlot
  <2>3. Weight' = Weight
    BY <1>8, <2>1, <2>2 DEF SetTickets, Weight
  <2> QED
    BY <1>8, <2>3, <1>a, Zenon DEF SetTickets
<1>9. CASE UNCHANGED vars
  BY <1>9, <1>a, Zenon DEF vars, procVars, Weight
<1> QED
  BY <1>1, <1>2, <1>3, <1>4, <1>5, <1>6, <1>7, <1>8, <1>9, Zenon DEF Next, Thread

-----------------------------------------------------------------------------
(* The theorems.                                                           *)

\* userinit() establishes the invariant.
LEMMA InitInvariant == Init => ProcInvariant
<1> SUFFICES ASSUME Init PROVE ProcInvariant
  BY Zenon
<1>0. NoProc \notin Slot /\ initproc \in Slot /\ NoCpu \notin CPU
  BY ProcAssumption DEF Slot, NoProc, initproc
<1>1. TypeOK
  BY ProcAssumption, <1>0 DEF Init, TypeOK, States, PCs, NoProc, initproc
<1>2. CpuInv
  BY <1>0, Zenon DEF Init, CpuInv, OneCpuPerProcess
<1>3. ForkInv
  BY <1>0, Zenon DEF Init, ForkInv, InFork
<1>4. TreeInv
  <2>1. ParentCanWait
    BY Zenon DEF Init, ParentCanWait
  <2>2. WaiterHasReason
    BY Zenon DEF Init, WaiterHasReason
  <2> QED
    BY <1>0, <2>1, <2>2, Zenon DEF Init, TreeInv, Live
<1>5. PidInv
  BY DEF Init, PidInv
<1>6. DrawInv
  BY Zenon DEF Init, DrawInv
<1> QED
  BY <1>1, <1>2, <1>3, <1>4, <1>5, <1>6, Zenon DEF ProcInvariant

\* ProcInvariant is inductive: it holds in every reachable state of proc.c.
THEOREM ProcInvariance == Spec => []ProcInvariant
<1>1. ProcInvariant /\ [Next]_vars => ProcInvariant'
  BY TypeStep, CpuStep, ForkStep, TreeStep, PidStep, DrawStep, Zenon DEF ProcInvariant
<1> QED
  BY <1>1, InitInvariant, PTL DEF Spec

\* scheduler(), sched(): no two CPUs ever run on the same kernel stack.
THEOREM NoSharedStack == Spec => []OneCpuPerProcess
<1>1. ProcInvariant => OneCpuPerProcess
  BY Zenon DEF ProcInvariant, CpuInv
<1> QED
  BY <1>1, ProcInvariance, PTL

\* wait(): a kernel stack is never freed under the thread that uses it.
THEOREM StackStaysAllocated == Spec => []StackInUse
<1>1. ProcInvariant => StackInUse
  BY Zenon DEF ProcInvariant, CpuInv, TreeInv, StackInUse, Live
<1> QED
  BY <1>1, ProcInvariance, PTL

\* exit(), wait(), kill(): no wakeup of a waiting parent is lost.
THEOREM NoLostWakeup == Spec => []WaiterHasReason
<1>1. ProcInvariant => WaiterHasReason
  BY Zenon DEF ProcInvariant, TreeInv
<1> QED
  BY <1>1, ProcInvariance, PTL

\* exit(): every process in use has a parent that can wait for it.
THEOREM NoOrphan == Spec => []ParentCanWait
<1>1. ProcInvariant => ParentCanWait
  BY Zenon DEF ProcInvariant, TreeInv
<1> QED
  BY <1>1, ProcInvariance, PTL

\* allocproc(): a pid leads to the process it was given to.
THEOREM PidsAreUnique == Spec => []PidFindsOwner
<1>1. ProcInvariant => PidFindsOwner
  BY OwnSlot, Zenon DEF PidFindsOwner
<1> QED
  BY <1>1, ProcInvariance, PTL

\* scheduler(): the winning ticket has an owner, for every number of tickets,
\* although settickets changes tickets without ptable.lock.
THEOREM DrawAlwaysWins == Spec => []DrawHasWinner
<1>1. ProcInvariant => DrawHasWinner
  <2> SUFFICES ASSUME ProcInvariant, NEW c \in CPU, sched[c] = "pick"
               PROVE  winner[c] < totalTickets /\ BreakAt(winner[c]) # {}
    BY Zenon DEF DrawHasWinner
  <2>1. winner[c] < totalTickets /\ winner[c] \in Nat
    BY Zenon DEF ProcInvariant, DrawInv, TypeOK
  <2> QED
    BY <2>1, TicketHasOwner, Zenon DEF ProcInvariant
<1> QED
  BY <1>1, ProcInvariance, PTL

-----------------------------------------------------------------------------
(* When the total cannot overflow.                                         *)

\* With at most M tickets per slot and room for NPROC * M, the accumulator is
\* the exact sum, so it reaches the weight of every slot it has passed.
LEMMA CounterBound ==
    ASSUME NEW M \in Nat, NPROC * M <= INT_MAX,
           NEW w \in [Slot -> 0 .. M], NEW m \in 0 .. NPROC
    PROVE  /\ Counter(w)[m] \in 0 .. m * M
           /\ \A p \in 1 .. m : w[p] <= Counter(w)[m]
<1> DEFINE g == Counter(w)
           Good(i) == g[i] \in 0 .. i * M /\ \A p \in 1 .. i : w[p] <= g[i]
           Bad == {i \in 0 .. NPROC : ~Good(i)}
<1>1. g[0] = 0 /\ \A i \in 1 .. NPROC : g[i] = Wrap(g[i-1] + w[i])
  BY CounterLoop, Zenon
<1> HIDE DEF g
<1> SUFFICES ASSUME Bad # {} PROVE FALSE
  BY Zenon DEF g
<1>2. PICK n \in Bad : \A k \in Bad : n <= k
  <2>1. Bad \subseteq Nat
    BY ProcAssumption
  <2> HIDE DEF Bad
  <2> QED
    BY <2>1, NatMin, Zenon
<1>3. n # 0
  <2>1. Good(0)
    BY <1>1
  <2> QED
    BY <2>1, <1>2, Zenon
<1>4. n \in 1 .. NPROC /\ n - 1 \in 0 .. NPROC /\ n - 1 \notin Bad
  BY <1>2, <1>3, ProcAssumption
<1>5. g[n-1] \in 0 .. (n - 1) * M /\ \A p \in 1 .. n - 1 : w[p] <= g[n-1]
  BY <1>4, Zenon
<1>6. w[n] \in 0 .. M /\ \A p \in 1 .. n : w[p] \in 0 .. M
  BY <1>4, ProcAssumption DEF Slot
<1>7. (n - 1) * M + M = n * M /\ n * M <= NPROC * M
  BY <1>4, ProcAssumption
<1>8. g[n-1] + w[n] \in 0 .. n * M /\ g[n-1] + w[n] <= INT_MAX
  <2>1. (n - 1) * M \in Nat /\ n * M \in Nat /\ NPROC * M \in Nat
    BY <1>4, ProcAssumption
  <2> QED
    BY <2>1, <1>5, <1>6, <1>7, ProcAssumption
<1>9. g[n] = g[n-1] + w[n]
  BY <1>1, <1>4, <1>8, ProcAssumption DEF Wrap
<1>10. ASSUME NEW p \in 1 .. n PROVE w[p] <= g[n]
  <2>1. g[n-1] \in Nat /\ w[n] \in Nat /\ w[p] \in Nat
    BY <1>5, <1>6, <1>4, ProcAssumption
  <2>2. p = n \/ p \in 1 .. n - 1
    BY <1>4
  <2> QED
    BY <2>1, <2>2, <1>5, <1>9
<1> QED
  BY <1>8, <1>9, <1>10, <1>4, Zenon

\* Tickets of processes in use: at least the minimum, at most M.
TicketInv(M) ==
    /\ \A p \in Slot : tickets[p] <= M
    /\ \A p \in Slot : state[p] \in Live \cup {"ZOMBIE"} =>
        tickets[p] >= MINTICKETS
    /\ \A p \in Slot : pc[p] = "filled" => tickets[np[p]] >= MINTICKETS

\* Every step keeps TicketInv: fork() and settickets both enforce the minimum.
LEMMA TicketStep ==
    ASSUME NEW M \in Nat, MINTICKETS <= M, \A n \in TicketArgs : n <= M
    PROVE  ProcInvariant /\ TicketInv(M) /\ [Next]_vars => TicketInv(M)'
<1> SUFFICES ASSUME ProcInvariant, TicketInv(M), [Next]_vars
             PROVE  TicketInv(M)'
  BY Zenon
<1>type. /\ state \in [Slot -> States] /\ pc \in [Slot -> PCs]
         /\ np \in [Slot -> Slot \cup {NoProc}] /\ tickets \in [Slot -> 0 .. INT_MAX]
  BY Zenon DEF ProcInvariant, TypeOK
<1>fork. \A p \in Slot : pc[p] \in {"forked", "filled"} =>
            np[p] \in Slot /\ state[np[p]] = "EMBRYO"
  BY Zenon DEF ProcInvariant, ForkInv, InFork
<1>a. ASSUME tickets' = tickets,
             \A q \in Slot : state'[q] \in Live \cup {"ZOMBIE"} =>
                 state[q] \in Live \cup {"ZOMBIE"},
             \A q \in Slot : pc'[q] = "filled" => pc[q] = "filled" /\ np'[q] = np[q]
      PROVE  TicketInv(M)'
  BY <1>a, Zenon DEF TicketInv
<1>1. ASSUME NEW c \in CPU, SchedPick(c) PROVE TicketInv(M)'
  <2>1. state[First(BreakAt(winner[c]))] = "RUNNABLE"
    BY <1>1, PickFound, Zenon DEF SchedPick
  <2> QED
    BY <1>1, <1>a, <2>1 DEF Live, SchedPick
<1>2. ASSUME NEW c \in CPU, NEW p \in Slot, WaitSleep(c, p) PROVE TicketInv(M)'
  <2>1. state[p] = "RUNNING"
    BY <1>2, WaitRuns, Zenon DEF WaitSleep
  <2> QED
    BY <1>2, <1>a, <2>1, <1>type, Zenon DEF Live, WaitSleep
<1>2a. ASSUME NEW c \in CPU, NEW p \in Slot, Yield(c, p) PROVE TicketInv(M)'
  <2>1. state[p] = "RUNNING"
    BY <1>2a, FreeRuns, Zenon DEF Yield
  <2> QED
    BY <1>2a, <1>a, <2>1, <1>type, Zenon DEF Live, Yield
<1>3. ASSUME NEW c \in CPU, NEW p \in Slot,
             Syscall(c, p) \/ SysReturn(c, p) \/ WaitFail(c, p)
      PROVE  TicketInv(M)'
  BY <1>3, <1>a, <1>type, Zenon DEF Syscall, SysReturn, WaitFail
<1>4. ASSUME NEW c \in CPU, NEW p \in Slot, ForkAlloc(c, p) PROVE TicketInv(M)'
  <2> DEFINE q == First({r \in Slot : state[r] = "UNUSED"})
  <2>1. q \in Slot
    BY <1>4, UnusedFound, Zenon DEF ForkAlloc
  <2>2. /\ state' = [state EXCEPT ![q] = "EMBRYO"]
        /\ pc' = [pc EXCEPT ![p] = "forked", ![q] = "user"]
        /\ np' = [np EXCEPT ![p] = q] /\ tickets' = tickets
    BY <1>4, Zenon DEF ForkAlloc
  <2> HIDE DEF q
  <2> QED
    BY <1>a, <2>1, <2>2, <1>type, Zenon DEF Live
<1>5. ASSUME NEW c \in CPU, NEW p \in Slot, ForkFail(c, p) PROVE TicketInv(M)'
  BY <1>5, <1>a, <1>type, Zenon DEF Live, ForkFail
<1>6. ASSUME NEW c \in CPU, NEW p \in Slot, ForkFill(c, p) PROVE TicketInv(M)'
  <2>1. np[p] \in Slot /\ state[np[p]] = "EMBRYO"
    BY <1>6, <1>fork, Zenon DEF ForkFill
  <2>2. ForkTickets(p) <= M /\ ForkTickets(p) >= MINTICKETS
    BY ProcAssumption, <1>type DEF TicketInv, ForkTickets
  <2>3. /\ tickets' = [tickets EXCEPT ![np[p]] = ForkTickets(p)]
        /\ pc' = [pc EXCEPT ![p] = "filled"] /\ UNCHANGED <<state, np>>
    BY <1>6, Zenon DEF ForkFill
  <2>4. ASSUME NEW q \in Slot
        PROVE  /\ tickets'[q] <= M
               /\ tickets[q] >= MINTICKETS => tickets'[q] >= MINTICKETS
    BY <2>1, <2>2, <2>3, <1>type, Zenon DEF TicketInv
  <2> QED
    BY <2>1, <2>2, <2>3, <2>4, <1>type DEF TicketInv
<1>7. ASSUME NEW c \in CPU, NEW p \in Slot, ForkRun(c, p) PROVE TicketInv(M)'
  <2>1. np[p] \in Slot /\ pc[p] = "filled"
    BY <1>7, <1>fork, Zenon DEF ForkRun
  <2>2. /\ state' = [state EXCEPT ![np[p]] = "RUNNABLE"]
        /\ pc' = [pc EXCEPT ![p] = "user"]
        /\ np' = [np EXCEPT ![p] = NoProc] /\ tickets' = tickets
    BY <1>7, Zenon DEF ForkRun
  <2> QED
    BY <2>1, <2>2, <1>type, Zenon DEF TicketInv
<1>8. ASSUME NEW c \in CPU, NEW p \in Slot, Exit(c, p) PROVE TicketInv(M)'
  <2>1. state[p] = "RUNNING"
    BY <1>8, FreeRuns, Zenon DEF Exit, Exits, InSys
  <2>2. \A q \in Slot : state'[q] \in Live \cup {"ZOMBIE"} =>
            state[q] \in Live \cup {"ZOMBIE"}
    <3> QED
      BY <1>8, <2>1, ExitEffect, Zenon DEF Live
  <2>3. UNCHANGED <<tickets, pc, np>>
    BY <1>8, Zenon DEF Exit
  <2> QED
    BY <1>a, <2>2, <2>3, Zenon
<1>9. ASSUME NEW c \in CPU, NEW p \in Slot, WaitReap(c, p) PROVE TicketInv(M)'
  BY <1>9, <1>a, <1>type, Zenon DEF Live, WaitReap
<1>10. ASSUME NEW c \in CPU, NEW p \in Slot, NEW k \in KillArgs, Kill(c, p, k)
       PROVE  TicketInv(M)'
  BY <1>10, <1>a, <1>type, Zenon DEF Live, Kill, KillState
<1>11. ASSUME NEW c \in CPU, NEW p \in Slot, NEW n \in TicketArgs,
              SetTickets(c, p, n)
       PROVE  TicketInv(M)'
  <2>1. n >= MINTICKETS /\ n <= M
    BY <1>11, Zenon DEF SetTickets, TicketsAccepted
  <2> QED
    BY <1>11, <2>1, <1>type DEF TicketInv, SetTickets
<1>12. ASSUME NEW c \in CPU, NEW p \in Slot, Swtch(c, p) \/ Resume(c, p)
       PROVE  TicketInv(M)'
  BY <1>12, <1>a, Zenon DEF Swtch, Resume, procVars
<1>13. ASSUME NEW c \in CPU, SchedDraw(c) PROVE TicketInv(M)'
  BY <1>13, <1>a, Zenon DEF SchedDraw, procVars
<1>14. CASE UNCHANGED vars
  BY <1>14, <1>a, Zenon DEF vars, procVars
<1> QED
  BY <1>1, <1>2, <1>2a, <1>3, <1>4, <1>5, <1>6, <1>7, <1>8, <1>9, <1>10, <1>11, <1>12,
     <1>13, <1>14, Zenon DEF Next, Thread

\* scheduler(): its comment is right, a round is passed only when no process
\* is RUNNABLE, as long as NPROC times the largest number of tickets fits an
\* int.
THEOREM RunnableIsScheduled ==
    ASSUME NEW M \in Nat, MINTICKETS <= M, \A n \in TicketArgs : n <= M,
           NPROC * M <= INT_MAX
    PROVE  Spec => []RunnableGivesTickets
<1>1. Init => TicketInv(M)
  BY ProcAssumption DEF Init, TicketInv, Live
<1>2. ProcInvariant /\ TicketInv(M) /\ [Next]_vars => TicketInv(M)'
  BY TicketStep, Zenon
<1>3. ProcInvariant /\ TicketInv(M) => RunnableGivesTickets
  <2> SUFFICES ASSUME ProcInvariant, TicketInv(M), NEW p \in Slot,
                      state[p] = "RUNNABLE"
               PROVE  totalTickets > 0
    BY Zenon DEF RunnableGivesTickets
  <2>1. Weight \in [Slot -> 0 .. M]
    BY DEF ProcInvariant, TypeOK, TicketInv, Weight
  <2>2. /\ totalTickets \in 0 .. NPROC * M
        /\ \A q \in 1 .. NPROC : Weight[q] <= totalTickets
    BY <2>1, CounterBound, ProcAssumption DEF totalTickets
  <2>3. Weight[p] >= MINTICKETS /\ Weight[p] \in Int
    BY ProcAssumption DEF Weight, TicketInv, Live, ProcInvariant, TypeOK
  <2>4. Weight[p] <= totalTickets /\ totalTickets \in Int
    BY <2>2, ProcAssumption DEF Slot
  <2> QED
    BY <2>3, <2>4, ProcAssumption
<1> QED
  BY <1>1, <1>2, <1>3, ProcInvariance, PTL DEF Spec
=============================================================================
