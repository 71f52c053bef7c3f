----------------------------- MODULE SpinProofs -----------------------------
(***************************************************************************)
(* Proofs about Spinlock, for any number of CPUs and locks: the inductive  *)
(* invariant, one lemma for each step of acquire(), release() and the      *)
(* interrupts, and what follows from it: locks exclude, no call panics,    *)
(* and interrupts come back.                                               *)
(***************************************************************************)
EXTENDS Spinlock, FiniteSetTheorems, TLAPS

\* A frame is between pushcli() and the end of popcli(); it is on its way to a
\* lock; it has taken the lock, or has not yet freed it.
InCli == {"locked", "cpu", "spin", "setcpu", "unlock", "popcli"}
Asking == {"cli", "locked", "cpu", "spin"}
Passing == {"setcpu", "unlock"}

\* A frame keeps others from taking a lock.
Owns(c, f, l) == l \in held[c][f] \/ (at[c][f] \in Passing /\ lk[c][f] = l)

\* lk->locked is set as long as a frame owns the lock, and only one does; lk->cpu
\* is its CPU while it holds the lock.
OwnInv ==
    /\ \A c, d \in CPU : \A f, g \in Frame : \A l \in Lock :
          Owns(c, f, l) /\ Owns(d, g, l) => c = d /\ f = g
    /\ \A c \in CPU : \A f \in Frame : \A l \in Lock : Owns(c, f, l) => locked[l]
    /\ \A c \in CPU : \A f \in Frame : at[c][f] \in Asking \cup Passing => lk[c][f] \notin held[c][f]
    /\ \A c \in CPU : \A f \in Frame : \A l \in held[c][f] : lkcpu[l] = c
    /\ \A c \in CPU : \A l \in Lock : lkcpu[l] = c => \E f \in Frame : l \in held[c][f]

\* The pushcli() calls of a frame without their popcli().
Depth(c, f) == Cardinality(held[c][f]) + (IF at[c][f] \in InCli THEN 1 ELSE 0)

\* ncli counts the pushcli() calls of the frame that runs: a handler starts only
\* when the thread has none.  With it interrupts are off, and intena remembers
\* that they are to come back in a thread and not in a handler.
FlagOf(c) ==
    /\ ncli[c] = Depth(c, top[c])
    /\ ncli[c] > 0 => ~intr[c] /\ (intena[c] <=> top[c] = "thread")
    /\ ncli[c] = 0 => (intr[c] <=> top[c] = "thread")
    /\ at[c][top[c]] = "cli" /\ ncli[c] = 0 => (eflags[c][top[c]] <=> top[c] = "thread")

\* The frame that does not run holds no lock: a thread is interrupted with its
\* interrupts on, and a handler has returned.
IdleOf(c) ==
    /\ top[c] = "intr" => /\ held[c]["thread"] = {} /\ at[c]["thread"] \in {"run", "cli"}
                          /\ at[c]["thread"] = "cli" => eflags[c]["thread"]
    /\ top[c] = "thread" => held[c]["intr"] = {} /\ at[c]["intr"] = "run"

SpinInvariant ==
    SpinTypeOK /\ OwnInv /\ (\A c \in CPU : FlagOf(c) /\ IdleOf(c)) /\ ~panicked

\* The locks of a frame are finitely many, and taking or releasing one counts.
LEMMA HeldCount ==
    ASSUME NEW S \in SUBSET Lock
    PROVE  /\ Cardinality(S) \in 0 .. NLOCK
           /\ Cardinality(S) = 0 <=> S = {}
           /\ \A l \in Lock \ S : Cardinality(S \cup {l}) = Cardinality(S) + 1
           /\ \A l \in S : Cardinality(S \ {l}) = Cardinality(S) - 1
<1>1. IsFiniteSet(Lock) /\ Cardinality(Lock) = NLOCK
  BY SpinAssumption, FS_Interval DEF Lock
<1>2. IsFiniteSet(S) /\ Cardinality(S) <= NLOCK /\ Cardinality(S) \in Nat
  BY <1>1, FS_Subset, FS_CardinalityType
<1>3. Cardinality(S) = 0 <=> S = {}
  BY <1>2, FS_EmptySet
<1>4. \A l \in Lock \ S : Cardinality(S \cup {l}) = Cardinality(S) + 1
  BY <1>2, FS_AddElement, Zenon
<1>5. \A l \in S : Cardinality(S \ {l}) = Cardinality(S) - 1
  BY <1>2, FS_RemoveElement, Zenon
<1> QED
  BY <1>2, <1>3, <1>4, <1>5, SpinAssumption

\* A step of one CPU does not disturb what is known of another.
LEMMA OtherCpu ==
    ASSUME NEW d \in CPU, FlagOf(d), IdleOf(d),
           intr'[d] = intr[d], ncli'[d] = ncli[d], intena'[d] = intena[d], top'[d] = top[d],
           at'[d] = at[d], eflags'[d] = eflags[d], held'[d] = held[d]
    PROVE  FlagOf(d)' /\ IdleOf(d)'
BY DEF FlagOf, IdleOf, Depth

\* The initial states.
LEMMA SpinStart == SpinInit => SpinInvariant
<1> SUFFICES ASSUME SpinInit PROVE SpinInvariant
  OBVIOUS
<1>1. SpinTypeOK
  <2>1. 0 \in 0 .. NLOCK + 1 /\ 1 \in Lock
    BY SpinAssumption DEF Lock
  <2> QED
    BY <2>1, Zenon DEF SpinInit, SpinTypeOK, Frame
<1>2. OwnInv
  BY SpinAssumption DEF SpinInit, OwnInv, Owns, Passing, Asking, Frame
<1>3. Cardinality({}) = 0
  BY FS_EmptySet
<1>4. ASSUME NEW c \in CPU PROVE FlagOf(c) /\ IdleOf(c)
  BY <1>3 DEF SpinInit, FlagOf, IdleOf, Depth, InCli, Frame
<1> QED
  BY <1>1, <1>2, <1>4 DEF SpinInvariant, SpinInit

\* The frame that runs.
LEMMA Running ==
    ASSUME SpinInvariant, NEW c \in CPU
    PROVE  top[c] \in Frame /\ held[c][top[c]] \in SUBSET Lock /\ lk[c][top[c]] \in Lock
BY DEF SpinInvariant, SpinTypeOK

\* A step of c keeps the invariant if it keeps what is said of c.
LEMMA OneCpu ==
    ASSUME SpinInvariant, NEW c \in CPU,
           SpinTypeOK', OwnInv', FlagOf(c)', IdleOf(c)', ~panicked',
           \A d \in CPU : d # c =>
              /\ intr'[d] = intr[d] /\ ncli'[d] = ncli[d] /\ intena'[d] = intena[d]
              /\ top'[d] = top[d] /\ at'[d] = at[d] /\ eflags'[d] = eflags[d]
              /\ held'[d] = held[d]
    PROVE  SpinInvariant'
<1>1. ASSUME NEW d \in CPU, d # c PROVE FlagOf(d)' /\ IdleOf(d)'
  BY <1>1, OtherCpu DEF SpinInvariant
<1> QED
  BY <1>1 DEF SpinInvariant

\* The thread does not hold the lock it asks for, since it acquires locks in
\* order, and a handler holds none.
LEMMA AcquireStep ==
    ASSUME SpinInvariant, NEW c \in CPU, NEW l \in Lock, Acquire(c, l)
    PROVE  SpinInvariant'
<1>type. SpinTypeOK
  BY DEF SpinInvariant
<1>own. OwnInv
  BY DEF SpinInvariant
<1>cpu. FlagOf(c) /\ IdleOf(c)
  BY DEF SpinInvariant
<1>f. PICK f \in Frame : f = top[c] /\ held[c][f] \in SUBSET Lock /\ lk[c][f] \in Lock
  BY Running
<1>1. at[c][f] = "run" /\ ~panicked /\ l \notin held[c][f]
  BY <1>f DEF Acquire, At, Lock, Frame
<1>2. /\ at' = [at EXCEPT ![c][f] = "cli"] /\ lk' = [lk EXCEPT ![c][f] = l]
      /\ eflags' = [eflags EXCEPT ![c][f] = intr[c]]
      /\ UNCHANGED <<locked, lkcpu, intr, ncli, intena, top, held, panicked>>
  BY <1>f DEF Acquire, Goto
<1>3. SpinTypeOK'
  BY <1>f, <1>2, <1>type DEF SpinTypeOK
<1>4. \A d \in CPU : \A g \in Frame :
        /\ at'[d][g] = IF d = c /\ g = f THEN "cli" ELSE at[d][g]
        /\ lk'[d][g] = IF d = c /\ g = f THEN l ELSE lk[d][g]
        /\ eflags'[d][g] = IF d = c /\ g = f THEN intr[c] ELSE eflags[d][g]
  BY <1>f, <1>2, <1>type DEF SpinTypeOK
<1>5. OwnInv'
  BY <1>f, <1>1, <1>2, <1>4, <1>own DEF OwnInv, Owns, Passing, Asking
<1>6. FlagOf(c)'
  BY <1>f, <1>1, <1>2, <1>4, <1>cpu DEF FlagOf, Depth, InCli
<1>7. IdleOf(c)'
  BY <1>f, <1>1, <1>2, <1>4, <1>cpu DEF IdleOf, Frame
<1> QED
  BY OneCpu, <1>1, <1>2, <1>3, <1>5, <1>6, <1>7, <1>type, Zenon DEF SpinTypeOK

\* From here on the interrupts are off, and intena has what the flags were.
LEMMA PushcliStep ==
    ASSUME SpinInvariant, NEW c \in CPU, Pushcli(c)
    PROVE  SpinInvariant'
<1>type. SpinTypeOK
  BY DEF SpinInvariant
<1>own. OwnInv
  BY DEF SpinInvariant
<1>cpu. FlagOf(c) /\ IdleOf(c)
  BY DEF SpinInvariant
<1>f. PICK f \in Frame : f = top[c] /\ held[c][f] \in SUBSET Lock /\ lk[c][f] \in Lock
  BY Running
<1>1. at[c][f] = "cli" /\ ~panicked
  BY <1>f DEF Pushcli, At
<1>2. /\ at' = [at EXCEPT ![c][f] = "locked"] /\ intr' = [intr EXCEPT ![c] = FALSE]
      /\ intena' = [intena EXCEPT ![c] = IF ncli[c] = 0 THEN eflags[c][f] ELSE intena[c]]
      /\ ncli' = [ncli EXCEPT ![c] = ncli[c] + 1]
      /\ UNCHANGED <<locked, lkcpu, top, lk, eflags, held, panicked>>
  BY <1>f DEF Pushcli, Goto, Cli, SavedFlags, Pushed
<1>0. ncli[c] = Cardinality(held[c][f]) /\ Cardinality(held[c][f]) \in 0 .. NLOCK
  BY <1>1, <1>f, <1>cpu, HeldCount, SpinAssumption DEF FlagOf, Depth, InCli
<1>3. SpinTypeOK'
  <2>1. ncli[c] + 1 \in 0 .. NLOCK + 1
    BY <1>0, SpinAssumption
  <2> QED
    BY <1>f, <1>2, <2>1, <1>type DEF SpinTypeOK
<1>4. \A d \in CPU : \A g \in Frame : at'[d][g] = IF d = c /\ g = f THEN "locked" ELSE at[d][g]
  BY <1>f, <1>2, <1>type DEF SpinTypeOK
<1>5. OwnInv'
  BY <1>f, <1>1, <1>2, <1>4, <1>own DEF OwnInv, Owns, Passing, Asking
<1>6. FlagOf(c)'
  <2>1. /\ ncli'[c] = ncli[c] + 1 /\ ~intr'[c] /\ top'[c] = f /\ at'[c][f] = "locked"
        /\ intena'[c] = IF ncli[c] = 0 THEN eflags[c][f] ELSE intena[c]
        /\ held'[c] = held[c]
    BY <1>f, <1>2, <1>4, <1>type DEF SpinTypeOK
  <2>2. intena'[c] <=> f = "thread"
    BY <1>f, <1>0, <1>1, <2>1, <1>cpu DEF FlagOf
  <2>3. Depth(c, f)' = ncli[c] + 1
    BY <1>0, <2>1 DEF Depth, InCli
  <2> QED
    BY <1>0, <2>1, <2>2, <2>3 DEF FlagOf, Depth, InCli
<1>7. IdleOf(c)'
  BY <1>f, <1>1, <1>2, <1>4, <1>cpu DEF IdleOf, Frame
<1> QED
  BY OneCpu, <1>1, <1>2, <1>3, <1>5, <1>6, <1>7, <1>type, Zenon DEF SpinTypeOK

\* holding() reads lk->locked and changes nothing but the place of the frame.
LEMMA HoldingLockedStep ==
    ASSUME SpinInvariant, NEW c \in CPU, HoldingLocked(c)
    PROVE  SpinInvariant'
<1>type. SpinTypeOK
  BY DEF SpinInvariant
<1>own. OwnInv
  BY DEF SpinInvariant
<1>cpu. FlagOf(c) /\ IdleOf(c)
  BY DEF SpinInvariant
<1>f. PICK f \in Frame : f = top[c] /\ held[c][f] \in SUBSET Lock /\ lk[c][f] \in Lock
  BY Running
<1> DEFINE a == IF locked[Lk(c)] THEN "cpu" ELSE "spin"
<1>1. at[c][f] = "locked" /\ ~panicked
  BY <1>f DEF HoldingLocked, At
<1>2. /\ at' = [at EXCEPT ![c][f] = a] /\ a \in {"cpu", "spin"}
      /\ UNCHANGED <<locked, lkcpu, intr, ncli, intena, top, lk, eflags, held, panicked>>
  BY <1>f DEF HoldingLocked, Goto
<1> HIDE DEF a
<1>3. SpinTypeOK'
  BY <1>f, <1>2, <1>type DEF SpinTypeOK
<1>4. \A d \in CPU : \A g \in Frame : at'[d][g] = IF d = c /\ g = f THEN a ELSE at[d][g]
  BY <1>f, <1>2, <1>type DEF SpinTypeOK
<1>5. OwnInv'
  BY <1>f, <1>1, <1>2, <1>4, <1>own DEF OwnInv, Owns, Passing, Asking
<1>6. FlagOf(c)'
  BY <1>f, <1>1, <1>2, <1>4, <1>cpu DEF FlagOf, Depth, InCli
<1>7. IdleOf(c)'
  BY <1>f, <1>1, <1>2, <1>4, <1>cpu DEF IdleOf, Frame
<1> QED
  BY OneCpu, <1>1, <1>2, <1>3, <1>5, <1>6, <1>7, <1>type, Zenon DEF SpinTypeOK

\* The lock a frame asks for is not of its CPU: not its own, and the other frame
\* of the CPU has none.
LEMMA HoldingCpuStep ==
    ASSUME SpinInvariant, NEW c \in CPU, HoldingCpu(c)
    PROVE  SpinInvariant'
<1>type. SpinTypeOK
  BY DEF SpinInvariant
<1>own. OwnInv
  BY DEF SpinInvariant
<1>cpu. FlagOf(c) /\ IdleOf(c)
  BY DEF SpinInvariant
<1>f. PICK f \in Frame : f = top[c] /\ held[c][f] \in SUBSET Lock /\ lk[c][f] \in Lock
  BY Running
<1>1. at[c][f] = "cpu" /\ ~panicked
  BY <1>f DEF HoldingCpu, At
<1>2. /\ at' = [at EXCEPT ![c][f] = "spin"] /\ panicked' = (lkcpu[lk[c][f]] = c)
      /\ UNCHANGED <<locked, lkcpu, intr, ncli, intena, top, lk, eflags, held>>
  BY <1>f DEF HoldingCpu, Goto, Lk
<1>0. lkcpu[lk[c][f]] # c
  <2>1. lk[c][f] \notin held[c][f]
    BY <1>f, <1>1, <1>own DEF OwnInv, Asking
  <2>2. \A g \in Frame : g # f => held[c][g] = {}
    BY <1>f, <1>cpu DEF IdleOf, Frame
  <2> QED
    BY <1>f, <2>1, <2>2, <1>own DEF OwnInv
<1>3. SpinTypeOK'
  BY <1>f, <1>0, <1>2, <1>type DEF SpinTypeOK
<1>4. \A d \in CPU : \A g \in Frame : at'[d][g] = IF d = c /\ g = f THEN "spin" ELSE at[d][g]
  BY <1>f, <1>2, <1>type DEF SpinTypeOK
<1>5. OwnInv'
  BY <1>f, <1>1, <1>2, <1>4, <1>own DEF OwnInv, Owns, Passing, Asking
<1>6. FlagOf(c)'
  BY <1>f, <1>1, <1>2, <1>4, <1>cpu DEF FlagOf, Depth, InCli
<1>7. IdleOf(c)'
  BY <1>f, <1>1, <1>2, <1>4, <1>cpu DEF IdleOf, Frame
<1> QED
  BY OneCpu, <1>0, <1>2, <1>3, <1>5, <1>6, <1>7, <1>type, Zenon DEF SpinTypeOK

\* A lock that is free has no owner.
LEMMA XchgStep ==
    ASSUME SpinInvariant, NEW c \in CPU, Xchg(c)
    PROVE  SpinInvariant'
<1>type. SpinTypeOK
  BY DEF SpinInvariant
<1>own. OwnInv
  BY DEF SpinInvariant
<1>cpu. FlagOf(c) /\ IdleOf(c)
  BY DEF SpinInvariant
<1>f. PICK f \in Frame : f = top[c] /\ held[c][f] \in SUBSET Lock /\ lk[c][f] \in Lock
  BY Running
<1>l. PICK l \in Lock : l = lk[c][f]
  BY <1>f
<1>1. at[c][f] = "spin" /\ ~panicked /\ ~locked[l]
  BY <1>f, <1>l DEF Xchg, At, Free, Lk
<1>2. /\ at' = [at EXCEPT ![c][f] = "setcpu"] /\ locked' = [locked EXCEPT ![l] = TRUE]
      /\ UNCHANGED <<lkcpu, intr, ncli, intena, top, lk, eflags, held, panicked>>
  BY <1>f, <1>l DEF Xchg, Goto, Lk
<1>3. SpinTypeOK'
  BY <1>f, <1>l, <1>2, <1>type DEF SpinTypeOK
<1>4. /\ \A d \in CPU : \A g \in Frame : at'[d][g] = IF d = c /\ g = f THEN "setcpu" ELSE at[d][g]
      /\ \A m \in Lock : locked'[m] <=> locked[m] \/ m = l
  BY <1>f, <1>l, <1>2, <1>type DEF SpinTypeOK
<1>5. OwnInv'
  <2>1. \A d \in CPU : \A g \in Frame : \A m \in Lock :
          Owns(d, g, m)' <=> Owns(d, g, m) \/ (d = c /\ g = f /\ m = l)
    BY <1>f, <1>l, <1>1, <1>2, <1>4 DEF Owns, Passing
  <2>2. \A d \in CPU : \A g \in Frame : ~Owns(d, g, l)
    BY <1>f, <1>l, <1>1, <1>own DEF OwnInv
  <2>3. /\ \A d, e \in CPU : \A g, h \in Frame : \A m \in Lock :
             Owns(d, g, m)' /\ Owns(e, h, m)' => d = e /\ g = h
        /\ \A d \in CPU : \A g \in Frame : \A m \in Lock : Owns(d, g, m)' => locked'[m]
    BY <1>f, <1>l, <1>4, <2>1, <2>2, <1>own DEF OwnInv
  <2>4. \A d \in CPU : \A g \in Frame : at'[d][g] \in Asking \cup Passing => lk'[d][g] \notin held'[d][g]
    BY <1>f, <1>l, <1>1, <1>2, <1>4, <1>own DEF OwnInv, Asking, Passing
  <2> QED
    BY <1>2, <2>3, <2>4, <1>own DEF OwnInv
<1>6. FlagOf(c)'
  BY <1>f, <1>l, <1>1, <1>2, <1>4, <1>cpu DEF FlagOf, Depth, InCli
<1>7. IdleOf(c)'
  BY <1>f, <1>l, <1>1, <1>2, <1>4, <1>cpu DEF IdleOf, Frame
<1> QED
  BY OneCpu, <1>1, <1>2, <1>3, <1>5, <1>6, <1>7, <1>type, Zenon DEF SpinTypeOK

\* The frame that won the xchg is the only owner, and it enters itself in lk->cpu.
LEMMA SetCpuStep ==
    ASSUME SpinInvariant, NEW c \in CPU, SetCpu(c)
    PROVE  SpinInvariant'
<1>type. SpinTypeOK
  BY DEF SpinInvariant
<1>own. OwnInv
  BY DEF SpinInvariant
<1>cpu. FlagOf(c) /\ IdleOf(c)
  BY DEF SpinInvariant
<1>f. PICK f \in Frame : f = top[c] /\ held[c][f] \in SUBSET Lock /\ lk[c][f] \in Lock
  BY Running
<1>l. PICK l \in Lock : l = lk[c][f]
  BY <1>f
<1>1. at[c][f] = "setcpu" /\ ~panicked
  BY <1>f, <1>l DEF SetCpu, At
<1>2. /\ at' = [at EXCEPT ![c][f] = "run"] /\ lkcpu' = [lkcpu EXCEPT ![l] = c]
      /\ held' = [held EXCEPT ![c][f] = held[c][f] \cup {l}]
      /\ UNCHANGED <<locked, intr, ncli, intena, top, lk, eflags, panicked>>
  BY <1>f, <1>l DEF SetCpu, Goto, Lk
<1>0. l \notin held[c][f] /\ Owns(c, f, l)
  BY <1>f, <1>l, <1>1, <1>own DEF OwnInv, Owns, Passing
<1>3. SpinTypeOK'
  BY <1>f, <1>l, <1>2, <1>type DEF SpinTypeOK
<1>4. /\ \A d \in CPU : \A g \in Frame :
          /\ at'[d][g] = IF d = c /\ g = f THEN "run" ELSE at[d][g]
          /\ held'[d][g] = IF d = c /\ g = f THEN held[c][f] \cup {l} ELSE held[d][g]
      /\ \A m \in Lock : lkcpu'[m] = IF m = l THEN c ELSE lkcpu[m]
  BY <1>f, <1>l, <1>2, <1>type DEF SpinTypeOK
<1>5. OwnInv'
  <2>1. \A d \in CPU : \A g \in Frame : \A m \in Lock : Owns(d, g, m)' <=> Owns(d, g, m)
    BY <1>f, <1>l, <1>1, <1>2, <1>4 DEF Owns, Passing
  <2>2. /\ \A d, e \in CPU : \A g, h \in Frame : \A m \in Lock :
             Owns(d, g, m)' /\ Owns(e, h, m)' => d = e /\ g = h
        /\ \A d \in CPU : \A g \in Frame : \A m \in Lock : Owns(d, g, m)' => locked'[m]
    BY <1>2, <2>1, <1>own DEF OwnInv
  <2>3. \A d \in CPU : \A g \in Frame : at'[d][g] \in Asking \cup Passing => lk'[d][g] \notin held'[d][g]
    BY <1>f, <1>l, <1>2, <1>4, <1>own DEF OwnInv, Asking, Passing
  <2>4. \A d \in CPU : \A g \in Frame : \A m \in held'[d][g] : lkcpu'[m] = d
    <3> SUFFICES ASSUME NEW d \in CPU, NEW g \in Frame, NEW m \in held'[d][g] PROVE lkcpu'[m] = d
      OBVIOUS
    <3>1. m \in Lock
      BY <1>3 DEF SpinTypeOK
    <3>2. CASE m = l
      <4>1. Owns(d, g, l)
        BY <1>l, <2>1, <3>2 DEF Owns
      <4>2. d = c
        BY <1>f, <1>l, <1>0, <4>1, <1>own DEF OwnInv
      <4> QED
        BY <1>4, <1>l, <3>2, <4>2
    <3>3. CASE m # l
      <4>1. m \in held[d][g]
        BY <1>f, <1>l, <1>4, <3>3
      <4> QED
        BY <1>4, <3>1, <3>3, <4>1, <1>own DEF OwnInv
    <3> QED
      BY <3>2, <3>3
  <2>5. \A d \in CPU : \A m \in Lock : lkcpu'[m] = d => \E g \in Frame : m \in held'[d][g]
    BY <1>f, <1>l, <1>4, <1>own DEF OwnInv
  <2> QED
    BY <2>2, <2>3, <2>4, <2>5 DEF OwnInv
<1>6. FlagOf(c)'
  <2>1. Cardinality(held[c][f] \cup {l}) = Cardinality(held[c][f]) + 1
        /\ Cardinality(held[c][f]) \in Nat
    BY <1>f, <1>l, <1>0, HeldCount, SpinAssumption
  <2>2. top'[c] = f /\ at'[c][f] = "run" /\ held'[c][f] = held[c][f] \cup {l}
    BY <1>f, <1>2, <1>4
  <2>3. Depth(c, f)' = Depth(c, f)
    BY <1>1, <2>1, <2>2 DEF Depth, InCli
  <2> QED
    BY <1>f, <1>1, <1>2, <2>2, <2>3, <1>cpu DEF FlagOf
<1>7. IdleOf(c)'
  BY <1>f, <1>l, <1>1, <1>2, <1>4, <1>cpu DEF IdleOf, Frame
<1> QED
  BY OneCpu, <1>1, <1>2, <1>3, <1>5, <1>6, <1>7, <1>type, Zenon DEF SpinTypeOK

\* The frame that holds the lock is on the CPU in lk->cpu, so holding() in
\* release() is true.
LEMMA ReleaseStep ==
    ASSUME SpinInvariant, NEW c \in CPU, NEW l \in Lock, Release(c, l)
    PROVE  SpinInvariant'
<1>type. SpinTypeOK
  BY DEF SpinInvariant
<1>own. OwnInv
  BY DEF SpinInvariant
<1>cpu. FlagOf(c) /\ IdleOf(c)
  BY DEF SpinInvariant
<1>f. PICK f \in Frame : f = top[c] /\ held[c][f] \in SUBSET Lock
  BY Running
<1>1. at[c][f] = "run" /\ l \in held[c][f]
  BY <1>f DEF Release, At
<1>2. /\ at' = [at EXCEPT ![c][f] = "unlock"] /\ lkcpu' = [lkcpu EXCEPT ![l] = NoCpu]
      /\ lk' = [lk EXCEPT ![c][f] = l] /\ held' = [held EXCEPT ![c][f] = held[c][f] \ {l}]
      /\ panicked' = ~Holding(c, l)
      /\ UNCHANGED <<locked, intr, ncli, intena, top, eflags>>
  BY <1>f DEF Release, Goto, Owner
<1>0. ~panicked' /\ Owns(c, f, l)
  <2>1. Owns(c, f, l)
    BY <1>1 DEF Owns
  <2>2. locked[l] /\ lkcpu[l] = c
    BY <1>f, <1>1, <2>1, <1>own DEF OwnInv
  <2> QED
    BY <1>2, <2>1, <2>2, Zenon DEF Holding
<1>3. SpinTypeOK'
  BY <1>f, <1>0, <1>2, <1>type DEF SpinTypeOK
<1>4. /\ \A d \in CPU : \A g \in Frame :
          /\ at'[d][g] = IF d = c /\ g = f THEN "unlock" ELSE at[d][g]
          /\ lk'[d][g] = IF d = c /\ g = f THEN l ELSE lk[d][g]
          /\ held'[d][g] = IF d = c /\ g = f THEN held[c][f] \ {l} ELSE held[d][g]
      /\ \A m \in Lock : lkcpu'[m] = IF m = l THEN NoCpu ELSE lkcpu[m]
  BY <1>f, <1>2, <1>type DEF SpinTypeOK
<1>5. OwnInv'
  <2>1. \A d \in CPU : \A g \in Frame : \A m \in Lock : Owns(d, g, m)' <=> Owns(d, g, m)
    BY <1>f, <1>1, <1>2, <1>4 DEF Owns, Passing
  <2>2. /\ \A d, e \in CPU : \A g, h \in Frame : \A m \in Lock :
             Owns(d, g, m)' /\ Owns(e, h, m)' => d = e /\ g = h
        /\ \A d \in CPU : \A g \in Frame : \A m \in Lock : Owns(d, g, m)' => locked'[m]
    BY <1>2, <2>1, <1>own DEF OwnInv
  <2>3. \A d \in CPU : \A g \in Frame : at'[d][g] \in Asking \cup Passing => lk'[d][g] \notin held'[d][g]
    BY <1>f, <1>2, <1>4, <1>own DEF OwnInv, Asking, Passing
  <2>4. \A d \in CPU : \A g \in Frame : \A m \in held'[d][g] : lkcpu'[m] = d
    <3> SUFFICES ASSUME NEW d \in CPU, NEW g \in Frame, NEW m \in held'[d][g] PROVE lkcpu'[m] = d
      OBVIOUS
    <3>0. m \in Lock
      BY <1>3 DEF SpinTypeOK
    <3>1. m \in held[d][g] /\ (d = c /\ g = f => m # l)
      BY <1>4
    <3>2. m # l
      <4>1. Owns(d, g, m)
        BY <3>1 DEF Owns
      <4> QED
        BY <1>f, <1>0, <3>0, <3>1, <4>1, <1>own DEF OwnInv
    <3> QED
      BY <1>4, <3>0, <3>1, <3>2, <1>own DEF OwnInv
  <2>5. \A d \in CPU : \A m \in Lock : lkcpu'[m] = d => \E g \in Frame : m \in held'[d][g]
    BY <1>f, <1>4, <1>own, SpinAssumption DEF OwnInv
  <2> QED
    BY <2>2, <2>3, <2>4, <2>5 DEF OwnInv
<1>6. FlagOf(c)'
  <2>1. Cardinality(held[c][f] \ {l}) = Cardinality(held[c][f]) - 1
        /\ Cardinality(held[c][f]) \in Nat
    BY <1>f, <1>1, HeldCount, SpinAssumption
  <2>2. top'[c] = f /\ at'[c][f] = "unlock" /\ held'[c][f] = held[c][f] \ {l}
    BY <1>f, <1>2, <1>4
  <2>3. Depth(c, f)' = Depth(c, f)
    BY <1>1, <2>1, <2>2 DEF Depth, InCli
  <2> QED
    BY <1>f, <1>1, <1>2, <2>2, <2>3, <1>cpu DEF FlagOf
<1>7. IdleOf(c)'
  BY <1>f, <1>1, <1>2, <1>4, <1>cpu DEF IdleOf, Frame
<1> QED
  BY OneCpu, <1>0, <1>2, <1>3, <1>5, <1>6, <1>7, <1>type, Zenon DEF SpinTypeOK

\* release() frees a lock that no frame owns any more.
LEMMA UnlockStep ==
    ASSUME SpinInvariant, NEW c \in CPU, Unlock(c)
    PROVE  SpinInvariant'
<1>type. SpinTypeOK
  BY DEF SpinInvariant
<1>own. OwnInv
  BY DEF SpinInvariant
<1>cpu. FlagOf(c) /\ IdleOf(c)
  BY DEF SpinInvariant
<1>f. PICK f \in Frame : f = top[c] /\ held[c][f] \in SUBSET Lock /\ lk[c][f] \in Lock
  BY Running
<1>l. PICK l \in Lock : l = lk[c][f]
  BY <1>f
<1>1. at[c][f] = "unlock" /\ ~panicked
  BY <1>f DEF Unlock, At
<1>2. /\ at' = [at EXCEPT ![c][f] = "popcli"] /\ locked' = [locked EXCEPT ![l] = FALSE]
      /\ UNCHANGED <<lkcpu, intr, ncli, intena, top, lk, eflags, held, panicked>>
  BY <1>f, <1>l DEF Unlock, Goto, Lk
<1>0. l \notin held[c][f] /\ Owns(c, f, l)
  BY <1>f, <1>l, <1>1, <1>own DEF OwnInv, Owns, Passing
<1>3. SpinTypeOK'
  BY <1>f, <1>l, <1>2, <1>type DEF SpinTypeOK
<1>4. /\ \A d \in CPU : \A g \in Frame : at'[d][g] = IF d = c /\ g = f THEN "popcli" ELSE at[d][g]
      /\ \A m \in Lock : locked'[m] = IF m = l THEN FALSE ELSE locked[m]
  BY <1>f, <1>l, <1>2, <1>type DEF SpinTypeOK
<1>5. OwnInv'
  <2>1. \A d \in CPU : \A g \in Frame : \A m \in Lock : Owns(d, g, m)' => Owns(d, g, m) /\ m # l
    <3> SUFFICES ASSUME NEW d \in CPU, NEW g \in Frame, NEW m \in Lock, Owns(d, g, m)'
                 PROVE  Owns(d, g, m) /\ m # l
      OBVIOUS
    <3>1. Owns(d, g, m) /\ (d = c /\ g = f => m \in held[c][f])
      BY <1>f, <1>2, <1>4 DEF Owns, Passing
    <3> QED
      BY <1>f, <1>l, <1>0, <3>1, <1>own DEF OwnInv
  <2>2. \A d, e \in CPU : \A g, h \in Frame : \A m \in Lock :
           Owns(d, g, m)' /\ Owns(e, h, m)' => d = e /\ g = h
    BY <2>1, <1>own DEF OwnInv
  <2>4. ASSUME NEW d \in CPU, NEW g \in Frame, NEW m \in Lock, Owns(d, g, m)' PROVE locked'[m]
    <3>1. m # l /\ locked[m]
      BY <2>1, <2>4, <1>own DEF OwnInv
    <3> QED
      BY <1>4, <3>1, Zenon
  <2>3. \A d \in CPU : \A g \in Frame : at'[d][g] \in Asking \cup Passing => lk'[d][g] \notin held'[d][g]
    BY <1>2, <1>4, <1>own DEF OwnInv, Asking, Passing
  <2> QED
    BY <1>2, <2>2, <2>3, <2>4, <1>own DEF OwnInv
<1>6. FlagOf(c)'
  BY <1>f, <1>1, <1>2, <1>4, <1>cpu DEF FlagOf, Depth, InCli
<1>7. IdleOf(c)'
  BY <1>f, <1>1, <1>2, <1>4, <1>cpu DEF IdleOf, Frame
<1> QED
  BY OneCpu, <1>1, <1>2, <1>3, <1>5, <1>6, <1>7, <1>type, Zenon DEF SpinTypeOK

\* The frame has its own pushcli() to undo, so popcli() finds interrupts off and
\* ncli above zero; the last one gives back what the first one found.
LEMMA PopcliStep ==
    ASSUME SpinInvariant, NEW c \in CPU, Popcli(c)
    PROVE  SpinInvariant'
<1>type. SpinTypeOK
  BY DEF SpinInvariant
<1>own. OwnInv
  BY DEF SpinInvariant
<1>cpu. FlagOf(c) /\ IdleOf(c)
  BY DEF SpinInvariant
<1>f. PICK f \in Frame : f = top[c] /\ held[c][f] \in SUBSET Lock
  BY Running
<1>1. at[c][f] = "popcli"
  BY <1>f DEF Popcli, At
<1>2. /\ at' = [at EXCEPT ![c][f] = "run"] /\ lk' = [lk EXCEPT ![c][f] = 1]
      /\ eflags' = [eflags EXCEPT ![c][f] = FALSE]
      /\ ncli' = [ncli EXCEPT ![c] = ncli[c] - 1]
      /\ intr' = [intr EXCEPT ![c] = (ncli[c] = 1 /\ intena[c])]
      /\ panicked' = (intr[c] \/ ncli[c] < 1)
      /\ UNCHANGED <<locked, lkcpu, intena, top, held>>
  BY <1>f DEF Popcli, Goto
<1>0. /\ ncli[c] = Cardinality(held[c][f]) + 1 /\ Cardinality(held[c][f]) \in 0 .. NLOCK
      /\ ~intr[c] /\ (intena[c] <=> f = "thread")
  <2>1. Cardinality(held[c][f]) \in 0 .. NLOCK
    BY <1>f, HeldCount, Zenon
  <2>2. Depth(c, f) = Cardinality(held[c][f]) + 1
    BY <1>1 DEF Depth, InCli
  <2>3. ncli[c] > 0
    BY <1>f, <2>1, <2>2, <1>cpu, SpinAssumption DEF FlagOf
  <2> QED
    BY <1>f, <2>1, <2>2, <2>3, <1>cpu, Zenon DEF FlagOf
<1>p. ~panicked'
  <2>1. ~(ncli[c] < 1)
    BY <1>0, SpinAssumption
  <2> QED
    BY <1>0, <1>2, <2>1, Zenon
<1>3. SpinTypeOK'
  <2>1. ncli[c] - 1 \in 0 .. NLOCK + 1 /\ 1 \in Lock
    BY <1>0, SpinAssumption DEF Lock
  <2> QED
    BY <1>f, <1>2, <1>p, <2>1, <1>type DEF SpinTypeOK
<1>4. \A d \in CPU : \A g \in Frame :
          /\ at'[d][g] = IF d = c /\ g = f THEN "run" ELSE at[d][g]
          /\ lk'[d][g] = IF d = c /\ g = f THEN 1 ELSE lk[d][g]
          /\ eflags'[d][g] = IF d = c /\ g = f THEN FALSE ELSE eflags[d][g]
  BY <1>f, <1>2, <1>type, Zenon DEF SpinTypeOK
<1>5. OwnInv'
  BY <1>f, <1>1, <1>2, <1>4, <1>own DEF OwnInv, Owns, Passing, Asking
<1>6. FlagOf(c)'
  <2>1. /\ ncli'[c] = ncli[c] - 1 /\ intr'[c] = (ncli[c] = 1 /\ intena[c])
        /\ intena'[c] = intena[c] /\ top'[c] = f /\ at'[c][f] = "run" /\ held'[c] = held[c]
    BY <1>f, <1>2, <1>4, <1>type DEF SpinTypeOK
  <2>2. Depth(c, f)' = Cardinality(held[c][f])
    BY <1>0, <2>1 DEF Depth, InCli
  <2>3. /\ ncli'[c] = Cardinality(held[c][f]) /\ Cardinality(held[c][f]) \in Nat
        /\ ncli'[c] = 0 <=> ncli[c] = 1
    BY <1>0, <2>1, SpinAssumption
  <2>4. (ncli'[c] > 0 => ncli[c] # 1) /\ (ncli'[c] = 0 => ncli[c] = 1)
    BY <2>3
  <2> QED
    BY <1>0, <2>1, <2>2, <2>3, <2>4, Zenon DEF FlagOf
<1>7. IdleOf(c)'
  BY <1>f, <1>1, <1>2, <1>4, <1>cpu DEF IdleOf, Frame
<1> QED
  BY OneCpu, <1>p, <1>2, <1>3, <1>5, <1>6, <1>7, <1>type, Zenon DEF SpinTypeOK

\* Interrupts are on, so the thread has no pushcli() to undo and holds no lock.
LEMMA InterruptStep ==
    ASSUME SpinInvariant, NEW c \in CPU, Interrupt(c)
    PROVE  SpinInvariant'
<1>type. SpinTypeOK
  BY DEF SpinInvariant
<1>own. OwnInv
  BY DEF SpinInvariant
<1>cpu. FlagOf(c) /\ IdleOf(c)
  BY DEF SpinInvariant
<1>f. "thread" \in Frame /\ "intr" \in Frame
  BY DEF Frame
<1>1. top[c] = "thread" /\ intr[c] /\ ~panicked
  BY DEF Interrupt
<1>2. /\ top' = [top EXCEPT ![c] = "intr"] /\ intr' = [intr EXCEPT ![c] = FALSE]
      /\ UNCHANGED <<locked, lkcpu, ncli, intena, at, lk, eflags, held, panicked>>
  BY DEF Interrupt
<1>a. held[c]["thread"] \in SUBSET Lock /\ ncli[c] \in Nat /\ top'[c] = "intr" /\ ~intr'[c]
      /\ at[c]["thread"] \in InCli \cup {"run", "cli"}
  BY <1>f, <1>2, <1>type, SpinAssumption DEF SpinTypeOK, InCli
<1>0. ncli[c] = 0 /\ held[c]["thread"] = {} /\ at[c]["thread"] \notin InCli
  BY <1>1, <1>a, <1>cpu, HeldCount, SpinAssumption DEF FlagOf, Depth
<1>3. SpinTypeOK'
  BY <1>f, <1>2, <1>type DEF SpinTypeOK
<1>5. OwnInv'
  BY <1>2, <1>own DEF OwnInv, Owns
<1>6. FlagOf(c)'
  <2>1. held[c]["intr"] = {} /\ at[c]["intr"] = "run"
    BY <1>1, <1>cpu DEF IdleOf
  <2>2. Cardinality({}) = 0
    BY FS_EmptySet
  <2> QED
    BY <1>0, <1>2, <1>a, <2>1, <2>2 DEF FlagOf, Depth, InCli
<1>7. IdleOf(c)'
  <2>1. at[c]["thread"] = "cli" => eflags[c]["thread"]
    BY <1>0, <1>1, <1>cpu DEF FlagOf
  <2> QED
    BY <1>0, <1>2, <1>a, <2>1 DEF IdleOf
<1> QED
  BY OneCpu, <1>1, <1>2, <1>3, <1>5, <1>6, <1>7, <1>type, Zenon DEF SpinTypeOK

\* The handler has released its lock, and the thread had none.
LEMMA IretStep ==
    ASSUME SpinInvariant, NEW c \in CPU, Iret(c)
    PROVE  SpinInvariant'
<1>type. SpinTypeOK
  BY DEF SpinInvariant
<1>own. OwnInv
  BY DEF SpinInvariant
<1>cpu. FlagOf(c) /\ IdleOf(c)
  BY DEF SpinInvariant
<1>f. "thread" \in Frame /\ "intr" \in Frame
  BY DEF Frame
<1>1. top[c] = "intr" /\ at[c]["intr"] = "run" /\ held[c]["intr"] = {} /\ ~panicked
  BY DEF Iret, At
<1>2. /\ top' = [top EXCEPT ![c] = "thread"] /\ intr' = [intr EXCEPT ![c] = TRUE]
      /\ UNCHANGED <<locked, lkcpu, ncli, intena, at, lk, eflags, held, panicked>>
  BY DEF Iret
<1>a. top'[c] = "thread" /\ intr'[c] /\ Cardinality({}) = 0
  <2>1. Cardinality({}) = 0
    BY FS_EmptySet
  <2> QED
    BY <2>1, <1>f, <1>2, <1>type, Zenon DEF SpinTypeOK
<1>b. /\ held[c]["thread"] = {} /\ at[c]["thread"] \in {"run", "cli"}
      /\ at[c]["thread"] = "cli" => eflags[c]["thread"]
  BY <1>1, <1>cpu DEF IdleOf
<1>0. ncli[c] = 0
  <2>1. Depth(c, "intr") = 0
    BY <1>1, <1>a DEF Depth, InCli
  <2> QED
    BY <1>1, <2>1, <1>cpu, Zenon DEF FlagOf
<1>3. SpinTypeOK'
  BY <1>f, <1>2, <1>type DEF SpinTypeOK
<1>5. OwnInv'
  BY <1>2, <1>own DEF OwnInv, Owns
<1>6. FlagOf(c)'
  <2>1. Depth(c, "thread")' = 0
    BY <1>2, <1>a, <1>b DEF Depth, InCli
  <2>2. ncli'[c] = 0 /\ at'[c] = at[c] /\ eflags'[c] = eflags[c]
    BY <1>0, <1>2
  <2>3. ~(ncli'[c] > 0)
    BY <2>2
  <2> QED
    BY <1>a, <1>b, <2>1, <2>2, <2>3, Zenon DEF FlagOf
<1>7. IdleOf(c)'
  BY <1>1, <1>2, <1>a DEF IdleOf
<1> QED
  BY OneCpu, <1>1, <1>2, <1>3, <1>5, <1>6, <1>7, <1>type, Zenon DEF SpinTypeOK

\* SpinInvariant holds in every state: lk->locked, lk->cpu, ncli and intena say
\* what the calls of acquire() and release() made so far amount to.
THEOREM SpinInvariance == SpinSpec => []SpinInvariant
<1>1. ASSUME SpinInvariant, [SpinNext]_spinVars PROVE SpinInvariant'
  <2>1. CASE UNCHANGED spinVars
    BY <1>1, <2>1 DEF spinVars, SpinInvariant, SpinTypeOK, OwnInv, Owns, FlagOf, Depth, IdleOf
  <2>2. ASSUME NEW c \in CPU, NEW l \in Lock, Acquire(c, l) \/ Release(c, l) PROVE SpinInvariant'
    BY <1>1, <2>2, AcquireStep, ReleaseStep, Zenon
  <2>3. ASSUME NEW c \in CPU, \/ Pushcli(c) \/ HoldingLocked(c) \/ HoldingCpu(c) \/ Xchg(c)
                              \/ SetCpu(c) \/ Unlock(c) \/ Popcli(c) \/ Interrupt(c) \/ Iret(c)
        PROVE SpinInvariant'
    BY <1>1, <2>3, PushcliStep, HoldingLockedStep, HoldingCpuStep, XchgStep, SetCpuStep, UnlockStep,
       PopcliStep, InterruptStep, IretStep, Zenon
  <2> QED
    BY <1>1, <2>1, <2>2, <2>3, Zenon DEF SpinNext
<1> QED
  BY <1>1, SpinStart, PTL DEF SpinSpec

\* acquire() gives a lock to one frame of one CPU at a time, for any number of
\* CPUs and locks.
THEOREM LocksExclusive == SpinSpec => []Exclusive
<1>1. SpinInvariant => Exclusive
  <2> SUFFICES ASSUME SpinInvariant, NEW l \in Lock, NEW x \in CPU \X Frame, NEW y \in CPU \X Frame,
                      l \in held[x[1]][x[2]], l \in held[y[1]][y[2]]
               PROVE  x = y
    BY DEF Exclusive, SpinInvariant
  <2>1. x[1] = y[1] /\ x[2] = y[2]
    BY DEF SpinInvariant, OwnInv, Owns
  <2> QED
    BY <2>1
<1> QED
  BY <1>1, SpinInvariance, PTL

\* No call panics, and a thread that has released its locks has its interrupts
\* back.
THEOREM LocksAlwaysNest == SpinSpec => []LocksNest
<1>1. SpinInvariant => LocksNest
  <2> SUFFICES ASSUME SpinInvariant, NEW c \in CPU, top[c] = "thread", at[c]["thread"] = "run",
                      held[c]["thread"] = {}
               PROVE  intr[c]
    BY DEF LocksNest, NeverPanics, InterruptsComeBack, SpinInvariant
  <2>1. FlagOf(c) /\ Cardinality({}) = 0
    BY FS_EmptySet DEF SpinInvariant
  <2>2. Depth(c, "thread") = 0
    BY <2>1 DEF Depth, InCli
  <2> QED
    BY <2>1, <2>2, Zenon DEF FlagOf
<1> QED
  BY <1>1, SpinInvariance, PTL
=============================================================================
