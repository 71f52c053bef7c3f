---------------------------- MODULE KernelProofs ----------------------------
(***************************************************************************)
(* Proofs about four small parts of the kernel: the layout of the disk,    *)
(* for every size of it; the checks of system call arguments, for every    *)
(* size of a word; the clock, for every width of ticks and any number of   *)
(* sleeping processes; and pipes, for all sets of readers and writers,     *)
(* every PIPESIZE and every width of the indices that PIPESIZE divides.    *)
(***************************************************************************)
EXTENDS Layout, Args, Clock, Pipe, Sequences, WellFoundedInduction, TLAPS

-----------------------------------------------------------------------------
(* The disk.                                                               *)

\* The quotient of division is monotonic: what IBLOCK() and BBLOCK() rest on.
LEMMA DivMonotonic ==
    ASSUME NEW d \in Nat \ {0}, NEW m \in Nat, NEW n \in Nat, m <= n
    PROVE  m \div d \in Nat /\ m \div d <= n \div d
<1> DEFINE q == m \div d
           r == n \div d
<1>1. q \in Nat /\ r \in Nat /\ d * q <= m /\ m < d * q + d /\ d * r <= n /\ n < d * r + d
  OBVIOUS
<1> HIDE DEF q, r
<1>2. q <= r
  <2>1. SUFFICES ASSUME r + 1 <= q PROVE FALSE
    BY <1>1
  <2>2. d * (r + 1) <= d * q
    BY <1>1, <2>1
  <2>3. d * (r + 1) = d * r + d
    BY <1>1
  <2>4. d * r \in Nat /\ d * q \in Nat
    BY <1>1
  <2>5. QED
    BY <1>1, <2>2, <2>3, <2>4
<1>3. QED
  BY <1>1, <1>2 DEF q, r

\* For every size of the disk, of the log and of the inode table: IBLOCK() of an
\* inode is an inode block and BBLOCK() of a block is a block of the free map,
\* and those, the log, the super block and the data blocks from nmeta on do not
\* overlap.  mkfs.c and fs.c compute them independently of each other.
THEOREM LayoutCorrect ==
    /\ \A i \in 0 .. NINODES : IBLOCK(i) \in InodeBlocks
    /\ \A b \in 0 .. FSSIZE : BBLOCK(b) \in BitmapBlocks
    /\ {0, 1} \cap (LogBlocks \cup InodeBlocks \cup BitmapBlocks) = {}
    /\ LogBlocks \cap InodeBlocks = {} /\ (LogBlocks \cup InodeBlocks) \cap BitmapBlocks = {}
    /\ \A b \in {0, 1} \cup LogBlocks \cup InodeBlocks \cup BitmapBlocks : b < nmeta
<1> USE LayoutAssumption
<1>1. ninodeblocks \in Nat \ {0} /\ nbitmap \in Nat \ {0}
  <2>1. NINODES \div IPB \in Nat /\ FSSIZE \div BPB \in Nat
    BY DivMonotonic
  <2>2. QED
    BY <2>1 DEF ninodeblocks, nbitmap
<1>2. ASSUME NEW i \in 0 .. NINODES PROVE IBLOCK(i) \in InodeBlocks
  <2>1. i \div IPB \in Nat /\ i \div IPB <= NINODES \div IPB /\ NINODES \div IPB \in Nat
    BY DivMonotonic
  <2>2. QED
    BY <2>1 DEF IBLOCK, InodeBlocks, inodestart, ninodeblocks
<1>3. ASSUME NEW b \in 0 .. FSSIZE PROVE BBLOCK(b) \in BitmapBlocks
  <2>1. b \div BPB \in Nat /\ b \div BPB <= FSSIZE \div BPB /\ FSSIZE \div BPB \in Nat
    BY DivMonotonic
  <2>2. QED
    BY <1>1, <2>1 DEF BBLOCK, BitmapBlocks, bmapstart, nbitmap
<1> HIDE DEF ninodeblocks, nbitmap
<1>4. {0, 1} \cap (LogBlocks \cup InodeBlocks \cup BitmapBlocks) = {}
  BY <1>1 DEF LogBlocks, InodeBlocks, BitmapBlocks, logstart, inodestart, bmapstart
<1>5. LogBlocks \cap InodeBlocks = {} /\ (LogBlocks \cup InodeBlocks) \cap BitmapBlocks = {}
  BY <1>1 DEF LogBlocks, InodeBlocks, BitmapBlocks, logstart, inodestart, bmapstart
<1>6. \A b \in {0, 1} \cup LogBlocks \cup InodeBlocks \cup BitmapBlocks : b < nmeta
  BY <1>1 DEF LogBlocks, InodeBlocks, BitmapBlocks, logstart, inodestart, bmapstart, nmeta
<1>7. QED
  BY <1>2, <1>3, <1>4, <1>5, <1>6

-----------------------------------------------------------------------------
(* The arguments of system calls: exec(), growproc() and userinit() keep   *)
(* sz at most KERNBASE, and with it the wrapping sums decide as the exact  *)
(* ones do.                                                                *)

\* The order of the naturals is well-founded.
LEMMA NatOrder ==
    \E R : /\ IsWellFoundedOn(R, Nat)
           /\ \A x, y \in Nat : <<y, x>> \in R <=> y < x
<1>1. \A x, y \in Nat : <<y, x>> \in OpToRel(<, Nat) <=> y < x
  BY DEF OpToRel
<1> QED
  BY <1>1, NatLessThanWellFounded, Zenon

\* A nonempty set of naturals has a least element.
LEMMA NatMin ==
    ASSUME NEW S, S \subseteq Nat, S # {}
    PROVE  \E x \in S : \A y \in S : x <= y
<1>1. PICK R : /\ IsWellFoundedOn(R, Nat)
               /\ \A x, y \in Nat : <<y, x>> \in R <=> y < x
  BY NatOrder
<1>2. PICK x \in S : \A y \in S : ~(<<y, x>> \in R)
  BY <1>1, WFMin, Zenon
<1>3. ASSUME NEW y \in S PROVE x <= y
  <2>1. ~(y < x)
    BY <1>1, <1>2, Zenon
  <2> QED
    BY <2>1
<1> QED
  BY <1>3

\* argptr(): a block it accepts lies below sz in exact arithmetic, and every
\* block that does, with its first byte below sz, is accepted.
THEOREM ArgptrExact ==
    ASSUME NEW sz \in 0 .. MaxSize, NEW i \in Ints, NEW size \in Ints
    PROVE  argptr(i, size, sz) <=> size >= 0 /\ Uint(i) < sz /\ Uint(i) + size <= sz
BY ArgsAssumption DEF argptr, Add, Uint, Ints, WORD

\* fetchint(): the four bytes of an int it accepts lie below sz, and every such
\* int is accepted.
THEOREM FetchintExact ==
    ASSUME NEW sz \in 0 .. MaxSize, NEW addr \in Word
    PROVE  fetchint(addr, sz) <=> addr + 4 <= sz
BY ArgsAssumption DEF fetchint, Add, Word, WORD

\* argint(): with the stack pointer in the user part, as many arguments as a
\* system call has are fetched from above the return address, and only below sz.
THEOREM ArgintExact ==
    ASSUME NEW sz \in 0 .. MaxSize, NEW esp \in 0 .. MaxSize, NEW n \in 0 .. 5
    PROVE  argint(n, esp, sz) <=> esp + 4 + 4 * n + 4 <= sz
<1> DEFINE k == 4 * n
<1>1. k \in 0 .. 20
  OBVIOUS
<1> HIDE DEF k
<1>2. Add(Add(esp, 4), k) = esp + 4 + k /\ esp + 4 + k \in Word
  BY <1>1, ArgsAssumption DEF Add, Word, WORD
<1>3. fetchint(esp + 4 + k, sz) <=> esp + 4 + k + 4 <= sz
  BY <1>2, FetchintExact
<1> QED
  BY <1>2, <1>3 DEF argint, k

\* fetchstr(): it fails exactly when no NUL lies between the pointer and sz, and
\* otherwise the bytes it counts, and the NUL after them, are below sz.
THEOREM FetchstrFindsNul ==
    ASSUME NEW sz \in 0 .. MaxSize, NEW addr \in Word, NEW mem \in [Word -> Nat]
    PROVE  LET n == fetchstr(mem, addr, sz)
           IN  IF \A s \in addr .. sz - 1 : mem[s] # 0 THEN n = Fail
               ELSE /\ n \in Nat /\ addr + n < sz /\ mem[addr + n] = 0
                    /\ \A t \in addr .. addr + n - 1 : mem[t] # 0
<1> DEFINE Z == {s \in addr .. sz - 1 : mem[s] = 0}
           First(s) == mem[s] = 0 /\ \A t \in addr .. s - 1 : mem[t] # 0
           c == CHOOSE s \in addr .. sz - 1 : First(s)
<1>1. addr \in Nat /\ sz \in Nat
  BY ArgsAssumption DEF Word, WORD
<1>2. CASE \A s \in addr .. sz - 1 : mem[s] # 0
  BY <1>2 DEF fetchstr
<1>3. CASE Z # {}
  <2>1. PICK m \in Z : \A y \in Z : m <= y
    <3>1. Z \subseteq Nat
      BY <1>1
    <3> HIDE DEF Z
    <3> QED
      BY <1>3, <3>1, NatMin, Zenon
  <2>2. m \in addr .. sz - 1 /\ First(m)
    BY <1>1, <2>1
  <2>3. c \in addr .. sz - 1 /\ First(c)
    <3> HIDE DEF First
    <3> QED
      BY <2>2, Zenon
  <2>4. fetchstr(mem, addr, sz) = c - addr
    BY <1>1, <2>3 DEF fetchstr
  <2> HIDE DEF c
  <2>5. addr + (c - addr) = c /\ c - addr \in Nat
    BY <1>1, <2>3
  <2> QED
    BY <1>1, <2>3, <2>4, <2>5
<1> QED
  BY <1>2, <1>3

-----------------------------------------------------------------------------
(* The clock.                                                              *)

\* ticks - ticks0, as unsigned numbers
Elapsed(p) == (ticks - nap[p].ticks0) % NTICKS

\* slept counts the timer interrupts since sys_sleep() read ticks, and stops when
\* they are as many as ticks can count.  A process that is in sleep(), or on its
\* way to it, has time left.
ClockInvariant ==
    /\ ClockTypeOK
    /\ \A p \in Sleeper : nap[p].pc # "user" => slept[p] = NTICKS \/ slept[p] = Elapsed(p)
    /\ \A p \in Sleeper : nap[p].pc \in {"tosleep", "sleep"} => Elapsed(p) < nap[p].n

\* What subtraction gives when ticks has wrapped around and when it has not.
LEMMA ElapsedValue ==
    ASSUME NEW t \in 0 .. NTICKS - 1, NEW a \in 0 .. NTICKS - 1
    PROVE  (t - a) % NTICKS = IF t >= a THEN t - a ELSE t - a + NTICKS
BY ClockAssumption

\* The timer interrupt.
LEMMA TickValue ==
    ASSUME NEW t \in 0 .. NTICKS - 1
    PROVE  (t + 1) % NTICKS = IF t = NTICKS - 1 THEN 0 ELSE t + 1
BY ClockAssumption

\* A timer interrupt adds one to the difference, or takes it from the greatest
\* value back to zero.
LEMMA ElapsedTick ==
    ASSUME NEW t \in 0 .. NTICKS - 1, NEW a \in 0 .. NTICKS - 1
    PROVE  /\ (t + 1) % NTICKS \in 0 .. NTICKS - 1
           /\ (t - a) % NTICKS \in 0 .. NTICKS - 1
           /\ (((t + 1) % NTICKS) - a) % NTICKS =
                 IF (t - a) % NTICKS = NTICKS - 1 THEN 0 ELSE ((t - a) % NTICKS) + 1
<1>n. NTICKS \in Nat \ {0}
  BY ClockAssumption
<1>1. PICK u \in 0 .. NTICKS - 1 : u = (t + 1) % NTICKS /\ u = IF t = NTICKS - 1 THEN 0 ELSE t + 1
  <2>1. (IF t = NTICKS - 1 THEN 0 ELSE t + 1) \in 0 .. NTICKS - 1
    BY <1>n
  <2> QED
    BY <2>1, TickValue
<1>2. PICK d : d = (t - a) % NTICKS /\ d = IF t >= a THEN t - a ELSE t - a + NTICKS
  BY ElapsedValue
<1>3. PICK e : e = (u - a) % NTICKS /\ e = IF u >= a THEN u - a ELSE u - a + NTICKS
  BY ElapsedValue
<1>4. d \in 0 .. NTICKS - 1 /\ e = IF d = NTICKS - 1 THEN 0 ELSE d + 1
  <2>1. u = IF t = NTICKS - 1 THEN 0 ELSE t + 1
    BY <1>1
  <2>2. d = IF t >= a THEN t - a ELSE t - a + NTICKS
    BY <1>2
  <2>3. e = IF u >= a THEN u - a ELSE u - a + NTICKS
    BY <1>3
  <2> QED
    BY <2>1, <2>2, <2>3, <1>n
<1> QED
  BY <1>1, <1>2, <1>3, <1>4, Zenon

\* The initial states.
LEMMA ClockStart == ClockInit => ClockInvariant
<1> SUFFICES ASSUME ClockInit PROVE ClockInvariant
  OBVIOUS
<1>1. 0 \in 0 .. NTICKS - 1 /\ 0 \in 0 .. NTICKS
  BY ClockAssumption
<1>2. ClockTypeOK
  BY <1>1 DEF ClockInit, ClockTypeOK, Awake
<1> QED
  BY <1>2 DEF ClockInvariant, ClockInit, Awake

\* A process that calls sys_sleep() has slept no tick.
LEMMA SysSleepStep ==
    ASSUME ClockInvariant, NEW p \in Sleeper, NEW n \in Naps, SysSleep(p, n)
    PROVE  ClockInvariant'
<1>0. n % NTICKS \in 0 .. NTICKS - 1 /\ 0 \in 0 .. NTICKS
  BY ClockAssumption
<1>1. PICK m \in 0 .. NTICKS - 1 : m = n % NTICKS
  BY <1>0
<1>2. /\ nap' = [nap EXCEPT ![p] = [pc |-> "loop", ticks0 |-> ticks, n |-> m]]
      /\ slept' = [slept EXCEPT ![p] = 0] /\ ticks' = ticks /\ dead' = dead
  BY <1>1 DEF SysSleep
<1>3. ClockTypeOK'
  BY <1>0, <1>2 DEF ClockInvariant, ClockTypeOK
<1>4. (ticks - ticks) % NTICKS = 0
  <2>1. ticks \in 0 .. NTICKS - 1
    BY DEF ClockInvariant, ClockTypeOK
  <2>2. (ticks - ticks) % NTICKS = IF ticks >= ticks THEN ticks - ticks ELSE ticks - ticks + NTICKS
    BY <2>1, ElapsedValue
  <2>3. (IF ticks >= ticks THEN ticks - ticks ELSE ticks - ticks + NTICKS) = 0
    BY <2>1, ClockAssumption
  <2> QED
    BY <2>2, <2>3, Zenon
<1>5. ASSUME NEW q \in Sleeper
      PROVE  /\ nap'[q].pc # "user" => slept'[q] = NTICKS \/ slept'[q] = Elapsed(q)'
             /\ nap'[q].pc \in {"tosleep", "sleep"} => Elapsed(q)' < nap'[q].n
  <2>1. CASE q = p
    <3>1. nap'[p] = [pc |-> "loop", ticks0 |-> ticks, n |-> m] /\ slept'[p] = 0 /\ ticks' = ticks
      BY <1>2 DEF ClockInvariant, ClockTypeOK
    <3>0. nap'[p].ticks0 = ticks
      BY <3>1
    <3>2. Elapsed(p)' = 0
      BY <1>4, <3>0, <3>1, Zenon DEF Elapsed
    <3> QED
      BY <2>1, <3>1, <3>2
  <2>2. CASE q # p
    <3>1. nap'[q] = nap[q] /\ slept'[q] = slept[q] /\ Elapsed(q)' = Elapsed(q)
      BY <1>2, <2>2, Zenon DEF ClockInvariant, ClockTypeOK, Elapsed
    <3> QED
      BY <3>1, Zenon DEF ClockInvariant
  <2> QED
    BY <2>1, <2>2
<1> QED
  BY <1>3, <1>5 DEF ClockInvariant

\* The loop of sys_sleep() goes on to sleep() only with time left.
LEMMA SleepTurnStep ==
    ASSUME ClockInvariant, NEW p \in Sleeper, SleepTurn(p)
    PROVE  ClockInvariant'
<1>0. 0 \in 0 .. NTICKS - 1 /\ 0 \in 0 .. NTICKS
  BY ClockAssumption
<1>1. CASE TimeLeft(p) /\ ~dead[p]
  <2>1. nap' = [nap EXCEPT ![p].pc = "tosleep"] /\ UNCHANGED <<ticks, dead, slept>>
    BY <1>1 DEF SleepTurn
  <2>2. ClockTypeOK'
    BY <2>1 DEF ClockInvariant, ClockTypeOK
  <2>3. ASSUME NEW q \in Sleeper
        PROVE  /\ nap'[q].ticks0 = nap[q].ticks0 /\ nap'[q].n = nap[q].n
               /\ nap'[q].pc = IF q = p THEN "tosleep" ELSE nap[q].pc
    BY <2>1 DEF ClockInvariant, ClockTypeOK
  <2>4. nap[p].pc = "loop" /\ Elapsed(p) < nap[p].n
    BY <1>1 DEF SleepTurn, TimeLeft, Elapsed
  <2>5. ASSUME NEW q \in Sleeper PROVE Elapsed(q)' = Elapsed(q)
    BY <2>1, <2>3, Zenon DEF Elapsed
  <2> QED
    BY <2>1, <2>2, <2>3, <2>4, <2>5 DEF ClockInvariant
<1>2. CASE ~(TimeLeft(p) /\ ~dead[p])
  <2>1. nap' = [nap EXCEPT ![p] = Awake] /\ slept' = [slept EXCEPT ![p] = 0]
        /\ ticks' = ticks /\ dead' = dead
    BY <1>2, Zenon DEF SleepTurn
  <2>2. ClockTypeOK'
    BY <1>0, <2>1 DEF ClockInvariant, ClockTypeOK, Awake
  <2>3. nap'[p].pc = "user"
    BY <2>1 DEF ClockInvariant, ClockTypeOK, Awake
  <2>4. ASSUME NEW q \in Sleeper, q # p
        PROVE  nap'[q] = nap[q] /\ slept'[q] = slept[q] /\ Elapsed(q)' = Elapsed(q)
    BY <2>1, <2>4, Zenon DEF ClockInvariant, ClockTypeOK, Elapsed
  <2> QED
    BY <2>2, <2>3, <2>4 DEF ClockInvariant
<1> QED
  BY <1>1, <1>2

\* sleep() and kill() change where a process is, and nothing else: kill() takes
\* it out of sleep() only.
LEMMA PlaceStep ==
    ASSUME ClockInvariant, NEW p \in Sleeper, SleepTicks(p) \/ KillSleeper(p)
    PROVE  ClockInvariant'
<1>0. PICK a \in {"user", "loop", "tosleep", "sleep"} :
        /\ nap' = [nap EXCEPT ![p].pc = a] /\ ticks' = ticks /\ slept' = slept
        /\ a \in {"tosleep", "sleep"} => nap[p].pc \in {"tosleep", "sleep"}
        /\ nap[p].pc = "user" => a = "user"
  BY DEF SleepTicks, KillSleeper, ClockInvariant, ClockTypeOK
<1>1. dead' \in [Sleeper -> BOOLEAN]
  BY Zenon DEF SleepTicks, KillSleeper, ClockInvariant, ClockTypeOK
<1>2. ClockTypeOK'
  BY <1>0, <1>1, Zenon DEF ClockInvariant, ClockTypeOK
<1>3. ASSUME NEW q \in Sleeper
      PROVE  /\ nap'[q].ticks0 = nap[q].ticks0 /\ nap'[q].n = nap[q].n
             /\ nap'[q].pc = IF q = p THEN a ELSE nap[q].pc
  BY <1>0 DEF ClockInvariant, ClockTypeOK
<1>4. ASSUME NEW q \in Sleeper PROVE Elapsed(q)' = Elapsed(q)
  BY <1>0, <1>3, Zenon DEF Elapsed
<1> QED
  BY <1>0, <1>2, <1>3, <1>4 DEF ClockInvariant

\* The timer interrupt wakes every process in sleep(), and none is on its way.
LEMMA TimerStep ==
    ASSUME ClockInvariant, Timer
    PROVE  ClockInvariant'
<1>n. NTICKS \in Nat \ {0}
  BY ClockAssumption
<1>t. ticks \in 0 .. NTICKS - 1 /\ ticks' = (ticks + 1) % NTICKS
  BY DEF ClockInvariant, ClockTypeOK, Timer
<1>1. ASSUME NEW q \in Sleeper
      PROVE  /\ nap'[q].ticks0 = nap[q].ticks0 /\ nap'[q].n = nap[q].n
             /\ nap[q].ticks0 \in 0 .. NTICKS - 1 /\ slept[q] \in 0 .. NTICKS
             /\ nap'[q].pc \in {"user", "loop"} /\ (nap'[q].pc = "user" <=> nap[q].pc = "user")
             /\ slept'[q] = IF nap[q].pc = "user" \/ slept[q] = NTICKS THEN slept[q] ELSE slept[q] + 1
  BY DEF Timer, WakeTicks, LockFree, ClockInvariant, ClockTypeOK
<1>2. ASSUME NEW q \in Sleeper, nap[q].pc # "user"
      PROVE  slept'[q] = NTICKS \/ slept'[q] = Elapsed(q)'
  <2>0. /\ Elapsed(q) \in 0 .. NTICKS - 1
        /\ (((ticks + 1) % NTICKS) - nap[q].ticks0) % NTICKS =
              IF Elapsed(q) = NTICKS - 1 THEN 0 ELSE Elapsed(q) + 1
    <3>1. nap[q].ticks0 \in 0 .. NTICKS - 1
      BY <1>1
    <3> QED
      BY <1>t, <3>1, ElapsedTick, Zenon DEF Elapsed
  <2>1. PICK d \in 0 .. NTICKS - 1 :
          d = Elapsed(q) /\ Elapsed(q)' = IF d = NTICKS - 1 THEN 0 ELSE d + 1
    <3>1. nap'[q].ticks0 = nap[q].ticks0
      BY <1>1
    <3>2. Elapsed(q)' = IF Elapsed(q) = NTICKS - 1 THEN 0 ELSE Elapsed(q) + 1
      BY <1>t, <2>0, <3>1, Zenon DEF Elapsed
    <3> QED
      BY <2>0, <3>2, Zenon
  <2>2. slept[q] = NTICKS \/ slept[q] = d
    BY <1>2, <2>1 DEF ClockInvariant
  <2> QED
    BY <1>n, <1>1, <1>2, <2>1, <2>2
<1>3. ClockTypeOK'
  <2>1. ticks' \in 0 .. NTICKS - 1
    <3>1. (ticks + 1) % NTICKS \in 0 .. NTICKS - 1
      BY <1>t, ElapsedTick, Zenon
    <3> QED
      BY <1>t, <3>1, Zenon
  <2>2. slept' \in [Sleeper -> 0 .. NTICKS]
    <3>1. ASSUME NEW q \in Sleeper PROVE slept'[q] \in 0 .. NTICKS
      BY <1>n, <1>1
    <3> QED
      BY <3>1 DEF Timer
  <2>3. nap' \in [Sleeper -> [pc : {"user", "loop", "tosleep", "sleep"},
                             ticks0 : 0 .. NTICKS - 1, n : 0 .. NTICKS - 1]]
    BY DEF Timer, WakeTicks, ClockInvariant, ClockTypeOK
  <2> QED
    BY <2>1, <2>2, <2>3 DEF Timer, ClockInvariant, ClockTypeOK
<1> QED
  BY <1>1, <1>2, <1>3 DEF ClockInvariant

\* ClockInvariant holds in every state.
THEOREM ClockInvariance == ClockSpec => []ClockInvariant
<1>1. ASSUME ClockInvariant, [ClockNext]_clockVars PROVE ClockInvariant'
  <2>1. CASE UNCHANGED clockVars
    BY <1>1, <2>1, Zenon DEF clockVars, ClockInvariant, ClockTypeOK, Elapsed
  <2>2. CASE ClockNext
    BY <1>1, <2>2, TimerStep, SleepTurnStep, PlaceStep, SysSleepStep, Zenon DEF ClockNext
  <2> QED
    BY <1>1, <2>1, <2>2
<1> QED
  BY <1>1, ClockStart, PTL DEF ClockSpec

\* A sleep() that is not killed lasts for n timer interrupts or more, whatever
\* the width of ticks and wherever it wraps around.
THEOREM SleepLasts == ClockSpec => SleepsLongEnough
<1>1. ASSUME ClockInvariant, [ClockNext]_clockVars, NEW p \in Sleeper,
             nap[p].pc = "loop", nap'[p].pc = "user", ~dead[p]
      PROVE  slept[p] >= nap[p].n
  <2>1. /\ slept[p] = NTICKS \/ slept[p] = Elapsed(p)
        /\ nap[p].n \in 0 .. NTICKS - 1 /\ NTICKS \in Nat /\ ticks \in 0 .. NTICKS - 1
        /\ nap[p].ticks0 \in 0 .. NTICKS - 1
    BY <1>1, ClockAssumption DEF ClockInvariant, ClockTypeOK
  <2>2. Elapsed(p) \in 0 .. NTICKS - 1
    BY <2>1, ElapsedTick, Zenon DEF Elapsed
  <2>3. ~(Elapsed(p) < nap[p].n)
    <3>1. PICK q \in Sleeper : SleepTurn(q) /\ q = p
      BY <1>1 DEF ClockNext, clockVars, Timer, WakeTicks, SleepTurn, SleepTicks, KillSleeper, SysSleep,
                  ClockInvariant, ClockTypeOK
    <3>2. ~TimeLeft(p)
      BY <1>1, <3>1 DEF SleepTurn, ClockInvariant, ClockTypeOK
    <3> QED
      BY <3>2, Zenon DEF TimeLeft, Elapsed
  <2> QED
    BY <2>1, <2>2, <2>3
<1>2. ClockInvariant /\ [ClockNext]_clockVars =>
        [\A p \in Sleeper : nap[p].pc = "loop" /\ nap'[p].pc = "user" /\ ~dead[p]
            => slept[p] >= nap[p].n]_clockVars
  BY <1>1
<1> QED
  BY <1>2, ClockInvariance, PTL DEF ClockSpec, SleepsLongEnough

\* A process is asleep only while it has time left.
THEOREM NoOversleep == ClockSpec => []SleeperHasTimeLeft
<1>1. ClockInvariant => SleeperHasTimeLeft
  BY Zenon DEF ClockInvariant, SleeperHasTimeLeft, TimeLeft, Elapsed
<1> QED
  BY <1>1, ClockInvariance, PTL

-----------------------------------------------------------------------------
(* Pipes: the inductive invariant.                                         *)

\* p->lock is held by the process, if any, that is inside pipewrite() or
\* piperead() and not in sleep(); writers run pipewrite() only, and readers
\* piperead() only.
LockInv ==
    /\ \A p \in Thread : pc[p] \in {"write", "wait", "copy", "sleep"} <=> lock = p
    /\ \A p \in Writer : pc[p] \notin {"wait", "copy"}
    /\ \A p \in Reader : pc[p] # "write"

\* An end is open as long as one of its processes has not closed it, and who is
\* in pipeclose() is the last one of its end.
EndsInv ==
    /\ \A p \in Writer : pc[p] # "gone" => writeopen
    /\ \A p \in Reader : pc[p] # "gone" => readopen
    /\ \A p \in Thread : pc[p] = "closing" => \A q \in Side(p) \ {p} : pc[q] = "gone"
    /\ freed => ~writeopen /\ ~readopen

\* What SleeperHasReason says of the sleeping processes is also true of those
\* that are about to sleep.
SleepInv ==
    /\ \A p \in Reader : pc[p] \in {"sleep", "asleep"} =>
        \/ Empty /\ writeopen
        \/ killed \cap Writer # {}
        \/ \E q \in Writer : lock = q /\ pc[q] = "write"
    /\ \A p \in Writer : pc[p] \in {"sleep", "asleep"} =>
        \/ Full /\ readopen
        \/ \E q \in Reader : lock = q /\ pc[q] = "copy"

\* nread and nwrite are never more than PIPESIZE apart.
RingInv == Used <= PIPESIZE

PipeInvariant == TypeOK /\ LockInv /\ EndsInv /\ SleepInv /\ RingInv

-----------------------------------------------------------------------------
(* Unsigned arithmetic.                                                    *)

\* A quotient and a remainder determine each other.
LEMMA ModUnique ==
    ASSUME NEW d \in Nat \ {0}, NEW q \in Int, NEW r \in 0 .. d - 1
    PROVE  (d * q + r) % d = r
OBVIOUS

\* Reducing an index to an unsigned int does not change its place in data.
LEMMA SlotWrap ==
    ASSUME NEW x \in Nat, x < 2 * UINT
    PROVE  Slot(x % UINT) = Slot(x)
<1>1. UINT \in Nat \ {0} /\ PIPESIZE \in Nat \ {0}
  BY PipeAssumption
<1> DEFINE k == UINT \div PIPESIZE
           q == x \div PIPESIZE
           r == x % PIPESIZE
<1>2. k \in Int /\ UINT = PIPESIZE * k
  BY PipeAssumption
<1>3. q \in Int /\ r \in 0 .. PIPESIZE - 1 /\ x = PIPESIZE * q + r
  BY <1>1
<1> HIDE DEF k, q, r
<1>4. x % UINT = x \/ x % UINT = x - UINT
  BY <1>1
<1>5. x - UINT = PIPESIZE * (q - k) + r
  BY <1>1, <1>2, <1>3
<1>6. (x - UINT) % PIPESIZE = r
  <2>1. q - k \in Int
    BY <1>2, <1>3
  <2>2. (PIPESIZE * (q - k) + r) % PIPESIZE = r
    BY <1>1, <1>3, <2>1, ModUnique
  <2> QED
    BY <1>5, <2>2
<1> QED
  BY <1>4, <1>6 DEF Slot, r

\* The constants.
LEMMA Constants ==
    /\ UINT \in Nat \ {0} /\ PIPESIZE \in Nat \ {0} /\ PIPESIZE < UINT /\ MaxN \in Nat
    /\ NoLock \notin Thread /\ Writer \cap Reader = {}
BY PipeAssumption DEF Thread

\* Unsigned subtraction.
LEMMA Minus ==
    ASSUME NEW d \in Nat \ {0}, NEW m \in 0 .. d - 1, NEW n \in 0 .. d - 1
    PROVE  /\ m <= n => (n - m) % d = n - m
           /\ n < m => (n - m) % d = n - m + d
OBVIOUS

\* The unsigned difference of nwrite and nread, and what the tests for a full and
\* for an empty pipe say about it.
LEMMA UsedValue ==
    ASSUME TypeOK
    PROVE  /\ Used \in 0 .. UINT - 1
           /\ nwrite = (nread + Used) % UINT
           /\ Full <=> Used = PIPESIZE
           /\ Empty <=> Used = 0
<1>1. /\ UINT \in Nat \ {0} /\ PIPESIZE \in Nat \ {0} /\ PIPESIZE < UINT
      /\ nread \in 0 .. UINT - 1 /\ nwrite \in 0 .. UINT - 1
  BY Constants DEF TypeOK
<1>2. /\ nread <= nwrite => Used = nwrite - nread
      /\ nwrite < nread => Used = nwrite - nread + UINT
  BY <1>1, Minus, Zenon DEF Used
<1>3. Used \in 0 .. UINT - 1
  BY <1>1, <1>2
<1>4. nwrite = (nread + Used) % UINT
  <2>1. nread <= nwrite => nread + Used = nwrite
    BY <1>1, <1>2, <1>3
  <2>2. nwrite < nread => nread + Used = nwrite + UINT
    BY <1>1, <1>2, <1>3
  <2>3. (nwrite + UINT) % UINT = nwrite /\ nwrite % UINT = nwrite
    BY <1>1
  <2> QED
    BY <1>1, <2>1, <2>2, <2>3
<1>5. Full <=> Used = PIPESIZE
  <2> DEFINE m == (nread + PIPESIZE) % UINT
  <2>1. m = nread + PIPESIZE \/ m = nread + PIPESIZE - UINT
    BY <1>1
  <2>2. m \in 0 .. UINT - 1
    BY <1>1
  <2> HIDE DEF m
  <2>3. nwrite = m <=> Used = PIPESIZE
    BY <1>1, <1>2, <2>1, <2>2
  <2> QED
    BY <2>3 DEF Full, m
<1>6. Empty <=> Used = 0
  BY <1>1, <1>2 DEF Empty
<1> QED
  BY <1>3, <1>4, <1>5, <1>6

\* Advancing nwrite puts one byte more in the pipe, unless it was full.
LEMMA UsedPut ==
    ASSUME TypeOK, RingInv, ~Full, nwrite' = Incr(nwrite), nread' = nread
    PROVE  Used' = Used + 1 /\ Used < PIPESIZE /\ nwrite' \in 0 .. UINT - 1
<1>1. /\ UINT \in Nat \ {0} /\ PIPESIZE \in Nat \ {0} /\ PIPESIZE < UINT
      /\ nread \in 0 .. UINT - 1 /\ nwrite \in 0 .. UINT - 1
  BY Constants DEF TypeOK
<1>2. Used < PIPESIZE /\ Used \in 0 .. UINT - 1
  BY <1>1, UsedValue DEF RingInv
<1>3. /\ nread <= nwrite => Used = nwrite - nread
      /\ nwrite < nread => Used = nwrite - nread + UINT
  BY <1>1, Minus, Zenon DEF Used
<1>4. nwrite' \in 0 .. UINT - 1 /\ (nwrite' = nwrite + 1 \/ nwrite' = nwrite + 1 - UINT)
  BY <1>1 DEF Incr
<1>5. /\ nread' <= nwrite' => Used' = nwrite' - nread'
      /\ nwrite' < nread' => Used' = nwrite' - nread' + UINT
  <2>1. nread' \in 0 .. UINT - 1 /\ nwrite' \in 0 .. UINT - 1
    BY <1>1, <1>4
  <2> QED
    BY <1>1, <2>1, Minus, Zenon DEF Used
<1> QED
  BY <1>1, <1>2, <1>3, <1>4, <1>5

\* Advancing nread takes one byte out of it, unless it was empty.
LEMMA UsedGet ==
    ASSUME TypeOK, ~Empty, nread' = Incr(nread), nwrite' = nwrite
    PROVE  Used' = Used - 1 /\ 0 < Used /\ nread' \in 0 .. UINT - 1
<1>1. /\ UINT \in Nat \ {0}
      /\ nread \in 0 .. UINT - 1 /\ nwrite \in 0 .. UINT - 1
  BY Constants DEF TypeOK
<1>2. 0 < Used /\ Used \in 0 .. UINT - 1
  BY <1>1, UsedValue
<1>3. /\ nread <= nwrite => Used = nwrite - nread
      /\ nwrite < nread => Used = nwrite - nread + UINT
  BY <1>1, Minus, Zenon DEF Used
<1>4. nread' \in 0 .. UINT - 1 /\ (nread' = nread + 1 \/ nread' = nread + 1 - UINT)
  BY <1>1 DEF Incr
<1>5. /\ nread' <= nwrite' => Used' = nwrite' - nread'
      /\ nwrite' < nread' => Used' = nwrite' - nread' + UINT
  <2>1. nread' \in 0 .. UINT - 1 /\ nwrite' \in 0 .. UINT - 1
    BY <1>1, <1>4
  <2> QED
    BY <1>1, <2>1, Minus, Zenon DEF Used
<1> QED
  BY <1>1, <1>2, <1>3, <1>4, <1>5

-----------------------------------------------------------------------------
(* Every step keeps the invariant.                                         *)

\* The initial states.
LEMMA PipeInit == Init => PipeInvariant
<1> SUFFICES ASSUME Init PROVE PipeInvariant
  OBVIOUS
<1>1. TypeOK
  <2>1. data \in [0 .. PIPESIZE - 1 -> Byte]
    BY DEF Init
  <2>2. nread \in 0 .. UINT - 1 /\ nwrite \in 0 .. UINT - 1 /\ 0 \in 0 .. MaxN
    BY Constants DEF Init
  <2>3. pc \in [Thread -> PCs] /\ left \in [Thread -> 0 .. MaxN]
    BY <2>2 DEF Init, PCs
  <2> QED
    BY <2>1, <2>2, <2>3, Zenon DEF Init, TypeOK
<1>2. LockInv /\ EndsInv /\ SleepInv
  BY Constants DEF Init, LockInv, EndsInv, SleepInv, Thread
<1>3. RingInv
  BY <1>1, UsedValue, Constants DEF RingInv, Init, Empty
<1> QED
  BY <1>1, <1>2, <1>3 DEF PipeInvariant

\* Every step keeps the C types, and the distance of nread and nwrite.
LEMMA TypeStep == PipeInvariant /\ [Next]_vars => TypeOK' /\ RingInv'
<1> SUFFICES ASSUME PipeInvariant, [Next]_vars PROVE TypeOK' /\ RingInv'
  OBVIOUS
<1>type. TypeOK /\ RingInv
  BY DEF PipeInvariant
<1>a. ASSUME UNCHANGED <<nread, nwrite>> PROVE RingInv'
  BY <1>a, <1>type DEF RingInv, Used
<1>b. ASSUME UNCHANGED ring, pc' \in [Thread -> PCs], left' \in [Thread -> 0 .. MaxN],
             lock' \in Thread \cup {NoLock}, killed' \subseteq Thread,
             readopen' \in BOOLEAN, writeopen' \in BOOLEAN, freed' \in BOOLEAN
      PROVE  TypeOK' /\ RingInv'
  BY <1>a, <1>b, <1>type DEF TypeOK, ring
<1>now. /\ pc \in [Thread -> PCs] /\ left \in [Thread -> 0 .. MaxN]
        /\ lock \in Thread \cup {NoLock} /\ killed \subseteq Thread
        /\ readopen \in BOOLEAN /\ writeopen \in BOOLEAN /\ freed \in BOOLEAN
  BY <1>type DEF TypeOK
<1>wake. \A S : Wakeup(pc, S) \in [Thread -> PCs]
  BY <1>now DEF Wakeup, PCs
<1>1. ASSUME NEW p \in Thread, NEW n \in 0 .. MaxN, WriteStart(p, n) \/ ReadStart(p, n)
      PROVE  TypeOK' /\ RingInv'
  BY <1>1, <1>b, <1>now DEF WriteStart, ReadStart, ring, ends, PCs
<1>2. ASSUME NEW p \in Writer, NEW b \in Byte, WriteByte(p, b) PROVE TypeOK' /\ RingInv'
  <2>1. /\ data' = [data EXCEPT ![Slot(nwrite)] = b] /\ nwrite' = Incr(nwrite) /\ nread' = nread
        /\ left' = [left EXCEPT ![p] = @ - 1] /\ left[p] > 0 /\ ~Full
        /\ UNCHANGED <<readopen, writeopen, freed, lock, pc, killed>>
    BY <1>2 DEF WriteByte, ends
  <2>2. Used' = Used + 1 /\ Used < PIPESIZE /\ nwrite' \in 0 .. UINT - 1
    BY <1>type, <2>1, UsedPut
  <2>3. Used \in Nat
    BY <1>type, UsedValue
  <2>4. left' \in [Thread -> 0 .. MaxN]
    BY <1>type, <2>1, Constants DEF TypeOK, Thread
  <2> QED
    <3>1. RingInv' /\ nread' \in 0 .. UINT - 1
      BY <1>type, <2>1, <2>2, <2>3, Constants DEF TypeOK, RingInv
    <3>2. data' \in [0 .. PIPESIZE - 1 -> Byte]
      BY <1>type, <2>1, Zenon DEF TypeOK
    <3> QED
      BY <1>now, <2>1, <2>2, <2>4, <3>1, <3>2 DEF TypeOK
<1>3. ASSUME NEW p \in Reader, ReadByte(p) PROVE TypeOK' /\ RingInv'
  <2>1. /\ nread' = Incr(nread) /\ nwrite' = nwrite
        /\ left' = [left EXCEPT ![p] = @ - 1] /\ left[p] > 0 /\ ~Empty
        /\ UNCHANGED <<data, readopen, writeopen, freed, lock, pc, killed>>
    BY <1>3 DEF ReadByte, ends
  <2>2. Used' = Used - 1 /\ nread' \in 0 .. UINT - 1
    BY <1>type, <2>1, UsedGet
  <2>3. Used \in Nat
    BY <1>type, UsedValue
  <2>4. left' \in [Thread -> 0 .. MaxN]
    BY <1>type, <2>1, Constants DEF TypeOK, Thread
  <2> QED
    BY <1>type, <2>1, <2>2, <2>3, <2>4, Constants DEF TypeOK, RingInv
<1>4. ASSUME NEW p \in Writer, WriteFail(p) \/ WriteFull(p) \/ WriteDone(p)
      PROVE  TypeOK' /\ RingInv'
  BY <1>4, <1>b, <1>now, <1>wake DEF WriteFail, WriteFull, WriteDone, ring, ends, PCs
<1>5. ASSUME NEW p \in Reader, ReadFail(p) \/ ReadEmpty(p) \/ ReadCopy(p) \/ ReadDone(p)
      PROVE  TypeOK' /\ RingInv'
  <2>1. CASE ReadDone(p)
    BY <2>1, <1>b, <1>now, <1>wake, Zenon DEF ReadDone, ReadWake, ring, ends, PCs
  <2> QED
    BY <1>5, <2>1, <1>b, <1>now DEF ReadFail, ReadEmpty, ReadCopy, ring, ends, PCs
<1>6. ASSUME NEW p \in Thread, Sleep(p) \/ Reacquire(p) \/ Close(p)
      PROVE  TypeOK' /\ RingInv'
  BY <1>6, <1>b, <1>now DEF Sleep, Reacquire, Close, ring, ends, PCs
<1>7. ASSUME NEW p \in Thread, PipeClose(p) \/ Kill(p) PROVE TypeOK' /\ RingInv'
  <2>1. CASE PipeClose(p)
    <3>1. readopen' \in BOOLEAN /\ writeopen' \in BOOLEAN /\ freed' \in BOOLEAN
      BY <2>1, <1>type DEF TypeOK, PipeClose, LastClose
    <3> QED
      BY <2>1, <3>1, <1>b, <1>now, <1>wake DEF PipeClose, CloseWake, ring, PCs
  <2>2. CASE Kill(p)
    BY <2>2, <1>b, <1>now, <1>wake DEF Kill, ring, ends, PCs
  <2> QED
    BY <1>7, <2>1, <2>2
<1>8. CASE PipeAlloc
  <2>1. TypeOK'
    <3>1. 0 \in 0 .. UINT - 1 /\ 0 \in 0 .. MaxN
      BY Constants
    <3>2. pc' \in [Thread -> PCs] /\ left' \in [Thread -> 0 .. MaxN]
      BY <1>8, <3>1 DEF PipeAlloc, PCs
    <3> QED
      BY <1>8, <3>1, <3>2, <1>type, Zenon DEF TypeOK, PipeAlloc
  <2>2. Used' = (0 - 0) % UINT
    BY <1>8 DEF PipeAlloc, Used
  <2> QED
    BY <2>1, <2>2, Minus, Constants DEF RingInv
<1>9. CASE UNCHANGED vars
  BY <1>9, <1>b, <1>now DEF vars, ring, ends
<1> QED
  BY <1>1, <1>2, <1>3, <1>4, <1>5, <1>6, <1>7, <1>8, <1>9 DEF Next, Writes, Reads, Thread

\* Every step keeps LockInv: who enters pipewrite() or piperead(), or comes back
\* from sleep(), finds p->lock free, and who leaves them or sleeps frees it.
LEMMA LockStep == PipeInvariant /\ [Next]_vars => LockInv'
<1> SUFFICES ASSUME PipeInvariant, [Next]_vars PROVE LockInv'
  OBVIOUS
<1>type. pc \in [Thread -> PCs]
  BY DEF PipeInvariant, TypeOK
<1>lock. LockInv
  BY DEF PipeInvariant
<1>0. NoLock \notin Thread /\ Writer \cap Reader = {}
  BY Constants
<1>1. ASSUME NEW p \in Writer, NEW n \in 0 .. MaxN, WriteStart(p, n) PROVE LockInv'
  BY <1>1, <1>0, <1>type, <1>lock DEF LockInv, WriteStart, Thread
<1>2. ASSUME NEW p \in Reader, NEW n \in 0 .. MaxN, ReadStart(p, n) PROVE LockInv'
  BY <1>2, <1>0, <1>type, <1>lock DEF LockInv, ReadStart, Thread
<1>3. ASSUME NEW p \in Writer, NEW b \in Byte, WriteByte(p, b) PROVE LockInv'
  BY <1>3, <1>lock DEF LockInv, WriteByte
<1>4. ASSUME NEW p \in Writer, WriteFail(p) PROVE LockInv'
  BY <1>4, <1>0, <1>type, <1>lock DEF LockInv, WriteFail, Thread
<1>5. ASSUME NEW p \in Writer, WriteFull(p) \/ WriteDone(p) PROVE LockInv'
  BY <1>5, <1>0, <1>type, <1>lock, Zenon DEF LockInv, WriteFull, WriteDone, Wakeup, Thread
<1>6. ASSUME NEW p \in Reader, ReadFail(p) \/ ReadEmpty(p) \/ ReadCopy(p) PROVE LockInv'
  BY <1>6, <1>0, <1>type, <1>lock DEF LockInv, ReadFail, ReadEmpty, ReadCopy, Thread
<1>7. ASSUME NEW p \in Reader, ReadByte(p) PROVE LockInv'
  BY <1>7, <1>lock DEF LockInv, ReadByte
<1>8. ASSUME NEW p \in Reader, ReadDone(p) PROVE LockInv'
  BY <1>8, <1>0, <1>type, <1>lock DEF LockInv, ReadDone, ReadWake, Wakeup, Thread
<1>9. ASSUME NEW p \in Thread, Sleep(p) \/ Reacquire(p) PROVE LockInv'
  BY <1>9, <1>0, <1>type, <1>lock DEF LockInv, Sleep, Reacquire, Thread
<1>10. ASSUME NEW p \in Thread, Close(p) PROVE LockInv'
  BY <1>10, <1>0, <1>type, <1>lock DEF LockInv, Close, Thread
<1>11. ASSUME NEW p \in Thread, PipeClose(p) PROVE LockInv'
  BY <1>11, <1>0, <1>type, <1>lock DEF LockInv, PipeClose, CloseWake, Wakeup, Thread
<1>12. ASSUME NEW p \in Thread, Kill(p) PROVE LockInv'
  BY <1>12, <1>0, <1>type, <1>lock DEF LockInv, Kill, Wakeup, Thread
<1>13. CASE PipeAlloc
  <2>1. \A p \in Thread : pc[p] = "gone"
    BY <1>13, <1>type DEF PipeAlloc, PipeInvariant, EndsInv, Thread
  <2> QED
    BY <1>13, <2>1, <1>0, <1>lock DEF LockInv, PipeAlloc, Thread
<1>14. CASE UNCHANGED vars
  BY <1>14, <1>lock DEF LockInv, vars
<1> QED
  BY <1>1, <1>2, <1>3, <1>4, <1>5, <1>6, <1>7, <1>8, <1>9, <1>10, <1>11, <1>12, <1>13,
     <1>14 DEF Next, Writes, Reads

\* Every step keeps EndsInv: fileclose() sends one process of each end to
\* pipeclose(), the last one.
LEMMA EndsStep == PipeInvariant /\ [Next]_vars => EndsInv'
<1> SUFFICES ASSUME PipeInvariant, [Next]_vars PROVE EndsInv'
  OBVIOUS
<1>type. pc \in [Thread -> PCs] /\ writeopen \in BOOLEAN /\ readopen \in BOOLEAN
  BY DEF PipeInvariant, TypeOK
<1>ends. EndsInv
  BY DEF PipeInvariant
<1>0. Writer \cap Reader = {}
  BY Constants
<1>a. ASSUME UNCHANGED ends,
             \A p \in Thread : /\ pc'[p] = "gone" <=> pc[p] = "gone"
                               /\ pc'[p] = "closing" => pc[p] = "closing"
      PROVE  EndsInv'
  BY <1>a, <1>ends DEF EndsInv, ends, Side, Thread
<1>1. ASSUME NEW p \in Thread, NEW n \in 0 .. MaxN, WriteStart(p, n) \/ ReadStart(p, n)
      PROVE  EndsInv'
  BY <1>1, <1>a, <1>type DEF WriteStart, ReadStart
<1>2. ASSUME NEW p \in Writer, NEW b \in Byte, WriteByte(p, b) PROVE EndsInv'
  BY <1>2, <1>a DEF WriteByte
<1>3. ASSUME NEW p \in Writer, WriteFail(p) \/ WriteFull(p) \/ WriteDone(p) PROVE EndsInv'
  BY <1>3, <1>a, <1>type, Zenon DEF WriteFail, WriteFull, WriteDone, Wakeup, Thread
<1>4. ASSUME NEW p \in Reader, ReadFail(p) \/ ReadEmpty(p) \/ ReadCopy(p) \/ ReadByte(p)
      PROVE  EndsInv'
  BY <1>4, <1>a, <1>type DEF ReadFail, ReadEmpty, ReadCopy, ReadByte, Thread
<1>5. ASSUME NEW p \in Reader, ReadDone(p) PROVE EndsInv'
  BY <1>5, <1>a, <1>type DEF ReadDone, ReadWake, Wakeup, Thread
<1>6. ASSUME NEW p \in Thread, Sleep(p) \/ Reacquire(p) PROVE EndsInv'
  BY <1>6, <1>a, <1>type DEF Sleep, Reacquire, Thread
<1>7. ASSUME NEW p \in Thread, Kill(p) PROVE EndsInv'
  BY <1>7, <1>a, <1>type DEF Kill, Wakeup
<1>8. ASSUME NEW p \in Thread, Close(p) PROVE EndsInv'
  BY <1>8, <1>0, <1>type, <1>ends DEF EndsInv, Close, Side, ends, Thread
<1>9. ASSUME NEW p \in Thread, PipeClose(p) PROVE EndsInv'
  <2>1. \A q \in Side(p) \ {p} : pc[q] = "gone"
    BY <1>9, <1>ends DEF EndsInv, PipeClose
  <2>2. pc[p] = "closing" /\ pc' = [CloseWake(pc, p) EXCEPT ![p] = "gone"]
    BY <1>9 DEF PipeClose
  <2>3. \A q \in Thread : /\ pc'[q] = "gone" <=> pc[q] = "gone" \/ q = p
                          /\ pc'[q] = "closing" => pc[q] = "closing"
    BY <2>2, <1>type DEF CloseWake, Wakeup
  <2>4. /\ writeopen' <=> writeopen /\ p \notin Writer
        /\ readopen' <=> readopen /\ p \notin Reader
        /\ freed' => ~writeopen' /\ ~readopen'
    BY <1>9, Zenon DEF PipeClose, LastClose
  <2>5. \A q \in Writer : pc'[q] # "gone" => writeopen'
    BY <2>1, <2>3, <2>4, <1>ends DEF EndsInv, Side, Thread
  <2>6. \A q \in Reader : pc'[q] # "gone" => readopen'
    BY <2>1, <2>3, <2>4, <1>0, <1>ends DEF EndsInv, Side, Thread
  <2>7. \A q \in Thread : pc'[q] = "closing" => \A r \in Side(q) \ {q} : pc'[r] = "gone"
    BY <2>3, <1>ends DEF EndsInv, Side, Thread
  <2> QED
    BY <2>4, <2>5, <2>6, <2>7, Zenon DEF EndsInv, Side
<1>10. CASE PipeAlloc
  BY <1>10 DEF EndsInv, PipeAlloc, Thread
<1>11. CASE UNCHANGED vars
  BY <1>11, <1>a DEF vars
<1> QED
  BY <1>1, <1>2, <1>3, <1>4, <1>5, <1>6, <1>7, <1>8, <1>9, <1>10, <1>11
     DEF Next, Writes, Reads, Thread

\* Every step keeps SleepInv: a process goes to sleep holding p->lock, under
\* which it has just found that it must wait, and who changes what it waits for
\* holds p->lock until its wakeup().
LEMMA SleepStep == PipeInvariant /\ [Next]_vars => SleepInv'
<1> SUFFICES ASSUME PipeInvariant, [Next]_vars PROVE SleepInv'
  OBVIOUS
<1>type. pc \in [Thread -> PCs] /\ killed \subseteq Thread
  BY DEF PipeInvariant, TypeOK
<1>lock. LockInv
  BY DEF PipeInvariant
<1>ends. EndsInv
  BY DEF PipeInvariant
<1>sleep. SleepInv
  BY DEF PipeInvariant
<1>0. NoLock \notin Thread /\ Writer \cap Reader = {}
  BY Constants
<1>a. ASSUME UNCHANGED <<nread, nwrite>> PROVE (Full' <=> Full) /\ (Empty' <=> Empty)
  BY <1>a DEF Full, Empty
<1>1. ASSUME NEW p \in Writer, NEW n \in 0 .. MaxN, WriteStart(p, n) PROVE SleepInv'
  <2>1. (Full' <=> Full) /\ (Empty' <=> Empty)
    BY <1>1, <1>a DEF WriteStart, ring
  <2> QED
    BY <1>1, <2>1, <1>0, <1>type, <1>sleep DEF SleepInv, WriteStart, ends, Thread
<1>2. ASSUME NEW p \in Reader, NEW n \in 0 .. MaxN, ReadStart(p, n) PROVE SleepInv'
  <2>1. (Full' <=> Full) /\ (Empty' <=> Empty)
    BY <1>2, <1>a DEF ReadStart, ring
  <2> QED
    BY <1>2, <2>1, <1>0, <1>type, <1>sleep DEF SleepInv, ReadStart, ends, Thread
<1>3. ASSUME NEW p \in Writer, NEW b \in Byte, WriteByte(p, b) PROVE SleepInv'
  <2>1. lock = p /\ pc[p] = "write" /\ UNCHANGED <<lock, pc>> /\ ~Full
    BY <1>3, <1>lock DEF LockInv, WriteByte, Thread
  <2>2. \A q \in Writer : pc[q] \notin {"sleep", "asleep"}
    BY <2>1, <1>0, <1>lock, <1>sleep DEF LockInv, SleepInv, Thread
  <2> QED
    BY <2>1, <2>2 DEF SleepInv
<1>4. ASSUME NEW p \in Writer, WriteFail(p) PROVE SleepInv'
  <2>1. (Full' <=> Full) /\ (Empty' <=> Empty)
    BY <1>4, <1>a DEF WriteFail, ring
  <2>2. p \in killed \/ \A q \in Reader : pc[q] = "gone"
    BY <1>4, <1>ends DEF WriteFail, EndsInv
  <2> QED
    BY <1>4, <2>1, <2>2, <1>0, <1>type, <1>lock, <1>sleep
       DEF SleepInv, LockInv, WriteFail, ends, Thread
<1>5. ASSUME NEW p \in Writer, WriteFull(p) \/ WriteDone(p) PROVE SleepInv'
  <2>1. (Full' <=> Full) /\ (Empty' <=> Empty)
    BY <1>5, <1>a DEF WriteFull, WriteDone, ring
  <2>2. lock = p
    BY <1>5, <1>lock DEF LockInv, WriteFull, WriteDone, Thread
  <2>3. \A q \in Reader : pc'[q] \notin {"sleep", "asleep"}
    BY <1>5, <2>2, <1>0, <1>lock, <1>type, Zenon DEF LockInv, WriteFull, WriteDone, Wakeup, Thread
  <2>4. ASSUME NEW q \in Writer, pc'[q] \in {"sleep", "asleep"} PROVE Full /\ readopen
    BY <1>5, <2>2, <2>4, <1>0, <1>lock, <1>type, <1>sleep, Zenon
       DEF SleepInv, LockInv, WriteFull, WriteDone, Wakeup, Thread
  <2>5. readopen' = readopen
    BY <1>5 DEF WriteFull, WriteDone, ends
  <2> QED
    BY <2>1, <2>3, <2>4, <2>5 DEF SleepInv
<1>6. ASSUME NEW p \in Reader, ReadFail(p) \/ ReadEmpty(p) \/ ReadCopy(p) PROVE SleepInv'
  <2>1. (Full' <=> Full) /\ (Empty' <=> Empty)
    BY <1>6, <1>a DEF ReadFail, ReadEmpty, ReadCopy, ring
  <2> QED
    BY <1>6, <2>1, <1>0, <1>type, <1>lock, <1>sleep
       DEF SleepInv, LockInv, ReadFail, ReadEmpty, ReadCopy, MustWait, ends, Thread
<1>7. ASSUME NEW p \in Reader, ReadByte(p) PROVE SleepInv'
  <2>1. lock = p /\ pc[p] = "copy" /\ UNCHANGED <<lock, pc, killed>> /\ ~Empty
    BY <1>7, <1>lock DEF LockInv, ReadByte, Thread
  <2>2. \A q \in Reader : pc[q] \in {"sleep", "asleep"} => killed \cap Writer # {}
    BY <2>1, <1>0, <1>lock, <1>sleep DEF LockInv, SleepInv, Thread
  <2> QED
    BY <2>1, <2>2 DEF SleepInv
<1>8. ASSUME NEW p \in Reader, ReadDone(p) PROVE SleepInv'
  <2>1. (Full' <=> Full) /\ (Empty' <=> Empty)
    BY <1>8, <1>a DEF ReadDone, ring
  <2>2. lock = p /\ lock' = NoLock /\ UNCHANGED <<writeopen, killed>>
    BY <1>8, <1>lock DEF LockInv, ReadDone, ends, Thread
  <2>3. \A q \in Writer : pc'[q] \notin {"sleep", "asleep"}
    BY <1>8, <2>2, <1>0, <1>lock, <1>type DEF LockInv, ReadDone, ReadWake, Wakeup, Thread
  <2>4. \A q \in Reader : pc'[q] \in {"sleep", "asleep"} => pc[q] \in {"sleep", "asleep"}
    BY <1>8, <1>0, <1>type DEF ReadDone, ReadWake, Wakeup, Thread
  <2> QED
    BY <2>1, <2>2, <2>3, <2>4, <1>0, <1>sleep DEF SleepInv, Thread
<1>9. ASSUME NEW p \in Thread, Sleep(p) \/ Reacquire(p) PROVE SleepInv'
  <2>1. (Full' <=> Full) /\ (Empty' <=> Empty)
    BY <1>9, <1>a DEF Sleep, Reacquire, ring
  <2> QED
    BY <1>9, <2>1, <1>0, <1>type, <1>lock, <1>sleep
       DEF SleepInv, LockInv, Sleep, Reacquire, ends, Thread
<1>10. ASSUME NEW p \in Thread, Close(p) PROVE SleepInv'
  <2>1. (Full' <=> Full) /\ (Empty' <=> Empty)
    BY <1>10, <1>a DEF Close, ring
  <2> QED
    BY <1>10, <2>1, <1>type, <1>sleep DEF SleepInv, Close, ends, Thread
<1>11. ASSUME NEW p \in Thread, PipeClose(p) PROVE SleepInv'
  <2>1. (Full' <=> Full) /\ (Empty' <=> Empty)
    BY <1>11, <1>a DEF PipeClose, ring
  <2>2. /\ pc[p] = "closing" /\ pc' = [CloseWake(pc, p) EXCEPT ![p] = "gone"]
        /\ lock = NoLock /\ UNCHANGED <<lock, killed>>
    BY <1>11 DEF PipeClose
  <2>3. \A q \in Thread : pc'[q] \in {"sleep", "asleep"} =>
            q \in Side(p) \ {p} /\ pc[q] \in {"sleep", "asleep"}
    BY <2>2, <1>0, <1>type, <1>lock DEF LockInv, CloseWake, Wakeup, Side, Thread
  <2>4. \A q \in Side(p) \ {p} : pc[q] = "gone"
    BY <2>2, <1>ends DEF EndsInv
  <2> QED
    BY <2>3, <2>4 DEF SleepInv, Side, Thread
<1>12. ASSUME NEW p \in Thread, Kill(p) PROVE SleepInv'
  <2>1. (Full' <=> Full) /\ (Empty' <=> Empty)
    BY <1>12, <1>a DEF Kill, ring
  <2> QED
    BY <1>12, <2>1, <1>type, <1>sleep DEF SleepInv, Kill, Wakeup, ends, Thread
<1>13. CASE PipeAlloc
  BY <1>13 DEF SleepInv, PipeAlloc, Thread
<1>14. CASE UNCHANGED vars
  <2>1. (Full' <=> Full) /\ (Empty' <=> Empty)
    BY <1>14, <1>a DEF vars, ring
  <2> QED
    BY <1>14, <2>1, <1>sleep DEF SleepInv, vars, ends
<1> QED
  BY <1>1, <1>2, <1>3, <1>4, <1>5, <1>6, <1>7, <1>8, <1>9, <1>10, <1>11, <1>12, <1>13,
     <1>14 DEF Next, Writes, Reads

\* The invariant holds in every reachable state of a pipe.
THEOREM PipeInvariance == Spec => []PipeInvariant
<1>1. PipeInvariant /\ [Next]_vars => PipeInvariant'
  BY TypeStep, LockStep, EndsStep, SleepStep DEF PipeInvariant
<1> QED
  BY PipeInit, <1>1, PTL DEF Spec

-----------------------------------------------------------------------------
(* What it gives.                                                          *)

\* pipeclose() frees the page when nobody is inside pipewrite(), piperead() or
\* pipeclose() any more, whatever the readers and writers were doing.
THEOREM FreedPipeUnused == Spec => []FreedUnused
<1>1. PipeInvariant => FreedUnused
  <2> SUFFICES ASSUME PipeInvariant PROVE FreedUnused
    OBVIOUS
  <2>1. TypeOK
    BY DEF PipeInvariant
  <2>2. ASSUME freed PROVE \A p \in Thread : pc[p] = "gone"
    BY <2>2 DEF PipeInvariant, EndsInv, Thread
  <2>3. ASSUME freed PROVE lock = NoLock
    BY <2>2, <2>3 DEF PipeInvariant, TypeOK, LockInv
  <2> QED
    BY <2>1, <2>2, <2>3 DEF FreedUnused
<1> QED
  BY <1>1, PipeInvariance, PTL

\* No wakeup of pipewrite(), piperead() and pipeclose() is lost.
THEOREM PipeSleepers == Spec => []SleeperHasReason
<1>1. PipeInvariant => SleeperHasReason
  BY DEF PipeInvariant, SleepInv, SleeperHasReason
<1> QED
  BY <1>1, PipeInvariance, PTL

-----------------------------------------------------------------------------
(* Refinement.                                                             *)

\* The bytes in the pipe, oldest first.
Bytes == [i \in 1 .. Used |-> data[Slot((nread + i - 1) % UINT)]]

\* Bytes is a sequence of at most PIPESIZE bytes.
LEMMA BytesSeq ==
    ASSUME TypeOK
    PROVE  Bytes \in Seq(Byte) /\ Len(Bytes) = Used /\ Used \in Nat
<1>1. Used \in Nat
  BY UsedValue, TypeOK, Constants
<1>2. ASSUME NEW i \in 1 .. Used PROVE data[Slot((nread + i - 1) % UINT)] \in Byte
  <2>1. nread + i - 1 \in Nat
    BY <1>1 DEF TypeOK
  <2> QED
    BY <2>1, Constants DEF TypeOK, Slot
<1> QED
  BY <1>1, <1>2 DEF Bytes

\* Sequences with the same elements are equal.
LEMMA SameSeq ==
    ASSUME NEW S, NEW s \in Seq(S), NEW t \in Seq(S), Len(s) = Len(t),
           \A i \in 1 .. Len(s) : s[i] = t[i]
    PROVE  s = t
OBVIOUS

\* Fewer than PIPESIZE numbers in a row have different places in data.
LEMMA SlotApart ==
    ASSUME NEW x \in Nat, NEW k \in 1 .. PIPESIZE - 1
    PROVE  Slot(x) # Slot(x + k)
<1> DEFINE q == x \div PIPESIZE
           r == x % PIPESIZE
<1>1. PIPESIZE \in Nat \ {0}
  BY Constants
<1>2. q \in Int /\ r \in 0 .. PIPESIZE - 1 /\ x = PIPESIZE * q + r
  BY <1>1
<1> HIDE DEF q, r
<1>3. CASE r + k < PIPESIZE
  <2>1. x + k = PIPESIZE * q + (r + k) /\ r + k \in 0 .. PIPESIZE - 1
    BY <1>1, <1>2, <1>3
  <2>2. (PIPESIZE * q + (r + k)) % PIPESIZE = r + k
    BY <1>1, <1>2, <2>1, ModUnique
  <2>3. r + k # r
    BY <1>1, <1>2
  <2> QED
    BY <2>1, <2>2, <2>3 DEF Slot, r
<1>4. CASE PIPESIZE <= r + k
  <2>1. x + k = PIPESIZE * (q + 1) + (r + k - PIPESIZE) /\ r + k - PIPESIZE \in 0 .. PIPESIZE - 1
    BY <1>1, <1>2, <1>4
  <2>2. (PIPESIZE * (q + 1) + (r + k - PIPESIZE)) % PIPESIZE = r + k - PIPESIZE
    <3>1. q + 1 \in Int
      BY <1>2
    <3> QED
      BY <1>1, <2>1, <3>1, ModUnique, Zenon
  <2>3. r + k - PIPESIZE # r
    BY <1>1, <1>2
  <2> QED
    BY <2>1, <2>2, <2>3 DEF Slot, r
<1> QED
  BY <1>1, <1>2, <1>3, <1>4

\* WriteByte() appends a byte: its place is the one after the last byte, and no
\* byte that has not been read is there.
LEMMA BytesPut ==
    ASSUME TypeOK, RingInv, NEW p \in Writer, NEW b \in Byte, WriteByte(p, b)
    PROVE  Len(Bytes) < PIPESIZE /\ Bytes' = Append(Bytes, b)
<1>1. /\ data' = [data EXCEPT ![Slot(nwrite)] = b] /\ nread' = nread
      /\ nwrite' = Incr(nwrite) /\ ~Full
  BY DEF WriteByte
<1>2. Used' = Used + 1 /\ Used < PIPESIZE /\ Used \in Nat
  BY <1>1, UsedPut, BytesSeq
<1>3. /\ UINT \in Nat \ {0} /\ PIPESIZE \in Nat \ {0} /\ PIPESIZE < UINT
      /\ nread \in 0 .. UINT - 1
  BY Constants DEF TypeOK
<1>4. Slot(nwrite) = Slot(nread + Used) /\ Slot((nread + Used) % UINT) = Slot(nwrite)
  <2>1. nread + Used \in Nat /\ nread + Used < 2 * UINT
    BY <1>2, <1>3
  <2> QED
    BY <2>1, SlotWrap, UsedValue
<1>5. Slot(nwrite) \in 0 .. PIPESIZE - 1
  BY <1>3 DEF Slot, TypeOK
<1>6. ASSUME NEW i \in 1 .. Used
      PROVE  data'[Slot((nread + i - 1) % UINT)] = data[Slot((nread + i - 1) % UINT)]
  <2> DEFINE x == nread + i - 1
             k == Used - i + 1
  <2>1. x \in Nat /\ x < 2 * UINT /\ k \in 1 .. PIPESIZE - 1 /\ x + k = nread + Used
    BY <1>2, <1>3
  <2>2. Slot(x % UINT) = Slot(x)
    BY <2>1, SlotWrap
  <2>3. Slot(x) # Slot(nread + Used)
    BY <2>1, SlotApart
  <2>4. Slot(x % UINT) # Slot(nwrite)
    BY <2>2, <2>3, <1>4
  <2> QED
    BY <1>1, <2>4 DEF TypeOK
<1>7. data'[Slot((nread + Used) % UINT)] = b
  BY <1>1, <1>4, <1>5 DEF TypeOK
<1>8. Bytes' = [i \in 1 .. Used + 1 |-> IF i <= Used THEN Bytes[i] ELSE b]
  <2>1. Bytes' = [i \in 1 .. Used + 1 |-> data'[Slot((nread + i - 1) % UINT)]]
    BY <1>1, <1>2 DEF Bytes
  <2>2. ASSUME NEW i \in 1 .. Used + 1
        PROVE  data'[Slot((nread + i - 1) % UINT)] = IF i <= Used THEN Bytes[i] ELSE b
    <3>1. CASE i <= Used
      <4>1. i \in 1 .. Used
        BY <1>2, <3>1
      <4> QED
        BY <1>6, <3>1, <4>1 DEF Bytes
    <3>2. CASE i = Used + 1
      <4>1. nread + i - 1 = nread + Used /\ ~(i <= Used)
        BY <1>2, <1>3, <3>2
      <4> QED
        BY <1>7, <4>1
    <3> QED
      BY <1>2, <3>1, <3>2
  <2> QED
    BY <2>1, <2>2
<1>9. Len(Bytes) = Used /\ Bytes \in Seq(Byte)
  BY BytesSeq
<1> DEFINE f == [i \in 1 .. Used + 1 |-> IF i <= Used THEN Bytes[i] ELSE b]
<1>10. f \in [1 .. Used + 1 -> Byte]
  BY <1>2, <1>9
<1>11. f \in Seq(Byte) /\ Len(f) = Used + 1
  BY <1>2, <1>10
<1>12. /\ Append(Bytes, b) \in Seq(Byte) /\ Len(Append(Bytes, b)) = Used + 1
       /\ \A i \in 1 .. Used + 1 : f[i] = Append(Bytes, b)[i]
  BY <1>2, <1>9
<1>13. f = Append(Bytes, b)
  BY <1>11, <1>12, SameSeq, Zenon
<1> QED
  BY <1>2, <1>8, <1>9, <1>13

\* ReadByte() takes the oldest byte.
LEMMA BytesGet ==
    ASSUME TypeOK, NEW p \in Reader, ReadByte(p)
    PROVE  Bytes # << >> /\ Bytes' = Tail(Bytes)
<1>1. data' = data /\ nread' = Incr(nread) /\ nwrite' = nwrite /\ ~Empty
  BY DEF ReadByte
<1>2. Used' = Used - 1 /\ 0 < Used /\ Used \in 0 .. UINT - 1
  BY <1>1, UsedGet, UsedValue
<1>3. UINT \in Nat \ {0} /\ nread \in 0 .. UINT - 1
  BY Constants DEF TypeOK
<1>4. ASSUME NEW i \in 1 .. Used - 1
      PROVE  (nread' + i - 1) % UINT = (nread + (i + 1) - 1) % UINT
  <2>1. nread' = nread + 1 \/ (nread' = 0 /\ nread = UINT - 1)
    BY <1>1, <1>3 DEF Incr
  <2>2. CASE nread' = nread + 1
    BY <1>3, <2>2
  <2>3. CASE nread' = 0 /\ nread = UINT - 1
    <3>1. i - 1 \in 0 .. UINT - 1
      BY <1>2, <1>3
    <3>2. (UINT + (i - 1)) % UINT = i - 1 /\ (i - 1) % UINT = i - 1
      BY <1>3, <3>1
    <3>3. nread' + i - 1 = i - 1 /\ nread + (i + 1) - 1 = UINT + (i - 1)
      BY <1>3, <2>3
    <3> QED
      BY <3>2, <3>3
  <2> QED
    BY <2>1, <2>2, <2>3
<1>5. Bytes' = [i \in 1 .. Used - 1 |-> Bytes[i + 1]]
  <2>1. Bytes' = [i \in 1 .. Used - 1 |-> data[Slot((nread' + i - 1) % UINT)]]
    BY <1>1, <1>2 DEF Bytes
  <2>2. ASSUME NEW i \in 1 .. Used - 1
        PROVE  data[Slot((nread' + i - 1) % UINT)] = Bytes[i + 1]
    <3>1. i + 1 \in 1 .. Used
      BY <1>2
    <3> QED
      BY <1>4, <3>1 DEF Bytes
  <2> QED
    BY <2>1, <2>2
<1>6. Len(Bytes) = Used /\ Bytes \in Seq(Byte)
  BY BytesSeq
<1> DEFINE f == [i \in 1 .. Used - 1 |-> Bytes[i + 1]]
<1>7. f \in [1 .. Used - 1 -> Byte]
  BY <1>2, <1>6
<1>8. f \in Seq(Byte) /\ Len(f) = Used - 1 /\ Bytes # << >>
  BY <1>2, <1>6, <1>7
<1>9. /\ Tail(Bytes) \in Seq(Byte) /\ Len(Tail(Bytes)) = Used - 1
      /\ \A i \in 1 .. Used - 1 : f[i] = Tail(Bytes)[i]
  BY <1>2, <1>6, <1>8
<1>10. f = Tail(Bytes)
  BY <1>8, <1>9, SameSeq, Zenon
<1> QED
  BY <1>5, <1>8, <1>10

\* pipe.c implements Fifo, for every PIPESIZE and every width of nread and
\* nwrite: bytes come out in the order in which they went in, none is lost,
\* repeated or overwritten, also when the counters wrap around.
THEOREM PipeIsFifo == Spec => FifoSpec
<1>1. Init => Queue!Init
  <2> SUFFICES ASSUME Init PROVE Queue!Init
    OBVIOUS
  <2>1. TypeOK /\ Used = 0
    BY PipeInit, UsedValue DEF PipeInvariant, Init, Empty
  <2>2. Bytes = << >>
    BY <2>1, BytesSeq
  <2> QED
    BY <2>2 DEF Queue!Init, Init, Bytes
<1>2. PipeInvariant /\ [Next]_vars => [Queue!Next]_(Queue!vars)
  <2> SUFFICES ASSUME PipeInvariant, [Next]_vars PROVE [Queue!Next]_(Queue!vars)
    OBVIOUS
  <2>type. TypeOK /\ RingInv
    BY DEF PipeInvariant
  <2>ends. EndsInv
    BY DEF PipeInvariant
  <2>a. ASSUME UNCHANGED <<ring, readopen, writeopen>> PROVE UNCHANGED Queue!vars
    BY <2>a DEF Queue!vars, Used, ring
  <2>1. ASSUME NEW p \in Writer, NEW b \in Byte, WriteByte(p, b) PROVE Queue!Put(b)
    <3>1. writeopen /\ UNCHANGED <<writeopen, readopen>>
      BY <2>1, <2>ends DEF EndsInv, WriteByte, ends
    <3> QED
      BY <2>1, <3>1, <2>type, BytesPut, Zenon DEF Queue!Put, Bytes
  <2>2. ASSUME NEW p \in Reader, ReadByte(p) PROVE Queue!Get
    <3>1. readopen /\ UNCHANGED <<writeopen, readopen>>
      BY <2>2, <2>ends DEF EndsInv, ReadByte, ends
    <3> QED
      BY <2>2, <3>1, <2>type, BytesGet, Zenon DEF Queue!Get, Bytes
  <2>3. ASSUME NEW p \in Thread, PipeClose(p) PROVE Queue!CloseWrite \/ Queue!CloseRead
    <3>1. Bytes' = Bytes
      BY <2>3 DEF PipeClose, Bytes, Used, ring
    <3>2. CASE p \in Writer
      <4>1. writeopen /\ ~writeopen' /\ readopen' = readopen
        BY <2>3, <3>2, <2>type, <2>ends, Constants DEF EndsInv, PipeClose, TypeOK
      <4> QED
        BY <3>1, <4>1, <2>type DEF Queue!CloseWrite, Bytes, TypeOK
    <3>3. CASE p \in Reader
      <4>1. readopen /\ ~readopen' /\ writeopen' = writeopen
        BY <2>3, <3>3, <2>type, <2>ends, Constants DEF EndsInv, PipeClose, TypeOK
      <4> QED
        BY <3>1, <4>1, <2>type DEF Queue!CloseRead, Bytes, TypeOK
    <3> QED
      BY <3>2, <3>3 DEF Thread
  <2>4. CASE PipeAlloc
    <3>1. ~writeopen /\ ~readopen /\ writeopen' = TRUE /\ readopen' = TRUE
      BY <2>4, <2>ends DEF EndsInv, PipeAlloc
    <3>2. TypeOK' /\ Used' = 0
      <4>1. TypeOK'
        BY TypeStep
      <4>2. Used' = (0 - 0) % UINT
        BY <2>4 DEF PipeAlloc, Used
      <4> QED
        BY <4>1, <4>2, Minus, Constants
    <3>3. Bytes' = << >>
      <4> DEFINE f == Bytes'
      <4>1. f = [i \in 1 .. Used' |-> f[i]]
        BY DEF Bytes
      <4> HIDE DEF f
      <4>2. f \in [1 .. 0 -> {f[i] : i \in {}}]
        BY <3>2, <4>1
      <4>3. f \in Seq({}) /\ Len(f) = 0
        BY <4>2
      <4> QED
        BY <4>3 DEF f
    <3> QED
      BY <3>1, <3>3 DEF Queue!Open, Queue!Next, Bytes
  <2>5. CASE UNCHANGED vars
    BY <2>5, <2>a DEF vars, ends
  <2>6. ASSUME NEW p \in Thread, NEW n \in 0 .. MaxN, WriteStart(p, n) \/ ReadStart(p, n)
        PROVE  UNCHANGED Queue!vars
    BY <2>6, <2>a DEF WriteStart, ReadStart, ends
  <2>7. ASSUME NEW p \in Writer, WriteFail(p) \/ WriteFull(p) \/ WriteDone(p)
        PROVE  UNCHANGED Queue!vars
    BY <2>7, <2>a DEF WriteFail, WriteFull, WriteDone, ends
  <2>8. ASSUME NEW p \in Reader, ReadFail(p) \/ ReadEmpty(p) \/ ReadCopy(p) \/ ReadDone(p)
        PROVE  UNCHANGED Queue!vars
    BY <2>8, <2>a DEF ReadFail, ReadEmpty, ReadCopy, ReadDone, ends
  <2>9. ASSUME NEW p \in Thread, Sleep(p) \/ Reacquire(p) \/ Close(p) \/ Kill(p)
        PROVE  UNCHANGED Queue!vars
    BY <2>9, <2>a DEF Sleep, Reacquire, Close, Kill, ends
  <2> QED
    BY <2>1, <2>2, <2>3, <2>4, <2>5, <2>6, <2>7, <2>8, <2>9
       DEF Next, Writes, Reads, Thread, Queue!Next
<1> QED
  BY <1>1, <1>2, PipeInvariance, PTL DEF Spec, FifoSpec, Queue!Spec
=============================================================================
