-------------------------------- MODULE Bio ---------------------------------
(***************************************************************************)
(* The block layer: the buffer cache of bio.c, the sleep lock of each      *)
(* buffer (sleeplock.c) and the request queue of ide.c with its interrupt. *)
(*                                                                         *)
(* A critical section of bcache.lock, of a sleep lock's spin lock or of    *)
(* idelock is one step.  A process uses one buffer at a time.  The disk is *)
(* one device, on which blocks are numbered.                               *)
(***************************************************************************)
EXTENDS Integers, Sequences, FiniteSets

CONSTANTS
    NBUF,         \* buffers
    Block,        \* block numbers
    NoBlock,      \* the block number of a buffer never used
    Value,        \* contents of a block
    Proc, NoProc, \* processes
    MaxPin,       \* the most buffers log.c keeps pinned with B_DIRTY
    DiskErrors    \* may a request end with IDE_ERR or IDE_DF?

Buf == 1 .. NBUF
NoBuf == 0

ASSUME BioAssumption ==
    /\ NBUF \in Nat
    /\ NoBlock \notin Block
    /\ IsFiniteSet(Proc) /\ NoProc \notin Proc
    /\ DiskErrors \in BOOLEAN

VARIABLES
    blockno, valid, dirty, refcnt, data, locked,   \* struct buf
    mru,         \* the list from bcache.head.next on
    idequeue,
    disk,
    pc, buf      \* where each process is, and its buffer

bufVars == <<blockno, valid, dirty, refcnt, data, locked>>
vars == <<bufVars, mru, idequeue, disk, pc, buf>>

\* "lock": bget() has chosen the buffer, acquiresleep() is still to come
\* "asleep": in acquiresleep(), on a lock somebody holds
\* "locked": back in bread();  "io", "done": in iderw(), asleep and woken
\* "held": bread() or bwrite() has returned
\* "release": in brelse(), after releasesleep()
PCs == {"idle", "lock", "asleep", "locked", "io", "done", "held", "release"}

Init ==
    /\ disk \in [Block -> Value]
    /\ blockno = [b \in Buf |-> NoBlock]
    /\ valid = {} /\ dirty = {}
    /\ refcnt = [b \in Buf |-> 0]
    /\ data \in {[b \in Buf |-> v] : v \in Value}
    /\ locked = [b \in Buf |-> NoProc]
    /\ mru = [i \in Buf |-> NBUF + 1 - i]
    /\ idequeue = << >>
    /\ pc = [p \in Proc |-> "idle"]
    /\ buf = [p \in Proc |-> NoBuf]

-----------------------------------------------------------------------------
(* bget() and acquiresleep()                                               *)

Cached(k) == \E b \in Buf : blockno[b] = k

BgetHit(p, k) ==
    /\ pc[p] = "idle"
    /\ \E b \in Buf :
        /\ blockno[b] = k
        /\ refcnt' = [refcnt EXCEPT ![b] = @ + 1]
        /\ buf' = [buf EXCEPT ![p] = b]
    /\ pc' = [pc EXCEPT ![p] = "lock"]
    /\ UNCHANGED <<blockno, valid, dirty, data, locked, mru, idequeue, disk>>

\* Mutated bget(): a buffer pinned by log.c is recycled.
Unused_dirty(b) == refcnt[b] = 0

Unused(b) == refcnt[b] = 0 /\ b \notin dirty

\* The least recently used of the unused buffers.
Victim(b) ==
    \E i \in 1 .. Len(mru) :
        /\ mru[i] = b /\ Unused(b)
        /\ \A j \in i+1 .. Len(mru) : ~Unused(mru[j])

BgetMiss(p, k) ==
    /\ pc[p] = "idle"
    /\ ~Cached(k)
    /\ \E b \in Buf :
        /\ Victim(b)
        /\ blockno' = [blockno EXCEPT ![b] = k]
        /\ valid' = valid \ {b} /\ dirty' = dirty \ {b}
        /\ refcnt' = [refcnt EXCEPT ![b] = 1]
        /\ buf' = [buf EXCEPT ![p] = b]
    /\ pc' = [pc EXCEPT ![p] = "lock"]
    /\ UNCHANGED <<data, locked, mru, idequeue, disk>>

AcquireSleep(p) ==
    /\ pc[p] = "lock"
    /\ locked[buf[p]] = NoProc
    /\ locked' = [locked EXCEPT ![buf[p]] = p]
    /\ pc' = [pc EXCEPT ![p] = "locked"]
    /\ UNCHANGED <<blockno, valid, dirty, refcnt, data, mru, idequeue, disk,
                   buf>>

AcquireWait(p) ==
    /\ pc[p] = "lock"
    /\ locked[buf[p]] # NoProc
    /\ pc' = [pc EXCEPT ![p] = "asleep"]
    /\ UNCHANGED <<bufVars, mru, idequeue, disk, buf>>

-----------------------------------------------------------------------------
(* bread(), bwrite(), log_write() and iderw()                              *)

MustRead(p) == buf[p] \notin valid

BreadHit(p) ==
    /\ pc[p] = "locked"
    /\ ~MustRead(p)
    /\ pc' = [pc EXCEPT ![p] = "held"]
    /\ UNCHANGED <<bufVars, mru, idequeue, disk, buf>>

\* iderw() appends the buffer and sleeps until it is valid and not dirty.
BreadMiss(p) ==
    /\ pc[p] = "locked"
    /\ MustRead(p)
    /\ idequeue' = Append(idequeue, buf[p])
    /\ pc' = [pc EXCEPT ![p] = "io"]
    /\ UNCHANGED <<bufVars, mru, disk, buf>>

\* The caller changes the data and calls bwrite().
Bwrite(p, v) ==
    /\ pc[p] = "held"
    /\ data' = [data EXCEPT ![buf[p]] = v]
    /\ dirty' = dirty \cup {buf[p]}
    /\ idequeue' = Append(idequeue, buf[p])
    /\ pc' = [pc EXCEPT ![p] = "io"]
    /\ UNCHANGED <<blockno, valid, refcnt, locked, mru, disk, buf>>

\* The caller changes the data and calls log_write(), which pins the buffer.
LogWrite(p, v) ==
    /\ pc[p] = "held"
    /\ Cardinality(dirty \cup {buf[p]}) <= MaxPin
    /\ data' = [data EXCEPT ![buf[p]] = v]
    /\ dirty' = dirty \cup {buf[p]}
    /\ UNCHANGED <<blockno, valid, refcnt, locked, mru, idequeue, disk, pc, buf>>

\* wakeup(b)
IdeWake(f, b) ==
    [p \in Proc |-> IF f[p] = "io" /\ buf[p] = b THEN "done" ELSE f[p]]

\* ideintr(): the request at the head of the queue has completed.  After a
\* failed read the data is what it was and counts as valid, and a failed write
\* is not noticed.
IdeIntr ==
    /\ idequeue # << >>
    /\ LET b == Head(idequeue)
       IN  /\ IF b \in dirty
              THEN /\ \/ disk' = [disk EXCEPT ![blockno[b]] = data[b]]
                      \/ DiskErrors /\ UNCHANGED disk
                   /\ UNCHANGED data
              ELSE /\ \/ data' = [data EXCEPT ![b] = disk[blockno[b]]]
                      \/ DiskErrors /\ UNCHANGED data
                   /\ UNCHANGED disk
           /\ valid' = valid \cup {b} /\ dirty' = dirty \ {b}
           /\ pc' = IdeWake(pc, b)
    /\ idequeue' = Tail(idequeue)
    /\ UNCHANGED <<blockno, refcnt, locked, mru, buf>>

\* Back from sleep() in iderw().
IderwDone(p) ==
    /\ pc[p] = "done"
    /\ pc' = [pc EXCEPT ![p] =
                  IF buf[p] \in valid \ dirty THEN "held" ELSE "io"]
    /\ UNCHANGED <<bufVars, mru, idequeue, disk, buf>>

-----------------------------------------------------------------------------
(* brelse()                                                                *)

\* Mutated releasesleep(): the waiting processes are not woken.
SleepWake_none(f, b) == f

\* wakeup(lk)
SleepWake(f, b) ==
    [p \in Proc |-> IF f[p] = "asleep" /\ buf[p] = b THEN "lock" ELSE f[p]]

ReleaseSleep(p) ==
    /\ pc[p] = "held"
    /\ locked' = [locked EXCEPT ![buf[p]] = NoProc]
    /\ pc' = [SleepWake(pc, buf[p]) EXCEPT ![p] = "release"]
    /\ UNCHANGED <<blockno, valid, dirty, refcnt, data, mru, idequeue, disk,
                   buf>>

Unref(b) == refcnt[b] - 1

\* The buffer goes to the front of the list when nobody refers to it.
Front(b) ==
    LET i == CHOOSE i \in Buf : mru[i] = b
    IN  [j \in Buf |-> IF j = 1 THEN b ELSE IF j <= i THEN mru[j - 1] ELSE mru[j]]

Brelse(p) ==
    /\ pc[p] = "release"
    /\ refcnt' = [refcnt EXCEPT ![buf[p]] = Unref(buf[p])]
    /\ mru' = IF Unref(buf[p]) = 0 THEN Front(buf[p]) ELSE mru
    /\ pc' = [pc EXCEPT ![p] = "idle"]
    /\ buf' = [buf EXCEPT ![p] = NoBuf]
    /\ UNCHANGED <<blockno, valid, dirty, data, locked, idequeue, disk>>

Bread(p) == BreadHit(p) \/ BreadMiss(p) \/ IderwDone(p)

Next ==
    \/ \E p \in Proc :
        \/ \E k \in Block : BgetHit(p, k) \/ BgetMiss(p, k)
        \/ AcquireSleep(p) \/ AcquireWait(p)
        \/ Bread(p)
        \/ \E v \in Value : Bwrite(p, v) \/ LogWrite(p, v)
        \/ ReleaseSleep(p) \/ Brelse(p)
    \/ IdeIntr

Spec == Init /\ [][Next]_vars

-----------------------------------------------------------------------------
(* Properties.                                                             *)

\* The C types.
TypeOK ==
    /\ disk \in [Block -> Value]
    /\ blockno \in [Buf -> Block \cup {NoBlock}]
    /\ valid \subseteq Buf /\ dirty \subseteq Buf
    /\ refcnt \in [Buf -> Nat]
    /\ data \in [Buf -> Value]
    /\ locked \in [Buf -> Proc \cup {NoProc}]
    /\ mru \in Seq(Buf) /\ Len(mru) = NBUF
    /\ idequeue \in Seq(Buf)
    /\ pc \in [Proc -> PCs]
    /\ buf \in [Proc -> Buf \cup {NoBuf}]

BufOf(k) == CHOOSE b \in Buf : blockno[b] = k

\* What a block contains, to those who go through the cache, and who holds it.
Content ==
    [k \in Block |-> IF Cached(k) /\ BufOf(k) \in valid \cup dirty
                     THEN data[BufOf(k)] ELSE disk[k]]
Holder == [k \in Block |-> IF Cached(k) THEN locked[BufOf(k)] ELSE NoProc]

Store == INSTANCE BlockStore WITH content <- Content, holder <- Holder

\* A buffer that bread() returned and nobody changed holds what is on the disk.
BreadReturnsBlock ==
    /\ TypeOK
    /\ \A p \in Proc : pc[p] = "held" /\ buf[p] \notin dirty =>
        data[buf[p]] = disk[blockno[buf[p]]]

\* bio.c with ide.c implements BlockStore: whatever is cached, recycled, pinned
\* or on its way to the disk, a block keeps what was last written to it,
\* and changes only while one process, the one that changes it, holds it.  And
\* bread() shows its caller that block ("Return a locked buf with the contents of
\* the indicated block.").
StoreSpec == Store!Spec /\ []BreadReturnsBlock

-----------------------------------------------------------------------------
(* Liveness: interrupts arrive, processes go on and release what they hold, *)
(* and a lock that is free again and again is acquired.                     *)

Fairness ==
    /\ WF_vars(IdeIntr)
    /\ \A p \in Proc :
        /\ SF_vars(AcquireSleep(p)) /\ WF_vars(AcquireWait(p))
        /\ WF_vars(Bread(p))
        /\ SF_vars(ReleaseSleep(p)) /\ WF_vars(Brelse(p))

FairSpec == Spec /\ Fairness

\* iderw(), ideintr(), acquiresleep(): bread() returns.
BreadReturns == \A p \in Proc : pc[p] = "lock" ~> pc[p] = "held"
=============================================================================
