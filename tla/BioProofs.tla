----------------------------- MODULE BioProofs ------------------------------
(***************************************************************************)
(* Proofs about Bio: the inductive invariant of the buffer cache, and that *)
(* it implements BlockStore.                                               *)
(***************************************************************************)
EXTENDS Bio, FiniteSetTheorems, TLAPS

\* Where a process has the lock of its buffer.
Holding == {"locked", "io", "done", "held"}

\* The types; the list of buffers has every buffer.
Types ==
    /\ disk \in [Block -> Value]
    /\ blockno \in [Buf -> Block \cup {NoBlock}]
    /\ valid \subseteq Buf /\ dirty \subseteq Buf
    /\ refcnt \in [Buf -> Nat]
    /\ data \in [Buf -> Value]
    /\ locked \in [Buf -> Proc \cup {NoProc}]
    /\ idequeue \in Seq(Buf)
    /\ pc \in [Proc -> PCs]
    /\ buf \in [Proc -> Buf \cup {NoBuf}]

ListInv == mru \in [Buf -> Buf] /\ \A b \in Buf : \E i \in Buf : mru[i] = b

\* A block is in one buffer.
CacheInv == \A a, b \in Buf : blockno[a] = blockno[b] /\ blockno[a] # NoBlock => a = b

\* refcnt counts the processes that use the buffer.
Users(b) == {p \in Proc : buf[p] = b}
RefInv == \A b \in Buf : refcnt[b] = Cardinality(Users(b))

\* The queue has the buffers of processes asleep in iderw(), each once.
Elems(s) == {s[i] : i \in DOMAIN s}
Once(s) == \A i, j \in DOMAIN s : s[i] = s[j] => i = j
QueueInv ==
    /\ Once(idequeue)
    /\ \A b \in Elems(idequeue) : \E p \in Proc : pc[p] = "io" /\ buf[p] = b

\* A valid buffer that is not dirty agrees with the disk.
DataInv ==
    /\ dirty \subseteq valid
    /\ \A b \in valid : blockno[b] # NoBlock
    /\ \A b \in valid : b \notin dirty => data[b] = disk[blockno[b]]

\* The holder of a sleep lock is past acquiresleep().
LockInv ==
    \A b \in Buf : locked[b] # NoProc => buf[locked[b]] = b /\ pc[locked[b]] \in Holding

\* The buffer of p has a block; p has its sleep lock if it is past acquiresleep(),
\* waits for somebody who has it, or for a request that is in the queue; and
\* the buffer is valid when iderw() and bread() return.
ProcInv(p) ==
    /\ buf[p] = NoBuf <=> pc[p] = "idle"
    /\ pc[p] # "idle" => blockno[buf[p]] # NoBlock
    /\ pc[p] \in Holding => locked[buf[p]] = p
    /\ pc[p] = "asleep" => locked[buf[p]] # NoProc
    /\ pc[p] = "io" => buf[p] \in Elems(idequeue)
    /\ pc[p] \in {"done", "held"} => buf[p] \in valid
    /\ pc[p] = "done" => buf[p] \notin dirty

BioInvariant ==
    /\ Types /\ ListInv /\ CacheInv /\ RefInv /\ LockInv /\ QueueInv /\ DataInv
    /\ \A p \in Proc : ProcInv(p)

-----------------------------------------------------------------------------
(* What the invariant says of a buffer.                                    *)

\* What the assumption says of the constants.
LEMMA Constants ==
    /\ NBUF \in Nat /\ NoBuf \notin Buf /\ NoBlock \notin Block
    /\ IsFiniteSet(Proc) /\ NoProc \notin Proc
BY BioAssumption DEF Buf, NoBuf

\* A queue that grows at its end and shrinks at its head.
LEMMA Appends ==
    ASSUME NEW S, NEW s \in Seq(S), NEW b \in S, Once(s), b \notin Elems(s)
    PROVE  Once(Append(s, b)) /\ Elems(Append(s, b)) = Elems(s) \cup {b}
BY DEF Once, Elems

\* ideintr() takes the head of the queue, which is not in the rest of it.
LEMMA Tails ==
    ASSUME NEW S, NEW s \in Seq(S), s # << >>, Once(s)
    PROVE  /\ Once(Tail(s)) /\ Elems(Tail(s)) = Elems(s) \ {Head(s)}
           /\ Head(s) \in S /\ Head(s) \in Elems(s) /\ Tail(s) \in Seq(S)
<1>1. /\ Head(s) = s[1] /\ Tail(s) \in Seq(S) /\ Head(s) \in S
      /\ DOMAIN s = 1 .. Len(s) /\ DOMAIN Tail(s) = 1 .. Len(s) - 1
      /\ Len(s) \in Nat /\ 1 \in DOMAIN s
      /\ \A i \in DOMAIN Tail(s) : Tail(s)[i] = s[i + 1] /\ i + 1 \in DOMAIN s /\ i + 1 # 1
      /\ \A i \in DOMAIN s : i # 1 => i - 1 \in DOMAIN Tail(s) /\ Tail(s)[i - 1] = s[i]
  OBVIOUS
<1>2. Once(Tail(s))
  <2>1. SUFFICES ASSUME NEW i \in DOMAIN Tail(s), NEW j \in DOMAIN Tail(s),
                        Tail(s)[i] = Tail(s)[j]
                 PROVE  i = j
    BY Zenon DEF Once
  <2>2. i + 1 \in DOMAIN s /\ j + 1 \in DOMAIN s /\ s[i + 1] = s[j + 1]
    BY <1>1, <2>1, Zenon
  <2>3. i + 1 = j + 1
    BY <2>2, Zenon DEF Once
  <2> QED
    BY <1>1, <2>3
<1>3. ASSUME NEW x \in Elems(Tail(s)) PROVE x \in Elems(s) \ {Head(s)}
  <2>1. PICK i \in DOMAIN Tail(s) : x = Tail(s)[i]
    BY Zenon DEF Elems
  <2>2. i + 1 \in DOMAIN s /\ x = s[i + 1] /\ i + 1 # 1
    BY <1>1, <2>1, Zenon
  <2>3. x # s[1]
    BY <1>1, <2>2, Zenon DEF Once
  <2> QED
    BY <1>1, <2>2, <2>3, Zenon DEF Elems
<1>4. ASSUME NEW x \in Elems(s), x # Head(s) PROVE x \in Elems(Tail(s))
  <2>1. PICK i \in DOMAIN s : x = s[i]
    BY Zenon DEF Elems
  <2>2. i - 1 \in DOMAIN Tail(s) /\ Tail(s)[i - 1] = x
    BY <1>1, <1>4, <2>1, Zenon
  <2> QED
    BY <2>2, Zenon DEF Elems
<1>5. Head(s) \in Elems(s)
  BY <1>1, Zenon DEF Elems
<1> HIDE DEF Elems
<1> QED
  BY <1>1, <1>2, <1>3, <1>4, <1>5, Zenon

\* Finitely many processes use a buffer.
LEMMA UsersFinite ==
    ASSUME NEW b
    PROVE  IsFiniteSet(Users(b))
BY Constants, FS_Subset DEF Users

\* A buffer in use has references.
LEMMA InUse ==
    ASSUME BioInvariant, NEW p \in Proc, pc[p] # "idle"
    PROVE  /\ buf[p] \in Buf /\ blockno[buf[p]] \in Block /\ refcnt[buf[p]] # 0
<1>1. buf[p] \in Buf /\ blockno[buf[p]] \in Block
  BY DEF BioInvariant, Types, ProcInv
<1>2. p \in Users(buf[p])
  BY DEF Users
<1>3. Cardinality(Users(buf[p])) # 0
  BY <1>2, UsersFinite, FS_EmptySet, Zenon
<1> QED
  BY <1>1, <1>3 DEF BioInvariant, RefInv

\* An unused buffer is in nobody's hands.
LEMMA NotInUse ==
    ASSUME BioInvariant, NEW b \in Buf, refcnt[b] = 0
    PROVE  /\ \A p \in Proc : buf[p] # b
           /\ Users(b) = {} /\ locked[b] = NoProc
           /\ b \notin Elems(idequeue)
<1>1. Cardinality(Users(b)) = 0
  BY DEF BioInvariant, RefInv
<1>2. Users(b) = {}
  BY <1>1, UsersFinite, FS_EmptySet, Zenon
<1>3. \A p \in Proc : buf[p] # b
  BY <1>2, Zenon DEF Users
<1>4. locked[b] = NoProc
  BY <1>3, Zenon DEF BioInvariant, Types, LockInv
<1>5. b \notin Elems(idequeue)
  BY <1>3, Zenon DEF BioInvariant, QueueInv
<1> QED
  BY <1>2, <1>3, <1>4, <1>5, Zenon

\* Past acquiresleep() the buffer is locked, and nobody else is.
LEMMA Held ==
    ASSUME BioInvariant, NEW p \in Proc, pc[p] \in Holding
    PROVE  /\ buf[p] \in Buf /\ locked[buf[p]] = p /\ blockno[buf[p]] \in Block
           /\ \A q \in Proc : buf[q] = buf[p] /\ pc[q] \in Holding => q = p
<1>1. pc[p] # "idle"
  BY DEF Holding
<1>2. buf[p] \in Buf /\ blockno[buf[p]] \in Block
  BY <1>1, InUse, Zenon
<1>3. locked[buf[p]] = p
  BY <1>2, Zenon DEF BioInvariant, ProcInv
<1>4. ASSUME NEW q \in Proc, buf[q] = buf[p], pc[q] \in Holding PROVE q = p
  BY <1>2, <1>3, <1>4, Zenon DEF BioInvariant, ProcInv
<1> QED
  BY <1>2, <1>3, <1>4, Zenon

\* The request of a process that is not asleep in iderw() is not in the queue.
LEMMA NotQueued ==
    ASSUME BioInvariant, NEW p \in Proc, pc[p] \in Holding, pc[p] # "io"
    PROVE  buf[p] \notin Elems(idequeue)
<1>1. SUFFICES ASSUME buf[p] \in Elems(idequeue) PROVE FALSE
  BY Zenon
<1>2. PICK q \in Proc : pc[q] = "io" /\ buf[q] = buf[p]
  BY <1>1, Zenon DEF BioInvariant, QueueInv
<1>3. pc[q] \in Holding
  BY <1>2, Zenon DEF Holding
<1>4. q = p
  BY <1>2, <1>3, Held, Zenon
<1> QED
  BY <1>2, <1>4, Zenon

\* The holder of a lock.
LEMMA Holders ==
    ASSUME BioInvariant, NEW b \in Buf, locked[b] # NoProc
    PROVE  locked[b] \in Proc /\ buf[locked[b]] = b /\ pc[locked[b]] \in Holding
<1>1. locked[b] \in Proc
  BY Zenon DEF BioInvariant, Types
<1>2. LockInv
  BY Zenon DEF BioInvariant
<1> QED
  BY <1>1, <1>2, Zenon DEF LockInv

-----------------------------------------------------------------------------
(* What a step of p leaves to the others.                                  *)

Moves(p) ==
    /\ pc' \in [Proc -> PCs] /\ buf' \in [Proc -> Buf \cup {NoBuf}]
    /\ \A q \in Proc : q # p => pc'[q] = pc[q] /\ buf'[q] = buf[q]

\* The locks, as long as p keeps its own.
LEMMA LockStays ==
    ASSUME BioInvariant, NEW p \in Proc, Moves(p), UNCHANGED locked,
           pc[p] \in Holding => pc'[p] \in Holding /\ buf'[p] = buf[p]
    PROVE  LockInv'
<1>1. SUFFICES ASSUME NEW c \in Buf, locked[c] # NoProc
               PROVE  buf'[locked[c]] = c /\ pc'[locked[c]] \in Holding
  BY Zenon DEF LockInv
<1>2. locked[c] \in Proc /\ buf[locked[c]] = c /\ pc[locked[c]] \in Holding
  BY <1>1, Holders, Zenon
<1>3. CASE locked[c] = p
  BY <1>2, <1>3, Zenon
<1>4. CASE locked[c] # p
  BY <1>2, <1>4, Zenon DEF Moves
<1> QED
  BY <1>3, <1>4, Zenon

\* The queue, when p neither enters nor leaves it.
LEMMA QueueStays ==
    ASSUME BioInvariant, NEW p \in Proc, Moves(p), UNCHANGED idequeue, pc[p] # "io"
    PROVE  QueueInv'
<1>0. QueueInv
  BY Zenon DEF BioInvariant
<1>1. SUFFICES ASSUME NEW c \in Elems(idequeue)
               PROVE  \E q \in Proc : pc'[q] = "io" /\ buf'[q] = c
  BY <1>0, Zenon DEF QueueInv
<1>2. PICK q \in Proc : pc[q] = "io" /\ buf[q] = c
  BY <1>0, Zenon DEF QueueInv
<1>3. q # p
  BY <1>2, Zenon
<1> QED
  BY <1>2, <1>3, Zenon DEF Moves

\* What the others know of their buffers.
LEMMA OthersStay ==
    ASSUME BioInvariant, NEW p \in Proc, Moves(p), NEW q \in Proc, q # p,
           UNCHANGED <<blockno, valid, dirty, locked, idequeue>>
    PROVE  ProcInv(q)'
<1>1. ProcInv(q) /\ pc'[q] = pc[q] /\ buf'[q] = buf[q]
  BY Zenon DEF BioInvariant, Moves
<1> QED
  BY <1>1, Zenon DEF ProcInv

\* A step that changes p and reference counts only.
LEMMA QuietStep ==
    ASSUME BioInvariant, NEW p \in Proc, Moves(p), refcnt' \in [Buf -> Nat],
           ListInv', RefInv', ProcInv(p)',
           UNCHANGED <<blockno, valid, dirty, data, locked, idequeue, disk>>,
           pc[p] # "io", pc[p] \in Holding => pc'[p] \in Holding /\ buf'[p] = buf[p]
    PROVE  BioInvariant'
<1>1. Types' /\ CacheInv'
  BY Zenon DEF BioInvariant, Types, CacheInv, Moves
<1>2. DataInv'
  BY Zenon DEF BioInvariant, DataInv
<1>3. LockInv' /\ QueueInv'
  BY LockStays, QueueStays, Zenon
<1>4. \A q \in Proc : ProcInv(q)'
  BY OthersStay, Zenon
<1> QED
  BY <1>1, <1>2, <1>3, <1>4, Zenon DEF BioInvariant

-----------------------------------------------------------------------------
(* bget().                                                                 *)

\* What changes when p, which is idle, takes buffer b with n references.
Takes(p, b) ==
    /\ pc[p] = "idle" /\ pc' = [pc EXCEPT ![p] = "lock"]
    /\ buf' = [buf EXCEPT ![p] = b]

\* A process that takes a buffer is one more user of it.
LEMMA TakesUsers ==
    ASSUME BioInvariant, NEW p \in Proc, NEW b \in Buf, Takes(p, b)
    PROVE  /\ Moves(p) /\ pc'[p] = "lock" /\ buf[p] = NoBuf /\ buf'[p] = b
           /\ Cardinality(Users(b)') = Cardinality(Users(b)) + 1
           /\ \A c \in Buf : c # b => Users(c)' = Users(c)
<1>1. pc \in [Proc -> PCs] /\ buf \in [Proc -> Buf \cup {NoBuf}] /\ buf[p] = NoBuf
  BY Zenon DEF BioInvariant, Types, ProcInv, Takes
<1>2. /\ Moves(p) /\ pc'[p] = "lock" /\ buf'[p] = b
      /\ \A q \in Proc : q # p => buf'[q] = buf[q]
  BY <1>1, Zenon DEF Takes, PCs, Moves
<1>3. p \notin Users(b) /\ Users(b)' = Users(b) \cup {p}
  BY <1>1, <1>2, Constants, Zenon DEF Users
<1>4. Cardinality(Users(b)') = Cardinality(Users(b)) + 1
  BY <1>3, UsersFinite, FS_AddElement, Zenon
<1>5. ASSUME NEW c \in Buf, c # b PROVE Users(c)' = Users(c)
  BY <1>1, <1>2, <1>5, Constants, Zenon DEF Users
<1> QED
  BY <1>1, <1>2, <1>4, <1>5, Zenon

\* bget() of a cached block.
LEMMA BgetHitStep ==
    ASSUME BioInvariant, NEW p \in Proc, NEW k \in Block, BgetHit(p, k)
    PROVE  BioInvariant'
<1>1. PICK b \in Buf : /\ blockno[b] = k /\ Takes(p, b)
                       /\ refcnt' = [refcnt EXCEPT ![b] = refcnt[b] + 1]
  BY Zenon DEF BgetHit, Takes
<1>2. UNCHANGED <<blockno, valid, dirty, data, locked, mru, idequeue, disk>>
  BY Zenon DEF BgetHit
<1>3. /\ Moves(p) /\ pc[p] = "idle" /\ pc'[p] = "lock" /\ buf'[p] = b /\ buf[p] = NoBuf
      /\ Cardinality(Users(b)') = Cardinality(Users(b)) + 1
      /\ \A c \in Buf : c # b => Users(c)' = Users(c)
  BY <1>1, TakesUsers, Zenon DEF Takes
<1>4. /\ refcnt' \in [Buf -> Nat] /\ refcnt'[b] = refcnt[b] + 1
      /\ \A c \in Buf : c # b => refcnt'[c] = refcnt[c]
  BY <1>1 DEF BioInvariant, Types
<1>5. ListInv'
  BY <1>2, Zenon DEF BioInvariant, ListInv
<1>6. RefInv'
  <2>1. ASSUME NEW c \in Buf, c # b PROVE refcnt'[c] = Cardinality(Users(c)')
    BY <1>3, <1>4, <2>1, Zenon DEF BioInvariant, RefInv
  <2>2. refcnt'[b] = Cardinality(Users(b)')
    BY <1>3, <1>4, Zenon DEF BioInvariant, RefInv
  <2> QED
    BY <2>1, <2>2, Zenon DEF RefInv
<1>7. ProcInv(p)'
  BY <1>1, <1>2, <1>3, Constants, Zenon DEF ProcInv, Holding
<1>8. pc[p] # "io" /\ pc[p] \notin Holding
  BY <1>3, Zenon DEF Holding
<1> QED
  BY <1>2, <1>3, <1>4, <1>5, <1>6, <1>7, <1>8, QuietStep, Zenon
\* bget() that recycles a buffer: nobody uses it, so nobody is wrong about it.
LEMMA BgetMissStep ==
    ASSUME BioInvariant, NEW p \in Proc, NEW k \in Block, BgetMiss(p, k)
    PROVE  BioInvariant'
<1>1. PICK b \in Buf : /\ Victim(b) /\ Takes(p, b)
                       /\ blockno' = [blockno EXCEPT ![b] = k]
                       /\ valid' = valid \ {b} /\ dirty' = dirty \ {b}
                       /\ refcnt' = [refcnt EXCEPT ![b] = 1]
  BY Zenon DEF BgetMiss, Takes
<1>2. /\ UNCHANGED <<data, locked, mru, idequeue, disk>>
      /\ \A c \in Buf : blockno[c] # k
  BY Zenon DEF BgetMiss, Cached
<1>3. /\ Moves(p) /\ pc[p] = "idle" /\ pc'[p] = "lock" /\ buf'[p] = b /\ buf[p] = NoBuf
      /\ Cardinality(Users(b)') = Cardinality(Users(b)) + 1
      /\ \A c \in Buf : c # b => Users(c)' = Users(c)
  BY <1>1, TakesUsers, Zenon DEF Takes
<1>4. refcnt[b] = 0 /\ b \notin dirty
  BY <1>1, Zenon DEF Victim, Unused
<1>5. /\ \A q \in Proc : buf[q] # b
      /\ Users(b) = {}
  BY <1>4, NotInUse, Zenon
<1>6. /\ blockno' \in [Buf -> Block \cup {NoBlock}] /\ blockno'[b] = k
      /\ \A c \in Buf : c # b => blockno'[c] = blockno[c]
  BY <1>1, Zenon DEF BioInvariant, Types
<1>7. /\ refcnt' \in [Buf -> Nat] /\ refcnt'[b] = 1
      /\ \A c \in Buf : c # b => refcnt'[c] = refcnt[c]
  BY <1>1 DEF BioInvariant, Types
<1>8. Types'
  BY <1>1, <1>2, <1>3, <1>6, <1>7, Zenon DEF BioInvariant, Types, Moves
<1>9. ListInv'
  BY <1>2, Zenon DEF BioInvariant, ListInv
<1>10. CacheInv'
  <2>1. SUFFICES ASSUME NEW a \in Buf, NEW c \in Buf, blockno'[a] = blockno'[c],
                        blockno'[a] # NoBlock
                 PROVE  a = c
    BY Zenon DEF CacheInv
  <2>2. CASE a = b \/ c = b
    BY <1>2, <1>6, <2>1, <2>2, Zenon
  <2>3. CASE a # b /\ c # b
    BY <1>6, <2>1, <2>3, Zenon DEF BioInvariant, CacheInv
  <2> QED
    BY <2>2, <2>3, Zenon
<1>11. RefInv'
  <2>1. ASSUME NEW c \in Buf, c # b PROVE refcnt'[c] = Cardinality(Users(c)')
    BY <1>3, <1>7, <2>1, Zenon DEF BioInvariant, RefInv
  <2>2. Cardinality(Users(b)') = 1
    BY <1>3, <1>5, FS_EmptySet
  <2> QED
    BY <1>7, <2>1, <2>2, Zenon DEF RefInv
<1>12. pc[p] # "io" /\ pc[p] \notin Holding
  BY <1>3, Zenon DEF Holding
<1>13. LockInv' /\ QueueInv'
  BY <1>2, <1>3, <1>12, LockStays, QueueStays, Zenon
<1>14. DataInv'
  BY <1>1, <1>2, <1>6, Zenon DEF BioInvariant, Types, DataInv
<1>15. ProcInv(p)'
  BY <1>3, <1>6, Constants, Zenon DEF ProcInv, Holding
<1>16. ASSUME NEW q \in Proc, q # p PROVE ProcInv(q)'
  <2>1. ProcInv(q) /\ pc'[q] = pc[q] /\ buf'[q] = buf[q] /\ buf[q] # b
    BY <1>3, <1>5, <1>16, Zenon DEF BioInvariant, Moves
  <2>2. buf[q] \in Buf \/ pc[q] = "idle"
    BY <2>1, Zenon DEF BioInvariant, Types, ProcInv
  <2>3. CASE pc[q] = "idle"
    BY <2>1, <2>3, Zenon DEF ProcInv, Holding
  <2>4. CASE buf[q] \in Buf
    BY <1>1, <1>2, <1>6, <2>1, <2>4, Zenon DEF ProcInv
  <2> QED
    BY <2>2, <2>3, <2>4, Zenon
<1> QED
  BY <1>8, <1>9, <1>10, <1>11, <1>13, <1>14, <1>15, <1>16, Zenon DEF BioInvariant

-----------------------------------------------------------------------------
(* Steps that only change pc.                                              *)

\* A step that only moves a process which keeps its buffer.
LEMMA PcStep ==
    ASSUME BioInvariant, NEW p \in Proc, NEW l \in PCs, pc' = [pc EXCEPT ![p] = l],
           UNCHANGED <<bufVars, mru, idequeue, disk, buf>>,
           pc'[p] = l => ProcInv(p)', pc[p] # "io", pc[p] \in Holding => l \in Holding
    PROVE  BioInvariant'
<1>1. Moves(p) /\ pc'[p] = l
  BY Zenon DEF BioInvariant, Types, Moves
<1>2. UNCHANGED <<blockno, valid, dirty, data, locked, idequeue, disk, mru, refcnt, buf>>
  BY Zenon DEF bufVars
<1>3. ListInv' /\ refcnt' \in [Buf -> Nat]
  BY <1>2, Zenon DEF BioInvariant, ListInv, Types
<1>4. RefInv'
  BY <1>2, Zenon DEF BioInvariant, RefInv, Users
<1> QED
  BY <1>1, <1>2, <1>3, <1>4, QuietStep, Zenon

\* acquiresleep() that finds the lock held.
LEMMA AcquireWaitStep ==
    ASSUME BioInvariant, NEW p \in Proc, AcquireWait(p)
    PROVE  BioInvariant'
<1>1. /\ pc[p] = "lock" /\ locked[buf[p]] # NoProc /\ pc' = [pc EXCEPT ![p] = "asleep"]
      /\ UNCHANGED <<bufVars, mru, idequeue, disk, buf>>
  BY Zenon DEF AcquireWait
<1>2. "asleep" \in PCs /\ pc[p] \notin Holding /\ pc[p] # "io"
  BY <1>1, Zenon DEF PCs, Holding
<1>3. ASSUME pc'[p] = "asleep" PROVE ProcInv(p)'
  BY <1>1, <1>3, Zenon DEF BioInvariant, ProcInv, Holding, bufVars
<1> QED
  BY <1>1, <1>2, <1>3, PcStep, Zenon

\* bread() of a valid buffer.
LEMMA BreadHitStep ==
    ASSUME BioInvariant, NEW p \in Proc, BreadHit(p)
    PROVE  BioInvariant'
<1>1. /\ pc[p] = "locked" /\ buf[p] \in valid /\ pc' = [pc EXCEPT ![p] = "held"]
      /\ UNCHANGED <<bufVars, mru, idequeue, disk, buf>>
  BY Zenon DEF BreadHit, MustRead
<1>2. "held" \in PCs /\ "held" \in Holding /\ pc[p] # "io"
  BY <1>1, Zenon DEF PCs, Holding
<1>3. ASSUME pc'[p] = "held" PROVE ProcInv(p)'
  BY <1>1, <1>3, Zenon DEF BioInvariant, ProcInv, Holding, bufVars
<1> QED
  BY <1>1, <1>2, <1>3, PcStep, Zenon

\* The end of the sleep in iderw().
LEMMA IderwDoneStep ==
    ASSUME BioInvariant, NEW p \in Proc, IderwDone(p)
    PROVE  BioInvariant'
<1>1. /\ pc[p] = "done" /\ UNCHANGED <<bufVars, mru, idequeue, disk, buf>>
      /\ pc' = [pc EXCEPT ![p] = IF buf[p] \in valid \ dirty THEN "held" ELSE "io"]
  BY Zenon DEF IderwDone
<1>2. buf[p] \in valid \ dirty
  BY <1>1, Zenon DEF BioInvariant, ProcInv
<1>3. "held" \in PCs /\ "held" \in Holding /\ pc[p] # "io" /\ pc' = [pc EXCEPT ![p] = "held"]
  BY <1>1, <1>2, Zenon DEF PCs, Holding
<1>4. ASSUME pc'[p] = "held" PROVE ProcInv(p)'
  BY <1>1, <1>2, <1>4, Zenon DEF BioInvariant, ProcInv, Holding, bufVars
<1> QED
  BY <1>1, <1>3, <1>4, PcStep, Zenon
-----------------------------------------------------------------------------
(* acquiresleep(), bread(), bwrite() and log_write().                      *)

\* acquiresleep() that takes the lock.
LEMMA AcquireSleepStep ==
    ASSUME BioInvariant, NEW p \in Proc, AcquireSleep(p)
    PROVE  BioInvariant'
<1> DEFINE b == buf[p]
<1>1. /\ pc[p] = "lock" /\ locked[b] = NoProc /\ locked' = [locked EXCEPT ![b] = p]
      /\ pc' = [pc EXCEPT ![p] = "locked"]
      /\ UNCHANGED <<blockno, valid, dirty, refcnt, data, mru, idequeue, disk, buf>>
  BY Zenon DEF AcquireSleep
<1>2. b \in Buf /\ blockno[b] \in Block
  BY <1>1, InUse, Zenon
<1>3. Moves(p) /\ pc'[p] = "locked" /\ pc[p] # "io" /\ pc[p] \notin Holding
  BY <1>1, Zenon DEF BioInvariant, Types, Moves, PCs, Holding
<1>4. /\ locked' \in [Buf -> Proc \cup {NoProc}] /\ locked'[b] = p
      /\ \A c \in Buf : c # b => locked'[c] = locked[c]
  BY <1>1, <1>2, Zenon DEF BioInvariant, Types
<1>5. Types' /\ ListInv' /\ CacheInv'
  <2>1. Types'
    BY <1>1, <1>3, <1>4, Zenon DEF BioInvariant, Types, Moves
  <2> QED
    BY <1>1, <2>1, Zenon DEF BioInvariant, ListInv, CacheInv
<1>6. RefInv' /\ DataInv'
  BY <1>1, Zenon DEF BioInvariant, RefInv, Users, DataInv
<1>7. QueueInv'
  BY <1>1, <1>3, QueueStays, Zenon
<1>8. LockInv'
  <2>1. SUFFICES ASSUME NEW c \in Buf, locked'[c] # NoProc
                 PROVE  buf'[locked'[c]] = c /\ pc'[locked'[c]] \in Holding
    BY Zenon DEF LockInv
  <2>2. CASE c = b
    BY <1>1, <1>3, <1>4, <2>2, Zenon DEF Holding
  <2>3. CASE c # b
    <3>1. locked[c] \in Proc /\ buf[locked[c]] = c /\ pc[locked[c]] \in Holding
      BY <1>4, <2>1, <2>3, Holders, Zenon
    <3>2. locked[c] # p
      BY <2>3, <3>1, Zenon
    <3> QED
      BY <1>3, <1>4, <2>3, <3>1, <3>2, Zenon DEF Moves
  <2> QED
    BY <2>2, <2>3, Zenon
<1>9. ProcInv(p)'
  BY <1>1, <1>2, <1>3, <1>4, Constants, Zenon DEF ProcInv
<1>10. ASSUME NEW q \in Proc, q # p PROVE ProcInv(q)'
  <2>1. ProcInv(q) /\ pc'[q] = pc[q] /\ buf'[q] = buf[q]
    BY <1>3, <1>10, Zenon DEF BioInvariant, Moves
  <2>2. ASSUME pc[q] \in Holding PROVE locked'[buf[q]] = q
    <3>1. buf[q] \in Buf /\ locked[buf[q]] = q
      BY <2>2, Held, Zenon
    <3>2. buf[q] # b
      BY <1>1, <3>1, Constants, Zenon
    <3> QED
      BY <1>4, <3>1, <3>2, Zenon
  <2>3. ASSUME pc[q] = "asleep" PROVE locked'[buf[q]] # NoProc
    <3>1. buf[q] \in Buf /\ locked[buf[q]] # NoProc
      BY <2>1, <2>3, InUse, Zenon DEF ProcInv
    <3> QED
      BY <1>1, <1>4, <3>1, Zenon
  <2> QED
    BY <1>1, <2>1, <2>2, <2>3, Zenon DEF ProcInv
<1> QED
  BY <1>5, <1>6, <1>7, <1>8, <1>9, <1>10, Zenon DEF BioInvariant

\* What p queues in iderw().
LEMMA EnqueueStep ==
    ASSUME BioInvariant, NEW p \in Proc, pc[p] \in {"locked", "held"},
           idequeue' = Append(idequeue, buf[p]), pc' = [pc EXCEPT ![p] = "io"],
           UNCHANGED buf
    PROVE  /\ Moves(p) /\ pc'[p] = "io" /\ idequeue' \in Seq(Buf) /\ QueueInv'
           /\ Elems(idequeue') = Elems(idequeue) \cup {buf[p]}
<1>1. pc[p] \in Holding /\ pc[p] # "io"
  BY Zenon DEF Holding
<1>2. buf[p] \in Buf /\ buf[p] \notin Elems(idequeue)
  BY <1>1, Held, NotQueued, Zenon
<1>3. idequeue \in Seq(Buf) /\ QueueInv
  BY Zenon DEF BioInvariant, Types
<1>4. Once(idequeue') /\ Elems(idequeue') = Elems(idequeue) \cup {buf[p]}
  <2>1. Once(idequeue)
    BY <1>3, Zenon DEF QueueInv
  <2>2. /\ Once(Append(idequeue, buf[p]))
        /\ Elems(Append(idequeue, buf[p])) = Elems(idequeue) \cup {buf[p]}
    BY <1>2, <1>3, <2>1, Appends
  <2> QED
    BY <2>2, Zenon
<1>5. idequeue' \in Seq(Buf)
  BY <1>2, <1>3
<1>6. Moves(p) /\ pc'[p] = "io"
  BY Zenon DEF BioInvariant, Types, Moves, PCs
<1>7. ASSUME NEW c \in Elems(idequeue') PROVE \E q \in Proc : pc'[q] = "io" /\ buf'[q] = c
  <2>1. CASE c = buf[p]
    BY <1>6, <2>1, Zenon
  <2>2. CASE c \in Elems(idequeue)
    <3>1. PICK q \in Proc : pc[q] = "io" /\ buf[q] = c
      BY <1>3, <2>2, Zenon DEF QueueInv
    <3>2. q # p
      BY <1>1, <3>1, Zenon
    <3> QED
      BY <1>6, <3>1, <3>2, Zenon DEF Moves
  <2> QED
    BY <1>4, <1>7, <2>1, <2>2, Zenon
<1>8. QueueInv'
  BY <1>4, <1>7, Zenon DEF QueueInv
<1> QED
  BY <1>4, <1>5, <1>6, <1>8, Zenon

\* bread() that puts a read into the queue.
LEMMA BreadMissStep ==
    ASSUME BioInvariant, NEW p \in Proc, BreadMiss(p)
    PROVE  BioInvariant'
<1>1. /\ pc[p] = "locked" /\ idequeue' = Append(idequeue, buf[p])
      /\ pc' = [pc EXCEPT ![p] = "io"]
      /\ UNCHANGED <<blockno, valid, dirty, refcnt, data, locked, mru, disk, buf>>
  BY Zenon DEF BreadMiss, bufVars
<1>2. /\ Moves(p) /\ pc'[p] = "io" /\ idequeue' \in Seq(Buf) /\ QueueInv'
      /\ Elems(idequeue') = Elems(idequeue) \cup {buf[p]}
  BY <1>1, EnqueueStep, Zenon
<1>3. "io" \in Holding /\ pc[p] \in Holding
  BY <1>1, Zenon DEF Holding
<1>4. Types' /\ ListInv' /\ CacheInv'
  BY <1>1, <1>2, Zenon DEF BioInvariant, Types, ListInv, CacheInv, Moves
<1>5. RefInv' /\ DataInv'
  BY <1>1, Zenon DEF BioInvariant, RefInv, Users, DataInv
<1>6. LockInv'
  BY <1>1, <1>2, <1>3, LockStays, Zenon
<1>7. ProcInv(p)'
  BY <1>1, <1>2, <1>3, Zenon DEF BioInvariant, ProcInv
<1>8. ASSUME NEW q \in Proc, q # p PROVE ProcInv(q)'
  <2>1. ProcInv(q) /\ pc'[q] = pc[q] /\ buf'[q] = buf[q]
    BY <1>2, <1>8, Zenon DEF BioInvariant, Moves
  <2> QED
    BY <1>1, <1>2, <2>1, Zenon DEF ProcInv
<1> QED
  BY <1>2, <1>4, <1>5, <1>6, <1>7, <1>8, Zenon DEF BioInvariant

\* The holder of a buffer changes its data and sets B_DIRTY.
Dirties(p, v) ==
    /\ pc[p] = "held" /\ data' = [data EXCEPT ![buf[p]] = v]
    /\ dirty' = dirty \cup {buf[p]}
    /\ UNCHANGED <<blockno, valid, refcnt, locked, mru, disk, buf>>

\* The holder of a buffer changes it.
LEMMA DirtiesStep ==
    ASSUME BioInvariant, NEW p \in Proc, NEW v \in Value, Dirties(p, v), Moves(p),
           pc'[p] \in {"io", "held"}, idequeue' \in Seq(Buf), QueueInv',
           Elems(idequeue) \subseteq Elems(idequeue'),
           pc'[p] = "io" => buf[p] \in Elems(idequeue')
    PROVE  BioInvariant'
<1> DEFINE b == buf[p]
<1>1. pc[p] = "held" /\ UNCHANGED <<blockno, valid, refcnt, locked, mru, disk, buf>>
  BY Zenon DEF Dirties
<1>2. pc[p] \in Holding /\ pc'[p] \in Holding
  BY <1>1, Zenon DEF Holding
<1>3. /\ b \in Buf /\ locked[b] = p /\ blockno[b] \in Block /\ b \in valid
      /\ \A q \in Proc : buf[q] = b /\ pc[q] \in Holding => q = p
  BY <1>1, <1>2, Held, Zenon DEF BioInvariant, ProcInv
<1>4. /\ data' \in [Buf -> Value] /\ \A c \in Buf : c # b => data'[c] = data[c]
      /\ dirty' = dirty \cup {b} /\ dirty' \subseteq Buf
  BY <1>3, Zenon DEF BioInvariant, Types, Dirties
<1>5. Types' /\ ListInv' /\ CacheInv'
  BY <1>1, <1>4, Zenon DEF BioInvariant, Types, ListInv, CacheInv, Moves
<1>6. RefInv'
  BY <1>1, Zenon DEF BioInvariant, RefInv, Users
<1>7. DataInv'
  BY <1>1, <1>3, <1>4, Zenon DEF BioInvariant, Types, DataInv
<1>8. LockInv'
  BY <1>1, <1>2, LockStays, Zenon
<1>9. ProcInv(p)'
  BY <1>1, <1>2, <1>3, Zenon DEF BioInvariant, ProcInv
<1>10. ASSUME NEW q \in Proc, q # p PROVE ProcInv(q)'
  <2>1. ProcInv(q) /\ pc'[q] = pc[q] /\ buf'[q] = buf[q]
    BY <1>10, Zenon DEF BioInvariant, Moves
  <2>2. pc[q] = "done" => buf[q] # b
    BY <1>3, <1>10, Zenon DEF Holding
  <2> QED
    BY <1>1, <1>4, <2>1, <2>2, Zenon DEF ProcInv
<1> QED
  BY <1>5, <1>6, <1>7, <1>8, <1>9, <1>10, Zenon DEF BioInvariant

\* bwrite() puts a write into the queue.
LEMMA BwriteStep ==
    ASSUME BioInvariant, NEW p \in Proc, NEW v \in Value, Bwrite(p, v)
    PROVE  BioInvariant'
<1>1. /\ Dirties(p, v) /\ pc[p] = "held" /\ UNCHANGED buf
      /\ idequeue' = Append(idequeue, buf[p]) /\ pc' = [pc EXCEPT ![p] = "io"]
  BY Zenon DEF Bwrite, Dirties
<1>2. /\ Moves(p) /\ pc'[p] = "io" /\ idequeue' \in Seq(Buf) /\ QueueInv'
      /\ Elems(idequeue') = Elems(idequeue) \cup {buf[p]}
  BY <1>1, EnqueueStep, Zenon
<1> QED
  BY <1>1, <1>2, DirtiesStep, Zenon

\* log_write() pins the buffer.
LEMMA LogWriteStep ==
    ASSUME BioInvariant, NEW p \in Proc, NEW v \in Value, LogWrite(p, v)
    PROVE  BioInvariant'
<1>1. Dirties(p, v) /\ pc[p] = "held" /\ UNCHANGED <<idequeue, pc, buf>>
  BY Zenon DEF LogWrite, Dirties
<1>2. Moves(p) /\ idequeue' \in Seq(Buf) /\ pc'[p] = "held"
  BY <1>1, Zenon DEF BioInvariant, Types, Moves
<1>3. QueueInv'
  BY <1>1, <1>2, QueueStays, Zenon
<1> QED
  BY <1>1, <1>2, <1>3, DirtiesStep, Zenon
-----------------------------------------------------------------------------
(* ideintr() and brelse().                                                 *)

\* ideintr() wakes the process whose request it was, and no other.
LEMMA IdeWakes ==
    ASSUME BioInvariant, idequeue # << >>, pc' = IdeWake(pc, Head(idequeue)),
           UNCHANGED buf, idequeue' = Tail(idequeue)
    PROVE  \E p \in Proc : /\ pc[p] = "io" /\ buf[p] = Head(idequeue) /\ pc'[p] = "done"
                           /\ Moves(p) /\ QueueInv' /\ idequeue' \in Seq(Buf)
                           /\ \A q \in Proc : q # p /\ buf[q] \in Elems(idequeue)
                                                => buf[q] \in Elems(idequeue')
                                                     \/ buf[q] = buf[p]
<1> DEFINE b == Head(idequeue)
<1>1. idequeue \in Seq(Buf) /\ QueueInv /\ Once(idequeue)
  BY Zenon DEF BioInvariant, Types, QueueInv
<1>2. /\ Once(idequeue') /\ Elems(idequeue') = Elems(idequeue) \ {b}
      /\ b \in Buf /\ b \in Elems(idequeue) /\ idequeue' \in Seq(Buf)
  BY <1>1, Tails
<1>3. PICK p \in Proc : pc[p] = "io" /\ buf[p] = b
  BY <1>1, <1>2, Zenon DEF QueueInv
<1>4. \A q \in Proc : q # p => ~(pc[q] = "io" /\ buf[q] = b)
  BY <1>3, Held, Zenon DEF Holding
<1>5. pc'[p] = "done" /\ \A q \in Proc : q # p => pc'[q] = pc[q]
  BY <1>3, <1>4, Zenon DEF IdeWake
<1>6. Moves(p)
  <2>1. \A q \in Proc : pc'[q] \in PCs
    BY <1>5, Zenon DEF BioInvariant, Types, PCs
  <2>2. pc' \in [Proc -> PCs]
    BY <2>1, Zenon DEF IdeWake
  <2> QED
    BY <1>5, <2>2, Zenon DEF Moves, BioInvariant, Types
<1>7. ASSUME NEW c \in Elems(idequeue') PROVE \E q \in Proc : pc'[q] = "io" /\ buf'[q] = c
  <2>1. c \in Elems(idequeue) /\ c # b
    BY <1>2, <1>7, Zenon
  <2>2. PICK q \in Proc : pc[q] = "io" /\ buf[q] = c
    BY <1>1, <2>1, Zenon DEF QueueInv
  <2>3. q # p
    BY <1>3, <2>1, <2>2, Zenon
  <2> QED
    BY <1>5, <2>2, <2>3, Zenon
<1>8. QueueInv'
  BY <1>2, <1>7, Zenon DEF QueueInv
<1> QED
  BY <1>2, <1>3, <1>5, <1>6, <1>8, Zenon

\* ideintr() makes the buffer agree with the disk and wakes its process.
LEMMA IdeIntrStep ==
    ASSUME BioInvariant, ~DiskErrors, IdeIntr
    PROVE  BioInvariant'
<1> DEFINE b == Head(idequeue)
<1>1. /\ idequeue # << >> /\ idequeue' = Tail(idequeue) /\ pc' = IdeWake(pc, b)
      /\ valid' = valid \cup {b} /\ dirty' = dirty \ {b}
      /\ UNCHANGED <<blockno, refcnt, locked, mru, buf>>
      /\ \/ b \in dirty /\ disk' = [disk EXCEPT ![blockno[b]] = data[b]] /\ data' = data
         \/ b \notin dirty /\ data' = [data EXCEPT ![b] = disk[blockno[b]]] /\ disk' = disk
  BY Zenon DEF IdeIntr
<1>2. PICK p \in Proc : /\ pc[p] = "io" /\ buf[p] = b /\ pc'[p] = "done"
                        /\ Moves(p) /\ QueueInv' /\ idequeue' \in Seq(Buf)
                        /\ \A q \in Proc : q # p /\ buf[q] \in Elems(idequeue)
                                             => buf[q] \in Elems(idequeue') \/ buf[q] = b
  BY <1>1, IdeWakes, Zenon
<1>3. pc[p] \in Holding /\ pc'[p] \in Holding
  BY <1>2, Zenon DEF Holding
<1>4. /\ b \in Buf /\ blockno[b] \in Block
      /\ \A q \in Proc : buf[q] = b /\ pc[q] \in Holding => q = p
  <2>1. buf[p] = b
    BY <1>2, Zenon
  <2>2. /\ buf[p] \in Buf /\ blockno[buf[p]] \in Block
        /\ \A q \in Proc : buf[q] = buf[p] /\ pc[q] \in Holding => q = p
    BY <1>3, Held, Zenon
  <2> QED
    BY <2>1, <2>2, Zenon
<1>5. disk \in [Block -> Value] /\ data \in [Buf -> Value] /\ DataInv /\ CacheInv
  BY Zenon DEF BioInvariant, Types
<1>6. /\ disk' \in [Block -> Value] /\ data' \in [Buf -> Value]
      /\ data'[b] = disk'[blockno[b]]
      /\ \A c \in Buf : c # b => data'[c] = data[c]
      /\ \A k \in Block : k # blockno[b] => disk'[k] = disk[k]
  <2>1. CASE b \in dirty
    BY <1>1, <1>4, <1>5, <2>1, Zenon
  <2>2. CASE b \notin dirty
    BY <1>1, <1>4, <1>5, <2>2, Zenon
  <2> QED
    BY <2>1, <2>2, Zenon
<1>7. Types'
  BY <1>1, <1>2, <1>4, <1>6, Zenon DEF BioInvariant, Types, Moves
<1>8. ListInv' /\ CacheInv' /\ RefInv'
  BY <1>1, Zenon DEF BioInvariant, ListInv, CacheInv, RefInv, Users
<1>9. LockInv'
  BY <1>1, <1>2, <1>3, LockStays, Zenon
<1>10. DataInv'
  <2>1. dirty' \subseteq valid' /\ \A c \in valid' : blockno'[c] # NoBlock
    BY <1>1, <1>4, <1>5, Constants, Zenon DEF DataInv
  <2>2. ASSUME NEW c \in valid', c \notin dirty' PROVE data'[c] = disk'[blockno'[c]]
    <3>1. CASE c = b
      BY <1>1, <1>6, <3>1, Zenon
    <3>2. CASE c # b
      <4>1. c \in valid /\ c \notin dirty /\ c \in Buf /\ blockno[c] \in Block
        <5>1. c \in valid /\ c \notin dirty
          BY <1>1, <2>2, <3>2, Zenon
        <5>2. c \in Buf /\ blockno[c] # NoBlock
          BY <1>5, <5>1, Zenon DEF DataInv, BioInvariant, Types
        <5> QED
          BY <5>1, <5>2, Zenon DEF BioInvariant, Types
      <4>2. blockno[c] # blockno[b]
        BY <1>4, <1>5, <3>2, <4>1, Constants, Zenon DEF CacheInv
      <4> QED
        BY <1>1, <1>5, <1>6, <3>2, <4>1, <4>2, Zenon DEF DataInv
    <3> QED
      BY <3>1, <3>2, Zenon
  <2> QED
    BY <2>1, <2>2, Zenon DEF DataInv
<1>11. ProcInv(p)'
  BY <1>1, <1>2, <1>3, <1>4, Zenon DEF BioInvariant, ProcInv
<1>12. ASSUME NEW q \in Proc, q # p PROVE ProcInv(q)'
  <2>1. ProcInv(q) /\ pc'[q] = pc[q] /\ buf'[q] = buf[q]
    BY <1>2, <1>12, Zenon DEF BioInvariant, Moves
  <2>2. pc[q] = "io" => buf[q] \in Elems(idequeue')
    BY <1>2, <1>4, <1>12, <2>1, Zenon DEF ProcInv, Holding
  <2> QED
    BY <1>1, <2>1, <2>2, Zenon DEF ProcInv
<1> QED
  BY <1>2, <1>7, <1>8, <1>9, <1>10, <1>11, <1>12, Zenon DEF BioInvariant

\* releasesleep() frees the lock and wakes who waits for it.
LEMMA ReleaseSleepStep ==
    ASSUME BioInvariant, NEW p \in Proc, ReleaseSleep(p)
    PROVE  BioInvariant'
<1> DEFINE b == buf[p]
<1>1. /\ pc[p] = "held" /\ locked' = [locked EXCEPT ![b] = NoProc]
      /\ pc' = [SleepWake(pc, b) EXCEPT ![p] = "release"]
      /\ UNCHANGED <<blockno, valid, dirty, refcnt, data, mru, idequeue, disk, buf>>
  BY Zenon DEF ReleaseSleep
<1>2. /\ b \in Buf /\ locked[b] = p /\ blockno[b] \in Block
      /\ \A q \in Proc : buf[q] = b /\ pc[q] \in Holding => q = p
  BY <1>1, Held, Zenon DEF Holding
<1>3. /\ pc'[p] = "release"
      /\ \A q \in Proc : q # p => pc'[q] = IF pc[q] = "asleep" /\ buf[q] = b
                                           THEN "lock" ELSE pc[q]
  BY <1>1, Zenon DEF SleepWake
<1>4. pc' \in [Proc -> PCs]
  <2>1. \A q \in Proc : SleepWake(pc, b)[q] \in PCs
    BY Zenon DEF BioInvariant, Types, SleepWake, PCs
  <2>2. SleepWake(pc, b) \in [Proc -> PCs]
    BY <2>1, Zenon DEF SleepWake
  <2>3. "release" \in PCs
    BY Zenon DEF PCs
  <2> QED
    BY <1>1, <2>2, <2>3, Zenon
<1>5. /\ locked' \in [Buf -> Proc \cup {NoProc}] /\ locked'[b] = NoProc
      /\ \A c \in Buf : c # b => locked'[c] = locked[c]
  BY <1>1, <1>2, Zenon DEF BioInvariant, Types
<1>6. Types'
  BY <1>1, <1>4, <1>5, Zenon DEF BioInvariant, Types
<1>7. ListInv' /\ CacheInv' /\ RefInv' /\ DataInv'
  <2>1. ListInv' /\ CacheInv' /\ RefInv'
    BY <1>1, Zenon DEF BioInvariant, ListInv, CacheInv, RefInv, Users
  <2>2. DataInv'
    BY <1>1, Zenon DEF BioInvariant, DataInv
  <2> QED
    BY <2>1, <2>2, Zenon
<1>8. LockInv'
  <2>1. SUFFICES ASSUME NEW c \in Buf, locked'[c] # NoProc
                 PROVE  buf'[locked'[c]] = c /\ pc'[locked'[c]] \in Holding
    BY Zenon DEF LockInv
  <2>2. c # b /\ locked'[c] = locked[c]
    BY <1>5, <2>1, Zenon
  <2>3. locked[c] \in Proc /\ buf[locked[c]] = c /\ pc[locked[c]] \in Holding
    BY <2>1, <2>2, Holders, Zenon
  <2>4. pc'[locked[c]] = pc[locked[c]]
    BY <1>3, <2>2, <2>3, Zenon
  <2> QED
    BY <1>1, <2>2, <2>3, <2>4, Zenon
<1>9. QueueInv'
  <2>1. QueueInv
    BY Zenon DEF BioInvariant
  <2>2. SUFFICES ASSUME NEW c \in Elems(idequeue)
                 PROVE  \E q \in Proc : pc'[q] = "io" /\ buf'[q] = c
    BY <1>1, <2>1, Zenon DEF QueueInv
  <2>3. PICK q \in Proc : pc[q] = "io" /\ buf[q] = c
    BY <2>1, Zenon DEF QueueInv
  <2>4. pc'[q] = "io"
    BY <1>1, <1>3, <2>3, Zenon
  <2> QED
    BY <1>1, <2>3, <2>4, Zenon
<1>10. ProcInv(p)'
  BY <1>1, <1>2, <1>3, Constants, Zenon DEF ProcInv, Holding
<1>11. ASSUME NEW q \in Proc, q # p PROVE ProcInv(q)'
  <2>1. ProcInv(q) /\ buf'[q] = buf[q]
    BY <1>1, Zenon DEF BioInvariant
  <2>2. CASE pc[q] = "asleep" /\ buf[q] = b
    <3>1. pc'[q] = "lock"
      BY <1>3, <1>11, <2>2, Zenon
    <3> QED
      BY <1>1, <1>2, <2>1, <2>2, <3>1, Constants, Zenon DEF ProcInv, Holding
  <2>3. CASE ~(pc[q] = "asleep" /\ buf[q] = b)
    <3>1. pc'[q] = pc[q]
      BY <1>3, <1>11, <2>3, Zenon
    <3>2. pc[q] # "idle" => buf[q] \in Buf
      BY InUse, Zenon
    <3>3. pc[q] \in Holding => locked'[buf[q]] = q
      BY <1>2, <1>5, <1>11, <2>1, <3>2, Zenon DEF ProcInv, Holding
    <3>4. pc[q] = "asleep" => locked'[buf[q]] # NoProc
      BY <1>5, <2>1, <2>3, <3>2, Zenon DEF ProcInv
    <3> QED
      BY <1>1, <2>1, <3>1, <3>3, <3>4, Zenon DEF ProcInv
  <2> QED
    BY <2>2, <2>3, Zenon
<1> QED
  BY <1>6, <1>7, <1>8, <1>9, <1>10, <1>11, Zenon DEF BioInvariant
\* Moving a buffer to the front keeps every buffer in the list.
LEMMA FrontStays ==
    ASSUME ListInv, NEW b \in Buf
    PROVE  Front(b) \in [Buf -> Buf] /\ \A c \in Buf : \E i \in Buf : Front(b)[i] = c
<1>1. PICK i \in Buf : i = CHOOSE j \in Buf : mru[j] = b
  BY Zenon DEF ListInv
<1>2. mru[i] = b /\ mru \in [Buf -> Buf] /\ \A c \in Buf : \E j \in Buf : mru[j] = c
  BY <1>1, Zenon DEF ListInv
<1>3. Front(b) = [j \in Buf |-> IF j = 1 THEN b ELSE IF j <= i THEN mru[j - 1] ELSE mru[j]]
  BY <1>1, Zenon DEF Front
<1>4. \A j \in Buf : j # 1 => j - 1 \in Buf
  BY Constants DEF Buf
<1>5. Front(b) \in [Buf -> Buf]
  <2>1. ASSUME NEW j \in Buf
        PROVE  (IF j = 1 THEN b ELSE IF j <= i THEN mru[j - 1] ELSE mru[j]) \in Buf
    <3>1. CASE j = 1
      BY <3>1, Zenon
    <3>2. CASE j # 1
      <4>1. mru[j - 1] \in Buf /\ mru[j] \in Buf
        BY <1>2, <1>4, <3>2, Zenon
      <4> QED
        BY <3>2, <4>1, Zenon
    <3> QED
      BY <3>1, <3>2, Zenon
  <2> QED
    BY <1>3, <2>1, Zenon
<1>6. 1 \in Buf
  BY Constants DEF Buf
<1>7. ASSUME NEW c \in Buf PROVE \E j \in Buf : Front(b)[j] = c
  <2>1. PICK j \in Buf : mru[j] = c
    BY <1>2, Zenon
  <2>2. CASE j = i
    <3>1. Front(b)[1] = c
      BY <1>2, <1>3, <1>6, <2>1, <2>2, Zenon
    <3> QED
      BY <1>6, <3>1, Zenon
  <2>3. CASE j # i /\ j < i
    <3>1. j + 1 \in Buf /\ j + 1 # 1 /\ j + 1 <= i /\ (j + 1) - 1 = j
      BY <2>3, Constants DEF Buf
    <3>2. Front(b)[j + 1] = mru[(j + 1) - 1]
      BY <1>3, <3>1, Zenon
    <3> QED
      BY <2>1, <3>1, <3>2, Zenon
  <2>4. CASE j # i /\ ~(j < i)
    <3>1. j # 1 /\ ~(j <= i)
      BY <2>4, Constants DEF Buf
    <3>2. Front(b)[j] = mru[j]
      BY <1>3, <3>1, Zenon
    <3> QED
      BY <2>1, <3>2, Zenon
  <2> QED
    BY <2>2, <2>3, <2>4, Zenon
<1> QED
  BY <1>5, <1>7, Zenon

\* brelse() gives the reference back.
LEMMA BrelseStep ==
    ASSUME BioInvariant, NEW p \in Proc, Brelse(p)
    PROVE  BioInvariant'
<1>0. PICK b : b = buf[p]
  BY Zenon
<1>1. /\ pc[p] = "release" /\ refcnt' = [refcnt EXCEPT ![b] = refcnt[b] - 1]
      /\ mru' \in {Front(b), mru}
      /\ pc' = [pc EXCEPT ![p] = "idle"] /\ buf' = [buf EXCEPT ![p] = NoBuf]
      /\ UNCHANGED <<blockno, valid, dirty, data, locked, idequeue, disk>>
  BY <1>0, Zenon DEF Brelse, Unref
<1>2. b \in Buf /\ refcnt[b] # 0
  BY <1>0, <1>1, InUse, Zenon
<1>3. Moves(p) /\ pc'[p] = "idle" /\ buf'[p] = NoBuf
  BY <1>1, Zenon DEF BioInvariant, Types, Moves, PCs
<1>4. /\ refcnt' \in [Buf -> Nat] /\ refcnt'[b] = refcnt[b] - 1
      /\ \A c \in Buf : c # b => refcnt'[c] = refcnt[c]
  BY <1>1, <1>2 DEF BioInvariant, Types
<1>5. ListInv'
  <2>1. ListInv
    BY Zenon DEF BioInvariant
  <2>2. CASE mru' = mru
    BY <2>1, <2>2, Zenon DEF ListInv
  <2>3. CASE mru' = Front(b)
    BY <1>2, <2>1, <2>3, FrontStays, Zenon DEF ListInv
  <2> QED
    BY <1>1, <2>2, <2>3, Zenon
<1>6. RefInv'
  <2>1. p \in Users(b) /\ Users(b)' = Users(b) \ {p}
    <3>1. p \in Users(b) /\ ~(p \in Users(b)')
      BY <1>0, <1>2, <1>3, Constants, Zenon DEF Users
    <3>2. ASSUME NEW q PROVE q \in Users(b)' <=> q \in Users(b) /\ q # p
      <4>1. CASE q = p
        BY <3>1, <4>1, Zenon
      <4>2. CASE q # p
        BY <1>3, <4>2, Zenon DEF Users, Moves
      <4> QED
        BY <4>1, <4>2, Zenon
    <3> QED
      BY <3>1, <3>2, Zenon
  <2>2. Cardinality(Users(b)') = Cardinality(Users(b)) - 1
    BY <2>1, UsersFinite, FS_RemoveElement, Zenon
  <2>3. ASSUME NEW c \in Buf, c # b PROVE Users(c)' = Users(c)
    <3>1. ASSUME NEW q \in Proc PROVE buf'[q] = c <=> buf[q] = c
      <4>1. CASE q = p
        BY <1>0, <1>3, <2>3, <4>1, Constants, Zenon
      <4>2. CASE q # p
        BY <1>3, <4>2, Zenon DEF Moves
      <4> QED
        BY <4>1, <4>2, Zenon
    <3> QED
      BY <3>1, Zenon DEF Users
  <2>4. ASSUME NEW c \in Buf PROVE refcnt'[c] = Cardinality(Users(c)')
    <3>1. RefInv
      BY Zenon DEF BioInvariant
    <3>2. CASE c = b
      <4>1. refcnt[b] = Cardinality(Users(b)) /\ refcnt'[b] = refcnt[b] - 1
        BY <1>2, <1>4, <3>1, Zenon DEF RefInv
      <4> QED
        BY <2>2, <3>2, <4>1, Zenon
    <3>3. CASE c # b
      BY <1>4, <2>3, <3>1, <3>3, Zenon DEF RefInv
    <3> QED
      BY <3>2, <3>3, Zenon
  <2> QED
    BY <2>4, Zenon DEF RefInv
<1>7. ProcInv(p)'
  BY <1>3, Zenon DEF ProcInv, Holding
<1>8. pc[p] # "io" /\ pc[p] \notin Holding
  BY <1>1, Zenon DEF Holding
<1> QED
  BY <1>1, <1>3, <1>4, <1>5, <1>6, <1>7, <1>8, QuietStep, Zenon

-----------------------------------------------------------------------------
(* The invariant.                                                          *)

\* After binit() the invariant holds.
LEMMA InitInv ==
    ASSUME Init
    PROVE  BioInvariant
<1>2. Types
  BY Constants DEF Init, Types, PCs
<1>3. ListInv
  <2>1. mru \in [Buf -> Buf]
    BY Constants DEF Init, Buf
  <2>2. ASSUME NEW b \in Buf PROVE \E i \in Buf : mru[i] = b
    <3>1. NBUF + 1 - b \in Buf /\ NBUF + 1 - (NBUF + 1 - b) = b
      BY Constants DEF Buf
    <3> QED
      BY <3>1, Zenon DEF Init
  <2> QED
    BY <2>1, <2>2, Zenon DEF ListInv
<1>4. CacheInv
  BY Zenon DEF Init, CacheInv
<1>5. RefInv
  <2>1. ASSUME NEW b \in Buf PROVE Users(b) = {}
    BY Constants, Zenon DEF Init, Users
  <2> QED
    BY <2>1, FS_EmptySet, Zenon DEF Init, RefInv
<1>6. LockInv /\ DataInv
  BY Zenon DEF Init, LockInv, DataInv
<1>7. QueueInv
  BY DEF Init, QueueInv, Once, Elems
<1>8. ASSUME NEW p \in Proc PROVE ProcInv(p)
  BY Zenon DEF Init, ProcInv, Holding
<1> QED
  BY <1>2, <1>3, <1>4, <1>5, <1>6, <1>7, <1>8, Zenon DEF BioInvariant

\* Every step keeps the invariant.
LEMMA NextInv ==
    ASSUME BioInvariant, ~DiskErrors, [Next]_vars
    PROVE  BioInvariant'
<1>1. CASE \E p \in Proc, k \in Block : BgetHit(p, k) \/ BgetMiss(p, k)
  BY <1>1, BgetHitStep, BgetMissStep, Zenon
<1>2. CASE \E p \in Proc : AcquireSleep(p) \/ AcquireWait(p)
  BY <1>2, AcquireSleepStep, AcquireWaitStep, Zenon
<1>3. CASE \E p \in Proc : Bread(p)
  BY <1>3, BreadHitStep, BreadMissStep, IderwDoneStep, Zenon DEF Bread
<1>4. CASE \E p \in Proc, v \in Value : Bwrite(p, v) \/ LogWrite(p, v)
  BY <1>4, BwriteStep, LogWriteStep, Zenon
<1>5. CASE \E p \in Proc : ReleaseSleep(p) \/ Brelse(p)
  BY <1>5, ReleaseSleepStep, BrelseStep, Zenon
<1>6. CASE IdeIntr
  BY <1>6, IdeIntrStep, Zenon
<1>7. CASE UNCHANGED vars
  <2>1. UNCHANGED <<blockno, valid, dirty, refcnt, data, locked, mru, idequeue, disk, pc, buf>>
    BY <1>7, Zenon DEF vars, bufVars
  <2>2. Types' /\ ListInv' /\ CacheInv' /\ RefInv'
    <3>1. Types'
      BY <2>1, Zenon DEF BioInvariant, Types
    <3>2. ListInv' /\ CacheInv'
      BY <2>1, Zenon DEF BioInvariant, ListInv, CacheInv
    <3>3. RefInv'
      BY <2>1, Zenon DEF BioInvariant, RefInv, Users
    <3> QED
      BY <3>1, <3>2, <3>3, Zenon
  <2>3. LockInv' /\ QueueInv' /\ DataInv'
    BY <2>1, Zenon DEF BioInvariant, LockInv, QueueInv, DataInv
  <2>4. \A p \in Proc : ProcInv(p)'
    BY <2>1, Zenon DEF BioInvariant, ProcInv
  <2> QED
    BY <2>2, <2>3, <2>4, Zenon DEF BioInvariant
<1> QED
  BY <1>1, <1>2, <1>3, <1>4, <1>5, <1>6, <1>7, Zenon DEF Next

\* The invariant of bio.c, sleeplock.c and ide.c holds for any number of buffers,
\* blocks and processes, if no request to the disk fails.
THEOREM BioInvariance ==
    ASSUME ~DiskErrors
    PROVE  Spec => []BioInvariant
<1>1. Init => BioInvariant
  BY InitInv, Zenon
<1>2. BioInvariant /\ [Next]_vars => BioInvariant'
  BY NextInv, Zenon
<1> QED
  BY <1>1, <1>2, PTL DEF Spec
-----------------------------------------------------------------------------
(* The cache implements BlockStore.                                        *)

\* The buffer of a block is the one that has its number.
LEMMA BufOfIs ==
    ASSUME NEW bn, NEW b \in Buf, bn[b] # NoBlock,
           \A a, c \in Buf : bn[a] = bn[c] /\ bn[a] # NoBlock => a = c
    PROVE  (CHOOSE c \in Buf : bn[c] = bn[b]) = b
BY Zenon

\* What the mapping shows of a cached and of an uncached block.  A buffer that
\* is valid and not dirty shows the disk.
Shows(b, k) ==
    Content[k] = (IF b \in dirty THEN data[b] ELSE disk[k]) /\ Holder[k] = locked[b]
View ==
    /\ \A b \in Buf, k \in Block : blockno[b] = k => Shows(b, k)
    /\ \A k \in Block : ~Cached(k) => Content[k] = disk[k] /\ Holder[k] = NoProc

\* The mapping shows what View says.
LEMMA Views == BioInvariant => View
<1> SUFFICES ASSUME BioInvariant PROVE View
  OBVIOUS
<1>1. CacheInv /\ DataInv
  BY Zenon DEF BioInvariant
<1>2. ASSUME NEW b \in Buf, NEW k \in Block, blockno[b] = k PROVE Shows(b, k)
  <2>1. Cached(k) /\ BufOf(k) = b
    BY <1>1, <1>2, BufOfIs, Constants, Zenon DEF Cached, BufOf, CacheInv
  <2>2. Content[k] = IF b \in valid \cup dirty THEN data[b] ELSE disk[k]
    BY <2>1, Zenon DEF Content
  <2>3. Holder[k] = locked[b]
    BY <2>1, Zenon DEF Holder
  <2>4. b \in dirty => b \in valid
    BY <1>1, Zenon DEF DataInv
  <2>5. b \in valid /\ b \notin dirty => data[b] = disk[k]
    BY <1>1, <1>2, Zenon DEF DataInv
  <2> QED
    BY <2>2, <2>3, <2>4, <2>5, Zenon DEF Shows
<1>3. ASSUME NEW k \in Block, ~Cached(k) PROVE Content[k] = disk[k] /\ Holder[k] = NoProc
  BY <1>3, Zenon DEF Content, Holder
<1> QED
  BY <1>2, <1>3, Zenon DEF View

\* The same after a step.
LEMMA ViewsNext == BioInvariant' => View'
BY Views, PTL

\* The mapping gives every block a content and a holder.
LEMMA ViewIsFunction ==
    /\ Content = [k \in Block |-> Content[k]] /\ Holder = [k \in Block |-> Holder[k]]
    /\ Content' = [k \in Block |-> Content'[k]] /\ Holder' = [k \in Block |-> Holder'[k]]
BY Zenon DEF Content, Holder
\* A block is in the same buffer before and after a step that moves none.
LEMMA SamePlace ==
    ASSUME View, View', UNCHANGED blockno, NEW k \in Block
    PROVE  \/ \E b \in Buf : blockno[b] = k /\ Shows(b, k) /\ Shows(b, k)'
           \/ /\ Content[k] = disk[k] /\ Content'[k] = disk'[k]
              /\ Holder[k] = NoProc /\ Holder'[k] = NoProc
              /\ \A b \in Buf : blockno[b] # k
<1>1. CASE Cached(k)
  BY <1>1, Zenon DEF View, Cached
<1>2. CASE ~Cached(k)
  <2>1. \A b \in Buf : blockno[b] # k
    BY <1>2, Zenon DEF Cached
  <2>2. ~Cached(k)'
    BY <2>1, Zenon DEF Cached
  <2> QED
    BY <1>2, <2>1, <2>2, Zenon DEF View
<1> QED
  BY <1>1, <1>2, Zenon

\* A function that differs from another in one place.
LEMMA Changes ==
    ASSUME NEW S, NEW F, NEW G, F = [k \in S |-> F[k]], G = [k \in S |-> G[k]],
           NEW k0, NEW x, \A k \in S : G[k] = IF k = k0 THEN x ELSE F[k]
    PROVE  G = [F EXCEPT ![k0] = x]
<1>1. [F EXCEPT ![k0] = x] = [k \in S |-> IF k = k0 THEN x ELSE F[k]]
  BY Zenon
<1> QED
  BY <1>1, Zenon

\* A change of the lock of a buffer is a change of the holder of its block.
LEMMA HolderChanges ==
    ASSUME BioInvariant, BioInvariant', UNCHANGED blockno, NEW b \in Buf,
           blockno[b] \in Block, NEW x, locked' = [locked EXCEPT ![b] = x]
    PROVE  /\ Holder[blockno[b]] = locked[b]
           /\ Holder' = [Holder EXCEPT ![blockno[b]] = x]
<1>1. View /\ View' /\ CacheInv /\ locked \in [Buf -> Proc \cup {NoProc}]
  BY Views, ViewsNext, Zenon DEF BioInvariant, Types
<1>2. Shows(b, blockno[b])
  BY <1>1, Zenon DEF View
<1>3. ASSUME NEW k \in Block
      PROVE  Holder'[k] = IF k = blockno[b] THEN x ELSE Holder[k]
  <2>1. CASE \E c \in Buf : blockno[c] = k /\ Shows(c, k) /\ Shows(c, k)'
    <3>1. PICK c \in Buf : blockno[c] = k /\ Shows(c, k) /\ Shows(c, k)'
      BY <2>1, Zenon
    <3>2. Holder[k] = locked[c] /\ Holder'[k] = locked'[c]
      BY <3>1, Zenon DEF Shows
    <3>3. k = blockno[b] <=> c = b
      BY <1>1, <3>1, Constants, Zenon DEF CacheInv
    <3>4. locked'[c] = IF c = b THEN x ELSE locked[c]
      BY <1>1, Zenon
    <3> QED
      BY <3>2, <3>3, <3>4, Zenon
  <2>2. CASE /\ Content[k] = disk[k] /\ Content'[k] = disk'[k]
             /\ Holder[k] = NoProc /\ Holder'[k] = NoProc
             /\ \A c \in Buf : blockno[c] # k
    BY <2>2, Zenon
  <2> QED
    BY <1>1, <2>1, <2>2, SamePlace, Zenon
<1>4. Holder' = [Holder EXCEPT ![blockno[b]] = x]
  BY <1>3, ViewIsFunction, Changes, Zenon
<1> QED
  BY <1>2, <1>4, Zenon DEF Shows

\* A change of the data of a buffer is a change of its block.
LEMMA ContentChanges ==
    ASSUME BioInvariant, BioInvariant', UNCHANGED <<blockno, disk>>, NEW b \in Buf,
           blockno[b] \in Block, NEW v, data' = [data EXCEPT ![b] = v],
           dirty' = dirty \cup {b}
    PROVE  Content' = [Content EXCEPT ![blockno[b]] = v]
<1>1. View /\ View' /\ CacheInv /\ data \in [Buf -> Value]
  BY Views, ViewsNext, Zenon DEF BioInvariant, Types
<1>3. ASSUME NEW k \in Block
      PROVE  Content'[k] = IF k = blockno[b] THEN v ELSE Content[k]
  <2>1. CASE \E c \in Buf : blockno[c] = k /\ Shows(c, k) /\ Shows(c, k)'
    <3>1. PICK c \in Buf : blockno[c] = k /\ Shows(c, k) /\ Shows(c, k)'
      BY <2>1, Zenon
    <3>2. /\ Content[k] = IF c \in dirty THEN data[c] ELSE disk[k]
          /\ Content'[k] = IF c \in dirty' THEN data'[c] ELSE disk'[k]
      BY <3>1, Zenon DEF Shows
    <3>3. k = blockno[b] <=> c = b
      BY <1>1, <3>1, Constants, Zenon DEF CacheInv
    <3>4. CASE c = b
      BY <1>1, <3>2, <3>3, <3>4, Zenon
    <3>5. CASE c # b
      BY <1>1, <3>2, <3>3, <3>5, Zenon
    <3> QED
      BY <3>4, <3>5, Zenon
  <2>2. CASE /\ Content[k] = disk[k] /\ Content'[k] = disk'[k]
             /\ Holder[k] = NoProc /\ Holder'[k] = NoProc
             /\ \A c \in Buf : blockno[c] # k
    BY <2>2, Zenon
  <2> QED
    BY <1>1, <2>1, <2>2, SamePlace, Zenon
<1> QED
  BY <1>3, ViewIsFunction, Changes, Zenon

\* A step that changes nothing the mapping shows.
LEMMA ContentStays ==
    ASSUME UNCHANGED <<blockno, valid, dirty, data, disk>>
    PROVE  Content' = Content
BY Zenon DEF Content, Cached, BufOf

\* The same for the locks.
LEMMA HolderStays ==
    ASSUME UNCHANGED <<blockno, locked>>
    PROVE  Holder' = Holder
BY Zenon DEF Holder, Cached, BufOf
\* bget() recycles a buffer that shows what is on the disk and is not locked.
LEMMA BgetMissView ==
    ASSUME BioInvariant, BioInvariant', NEW p \in Proc, NEW k0 \in Block, BgetMiss(p, k0)
    PROVE  Content' = Content /\ Holder' = Holder
<1>1. PICK b \in Buf : /\ Victim(b) /\ blockno' = [blockno EXCEPT ![b] = k0]
                       /\ valid' = valid \ {b} /\ dirty' = dirty \ {b}
  BY Zenon DEF BgetMiss
<1>2. ~Cached(k0) /\ UNCHANGED <<data, locked, disk>>
  BY Zenon DEF BgetMiss
<1>3. refcnt[b] = 0 /\ b \notin dirty
  BY <1>1, Zenon DEF Victim, Unused
<1>4. locked[b] = NoProc
  BY <1>3, NotInUse, Zenon
<1>5. View /\ View' /\ CacheInv /\ blockno \in [Buf -> Block \cup {NoBlock}]
  BY Views, ViewsNext, Zenon DEF BioInvariant, Types
<1>6. blockno'[b] = k0 /\ \A c \in Buf : c # b => blockno'[c] = blockno[c]
  BY <1>1, <1>5, Zenon
<1>7. \A c \in Buf : c # b => (c \in dirty' <=> c \in dirty)
  BY <1>1, Zenon
<1>8. ASSUME NEW k \in Block PROVE Content'[k] = Content[k] /\ Holder'[k] = Holder[k]
  <2>1. CASE k = k0
    <3>1. Shows(b, k)'
      BY <1>5, <1>6, <2>1, Zenon DEF View
    <3>2. Content'[k] = disk[k] /\ Holder'[k] = NoProc
      BY <1>1, <1>2, <1>4, <3>1, Zenon DEF Shows
    <3>3. Content[k] = disk[k] /\ Holder[k] = NoProc
      BY <1>2, <1>5, <2>1, Zenon DEF View
    <3> QED
      BY <3>2, <3>3, Zenon
  <2>2. CASE k # k0 /\ blockno[b] = k
    <3>1. Content[k] = disk[k] /\ Holder[k] = NoProc
      BY <1>3, <1>4, <1>5, <2>2, Zenon DEF View, Shows
    <3>2. \A c \in Buf : blockno'[c] # k
      BY <1>5, <1>6, <2>2, Constants, Zenon DEF CacheInv
    <3>3. ~Cached(k)'
      BY <3>2, Zenon DEF Cached
    <3>4. Content'[k] = disk'[k] /\ Holder'[k] = NoProc
      BY <1>5, <3>3, Zenon DEF View
    <3> QED
      BY <1>2, <3>1, <3>4, Zenon
  <2>3. CASE k # k0 /\ blockno[b] # k /\ Cached(k)
    <3>1. PICK c \in Buf : blockno[c] = k
      BY <2>3, Zenon DEF Cached
    <3>2. c # b /\ blockno'[c] = k
      BY <1>6, <2>3, <3>1, Zenon
    <3>3. Shows(c, k) /\ Shows(c, k)'
      BY <1>5, <3>1, <3>2, Zenon DEF View
    <3> QED
      BY <1>2, <1>7, <3>2, <3>3, Zenon DEF Shows
  <2>4. CASE k # k0 /\ blockno[b] # k /\ ~Cached(k)
    <3>1. ~Cached(k)'
      BY <1>6, <2>4, Zenon DEF Cached
    <3> QED
      BY <1>2, <1>5, <2>4, <3>1, Zenon DEF View
  <2> QED
    BY <2>1, <2>2, <2>3, <2>4, Zenon
<1> QED
  BY <1>8, ViewIsFunction, Zenon DEF Content, Holder

\* A request that completes moves what is written from the buffer to the disk,
\* or brings the disk into a buffer that showed it.
LEMMA IdeIntrView ==
    ASSUME BioInvariant, BioInvariant', ~DiskErrors, IdeIntr
    PROVE  Content' = Content /\ Holder' = Holder
<1>0. PICK b : b = Head(idequeue)
  BY Zenon
<1>1. /\ idequeue # << >> /\ dirty' = dirty \ {b} /\ UNCHANGED <<blockno, locked>>
      /\ \/ b \in dirty /\ disk' = [disk EXCEPT ![blockno[b]] = data[b]] /\ data' = data
         \/ b \notin dirty /\ data' = [data EXCEPT ![b] = disk[blockno[b]]] /\ disk' = disk
  BY <1>0, Zenon DEF IdeIntr
<1>2. /\ View /\ View' /\ CacheInv /\ DataInv /\ idequeue \in Seq(Buf) /\ Once(idequeue)
      /\ disk \in [Block -> Value] /\ data \in [Buf -> Value]
  BY Views, ViewsNext, Zenon DEF BioInvariant, Types, QueueInv
<1>3. b \in Buf
  BY <1>0, <1>1, <1>2, Tails, Zenon
<1>4. ASSUME NEW k \in Block PROVE Content'[k] = Content[k]
  <2>1. CASE \E c \in Buf : blockno[c] = k /\ Shows(c, k) /\ Shows(c, k)'
    <3>1. PICK c \in Buf : blockno[c] = k /\ Shows(c, k) /\ Shows(c, k)'
      BY <2>1, Zenon
    <3>2. /\ Content[k] = IF c \in dirty THEN data[c] ELSE disk[k]
          /\ Content'[k] = IF c \in dirty' THEN data'[c] ELSE disk'[k]
      BY <3>1, Zenon DEF Shows
    <3>3. CASE c = b
      <4>1. Content'[k] = disk'[k]
        BY <1>1, <3>2, <3>3, Zenon
      <4>2. CASE b \in dirty
        BY <1>1, <1>2, <3>1, <3>2, <3>3, <4>1, <4>2, Zenon
      <4>3. CASE b \notin dirty
        BY <1>1, <3>2, <3>3, <4>1, <4>3, Zenon
      <4> QED
        BY <4>2, <4>3, Zenon
    <3>4. CASE c # b
      <4>1. blockno[b] # k
        BY <1>2, <1>3, <3>1, <3>4, Constants, Zenon DEF CacheInv
      <4>2. data'[c] = data[c] /\ disk'[k] = disk[k]
        BY <1>1, <1>2, <3>4, <4>1, Zenon
      <4> QED
        BY <1>1, <3>2, <3>4, <4>2, Zenon
    <3> QED
      BY <3>3, <3>4, Zenon
  <2>2. CASE /\ Content[k] = disk[k] /\ Content'[k] = disk'[k]
             /\ \A c \in Buf : blockno[c] # k
    <3>1. disk'[k] = disk[k]
      BY <1>1, <1>2, <1>3, <2>2, Zenon
    <3> QED
      BY <2>2, <3>1, Zenon
  <2> QED
    BY <1>1, <1>2, <2>1, <2>2, SamePlace, Zenon
<1>5. Content' = Content
  BY <1>4, ViewIsFunction, Zenon DEF Content
<1>6. Holder' = Holder
  BY <1>1, HolderStays, Zenon
<1> QED
  BY <1>5, <1>6, Zenon
\* The invariant implies that bread() returned the block.
LEMMA BioTypes == BioInvariant => BreadReturnsBlock
<1> SUFFICES ASSUME BioInvariant PROVE BreadReturnsBlock
  OBVIOUS
<1>1. Types /\ ListInv /\ DataInv
  BY Zenon DEF BioInvariant
<1>2. mru \in Seq(Buf) /\ Len(mru) = NBUF
  BY <1>1, Constants DEF ListInv, Buf
<1>3. TypeOK
  BY <1>1, <1>2, Zenon DEF TypeOK, Types
<1>4. ASSUME NEW p \in Proc, pc[p] = "held", buf[p] \notin dirty
      PROVE  data[buf[p]] = disk[blockno[buf[p]]]
  <2>1. buf[p] \in valid
    BY <1>4, Zenon DEF BioInvariant, ProcInv
  <2> QED
    BY <1>1, <1>4, <2>1, Zenon DEF DataInv
<1> QED
  BY <1>3, <1>4, Zenon DEF BreadReturnsBlock

\* An empty cache shows the disk.
LEMMA ImplementsInit ==
    ASSUME Init
    PROVE  Store!Init
<1>1. /\ disk \in [Block -> Value] /\ valid = {} /\ dirty = {}
      /\ blockno = [b \in Buf |-> NoBlock] /\ locked = [b \in Buf |-> NoProc]
  BY Zenon DEF Init
<1>2. \A k \in Block : ~Cached(k)
  BY <1>1, Constants, Zenon DEF Cached
<1>3. Content \in [Block -> Value]
  BY <1>1, <1>2, Zenon DEF Content
<1>4. Holder = [k \in Block |-> NoProc]
  BY <1>2, Zenon DEF Holder
<1> QED
  BY <1>3, <1>4, Zenon DEF Store!Init

\* acquiresleep() is Acquire, a change of the data before bwrite() or log_write()
\* is Write, releasesleep() is Release, and the other steps are none.
LEMMA ImplementsAcquire ==
    ASSUME BioInvariant, BioInvariant', NEW p \in Proc, AcquireSleep(p)
    PROVE  Store!Next
<1>1. PICK b : b = buf[p]
  BY Zenon
<1>2. /\ pc[p] = "lock" /\ locked[b] = NoProc /\ locked' = [locked EXCEPT ![b] = p]
      /\ UNCHANGED <<blockno, valid, dirty, data, disk>>
  BY <1>1, Zenon DEF AcquireSleep
<1>3. b \in Buf /\ blockno[b] \in Block
  BY <1>1, <1>2, InUse, Zenon
<1>4. Holder[blockno[b]] = NoProc /\ Holder' = [Holder EXCEPT ![blockno[b]] = p]
  BY <1>2, <1>3, HolderChanges, Zenon
<1>5. Content' = Content
  BY <1>2, ContentStays, Zenon
<1>6. Store!Acquire(p, blockno[b])
  BY <1>4, <1>5, Zenon DEF Store!Acquire
<1> QED
  BY <1>3, <1>6, Zenon DEF Store!Next

\* The change of the data is Write.
LEMMA ImplementsWrite ==
    ASSUME BioInvariant, BioInvariant', NEW p \in Proc, NEW v \in Value,
           Bwrite(p, v) \/ LogWrite(p, v)
    PROVE  Store!Next
<1>1. PICK b : b = buf[p]
  BY Zenon
<1>2. /\ pc[p] = "held" /\ data' = [data EXCEPT ![b] = v] /\ dirty' = dirty \cup {b}
      /\ UNCHANGED <<blockno, locked, disk>>
  BY <1>1, Zenon DEF Bwrite, LogWrite
<1>3. pc[p] \in Holding
  BY <1>2, Zenon DEF Holding
<1>4. b \in Buf /\ blockno[b] \in Block /\ locked[b] = p
  BY <1>1, <1>3, Held, Zenon
<1>5. Content' = [Content EXCEPT ![blockno[b]] = v]
  BY <1>2, <1>4, ContentChanges, Zenon
<1>6. Holder[blockno[b]] = p
  BY <1>4, Views, Zenon DEF View, Shows
<1>7. Holder' = Holder
  BY <1>2, HolderStays, Zenon
<1>8. Store!Write(p, blockno[b], v)
  BY <1>5, <1>6, <1>7, Zenon DEF Store!Write
<1> QED
  BY <1>4, <1>8, Zenon DEF Store!Next

\* releasesleep() is Release.
LEMMA ImplementsRelease ==
    ASSUME BioInvariant, BioInvariant', NEW p \in Proc, ReleaseSleep(p)
    PROVE  Store!Next
<1>1. PICK b : b = buf[p]
  BY Zenon
<1>2. /\ pc[p] = "held" /\ locked' = [locked EXCEPT ![b] = NoProc]
      /\ UNCHANGED <<blockno, valid, dirty, data, disk>>
  BY <1>1, Zenon DEF ReleaseSleep
<1>3. pc[p] \in Holding
  BY <1>2, Zenon DEF Holding
<1>4. b \in Buf /\ blockno[b] \in Block /\ locked[b] = p
  BY <1>1, <1>3, Held, Zenon
<1>5. Holder[blockno[b]] = p /\ Holder' = [Holder EXCEPT ![blockno[b]] = NoProc]
  BY <1>2, <1>4, HolderChanges, Zenon
<1>6. Content' = Content
  BY <1>2, ContentStays, Zenon
<1>7. Store!Release(p, blockno[b])
  BY <1>5, <1>6, Zenon DEF Store!Release
<1> QED
  BY <1>4, <1>7, Zenon DEF Store!Next

\* Every step is a step of BlockStore or none.
LEMMA ImplementsNext ==
    ASSUME BioInvariant, BioInvariant', ~DiskErrors, [Next]_vars
    PROVE  [Store!Next]_(Store!vars)
<1>1. SUFFICES Store!Next \/ (Content' = Content /\ Holder' = Holder)
  BY Zenon DEF Store!vars
<1>2. ASSUME UNCHANGED <<blockno, valid, dirty, data, disk, locked>>
      PROVE  Content' = Content /\ Holder' = Holder
  BY <1>2, ContentStays, HolderStays, Zenon
<1>3. CASE \E p \in Proc, k \in Block : BgetHit(p, k) \/ BgetMiss(p, k)
  BY <1>2, <1>3, BgetMissView, Zenon DEF BgetHit
<1>4. CASE \E p \in Proc : AcquireSleep(p) \/ AcquireWait(p)
  BY <1>2, <1>4, ImplementsAcquire, Zenon DEF AcquireWait, bufVars
<1>5. CASE \E p \in Proc : Bread(p)
  BY <1>2, <1>5, Zenon DEF Bread, BreadHit, BreadMiss, IderwDone, bufVars
<1>6. CASE \E p \in Proc, v \in Value : Bwrite(p, v) \/ LogWrite(p, v)
  BY <1>6, ImplementsWrite, Zenon
<1>7. CASE \E p \in Proc : ReleaseSleep(p) \/ Brelse(p)
  BY <1>2, <1>7, ImplementsRelease, Zenon DEF Brelse
<1>8. CASE IdeIntr
  BY <1>8, IdeIntrView, Zenon
<1>9. CASE UNCHANGED vars
  BY <1>2, <1>9, Zenon DEF vars, bufVars
<1> QED
  BY <1>1, <1>3, <1>4, <1>5, <1>6, <1>7, <1>8, <1>9, Zenon DEF Next

\* bio.c with ide.c implements BlockStore, and bread() returns the block, when
\* no request fails.
THEOREM Implements ==
    ASSUME ~DiskErrors
    PROVE  Spec => StoreSpec
<1>1. Init => Store!Init
  BY ImplementsInit, Zenon
<1>2. BioInvariant /\ BioInvariant' /\ [Next]_vars => [Store!Next]_(Store!vars)
  BY ImplementsNext, Zenon
<1>3. BioInvariant => BreadReturnsBlock
  BY BioTypes, Zenon
<1> QED
  BY <1>1, <1>2, <1>3, BioInvariance, PTL DEF Spec, StoreSpec, Store!Spec
=============================================================================
