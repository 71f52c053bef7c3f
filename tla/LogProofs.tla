------------------------------ MODULE LogProofs -----------------------------
(***************************************************************************)
(* Proofs about Log, for every set of blocks, values and threads and every *)
(* size of the log: the inductive invariant of LogInv, the safety          *)
(* properties that follow from it, and that Log implements AtomicDisk.     *)
(***************************************************************************)
EXTENDS LogInv, FiniteSetTheorems, TLAPS

-----------------------------------------------------------------------------
(* Headers.                                                                *)

\* log absorption (log_write) keeps a header free of duplicates and adds at
\* most the one block it was given.
LEMMA AbsorbProperties ==
  ASSUME NEW b \in Block, lh \in Seq(Block)
  PROVE  /\ Absorb(b) \in Seq(Block)
         /\ NoDup(lh) => NoDup(Absorb(b))
         /\ Listed(Absorb(b)) = Listed(lh) \cup {b}
         /\ Len(Absorb(b)) = IF b \in Listed(lh) THEN Len(lh) ELSE Len(lh) + 1
<1>1. CASE b \in Listed(lh)
  BY <1>1, Zenon DEF Absorb
<1>2. CASE b \notin Listed(lh)
  <2>1. Absorb(b) = Append(lh, b)
    BY <1>2, Zenon DEF Absorb
  <2>2. /\ Append(lh, b) \in Seq(Block)
        /\ Len(Append(lh, b)) = Len(lh) + 1
        /\ \A i \in 1 .. Len(lh) : Append(lh, b)[i] = lh[i]
        /\ Append(lh, b)[Len(lh) + 1] = b
    OBVIOUS
  <2>3. Listed(Append(lh, b)) = Listed(lh) \cup {b}
    BY <2>2 DEF Listed
  <2>4. NoDup(lh) => NoDup(Append(lh, b))
    BY <1>2, <2>2 DEF NoDup, Listed
  <2> QED
    BY <1>2, <2>1, <2>2, <2>3, <2>4, Zenon
<1> QED
  BY <1>1, <1>2, Zenon

\* In a header without duplicates the last occurrence of its i-th block is i,
\* so recovery (install_trans) leaves the i-th log block there.
LEMMA LastAtUnique ==
  ASSUME NEW h \in Seq(Block), NoDup(h), NEW i \in 1 .. Len(h)
  PROVE  LastAt(h, h[i]) = i
<1> DEFINE P(k) == h[k] = h[i] /\ \A j \in k+1 .. Len(h) : h[j] # h[i]
<1>1. P(i)
  BY DEF NoDup
<1>2. \A k \in 1 .. Len(h) : P(k) => k = i
  BY Zenon DEF NoDup
<1> QED
  BY <1>1, <1>2, Zenon DEF LastAt

-----------------------------------------------------------------------------
(* Threads and log.outstanding.                                            *)

\* The set of operations in progress is finite, before and after a step.
LEMMA InOpFinite == IsFiniteSet(InOp) /\ IsFiniteSet(InOp')
  BY LogAssumption, FS_Subset, Zenon DEF InOp

\* What begin_op() and end_op() do to log.outstanding matches what they do to
\* the set of operations in progress.
LEMMA OutstandingStep ==
  ASSUME LogInvariant, Next
  PROVE  outstanding' = Cardinality(InOp')
<1> USE InOpFinite
<1>1. ASSUME NEW p \in Op, BeginOp(p)
      PROVE  outstanding' = Cardinality(InOp')
  <2>1. p \notin InOp /\ InOp' = InOp \cup {p}
    BY <1>1, Zenon DEF LogInvariant, TypeOK, BeginOp, InOp
  <2> QED
    BY <1>1, <2>1, FS_AddElement, Zenon DEF LogInvariant, ThreadInv, BeginOp
<1>2. ASSUME NEW p \in Op, EndOp(p)
      PROVE  outstanding' = Cardinality(InOp')
  <2>1. p \in InOp /\ InOp' = InOp \ {p}
    BY <1>2, Zenon DEF LogInvariant, TypeOK, EndOp, InOp, Wakeup
  <2> QED
    BY <1>2, <2>1, FS_RemoveElement, Zenon DEF LogInvariant, ThreadInv, EndOp, Ended
<1>3. CASE Crash
  <2>1. InOp' = {}
    BY <1>3, Zenon DEF Crash, InOp
  <2> QED
    BY <1>3, <2>1, FS_EmptySet, Zenon DEF Crash
<1>4. ASSUME NEW p \in Op,
             BeginSleep(p) \/ LogAppend(p) \/ Commits(p) \/ ReadHead(p)
      PROVE  outstanding' = Cardinality(InOp')
  <2>1. InOp' = InOp
    BY <1>4, Zenon DEF LogInvariant, TypeOK, BeginSleep, LogAppend, Commits,
       CommitNothing, WriteLog, WriteHead, InstallTrans, EraseLog, EndCommit,
       CommitWake, Wakeup, ReadHead, InOp
  <2> QED
    BY <1>4, <2>1, Zenon DEF LogInvariant, ThreadInv, BeginSleep, LogAppend, Commits,
       CommitNothing, WriteLog, WriteHead, InstallTrans, EraseLog, EndCommit, ReadHead
<1>5. ASSUME NEW p \in Op, NEW b \in Block, NEW v \in Value, LogWrite(p, b, v)
      PROVE  outstanding' = Cardinality(InOp')
  <2>1. InOp' = InOp
    BY <1>5 DEF LogWrite, InOp
  <2> QED
    BY <1>5, <2>1, Zenon DEF LogInvariant, ThreadInv, LogWrite
<1>6. ASSUME NEW b \in Block, Evict(b)
      PROVE  outstanding' = Cardinality(InOp')
  BY <1>6, Zenon DEF LogInvariant, ThreadInv, Evict, InOp
<1> QED
  BY <1>1, <1>2, <1>3, <1>4, <1>5, <1>6, Zenon DEF Next

\* The last of several operations to end, and it alone, starts to commit.
LEMMA LastToEnd ==
  ASSUME LogInvariant, NEW p \in Op, EndOp(p)
  PROVE  outstanding = 1 <=> \A q \in Op : pc[q] \in OpPC => q = p
<1>1. p \in InOp
  BY Zenon DEF EndOp, InOp
<1>2. outstanding = 1 <=> InOp = {p}
  BY <1>1, InOpFinite, FS_Singleton DEF LogInvariant, ThreadInv
<1> QED
  BY <1>1, <1>2, Zenon DEF InOp, OpPC

\* Every step keeps the threads where they may be together.
LEMMA ThreadStep ==
  ASSUME LogInvariant, Next
  PROVE  ThreadInv'
<1> USE OutstandingStep, LogAssumption
<1>1. ASSUME NEW p \in Op, BeginSleep(p) PROVE ThreadInv'
  BY <1>1 DEF LogInvariant, ThreadInv, OpPC, CommitPC, BootPC, Booted, BeginSleep
<1>2. ASSUME NEW p \in Op, BeginOp(p) PROVE ThreadInv'
  BY <1>2 DEF LogInvariant, ThreadInv, CommitPC, BootPC, Booted, BeginOp, MustWait
<1>3. ASSUME NEW p \in Op, NEW b \in Block, NEW v \in Value, LogWrite(p, b, v)
      PROVE  ThreadInv'
  BY <1>3 DEF LogInvariant, ThreadInv, OpPC, CommitPC, BootPC, Booted, LogWrite
<1>4. ASSUME NEW p \in Op, LogAppend(p) PROVE ThreadInv'
  BY <1>4 DEF LogInvariant, ThreadInv, OpPC, CommitPC, BootPC, Booted, LogAppend
<1>5. ASSUME NEW p \in Op, EndOp(p) PROVE ThreadInv'
  <2>1. outstanding = 1 <=> \A q \in Op : pc[q] \in OpPC => q = p
    BY <1>5, LastToEnd, Zenon
  <2>2. \A q \in Op : pc[q] \notin CommitPC
    BY <1>5, Zenon DEF LogInvariant, ThreadInv, OpPC, EndOp
  <2>3. CASE outstanding = 1
    <3>1. /\ pc' = [pc EXCEPT ![p] = "wlog"] /\ pc[p] = "op"
          /\ committing' = TRUE /\ tail' = tail
      BY <1>5, <2>3, Zenon DEF EndOp
    <3>2. \A q \in Op : pc'[q] = IF q = p THEN "wlog" ELSE pc[q]
      BY <3>1, Zenon DEF LogInvariant, TypeOK
    <3>3. \A q \in Op : pc[q] \notin BootPC
      BY <3>1, Zenon DEF LogInvariant, ThreadInv, BootPC, Booted
    <3>4. \A q \in Op : q # p => pc[q] \notin OpPC
      BY <2>1, <2>3, Zenon
    <3>5. /\ \A q \in Op : pc[q] \notin {"wlog", "inst", "recover"} => tail[q] = 0
          /\ outstanding' = Cardinality(InOp')
      BY Zenon DEF LogInvariant, ThreadInv
    <3> HIDE OutstandingStep
    <3> QED
      BY <2>2, <3>1, <3>2, <3>3, <3>4, <3>5 DEF ThreadInv, OpPC, CommitPC, BootPC,
         Booted
  <2>4. CASE outstanding # 1
    <3>1. pc' = [q \in Op |-> IF q = p THEN "idle" ELSE Wakeup(pc)[q]]
      BY <1>5, <2>4, Zenon DEF EndOp, Wakeup
    <3>2. \A q \in Op : pc'[q] \notin CommitPC /\ pc'[q] \notin BootPC
      BY <1>5, <2>2, <3>1, Zenon DEF LogInvariant, ThreadInv, CommitPC, BootPC, Booted, EndOp,
         Wakeup
    <3>3. ~committing /\ ~committing'
      BY <1>5, <2>2, <2>4, Zenon DEF LogInvariant, ThreadInv, EndOp
    <3> QED
      BY <1>5, <3>1, <3>2, <3>3, Zenon DEF LogInvariant, ThreadInv, Booted, EndOp, Wakeup
  <2> QED
    BY <2>3, <2>4, Zenon
<1>6. ASSUME NEW p \in Op, CommitNothing(p) PROVE ThreadInv'
  BY <1>6 DEF LogInvariant, ThreadInv, TypeOK, OpPC, CommitPC, BootPC, Booted,
     CommitNothing, DataInv
<1>7. ASSUME NEW p \in Op, WriteLog(p) PROVE ThreadInv'
  BY <1>7 DEF LogInvariant, ThreadInv, Booted, WriteLog
<1>8. ASSUME NEW p \in Op, WriteHead(p) PROVE ThreadInv'
  BY <1>8 DEF LogInvariant, ThreadInv, OpPC, CommitPC, BootPC, Booted, WriteHead
<1>9. ASSUME NEW p \in Op, InstallTrans(p) PROVE ThreadInv'
  BY <1>9 DEF LogInvariant, ThreadInv, Booted, InstallTrans
<1>10. ASSUME NEW p \in Op, EraseLog(p) PROVE ThreadInv'
  BY <1>10 DEF LogInvariant, ThreadInv, TypeOK, OpPC, CommitPC, BootPC, Booted,
     EraseLog
<1>11. ASSUME NEW p \in Op, EndCommit(p) PROVE ThreadInv'
  BY <1>11, Zenon DEF LogInvariant, ThreadInv, CommitPC, BootPC, Booted, EndCommit,
     CommitWake, Wakeup
<1>12. ASSUME NEW p \in Op, ReadHead(p) PROVE ThreadInv'
  BY <1>12 DEF LogInvariant, ThreadInv, CommitPC, BootPC, Booted, ReadHead
<1>13. ASSUME NEW b \in Block, Evict(b) PROVE ThreadInv'
  BY <1>13, Zenon DEF LogInvariant, ThreadInv, Booted, Evict
<1>14. CASE Crash
  BY <1>14, Zenon DEF ThreadInv, CommitPC, BootPC, Crash
<1> QED
  BY <1>1, <1>2, <1>3, <1>4, <1>5, <1>6, <1>7, <1>8, <1>9, <1>10, <1>11, <1>12, <1>13,
     <1>14, Zenon DEF Next, Commits

-----------------------------------------------------------------------------
(* Buffers and the blocks an operation has written.                        *)

\* Every step keeps the buffers passed to log_write() accounted for.
LEMMA BufStep ==
  ASSUME LogInvariant, Next
  PROVE  BufInv'
<1>1. ASSUME NEW p \in Op, BeginSleep(p) \/ BeginOp(p)
      PROVE  BufInv'
  <2>1. \A q \in Op : /\ pc'[q] = "append" <=> pc[q] = "append"
                      /\ pc[q] \in OpPC => pc'[q] \in OpPC
    BY <1>1, Zenon DEF LogInvariant, TypeOK, OpPC, BeginSleep, BeginOp
  <2>2. blk' = blk /\ wset' = wset
    BY <1>1, Zenon DEF BeginSleep, BeginOp
  <2> QED
    BY <2>1, <2>2, Zenon DEF LogInvariant, BufInv
<1>2. ASSUME NEW p \in Op, NEW b \in Block, NEW v \in Value, LogWrite(p, b, v)
      PROVE  BufInv'
  <2>1. /\ IsFiniteSet(wset[p] \cup {b})
        /\ Cardinality(wset[p] \cup {b}) <= OpBlocks
    BY <1>2, FS_AddElement, Zenon DEF LogInvariant, BufInv, LogWrite
  <2>2. \A q \in Op : IsFiniteSet(wset'[q]) /\ Cardinality(wset'[q]) <= OpBlocks
    BY <1>2, <2>1 DEF LogInvariant, BufInv, LogWrite
  <2> QED
    BY <1>2, <2>2, Zenon DEF LogInvariant, TypeOK, BufInv, OpPC, LogWrite
<1>3. ASSUME NEW p \in Op, LogAppend(p)
      PROVE  BufInv'
  BY <1>3, Zenon DEF LogInvariant, TypeOK, BufInv, OpPC, NoBlock, LogAppend
<1>4. ASSUME NEW p \in Op, EndOp(p)
      PROVE  BufInv'
  <2>1. \A q \in Op : pc'[q] = "append" <=> pc[q] = "append"
    BY <1>4, Zenon DEF LogInvariant, TypeOK, EndOp, Wakeup
  <2>2. \A q \in Op : pc'[q] \in OpPC <=> q # p /\ pc[q] \in OpPC
    BY <1>4, Zenon DEF LogInvariant, TypeOK, OpPC, EndOp, Wakeup
  <2>3. wset'[p] = {} /\ blk[p] = {}
    BY <1>4, Zenon DEF LogInvariant, TypeOK, BufInv, EndOp
  <2>4. OpBlocks \in Nat /\ IsFiniteSet({}) /\ Cardinality({}) = 0
    BY LogAssumption, FS_EmptySet, Zenon
  <2> QED
    BY <1>4, <2>1, <2>2, <2>3, <2>4 DEF LogInvariant, BufInv, EndOp
<1>5. ASSUME NEW p \in Op, Commits(p) \/ ReadHead(p)
      PROVE  BufInv'
  <2>1. \A q \in Op : /\ pc'[q] = "append" <=> pc[q] = "append"
                      /\ pc'[q] \in OpPC <=> pc[q] \in OpPC
    <3>1. pc \in [Op -> PCs]
      BY Zenon DEF LogInvariant, TypeOK
    <3> QED
      BY <1>5, <3>1, Zenon DEF OpPC, Commits, CommitNothing, WriteLog, WriteHead,
         InstallTrans, EraseLog, EndCommit, CommitWake, Wakeup, ReadHead
  <2>2. blk' = blk /\ wset' = wset
    BY <1>5, Zenon DEF Commits, CommitNothing, WriteLog, WriteHead, InstallTrans, EraseLog,
       EndCommit, ReadHead
  <2> QED
    BY <2>1, <2>2, Zenon DEF LogInvariant, BufInv
<1>6. ASSUME NEW b \in Block, Evict(b)
      PROVE  BufInv'
  BY <1>6, Zenon DEF LogInvariant, BufInv, Evict
<1>7. CASE Crash
  <2>1. OpBlocks \in Nat /\ IsFiniteSet({}) /\ Cardinality({}) = 0
    BY LogAssumption, FS_EmptySet, Zenon
  <2> QED
    BY <1>7, <2>1 DEF BufInv, NoBlock, Crash
<1> QED
  BY <1>1, <1>2, <1>3, <1>4, <1>5, <1>6, <1>7, Zenon DEF Next

-----------------------------------------------------------------------------
(* The space of the log.                                                   *)

\* An operation reserves MAXOPBLOCKS tokens.
LEMMA IntervalCardinality ==
  IsFiniteSet(1 .. MAXOPBLOCKS) /\ Cardinality(1 .. MAXOPBLOCKS) = MAXOPBLOCKS
<1>1. 1 \in Int /\ MAXOPBLOCKS \in Int
  BY LogAssumption
<1>2. /\ IsFiniteSet(1 .. MAXOPBLOCKS)
      /\ Cardinality(1 .. MAXOPBLOCKS)
           = IF 1 > MAXOPBLOCKS THEN 0 ELSE MAXOPBLOCKS - 1 + 1
  BY <1>1, FS_Interval, Zenon
<1> QED
  BY <1>2, LogAssumption

\* The reservations form a finite set, before and after a step.
LEMMA TokensFinite ==
  IsFiniteSet(Tokens) /\ IsFiniteSet(Tokens')
<1>1. IsFiniteSet(Op \X (1 .. MAXOPBLOCKS))
  BY IntervalCardinality, LogAssumption, FS_Product, Zenon
<1> QED
  BY <1>1, FS_Subset, Zenon DEF Tokens

\* Counting never exceeds the number of blocks of the operation.
LEMMA UsedBound ==
  ASSUME BufInv, NEW p \in Op
  PROVE  Used(p) \in Nat /\ Used(p) <= Cardinality(wset[p])
           /\ Cardinality(wset[p]) \in Nat
  BY FS_Intersection, FS_CardinalityType, Zenon DEF Used, BufInv

\* A block that log_write() lists newly takes one of its operation's tokens
\* and gives nobody a new one.
LEMMA AppendTakesToken ==
  ASSUME LogInvariant, NEW p \in Op, LogAppend(p), lh' # lh
  PROVE  /\ Len(lh') = Len(lh) + 1
         /\ Cardinality(Tokens') <= Cardinality(Tokens) - 1
<1>1. PICK b \in blk[p] : lh' = Absorb(b)
  BY Zenon DEF LogAppend
<1>2. b \in Block /\ b \in wset[p] /\ b \notin Listed(lh)
  BY <1>1, Zenon DEF LogInvariant, BufInv, Absorb
<1>3. Len(lh') = Len(lh) + 1 /\ Listed(lh') = Listed(lh) \cup {b}
  BY <1>1, <1>2, AbsorbProperties, Zenon DEF LogInvariant, TypeOK
<1>4. \A q \in Op : Used(q) \in Nat /\ Used(q)' \in Nat /\ Used(q) <= Used(q)'
  <2> TAKE q \in Op
  <2>1. wset'[q] = wset[q]
    BY Zenon DEF LogAppend
  <2>2. IsFiniteSet(wset[q] \cap Listed(lh'))
    BY FS_Intersection, Zenon DEF LogInvariant, BufInv
  <2>3. wset[q] \cap Listed(lh) \subseteq wset[q] \cap Listed(lh')
    BY <1>3, Zenon
  <2> QED
    BY <2>1, <2>2, <2>3, FS_Subset, FS_CardinalityType, Zenon DEF Used
<1>5. Used(p)' = Used(p) + 1
  <2>1. wset'[p] \cap Listed(lh') = (wset[p] \cap Listed(lh)) \cup {b}
    BY <1>2, <1>3, Zenon DEF LogAppend
  <2>2. IsFiniteSet(wset[p] \cap Listed(lh))
    BY FS_Intersection, Zenon DEF LogInvariant, BufInv
  <2> QED
    BY <1>2, <2>1, <2>2, FS_AddElement, Zenon DEF Used
<1>6. Used(p) + 1 <= MAXOPBLOCKS
  <2>1. wset'[p] = wset[p]
    BY Zenon DEF LogAppend
  <2>2. Used(p)' <= Cardinality(wset[p])
    BY <2>1, FS_Intersection, Zenon DEF LogInvariant, BufInv, Used
  <2> QED
    BY <1>4, <1>5, <2>2, UsedBound, LogAssumption DEF LogInvariant, BufInv
<1> DEFINE t == <<p, Used(p) + 1>>
<1>7. t \in Tokens
  BY <1>4, <1>6 DEF Tokens, LogAppend, OpPC
<1>8. t \notin Tokens'
  BY <1>4, <1>5 DEF Tokens
<1>9. Tokens' \subseteq Tokens
  <2> SUFFICES ASSUME NEW u \in Tokens' PROVE u \in Tokens
    BY Zenon
  <2>1. u \in Op \X (1 .. MAXOPBLOCKS) /\ pc'[u[1]] \in OpPC /\ u[2] > Used(u[1])'
    BY Zenon DEF Tokens
  <2>2. pc[u[1]] \in OpPC
    BY <2>1 DEF LogAppend, OpPC
  <2>3. u[2] > Used(u[1])
    BY <2>1, <1>4
  <2> QED
    BY <2>1, <2>2, <2>3, Zenon DEF Tokens
<1> HIDE DEF t
<1>10. Tokens' \subseteq Tokens \ {t}
  BY <1>8, <1>9, Zenon
<1>11. IsFiniteSet(Tokens \ {t}) /\ Cardinality(Tokens \ {t}) = Cardinality(Tokens) - 1
  BY <1>7, TokensFinite, FS_RemoveElement, Zenon
<1> QED
  BY <1>3, <1>10, <1>11, FS_Subset

\* A step that starts no operation and lists no new block frees no token.
LEMMA TokensShrink ==
  ASSUME LogInvariant, lh' = lh,
         \A q \in Op : pc'[q] \in OpPC => pc[q] \in OpPC /\ wset[q] \subseteq wset'[q],
         BufInv'
  PROVE  Cardinality(Tokens') <= Cardinality(Tokens)
<1>1. \A q \in Op : pc'[q] \in OpPC =>
        Used(q) \in Nat /\ Used(q)' \in Nat /\ Used(q) <= Used(q)'
  <2> SUFFICES ASSUME NEW q \in Op, pc'[q] \in OpPC
               PROVE  Used(q) \in Nat /\ Used(q)' \in Nat /\ Used(q) <= Used(q)'
    BY Zenon
  <2>1. wset[q] \cap Listed(lh) \subseteq wset'[q] \cap Listed(lh')
    BY Zenon
  <2>2. IsFiniteSet(wset'[q] \cap Listed(lh'))
    BY FS_Intersection, Zenon DEF BufInv
  <2> QED
    BY <2>1, <2>2, FS_Subset, FS_CardinalityType, Zenon DEF Used
<1>2. Tokens' \subseteq Tokens
  <2> SUFFICES ASSUME NEW u \in Tokens' PROVE u \in Tokens
    BY Zenon
  <2>1. u \in Op \X (1 .. MAXOPBLOCKS) /\ pc'[u[1]] \in OpPC /\ u[2] > Used(u[1])'
    BY Zenon DEF Tokens
  <2>2. pc[u[1]] \in OpPC /\ u[2] > Used(u[1])
    BY <2>1, <1>1
  <2> QED
    BY <2>1, <2>2, Zenon DEF Tokens
<1> QED
  BY <1>2, TokensFinite, FS_Subset, Zenon

\* begin_op() lets an operation in only when all tokens then outstanding fit.
LEMMA BeginReserves ==
  ASSUME LogInvariant, NEW p \in Op, BeginOp(p), Next
  PROVE  Len(lh') + Cardinality(Tokens') <= LOGSIZE
<1>1. outstanding' = outstanding + 1 /\ lh' = lh
  BY Zenon DEF BeginOp
<1>2. Len(lh) + (outstanding + 1) * MAXOPBLOCKS <= LOGSIZE
  BY LogAssumption DEF BeginOp, MustWait, Reserved
<1>3. Tokens' \subseteq InOp' \X (1 .. MAXOPBLOCKS)
  BY Zenon DEF Tokens, InOp, OpPC
<1>4. IsFiniteSet(InOp') /\ Cardinality(InOp') = outstanding + 1
  BY <1>1, InOpFinite, OutstandingStep, Zenon
<1>5. /\ IsFiniteSet(InOp' \X (1 .. MAXOPBLOCKS))
      /\ Cardinality(InOp' \X (1 .. MAXOPBLOCKS)) = (outstanding + 1) * MAXOPBLOCKS
  <2>1. /\ IsFiniteSet(InOp' \X (1 .. MAXOPBLOCKS))
        /\ Cardinality(InOp' \X (1 .. MAXOPBLOCKS))
             = Cardinality(InOp') * Cardinality(1 .. MAXOPBLOCKS)
    BY <1>4, IntervalCardinality, FS_Product, Zenon
  <2> QED
    BY <1>4, <2>1, IntervalCardinality, Zenon
<1>6. Cardinality(Tokens') <= (outstanding + 1) * MAXOPBLOCKS
  BY <1>3, <1>5, FS_Subset
<1>7. Cardinality(Tokens') \in Nat /\ (outstanding + 1) * MAXOPBLOCKS \in Nat
  BY <1>5, TokensFinite, FS_CardinalityType, Zenon
<1> QED
  BY <1>1, <1>2, <1>6, <1>7, LogAssumption

\* The log never holds more than its reservations allow.
LEMMA SpaceStep ==
  ASSUME LogInvariant, Next
  PROVE  SpaceInv'
<1>a. /\ Cardinality(Tokens) \in Nat /\ Cardinality(Tokens') \in Nat
      /\ LOGSIZE \in Nat /\ Len(lh) \in Nat
  BY TokensFinite, FS_CardinalityType, LogAssumption
<1>b. ASSUME lh' = lh, Cardinality(Tokens') <= Cardinality(Tokens)
      PROVE  SpaceInv'
  BY <1>a, <1>b DEF LogInvariant, SpaceInv
<1>c. ASSUME \A q \in Op : pc'[q] \notin OpPC, Len(lh') \in Nat, Len(lh') <= LOGSIZE
      PROVE  SpaceInv'
  <2>1. Tokens' = {}
    BY <1>c, Zenon DEF Tokens
  <2> QED
    BY <1>a, <1>c, <2>1, FS_EmptySet DEF SpaceInv
<1>1. ASSUME NEW p \in Op, BeginOp(p) PROVE SpaceInv'
  BY <1>1, BeginReserves, Zenon DEF SpaceInv
<1>2. ASSUME NEW p \in Op, LogAppend(p) PROVE SpaceInv'
  <2>1. CASE lh' = lh
    <3>1. \A q \in Op : pc'[q] \in OpPC => pc[q] \in OpPC /\ wset[q] \subseteq wset'[q]
      BY <1>2 DEF LogAppend, OpPC
    <3> QED
      BY <1>b, <2>1, <3>1, TokensShrink, BufStep, Zenon
  <2>2. CASE lh' # lh
    <3>1. /\ Len(lh') = Len(lh) + 1
          /\ Cardinality(Tokens') <= Cardinality(Tokens) - 1
      BY <1>2, <2>2, AppendTakesToken, Zenon
    <3> QED
      BY <1>a, <3>1 DEF LogInvariant, SpaceInv
  <2> QED
    BY <2>1, <2>2, Zenon
<1>3. ASSUME NEW p \in Op, EraseLog(p) PROVE SpaceInv'
  <2>1. \A q \in Op : pc'[q] \notin OpPC
    BY <1>3 DEF LogInvariant, EraseLog, ThreadInv, OpPC, CommitPC, BootPC, Booted
  <2>2. Len(lh') = 0
    BY <1>3, Zenon DEF EraseLog
  <2> QED
    BY <1>a, <1>c, <2>1, <2>2
<1>4. ASSUME NEW p \in Op, ReadHead(p) PROVE SpaceInv'
  <2>1. \A q \in Op : pc'[q] \notin OpPC
    BY <1>4 DEF LogInvariant, ReadHead, ThreadInv, OpPC, BootPC, Booted
  <2> QED
    BY <1>4, <1>c, <2>1 DEF LogInvariant, TypeOK, ReadHead
<1>5. CASE Crash
  <2>1. \A q \in Op : pc'[q] \notin OpPC
    BY <1>5, Zenon DEF Crash, OpPC
  <2>2. Len(lh') = 0
    BY <1>5, Zenon DEF Crash
  <2> QED
    BY <1>a, <1>c, <2>1, <2>2
<1>6. ASSUME NEW p \in Op,
             BeginSleep(p) \/ EndOp(p) \/ CommitNothing(p) \/ WriteLog(p)
               \/ WriteHead(p) \/ InstallTrans(p) \/ EndCommit(p)
      PROVE SpaceInv'
  <2>1. lh' = lh
    BY <1>6, Zenon DEF BeginSleep, EndOp, CommitNothing, WriteLog, WriteHead, InstallTrans,
       EndCommit
  <2>2. \A q \in Op : pc'[q] \in OpPC => pc[q] \in OpPC /\ wset[q] \subseteq wset'[q]
    BY <1>6, Zenon DEF LogInvariant, TypeOK, BeginSleep, EndOp, CommitNothing,
       WriteLog, WriteHead, InstallTrans, EndCommit, Wakeup, CommitWake, OpPC
  <2> QED
    BY <1>b, <2>1, <2>2, TokensShrink, BufStep, Zenon
<1>7. ASSUME NEW p \in Op, NEW b \in Block, NEW v \in Value, LogWrite(p, b, v)
      PROVE  SpaceInv'
  <2>1. \A q \in Op : pc'[q] \in OpPC => pc[q] \in OpPC /\ wset[q] \subseteq wset'[q]
    BY <1>7 DEF LogWrite, OpPC
  <2> QED
    BY <1>7, <1>b, <2>1, TokensShrink, BufStep, Zenon DEF LogWrite
<1>8. ASSUME NEW b \in Block, Evict(b) PROVE SpaceInv'
  <2>1. \A q \in Op : pc'[q] \in OpPC => pc[q] \in OpPC /\ wset[q] \subseteq wset'[q]
    BY <1>8, Zenon DEF Evict
  <2> QED
    BY <1>8, <1>b, <2>1, TokensShrink, BufStep, Zenon DEF Evict
<1> QED
  BY <1>1, <1>2, <1>3, <1>4, <1>5, <1>6, <1>7, <1>8, Zenon DEF Next, Commits

-----------------------------------------------------------------------------
(* Types, headers and contents.                                            *)

\* Every step keeps the variables in their C types.
LEMMA TypeStep ==
  ASSUME LogInvariant, Next
  PROVE  TypeOK'
<1>0. Len(lh') \in Nat => Len(lh') <= LOGSIZE
  BY SpaceStep, TokensFinite, FS_CardinalityType, LogAssumption DEF SpaceInv
<1>1. ASSUME NEW p \in Op, BeginSleep(p) \/ BeginOp(p) PROVE TypeOK'
  BY <1>1 DEF LogInvariant, TypeOK, PCs, BeginSleep, BeginOp, diskVars
<1>2. ASSUME NEW p \in Op, NEW b \in Block, NEW v \in Value, LogWrite(p, b, v)
      PROVE  TypeOK'
  BY <1>2, Zenon DEF LogInvariant, TypeOK, PCs, LogWrite, diskVars
<1>3. ASSUME NEW p \in Op, LogAppend(p) PROVE TypeOK'
  <2>1. PICK b \in blk[p] : lh' = Absorb(b) /\ dirty' = Pin(b)
    BY <1>3, Zenon DEF LogAppend
  <2>2. b \in Block /\ lh' \in Seq(Block) /\ Len(lh') <= LOGSIZE
    BY <1>0, <2>1, AbsorbProperties DEF LogInvariant, TypeOK
  <2> QED
    BY <1>3, <2>1, <2>2, Zenon DEF LogInvariant, TypeOK, PCs, NoBlock, LogAppend, Pin,
       diskVars
<1>4. ASSUME NEW p \in Op, EndOp(p) PROVE TypeOK'
  <2>1. outstanding \in Nat \ {0}
    <3>1. InOp # {} /\ outstanding = Cardinality(InOp)
      BY <1>4, Zenon DEF LogInvariant, EndOp, InOp, ThreadInv
    <3> QED
      BY <3>1, InOpFinite, FS_EmptySet, Zenon DEF LogInvariant, TypeOK
  <2>2. Wakeup(pc) \in [Op -> PCs]
    BY Zenon DEF LogInvariant, TypeOK, PCs, Wakeup
  <2>3. pc' \in [Op -> PCs] /\ committing' \in BOOLEAN
    BY <1>4, <2>2, Zenon DEF LogInvariant, TypeOK, PCs, EndOp
  <2>4. outstanding' \in Nat /\ wset' \in [Op -> SUBSET Block]
    BY <1>4, <2>1 DEF LogInvariant, TypeOK, EndOp, Ended
  <2> QED
    BY <1>4, <2>3, <2>4, Zenon DEF LogInvariant, TypeOK, EndOp, diskVars
<1>5. ASSUME NEW p \in Op, CommitNothing(p) \/ WriteHead(p) \/ ReadHead(p)
      PROVE  TypeOK'
  <2>1. CASE CommitNothing(p)
    BY <2>1, Zenon DEF LogInvariant, TypeOK, PCs, CommitNothing, diskVars
  <2>2. CASE WriteHead(p)
    BY <2>2, Zenon DEF LogInvariant, TypeOK, PCs, WriteHead
  <2>3. CASE ReadHead(p)
    BY <2>3, Zenon DEF LogInvariant, TypeOK, PCs, ReadHead, diskVars
  <2> QED
    BY <1>5, <2>1, <2>2, <2>3, Zenon
<1>5a. ASSUME NEW p \in Op, EraseLog(p) PROVE TypeOK'
  <2>1. << >> \in Seq(Block) /\ Len(<< >>) <= LOGSIZE
    BY LogAssumption
  <2> QED
    BY <1>5a, <2>1, Zenon DEF LogInvariant, TypeOK, PCs, EraseLog
<1>5b. ASSUME NEW p \in Op, EndCommit(p) PROVE TypeOK'
  <2>1. Wakeup(pc) \in [Op -> PCs]
    BY Zenon DEF LogInvariant, TypeOK, PCs, Wakeup
  <2> QED
    BY <1>5b, <2>1, Zenon DEF LogInvariant, TypeOK, PCs, EndCommit, CommitWake,
       diskVars
<1>6. ASSUME NEW p \in Op, WriteLog(p) \/ InstallTrans(p) PROVE TypeOK'
  <2>1. tail[p] + 1 \in 1 .. LOGSIZE /\ tail[p] + 1 \in 1 .. Len(lh)
    BY <1>6, LogAssumption DEF LogInvariant, TypeOK, WriteLog, InstallTrans
  <2>2. lh[tail[p] + 1] \in Block /\ logd[tail[p] + 1] \in Value
    BY <2>1 DEF LogInvariant, TypeOK
  <2>3. CASE WriteLog(p)
    BY <2>1, <2>2, <2>3 DEF LogInvariant, TypeOK, WriteLog
  <2>4. CASE InstallTrans(p)
    BY <2>1, <2>2, <2>4 DEF LogInvariant, TypeOK, InstallTrans
  <2> QED
    BY <1>6, <2>3, <2>4, Zenon
<1>7. ASSUME NEW b \in Block, Evict(b) PROVE TypeOK'
  BY <1>7, Zenon DEF LogInvariant, TypeOK, Evict, diskVars
<1>8. CASE Crash
  <2>1. << >> \in Seq(Block) /\ Len(<< >>) <= LOGSIZE
    BY LogAssumption
  <2> QED
    BY <1>8, <2>1, Zenon DEF LogInvariant, TypeOK, PCs, NoBlock, Crash, diskVars
<1> QED
  BY <1>1, <1>2, <1>3, <1>4, <1>5, <1>5a, <1>5b, <1>6, <1>7, <1>8, Zenon DEF Next, Commits

\* Every step keeps the headers in memory and on disk related as the phase of
\* the commit or of the recovery says.
LEMMA HeaderStep ==
  ASSUME LogInvariant, Next
  PROVE  HeaderInv'
<1>1. ASSUME NEW p \in Op, BeginSleep(p) \/ BeginOp(p) PROVE HeaderInv'
  BY <1>1, LogAssumption, Zenon DEF LogInvariant, TypeOK, HeaderInv, OpPC, CommitPC, BootPC,
     BeginSleep, BeginOp, diskVars
<1>2. ASSUME NEW p \in Op, NEW b \in Block, NEW v \in Value, LogWrite(p, b, v)
      PROVE  HeaderInv'
  BY <1>2 DEF LogInvariant, HeaderInv, OpPC, LogWrite, diskVars
<1>3. ASSUME NEW p \in Op, LogAppend(p) PROVE HeaderInv'
  <2>1. PICK b \in blk[p] : lh' = Absorb(b)
    BY <1>3, Zenon DEF LogAppend
  <2>2. NoDup(lh')
    BY <2>1, AbsorbProperties, Zenon DEF LogInvariant, TypeOK, HeaderInv
  <2> QED
    BY <1>3, <2>2, LogAssumption DEF LogInvariant, HeaderInv, ThreadInv, Booted, OpPC,
       CommitPC, BootPC, LogAppend, diskVars
<1>4. ASSUME NEW p \in Op, EndOp(p) PROVE HeaderInv'
  <2>1. outstanding = 1 <=> \A q \in Op : pc[q] \in OpPC => q = p
    BY <1>4, LastToEnd, Zenon
  <2>2. lh' = lh /\ hdr' = hdr
    BY <1>4, Zenon DEF EndOp, diskVars
  <2>3. CASE outstanding = 1
    BY <1>4, <2>2, <2>3, LogAssumption, Zenon DEF LogInvariant, TypeOK, HeaderInv, CommitPC,
       EndOp
  <2>4. CASE outstanding # 1
    <3>1. pc' = [q \in Op |-> IF q = p THEN "idle" ELSE Wakeup(pc)[q]]
      BY <1>4, <2>4, Zenon DEF EndOp, Wakeup
    <3>2. PICK q \in Op : q # p /\ pc[q] \in OpPC
      BY <2>1, <2>4, Zenon
    <3>3. pc'[q] \in OpPC
      BY <3>1, <3>2, Zenon DEF OpPC, Wakeup
    <3> QED
      BY <1>4, <2>2, <3>1, <3>3, LogAssumption, Zenon DEF LogInvariant, HeaderInv, EndOp,
         Wakeup
  <2> QED
    BY <2>3, <2>4, Zenon
<1>5. ASSUME NEW p \in Op, CommitNothing(p) PROVE HeaderInv'
  BY <1>5, LogAssumption DEF LogInvariant, HeaderInv, CommitNothing, diskVars
<1>6. ASSUME NEW p \in Op, WriteLog(p) \/ InstallTrans(p) PROVE HeaderInv'
  BY <1>6, Zenon DEF LogInvariant, HeaderInv, WriteLog, InstallTrans
<1>7. ASSUME NEW p \in Op, WriteHead(p) PROVE HeaderInv'
  BY <1>7, Zenon DEF LogInvariant, TypeOK, HeaderInv, CommitPC, WriteHead
<1>8. ASSUME NEW p \in Op, EraseLog(p) PROVE HeaderInv'
  BY <1>8 DEF HeaderInv, EraseLog, NoDup
<1>9. ASSUME NEW p \in Op, EndCommit(p) PROVE HeaderInv'
  <2>1. pc' = [q \in Op |-> IF q = p THEN "idle" ELSE Wakeup(pc)[q]]
    BY <1>9, Zenon DEF EndCommit, CommitWake, Wakeup
  <2> QED
    BY <1>9, <2>1, LogAssumption, Zenon DEF LogInvariant, HeaderInv, EndCommit, Wakeup,
       diskVars
<1>10. ASSUME NEW p \in Op, ReadHead(p) PROVE HeaderInv'
  BY <1>10, Zenon DEF LogInvariant, TypeOK, HeaderInv, ThreadInv, Booted, BootPC, ReadHead,
     diskVars
<1>11. ASSUME NEW b \in Block, Evict(b) PROVE HeaderInv'
  BY <1>11, Zenon DEF LogInvariant, HeaderInv, Evict, diskVars
<1>12. CASE Crash
  BY <1>12, LogAssumption DEF LogInvariant, HeaderInv, Crash, diskVars, NoDup
<1> QED
  BY <1>1, <1>2, <1>3, <1>4, <1>5, <1>6, <1>7, <1>8, <1>9, <1>10, <1>11, <1>12, Zenon DEF
     Next, Commits

\* A step that touches none of the data keeps DataInv, if no thread starts to
\* copy.
LEMMA DataFrame ==
  ASSUME DataInv,
         \A q \in Op : pc'[q] \in {"wlog", "inst", "recover"} => pc'[q] = pc[q],
         ~Booted' => ~Booted,
         UNCHANGED <<disk, logd, cache, dirty, lh, tail, blk>>
  PROVE  DataInv'
<1>1. ASSUME NEW q \in Op, pc'[q] = "wlog"
      PROVE  /\ tail'[q] <= Len(lh')
             /\ \A i \in 1 .. tail'[q] : logd'[i] = cache'[lh'[i]]
  BY <1>1 DEF DataInv
<1>2. ASSUME NEW q \in Op, pc'[q] = "inst"
      PROVE  \A i \in 1 .. Len(lh') : logd'[i] = cache'[lh'[i]]
  BY <1>2, Zenon DEF DataInv
<1>3. ASSUME NEW q \in Op, pc'[q] \in {"inst", "recover"}
      PROVE  /\ tail'[q] <= Len(lh')
             /\ \A i \in 1 .. tail'[q] : disk'[lh'[i]] = logd'[i]
  BY <1>3, Zenon DEF DataInv
<1>4. ~Booted' => cache' = disk'
  BY Zenon DEF DataInv
<1>5. ASSUME NEW b \in Block, cache'[b] # disk'[b]
      PROVE  \/ \E q \in Op : b \in blk'[q]
             \/ b \in dirty' /\ b \in Listed(lh')
  BY <1>5, Zenon DEF DataInv
<1> QED
  BY <1>1, <1>2, <1>3, <1>4, <1>5, Zenon DEF DataInv

\* After a step DataInv holds if nobody is copying and every unsaved block is
\* accounted for.
LEMMA DataQuiet ==
  ASSUME \A q \in Op : pc'[q] \notin {"wlog", "inst", "recover"},
         ~Booted' => cache' = disk',
         \A b \in Block : cache'[b] # disk'[b] =>
            \/ \E q \in Op : b \in blk'[q]
            \/ b \in dirty' /\ b \in Listed(lh')
  PROVE  DataInv'
BY Zenon DEF DataInv

\* Every step keeps the copies of write_log and install_trans right as far as
\* they have got, and every unsaved block pinned and listed.
LEMMA DataStep ==
  ASSUME LogInvariant, Next
  PROVE  DataInv'
<1>1. ASSUME NEW p \in Op, BeginSleep(p) \/ BeginOp(p) PROVE DataInv'
  <2>0. pc \in [Op -> PCs] /\ DataInv
    BY Zenon DEF LogInvariant, TypeOK
  <2>1. \A q \in Op : pc'[q] \in CommitPC \cup BootPC => pc'[q] = pc[q]
    BY <1>1, <2>0, Zenon DEF CommitPC, BootPC, BeginSleep, BeginOp
  <2>2. Booted /\ Booted'
    BY <1>1, <2>0, LogAssumption, Zenon DEF Booted, BeginSleep, BeginOp
  <2>3. UNCHANGED <<disk, logd, cache, dirty, lh, tail, blk>>
    BY <1>1, Zenon DEF BeginSleep, BeginOp, diskVars
  <2>4. \A q \in Op : pc'[q] \in {"wlog", "inst", "recover"} => pc'[q] = pc[q]
    BY <2>1, Zenon DEF CommitPC, BootPC
  <2> QED
    BY <2>0, <2>2, <2>3, <2>4, DataFrame, Zenon
<1>2. ASSUME NEW p \in Op, NEW b \in Block, NEW v \in Value, LogWrite(p, b, v)
      PROVE  DataInv'
  <2>1. /\ \A q \in Op : pc'[q] \notin {"wlog", "inst", "recover", "boot"}
        /\ Booted'
    BY <1>2, LogAssumption DEF LogInvariant, ThreadInv, Booted, OpPC, CommitPC, BootPC,
       LogWrite
  <2>2. ASSUME NEW c \in Block, cache'[c] # disk'[c]
        PROVE  \/ \E q \in Op : c \in blk'[q]
               \/ c \in dirty' /\ c \in Listed(lh')
    <3>1. CASE c = b
      BY <1>2, <3>1, Zenon DEF LogInvariant, TypeOK, LogWrite
    <3>2. CASE c # b
      BY <1>2, <2>2, <3>2 DEF LogInvariant, DataInv, LogWrite, diskVars, BufInv
    <3> QED
      BY <3>1, <3>2, Zenon
  <2> QED
    BY <2>1, <2>2, DataQuiet, Zenon
<1>3. ASSUME NEW p \in Op, LogAppend(p) PROVE DataInv'
  <2>1. PICK b \in blk[p] : lh' = Absorb(b) /\ dirty' = Pin(b)
    BY <1>3, Zenon DEF LogAppend
  <2>2. Listed(lh') = Listed(lh) \cup {b} /\ blk[p] = {b}
    BY <1>3, <2>1, AbsorbProperties DEF LogInvariant, TypeOK, LogAppend, BufInv
  <2>3. /\ \A q \in Op : pc'[q] \notin {"wlog", "inst", "recover", "boot"}
        /\ Booted'
    BY <1>3, LogAssumption DEF LogInvariant, ThreadInv, Booted, OpPC, CommitPC, BootPC,
       LogAppend
  <2>4. ASSUME NEW c \in Block, cache'[c] # disk'[c]
        PROVE  \/ \E q \in Op : c \in blk'[q]
               \/ c \in dirty' /\ c \in Listed(lh')
    BY <1>3, <2>1, <2>2, <2>4 DEF LogInvariant, DataInv, LogAppend, Pin, diskVars
  <2> QED
    BY <2>3, <2>4, DataQuiet, Zenon
<1>4. ASSUME NEW p \in Op, EndOp(p) PROVE DataInv'
  <2>1. \A q \in Op : /\ pc'[q] \notin {"inst", "recover", "boot"}
                      /\ pc'[q] = "wlog" => tail[q] = 0
    <3>1. pc[p] = "op" /\ tail[p] = 0
      BY <1>4, Zenon DEF LogInvariant, ThreadInv, EndOp
    <3>2. \A q \in Op : pc[q] \notin CommitPC \cup BootPC
      BY <3>1, LogAssumption, Zenon DEF LogInvariant, ThreadInv, Booted, OpPC, BootPC
    <3>3. \A q \in Op : pc'[q] \in CommitPC \cup BootPC => q = p /\ pc'[q] = "wlog"
      <4>1. CASE outstanding = 1
        BY <1>4, <3>2, <4>1, Zenon DEF LogInvariant, TypeOK, EndOp
      <4>2. CASE outstanding # 1
        <5>1. pc' = [q \in Op |-> IF q = p THEN "idle" ELSE Wakeup(pc)[q]]
          BY <1>4, <4>2, Zenon DEF EndOp, Wakeup
        <5> QED
          BY <3>2, <5>1, Zenon DEF CommitPC, BootPC, Wakeup
      <4> QED
        BY <4>1, <4>2, Zenon
    <3> QED
      BY <3>1, <3>3, Zenon DEF CommitPC, BootPC
  <2>2. Booted'
    BY <2>1, LogAssumption, Zenon DEF Booted
  <2> QED
    BY <1>4, <2>1, <2>2 DEF LogInvariant, DataInv, EndOp, diskVars
<1>5. ASSUME NEW p \in Op, CommitNothing(p) PROVE DataInv'
  <2>0. DataInv /\ pc \in [Op -> PCs]
    BY Zenon DEF LogInvariant, TypeOK
  <2>1. /\ pc' = [pc EXCEPT ![p] = "done"]
        /\ UNCHANGED <<disk, logd, cache, dirty, lh, tail, blk>>
    BY <1>5, Zenon DEF CommitNothing, diskVars
  <2>2. \A q \in Op : pc'[q] \in {"wlog", "inst", "recover"} => pc'[q] = pc[q]
    BY <2>0, <2>1, Zenon
  <2>3. ~Booted' => ~Booted
    BY <2>0, <2>1, LogAssumption, Zenon DEF Booted
  <2> QED
    BY <2>0, <2>1, <2>2, <2>3, DataFrame, Zenon
<1>6. ASSUME NEW p \in Op, EndCommit(p) PROVE DataInv'
  <2>1. \A q \in Op : pc'[q] \notin {"wlog", "inst", "recover", "boot"}
    BY <1>6, LogAssumption, Zenon DEF LogInvariant, ThreadInv, Booted, CommitPC, BootPC,
       EndCommit, CommitWake, Wakeup
  <2>2. Booted'
    BY <2>1, LogAssumption, Zenon DEF Booted
  <2>3. DataInv /\ UNCHANGED <<disk, logd, cache, dirty, lh, tail, blk>>
    BY <1>6, Zenon DEF LogInvariant, EndCommit, diskVars
  <2> QED
    BY <2>1, <2>2, <2>3, DataFrame, Zenon
<1>7. ASSUME NEW p \in Op, WriteLog(p) PROVE DataInv'
  <2>1. tail[p] + 1 \in 1 .. LOGSIZE /\ tail[p] + 1 \in 1 .. Len(lh)
    BY <1>7, LogAssumption DEF LogInvariant, TypeOK, WriteLog
  <2>2. \A q \in Op : pc'[q] = pc[q] /\ (pc[q] \in CommitPC \cup BootPC => q = p)
    BY <1>7, LogAssumption, Zenon DEF LogInvariant, ThreadInv, Booted, CommitPC, BootPC,
       WriteLog
  <2>3. \A i \in 1 .. tail'[p] : logd'[i] = cache[lh[i]]
    <3> SUFFICES ASSUME NEW i \in 1 .. tail[p] + 1 PROVE logd'[i] = cache[lh[i]]
      BY <1>7 DEF LogInvariant, DataInv, WriteLog
    <3>1. CASE i = tail[p] + 1
      BY <1>7, <2>1, <3>1, Zenon DEF LogInvariant, TypeOK, WriteLog
    <3>2. CASE i \in 1 .. tail[p]
      BY <1>7, <2>1, <3>2 DEF LogInvariant, DataInv, WriteLog
    <3> QED
      BY <3>1, <3>2 DEF LogInvariant, TypeOK, DataInv
  <2> QED
    BY <1>7, <2>1, <2>2, <2>3 DEF LogInvariant, DataInv, Booted, BootPC, WriteLog
<1>8. ASSUME NEW p \in Op, WriteHead(p) PROVE DataInv'
  <2>1. \A q \in Op : pc'[q] \in CommitPC \cup BootPC => q = p
    BY <1>8, LogAssumption DEF LogInvariant, ThreadInv, Booted, CommitPC, BootPC,
       WriteHead
  <2> QED
    BY <1>8, <2>1, LogAssumption DEF LogInvariant, TypeOK, DataInv, Booted, WriteHead,
       LogWritten
<1>9. ASSUME NEW p \in Op, InstallTrans(p) PROVE DataInv'
  <2> DEFINE b == lh[tail[p] + 1]
             v == logd[tail[p] + 1]
  <2>1. tail[p] + 1 \in 1 .. LOGSIZE /\ tail[p] + 1 \in 1 .. Len(lh)
    BY SMTT(60), <1>9, LogAssumption DEF LogInvariant, TypeOK, InstallTrans
  <2>2. b \in Block /\ \A i \in 1 .. Len(lh) : lh[i] = b => i = tail[p] + 1
    BY <2>1 DEF LogInvariant, TypeOK, HeaderInv, NoDup
  <2>3. /\ disk' = [disk EXCEPT ![b] = v] /\ cache' = [cache EXCEPT ![b] = v]
        /\ dirty' = dirty \ {b} /\ tail' = [tail EXCEPT ![p] = tail[p] + 1]
        /\ logd' = logd /\ lh' = lh /\ pc' = pc /\ blk' = blk
    BY <1>9, Zenon DEF InstallTrans
  <2>4. \A q \in Op : pc[q] \in CommitPC \cup BootPC => q = p
    BY <1>9, LogAssumption, Zenon DEF LogInvariant, ThreadInv, Booted, CommitPC, BootPC,
       InstallTrans
  <2> HIDE DEF b, v
  <2>5. \A i \in 1 .. tail'[p] : disk'[lh[i]] = logd[i]
    <3> SUFFICES ASSUME NEW i \in 1 .. tail'[p] PROVE disk'[lh[i]] = logd[i]
      BY Zenon
    <3>1. CASE i = tail[p] + 1
      BY <2>1, <2>2, <2>3, <3>1, Zenon DEF LogInvariant, TypeOK, b, v
    <3>2. CASE i # tail[p] + 1
      <4>1. i \in 1 .. tail[p] /\ lh[i] # b
        BY <2>1, <2>2, <2>3, <3>2 DEF LogInvariant, TypeOK
      <4>2. disk[lh[i]] = logd[i]
        BY <1>9, <4>1, Zenon DEF LogInvariant, DataInv, InstallTrans
      <4>3. lh \in Seq(Block) /\ tail[p] \in Nat /\ disk \in [Block -> Value]
        BY Zenon DEF LogInvariant, TypeOK
      <4>4. lh[i] \in Block
        BY <2>1, <4>1, <4>3
      <4> QED
        BY <2>3, <4>1, <4>2, <4>3, <4>4, Zenon
    <3> QED
      BY <3>1, <3>2, Zenon
  <2>6. pc[p] = "inst" => \A i \in 1 .. Len(lh) : logd[i] = cache'[lh[i]]
    BY <2>1, <2>2, <2>3 DEF LogInvariant, DataInv, b, v
  <2>7. \A c \in Block : cache'[c] # disk'[c] => cache[c] # disk[c] /\ c # b
    BY <2>2, <2>3, Zenon DEF LogInvariant, TypeOK
  <2>8. ~Booted => cache' = disk'
    BY <2>3, Zenon DEF LogInvariant, DataInv
  <2>9. pc[p] \in {"inst", "recover"} /\ tail'[p] <= Len(lh)
    BY <1>9, <2>1, <2>3 DEF LogInvariant, DataInv, InstallTrans
  <2>10. \A c \in Block : cache'[c] # disk'[c] =>
          \/ \E q \in Op : c \in blk'[q]
          \/ c \in dirty' /\ c \in Listed(lh')
    BY <2>3, <2>7, Zenon DEF LogInvariant, DataInv
  <2>11. \A q \in Op : pc'[q] # "wlog"
    BY <2>3, <2>4, <2>9, Zenon DEF CommitPC
  <2>12. ~Booted' => cache' = disk'
    BY <2>3, <2>8, Zenon DEF Booted
  <2>13. ASSUME NEW q \in Op, pc'[q] \in {"inst", "recover"}
         PROVE  /\ pc'[q] = "inst" => \A i \in 1 .. Len(lh') : logd'[i] = cache'[lh'[i]]
                /\ tail'[q] <= Len(lh')
                /\ \A i \in 1 .. tail'[q] : disk'[lh'[i]] = logd'[i]
    <3>1. q = p
      BY <2>3, <2>4, <2>13, Zenon DEF CommitPC, BootPC
    <3> QED
      BY <2>3, <2>5, <2>6, <2>9, <3>1, Zenon
  <2> QED
    BY <2>10, <2>11, <2>12, <2>13, Zenon DEF DataInv
<1>10. ASSUME NEW p \in Op, EraseLog(p) PROVE DataInv'
  <2>1. \A q \in Op : pc'[q] \notin {"wlog", "inst", "recover", "boot"}
    BY <1>10, LogAssumption, Zenon DEF LogInvariant, TypeOK, ThreadInv, Booted, CommitPC,
       BootPC, EraseLog
  <2>2. cache = disk
    <3>1. CASE pc[p] = "recover"
      BY <3>1, Zenon DEF LogInvariant, DataInv, ThreadInv, Booted, BootPC
    <3>2. CASE pc[p] = "inst"
      <4>1. \A i \in 1 .. Len(lh) : cache[lh[i]] = disk[lh[i]]
        BY <1>10, <3>2 DEF LogInvariant, DataInv, EraseLog, Installed
      <4>2. \A q \in Op : blk[q] = {}
        BY <3>2, Zenon DEF LogInvariant, ThreadInv, CommitPC, BufInv
      <4>3. \A c \in Block : cache[c] = disk[c]
        BY SMTT(60), <4>1, <4>2 DEF LogInvariant, DataInv, Listed
      <4> QED
        BY <4>3 DEF LogInvariant, TypeOK
    <3> QED
      BY <1>10, <3>1, <3>2, Zenon DEF EraseLog
  <2> QED
    BY <1>10, <2>1, <2>2, LogAssumption, Zenon DEF DataInv, EraseLog
<1>11. ASSUME NEW p \in Op, ReadHead(p) PROVE DataInv'
  <2>1. \A q \in Op : pc'[q] \in CommitPC \cup BootPC => q = p
    BY <1>11, LogAssumption DEF LogInvariant, ThreadInv, Booted, CommitPC, BootPC,
       ReadHead
  <2>2. cache' = disk' /\ tail'[p] = 0
    BY <1>11, LogAssumption, Zenon DEF LogInvariant, DataInv, ThreadInv, Booted, BootPC,
       ReadHead, diskVars
  <2>3. \A q \in Op : pc'[q] \notin {"wlog", "inst"}
    BY <1>11, <2>1 DEF CommitPC, ReadHead
  <2>4. Len(lh') \in Nat
    BY <1>11 DEF ReadHead
  <2>5. ASSUME NEW q \in Op, pc'[q] = "recover"
        PROVE  /\ tail'[q] <= Len(lh')
               /\ \A i \in 1 .. tail'[q] : disk'[lh'[i]] = logd'[i]
    BY <2>1, <2>2, <2>4, <2>5 DEF BootPC
  <2> QED
    BY <2>2, <2>3, <2>5, Zenon DEF DataInv
<1>12. ASSUME NEW b \in Block, Evict(b) PROVE DataInv'
  <2>1. cache[b] = disk[b]
    BY <1>12, Zenon DEF LogInvariant, DataInv, Evict
  <2>2. cache' = cache
    BY <1>12, <2>1, Zenon DEF LogInvariant, TypeOK, Evict
  <2>3. DataInv /\ pc' = pc /\ UNCHANGED <<disk, logd, cache, dirty, lh, tail, blk>>
    BY <1>12, <2>2, Zenon DEF LogInvariant, Evict, diskVars
  <2>4. Booted' <=> Booted
    BY <2>3, Zenon DEF Booted
  <2> QED
    BY <2>3, <2>4, DataFrame, Zenon
<1>13. CASE Crash
  BY <1>13, LogAssumption, Zenon DEF DataInv, Crash, diskVars
<1> QED
  BY <1>1, <1>2, <1>3, <1>4, <1>5, <1>6, <1>7, <1>8, <1>9, <1>10, <1>11, <1>12, <1>13, Zenon
     DEF Next, Commits

-----------------------------------------------------------------------------
(* The invariant holds, and what follows from it.                          *)

\* The disk made by mkfs and the memory of a fresh boot satisfy the invariant.
LEMMA InitInvariant == Init => LogInvariant
<1> SUFFICES ASSUME Init PROVE LogInvariant
  BY Zenon
<1>1. TypeOK
  <2>1. logd \in [1 .. LOGSIZE -> Value] /\ cache \in [Block -> Value]
    BY Zenon DEF Init
  <2>2. << >> \in Seq(Block) /\ Len(<< >>) <= LOGSIZE
    BY LogAssumption
  <2> QED
    BY <2>1, <2>2, Zenon DEF Init, TypeOK, PCs, NoBlock
<1>2. InOp = {} /\ Tokens = {}
  BY Zenon DEF Init, InOp, Tokens, OpPC
<1>3. ThreadInv
  BY <1>2, FS_EmptySet, LogAssumption, Zenon DEF Init, ThreadInv, OpPC, CommitPC, BootPC,
     Booted
<1>4. BufInv
  BY FS_EmptySet, LogAssumption DEF Init, BufInv, NoBlock
<1>5. HeaderInv
  BY LogAssumption DEF Init, HeaderInv, NoDup, OpPC, CommitPC
<1>6. DataInv
  BY LogAssumption, Zenon DEF Init, DataInv, Booted
<1>7. SpaceInv
  BY <1>2, FS_EmptySet, LogAssumption DEF Init, SpaceInv
<1> QED
  BY <1>1, <1>3, <1>4, <1>5, <1>6, <1>7, Zenon DEF LogInvariant

\* A step of log.c, or none, preserves the invariant.
LEMMA StepInvariant == LogInvariant /\ [Next]_vars => LogInvariant'
<1> SUFFICES ASSUME LogInvariant, [Next]_vars PROVE LogInvariant'
  BY Zenon
<1>1. CASE Next
  BY <1>1, TypeStep, ThreadStep, BufStep, HeaderStep, DataStep, SpaceStep, Zenon DEF
     LogInvariant
<1>2. CASE UNCHANGED vars
  <2> USE <1>2 DEF vars, diskVars
  <2>1. TypeOK'
    BY Zenon DEF LogInvariant, TypeOK
  <2>2. ThreadInv' /\ BufInv'
    BY Zenon DEF LogInvariant, ThreadInv, BufInv, Booted, InOp
  <2>3. HeaderInv' /\ DataInv'
    BY Zenon DEF LogInvariant, HeaderInv, DataInv, Booted
  <2>4. SpaceInv'
    BY Zenon DEF LogInvariant, SpaceInv, Tokens, Used
  <2> QED
    BY <2>1, <2>2, <2>3, <2>4, Zenon DEF LogInvariant
<1> QED
  BY <1>1, <1>2, Zenon

\* The inductive invariant of log.c (threads, buffers, headers, contents and
\* log space) holds in every reachable state, crashes included.
THEOREM LogInvariance == Spec => []LogInvariant
  BY InitInvariant, StepInvariant, PTL DEF Spec

\* end_op(): commits never overlap each other or an operation.
THEOREM CommitsAreAlone == Spec => []CommitsAlone
<1>1. LogInvariant => CommitsAlone
  <2> SUFFICES ASSUME LogInvariant PROVE CommitsAlone
    BY Zenon
  <2>1. committing <=> InCommit # {}
    BY Zenon DEF LogInvariant, ThreadInv, InCommit, CommitPC
  <2>2. committing => InOp = {}
    BY Zenon DEF LogInvariant, ThreadInv, InOp, OpPC
  <2>3. Cardinality(InCommit) <= 1
    <3>1. CASE InCommit = {}
      BY <3>1, FS_EmptySet
    <3>2. CASE InCommit # {}
      <4>1. PICK p : InCommit = {p}
        BY <3>2, Zenon DEF LogInvariant, ThreadInv, InCommit, CommitPC
      <4> QED
        BY <4>1, FS_Singleton
    <3> QED
      BY <3>1, <3>2, Zenon
  <2> QED
    BY <2>1, <2>2, <2>3, Zenon DEF CommitsAlone
<1> QED
  BY <1>1, LogInvariance, PTL

\* end_op(): once commit() has returned, memory, disk and what recovery would
\* produce agree.
THEOREM CommitsAreDurable == Spec => []CommitIsDurable
<1>1. LogInvariant => CommitIsDurable
  <2> SUFFICES ASSUME LogInvariant, NEW p \in Op, pc[p] = "done"
               PROVE  cache = disk /\ Recovered = disk
    BY Zenon DEF CommitIsDurable
  <2>1. \A q \in Op : pc[q] \notin {"inst", "boot", "recover"} /\ blk[q] = {}
    BY LogAssumption, Zenon DEF LogInvariant, ThreadInv, BufInv, CommitPC, OpPC, BootPC,
       Booted
  <2>2. lh = << >> /\ hdr = << >>
    BY <2>1, Zenon DEF LogInvariant, HeaderInv
  <2>3. Listed(lh) = {} /\ Listed(hdr) = {}
    BY <2>2 DEF Listed
  <2>4. \A b \in Block : cache[b] = disk[b]
    BY <2>1, <2>3, Zenon DEF LogInvariant, DataInv
  <2> QED
    BY <2>3, <2>4 DEF LogInvariant, Recovered, TypeOK
<1> QED
  BY <1>1, LogInvariance, PTL

\* begin_op(): nobody sleeps on &log without somebody left to wake them.
THEOREM SleepersAreWoken == Spec => []SleeperWillBeWoken
<1> DEFINE Busy == \E p \in Op : pc[p] \in OpPC \cup CommitPC
           Inv == (\E p \in Op : pc[p] = "asleep") => Busy
<1>1. SleeperWillBeWoken <=> Inv
  BY Zenon DEF SleeperWillBeWoken, InOp, InCommit, OpPC, CommitPC
<1>2. Init => Inv
  BY Zenon DEF Init
<1>3. LogInvariant /\ Inv /\ [Next]_vars => Inv'
  <2> SUFFICES ASSUME LogInvariant, Inv, [Next]_vars PROVE Inv'
    BY Zenon
  <2>1. ASSUME NEW p \in Op, BeginSleep(p) PROVE Inv'
    <3>1. Busy
      <4> SUFFICES ASSUME ~Busy PROVE FALSE
        BY Zenon
      <4>1. lh = << >> /\ ~committing
        BY <2>1, LogAssumption, Zenon DEF LogInvariant, BeginSleep, Booted, HeaderInv,
           ThreadInv, BootPC
      <4>2. InOp = {}
        BY Zenon DEF OpPC, InOp
      <4>3. outstanding = 0
        BY <4>2, FS_EmptySet, Zenon DEF LogInvariant, ThreadInv
      <4>4. Reserved = MAXOPBLOCKS
        BY <4>1, <4>3, LogAssumption DEF Reserved
      <4> QED
        BY <2>1, <4>1, <4>4, LogAssumption DEF BeginSleep, MustWait
    <3> QED
      BY <2>1, <3>1 DEF OpPC, CommitPC, BeginSleep
  <2>2. ASSUME NEW p \in Op, EndOp(p) PROVE Inv'
    <3>1. CASE outstanding = 1
      BY <2>2, <3>1, Zenon DEF LogInvariant, TypeOK, CommitPC, EndOp
    <3>2. CASE outstanding # 1
      <4>1. pc' = [q \in Op |-> IF q = p THEN "idle" ELSE Wakeup(pc)[q]]
        BY <2>2, <3>2, Zenon DEF EndOp, Wakeup
      <4> QED
        BY <4>1, Zenon DEF Wakeup
    <3> QED
      BY <3>1, <3>2, Zenon
  <2>3. ASSUME NEW p \in Op, EndCommit(p) PROVE Inv'
    <3>1. pc' = [q \in Op |-> IF q = p THEN "idle" ELSE Wakeup(pc)[q]]
      BY <2>3, Zenon DEF EndCommit, CommitWake, Wakeup
    <3> QED
      BY <3>1, Zenon DEF Wakeup
  <2>4. ASSUME NEW p \in Op, BeginOp(p) \/ LogAppend(p) \/ CommitNothing(p)
                 \/ WriteLog(p) \/ WriteHead(p) \/ InstallTrans(p)
        PROVE Inv'
    BY <2>4, Zenon DEF LogInvariant, TypeOK, OpPC, CommitPC, BeginOp, LogAppend,
       CommitNothing, WriteLog, WriteHead, InstallTrans
  <2>5. ASSUME NEW p \in Op, EraseLog(p) \/ ReadHead(p) PROVE Inv'
    BY <2>5, LogAssumption, Zenon DEF LogInvariant, TypeOK, CommitPC, EraseLog, ReadHead,
       ThreadInv, BootPC, Booted
  <2>6. ASSUME NEW p \in Op, NEW b \in Block, NEW v \in Value, LogWrite(p, b, v)
        PROVE  Inv'
    BY <2>6 DEF OpPC, LogWrite
  <2>7. ASSUME NEW b \in Block, Evict(b) PROVE Inv'
    BY <2>7, Zenon DEF Evict
  <2>8. CASE Crash
    BY <2>8, Zenon DEF Crash
  <2>9. CASE UNCHANGED vars
    BY <2>9, Zenon DEF vars
  <2> QED
    BY <2>1, <2>2, <2>3, <2>4, <2>5, <2>6, <2>7, <2>8, <2>9, Zenon DEF Next, Commits
<1> QED
  BY <1>1, <1>2, <1>3, LogInvariance, PTL DEF Spec

EnoughTokens ==
    \A p \in Op : pc[p] \in OpPC =>
        /\ Cardinality(Tokens) >= 1
        /\ Cardinality(wset[p]) < OpBlocks => Cardinality(Tokens) >= 2

\* As operations write fewer blocks than they reserve, each one in progress
\* keeps a token to the end, and two until it has written all it will.
LEMMA TokensLeft == LogInvariant /\ OpBlocks < MAXOPBLOCKS => EnoughTokens
<1> SUFFICES ASSUME LogInvariant, OpBlocks < MAXOPBLOCKS,
                    NEW p \in Op, pc[p] \in OpPC
             PROVE  /\ Cardinality(Tokens) >= 1
                    /\ Cardinality(wset[p]) < OpBlocks => Cardinality(Tokens) >= 2
  BY Zenon DEF EnoughTokens
<1> USE LogAssumption
<1>1. Used(p) \in Nat /\ Used(p) <= Cardinality(wset[p])
        /\ Cardinality(wset[p]) \in Nat /\ Cardinality(wset[p]) <= OpBlocks
  BY UsedBound, Zenon DEF LogInvariant, BufInv
<1> DEFINE t == <<p, MAXOPBLOCKS>>
           u == <<p, MAXOPBLOCKS - 1>>
<1>2. t \in Tokens
  BY <1>1 DEF Tokens
<1>3. Cardinality(wset[p]) < OpBlocks => u \in Tokens /\ u # t
  BY <1>1 DEF Tokens
<1> HIDE DEF t, u
<1>4. /\ IsFiniteSet(Tokens \ {t})
      /\ Cardinality(Tokens) = Cardinality(Tokens \ {t}) + 1
      /\ Cardinality(Tokens \ {t}) \in Nat
  <2>1. /\ IsFiniteSet(Tokens \ {t})
        /\ Cardinality(Tokens \ {t}) = Cardinality(Tokens) - 1
    BY <1>2, TokensFinite, FS_RemoveElement, Zenon
  <2>2. Cardinality(Tokens) \in Nat /\ Cardinality(Tokens \ {t}) \in Nat
    BY <2>1, TokensFinite, FS_CardinalityType, Zenon
  <2> QED
    BY <2>1, <2>2
<1>5. Cardinality(wset[p]) < OpBlocks => Cardinality(Tokens \ {t}) # 0
  BY <1>3, <1>4, FS_EmptySet
<1> QED
  BY <1>4, <1>5

\* begin_op() and log_write(): with operations that write fewer blocks than
\* MAXOPBLOCKS and the LOGSIZE blocks of log that mkfs makes, header included,
\* "too big a transaction" is never reached and the log stays in its blocks.
THEOREM LogSpaceSuffices ==
  ASSUME OpBlocks < MAXOPBLOCKS, LOGSIZE <= LogBlocks
  PROVE  Spec => []LogHasSpace
<1> DEFINE Fits == Len(lh) <= LogBlocks - 1 /\ Len(hdr) <= LogBlocks - 1
<1>0. LogInvariant' => EnoughTokens'
  BY TokensLeft, PTL
<1>1. LogInvariant /\ Fits => LogHasSpace
  <2> SUFFICES ASSUME LogInvariant, Fits, NEW p \in Op, pc[p] = "op",
                      Cardinality(wset[p]) < OpBlocks
               PROVE  Len(lh) < LOGSIZE /\ Len(lh) < LogBlocks - 1
    BY Zenon DEF LogHasSpace
  <2>1. Cardinality(Tokens) >= 2
    BY TokensLeft, Zenon DEF EnoughTokens, OpPC
  <2>2. Cardinality(Tokens) \in Nat
    BY TokensFinite, FS_CardinalityType, Zenon
  <2> QED
    BY <2>1, <2>2, LogAssumption DEF LogInvariant, SpaceInv, TypeOK
<1>2. Init => Fits
  BY LogAssumption DEF Init
<1>3. LogInvariant /\ LogInvariant' /\ Fits /\ [Next]_vars => Fits'
  <2> SUFFICES ASSUME LogInvariant, LogInvariant', Fits, [Next]_vars
               PROVE  Fits'
    BY Zenon
  <2>1. ASSUME NEW p \in Op, LogAppend(p) PROVE Fits'
    <3>1. Cardinality(Tokens') >= 1
      <4>1. pc'[p] \in OpPC
        BY <2>1, Zenon DEF LogAppend, OpPC, LogInvariant, TypeOK
      <4> QED
        BY <4>1, <1>0, Zenon DEF EnoughTokens
    <3>2. Cardinality(Tokens') \in Nat
      BY TokensFinite, FS_CardinalityType, Zenon
    <3> QED
      <4>1. Len(lh') + Cardinality(Tokens') <= LOGSIZE
        BY Zenon DEF LogInvariant, SpaceInv
      <4>2. Len(lh') \in Nat
        BY DEF LogInvariant, TypeOK
      <4>3. hdr' = hdr
        BY <2>1, Zenon DEF LogAppend, diskVars
      <4> QED
        BY <3>1, <3>2, <4>1, <4>2, <4>3, LogAssumption
  <2>2. ASSUME NEW p \in Op, EraseLog(p) \/ ReadHead(p) \/ WriteHead(p) PROVE Fits'
    BY <2>2, LogAssumption DEF EraseLog, ReadHead, WriteHead, diskVars
  <2>3. CASE Crash
    BY <2>3, LogAssumption DEF Crash, diskVars
  <2>4. ASSUME lh' = lh, hdr' = hdr PROVE Fits'
    BY <2>4, Zenon
  <2> QED
    BY <2>1, <2>2, <2>3, <2>4, Zenon DEF Next, Commits, BeginSleep, BeginOp, LogWrite,
       EndOp, CommitNothing, WriteLog, InstallTrans, EndCommit, Evict, vars, diskVars
<1> QED
  BY <1>1, <1>2, <1>3, LogInvariance, PTL DEF Spec

-----------------------------------------------------------------------------
(* Log implements AtomicDisk.                                              *)

View == IF Booted THEN cache ELSE Recovered

\* With an empty header on disk recovery changes nothing.
LEMMA RecoveredEmpty ==
  /\ disk \in [Block -> Value] /\ hdr = << >> => Recovered = disk
  /\ disk' \in [Block -> Value] /\ hdr' = << >> => Recovered' = disk'
  BY DEF Recovered, Listed

\* With a header without duplicates recovery copies every listed block from
\* its place in the log, whatever part of them is installed already.
LEMMA RecoveredValue ==
  ASSUME hdr \in Seq(Block), NoDup(hdr)
  PROVE  /\ \A i \in 1 .. Len(hdr) : Recovered[hdr[i]] = logd[i]
         /\ \A b \in Block : b \notin Listed(hdr) => Recovered[b] = disk[b]
<1>1. \A i \in 1 .. Len(hdr) : hdr[i] \in Block /\ hdr[i] \in Listed(hdr)
  BY DEF Listed
<1>2. \A i \in 1 .. Len(hdr) : LastAt(hdr, hdr[i]) = i
  BY LastAtUnique, Zenon
<1> QED
  BY <1>1, <1>2, Zenon DEF Recovered

\* commit(): the header write makes exactly the contents of the cache durable.
LEMMA WriteHeadCommits ==
  ASSUME LogInvariant, NEW p \in Op, WriteHead(p)
  PROVE  Recovered' = cache
<1>1. hdr' = lh /\ logd' = logd /\ disk' = disk
  BY Zenon DEF WriteHead
<1>2. \A i \in 1 .. Len(lh) : logd[i] = cache[lh[i]]
  BY Zenon DEF LogInvariant, WriteHead, LogWritten, DataInv
<1>3. \A i \in 1 .. Len(lh) : LastAt(lh, lh[i]) = i
  BY LastAtUnique, Zenon DEF LogInvariant, TypeOK, HeaderInv
<1>4. \A q \in Op : blk[q] = {}
  BY Zenon DEF LogInvariant, WriteHead, ThreadInv, BufInv, OpPC, CommitPC
<1>5. \A b \in Block : b \notin Listed(lh) => cache[b] = disk[b]
  BY <1>4, Zenon DEF LogInvariant, DataInv
<1>6. Recovered' = [b \in Block |-> IF b \in Listed(lh)
                                    THEN logd[LastAt(lh, b)] ELSE disk[b]]
  BY <1>1, Zenon DEF Recovered
<1>7. \A b \in Block : Recovered'[b] = cache[b]
  <2> SUFFICES ASSUME NEW b \in Block, b \in Listed(lh)
               PROVE  logd[LastAt(lh, b)] = cache[b]
    BY <1>5, <1>6, Zenon
  <2>1. PICK i \in 1 .. Len(lh) : lh[i] = b
    BY Zenon DEF Listed
  <2> QED
    BY <1>2, <1>3, <2>1, Zenon
<1> QED
  BY <1>6, <1>7, Zenon DEF LogInvariant, TypeOK

\* install_trans(): installing a committed block changes neither what recovery
\* would produce nor, outside recovery, what a read returns.
LEMMA InstallIsInvisible ==
  ASSUME LogInvariant, NEW p \in Op, InstallTrans(p)
  PROVE  Recovered' = Recovered /\ (pc[p] = "inst" => cache' = cache)
<1>1. tail[p] + 1 \in 1 .. Len(lh) /\ hdr = lh /\ hdr' = hdr /\ logd' = logd
  BY DEF LogInvariant, TypeOK, InstallTrans, HeaderInv
<1> DEFINE b == lh[tail[p] + 1]
<1>2. b \in Listed(hdr) /\ b \in Block
  <2>1. lh \in Seq(Block)
    BY Zenon DEF LogInvariant, TypeOK
  <2> QED
    BY <1>1, <2>1 DEF Listed
<1>3. \A c \in Block : c # b => disk'[c] = disk[c]
  BY DEF InstallTrans
<1>4. Recovered' = Recovered
  BY <1>1, <1>2, <1>3, Zenon DEF Recovered
<1>5. pc[p] = "inst" => cache' = cache
  BY <1>1, <1>2, Zenon DEF LogInvariant, TypeOK, InstallTrans, DataInv
<1> QED
  BY <1>4, <1>5, Zenon

\* commit() and recovery: erasing the header changes nothing, for everything
\* it lists is in place.
LEMMA EraseIsInvisible ==
  ASSUME LogInvariant, NEW p \in Op, EraseLog(p)
  PROVE  Recovered = disk /\ Recovered' = disk
<1>1. hdr = lh /\ hdr' = << >> /\ disk' = disk
  BY Zenon DEF LogInvariant, EraseLog, HeaderInv
<1>2. \A i \in 1 .. Len(hdr) : Recovered[hdr[i]] = logd[i] /\ disk[hdr[i]] = logd[i]
  BY <1>1, RecoveredValue DEF LogInvariant, TypeOK, EraseLog, Installed, DataInv,
     HeaderInv
<1>3. \A b \in Block : Recovered[b] = disk[b]
  BY <1>2, RecoveredValue DEF LogInvariant, TypeOK, Listed, HeaderInv
<1>4. Recovered = disk
  BY <1>3, Zenon DEF LogInvariant, TypeOK, Recovered
<1> QED
  BY <1>1, <1>4, RecoveredEmpty, Zenon DEF LogInvariant, TypeOK

\* log.c implements AtomicDisk: whatever block write a crash interrupts, and
\* however often recovery itself crashes, the disk comes back with whole groups
\* of operations, each applied completely or not at all.
THEOREM LogImplementsAtomicDisk == Spec => AtomicSpec
<1>1. Init => Atomic!Init
  <2> SUFFICES ASSUME Init PROVE Atomic!Init
    BY Zenon
  <2>1. Recovered = disk
    BY RecoveredEmpty, Zenon DEF Init
  <2>2. InOp = {} /\ ~Booted
    BY LogAssumption, Zenon DEF Init, InOp, Booted
  <2> QED
    BY <2>1, <2>2, Zenon DEF Atomic!Init, Init
<1>2. LogInvariant /\ [Next]_vars => [Atomic!Next]_(Atomic!vars)
  <2> SUFFICES ASSUME LogInvariant, [Next]_vars
               PROVE  \/ Atomic!Next
                      \/ Recovered' = Recovered /\ View' = View /\ InOp' = InOp
    BY Zenon DEF Atomic!vars, View
  <2>a. ASSUME UNCHANGED diskVars PROVE Recovered' = Recovered
    BY <2>a, Zenon DEF diskVars, Recovered
  <2>1. ASSUME NEW p \in Op, BeginSleep(p)
        PROVE  Recovered' = Recovered /\ View' = View /\ InOp' = InOp
    <3>1. Booted /\ Booted'
      BY <2>1, LogAssumption DEF BeginSleep, Booted
    <3> QED
      BY <2>1, <2>a, <3>1 DEF BeginSleep, View, InOp
  <2>2. ASSUME NEW p \in Op, BeginOp(p) PROVE Atomic!Next
    <3>1. Booted /\ Booted'
      BY <2>2, LogAssumption DEF BeginOp, Booted
    <3>2. p \notin InOp /\ InOp' = InOp \cup {p}
      BY <2>2, Zenon DEF LogInvariant, TypeOK, BeginOp, InOp
    <3>3. Atomic!Begin(p)
      BY <2>2, <2>a, <3>1, <3>2, Zenon DEF BeginOp, Atomic!Begin
    <3> QED
      BY <3>3, Zenon DEF Atomic!Next
  <2>3. ASSUME NEW p \in Op, NEW b \in Block, NEW v \in Value, LogWrite(p, b, v)
        PROVE  Atomic!Next
    <3>1. Booted /\ Booted'
      BY <2>3, LogAssumption DEF LogInvariant, LogWrite, ThreadInv, Booted
    <3>2. p \in InOp /\ InOp' = InOp
      BY <2>3 DEF LogWrite, InOp
    <3>3. Atomic!Write(p, b, v)
      BY <2>3, <2>a, <3>1, <3>2, Zenon DEF LogWrite, Atomic!Write
    <3> QED
      BY <3>3, Zenon DEF Atomic!Next
  <2>4. ASSUME NEW p \in Op, LogAppend(p)
        PROVE  Recovered' = Recovered /\ View' = View /\ InOp' = InOp
    <3>1. Booted /\ Booted'
      BY <2>4, LogAssumption DEF LogInvariant, LogAppend, ThreadInv, Booted
    <3> QED
      BY <2>4, <2>a, <3>1 DEF LogAppend, View, InOp
  <2>5. ASSUME NEW p \in Op, EndOp(p) PROVE Atomic!Next
    <3>1. Booted /\ Booted'
      BY <2>5, LogAssumption, Zenon DEF LogInvariant, TypeOK, EndOp, Wakeup,
         ThreadInv, Booted
    <3>2. p \in InOp /\ InOp' = InOp \ {p}
      BY <2>5, Zenon DEF LogInvariant, TypeOK, EndOp, InOp, Wakeup
    <3>3. Atomic!End(p)
      BY <2>5, <2>a, <3>1, <3>2, Zenon DEF EndOp, Atomic!End
    <3> QED
      BY <3>3, Zenon DEF Atomic!Next
  <2>6. ASSUME NEW p \in Op, CommitNothing(p) \/ EndCommit(p)
        PROVE  Recovered' = Recovered /\ View' = View /\ InOp' = InOp
    <3>1. Booted /\ Booted'
      BY <2>6, LogAssumption, Zenon DEF LogInvariant, TypeOK, CommitNothing,
         EndCommit, CommitWake, Wakeup, ThreadInv, Booted
    <3>2. InOp' = InOp
      BY <2>6, Zenon DEF LogInvariant, TypeOK, CommitNothing, EndCommit, CommitWake,
         Wakeup, InOp
    <3> QED
      BY <2>6, <2>a, <3>1, <3>2, Zenon DEF CommitNothing, EndCommit, View
  <2>7. ASSUME NEW p \in Op, WriteLog(p)
        PROVE  Recovered' = Recovered /\ View' = View /\ InOp' = InOp
    <3>1. Booted /\ Booted'
      BY <2>7, LogAssumption, Zenon DEF LogInvariant, WriteLog, ThreadInv, Booted
    <3>2. hdr = << >> /\ hdr' = << >> /\ disk' = disk
      BY <2>7, <3>1, LogAssumption, Zenon DEF LogInvariant, WriteLog, HeaderInv, ThreadInv,
         CommitPC, BootPC, Booted
    <3>3. Recovered' = Recovered
      BY <3>2, RecoveredEmpty, Zenon DEF LogInvariant, TypeOK
    <3> QED
      BY <2>7, <3>1, <3>3, Zenon DEF WriteLog, View, InOp
  <2>8. ASSUME NEW p \in Op, WriteHead(p) PROVE Atomic!Next
    <3>1. Booted /\ Booted'
      BY <2>8, LogAssumption DEF LogInvariant, WriteHead, ThreadInv, Booted
    <3>2. InOp = {} /\ InOp' = {}
      BY <2>8 DEF LogInvariant, WriteHead, ThreadInv, InOp, OpPC, CommitPC
    <3>3. Recovered' = cache /\ cache' = cache
      BY <2>8, WriteHeadCommits, Zenon DEF WriteHead
    <3>4. Atomic!Commit
      BY <3>1, <3>2, <3>3, Zenon DEF Atomic!Commit
    <3> QED
      BY <3>4, Zenon DEF Atomic!Next
  <2>9. ASSUME NEW p \in Op, InstallTrans(p)
        PROVE  Recovered' = Recovered /\ View' = View /\ InOp' = InOp
    <3>1. InOp' = InOp /\ Booted' = Booted
      BY <2>9, Zenon DEF InstallTrans, InOp, Booted
    <3>2. Recovered' = Recovered /\ (pc[p] = "inst" => cache' = cache)
      BY <2>9, InstallIsInvisible, Zenon
    <3>3. Booted => pc[p] = "inst"
      BY <2>9, Zenon DEF LogInvariant, InstallTrans, ThreadInv, BootPC, Booted
    <3> QED
      BY <3>1, <3>2, <3>3, Zenon DEF View
  <2>10. ASSUME NEW p \in Op, EraseLog(p)
         PROVE  Recovered' = Recovered /\ View' = View /\ InOp' = InOp
    <3>1. InOp' = InOp
      BY <2>10 DEF EraseLog, InOp
    <3>2. Booted'
      BY <2>10, LogAssumption, Zenon DEF LogInvariant, TypeOK, EraseLog, ThreadInv, BootPC,
         Booted
    <3>3. Recovered' = Recovered /\ Recovered = disk /\ cache' = cache
      BY <2>10, EraseIsInvisible, Zenon DEF EraseLog
    <3>4. ~Booted => cache = disk
      BY Zenon DEF LogInvariant, DataInv
    <3> QED
      BY <3>1, <3>2, <3>3, <3>4, Zenon DEF View
  <2>11. ASSUME NEW p \in Op, ReadHead(p)
         PROVE  Recovered' = Recovered /\ View' = View /\ InOp' = InOp
    <3>1. ~Booted /\ ~Booted' /\ InOp' = InOp
      BY <2>11 DEF LogInvariant, ReadHead, ThreadInv, BootPC, Booted, InOp
    <3> QED
      BY <2>11, <2>a, <3>1, Zenon DEF ReadHead, View
  <2>12. ASSUME NEW b \in Block, Evict(b)
         PROVE  Recovered' = Recovered /\ View' = View /\ InOp' = InOp
    <3>1. cache' = cache
      BY <2>12, Zenon DEF LogInvariant, TypeOK, Evict, DataInv
    <3> QED
      BY <2>12, <2>a, <3>1, Zenon DEF Evict, View, InOp, Booted
  <2>13. CASE Crash
    <3>1. ~Booted' /\ InOp' = {} /\ Recovered' = Recovered
      BY <2>13, <2>a, LogAssumption, Zenon DEF Crash, Booted, InOp
    <3>2. Atomic!Crash
      BY <3>1, Zenon DEF Atomic!Crash
    <3> QED
      BY <3>2, Zenon DEF Atomic!Next
  <2>14. CASE UNCHANGED vars
    BY <2>14, <2>a, Zenon DEF vars, View, InOp, Booted
  <2> QED
    BY <2>1, <2>2, <2>3, <2>4, <2>5, <2>6, <2>7, <2>8, <2>9, <2>10, <2>11, <2>12,
       <2>13, <2>14, Zenon DEF Atomic!vars, Next, Commits
<1> QED
  BY <1>1, <1>2, LogInvariance, PTL DEF Spec, AtomicSpec, Atomic!Spec
=============================================================================
