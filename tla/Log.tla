-------------------------------- MODULE Log ---------------------------------
(***************************************************************************)
(* The redo log of log.c: concurrent operations between begin_op() and     *)
(* end_op(), group commit by the last one to end, and recovery at boot.    *)
(* Every disk write (a log block, the header, a home block) is a step, and *)
(* the machine may crash between any two of them, also during recovery.    *)
(*                                                                         *)
(* cache[b] is what bread(b) returns.  A buffer that is not pinned by      *)
(* B_DIRTY and that nobody holds may be recycled, and is then read back.   *)
(***************************************************************************)
EXTENDS Integers, Sequences, FiniteSets

CONSTANTS
    Block,        \* home blocks
    Value,        \* contents of a block
    Op,           \* threads that run file system operations
    InitOp,       \* the thread whose first forkret() runs initlog()
    MAXOPBLOCKS,  \* blocks reserved per operation
    LOGSIZE,      \* size of logheader.block
    LogBlocks,    \* log.size: blocks of the on-disk log, header included
    OpBlocks      \* the most distinct blocks any one operation writes

ASSUME LogAssumption ==
    /\ InitOp \in Op /\ IsFiniteSet(Op)
    /\ MAXOPBLOCKS \in Nat /\ LOGSIZE \in Nat /\ LogBlocks \in Nat
    /\ OpBlocks \in Nat
    /\ MAXOPBLOCKS <= LOGSIZE
    /\ OpBlocks <= MAXOPBLOCKS

VARIABLES
    disk,         \* home blocks on disk
    logd,         \* data blocks of the on-disk log
    hdr,          \* the on-disk header: the block numbers it lists
    cache,        \* buffer contents
    dirty,        \* blocks whose buffer is pinned with B_DIRTY
    lh,           \* log.lh, in memory
    outstanding, committing,
    pc,           \* where each thread is
    tail,         \* the loop variable of write_log and install_trans
    blk,          \* the buffer a thread has locked and passes to log_write
    wset          \* blocks the current operation of a thread has written

diskVars == <<disk, logd, hdr>>
vars == <<diskVars, cache, dirty, lh, outstanding, committing, pc, tail, blk,
          wset>>

NoBlock == {}   \* blk[p] is a set of at most one block

\* "idle", "begin" (awake again), "asleep": in begin_op() or before it
\* "op", "append": inside an operation; "append" is log_write() past its checks
\* "wlog", "inst", "done": write_log, install_trans, end of end_op()
\* "boot", "recover": initlog() before and in install_trans
PCs == {"idle", "begin", "asleep", "op", "append", "wlog", "inst", "done",
        "boot", "recover"}

Listed(h) == {h[i] : i \in 1 .. Len(h)}

Init ==
    /\ disk \in [Block -> Value]
    /\ logd \in {[i \in 1 .. LOGSIZE |-> v] : v \in Value}
    /\ hdr = << >>
    /\ cache = disk
    /\ dirty = {}
    /\ lh = << >>
    /\ outstanding = 0
    /\ committing = FALSE
    /\ pc = [p \in Op |-> IF p = InitOp THEN "boot" ELSE "idle"]
    /\ tail = [p \in Op |-> 0]
    /\ blk = [p \in Op |-> NoBlock]
    /\ wset = [p \in Op |-> {}]

\* No other thread runs until the first one has returned from initlog().
Booted == pc[InitOp] \notin {"boot", "recover"}

-----------------------------------------------------------------------------
(* Operations.                                                             *)

\* Mutated begin_op(): the space of the new operation is not counted.
Reserved_off == Len(lh) + outstanding * MAXOPBLOCKS

\* The space begin_op() asks for: what is logged, plus all reservations.
Reserved == Len(lh) + (outstanding + 1) * MAXOPBLOCKS

MustWait == committing \/ Reserved > LOGSIZE

BeginSleep(p) ==
    /\ Booted
    /\ pc[p] \in {"idle", "begin"}
    /\ MustWait
    /\ pc' = [pc EXCEPT ![p] = "asleep"]
    /\ UNCHANGED <<diskVars, cache, dirty, lh, outstanding, committing, tail,
                   blk, wset>>

BeginOp(p) ==
    /\ Booted
    /\ pc[p] \in {"idle", "begin"}
    /\ ~MustWait
    /\ outstanding' = outstanding + 1
    /\ pc' = [pc EXCEPT ![p] = "op"]
    /\ UNCHANGED <<diskVars, cache, dirty, lh, committing, tail, blk, wset>>

\* The operation changes the data of a locked buffer and calls log_write(),
\* whose panic checks read log.lh.n before log.lock is taken.
LogWrite(p, b, v) ==
    /\ pc[p] = "op"
    /\ Cardinality(wset[p] \cup {b}) <= OpBlocks
    /\ \A q \in Op : b \notin blk[q]
    /\ Len(lh) < LOGSIZE /\ Len(lh) < LogBlocks - 1
    /\ outstanding >= 1
    /\ cache' = [cache EXCEPT ![b] = v]
    /\ blk' = [blk EXCEPT ![p] = {b}]
    /\ wset' = [wset EXCEPT ![p] = @ \cup {b}]
    /\ pc' = [pc EXCEPT ![p] = "append"]
    /\ UNCHANGED <<diskVars, dirty, lh, outstanding, committing, tail>>

\* Log absorption: a block already listed is not listed again.
Absorb(b) == IF b \in Listed(lh) THEN lh ELSE Append(lh, b)

Pin(b) == dirty \cup {b}

\* The rest of log_write(), under log.lock; then brelse().
LogAppend(p) ==
    /\ pc[p] = "append"
    /\ \E b \in blk[p] : lh' = Absorb(b) /\ dirty' = Pin(b)
    /\ blk' = [blk EXCEPT ![p] = NoBlock]
    /\ pc' = [pc EXCEPT ![p] = "op"]
    /\ UNCHANGED <<diskVars, cache, outstanding, committing, tail, wset>>

\* wakeup(&log) on the program counters f.
Wakeup(f) == [q \in Op |-> IF f[q] = "asleep" THEN "begin" ELSE f[q]]

Ended == outstanding - 1

\* end_op(): the last operation to end commits for all.
EndOp(p) ==
    /\ pc[p] = "op"
    /\ outstanding' = Ended
    /\ IF outstanding = 1
       THEN /\ committing' = TRUE
            /\ pc' = [pc EXCEPT ![p] = "wlog"]
       ELSE /\ UNCHANGED committing
            /\ pc' = [Wakeup(pc) EXCEPT ![p] = "idle"]
    /\ wset' = [wset EXCEPT ![p] = {}]
    /\ UNCHANGED <<diskVars, cache, dirty, lh, tail, blk>>

-----------------------------------------------------------------------------
(* commit(), run by the thread that ended the last operation.              *)

CommitNothing(p) ==
    /\ pc[p] = "wlog"
    /\ lh = << >>
    /\ pc' = [pc EXCEPT ![p] = "done"]
    /\ UNCHANGED <<diskVars, cache, dirty, lh, outstanding, committing, tail,
                   blk, wset>>

\* write_log(): one block from the cache to the log.
WriteLog(p) ==
    /\ pc[p] = "wlog"
    /\ tail[p] < Len(lh)
    /\ logd' = [logd EXCEPT ![tail[p] + 1] = cache[lh[tail[p] + 1]]]
    /\ tail' = [tail EXCEPT ![p] = @ + 1]
    /\ UNCHANGED <<disk, hdr, cache, dirty, lh, outstanding, committing, pc,
                   blk, wset>>

\* Mutated commit(): the header is written before the log blocks are.
LogWritten_early(p) == tail[p] = 0

LogWritten(p) == tail[p] = Len(lh)

\* write_head(): the commit point.
WriteHead(p) ==
    /\ pc[p] = "wlog"
    /\ lh # << >>
    /\ LogWritten(p)
    /\ hdr' = lh
    /\ pc' = [pc EXCEPT ![p] = "inst"]
    /\ tail' = [tail EXCEPT ![p] = 0]
    /\ UNCHANGED <<disk, logd, cache, dirty, lh, outstanding, committing, blk,
                   wset>>

\* install_trans(): one block from the log to its home, in commit() or in
\* recover_from_log(); the write clears B_DIRTY.
InstallTrans(p) ==
    /\ pc[p] \in {"inst", "recover"}
    /\ tail[p] < Len(lh)
    /\ LET b == lh[tail[p] + 1]
           v == logd[tail[p] + 1]
       IN  /\ disk' = [disk EXCEPT ![b] = v]
           /\ cache' = [cache EXCEPT ![b] = v]
           /\ dirty' = dirty \ {b}
    /\ tail' = [tail EXCEPT ![p] = @ + 1]
    /\ UNCHANGED <<logd, hdr, lh, outstanding, committing, pc, blk, wset>>

\* Mutated commit() and recovery: the log is cleared before all is installed.
Installed_early(p) == TRUE

Installed(p) == tail[p] = Len(lh)

\* log.lh.n = 0 and the second write_head(): erase the transaction.
EraseLog(p) ==
    /\ pc[p] \in {"inst", "recover"}
    /\ Installed(p)
    /\ lh' = << >>
    /\ hdr' = << >>
    /\ tail' = [tail EXCEPT ![p] = 0]
    /\ pc' = [pc EXCEPT ![p] = IF @ = "inst" THEN "done" ELSE "idle"]
    /\ UNCHANGED <<disk, logd, cache, dirty, outstanding, committing, blk,
                   wset>>

\* Mutated end_op(): the committer wakes nobody.
CommitWake_none(f) == f

CommitWake(f) == Wakeup(f)

\* The rest of end_op() after commit().
EndCommit(p) ==
    /\ pc[p] = "done"
    /\ committing' = FALSE
    /\ pc' = [CommitWake(pc) EXCEPT ![p] = "idle"]
    /\ UNCHANGED <<diskVars, cache, dirty, lh, outstanding, tail, blk, wset>>

-----------------------------------------------------------------------------
(* The buffer cache, crashes and recovery.                                 *)

\* bget() recycles an unpinned buffer that nobody holds; a later bread() reads
\* the block again.
Evict(b) ==
    /\ b \notin dirty
    /\ \A p \in Op : b \notin blk[p]
    /\ cache' = [cache EXCEPT ![b] = disk[b]]
    /\ UNCHANGED <<diskVars, dirty, lh, outstanding, committing, pc, tail,
                   blk, wset>>

\* Power is lost and the machine boots again: only the disk remains.
Crash ==
    /\ cache' = disk
    /\ dirty' = {}
    /\ lh' = << >>
    /\ outstanding' = 0
    /\ committing' = FALSE
    /\ pc' = [p \in Op |-> IF p = InitOp THEN "boot" ELSE "idle"]
    /\ tail' = [p \in Op |-> 0]
    /\ blk' = [p \in Op |-> NoBlock]
    /\ wset' = [p \in Op |-> {}]
    /\ UNCHANGED diskVars

\* recover_from_log(): read_head().
ReadHead(p) ==
    /\ pc[p] = "boot"
    /\ lh' = hdr
    /\ pc' = [pc EXCEPT ![p] = "recover"]
    /\ UNCHANGED <<diskVars, cache, dirty, outstanding, committing, tail, blk,
                   wset>>

Commits(p) ==
    CommitNothing(p) \/ WriteLog(p) \/ WriteHead(p) \/ InstallTrans(p)
        \/ EraseLog(p) \/ EndCommit(p)

Next ==
    \/ \E p \in Op :
        \/ BeginSleep(p) \/ BeginOp(p)
        \/ \E b \in Block, v \in Value : LogWrite(p, b, v)
        \/ LogAppend(p)
        \/ EndOp(p)
        \/ Commits(p)
        \/ ReadHead(p)
    \/ \E b \in Block : Evict(b)
    \/ Crash

Spec == Init /\ [][Next]_vars

-----------------------------------------------------------------------------
(* Properties.                                                             *)

\* The C types, with the log header no longer than its array.
TypeOK ==
    /\ disk \in [Block -> Value] /\ cache \in [Block -> Value]
    /\ logd \in [1 .. LOGSIZE -> Value]
    /\ hdr \in Seq(Block) /\ Len(hdr) <= LOGSIZE
    /\ lh \in Seq(Block) /\ Len(lh) <= LOGSIZE
    /\ dirty \subseteq Block
    /\ outstanding \in Nat
    /\ committing \in BOOLEAN
    /\ pc \in [Op -> PCs]
    /\ tail \in [Op -> Nat]
    /\ blk \in [Op -> SUBSET Block]
    /\ wset \in [Op -> SUBSET Block]

InOp == {p \in Op : pc[p] \in {"op", "append"}}
InCommit == {p \in Op : pc[p] \in {"wlog", "inst", "done"}}

\* The last place where the header h lists block b.
LastAt(h, b) ==
    CHOOSE i \in 1 .. Len(h) : h[i] = b /\ \A j \in i+1 .. Len(h) : h[j] # b

\* The disk as recovery would leave it.
Recovered ==
    [b \in Block |-> IF b \in Listed(hdr) THEN logd[LastAt(hdr, b)] ELSE disk[b]]

\* log.c implements AtomicDisk: crash atomicity of whole groups of operations,
\* whatever block write the crash falls on, also when recovery itself crashes.
Atomic == INSTANCE AtomicDisk WITH
    store <- Recovered,
    view <- IF Booted THEN cache ELSE Recovered,
    active <- InOp

AtomicSpec == Atomic!Spec

\* begin_op()/log_write(): an operation that has not used up its share never
\* meets "too big a transaction", and the log never outgrows its disk blocks,
\* although the check reads log.lh.n without log.lock.
LogHasSpace ==
    /\ Len(lh) <= LogBlocks - 1
    /\ \A p \in Op : pc[p] = "op" /\ Cardinality(wset[p]) < OpBlocks =>
        Len(lh) < LOGSIZE /\ Len(lh) < LogBlocks - 1

\* end_op(): at most one thread commits, log.committing says so, and no
\* operation is in progress meanwhile (so "log.committing" cannot panic and
\* the blocks being copied do not change).
CommitsAlone ==
    /\ committing <=> InCommit # {}
    /\ Cardinality(InCommit) <= 1
    /\ committing => InOp = {}

\* begin_op(): a thread asleep on &log is always waiting for somebody who
\* will call wakeup(&log), an operation in progress or the committer.
SleeperWillBeWoken ==
    (\E p \in Op : pc[p] = "asleep") => InOp # {} \/ InCommit # {}

\* end_op(): when it returns from commit() everything written so far survives
\* a crash, and is in its home location.
CommitIsDurable ==
    \A p \in Op : pc[p] = "done" => cache = disk /\ Recovered = disk

-----------------------------------------------------------------------------
(* Liveness: operations end, the committer goes on, and a woken thread that *)
(* finds room again and again gets in (log.lock and the lottery).           *)

Fairness ==
    \A p \in Op :
        /\ WF_vars(LogAppend(p))
        /\ SF_vars(EndOp(p))
        /\ WF_vars(Commits(p) \/ ReadHead(p))
        /\ SF_vars(pc[p] = "begin" /\ BeginOp(p))
        /\ WF_vars(pc[p] = "begin" /\ BeginSleep(p))

FairSpec == Spec /\ Fairness

\* begin_op(): a thread that waits for the log gets into its operation, unless
\* the machine crashes.
SleeperGetsIn ==
    \A p \in Op : pc[p] = "asleep" ~> pc[p] \in {"op", "idle", "boot"}
=============================================================================
