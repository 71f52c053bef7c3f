------------------------------- MODULE LogInv -------------------------------
(***************************************************************************)
(* The inductive invariant behind the properties of Log, which LogProofs   *)
(* proves for every instance.                                              *)
(***************************************************************************)
EXTENDS Log

OpPC == {"op", "append"}
CommitPC == {"wlog", "inst", "done"}
BootPC == {"boot", "recover"}

\* Which threads may be where at the same time, and log.outstanding.
ThreadInv ==
    /\ \A p \in Op : pc[p] \in BootPC => p = InitOp
    /\ ~Booted => \A p \in Op : p # InitOp => pc[p] = "idle"
    /\ committing <=> \E p \in Op : pc[p] \in CommitPC
    /\ \A p, q \in Op : pc[p] \in CommitPC /\ pc[q] \in CommitPC => p = q
    /\ \A p, q \in Op : pc[p] \in CommitPC => pc[q] \notin OpPC
    /\ outstanding = Cardinality(InOp)
    /\ \A p \in Op : pc[p] \notin {"wlog", "inst", "recover"} => tail[p] = 0

\* The buffers between the change of their data and log_write's log.lock.
BufInv ==
    /\ \A p \in Op : pc[p] = "append" => \E b \in Block : blk[p] = {b}
    /\ \A p \in Op : pc[p] # "append" => blk[p] = {}
    /\ \A p \in Op : blk[p] \subseteq wset[p]
    /\ \A p \in Op : pc[p] \notin OpPC => wset[p] = {}
    /\ \A p \in Op : IsFiniteSet(wset[p]) /\ Cardinality(wset[p]) <= OpBlocks

NoDup(h) == \A i, j \in 1 .. Len(h) : h[i] = h[j] => i = j

\* The two headers: equal while a transaction is installed; the one on disk is
\* otherwise empty once recovery is over, the one in memory when all is quiet.
HeaderInv ==
    /\ NoDup(lh) /\ NoDup(hdr)
    /\ (\A p \in Op : pc[p] \notin {"inst", "boot", "recover"}) => hdr = << >>
    /\ \A p \in Op : pc[p] \in {"inst", "recover"} => hdr = lh
    /\ \A p \in Op : pc[p] = "done" => lh = << >>
    /\ (\A p \in Op : pc[p] \notin OpPC \cup CommitPC \cup {"recover"})
          => lh = << >>

\* How far the copies have got, and why a block may differ from the disk.
DataInv ==
    /\ \A p \in Op : pc[p] = "wlog" =>
        /\ tail[p] <= Len(lh)
        /\ \A i \in 1 .. tail[p] : logd[i] = cache[lh[i]]
    /\ \A p \in Op : pc[p] = "inst" =>
        \A i \in 1 .. Len(lh) : logd[i] = cache[lh[i]]
    /\ \A p \in Op : pc[p] \in {"inst", "recover"} =>
        /\ tail[p] <= Len(lh)
        /\ \A i \in 1 .. tail[p] : disk[lh[i]] = logd[i]
    /\ ~Booted => cache = disk
    /\ \A b \in Block : cache[b] # disk[b] =>
        \/ \E p \in Op : b \in blk[p]
        \/ b \in dirty /\ b \in Listed(lh)

\* Blocks of p's operation that are in the log already.
Used(p) == Cardinality(wset[p] \cap Listed(lh))

\* The log slots reserved by operations in progress and not used yet.
Tokens == {t \in Op \X (1 .. MAXOPBLOCKS) : pc[t[1]] \in OpPC /\ t[2] > Used(t[1])}

SpaceInv == Len(lh) + Cardinality(Tokens) <= LOGSIZE

\* log.c: threads, buffers, headers, contents and log space fit together at
\* every moment, between any two disk writes and log.lock sections.
LogInvariant ==
    TypeOK /\ ThreadInv /\ BufInv /\ HeaderInv /\ DataInv /\ SpaceInv
=============================================================================
