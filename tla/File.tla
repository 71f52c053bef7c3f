-------------------------------- MODULE File --------------------------------
(***************************************************************************)
(* Open files and their contents: file descriptors and the file table      *)
(* (file.c and the descriptor calls of sysfile.c), and the blocks behind   *)
(* an inode (balloc to writei of fs.c).  Processes run their calls         *)
(* concurrently; writei() is one step per block, under the lock of the     *)
(* inode, and balloc() and bfree() are atomic under the lock of the bitmap *)
(* buffer.                                                                 *)
(*                                                                         *)
(* A block is BSIZE words and a word is a byte of data, a block number or  *)
(* zero, so NINDIRECT = BSIZE.  A process writes its own name as data.     *)
(***************************************************************************)
EXTENDS Integers, Sequences, FiniteSets, FiniteSetsExt

CONSTANTS
    Proc, NoProc,
    Inum,              \* the inodes that are opened, a set of numbers
    NOFILE, NFILE,
    BSIZE, NDIRECT,
    BPB,               \* blocks per block of the bitmap
    MAXOPBLOCKS,
    NBlock,            \* data blocks; balloc() panics when it needs more
    Counts,            \* sizes of the writes and reads
    MaxCalls           \* bound on the calls of open, dup, fork, read and write

NINDIRECT == BSIZE
MAXFILE == NDIRECT + NINDIRECT
Block == 1 .. NBlock
NoFile == 0
File == 1 .. NFILE
Fd == 0 .. NOFILE - 1

VARIABLES
    used,              \* the bitmap
    store,             \* the contents of the blocks
    inode,             \* addrs and size of the inodes in memory
    dinode,            \* and on disk
    lock,              \* ip->lock
    ftable,            \* the file table: ref, ip, off
    ofile,             \* the descriptors of the processes
    wr,                \* the filewrite() a process is in
    logged,            \* the blocks its current transaction has written
    calls              \* the calls that were made, for the bound

vars == <<used, store, inode, dinode, lock, ftable, ofile, wr, logged, calls>>

Zero == [k \in 0 .. BSIZE - 1 |-> 0]
NewInode == [addrs |-> [k \in 0 .. NDIRECT |-> 0], size |-> 0]
NewFile == [ref |-> 0, ip |-> 0, off |-> 0]
NoWrite == [pc |-> "idle"]

Init ==
    /\ used = {}
    /\ store = [b \in Block |-> Zero]
    /\ inode = [i \in Inum |-> NewInode]
    /\ dinode = inode
    /\ lock = [i \in Inum |-> NoProc]
    /\ ftable = [f \in File |-> NewFile]
    /\ ofile = [p \in Proc |-> [d \in Fd |-> NoFile]]
    /\ wr = [p \in Proc |-> NoWrite]
    /\ logged = [p \in Proc |-> {}]
    /\ calls = 0

-----------------------------------------------------------------------------
(* Blocks.  An operation s carries the bitmap, the blocks, the addresses   *)
(* of the inode, the blocks it logged, and the address it returns.         *)

DataBlock(b) == <<"data", b>>
BitBlock(b) == <<"bitmap", b \div BPB>>
InodeBlock(i) == <<"inode", i>>

FirstFree(u) == Min(Block \ u)

\* bzero()
Bzero(s, b) == [s.store EXCEPT ![b] = Zero]

\* balloc(): the first free block, marked and zeroed.
Balloc(s) ==
    LET b == FirstFree(s.used)
    IN  [s EXCEPT !.used = @ \cup {b}, !.store = Bzero(s, b), !.addr = b,
                  !.log = @ \cup {BitBlock(b), DataBlock(b)}]

\* An address in the inode, allocated if there is none.
Slot(s, k) ==
    IF s.addrs[k] # 0 THEN [s EXCEPT !.addr = s.addrs[k]]
    ELSE LET t == Balloc(s) IN [t EXCEPT !.addrs[k] = t.addr]

\* bmap()
Bmap(s, bn) ==
    IF bn < NDIRECT THEN Slot(s, bn)
    ELSE LET t == Slot(s, NDIRECT)
             a == t.addr
             k == bn - NDIRECT
         IN  IF t.store[a][k] # 0 THEN [t EXCEPT !.addr = t.store[a][k]]
             ELSE LET u == Balloc(t)
                  IN  [u EXCEPT !.store[a][k] = u.addr,
                                !.log = @ \cup {DataBlock(a)}]

\* bfree(), of several blocks
Bfree(u, S) == u \ S

\* The blocks an inode refers to, in order, the indirect block last.
IndirectBlock(i) == inode[i].addrs[NDIRECT]
DirectBlocks(i) == {inode[i].addrs[k] : k \in 0 .. NDIRECT - 1} \ {0}
IndirectBlocks(i) ==
    IF IndirectBlock(i) = 0 THEN {}
    ELSE {store[IndirectBlock(i)][k] : k \in 0 .. NINDIRECT - 1} \ {0}

\* Mutated itrunc(): the indirect block itself is not freed.
TruncBlocks_data(i) == DirectBlocks(i) \cup IndirectBlocks(i)

\* The blocks that itrunc() frees.
TruncBlocks(i) ==
    DirectBlocks(i) \cup IndirectBlocks(i) \cup ({IndirectBlock(i)} \ {0})

-----------------------------------------------------------------------------
(* Descriptors.                                                            *)

Idle(p) == wr[p].pc = "idle"

\* p makes a system call.
Call(p) == Idle(p) /\ calls < MaxCalls /\ calls' = calls + 1

FreeFiles == {f \in File : ftable[f].ref = 0}
FreeFds(p) == {d \in Fd : ofile[p][d] = NoFile}

\* The end of sys_open(): filealloc() and fdalloc().  Without room for a
\* descriptor the file is closed again, so nothing changes.
Open(p, i) ==
    /\ Call(p) /\ FreeFiles # {} /\ FreeFds(p) # {} /\ lock[i] = NoProc
    /\ LET f == Min(FreeFiles)
       IN  /\ ftable' = [ftable EXCEPT ![f] = [ref |-> 1, ip |-> i, off |-> 0]]
           /\ ofile' = [ofile EXCEPT ![p][Min(FreeFds(p))] = f]
    /\ UNCHANGED <<used, store, inode, dinode, lock, wr, logged>>

\* sys_dup(), with filedup()
Dup(p, d) ==
    /\ Call(p) /\ ofile[p][d] # NoFile /\ FreeFds(p) # {}
    /\ ofile' = [ofile EXCEPT ![p][Min(FreeFds(p))] = ofile[p][d]]
    /\ ftable' = [ftable EXCEPT ![ofile[p][d]].ref = @ + 1]
    /\ UNCHANGED <<used, store, inode, dinode, lock, wr, logged>>

\* The descriptors in fork(): the child q gets every file of p.
Fork(p, q) ==
    /\ Call(p) /\ FreeFds(q) = Fd /\ FreeFds(p) # Fd
    /\ ofile' = [ofile EXCEPT ![q] = ofile[p]]
    /\ ftable' = [f \in File |-> [ftable[f] EXCEPT
          !.ref = @ + Cardinality({d \in Fd : ofile[p][d] = f})]]
    /\ UNCHANGED <<used, store, inode, dinode, lock, wr, logged>>

\* fileclose() of a file that is open
CloseFile(f) == IF ftable[f].ref = 1 THEN NewFile ELSE [ftable[f] EXCEPT !.ref = @ - 1]

\* sys_close().  The iput() of the last close is in module Dir.
Close(p, d) ==
    /\ Idle(p) /\ ofile[p][d] # NoFile
    /\ ofile' = [ofile EXCEPT ![p][d] = NoFile]
    /\ ftable' = [ftable EXCEPT ![ofile[p][d]] = CloseFile(ofile[p][d])]
    /\ UNCHANGED <<used, store, inode, dinode, lock, wr, logged, calls>>

\* itrunc(), which iput() calls when nothing refers to the inode any more.
Trunc(i) ==
    /\ \A f \in File : ftable[f].ref > 0 => ftable[f].ip # i
    /\ lock[i] = NoProc /\ inode[i] # NewInode
    /\ used' = Bfree(used, TruncBlocks(i))
    /\ inode' = [inode EXCEPT ![i] = NewInode]
    /\ dinode' = [dinode EXCEPT ![i] = NewInode]
    /\ UNCHANGED <<store, lock, ftable, ofile, wr, logged, calls>>

-----------------------------------------------------------------------------
(* Reading and writing.                                                    *)

ReadEnd(off, n, size) == Min({off + n, size})

\* fileread(): readi() from the offset to the end of the file.
Read(p, d, n) ==
    /\ Call(p) /\ ofile[p][d] # NoFile
    /\ LET f == ofile[p][d]
           i == ftable[f].ip
       IN  /\ lock[i] = NoProc
           /\ ftable[f].off < inode[i].size
           /\ ftable' = [ftable EXCEPT ![f].off = ReadEnd(@, n, inode[i].size)]
    /\ UNCHANGED <<used, store, inode, dinode, lock, ofile, wr, logged>>

\* filewrite() of n bytes
Write(p, d, n) ==
    /\ Call(p) /\ ofile[p][d] # NoFile
    /\ wr' = [wr EXCEPT ![p] = [pc |-> "chunk", f |-> ofile[p][d], left |-> n,
                                off |-> 0, n1 |-> 0, tot |-> 0]]
    /\ UNCHANGED <<used, store, inode, dinode, lock, ftable, ofile, logged>>

\* Mutated filewrite(): a chunk may fill the whole share of a transaction.
MaxChunk_all == MAXOPBLOCKS * BSIZE

\* max of filewrite()
MaxChunk == ((MAXOPBLOCKS - 1 - 1 - 2) \div 2) * BSIZE

\* begin_op(), ilock() and the tests of writei(); when they fail filewrite()
\* returns -1.
WriteChunk(p) ==
    /\ wr[p].pc = "chunk"
    /\ LET f == wr[p].f
           i == ftable[f].ip
           n1 == Min({wr[p].left, MaxChunk})
           off == ftable[f].off
       IN  /\ lock[i] = NoProc
           /\ IF off > inode[i].size \/ off + n1 > MAXFILE * BSIZE
              THEN wr' = [wr EXCEPT ![p] = NoWrite] /\ UNCHANGED lock
              ELSE /\ wr' = [wr EXCEPT ![p] = [@ EXCEPT
                               !.pc = "copy", !.off = off, !.n1 = n1]]
                   /\ lock' = [lock EXCEPT ![i] = p]
    /\ UNCHANGED <<used, store, inode, dinode, ftable, ofile, logged, calls>>

\* Mutated writei(): every block is written from its start.
Within_zero(off) == 0

\* Mutated writei(): off by one.
Within_next(off) == (off + 1) % BSIZE

Within(off) == off % BSIZE

\* One turn of the loop of writei(), with bmap().
WriteBlock(p) ==
    /\ wr[p].pc = "copy" /\ wr[p].tot < wr[p].n1
    /\ LET i == ftable[wr[p].f].ip
           off == wr[p].off
           s == Bmap([used |-> used, store |-> store, addrs |-> inode[i].addrs,
                      log |-> logged[p], addr |-> 0], off \div BSIZE)
           k == Within(off)
           m == Min({wr[p].n1 - wr[p].tot, BSIZE - k})
       IN  /\ used' = s.used
           /\ store' = [s.store EXCEPT ![s.addr] =
                 [j \in 0 .. BSIZE - 1 |-> IF j \in k .. k + m - 1 THEN p ELSE @[j]]]
           /\ inode' = [inode EXCEPT ![i].addrs = s.addrs]
           /\ logged' = [logged EXCEPT ![p] = s.log \cup {DataBlock(s.addr)}]
           /\ wr' = [wr EXCEPT ![p].tot = @ + m, ![p].off = @ + m]
    /\ UNCHANGED <<dinode, lock, ftable, ofile, calls>>

\* Mutated writei(): the size in memory grows and is not written.
Iupdate_not(i, off) == dinode[i]

\* iupdate() of the inode with its new size
Iupdate(i, off) == [inode[i] EXCEPT !.size = off]

\* The end of writei() and of the turn in filewrite().
WriteDone(p) ==
    /\ wr[p].pc = "copy" /\ wr[p].tot = wr[p].n1
    /\ LET f == wr[p].f
           i == ftable[f].ip
           w == wr[p]
       IN  /\ IF w.off > inode[i].size
              THEN /\ inode' = [inode EXCEPT ![i].size = w.off]
                   /\ dinode' = [dinode EXCEPT ![i] = Iupdate(i, w.off)]
              ELSE UNCHANGED <<inode, dinode>>
           /\ ftable' = [ftable EXCEPT ![f].off = @ + w.n1]
           /\ lock' = [lock EXCEPT ![i] = NoProc]
           /\ wr' = [wr EXCEPT ![p] = IF w.left = w.n1 THEN NoWrite
                       ELSE [@ EXCEPT !.pc = "chunk", !.left = @ - w.n1,
                                      !.off = 0, !.n1 = 0, !.tot = 0]]
    /\ logged' = [logged EXCEPT ![p] = {}]
    /\ UNCHANGED <<used, store, ofile, calls>>

Next ==
    \/ \E p \in Proc :
        \/ \E i \in Inum : Open(p, i)
        \/ \E q \in Proc \ {p} : Fork(p, q)
        \/ \E d \in Fd : Dup(p, d) \/ Close(p, d)
        \/ \E d \in Fd, n \in Counts : Read(p, d, n) \/ Write(p, d, n)
        \/ WriteChunk(p) \/ WriteBlock(p) \/ WriteDone(p)
    \/ \E i \in Inum : Trunc(i)

Spec == Init /\ [][Next]_vars

-----------------------------------------------------------------------------
(* Properties.                                                             *)

Word == Proc \cup Block \cup {0}
Inodes == [addrs : [0 .. NDIRECT -> Block \cup {0}], size : 0 .. MAXFILE * BSIZE]

\* Type correctness.
TypeOK ==
    /\ used \subseteq Block
    /\ store \in [Block -> [0 .. BSIZE - 1 -> Word]]
    /\ inode \in [Inum -> Inodes] /\ dinode \in [Inum -> Inodes]
    /\ lock \in [Inum -> Proc \cup {NoProc}]
    /\ \A f \in File : ftable[f].ref \in Nat /\ ftable[f].off \in Nat
    /\ ofile \in [Proc -> [Fd -> File \cup {NoFile}]]

\* The slots of inode i: its addresses and those in its indirect block.
Slots(i) ==
    {<<k, inode[i].addrs[k]>> : k \in 0 .. NDIRECT}
      \cup (IF IndirectBlock(i) = 0 THEN {}
            ELSE {<<NDIRECT + 1 + k, store[IndirectBlock(i)][k]>> : k \in 0 .. NINDIRECT - 1})

Owners(b) == {<<i, s>> \in UNION {{i} \X Slots(i) : i \in Inum} : s[2] = b}

\* The bitmap is exact: a block that is marked belongs to one place in one
\* file, and a block that is not marked belongs to none.  Nothing is leaked,
\* shared or freed twice by balloc(), bmap(), bfree() and itrunc().
BlocksOwnedOnce ==
    /\ TypeOK
    /\ \A b \in Block : Cardinality(Owners(b)) = IF b \in used THEN 1 ELSE 0

\* What the disk says of an inode is what memory says of it whenever it is not
\* locked: writei() calls iupdate() only when the file grew, which is enough
\* because bmap() allocates nothing below the size.
InodeWritten ==
    \A i \in Inum : lock[i] = NoProc => dinode[i] = inode[i]

\* A turn of filewrite() writes no more blocks than begin_op() reserved, also
\* when it is not aligned, allocates every block and each block has a bitmap
\* block of its own.
WriteFits ==
    \A p \in Proc : wr[p].pc = "copy" =>
        Cardinality(logged[p] \cup {InodeBlock(ftable[wr[p].f].ip)}) <= MAXOPBLOCKS

\* The contents of a file, read as readi() reads them.
AddrOf(i, bn) ==
    IF bn < NDIRECT THEN inode[i].addrs[bn] ELSE store[IndirectBlock(i)][bn - NDIRECT]
ContentOf(i) ==
    [k \in 1 .. inode[i].size |-> store[AddrOf(i, (k - 1) \div BSIZE)][(k - 1) % BSIZE]]

content == [i \in Inum |-> ContentOf(i)]

C == INSTANCE Contents WITH MaxBytes <- MAXFILE * BSIZE

\* Every file is a byte sequence of its own (module Contents): no operation on
\* one file shows in another, and no file shows a byte that was not written
\* to it.
ContentsSpec == C!Spec

\* f is the only open file of inode i and stands at its end.
AtEnd(f, i) ==
    /\ ftable[f].ref > 0 /\ ftable[f].ip = i /\ ftable[f].off = inode[i].size
    /\ \A g \in File \ {f} : ftable[g].ref > 0 => ftable[g].ip # i

\* Processes that share an open file append to it: while the file stands at
\* its end, writes only ever add to the contents, in whatever order the turns
\* of their filewrite()s are made.
AppendsKept ==
    [][\A i \in Inum, f \in File :
          AtEnd(f, i) /\ ftable'[f].ref > 0
            => SubSeq(ContentOf(i)', 1, inode[i].size) = ContentOf(i)]_vars
=============================================================================
