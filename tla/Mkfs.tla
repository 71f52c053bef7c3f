-------------------------------- MODULE Mkfs --------------------------------
(***************************************************************************)
(* mkfs (mkfs.c), which writes the first file system: the root directory   *)
(* and the files it is given, one turn of the loop of iappend() at a time. *)
(* Sizes count units of the size of a directory entry, which is also that  *)
(* of a block address: a block holds BSIZE of them, and an entry is known  *)
(* by its inode number.  An assert() that fails, or a read beyond the end  *)
(* of the image, ends the program with a message.                          *)
(***************************************************************************)
EXTENDS Layout, Sequences, FiniteSetsExt, SequencesExt

CONSTANTS
    BSIZE, NDIRECT,
    MaxFiles,      \* bound: files on the command line
    Lengths        \* their lengths

VARIABLES
    files,         \* the files: sequences of units
    made,          \* how many of them have an inode
    disk, dinode,  \* the data blocks and the inodes of the image
    bitmap,        \* the blocks that balloc() marked
    freeinode, freeblock,
    todo,          \* calls of iappend() to come: inode and units
    app,           \* the one that runs: its din, off and units left
    pc

vars == <<files, made, disk, dinode, bitmap, freeinode, freeblock, todo, app, pc>>

ROOTINO == 1
NINDIRECT == BSIZE
MAXFILE == NDIRECT + NINDIRECT
Zeroes == [k \in 0 .. BSIZE - 1 |-> 0]

\* bzero(&din), then the type and one link
NewInode(type) == [type |-> type, nlink |-> 1, size |-> 0, addrs |-> [k \in 0 .. NDIRECT |-> 0]]

\* The image after the zeroes and the super block, and ialloc(T_DIR) for the
\* root directory with the entries "." and "..".
Init ==
    /\ files \in UNION {[1 .. k -> {[j \in 1 .. n |-> 100 + j] : n \in Lengths}] : k \in 0 .. MaxFiles}
    /\ made = 0
    /\ disk = [b \in nmeta .. FSSIZE - 1 |-> Zeroes]
    /\ dinode = (ROOTINO :> NewInode("T_DIR"))
    /\ bitmap = {}
    /\ freeinode = 2 /\ freeblock = nmeta
    /\ todo = << <<ROOTINO, <<ROOTINO>> >>, <<ROOTINO, <<ROOTINO>> >> >>
    /\ app = <<>> /\ pc = "run"

\* The inode is found in block IBLOCK(inum), at inum % IPB.
rinode(inum) == dinode[inum]
winode(inum, din) == dinode' = [dinode EXCEPT ![inum] = din]

\* rsect() and wsect() beyond the image, and assert(), end the program.
Quit == pc' = "exit" /\ UNCHANGED <<files, made, disk, dinode, bitmap, freeinode, freeblock, todo, app>>

\* A file: ialloc(T_FILE), its entry in the root directory, and what read()
\* returns of it, a block at a time.
AddFile ==
    /\ pc = "run" /\ todo = <<>> /\ app = <<>> /\ made < Len(files)
    /\ LET f == files[made + 1]
           chunks == [k \in 1 .. (Len(f) + BSIZE - 1) \div BSIZE |->
                         <<freeinode, SubSeq(f, (k - 1) * BSIZE + 1, Min({k * BSIZE, Len(f)}))>>]
       IN  todo' = << <<ROOTINO, <<freeinode>> >> >> \o chunks
    /\ made' = made + 1
    /\ dinode' = dinode @@ (freeinode :> NewInode("T_FILE"))
    /\ freeinode' = freeinode + 1
    /\ UNCHANGED <<files, disk, bitmap, freeblock, app, pc>>

\* The start of iappend(): rinode().
Start ==
    /\ pc = "run" /\ todo # <<>> /\ app = <<>>
    /\ LET i == Head(todo)[1]
       IN  app' = <<[inum |-> i, din |-> rinode(i), off |-> rinode(i).size, data |-> Head(todo)[2]]>>
    /\ todo' = Tail(todo)
    /\ UNCHANGED <<files, made, disk, dinode, bitmap, freeinode, freeblock, pc>>

\* The address of block fbn: [din, free, disk, x], free being freeblock.
Slot(s, k) ==
    IF s.din.addrs[k] # 0 THEN [s EXCEPT !.x = s.din.addrs[k]]
    ELSE [s EXCEPT !.din.addrs[k] = s.free, !.free = @ + 1, !.x = s.free]

Indirect(s, k) ==
    IF s.x >= FSSIZE \/ s.disk[s.x][k] # 0 THEN [s EXCEPT !.x = IF @ >= FSSIZE THEN @ ELSE s.disk[@][k]]
    ELSE [s EXCEPT !.disk[s.x][k] = s.free, !.free = @ + 1, !.x = s.free]

\* Mutated iappend(): the indirect block is counted from 1.
Address_off(s, fbn) ==
    IF fbn < NDIRECT THEN Slot(s, fbn) ELSE Indirect(Slot(s, NDIRECT), (fbn - NDIRECT + 1) % NINDIRECT)

Address(s, fbn) ==
    IF fbn < NDIRECT THEN Slot(s, fbn) ELSE Indirect(Slot(s, NDIRECT), fbn - NDIRECT)

\* A turn of the loop of iappend(): n1 units go into block fbn.
Append1 ==
    /\ pc = "run" /\ app # <<>> /\ app[1].data # <<>>
    /\ LET a == app[1]
           fbn == a.off \div BSIZE
           s == Address([din |-> a.din, free |-> freeblock, disk |-> disk, x |-> 0], fbn)
           n1 == Min({Len(a.data), (fbn + 1) * BSIZE - a.off})
           at == a.off - fbn * BSIZE
       IN  IF fbn >= MAXFILE \/ s.x >= FSSIZE THEN Quit
           ELSE /\ disk' = [s.disk EXCEPT ![s.x] =
                               [k \in 0 .. BSIZE - 1 |-> IF k \in at .. at + n1 - 1 THEN a.data[k - at + 1] ELSE @[k]]]
                /\ freeblock' = s.free
                /\ app' = <<[a EXCEPT !.din = s.din, !.off = @ + n1, !.data = SubSeq(@, n1 + 1, Len(@))]>>
                /\ UNCHANGED <<files, made, dinode, bitmap, freeinode, todo, pc>>

\* Its end: winode() with the new size.
EndAppend ==
    /\ pc = "run" /\ app # <<>> /\ app[1].data = <<>>
    /\ winode(app[1].inum, [app[1].din EXCEPT !.size = app[1].off])
    /\ app' = <<>>
    /\ UNCHANGED <<files, made, disk, bitmap, freeinode, freeblock, todo, pc>>

\* off = ((off/BSIZE) + 1) * BSIZE
RootSize(off) == (off \div BSIZE + 1) * BSIZE

\* for(i = 0; i < used; i++)
Marked(used) == 0 .. used - 1

\* The end of main(): the size of the root directory, and balloc(freeblock).
Finish ==
    /\ pc = "run" /\ todo = <<>> /\ app = <<>> /\ made = Len(files)
    /\ IF freeblock >= BPB THEN Quit
       ELSE /\ winode(ROOTINO, [rinode(ROOTINO) EXCEPT !.size = RootSize(@)])
            /\ bitmap' = Marked(freeblock)
            /\ pc' = "done"
            /\ UNCHANGED <<files, made, disk, freeinode, freeblock, todo, app>>

Next == AddFile \/ Start \/ Append1 \/ EndAppend \/ Finish

Spec == Init /\ [][Next]_vars

-----------------------------------------------------------------------------
(* Properties.                                                             *)

\* The address of block bn of an inode as the kernel finds it (bmap() of fs.c),
\* 0 when there is none.
BlockOf(d, bn) ==
    IF bn < NDIRECT THEN d.addrs[bn]
    ELSE IF d.addrs[NDIRECT] = 0 THEN 0 ELSE disk[d.addrs[NDIRECT]][bn - NDIRECT]

Contents(d, n) ==
    [k \in 1 .. n |-> LET b == BlockOf(d, (k - 1) \div BSIZE)
                      IN  IF b = 0 THEN 0 ELSE disk[b][(k - 1) % BSIZE]]

\* The places of an inode that hold the number of a block, with that number.
Refs(i) ==
    {r \in {<<i, "block", bn, BlockOf(dinode[i], bn)>> : bn \in 0 .. MAXFILE - 1}
           \cup {<<i, "indirect", 0, dinode[i].addrs[NDIRECT]>>} : r[4] # 0}
AllRefs == UNION {Refs(i) : i \in DOMAIN dinode}

\* The kernel finds in the image what mkfs was given.  Every file has the content
\* of the host's file, and the root directory names all of them, the rest of it
\* being empty entries; each block in use belongs to one place of one inode and
\* is marked in the free map with the meta blocks, and no other is.  (When the
\* entries fill the last block of the root directory its size is a block more
\* than there is; see the README.)
ImageConsistent ==
    pc = "done" =>
        /\ \A k \in 1 .. Len(files) :
              /\ dinode[k + 1].size = Len(files[k]) /\ dinode[k + 1].type = "T_FILE"
              /\ Contents(dinode[k + 1], Len(files[k])) = files[k]
        /\ LET root == dinode[ROOTINO]
               n == Len(files) + 2
               held == ((n + BSIZE - 1) \div BSIZE) * BSIZE
           IN  /\ Contents(root, held) = [k \in 1 .. held |->
                                             IF k > n THEN 0 ELSE IF k <= 2 THEN ROOTINO ELSE k - 1]
               /\ root.size = IF n % BSIZE = 0 THEN held + BSIZE ELSE held
        /\ \A r, q \in AllRefs : r # q => r[4] # q[4]
        /\ bitmap = 0 .. nmeta - 1 \cup {r[4] : r \in AllRefs}
        /\ \A b \in bitmap : b < FSSIZE /\ BBLOCK(b) = bmapstart
        /\ \A i \in DOMAIN dinode : i < NINODES => IBLOCK(i) \in InodeBlocks
=============================================================================
