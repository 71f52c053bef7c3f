------------------------------- MODULE Layout -------------------------------
(***************************************************************************)
(* Where things are on the disk: the numbers mkfs (mkfs.c) computes and    *)
(* writes into the super block, and the macros of fs.h by which both mkfs  *)
(* and the kernel find the block of an inode and of a bit of the free map. *)
(*   [ boot | super | log | inode blocks | free bit map | data blocks ]    *)
(***************************************************************************)
EXTENDS Integers

CONSTANTS
    FSSIZE,        \* blocks of the file system
    LOGSIZE,       \* blocks of the log
    NINODES,
    IPB, BPB       \* inodes and bits of the free map in a block

ASSUME LayoutAssumption ==
    /\ FSSIZE \in Nat /\ LOGSIZE \in Nat /\ NINODES \in Nat
    /\ IPB \in Nat \ {0} /\ BPB \in Nat \ {0}

nbitmap == FSSIZE \div BPB + 1
ninodeblocks == NINODES \div IPB + 1
nmeta == 2 + LOGSIZE + ninodeblocks + nbitmap

logstart == 2
inodestart == 2 + LOGSIZE
bmapstart == 2 + LOGSIZE + ninodeblocks

IBLOCK(i) == i \div IPB + inodestart
BBLOCK(b) == b \div BPB + bmapstart

LogBlocks == logstart .. logstart + LOGSIZE - 1
InodeBlocks == inodestart .. inodestart + ninodeblocks - 1
BitmapBlocks == bmapstart .. bmapstart + nbitmap - 1
=============================================================================
