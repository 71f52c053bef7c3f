------------------------------- MODULE MCDir --------------------------------
(* Instances of Dir for TLC.                                               *)
EXTENDS DirInv, TLC

A == <<"a">>
B == <<"b">>
AB == <<"a", "b">>
Root == <<"/">>
RootB == <<"/", "b">>

Sys(op, path) == [op |-> op, path |-> path]
SysLink(old, new) == [op |-> "link", path |-> old, new |-> new]

MCCalls ==
    {Sys("openw", A), Sys("creat", AB), Sys("mkdir", A), Sys("mknod", A),
     Sys("unlink", A), Sys("unlink", RootB), Sys("unlink", Root),
     SysLink(A, RootB), Sys("chdir", A), Sys("open", AB), Sys("mkdir", <<"a", ".">>)}

\* Open, close and unlink of one file.
CloseCalls == {Sys("creat", A), Sys("unlink", A)}

DirSymmetry == Permutations(Proc)
=============================================================================
