------------------------------- MODULE DirInv -------------------------------
(***************************************************************************)
(* The inductive invariant of Dir: what the locals of a system call say    *)
(* about the inodes they point to, and how ref and nlink count.            *)
(***************************************************************************)
EXTENDS Dir

PCs == {"idle", "walk", "open", "chdir", "create", "found", "init", "created",
        "link", "linknew", "linkdir", "linkexists", "linkbad",
        "unlink", "unlinkip", "unlinkbad", "unlinked"}

\* The first and the second of the inodes that p has to put.
PutHead == [p \in Proc |-> IF puts[p] = << >> THEN None ELSE puts[p][1]]
PutNext == [p \in Proc |-> IF Len(puts[p]) = 2 THEN puts[p][2] ELSE None]

\* Where dp and ip are in use, and where they are not.
DpPCs == {"walk", "create", "init", "linkdir", "linkexists", "unlink",
          "unlinkip", "unlinkbad"}
IpPCs == {"open", "chdir", "found", "init", "created", "link", "linknew",
          "linkdir", "linkexists", "linkbad", "unlinkip", "unlinked"}
NamePCs == {"create", "init", "linkdir", "unlink", "unlinkip"}

\* The types of the inodes and of the locals.
InodeTypes ==
    /\ dinode \in [Inum -> [type : Types, nlink : Nat]]
    /\ copy \in [Inum -> [type : Types, nlink : Nat]]
    /\ ents \in [Inum -> [AllNames -> Inum \cup {None}]]
    /\ ref \in [Inum -> Nat]
    /\ valid \subseteq Inum
    /\ lock \in [Inum -> Proc \cup {NoProc}]

LocalTypes ==
    /\ call \in [Proc -> Calls \cup {NoCall}]
    /\ pc \in [Proc -> PCs]
    /\ rest \in [Proc -> Seq(Elem)]
    /\ dp \in [Proc -> Inum \cup {None}]
    /\ ip \in [Proc -> Inum \cup {None}]
    /\ puts \in [Proc -> Seq(Inum)]
    /\ \A p \in Proc : Len(puts[p]) <= 2
    /\ put \in [Proc -> {"check", "free", "drop"}]

FileTypes ==
    /\ cwd \in [Proc -> Inum]
    /\ file \in [Proc -> Inum \cup {None}]

\* Which call it is, and which locals are in use.
Shape(op, l, r, d, i) ==
    /\ IF l = "idle" THEN op = "none" ELSE op \in Ops
    /\ l = "open" => op \in {"open", "openw"}
    /\ l = "chdir" => op = "chdir"
    /\ l \in {"create", "found", "init", "created"} => op \in Creates
    /\ l \in {"unlink", "unlinkip", "unlinkbad", "unlinked"} => op = "unlink"
    /\ l \in {"link", "linknew", "linkdir", "linkexists", "linkbad"} => op = "link"
    /\ l = "walk" /\ i # None => op = "link"
    /\ (d # None <=> l \in DpPCs)
    /\ l # "walk" => (i # None <=> l \in IpPCs)
    /\ l \in NamePCs => r # << >>
    /\ l \in {"init", "unlinkip"} => Head(r) \in Name

Locals(p) ==
    /\ Shape(call[p].op, pc[p], rest[p], dp[p], ip[p])
    /\ pc[p] \in NamePCs => puts[p] = << >>
    /\ puts[p] = << >> => put[p] = "check"

\* p uses inode n: it may lock it.
Uses(p, n) ==
    \/ n = cwd[p] \/ n = file[p] \/ n = dp[p] \/ n = ip[p] \/ n = PutNext[p]
    \/ n = PutHead[p] /\ put[p] # "drop"

\* p has allocated n and not yet given it a name; p is about to free n.
IsFresh(p, n) == pc[p] = "init" /\ ip[p] = n
Frees(p, n) == put[p] = "free" /\ PutHead[p] = n

LinksAt(l, i) == \/ l \in {"linknew", "linkdir", "linkexists", "linkbad"}
                 \/ l = "walk" /\ i # None
Linking(p) == LinksAt(pc[p], ip[p])

\* What p knows of the inodes it uses.
Knows(p) ==
    /\ \A n \in Inum : Uses(p, n) => dinode[n].type # "none"
    /\ pc[p] \in DpPCs \ {"walk"} => dinode[dp[p]].type = "T_DIR"
    /\ pc[p] \in {"init", "linkexists", "unlinkip", "unlinkbad"} => lock[dp[p]] = p
    /\ pc[p] \in {"created", "unlinked"} => lock[ip[p]] = p
    /\ Linking(p) => dinode[ip[p]].type # "T_DIR"
    /\ pc[p] = "unlinkip" => ents[dp[p]][Head(rest[p])] = ip[p]
    /\ pc[p] = "init" => ents[dp[p]][Head(rest[p])] = None

\* The inode that p has just allocated.
FreshInv(p) ==
    pc[p] = "init" =>
        /\ dinode[ip[p]] = [type |-> CreateType(p), nlink |-> 0]
        /\ ents[ip[p]] = [x \in AllNames |-> None]
        /\ ip[p] \notin {cwd[p], file[p], dp[p]}
        /\ \A q \in Proc \ {p} : ~Uses(q, ip[p])

\* The inode that p is about to free.
FreeInv(p) ==
    put[p] = "free" => /\ lock[PutHead[p]] = p
                       /\ ref[PutHead[p]] = 1
                       /\ dinode[PutHead[p]].nlink = 0

\* How many processes a pointer of f refers to n.
Count(f, n) == Cardinality({p \in Proc : f[p] = n})

RefInv ==
    \A n \in Inum : ref[n] = Count(cwd, n) + Count(file, n) + Count(dp, n)
                               + Count(ip, n) + Count(PutHead, n) + Count(PutNext, n)

\* The subdirectories of n, and the processes that have counted in nlink a
\* name they have not written yet, or one they have erased.
SubDirs(n) == {x \in Name : ents[n][x] # None /\ dinode[ents[n][x]].type = "T_DIR"}
Counting(n) == {p \in Proc : ip[p] = n /\ (Linking(p) \/ pc[p] = "unlinked")}

LinkInv ==
    \A n \in Inum :
        dinode[n].nlink >= Cardinality(NamesOf(n)) + Cardinality(SubDirs(n))
                             + Cardinality(Counting(n)) + (IF n = ROOTINO THEN 1 ELSE 0)

CacheInv ==
    \A n \in valid : ref[n] > 0 => copy[n] = dinode[n] /\ dinode[n].type # "none"

\* Free inodes, and directories.
TreeInv ==
    \A n \in Inum :
        /\ dinode[n].type = "none" => /\ dinode[n].nlink = 0
                                      /\ ents[n] = [x \in AllNames |-> None]
        /\ dinode[n].type = "T_DIR" =>
               \/ ents[n]["."] = n
               \/ \E p \in Proc : IsFresh(p, n)
        /\ \A x \in Name : ents[n][x] # n
        /\ ents[n]["."] \in {None, n}

\* What the two counts say, without counting.
Counted ==
    /\ \A n \in Inum, p \in Proc : Uses(p, n) \/ PutHead[p] = n => ref[n] > 0
    /\ \A n \in Inum, p \in Proc : ref[n] = 1 /\ PutHead[p] = n =>
          /\ n \notin {cwd[p], file[p], dp[p], ip[p], PutNext[p]}
          /\ \A q \in Proc \ {p} : ~Uses(q, n) /\ PutHead[q] # n
    /\ dinode[ROOTINO].nlink > 0
    /\ \A n \in Inum : NamesOf(n) # {} \/ SubDirs(n) # {} \/ Counting(n) # {} =>
          dinode[n].nlink > 0

\* The invariant but for the counts.
DirFacts ==
    /\ InodeTypes /\ LocalTypes /\ FileTypes
    /\ \A p \in Proc : Locals(p) /\ Knows(p) /\ FreshInv(p) /\ FreeInv(p)
    /\ CacheInv /\ TreeInv /\ DotDotIsParent

DirInvariant == DirFacts /\ RefInv /\ LinkInv

-----------------------------------------------------------------------------
(* What a step of p may do.                                                *)

\* n is neither free nor about to be, and it has a name or is in use.
Live(n) ==
    /\ dinode[n].type # "none"
    /\ \A q \in Proc : ~IsFresh(q, n) /\ ~Frees(q, n)

\* To the others: their locals and what they have locked stay, and the inodes
\* they have just allocated or are about to free are left alone.
Guar(p) ==
    /\ \A q \in Proc \ {p} :
          /\ cwd'[q] = cwd[q] /\ file'[q] = file[q] /\ call'[q] = call[q]
          /\ pc'[q] = pc[q] /\ rest'[q] = rest[q] /\ dp'[q] = dp[q]
          /\ ip'[q] = ip[q] /\ puts'[q] = puts[q] /\ put'[q] = put[q]
    /\ \A n \in Inum :
          /\ lock[n] \notin {p, NoProc} => lock'[n] = lock[n] /\ ents'[n] = ents[n]
          /\ ents'[n] # ents[n] => Uses(p, n)
          /\ dinode'[n] # dinode[n] =>
                \/ dinode[n].type = "none" \/ Frees(p, n)
                \/ Uses(p, n) /\ dinode'[n].type = dinode[n].type
          /\ Uses(p, n)' => Uses(p, n) \/ Live(n) \/ dinode[n].type = "none"
          /\ ref'[n] # ref[n] =>
                PutHead[p] = n \/ Live(n) \/ dinode[n].type = "none"

\* To the reference counts: ref follows the pointers of p.
Is(m, n) == IF m = n THEN 1 ELSE 0
Pts(p, n) == Is(cwd[p], n) + Is(file[p], n) + Is(dp[p], n) + Is(ip[p], n)
               + Is(PutHead[p], n) + Is(PutNext[p], n)
RefFollows(p) == \A n \in Inum : ref'[n] + Pts(p, n) = ref[n] + Pts(p, n)'
=============================================================================
