-------------------------------- MODULE Dir ---------------------------------
(***************************************************************************)
(* The name space: inodes and their cache (ialloc to iput of fs.c),        *)
(* directories and path names (dirlookup, dirlink, namex), and the system  *)
(* calls of sysfile.c that change them, run by concurrent processes.       *)
(*                                                                         *)
(* A section between acquiresleep() and releasesleep() of one inode that   *)
(* waits for nothing in between is one step; where a call waits for a      *)
(* second inode while it holds one, the lock is held across steps.  iput() *)
(* is two steps and, when it frees the inode, three.  A cache entry is     *)
(* named by its inode number.  The log makes each call atomic with respect *)
(* to crashes (module Log), so crashes are not modelled here.              *)
(***************************************************************************)
EXTENDS Naturals, Sequences, FiniteSets

CONSTANTS
    Inum,          \* inode numbers 1 .. n, 1 is the root
    Name,          \* names other than "." and ".."
    Proc, NoProc,
    Calls          \* the system calls that are made, as records

ROOTINO == 1
None == 0
AllNames == Name \cup {".", ".."}

Absolute(path) == path # << >> /\ Head(path) = "/"
Elems(path) == IF Absolute(path) THEN Tail(path) ELSE path

Creates == {"creat", "mkdir", "mknod"}
Ops == Creates \cup {"open", "openw", "chdir", "link", "unlink"}

\* No path has "..": in a directory that was removed it may name a directory
\* that is gone as well.
Elem == Name \cup {"."}

ASSUME DirAssumption ==
    /\ IsFiniteSet(Inum) /\ Inum \subseteq Nat \ {None} /\ ROOTINO \in Inum
    /\ IsFiniteSet(Name) /\ Name \cap {".", ".."} = {}
    /\ IsFiniteSet(Proc) /\ NoProc \notin Proc
    /\ \A c \in Calls : /\ c.op \in Ops /\ Elems(c.path) \in Seq(Elem)
                        /\ c.op = "link" => Elems(c.new) \in Seq(Elem)

VARIABLES
    dinode,        \* the inodes on disk: type and nlink
    ents,          \* the contents of the directories
    ref, valid, copy, lock,   \* struct inode
    cwd, file,     \* of each process: current directory, its open file
    call, pc,      \* the system call a process is in, and where
    rest,          \* what is left of the path
    dp, ip,        \* the variables of the same name
    puts, put      \* inodes to iput() before the call goes on; the state of
                   \* the first of these iput()s

inodes == <<dinode, ents, ref, valid, copy, lock>>
locals == <<call, pc, rest, dp, ip, puts, put>>
vars == <<inodes, cwd, file, locals>>

Types == {"none", "T_FILE", "T_DIR", "T_DEV"}
NoCall == [op |-> "none"]

\* mkfs: the root directory; userinit: every process starts there.
Init ==
    /\ dinode = [n \in Inum |-> IF n = ROOTINO THEN [type |-> "T_DIR", nlink |-> 1]
                                ELSE [type |-> "none", nlink |-> 0]]
    /\ ents = [n \in Inum |-> [x \in AllNames |->
                  IF n = ROOTINO /\ x \notin Name THEN ROOTINO ELSE None]]
    /\ ref = [n \in Inum |-> IF n = ROOTINO THEN Cardinality(Proc) ELSE 0]
    /\ valid = {}
    /\ copy = dinode
    /\ lock = [n \in Inum |-> NoProc]
    /\ cwd = [p \in Proc |-> ROOTINO]
    /\ file = [p \in Proc |-> None]
    /\ call = [p \in Proc |-> NoCall]
    /\ pc = [p \in Proc |-> "idle"]
    /\ rest = [p \in Proc |-> << >>]
    /\ dp = [p \in Proc |-> None] /\ ip = [p \in Proc |-> None]
    /\ puts = [p \in Proc |-> << >>]
    /\ put = [p \in Proc |-> "check"]

-----------------------------------------------------------------------------
(* Inodes.                                                                 *)

\* p may go on, and may lock inode n.
At(p, l) == pc[p] = l /\ puts[p] = << >>
Unlocked(n) == lock[n] = NoProc

\* ilock() reads the inode unless the cache entry is valid.
Load(n) == IF n \in valid THEN copy[n] ELSE dinode[n]

\* The cache after ilock() of inode n.
Loaded(n) ==
    /\ valid' = valid \cup {n}
    /\ copy' = [copy EXCEPT ![n] = Load(n)]

\* ilock() of the inodes in S, a change f of their attributes and iupdate().
Update(S, f) ==
    /\ valid' = valid \cup S
    /\ copy' = [n \in Inum |-> IF n \in S THEN f[n] ELSE copy[n]]
    /\ dinode' = [n \in Inum |-> IF n \in S THEN f[n] ELSE dinode[n]]

Links(n, d) == [Load(n) EXCEPT !.nlink = @ + d]

Unlinks(n) == [Load(n) EXCEPT !.nlink = @ - 1]

\* iget(): the entry is recycled, and not valid, if nobody referred to it.
\* v is the set of valid entries before.
Iget(n, v) ==
    /\ ref' = [ref EXCEPT ![n] = @ + 1]
    /\ valid' = IF ref[n] = 0 THEN v \ {n} ELSE v

\* Mutated iput(): references of other processes are not looked at.
LastRef_any(n) == TRUE

LastRef(n) == ref[n] = 1

\* iput(), up to the decision.
IputCheck(p) ==
    /\ puts[p] # << >> /\ put[p] = "check"
    /\ LET n == Head(puts[p])
       IN  /\ Unlocked(n)
           /\ IF n \in valid /\ copy[n].nlink = 0 /\ LastRef(n)
              THEN /\ lock' = [lock EXCEPT ![n] = p]
                   /\ put' = [put EXCEPT ![p] = "free"]
              ELSE /\ put' = [put EXCEPT ![p] = "drop"]
                   /\ UNCHANGED lock
    /\ UNCHANGED <<dinode, ents, ref, valid, copy, cwd, file, call, pc, rest,
                   dp, ip, puts>>

\* Mutated iput(): the freed inode stays valid in the cache.
Invalid_not(n) == valid

Invalid(n) == valid \ {n}

\* itrunc(), type 0, iupdate(), valid = 0 and releasesleep().
IputFree(p) ==
    /\ puts[p] # << >> /\ put[p] = "free"
    /\ LET n == Head(puts[p])
       IN  /\ dinode' = [dinode EXCEPT ![n].type = "none"]
           /\ copy' = [copy EXCEPT ![n].type = "none"]
           /\ ents' = [ents EXCEPT ![n] = [x \in AllNames |-> None]]
           /\ valid' = Invalid(n)
           /\ lock' = [lock EXCEPT ![n] = NoProc]
    /\ put' = [put EXCEPT ![p] = "drop"]
    /\ UNCHANGED <<ref, cwd, file, call, pc, rest, dp, ip, puts>>

IputDrop(p) ==
    /\ puts[p] # << >> /\ put[p] = "drop"
    /\ ref' = [ref EXCEPT ![Head(puts[p])] = @ - 1]
    /\ puts' = [puts EXCEPT ![p] = Tail(@)]
    /\ put' = [put EXCEPT ![p] = "check"]
    /\ UNCHANGED <<dinode, ents, valid, copy, lock, cwd, file, call, pc, rest,
                   dp, ip>>

-----------------------------------------------------------------------------
(* Path names.                                                             *)

\* dirlookup(): the inode number of an entry; its iget() is in the action.
Dirlookup(d, name) == ents[d][name]

\* Where the call of p goes next, with the locals it keeps: the rest r of the
\* path, dp, ip, and the inodes to put first.
Go(p, l, r, d, i, ps) ==
    /\ pc' = [pc EXCEPT ![p] = l]
    /\ call' = IF l = "idle" THEN [call EXCEPT ![p] = NoCall] ELSE call
    /\ rest' = [rest EXCEPT ![p] = r]
    /\ dp' = [dp EXCEPT ![p] = d]
    /\ ip' = [ip EXCEPT ![p] = i]
    /\ puts' = [puts EXCEPT ![p] = ps]
    /\ UNCHANGED put

Return(p, ps) == Go(p, "idle", << >>, None, None, ps)

Start(p, path) == IF Absolute(path) THEN ROOTINO ELSE cwd[p]

CreateType(p) == CASE call[p].op = "creat" -> "T_FILE"
                   [] call[p].op = "mkdir" -> "T_DIR"
                   [] call[p].op = "mknod" -> "T_DEV"

\* The second path of link() is walked once the first one is in ip.
WalksNew(p) == call[p].op = "link" /\ ip[p] # None
WalksParent(p) == call[p].op \in Creates \cup {"unlink"} \/ WalksNew(p)

\* The code after namei() and nameiparent(), with a result and without.
Resume(p) == CASE call[p].op \in Creates -> "create"
               [] WalksNew(p) -> "linkdir"
               [] call[p].op \in {"open", "openw"} -> "open"
               [] OTHER -> call[p].op
WalkFails(p, ps) == IF WalksNew(p) THEN Go(p, "linkbad", << >>, None, ip[p], ps)
                    ELSE Return(p, ps)

\* namex(): iget() of the root or idup() of the current directory.
Enter(p, c) ==
    /\ At(p, "idle")
    /\ Iget(Start(p, c.path), valid)
    /\ call' = [call EXCEPT ![p] = c]
    /\ pc' = [pc EXCEPT ![p] = "walk"]
    /\ rest' = [rest EXCEPT ![p] = Elems(c.path)]
    /\ dp' = [dp EXCEPT ![p] = Start(p, c.path)]
    /\ UNCHANGED <<dinode, ents, copy, lock, cwd, file, ip, puts, put>>

\* One turn of the loop of namex(), with dirlookup().
Walk(p) ==
    /\ At(p, "walk") /\ rest[p] # << >>
    /\ LET d == dp[p]
           name == Head(rest[p])
           next == Dirlookup(d, name)
       IN  /\ Unlocked(d)
           /\ copy' = [copy EXCEPT ![d] = Load(d)]
           /\ \/ /\ Load(d).type # "T_DIR"
                 /\ valid' = valid \cup {d} /\ UNCHANGED ref
                 /\ WalkFails(p, <<d>>)
              \/ /\ Load(d).type = "T_DIR" /\ WalksParent(p) /\ Len(rest[p]) = 1
                 /\ valid' = valid \cup {d} /\ UNCHANGED ref
                 /\ Go(p, Resume(p), rest[p], d, ip[p], << >>)
              \/ /\ Load(d).type = "T_DIR" /\ ~(WalksParent(p) /\ Len(rest[p]) = 1)
                 /\ IF next = None
                    THEN /\ valid' = valid \cup {d} /\ UNCHANGED ref
                         /\ WalkFails(p, <<d>>)
                    ELSE /\ Iget(next, valid \cup {d})
                         /\ Go(p, "walk", Tail(rest[p]), next, ip[p], <<d>>)
    /\ UNCHANGED <<dinode, ents, lock, cwd, file>>

\* The end of namex().
WalkDone(p) ==
    /\ At(p, "walk") /\ rest[p] = << >>
    /\ IF WalksParent(p) THEN WalkFails(p, <<dp[p]>>)
       ELSE Go(p, Resume(p), << >>, None, dp[p], << >>)
    /\ UNCHANGED <<inodes, cwd, file>>

-----------------------------------------------------------------------------
(* open(), close(), chdir().                                               *)

\* filealloc() and fdalloc() find room for one file per process.
OpenFile(p) ==
    IF file[p] = None
    THEN file' = [file EXCEPT ![p] = ip[p]] /\ Return(p, << >>)
    ELSE UNCHANGED file /\ Return(p, <<ip[p]>>)

\* A directory is opened for reading only.
Open(p) ==
    /\ At(p, "open") /\ Unlocked(ip[p])
    /\ Loaded(ip[p])
    /\ IF Load(ip[p]).type = "T_DIR" /\ call[p].op = "openw"
       THEN UNCHANGED file /\ Return(p, <<ip[p]>>)
       ELSE OpenFile(p)
    /\ UNCHANGED <<dinode, ents, ref, lock, cwd>>

Close(p) ==
    /\ At(p, "idle") /\ file[p] # None
    /\ puts' = [puts EXCEPT ![p] = <<file[p]>>]
    /\ file' = [file EXCEPT ![p] = None]
    /\ UNCHANGED <<inodes, cwd, call, pc, rest, dp, ip, put>>

Chdir(p) ==
    /\ At(p, "chdir") /\ Unlocked(ip[p])
    /\ Loaded(ip[p])
    /\ IF Load(ip[p]).type = "T_DIR"
       THEN cwd' = [cwd EXCEPT ![p] = ip[p]] /\ Return(p, <<cwd[p]>>)
       ELSE UNCHANGED cwd /\ Return(p, <<ip[p]>>)
    /\ UNCHANGED <<dinode, ents, ref, lock, file>>

-----------------------------------------------------------------------------
(* create().                                                               *)

\* ialloc() takes the first free inode; it panics when there is none.
FreeInum(i) == /\ dinode[i].type = "none"
               /\ \A m \in Inum : dinode[m].type = "none" => i <= m

\* The name exists already.
CreateFinds(p) ==
    /\ At(p, "create")
    /\ LET d == dp[p]
           i == Dirlookup(d, Head(rest[p]))
       IN  /\ Unlocked(d) /\ i # None
           /\ copy' = [copy EXCEPT ![d] = Load(d)]
           /\ Iget(i, valid \cup {d})
           /\ Go(p, "found", << >>, None, i, <<d>>)
    /\ UNCHANGED <<dinode, ents, lock, cwd, file>>

CreateFound(p) ==
    /\ At(p, "found") /\ Unlocked(ip[p])
    /\ Loaded(ip[p])
    /\ IF CreateType(p) = "T_FILE" /\ Load(ip[p]).type = "T_FILE"
       THEN OpenFile(p)
       ELSE UNCHANGED file /\ Return(p, <<ip[p]>>)
    /\ UNCHANGED <<dinode, ents, ref, lock, cwd>>

\* ialloc() of a new inode; dp stays locked.
CreateAlloc(p) ==
    /\ At(p, "create")
    /\ \E i \in Inum :
       LET d == dp[p]
       IN  /\ FreeInum(i)
           /\ Unlocked(d) /\ Dirlookup(d, Head(rest[p])) = None
           /\ lock' = [lock EXCEPT ![d] = p]
           /\ dinode' = [dinode EXCEPT ![i] = [type |-> CreateType(p), nlink |-> 0]]
           /\ copy' = [copy EXCEPT ![d] = Load(d)]
           /\ Iget(i, valid \cup {d})
           /\ Go(p, "init", rest[p], d, i, << >>)
    /\ UNCHANGED <<ents, cwd, file>>

\* The rest of create(): ilock() of the new inode, its dots and its name.
\* dp is unlocked and put; the new inode is still locked.
CreateInit(p) ==
    /\ At(p, "init") /\ Unlocked(ip[p])
    /\ LET d == dp[p]
           i == ip[p]
           dir == CreateType(p) = "T_DIR"
       IN  /\ Update({d, i}, [n \in {d, i} |->
                IF n = i THEN [Load(i) EXCEPT !.nlink = 1]
                ELSE Links(d, IF dir THEN 1 ELSE 0)])
           /\ ents' = [ents EXCEPT
                ![i]["."] = IF dir THEN i ELSE None,
                ![i][".."] = IF dir THEN d ELSE None,
                ![d][Head(rest[p])] = i]
           /\ lock' = [lock EXCEPT ![d] = NoProc, ![i] = p]
           /\ Go(p, "created", << >>, None, i, <<d>>)
    /\ UNCHANGED <<ref, cwd, file>>

\* iunlock() in open(), iunlockput() in mkdir() and mknod().
Created(p) ==
    /\ At(p, "created")
    /\ lock' = [lock EXCEPT ![ip[p]] = NoProc]
    /\ IF call[p].op = "creat" THEN OpenFile(p)
       ELSE UNCHANGED file /\ Return(p, <<ip[p]>>)
    /\ UNCHANGED <<dinode, ents, ref, valid, copy, cwd>>

-----------------------------------------------------------------------------
(* link().                                                                 *)

\* Bound on nlink, a short in the code.
CONSTANT MaxLink

\* Mutated link(): the count is raised when the entry is written.
LinkFirst_not(n) == Load(n)

LinkFirst(n) == Links(n, 1)

\* Mutated link(): directories are linked too.
MayLink_dir(n) == TRUE

MayLink(n) == Load(n).type # "T_DIR"

\* namei(old) is done: ip->nlink++; then nameiparent(new) starts.
Link(p) ==
    /\ At(p, "link") /\ Unlocked(ip[p])
    /\ LET i == ip[p]
       IN  IF ~MayLink(i)
           THEN /\ Loaded(i)
                /\ Return(p, <<i>>)
                /\ UNCHANGED dinode
           ELSE /\ Load(i).nlink < MaxLink
                /\ Update({i}, [n \in {i} |-> LinkFirst(i)])
                /\ Go(p, "linknew", << >>, None, i, << >>)
    /\ UNCHANGED <<ents, ref, lock, cwd, file>>

LinkNew(p) ==
    /\ At(p, "linknew")
    /\ LET new == call[p].new
       IN  /\ Iget(Start(p, new), valid)
           /\ Go(p, "walk", Elems(new), Start(p, new), ip[p], << >>)
    /\ UNCHANGED <<dinode, ents, copy, lock, cwd, file>>

\* dirlink(): the entry is written, or it exists and is put while dp is locked.
LinkDir(p) ==
    /\ At(p, "linkdir")
    /\ LET d == dp[p]
           name == Head(rest[p])
           e == Dirlookup(d, name)
       IN  /\ Unlocked(d)
           /\ copy' = [copy EXCEPT ![d] = Load(d)]
           /\ IF e = None
              THEN /\ ents' = [ents EXCEPT ![d][name] = ip[p]]
                   /\ valid' = valid \cup {d}
                   /\ Return(p, <<d, ip[p]>>)
                   /\ UNCHANGED <<ref, lock>>
              ELSE /\ Iget(e, valid \cup {d})
                   /\ lock' = [lock EXCEPT ![d] = p]
                   /\ Go(p, "linkexists", << >>, d, ip[p], <<e>>)
                   /\ UNCHANGED ents
    /\ UNCHANGED <<dinode, cwd, file>>

LinkExists(p) ==
    /\ At(p, "linkexists")
    /\ lock' = [lock EXCEPT ![dp[p]] = NoProc]
    /\ Go(p, "linkbad", << >>, None, ip[p], <<dp[p]>>)
    /\ UNCHANGED <<dinode, ents, ref, valid, copy, cwd, file>>

LinkBad(p) ==
    /\ At(p, "linkbad") /\ Unlocked(ip[p])
    /\ Update({ip[p]}, [n \in {ip[p]} |-> Unlinks(n)])
    /\ Return(p, <<ip[p]>>)
    /\ UNCHANGED <<ents, ref, lock, cwd, file>>

-----------------------------------------------------------------------------
(* unlink().                                                               *)

\* dirlookup() in the locked parent, which stays locked if the name exists.
Unlink(p) ==
    /\ At(p, "unlink")
    /\ LET d == dp[p]
           name == Head(rest[p])
           i == IF name \in Name THEN Dirlookup(d, name) ELSE None
       IN  /\ Unlocked(d)
           /\ copy' = [copy EXCEPT ![d] = Load(d)]
           /\ IF i = None
              THEN /\ valid' = valid \cup {d}
                   /\ Return(p, <<d>>)
                   /\ UNCHANGED <<ref, lock>>
              ELSE /\ Iget(i, valid \cup {d})
                   /\ lock' = [lock EXCEPT ![d] = p]
                   /\ Go(p, "unlinkip", rest[p], d, i, << >>)
    /\ UNCHANGED <<dinode, ents, cwd, file>>

IsDirEmpty(n) == \A x \in Name : ents[n][x] = None

\* ilock() of the inode, then the entry is erased and the parent unlocked and
\* put; the inode is still locked.
UnlinkIp(p) ==
    /\ At(p, "unlinkip") /\ Unlocked(ip[p])
    /\ LET d == dp[p]
           i == ip[p]
           dir == Load(i).type = "T_DIR"
       IN  IF dir /\ ~IsDirEmpty(i)
           THEN /\ Loaded(i)
                /\ Go(p, "unlinkbad", << >>, d, None, <<i>>)
                /\ UNCHANGED <<dinode, ents, lock>>
           ELSE /\ Update({d, i}, [n \in {d, i} |->
                     IF n = d /\ dir THEN Unlinks(d) ELSE Load(n)])
                /\ ents' = [ents EXCEPT ![d][Head(rest[p])] = None]
                /\ lock' = [lock EXCEPT ![d] = NoProc, ![i] = p]
                /\ Go(p, "unlinked", << >>, None, i, <<d>>)
    /\ UNCHANGED <<ref, cwd, file>>

UnlinkBad(p) ==
    /\ At(p, "unlinkbad")
    /\ lock' = [lock EXCEPT ![dp[p]] = NoProc]
    /\ Return(p, <<dp[p]>>)
    /\ UNCHANGED <<dinode, ents, ref, valid, copy, cwd, file>>

Unlinked(p) ==
    /\ At(p, "unlinked")
    /\ Update({ip[p]}, [n \in {ip[p]} |-> Unlinks(n)])
    /\ lock' = [lock EXCEPT ![ip[p]] = NoProc]
    /\ Return(p, <<ip[p]>>)
    /\ UNCHANGED <<ents, ref, cwd, file>>

Next ==
    \E p \in Proc :
        \/ IputCheck(p) \/ IputFree(p) \/ IputDrop(p)
        \/ \E c \in Calls : Enter(p, c)
        \/ Walk(p) \/ WalkDone(p)
        \/ Open(p) \/ Close(p) \/ Chdir(p)
        \/ CreateFinds(p) \/ CreateFound(p) \/ CreateAlloc(p) \/ CreateInit(p)
        \/ Created(p)
        \/ Link(p) \/ LinkNew(p) \/ LinkDir(p) \/ LinkExists(p) \/ LinkBad(p)
        \/ Unlink(p) \/ UnlinkIp(p) \/ UnlinkBad(p) \/ Unlinked(p)

Spec == Init /\ [][Next]_vars
-----------------------------------------------------------------------------
(* Properties.                                                             *)

\* Type correctness.
TypeOK ==
    /\ dinode \in [Inum -> [type : Types, nlink : Nat]]
    /\ copy \in [Inum -> [type : Types, nlink : Nat]]
    /\ ents \in [Inum -> [AllNames -> Inum \cup {None}]]
    /\ ref \in [Inum -> Nat]
    /\ valid \subseteq Inum
    /\ lock \in [Inum -> Proc \cup {NoProc}]
    /\ cwd \in [Proc -> Inum]
    /\ file \in [Proc -> Inum \cup {None}]
    /\ call \in [Proc -> Calls \cup {NoCall}]
    /\ dp \in [Proc -> Inum \cup {None}]
    /\ ip \in [Proc -> Inum \cup {None}]
    /\ \A p \in Proc : puts[p] \in Seq(Inum) /\ Len(puts[p]) <= 2
    /\ put \in [Proc -> {"check", "free", "drop"}]

\* The directory entries that name n.
NamesOf(n) == {e \in Inum \X Name : ents[e[1]][e[2]] = n}

\* nlink never falls below the number of directory entries that name an inode,
\* whatever link(), unlink() and create() do meanwhile, so an inode that has a
\* name is not freed by iput() and unlink() does not panic on nlink < 1.
NamedIsAllocated ==
    /\ TypeOK
    /\ \A n \in Inum : NamesOf(n) # {} =>
        /\ dinode[n].type # "none"
        /\ dinode[n].nlink >= Cardinality(NamesOf(n))

\* The pointers to inode n: current directories, open files, local variables
\* and the inodes that are about to be put.
Pointers(n) ==
    {<<"cwd", p>> : p \in {q \in Proc : cwd[q] = n}}
      \cup {<<"file", p>> : p \in {q \in Proc : file[q] = n}}
      \cup {<<"dp", p>> : p \in {q \in Proc : dp[q] = n}}
      \cup {<<"ip", p>> : p \in {q \in Proc : ip[q] = n}}
      \cup {<<"put", p>> : p \in {q \in Proc : puts[q] # << >> /\ Head(puts[q]) = n}}
      \cup {<<"next", p>> : p \in {q \in Proc : Len(puts[q]) = 2 /\ puts[q][2] = n}}

\* An inode that a process has a pointer to stays in the cache and allocated:
\* nobody frees the inode of another's open file, current directory or path
\* lookup, and ilock() does not panic with "no type".  Only the iput() that
\* has just freed it still points to a free inode.
HeldIsAllocated ==
    \A n \in Inum :
        /\ ref[n] = Cardinality(Pointers(n))
        /\ dinode[n].type = "none" =>
               \A x \in Pointers(n) : x[1] = "put" /\ put[x[2]] = "drop"

\* The cache is write-through: what a valid entry says is what the disk says,
\* also when the inode was freed and allocated again while its last holder was
\* still leaving iput().
CacheIsCurrent ==
    \A n \in valid : ref[n] > 0 => copy[n] = dinode[n]

\* ".." of a directory that has a name is the directory the name is in.
DotDotIsParent ==
    \A n \in Inum : dinode[n].type = "T_DIR" =>
        \A e \in NamesOf(n) : NamesOf(n) = {e} /\ ents[n][".."] = e[1]

\* The comment of iput(): "If that was the last reference and the inode has
\* no links to it, free the inode (and its content) on disk."
LastPutFrees ==
    \A n \in Inum : ref[n] = 0 /\ dinode[n].type # "none" => dinode[n].nlink > 0

\* The inode whose lock p waits for in its next step.
Wants(p) ==
    IF puts[p] # << >> THEN IF put[p] = "check" THEN Head(puts[p]) ELSE None
    ELSE CASE pc[p] \in {"walk", "create", "linkdir", "unlink"} -> dp[p]
           [] pc[p] \in {"open", "chdir", "found", "init", "link", "linkbad",
                         "unlinkip"} -> ip[p]
           [] OTHER -> None

\* The comment on ilock(): its separation from iget() "helps avoid deadlock".
\* No two calls each wait for an inode that the other has locked.
NoCircularWait ==
    \A p, q \in Proc :
        ~ /\ Wants(p) # None /\ lock[Wants(p)] = q
          /\ Wants(q) # None /\ lock[Wants(q)] = p
=============================================================================
