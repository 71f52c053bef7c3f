--------------------------- MODULE DirStepProofs ----------------------------
(***************************************************************************)
(* Proofs about Dir, first part: what one step of a system call does to    *)
(* the inodes, given that ref and nlink count what they should.            *)
(***************************************************************************)
EXTENDS DirInv, TLAPS

\* The constants.
LEMMA Constants ==
    /\ None \notin Inum /\ ROOTINO \in Inum /\ NoProc \notin Proc
    /\ "." \notin Name /\ ".." \notin Name
    /\ \A c \in Calls : /\ c.op \in Ops /\ Elems(c.path) \in Seq(Elem)
                        /\ c.op = "link" => Elems(c.new) \in Seq(Elem)
BY DirAssumption, Zenon

\* How nlink goes from a to b where the number of names grows by v, and that of
\* subdirectories goes from s to t.
Grows(a, b, s, t, v) ==
    \/ b = a + 1 /\ v = 1 /\ t = s
    \/ b = a /\ v = 0 /\ t = s
    \/ b = a + 1 /\ v = 0 /\ s = 0 /\ t = 1

Evens(a, b, s, t, v) == b + 0 + s + 0 = a + v + t + 0

\* nlink then still counts the names and the subdirectories.
LEMMA EvenOut ==
    ASSUME NEW a \in Nat, NEW b \in Nat, NEW s \in Nat, NEW t \in Nat, NEW v,
           Grows(a, b, s, t, v)
    PROVE  Evens(a, b, s, t, v)
BY DEF Grows, Evens

\* Freeing an inode keeps its record one of a dinode.
LEMMA FreedType ==
    ASSUME NEW f \in [Inum -> [type : Types, nlink : Nat]], NEW n \in Inum
    PROVE  [f EXCEPT ![n].type = "none"] \in [Inum -> [type : Types, nlink : Nat]]
BY DEF Types

\* A sequence of one or two elements.
LEMMA OneOrTwo ==
    ASSUME NEW S, NEW s \in Seq(S), s # << >>, Len(s) <= 2
    PROVE  /\ Head(s) = s[1] /\ s[1] \in S
           /\ Tail(s) \in Seq(S) /\ Len(Tail(s)) <= 2 /\ Len(Tail(s)) # 2
           /\ Len(s) = 2 => Tail(s) # << >> /\ Tail(s)[1] = s[2]
           /\ Len(s) # 2 => Tail(s) = << >>
<1>1. Len(s) # 0 /\ Len(s) \in Nat
  OBVIOUS
<1>2. /\ Head(s) = s[1] /\ Tail(s) \in Seq(S) /\ Len(Tail(s)) = Len(s) - 1
      /\ \A t \in Seq(S) : Len(t) = 0 <=> t = << >>
  OBVIOUS
<1>3. s[1] \in S /\ (Len(s) = 2 => Tail(s)[1] = s[2])
  BY <1>1
<1>4. /\ Len(Tail(s)) <= 2 /\ Len(Tail(s)) # 2
      /\ Len(s) = 2 => Len(Tail(s)) # 0
      /\ Len(s) # 2 => Len(Tail(s)) = 0
  BY <1>1, <1>2
<1> QED
  BY <1>2, <1>3, <1>4, Zenon
-----------------------------------------------------------------------------
(* The locals.                                                             *)

\* What Go() does: the locals of p are the given ones, h and x the inodes to
\* put, and the others' stay.
Goes(p, l, r, d, i, h, x) ==
    /\ pc'[p] = l /\ rest'[p] = r /\ dp'[p] = d /\ ip'[p] = i
    /\ PutHead'[p] = h /\ PutNext'[p] = x /\ put'[p] = put[p]
    /\ (puts'[p] = << >> <=> h = None)
    /\ \A q \in Proc \ {p} :
          /\ call'[q] = call[q] /\ pc'[q] = pc[q] /\ rest'[q] = rest[q]
          /\ dp'[q] = dp[q] /\ ip'[q] = ip[q] /\ puts'[q] = puts[q]
          /\ put'[q] = put[q]

\* The sequences of inodes to put that occur, and the first two in them.
PutsAre(ps, h, x) ==
    \/ ps = << >> /\ h = None /\ x = None
    \/ ps = <<h>> /\ h \in Inum /\ x = None
    \/ ps = <<h, x>> /\ h \in Inum /\ x \in Inum

\* The pending iput()s of a process as its two pointers.
LEMMA PutsOf ==
    ASSUME NEW p \in Proc, NEW h, NEW x, NEW ps, puts'[p] = ps,
           None \notin Inum, PutsAre(ps, h, x)
    PROVE  /\ ps \in Seq(Inum) /\ Len(ps) <= 2
           /\ PutHead'[p] = h /\ PutNext'[p] = x
           /\ (ps = << >> <=> h = None)
<1>1. CASE ps = << >> /\ h = None /\ x = None
  BY <1>1 DEF PutHead, PutNext
<1>2. CASE ps = <<h>> /\ h \in Inum /\ x = None
  BY <1>2 DEF PutHead, PutNext
<1>3. CASE ps = <<h, x>> /\ h \in Inum /\ x \in Inum
  BY <1>3 DEF PutHead, PutNext
<1> QED
  BY <1>1, <1>2, <1>3, Zenon DEF PutsAre

\* Where Go leaves the locals of a call.
LEMMA GoEffect ==
    ASSUME LocalTypes, NEW p \in Proc, NEW l \in PCs, NEW r \in Seq(Elem),
           NEW d \in Inum \cup {None}, NEW i \in Inum \cup {None},
           NEW h, NEW x, NEW ps, Go(p, l, r, d, i, ps), PutsAre(ps, h, x)
    PROVE  /\ LocalTypes' /\ Goes(p, l, r, d, i, h, x)
           /\ call'[p] = IF l = "idle" THEN NoCall ELSE call[p]
<1>0. None \notin Inum
  BY Constants, Zenon
<1>1. /\ pc' = [pc EXCEPT ![p] = l] /\ rest' = [rest EXCEPT ![p] = r]
      /\ dp' = [dp EXCEPT ![p] = d] /\ ip' = [ip EXCEPT ![p] = i]
      /\ puts' = [puts EXCEPT ![p] = ps] /\ put' = put
      /\ call' = IF l = "idle" THEN [call EXCEPT ![p] = NoCall] ELSE call
  BY Zenon DEF Go
<1>2. puts'[p] = ps
  BY <1>1, Zenon DEF LocalTypes
<1>3. /\ ps \in Seq(Inum) /\ Len(ps) <= 2
      /\ PutHead'[p] = h /\ PutNext'[p] = x /\ (ps = << >> <=> h = None)
  BY <1>0, <1>2, PutsOf, Zenon
<1>4. /\ pc' \in [Proc -> PCs] /\ rest' \in [Proc -> Seq(Elem)]
      /\ dp' \in [Proc -> Inum \cup {None}] /\ ip' \in [Proc -> Inum \cup {None}]
      /\ puts' \in [Proc -> Seq(Inum)] /\ call' \in [Proc -> Calls \cup {NoCall}]
  BY <1>1, <1>3, Zenon DEF LocalTypes
<1>5. \A q \in Proc : Len(puts'[q]) <= 2
  BY <1>1, <1>3, Zenon DEF LocalTypes
<1>6. LocalTypes'
  BY <1>1, <1>4, <1>5, Zenon DEF LocalTypes
<1>7. Goes(p, l, r, d, i, h, x)
  BY <1>1, <1>2, <1>3, Zenon DEF LocalTypes, Goes
<1>8. call'[p] = IF l = "idle" THEN NoCall ELSE call[p]
  BY <1>1, Zenon DEF LocalTypes
<1> QED
  BY <1>6, <1>7, <1>8, Zenon
-----------------------------------------------------------------------------
(* What a pointer to an inode guarantees.                                  *)

\* An inode in use is allocated, and ilock() finds what is on disk.
LEMMA InUse ==
    ASSUME DirFacts, Counted, NEW p \in Proc, NEW n \in Inum, Uses(p, n)
    PROVE  Load(n) = dinode[n] /\ dinode[n].type # "none" /\ ref[n] > 0
<1>1. dinode[n].type # "none"
  BY Zenon DEF DirFacts, Knows
<1>2. ref[n] > 0
  BY Zenon DEF Counted
<1> QED
  BY <1>1, <1>2, Zenon DEF DirFacts, CacheInv, Load

\* Nobody else is about to free what p uses, or has just allocated it.
LEMMA UsedIsLive ==
    ASSUME DirFacts, Counted, NEW p \in Proc, NEW n \in Inum, Uses(p, n),
           ~IsFresh(p, n), ~Frees(p, n)
    PROVE  Live(n)
<1>1. dinode[n].type # "none"
  BY Zenon DEF DirFacts, Knows
<1>2. ASSUME NEW q \in Proc, q # p PROVE ~IsFresh(q, n)
  BY <1>2, Zenon DEF DirFacts, FreshInv, IsFresh
<1>3. ASSUME NEW q \in Proc, q # p PROVE ~Frees(q, n)
  BY <1>3 DEF DirFacts, FreeInv, Frees, Counted
<1> QED
  BY <1>1, <1>2, <1>3, Zenon DEF Live

\* An inode that is linked is live.
LEMMA LinkedIsLive ==
    ASSUME DirFacts, NEW n \in Inum, dinode[n].nlink > 0
    PROVE  Live(n)
<1>1. dinode[n].type # "none"
  BY DEF DirFacts, TreeInv
<1>2. ASSUME NEW q \in Proc PROVE ~IsFresh(q, n)
  <2>1. SUFFICES ASSUME IsFresh(q, n) PROVE FALSE
    BY Zenon
  <2>2. dinode[n] = [type |-> CreateType(q), nlink |-> 0]
    BY <2>1, Zenon DEF DirFacts, FreshInv, IsFresh
  <2> QED
    BY <2>2
<1>3. ASSUME NEW q \in Proc PROVE ~Frees(q, n)
  BY DEF DirFacts, FreeInv, Frees
<1> QED
  BY <1>1, <1>2, <1>3, Zenon DEF Live

\* The root is live.
LEMMA RootIsLive ==
    ASSUME DirFacts, Counted
    PROVE  Live(ROOTINO)
BY LinkedIsLive, Constants, Zenon DEF Counted

\* So is an inode with a name.
LEMMA NamedIsLive ==
    ASSUME DirFacts, Counted, NEW d \in Inum, NEW x \in Name, ents[d][x] # None
    PROVE  ents[d][x] \in Inum /\ Live(ents[d][x])
<1>1. ents[d][x] \in Inum
  BY DEF DirFacts, InodeTypes, AllNames
<1>2. <<d, x>> \in NamesOf(ents[d][x])
  BY Zenon DEF NamesOf
<1>3. dinode[ents[d][x]].nlink > 0
  BY <1>1, <1>2, Zenon DEF Counted
<1> QED
  BY <1>1, <1>3, LinkedIsLive, Zenon

\* dirlookup() in a directory that p uses finds live inodes, and always finds
\* ".".
LEMMA LookupIsLive ==
    ASSUME DirFacts, Counted, NEW p \in Proc, NEW d \in Inum, Uses(p, d),
           ~IsFresh(p, d), ~Frees(p, d), NEW x \in Elem
    PROVE  /\ ents[d][x] \in Inum \cup {None}
           /\ ents[d][x] # None => ents[d][x] \in Inum /\ Live(ents[d][x])
           /\ ents[d][x] = None /\ dinode[d].type = "T_DIR" => x \in Name
<1>1. ents[d][x] \in Inum \cup {None}
  BY DEF DirFacts, InodeTypes, AllNames, Elem
<1>2. Live(d)
  BY UsedIsLive, Zenon
<1>3. CASE x \in Name
  BY <1>1, <1>3, NamedIsLive, Constants, Zenon
<1>4. CASE x = "."
  <2>1. ents[d]["."] \in {None, d}
    BY Zenon DEF DirFacts, TreeInv
  <2>2. dinode[d].type = "T_DIR" => ents[d]["."] = d
    BY <1>2, Zenon DEF DirFacts, TreeInv, Live
  <2> QED
    BY <1>4, <2>1, <2>2, <1>2, Constants, Zenon
<1> QED
  BY <1>3, <1>4, Zenon DEF Elem
-----------------------------------------------------------------------------
(* What a step of p leaves to the others.                                  *)

\* The first two of the inodes to put, unchanged.
LEMMA SamePuts ==
    ASSUME NEW q \in Proc, puts'[q] = puts[q]
    PROVE  PutHead'[q] = PutHead[q] /\ PutNext'[q] = PutNext[q]
BY Zenon DEF PutHead, PutNext

\* The facts that hold for q still hold after a step of p.
LEMMA Others ==
    ASSUME DirFacts, Counted, NEW p \in Proc, Guar(p), NEW q \in Proc, q # p
    PROVE  Locals(q)' /\ Knows(q)' /\ FreshInv(q)' /\ FreeInv(q)'
<1>1. /\ cwd'[q] = cwd[q] /\ file'[q] = file[q] /\ call'[q] = call[q]
      /\ pc'[q] = pc[q] /\ rest'[q] = rest[q] /\ dp'[q] = dp[q]
      /\ ip'[q] = ip[q] /\ puts'[q] = puts[q] /\ put'[q] = put[q]
      /\ PutHead'[q] = PutHead[q] /\ PutNext'[q] = PutNext[q]
  BY SamePuts, Zenon DEF Guar
<1>2. Locals(q) /\ Knows(q) /\ FreshInv(q) /\ FreeInv(q)
  BY Zenon DEF DirFacts
<1>3. ASSUME NEW n \in Inum PROVE Uses(q, n)' = Uses(q, n)
  BY <1>1, Zenon DEF Uses
<1>4. ASSUME NEW n \in Inum, Uses(q, n)
      PROVE  dinode[n].type # "none" /\ dinode'[n].type = dinode[n].type
  <2>1. dinode[n].type # "none"
    BY <1>2, <1>4, Zenon DEF Knows
  <2>2. ~Frees(p, n)
    BY <1>4, <2>1 DEF DirFacts, FreeInv, Frees, Counted
  <2> QED
    BY <2>1, <2>2, Zenon DEF Guar
<1>5. ASSUME NEW n \in Inum, lock[n] = q
      PROVE  lock'[n] = q /\ ents'[n] = ents[n]
  BY <1>5, Constants, Zenon DEF Guar
<1>6. Locals(q)'
  BY <1>1, <1>2, Zenon DEF Locals
<1>7. /\ pc[q] \in DpPCs => dp[q] \in Inum /\ Uses(q, dp[q])
      /\ pc[q] \in IpPCs \/ Linking(q) => ip[q] \in Inum /\ Uses(q, ip[q])
  BY <1>2, Zenon DEF Locals, Shape, Uses, DirFacts, LocalTypes, Linking, LinksAt, IpPCs
<1>8. Knows(q)'
  <2>1. \A n \in Inum : Uses(q, n)' => dinode'[n].type # "none"
    BY <1>3, <1>4, Zenon
  <2>2. pc'[q] \in DpPCs \ {"walk"} => dinode'[dp'[q]].type = "T_DIR"
    BY <1>1, <1>2, <1>4, <1>7, Zenon DEF Knows
  <2>3. /\ pc'[q] \in {"init", "linkexists", "unlinkip", "unlinkbad"} =>
              lock'[dp'[q]] = q
        /\ pc'[q] = "unlinkip" => ents'[dp'[q]][Head(rest'[q])] = ip'[q]
        /\ pc'[q] = "init" => ents'[dp'[q]][Head(rest'[q])] = None
    BY <1>1, <1>2, <1>5, <1>7, Zenon DEF Knows, DpPCs
  <2>4. pc'[q] \in {"created", "unlinked"} => lock'[ip'[q]] = q
    BY <1>1, <1>2, <1>5, <1>7, Zenon DEF Knows, IpPCs
  <2>5. Linking(q)' => dinode'[ip'[q]].type # "T_DIR"
    BY <1>1, <1>2, <1>4, <1>7, Zenon DEF Knows, Linking
  <2> QED
    BY <2>1, <2>2, <2>3, <2>4, <2>5, Zenon DEF Knows
<1>9. FreshInv(q)'
  <2>1. SUFFICES ASSUME pc[q] = "init"
                 PROVE  /\ dinode'[ip[q]] = [type |-> CreateType(q), nlink |-> 0]
                        /\ ents'[ip[q]] = [x \in AllNames |-> None]
                        /\ \A r \in Proc \ {q} : ~Uses(r, ip[q])'
    BY <1>1, <1>2, Zenon DEF FreshInv, CreateType
  <2>2. /\ ip[q] \in Inum /\ IsFresh(q, ip[q]) /\ Uses(q, ip[q])
        /\ dinode[ip[q]].type # "none"
    BY <2>1, <1>2, <1>4, <1>7, Zenon DEF IpPCs, IsFresh
  <2>3. \A r \in Proc \ {q} : ~Uses(r, ip[q])
    BY <1>2, <2>1, Zenon DEF FreshInv
  <2>4. ~Uses(p, ip[q]) /\ ~Frees(p, ip[q])
    BY <2>3, Zenon DEF Uses, Frees
  <2>5. dinode'[ip[q]] = dinode[ip[q]] /\ ents'[ip[q]] = ents[ip[q]]
    BY <2>2, <2>4, Zenon DEF Guar
  <2>6. ~Uses(p, ip[q])'
    BY <2>2, <2>4, Zenon DEF Guar, Live
  <2>7. ASSUME NEW r \in Proc, r # q PROVE ~Uses(r, ip[q])'
    <3>1. CASE r = p
      BY <3>1, <2>6, Zenon
    <3>2. CASE r # p
      <4>1. /\ cwd'[r] = cwd[r] /\ file'[r] = file[r] /\ dp'[r] = dp[r]
            /\ ip'[r] = ip[r] /\ put'[r] = put[r]
            /\ PutHead'[r] = PutHead[r] /\ PutNext'[r] = PutNext[r]
        BY <3>2, SamePuts, Zenon DEF Guar
      <4> QED
        BY <4>1, <2>3, <2>7, <1>1, Zenon DEF Uses
    <3> QED
      BY <3>1, <3>2, Zenon
  <2> QED
    BY <2>1, <2>5, <2>7, <1>2, Zenon DEF FreshInv
<1>10. FreeInv(q)'
  <2>1. SUFFICES ASSUME put[q] = "free"
                 PROVE  /\ lock'[PutHead[q]] = q /\ ref'[PutHead[q]] = 1
                        /\ dinode'[PutHead[q]].nlink = 0
    BY <1>1, Zenon DEF FreeInv
  <2>2. PutHead[q] \in Inum
    BY <2>1, <1>2 DEF DirFacts, LocalTypes, Locals, PutHead
  <2>3. Uses(q, PutHead[q]) /\ Frees(q, PutHead[q]) /\ dinode[PutHead[q]].type # "none"
    BY <2>1, <2>2, <1>2, Zenon DEF Uses, Frees, Knows
  <2>4. lock[PutHead[q]] = q /\ ref[PutHead[q]] = 1 /\ dinode[PutHead[q]].nlink = 0
    BY <2>1, <1>2, Zenon DEF FreeInv
  <2>5. ~Uses(p, PutHead[q]) /\ PutHead[p] # PutHead[q]
    BY <2>2, <2>4, Zenon DEF Counted
  <2> QED
    BY <2>2, <2>3, <2>4, <2>5, <1>5, Zenon DEF Guar, Live, Frees
<1> QED
  BY <1>6, <1>8, <1>9, <1>10, Zenon
-----------------------------------------------------------------------------
(* Steps that change the locals of p and the cache.                        *)

\* What is known of p after its step.
Keeps(p) ==
    /\ InodeTypes' /\ LocalTypes' /\ FileTypes' /\ CacheInv'
    /\ Locals(p)' /\ Knows(p)' /\ FreshInv(p)' /\ FreeInv(p)'
    /\ Guar(p) /\ RefFollows(p)

\* No link count, no directory and no link that p has counted changes.
Quiet(p) ==
    /\ UNCHANGED <<dinode, ents>>
    /\ pc[p] # "init" /\ pc'[p] # "init"
    /\ (Linking(p) \/ pc[p] = "unlinked")' <=> (Linking(p) \/ pc[p] = "unlinked")
    /\ Linking(p) \/ pc[p] = "unlinked" => ip'[p] = ip[p]

\* What p has in hand when it has nothing to put.
LEMMA InHand ==
    ASSUME DirFacts, Counted, NEW p \in Proc, puts[p] = << >>
    PROVE  /\ put[p] = "check" /\ PutHead[p] = None /\ PutNext[p] = None
           /\ cwd[p] \in Inum /\ Live(cwd[p])
           /\ file[p] # None => file[p] \in Inum /\ Live(file[p])
           /\ dp[p] # None => /\ dp[p] \in Inum /\ Uses(p, dp[p]) /\ Live(dp[p])
                              /\ Load(dp[p]) = dinode[dp[p]]
           /\ ip[p] # None => /\ ip[p] \in Inum /\ Uses(p, ip[p])
                              /\ Load(ip[p]) = dinode[ip[p]]
                              /\ pc[p] # "init" => Live(ip[p])
<1>0. Locals(p) /\ FreshInv(p)
  BY Zenon DEF DirFacts
<1>1. put[p] = "check" /\ PutHead[p] = None /\ PutNext[p] = None
  BY <1>0 DEF Locals, PutHead, PutNext
<1>2. cwd[p] \in Inum /\ file[p] \in Inum \cup {None}
  BY Zenon DEF DirFacts, FileTypes
<1>3. dp[p] \in Inum \cup {None} /\ ip[p] \in Inum \cup {None}
  BY Zenon DEF DirFacts, LocalTypes
<1>4. ASSUME NEW n \in Inum,
             n \in {cwd[p], file[p], dp[p]} \/ (n = ip[p] /\ pc[p] # "init")
      PROVE  Live(n)
  <2>1. Uses(p, n) /\ ~Frees(p, n)
    BY <1>4, <1>1, Zenon DEF Uses, Frees
  <2>2. ~IsFresh(p, n)
    BY <1>4, <1>0, Zenon DEF FreshInv, IsFresh
  <2> QED
    BY <2>1, <2>2, UsedIsLive, Zenon
<1>5. ASSUME NEW n \in Inum, n = dp[p] \/ n = ip[p]
      PROVE  Uses(p, n) /\ Load(n) = dinode[n]
  <2>1. Uses(p, n)
    BY <1>5, Zenon DEF Uses
  <2> QED
    BY <2>1, InUse, Zenon
<1>6. dp[p] # None => /\ dp[p] \in Inum /\ Uses(p, dp[p]) /\ Live(dp[p])
                      /\ Load(dp[p]) = dinode[dp[p]]
  BY <1>3, <1>4, <1>5, Zenon
<1>7. ip[p] # None => /\ ip[p] \in Inum /\ Uses(p, ip[p])
                      /\ Load(ip[p]) = dinode[ip[p]]
                      /\ pc[p] # "init" => Live(ip[p])
  BY <1>3, <1>4, <1>5, Zenon
<1>8. cwd[p] \in Inum /\ Live(cwd[p])
  BY <1>2, <1>4, Zenon
<1>9. file[p] # None => file[p] \in Inum /\ Live(file[p])
  BY <1>2, <1>4, Zenon
<1> QED
  BY <1>1, <1>6, <1>7, <1>8, <1>9, Zenon

\* p may use what its locals point to after the step.
Ready(p, l, r, d, i, h, x) ==
    /\ l # "init" /\ (l \in NamePCs => h = None)
    /\ \A n \in Inum : n \in {cwd'[p], file'[p], d, i, h, x} => Uses(p, n) \/ Live(n)
    /\ l \in DpPCs \ {"walk"} => dinode[d].type = "T_DIR"
    /\ l \in {"linkexists", "unlinkip", "unlinkbad"} => lock'[d] = p
    /\ l \in {"created", "unlinked"} => lock'[i] = p
    /\ l = "unlinkip" => ents'[d][Head(r)] = i
    /\ LinksAt(l, i) => dinode[i].type # "T_DIR"

\* The locals of p after the step.
Fits(p, l, r, d, i, h, x) ==
    /\ Goes(p, l, r, d, i, h, x) /\ Shape(call'[p].op, l, r, d, i)
    /\ Ready(p, l, r, d, i, h, x)

\* The inodes after the step: p changes what it uses and nobody else has
\* locked, and allocates and frees nothing.
Shared(p) ==
    /\ InodeTypes' /\ CacheInv'
    /\ \A n \in Inum :
          /\ lock[n] \notin {p, NoProc} => lock'[n] = lock[n] /\ ents'[n] = ents[n]
          /\ ents'[n] # ents[n] => Uses(p, n)
          /\ dinode'[n] # dinode[n] => Uses(p, n)
          /\ dinode'[n].type = dinode[n].type
          /\ ref'[n] # ref[n] => Live(n)

\* The current directory and the file of no other process change.
OwnFiles(p) ==
    FileTypes' /\ \A q \in Proc \ {p} : cwd'[q] = cwd[q] /\ file'[q] = file[q]

\* How ref follows the pointers.
LEMMA IsNat ==
    /\ \A m, n : Is(m, n) \in Nat
    /\ \A n \in Inum : Is(None, n) = 0
BY Constants, Zenon DEF Is

\* iget() adds one to ref of one inode.
LEMMA Igets ==
    ASSUME ref \in [Inum -> Nat], NEW m \in Inum, NEW v, Iget(m, v)
    PROVE  \A n \in Inum : ref'[n] = ref[n] + Is(m, n)
BY DEF Iget, Is

\* The pointers of p before and after the step account for ref.
Balance(p, d, i, h, x) ==
    \A n \in Inum :
        ref'[n] + Is(cwd[p], n) + Is(file[p], n) + Is(dp[p], n) + Is(ip[p], n)
          = ref[n] + Is(cwd'[p], n) + Is(file'[p], n) + Is(d, n) + Is(i, n)
              + Is(h, n) + Is(x, n)

\* ialloc()'s iget() of inode i.
Gains(i) ==
    /\ ref \in [Inum -> Nat] /\ ref' \in [Inum -> Nat]
    /\ \A n \in Inum : ref'[n] = ref[n] + Is(i, n)

\* The new reference is the one in ip.
LEMMA GainBalances ==
    ASSUME NEW p \in Proc, NEW i, Gains(i), ip[p] = None,
           cwd'[p] = cwd[p], file'[p] = file[p]
    PROVE  Balance(p, dp[p], i, None, None)
BY IsNat DEF Gains, Balance

\* iput()'s decrement of the reference count of inode n.
Loses(n) ==
    /\ n \in Inum /\ ref \in [Inum -> Nat] /\ ref[n] > 0
    /\ \A m \in Inum : ref'[m] = IF m = n THEN ref[m] - 1 ELSE ref[m]

\* The pointer it came from is gone and the next of puts is now the first.
LEMMA LossBalances ==
    ASSUME NEW p \in Proc, Loses(PutHead[p]), PutHead'[p] = PutNext[p], PutNext'[p] = None,
           UNCHANGED <<cwd, file, dp, ip>>
    PROVE  RefFollows(p)
<1>1. SUFFICES ASSUME NEW m \in Inum PROVE ref'[m] + Pts(p, m) = ref[m] + Pts(p, m)'
  BY Zenon DEF RefFollows
<1>2. ref'[m] + Is(PutHead[p], m) = ref[m] /\ ref'[m] \in Nat
  BY DEF Loses, Is
<1>3. Is(PutHead'[p], m) = Is(PutNext[p], m) /\ Is(PutNext'[p], m) = 0
  BY IsNat, Zenon
<1> QED
  BY <1>2, <1>3, IsNat DEF Pts

\* If ref balances with what a call gains and drops, it follows the pointers.
LEMMA RefMoves ==
    ASSUME NEW p \in Proc, PutHead[p] = None, PutNext[p] = None,
           NEW l, NEW r, NEW d, NEW i, NEW h, NEW x, Goes(p, l, r, d, i, h, x),
           InodeTypes, InodeTypes', Balance(p, d, i, h, x)
    PROVE  RefFollows(p)
<1>1. dp'[p] = d /\ ip'[p] = i /\ PutHead'[p] = h /\ PutNext'[p] = x
  BY Zenon DEF Goes
<1>2. ref \in [Inum -> Nat] /\ ref' \in [Inum -> Nat]
  BY Zenon DEF InodeTypes
<1>3. ASSUME NEW n \in Inum
      PROVE  /\ Pts(p, n) = Is(cwd[p], n) + Is(file[p], n) + Is(dp[p], n) + Is(ip[p], n)
             /\ Pts(p, n)' = Is(cwd'[p], n) + Is(file'[p], n) + Is(d, n) + Is(i, n)
                               + Is(h, n) + Is(x, n)
  BY <1>1, IsNat DEF Pts
<1>4. ASSUME NEW n \in Inum
      PROVE  ref'[n] + Pts(p, n) = ref[n] + Pts(p, n)'
  BY <1>2, <1>3, IsNat DEF Balance
<1> QED
  BY <1>4, Zenon DEF RefFollows

\* A step of p that leaves the inodes and the locals like this is right.
LEMMA Moves ==
    ASSUME DirFacts, Counted, NEW p \in Proc, puts[p] = << >>, Shared(p), OwnFiles(p),
           LocalTypes', NEW l, NEW r, NEW d, NEW i, NEW h, NEW x,
           Fits(p, l, r, d, i, h, x), Balance(p, d, i, h, x)
    PROVE  Keeps(p)
<1>1. put[p] = "check" /\ PutHead[p] = None /\ PutNext[p] = None
  BY InHand, Zenon
<1>2. Goes(p, l, r, d, i, h, x)
  BY Zenon DEF Fits
<1>3. \A n \in Inum : Uses(p, n)' => Uses(p, n) \/ Live(n)
  BY <1>2 DEF Fits, Ready, Goes, Uses
<1>4. Guar(p)
  BY <1>2, <1>3, Zenon DEF Guar, Goes, Shared, OwnFiles
<1>5. /\ d \in Inum \cup {None} /\ i \in Inum \cup {None}
      /\ pc'[p] = l /\ rest'[p] = r /\ dp'[p] = d /\ ip'[p] = i /\ put'[p] = "check"
  BY <1>1, <1>2, Zenon DEF LocalTypes, Goes
<1>6. \A n \in Inum : dinode'[n].type = dinode[n].type
  BY Zenon DEF Shared
<1>7. Knows(p)'
  <2>1. \A n \in Inum : Uses(p, n)' => dinode'[n].type # "none"
    BY <1>3, <1>6, Zenon DEF DirFacts, Knows, Live
  <2>2. (l \in DpPCs => d \in Inum) /\ (LinksAt(l, i) => i \in Inum)
    BY <1>5, Zenon DEF Fits, Shape, LinksAt, IpPCs
  <2>3. /\ l \in DpPCs \ {"walk"} => dinode'[d].type = "T_DIR"
        /\ LinksAt(l, i) => dinode'[i].type # "T_DIR"
    BY <1>6, <2>2, Zenon DEF Fits, Ready
  <2> QED
    BY <1>5, <2>1, <2>3, Zenon DEF Fits, Ready, Knows, Linking
<1>8. FreshInv(p)' /\ FreeInv(p)'
  BY <1>5, Zenon DEF Fits, Ready, FreshInv, FreeInv
<1>9. Locals(p)'
  <2>1. Shape(call'[p].op, l, r, d, i) /\ (l \in NamePCs => puts'[p] = << >>)
    BY <1>2, Zenon DEF Fits, Ready, Goes
  <2> QED
    BY <1>5, <2>1, Zenon DEF Locals
<1>10. RefFollows(p)
  BY <1>1, <1>2, RefMoves, Zenon DEF DirFacts, Shared
<1> QED
  BY <1>4, <1>7, <1>8, <1>9, <1>10, Zenon DEF Keeps, Shared, OwnFiles

-----------------------------------------------------------------------------
(* What the steps do to the inodes.                                        *)

\* The locks that others hold stay.
OwnLocks(p) ==
    /\ lock' \in [Inum -> Proc \cup {NoProc}]
    /\ \A n \in Inum : lock[n] \notin {p, NoProc} => lock'[n] = lock[n]

\* ilock() of d, and perhaps iget() of a live inode.
LEMMA Loads ==
    ASSUME DirFacts, Counted, NEW p \in Proc, NEW d \in Inum, Uses(p, d),
           UNCHANGED <<dinode, ents>>, OwnLocks(p), copy' = [copy EXCEPT ![d] = Load(d)],
           \/ valid' = valid \cup {d} /\ UNCHANGED ref
           \/ \E m \in Inum : Live(m) /\ Iget(m, valid \cup {d})
    PROVE  Shared(p)
<1>1. Load(d) = dinode[d] /\ dinode[d].type # "none" /\ ref[d] > 0
  BY InUse, Zenon
<1>2. InodeTypes /\ CacheInv
  BY Zenon DEF DirFacts
<1>3. copy' \in [Inum -> [type : Types, nlink : Nat]]
  BY <1>1, <1>2, Zenon DEF InodeTypes
<1>4. CASE valid' = valid \cup {d} /\ UNCHANGED ref
  <2>1. InodeTypes'
    BY <1>2, <1>3, <1>4, Zenon DEF InodeTypes, OwnLocks
  <2>2. CacheInv'
    BY <1>1, <1>2, <1>4, Zenon DEF InodeTypes, CacheInv
  <2> QED
    BY <2>1, <2>2, <1>4, Zenon DEF Shared, OwnLocks
<1>5. CASE \E m \in Inum : Live(m) /\ Iget(m, valid \cup {d})
  <2>1. PICK m \in Inum : Live(m) /\ Iget(m, valid \cup {d})
    BY <1>5, Zenon
  <2>2. /\ ref' = [ref EXCEPT ![m] = @ + 1]
        /\ valid' = IF ref[m] = 0 THEN (valid \cup {d}) \ {m} ELSE valid \cup {d}
    BY <2>1, Zenon DEF Iget
  <2>3. InodeTypes'
    BY <1>2, <1>3, <2>2 DEF InodeTypes, OwnLocks
  <2>4. CacheInv'
    BY <1>1, <1>2, <2>2 DEF InodeTypes, CacheInv
  <2> QED
    BY <1>2, <2>1, <2>2, <2>3, <2>4, Zenon DEF InodeTypes, Shared, OwnLocks
<1> QED
  BY <1>4, <1>5, Zenon

\* iget() alone, or nothing but locks.
LEMMA Gets ==
    ASSUME DirFacts, NEW p \in Proc, OwnLocks(p), UNCHANGED <<dinode, ents, copy>>,
           \/ UNCHANGED <<valid, ref>>
           \/ \E m \in Inum : Live(m) /\ Iget(m, valid)
    PROVE  Shared(p)
<1>1. InodeTypes /\ CacheInv
  BY Zenon DEF DirFacts
<1>2. CASE UNCHANGED <<valid, ref>>
  BY <1>1, <1>2, Zenon DEF InodeTypes, CacheInv, Shared, OwnLocks
<1>3. CASE \E m \in Inum : Live(m) /\ Iget(m, valid)
  <2>1. PICK m \in Inum : Live(m) /\ Iget(m, valid)
    BY <1>3, Zenon
  <2>2. /\ ref' = [ref EXCEPT ![m] = @ + 1]
        /\ valid' = IF ref[m] = 0 THEN valid \ {m} ELSE valid
    BY <2>1, Zenon DEF Iget
  <2>3. InodeTypes' /\ CacheInv'
    BY <1>1, <2>2 DEF InodeTypes, CacheInv, OwnLocks
  <2> QED
    BY <1>1, <2>1, <2>2, <2>3, Zenon DEF InodeTypes, Shared, OwnLocks
<1> QED
  BY <1>2, <1>3, Zenon

\* ilock() and iupdate() of the inodes in S, which keep their type.
LEMMA Updates ==
    ASSUME DirFacts, Counted, NEW p \in Proc, OwnLocks(p), UNCHANGED ref,
           NEW S \in SUBSET Inum, NEW f \in [S -> [type : Types, nlink : Nat]],
           Update(S, f), \A n \in S : Uses(p, n) /\ f[n].type = dinode[n].type,
           ents' \in [Inum -> [AllNames -> Inum \cup {None}]],
           \A n \in Inum : ents'[n] # ents[n] => Uses(p, n) /\ lock[n] \in {p, NoProc}
    PROVE  Shared(p)
<1>1. InodeTypes /\ CacheInv /\ Knows(p)
  BY Zenon DEF DirFacts
<1>2. /\ valid' = valid \cup S
      /\ copy' = [n \in Inum |-> IF n \in S THEN f[n] ELSE copy[n]]
      /\ dinode' = [n \in Inum |-> IF n \in S THEN f[n] ELSE dinode[n]]
  BY Zenon DEF Update
<1>3. InodeTypes'
  BY <1>1, <1>2, Zenon DEF InodeTypes, OwnLocks
<1>4. \A n \in S : dinode[n].type # "none"
  BY <1>1, Zenon DEF Knows
<1>5. CacheInv'
  BY <1>1, <1>2, <1>4, Zenon DEF InodeTypes, CacheInv
<1> QED
  BY <1>2, <1>3, <1>5, Zenon DEF Shared, OwnLocks

\* A new link count.
LEMMA Counts ==
    ASSUME NEW a \in [type : Types, nlink : Nat], NEW k \in Nat
    PROVE  /\ [a EXCEPT !.nlink = k] \in [type : Types, nlink : Nat]
           /\ [a EXCEPT !.nlink = k].type = a.type /\ [a EXCEPT !.nlink = k].nlink = k
BY Zenon

\* A new directory entry.
Entries == [Inum -> [AllNames -> Inum \cup {None}]]

Sets(f, e, n, x, v) ==
    /\ f \in Entries
    /\ \A m \in Inum : m # n => f[m] = e[m]
    /\ \A y \in AllNames : f[n][y] = IF y = x THEN v ELSE e[n][y]

\* What writing one entry does to the entries.
LEMMA SetEntry ==
    ASSUME NEW e \in Entries, NEW n \in Inum, NEW x \in AllNames,
           NEW v \in Inum \cup {None}, NEW f, f = [e EXCEPT ![n][x] = v]
    PROVE  f \in Entries /\ Sets(f, e, n, x, v)
BY Zenon DEF Entries, Sets
-----------------------------------------------------------------------------
(* The steps of the calls.                                                 *)

\* A call that returns.
LEMMA Returns ==
    ASSUME DirFacts, Counted, NEW p \in Proc, puts[p] = << >>, Shared(p), OwnFiles(p),
           NEW h, NEW x, NEW ps, Return(p, ps), PutsAre(ps, h, x),
           \A n \in Inum : n \in {cwd'[p], file'[p], h, x} => Uses(p, n),
           Balance(p, None, None, h, x)
    PROVE  Keeps(p) /\ pc'[p] = "idle" /\ ~Linking(p)'
<1>1. /\ Go(p, "idle", << >>, None, None, ps) /\ LocalTypes
      /\ "idle" \in PCs /\ << >> \in Seq(Elem) /\ None \in Inum \cup {None}
  BY DEF Return, DirFacts, PCs
<1>2. /\ LocalTypes' /\ Goes(p, "idle", << >>, None, None, h, x)
      /\ call'[p] = NoCall
  BY <1>1, GoEffect, Zenon
<1>3. Shape(call'[p].op, "idle", << >>, None, None)
  BY <1>2 DEF Shape, NoCall, DpPCs, IpPCs, NamePCs
<1>4. ~LinksAt("idle", None)
  BY Zenon DEF LinksAt
<1>5. Fits(p, "idle", << >>, None, None, h, x)
  BY <1>2, <1>3, <1>4, Constants, Zenon DEF Fits, Ready, DpPCs, NamePCs
<1>6. Keeps(p)
  BY <1>2, <1>5, Moves, Zenon
<1> QED
  BY <1>2, <1>4, <1>6, Zenon DEF Goes, Linking

\* The shape of the locals that Go() is given, and whether it leaves the links
\* that p has counted.
Shaped(p, l, r, d, i) ==
    /\ l \in PCs \ {"idle"} /\ r \in Seq(Elem)
    /\ d \in Inum \cup {None} /\ i \in Inum \cup {None}
    /\ Shape(call[p].op, l, r, d, i)
Calm(p, l, i) ==
    /\ UNCHANGED <<dinode, ents>> /\ pc[p] # "init" /\ l # "init"
    /\ (LinksAt(l, i) \/ l = "unlinked") <=> (Linking(p) \/ pc[p] = "unlinked")
    /\ Linking(p) \/ pc[p] = "unlinked" => i = ip[p]

\* A call that goes on.
LEMMA Continues ==
    ASSUME DirFacts, Counted, NEW p \in Proc, puts[p] = << >>, Shared(p), OwnFiles(p),
           NEW l, NEW r, NEW d, NEW i, NEW h, NEW x, NEW ps,
           Go(p, l, r, d, i, ps), PutsAre(ps, h, x), Shaped(p, l, r, d, i),
           Ready(p, l, r, d, i, h, x), Balance(p, d, i, h, x)
    PROVE  /\ Keeps(p) /\ Goes(p, l, r, d, i, h, x)
           /\ Calm(p, l, i) => Quiet(p)
<1>1. /\ LocalTypes /\ l \in PCs /\ r \in Seq(Elem) /\ l # "idle"
      /\ d \in Inum \cup {None} /\ i \in Inum \cup {None}
  BY Zenon DEF Shaped, DirFacts
<1>2. /\ LocalTypes' /\ Goes(p, l, r, d, i, h, x)
      /\ call'[p] = IF l = "idle" THEN NoCall ELSE call[p]
  BY <1>1, GoEffect, Zenon
<1>3. Fits(p, l, r, d, i, h, x)
  BY <1>1, <1>2, Zenon DEF Fits, Shaped
<1>4. Keeps(p)
  BY <1>2, <1>3, Moves, Zenon
<1> QED
  BY <1>2, <1>4, Zenon DEF Goes, Calm, Quiet, Linking

\* namex(): iget() of the root or idup() of the current directory.
LEMMA StartIsLive ==
    ASSUME DirFacts, Counted, NEW p \in Proc, puts[p] = << >>, NEW path
    PROVE  Start(p, path) \in Inum /\ Live(Start(p, path))
BY RootIsLive, InHand, Constants, Zenon DEF Start

\* The start of a call, with the iget() of namex().
LEMMA EnterStep ==
    ASSUME DirFacts, Counted, NEW p \in Proc, NEW c \in Calls, Enter(p, c)
    PROVE  Keeps(p) /\ Quiet(p)
<1> DEFINE m == Start(p, c.path)
           r == Elems(c.path)
<1>1. /\ pc[p] = "idle" /\ puts[p] = << >> /\ Iget(m, valid)
      /\ UNCHANGED <<dinode, ents, copy, lock, cwd, file>>
  BY Zenon DEF Enter, At
<1>2. m \in Inum /\ Live(m)
  BY <1>1, StartIsLive, Zenon
<1>3. Shared(p)
  <2>1. OwnLocks(p)
    BY <1>1, Zenon DEF DirFacts, InodeTypes, OwnLocks
  <2> QED
    BY <1>1, <1>2, <2>1, Gets, Zenon
<1>4. OwnFiles(p)
  BY <1>1, Zenon DEF DirFacts, FileTypes, OwnFiles
<1>5. c.op \in Ops /\ r \in Seq(Elem)
  BY Constants, Zenon
<1>6. dp[p] = None /\ ip[p] = None
  BY <1>1, Zenon DEF DirFacts, Locals, Shape, DpPCs, IpPCs
<1>7. LocalTypes'
  BY <1>2, <1>5, Zenon DEF Enter, DirFacts, LocalTypes, PCs
<1>8. Goes(p, "walk", r, m, None, None, None) /\ call'[p] = c
  BY <1>1, <1>6 DEF Enter, DirFacts, LocalTypes, Goes, PutHead, PutNext
<1>9. Fits(p, "walk", r, m, None, None, None)
  <2>1. Shape(c.op, "walk", r, m, None) /\ ~LinksAt("walk", None)
    BY <1>2, <1>5, Constants, Zenon DEF Shape, DpPCs, NamePCs, LinksAt
  <2>2. \A n \in Inum : n \in {cwd'[p], file'[p], m, None} => Uses(p, n) \/ Live(n)
    BY <1>1, <1>2, Constants, Zenon DEF Uses
  <2> QED
    BY <1>8, <2>1, <2>2, Zenon DEF Fits, Ready, NamePCs
<1>10. Balance(p, m, None, None, None)
  BY <1>1, <1>6, IsNat DEF Balance, Iget, DirFacts, InodeTypes, Is
<1>11. Keeps(p)
  BY <1>1, <1>3, <1>4, <1>7, <1>9, <1>10, Moves, Zenon
<1> QED
  BY <1>1, <1>6, <1>8, <1>11, Zenon DEF Quiet, Linking, LinksAt, Goes
\* A call that ends with its inode in ip: in the open file, or put.
LEMMA Finishes ==
    ASSUME DirFacts, Counted, NEW p \in Proc, puts[p] = << >>, Shared(p),
           ip[p] # None, dp[p] = None, UNCHANGED <<cwd, ref>>,
           OpenFile(p) \/ (UNCHANGED file /\ Return(p, <<ip[p]>>))
    PROVE  Keeps(p) /\ pc'[p] = "idle" /\ ~Linking(p)'
<1>1. ip[p] \in Inum /\ Uses(p, ip[p])
  BY InHand, Zenon
<1>2. FileTypes /\ ref \in [Inum -> Nat]
  BY Zenon DEF DirFacts, InodeTypes
<1>3. CASE /\ file[p] = None /\ file' = [file EXCEPT ![p] = ip[p]]
           /\ Return(p, << >>)
  <2>1. OwnFiles(p) /\ file'[p] = ip[p] /\ cwd'[p] = cwd[p]
    BY <1>1, <1>2, <1>3, Zenon DEF FileTypes, OwnFiles
  <2>2. \A n \in Inum : n \in {cwd'[p], file'[p], None, None} => Uses(p, n)
    BY <1>1, <2>1, Constants, Zenon DEF Uses
  <2>3. Balance(p, None, None, None, None) /\ PutsAre(<< >>, None, None)
    BY <1>2, <1>3, <2>1, IsNat DEF Balance, PutsAre
  <2> QED
    BY <1>3, <2>1, <2>2, <2>3, Returns, Zenon
<1>4. CASE UNCHANGED file /\ Return(p, <<ip[p]>>)
  <2>1. OwnFiles(p) /\ file'[p] = file[p] /\ cwd'[p] = cwd[p]
    BY <1>2, <1>4, Zenon DEF FileTypes, OwnFiles
  <2>2. \A n \in Inum : n \in {cwd'[p], file'[p], ip[p], None} => Uses(p, n)
    BY <1>1, <2>1, Constants, Zenon DEF Uses
  <2>3. Balance(p, None, None, ip[p], None) /\ PutsAre(<<ip[p]>>, ip[p], None)
    BY <1>1, <1>2, <2>1, IsNat DEF Balance, PutsAre
  <2> QED
    BY <1>4, <2>1, <2>2, <2>3, Returns, Zenon
<1> QED
  BY <1>3, <1>4, Zenon DEF OpenFile

\* A call that ends, or goes to the code of link() after bad:, and puts dp.
LEMMA WalkFailsStep ==
    ASSUME DirFacts, Counted, NEW p \in Proc, At(p, "walk"), Shared(p),
           UNCHANGED <<cwd, file, ref, dinode, ents>>, WalkFails(p, <<dp[p]>>)
    PROVE  Keeps(p) /\ Quiet(p)
<1>1. /\ puts[p] = << >> /\ pc[p] = "walk" /\ dp[p] # None
      /\ (ip[p] # None => call[p].op = "link")
  BY Zenon DEF At, DirFacts, Locals, Shape, DpPCs
<1>2. dp[p] \in Inum /\ Uses(p, dp[p])
  BY <1>1, InHand, Zenon
<1>3. FileTypes /\ ref \in [Inum -> Nat] /\ cwd'[p] = cwd[p] /\ file'[p] = file[p]
  BY Zenon DEF DirFacts, InodeTypes
<1>4. OwnFiles(p) /\ PutsAre(<<dp[p]>>, dp[p], None)
  BY <1>2, <1>3, Zenon DEF OwnFiles, FileTypes, PutsAre
<1>5. CASE WalksNew(p)
  <2>1. Go(p, "linkbad", << >>, None, ip[p], <<dp[p]>>) /\ ip[p] # None /\ call[p].op = "link"
    BY <1>5, Zenon DEF WalkFails, WalksNew
  <2>2. ip[p] \in Inum /\ Uses(p, ip[p]) /\ dinode[ip[p]].type # "T_DIR"
    BY <1>1, <2>1, InHand, Zenon DEF DirFacts, Knows, Linking, LinksAt
  <2>3. Shaped(p, "linkbad", << >>, None, ip[p])
    BY <2>1, <2>2 DEF Shaped, Shape, PCs, Ops, DpPCs, IpPCs, NamePCs
  <2>4. Ready(p, "linkbad", << >>, None, ip[p], dp[p], None)
    BY <1>2, <1>3, <2>2, Constants, Zenon DEF Ready, NamePCs, DpPCs, Uses
  <2>5. Balance(p, None, ip[p], dp[p], None)
    BY <1>3, IsNat DEF Balance
  <2>6. Calm(p, "linkbad", ip[p])
    BY <1>1, <2>1, Zenon DEF Calm, Linking, LinksAt
  <2> QED
    BY <1>1, <1>4, <2>1, <2>3, <2>4, <2>5, <2>6, Continues, Zenon
<1>6. CASE ~WalksNew(p)
  <2>1. Return(p, <<dp[p]>>) /\ ip[p] = None
    BY <1>1, <1>6, Zenon DEF WalkFails, WalksNew
  <2>2. \A n \in Inum : n \in {cwd'[p], file'[p], dp[p], None} => Uses(p, n)
    BY <1>2, <1>3, Constants, Zenon DEF Uses
  <2>3. Balance(p, None, None, dp[p], None)
    BY <1>3, <2>1, IsNat DEF Balance
  <2>4. Keeps(p) /\ pc'[p] = "idle" /\ ~Linking(p)'
    BY <1>1, <1>4, <2>1, <2>2, <2>3, Returns, Zenon
  <2> QED
    BY <1>1, <2>1, <2>4, Zenon DEF Quiet, Linking, LinksAt
<1> QED
  BY <1>5, <1>6, Zenon
\* Where namex() returns to.
LEMMA ResumeIs ==
    ASSUME NEW p \in Proc, call[p].op \in Ops
    PROVE  /\ WalksParent(p) =>
                \/ call[p].op \in Creates /\ Resume(p) = "create"
                \/ WalksNew(p) /\ Resume(p) = "linkdir"
                \/ call[p].op = "unlink" /\ Resume(p) = "unlink"
           /\ ~WalksParent(p) =>
                \/ call[p].op \in {"open", "openw"} /\ Resume(p) = "open"
                \/ call[p].op = "chdir" /\ Resume(p) = "chdir"
                \/ call[p].op = "link" /\ ip[p] = None /\ Resume(p) = "link"
<1>1. CASE call[p].op \in Creates
  BY <1>1, Zenon DEF WalksParent, Resume, WalksNew, Creates
<1>2. CASE call[p].op \notin Creates /\ WalksNew(p)
  BY <1>2, Zenon DEF WalksParent, Resume, WalksNew
<1>3. CASE call[p].op \in {"open", "openw"}
  BY <1>3, Zenon DEF WalksParent, Resume, WalksNew, Creates
<1>4. CASE call[p].op \in {"chdir", "link", "unlink"} /\ ~WalksNew(p)
  BY <1>4, Zenon DEF WalksParent, Resume, WalksNew, Creates
<1> QED
  BY <1>1, <1>2, <1>3, <1>4, Zenon DEF Ops, WalksNew

\* The loop of namex(): it fails, stops at the parent, or goes down.
LEMMA WalkStep ==
    ASSUME DirFacts, Counted, NEW p \in Proc, Walk(p)
    PROVE  Keeps(p) /\ Quiet(p)
<1> DEFINE d == dp[p]
           next == Dirlookup(d, Head(rest[p]))
<1>1. /\ At(p, "walk") /\ pc[p] = "walk" /\ puts[p] = << >> /\ rest[p] # << >>
      /\ copy' = [copy EXCEPT ![d] = Load(d)]
      /\ UNCHANGED <<dinode, ents, lock, cwd, file>>
  BY Zenon DEF Walk, At
<1>2. /\ call[p].op \in Ops /\ d # None /\ (ip[p] # None => call[p].op = "link")
      /\ rest[p] \in Seq(Elem) /\ ip[p] \in Inum \cup {None} /\ FreshInv(p)
  BY <1>1, Zenon DEF DirFacts, LocalTypes, Locals, Shape, DpPCs
<1>3. /\ d \in Inum /\ Uses(p, d) /\ Live(d) /\ Load(d) = dinode[d]
      /\ put[p] = "check" /\ PutHead[p] = None /\ ~IsFresh(p, d) /\ ~Frees(p, d)
  BY <1>1, <1>2, InHand, Zenon DEF IsFresh, Frees, Live
<1>4. FileTypes /\ ref \in [Inum -> Nat] /\ cwd'[p] = cwd[p] /\ file'[p] = file[p]
  BY <1>1, Zenon DEF DirFacts, InodeTypes
<1>5. OwnFiles(p) /\ OwnLocks(p)
  BY <1>1, <1>4, Zenon DEF DirFacts, InodeTypes, FileTypes, OwnFiles, OwnLocks
<1>6. ip[p] # None => ip[p] \in Inum /\ Uses(p, ip[p]) /\ dinode[ip[p]].type # "T_DIR"
  BY <1>1, InHand DEF DirFacts, Knows, Linking, LinksAt
<1>7. ASSUME valid' = valid \cup {d}, UNCHANGED ref
      PROVE  Shared(p)
  BY <1>1, <1>3, <1>5, <1>7, Loads, Zenon
<1>8. CASE valid' = valid \cup {d} /\ UNCHANGED ref /\ WalkFails(p, <<d>>)
  BY <1>1, <1>7, <1>8, WalkFailsStep, Zenon
<1>9. CASE /\ Load(d).type = "T_DIR" /\ WalksParent(p) /\ valid' = valid \cup {d}
           /\ UNCHANGED ref /\ Go(p, Resume(p), rest[p], d, ip[p], << >>)
  <2>1. \/ call[p].op \in Creates /\ Resume(p) = "create" /\ ip[p] = None
        \/ call[p].op = "link" /\ ip[p] # None /\ Resume(p) = "linkdir"
        \/ call[p].op = "unlink" /\ Resume(p) = "unlink" /\ ip[p] = None
    BY <1>2, <1>9, ResumeIs, Zenon DEF WalksNew, Creates
  <2>2. Shaped(p, Resume(p), rest[p], d, ip[p])
    BY <1>1, <1>2, <1>3, <2>1, Zenon DEF Shaped, Shape, PCs, DpPCs, IpPCs, NamePCs
  <2>3. Ready(p, Resume(p), rest[p], d, ip[p], None, None)
    <3>1. \A n \in Inum : n \in {cwd'[p], file'[p], d, ip[p], None} => Uses(p, n)
      BY <1>3, <1>4, <1>6, Constants, Zenon DEF Uses
    <3> QED
      BY <1>3, <1>6, <1>9, <2>1, <3>1, Zenon DEF Ready, LinksAt
  <2>4. Balance(p, d, ip[p], None, None) /\ PutsAre(<< >>, None, None)
    BY <1>4, <1>9, IsNat DEF Balance, PutsAre
  <2>5. Calm(p, Resume(p), ip[p])
    BY <1>1, <2>1, Zenon DEF Calm, Linking, LinksAt
  <2> QED
    BY <1>1, <1>5, <1>7, <1>9, <2>2, <2>3, <2>4, <2>5, Continues, Zenon
<1>10. CASE /\ next # None /\ Iget(next, valid \cup {d})
            /\ Go(p, "walk", Tail(rest[p]), next, ip[p], <<d>>)
  <2>1. Head(rest[p]) \in Elem /\ Tail(rest[p]) \in Seq(Elem)
    BY <1>1, <1>2
  <2>2. next \in Inum /\ Live(next)
    BY <1>3, <1>10, <2>1, LookupIsLive, Zenon DEF Dirlookup
  <2>3. Shared(p)
    BY <1>1, <1>3, <1>5, <1>10, <2>2, Loads, Zenon
  <2>4. Shaped(p, "walk", Tail(rest[p]), next, ip[p])
    BY <1>2, <1>10, <2>1, <2>2 DEF Shaped, Shape, PCs, DpPCs, NamePCs
  <2>5. Ready(p, "walk", Tail(rest[p]), next, ip[p], d, None)
    BY <1>3, <1>4, <1>6, <2>2, Constants, Zenon DEF Ready, LinksAt, Uses, NamePCs
  <2>6. Balance(p, next, ip[p], d, None) /\ PutsAre(<<d>>, d, None)
    BY <1>3, <1>4, <1>10, <2>2, IsNat DEF Balance, PutsAre, Iget, Is
  <2>7. Calm(p, "walk", ip[p])
    BY <1>1, Zenon DEF Calm, Linking, LinksAt
  <2> QED
    BY <1>1, <1>5, <1>10, <2>3, <2>4, <2>5, <2>6, <2>7, Continues, Zenon
<1> QED
  BY <1>8, <1>9, <1>10, Zenon DEF Walk
\* The end of namex().
LEMMA WalkDoneStep ==
    ASSUME DirFacts, Counted, NEW p \in Proc, WalkDone(p)
    PROVE  Keeps(p) /\ Quiet(p)
<1>1. /\ At(p, "walk") /\ pc[p] = "walk" /\ puts[p] = << >>
      /\ UNCHANGED <<dinode, ents, ref, valid, copy, lock, cwd, file>>
  BY Zenon DEF WalkDone, At, inodes
<1>2. /\ call[p].op \in Ops /\ dp[p] # None /\ (ip[p] # None => call[p].op = "link")
  BY <1>1, Zenon DEF DirFacts, Locals, Shape, DpPCs
<1>3. FileTypes /\ ref \in [Inum -> Nat] /\ cwd'[p] = cwd[p] /\ file'[p] = file[p]
  BY <1>1, Zenon DEF DirFacts, InodeTypes
<1>4. OwnFiles(p) /\ OwnLocks(p)
  BY <1>1, <1>3, Zenon DEF DirFacts, InodeTypes, FileTypes, OwnFiles, OwnLocks
<1>5. Shared(p)
  BY <1>1, <1>4, Gets, Zenon
<1>6. CASE WalksParent(p)
  <2>1. WalkFails(p, <<dp[p]>>)
    BY <1>6, Zenon DEF WalkDone
  <2> QED
    BY <1>1, <1>5, <2>1, WalkFailsStep, Zenon
<1>7. CASE ~WalksParent(p)
  <2>1. Go(p, Resume(p), << >>, None, dp[p], << >>)
    BY <1>7, Zenon DEF WalkDone
  <2>2. /\ \/ call[p].op \in {"open", "openw"} /\ Resume(p) = "open"
           \/ call[p].op = "chdir" /\ Resume(p) = "chdir"
           \/ call[p].op = "link" /\ Resume(p) = "link"
        /\ ip[p] = None
    BY <1>2, <1>7, ResumeIs, Zenon
  <2>3. dp[p] \in Inum /\ Uses(p, dp[p])
    BY <1>1, <1>2, InHand, Zenon
  <2>4. Shaped(p, Resume(p), << >>, None, dp[p])
    BY <1>2, <2>2, <2>3 DEF Shaped, Shape, PCs, DpPCs, IpPCs, NamePCs
  <2>5. Ready(p, Resume(p), << >>, None, dp[p], None, None)
    BY <1>3, <2>2, <2>3, Constants, Zenon DEF Ready, LinksAt, NamePCs, DpPCs, Uses
  <2>6. Balance(p, None, dp[p], None, None) /\ PutsAre(<< >>, None, None)
    BY <1>1, <1>3, <2>2, IsNat DEF Balance, PutsAre
  <2>7. Calm(p, Resume(p), dp[p])
    BY <1>1, <2>2, Zenon DEF Calm, Linking, LinksAt
  <2> QED
    BY <1>1, <1>4, <1>5, <2>1, <2>4, <2>5, <2>6, <2>7, Continues, Zenon
<1> QED
  BY <1>6, <1>7, Zenon

\* Steps that lock ip and end the call.
LEMMA OpenStep ==
    ASSUME DirFacts, Counted, NEW p \in Proc, Open(p) \/ CreateFound(p)
    PROVE  Keeps(p) /\ Quiet(p)
<1>1. /\ pc[p] \in {"open", "found"} /\ puts[p] = << >> /\ Loaded(ip[p])
      /\ UNCHANGED <<dinode, ents, ref, lock, cwd>>
      /\ OpenFile(p) \/ (UNCHANGED file /\ Return(p, <<ip[p]>>))
  BY Zenon DEF Open, CreateFound, At
<1>2. ip[p] # None /\ dp[p] = None
  BY <1>1, Zenon DEF DirFacts, Locals, Shape, DpPCs, IpPCs
<1>3. ip[p] \in Inum /\ Uses(p, ip[p]) /\ OwnLocks(p)
  BY <1>1, <1>2, InHand, Zenon DEF DirFacts, InodeTypes, OwnLocks
<1>4. Shared(p)
  BY <1>1, <1>3, Loads, Zenon DEF Loaded
<1>5. Keeps(p) /\ pc'[p] = "idle" /\ ~Linking(p)'
  BY <1>1, <1>2, <1>4, Finishes, Zenon
<1> QED
  BY <1>1, <1>5, Zenon DEF Quiet, Linking, LinksAt

\* iunlock() or iunlockput() at the end of create().
LEMMA CreatedStep ==
    ASSUME DirFacts, Counted, NEW p \in Proc, Created(p)
    PROVE  Keeps(p) /\ Quiet(p)
<1>1. /\ pc[p] = "created" /\ puts[p] = << >> /\ lock' = [lock EXCEPT ![ip[p]] = NoProc]
      /\ UNCHANGED <<dinode, ents, ref, valid, copy, cwd>>
      /\ OpenFile(p) \/ (UNCHANGED file /\ Return(p, <<ip[p]>>))
  BY Zenon DEF Created, At
<1>2. ip[p] # None /\ dp[p] = None /\ lock[ip[p]] = p
  BY <1>1, Zenon DEF DirFacts, Locals, Shape, DpPCs, IpPCs, Knows
<1>3. OwnLocks(p)
  BY <1>1, <1>2, Zenon DEF DirFacts, InodeTypes, OwnLocks
<1>4. Shared(p)
  BY <1>1, <1>3, Gets, Zenon
<1>5. Keeps(p) /\ pc'[p] = "idle" /\ ~Linking(p)'
  BY <1>1, <1>2, <1>4, Finishes, Zenon
<1> QED
  BY <1>1, <1>5, Zenon DEF Quiet, Linking, LinksAt

\* chdir(): the old current directory or ip is put.
LEMMA ChdirStep ==
    ASSUME DirFacts, Counted, NEW p \in Proc, Chdir(p)
    PROVE  Keeps(p) /\ Quiet(p)
<1>1. /\ pc[p] = "chdir" /\ puts[p] = << >> /\ Loaded(ip[p])
      /\ UNCHANGED <<dinode, ents, ref, lock, file>>
      /\ \/ cwd' = [cwd EXCEPT ![p] = ip[p]] /\ Return(p, <<cwd[p]>>)
         \/ UNCHANGED cwd /\ Return(p, <<ip[p]>>)
  BY Zenon DEF Chdir, At
<1>2. ip[p] # None /\ dp[p] = None /\ FileTypes /\ ref \in [Inum -> Nat]
  BY <1>1, Zenon DEF DirFacts, Locals, Shape, DpPCs, IpPCs, InodeTypes
<1>3. ip[p] \in Inum /\ Uses(p, ip[p]) /\ OwnLocks(p)
  BY <1>1, <1>2, InHand, Zenon DEF DirFacts, InodeTypes, OwnLocks
<1>4. Shared(p)
  BY <1>1, <1>3, Loads, Zenon DEF Loaded
<1>5. CASE UNCHANGED cwd /\ Return(p, <<ip[p]>>)
  BY <1>1, <1>2, <1>4, <1>5, Finishes, Zenon DEF Quiet, Linking, LinksAt
<1>6. CASE cwd' = [cwd EXCEPT ![p] = ip[p]] /\ Return(p, <<cwd[p]>>)
  <2>1. /\ OwnFiles(p) /\ file'[p] = file[p] /\ cwd'[p] = ip[p]
        /\ cwd[p] \in Inum /\ Uses(p, cwd[p])
    BY <1>1, <1>2, <1>3, <1>6, Zenon DEF FileTypes, OwnFiles, Uses
  <2>2. \A n \in Inum : n \in {cwd'[p], file'[p], cwd[p], None} => Uses(p, n)
    BY <1>3, <2>1, Constants, Zenon DEF Uses
  <2>3. Balance(p, None, None, cwd[p], None) /\ PutsAre(<<cwd[p]>>, cwd[p], None)
    BY <1>1, <1>2, <2>1, IsNat DEF Balance, PutsAre
  <2>4. Keeps(p) /\ pc'[p] = "idle" /\ ~Linking(p)'
    BY <1>1, <1>4, <1>6, <2>1, <2>2, <2>3, Returns, Zenon
  <2> QED
    BY <1>1, <2>4, Zenon DEF Quiet, Linking, LinksAt
<1> QED
  BY <1>1, <1>5, <1>6, Zenon
\* close(): the inode of the file is put.
LEMMA CloseStep ==
    ASSUME DirFacts, Counted, NEW p \in Proc, Close(p)
    PROVE  Keeps(p) /\ Quiet(p)
<1>1. /\ pc[p] = "idle" /\ puts[p] = << >> /\ file[p] # None
      /\ puts' = [puts EXCEPT ![p] = <<file[p]>>] /\ file' = [file EXCEPT ![p] = None]
      /\ UNCHANGED <<dinode, ents, ref, valid, copy, lock, cwd, call, pc, rest, dp, ip, put>>
  BY Zenon DEF Close, At, inodes
<1>2. FileTypes /\ LocalTypes /\ ref \in [Inum -> Nat] /\ Locals(p)
  BY Zenon DEF DirFacts, InodeTypes
<1>3. file[p] \in Inum /\ Uses(p, file[p])
  BY <1>1, <1>2, Zenon DEF FileTypes, Uses
<1>4. OwnFiles(p) /\ cwd'[p] = cwd[p] /\ file'[p] = None
  BY <1>1, <1>2, Zenon DEF FileTypes, OwnFiles
<1>5. OwnLocks(p)
  BY <1>1, Zenon DEF DirFacts, InodeTypes, OwnLocks
<1>6. Shared(p)
  BY <1>1, <1>5, Gets, Zenon
<1>7. dp[p] = None /\ ip[p] = None
  BY <1>1, <1>2, Zenon DEF Locals, Shape, DpPCs, IpPCs
<1>8. LocalTypes'
  BY <1>1, <1>2, <1>3 DEF LocalTypes
<1>9. Fits(p, "idle", rest[p], None, None, file[p], None)
  <2>1. puts'[p] = <<file[p]>> /\ PutsAre(<<file[p]>>, file[p], None) /\ None \notin Inum
    BY <1>1, <1>2, <1>3, Constants, Zenon DEF LocalTypes, PutsAre
  <2>2. /\ PutHead'[p] = file[p] /\ PutNext'[p] = None
        /\ (<<file[p]>> = << >> <=> file[p] = None)
    BY <2>1, PutsOf, Zenon
  <2>3. Goes(p, "idle", rest[p], None, None, file[p], None)
    BY <1>1, <1>2, <1>7, <2>1, <2>2, Zenon DEF Goes, LocalTypes
  <2>4. Shape(call'[p].op, "idle", rest[p], None, None)
    BY <1>1, <1>2, <1>7, Zenon DEF Locals
  <2>5. Ready(p, "idle", rest[p], None, None, file[p], None)
    BY <1>3, <1>4, Constants, Zenon DEF Ready, NamePCs, DpPCs, LinksAt, Uses
  <2> QED
    BY <2>3, <2>4, <2>5, Zenon DEF Fits
<1>10. Balance(p, None, None, file[p], None)
  BY <1>1, <1>2, <1>4, <1>7, IsNat DEF Balance
<1>11. Keeps(p)
  BY <1>1, <1>4, <1>6, <1>8, <1>9, <1>10, Moves, Zenon
<1> QED
  BY <1>1, <1>11, Zenon DEF Quiet, Linking, LinksAt

\* create() finds the name.
LEMMA CreateFindsStep ==
    ASSUME DirFacts, Counted, NEW p \in Proc, CreateFinds(p)
    PROVE  Keeps(p) /\ Quiet(p)
<1> DEFINE d == dp[p]
           i == Dirlookup(d, Head(rest[p]))
<1>1. /\ pc[p] = "create" /\ puts[p] = << >> /\ i # None
      /\ copy' = [copy EXCEPT ![d] = Load(d)] /\ Iget(i, valid \cup {d})
      /\ Go(p, "found", << >>, None, i, <<d>>)
      /\ UNCHANGED <<dinode, ents, lock, cwd, file>>
  BY Zenon DEF CreateFinds, At
<1>2. /\ call[p].op \in Creates /\ d # None /\ ip[p] = None
      /\ rest[p] \in Seq(Elem) /\ rest[p] # << >>
  BY <1>1, Zenon DEF DirFacts, LocalTypes, Locals, Shape, DpPCs, IpPCs, NamePCs
<1>3. /\ d \in Inum /\ Uses(p, d) /\ ~IsFresh(p, d) /\ ~Frees(p, d)
  BY <1>1, <1>2, InHand, Zenon DEF Live
<1>4. FileTypes /\ ref \in [Inum -> Nat] /\ cwd'[p] = cwd[p] /\ file'[p] = file[p]
  BY <1>1, Zenon DEF DirFacts, InodeTypes
<1>5. OwnFiles(p) /\ OwnLocks(p)
  BY <1>1, <1>4, Zenon DEF DirFacts, InodeTypes, FileTypes, OwnFiles, OwnLocks
<1>6. Head(rest[p]) \in Elem
  BY <1>2
<1>7. i \in Inum /\ Live(i)
  BY <1>1, <1>3, <1>6, LookupIsLive, Zenon DEF Dirlookup
<1>8. Shared(p)
  BY <1>1, <1>3, <1>5, <1>7, Loads, Zenon
<1>9. Shaped(p, "found", << >>, None, i)
  BY <1>1, <1>2, <1>7 DEF Shaped, Shape, PCs, DpPCs, IpPCs, NamePCs, Ops
<1>10. Ready(p, "found", << >>, None, i, d, None)
  BY <1>3, <1>4, <1>7, Constants, Zenon DEF Ready, LinksAt, Uses, NamePCs, DpPCs
<1>11. Balance(p, None, i, d, None) /\ PutsAre(<<d>>, d, None)
  BY <1>1, <1>2, <1>3, <1>4, <1>7, IsNat DEF Balance, PutsAre, Iget, Is
<1>12. Calm(p, "found", i)
  BY <1>1, Zenon DEF Calm, Linking, LinksAt
<1> QED
  BY <1>1, <1>5, <1>8, <1>9, <1>10, <1>11, <1>12, Continues, Zenon
-----------------------------------------------------------------------------
(* link() and unlink().                                                    *)

\* link() of a directory fails; otherwise it counts the link first.
LEMMA LinkStep ==
    ASSUME DirFacts, Counted, NEW p \in Proc, Link(p)
    PROVE  /\ Keeps(p)
           /\ \/ Quiet(p)
              \/ /\ MayLink(ip[p]) /\ Update({ip[p]}, [n \in {ip[p]} |-> LinkFirst(ip[p])])
                 /\ Goes(p, "linknew", << >>, None, ip[p], None, None) /\ UNCHANGED ents
<1> DEFINE i == ip[p]
<1>1. /\ pc[p] = "link" /\ puts[p] = << >> /\ UNCHANGED <<ents, ref, lock, cwd, file>>
  BY Zenon DEF Link, At
<1>2. call[p].op = "link" /\ i # None /\ dp[p] = None
  BY <1>1, Zenon DEF DirFacts, Locals, Shape, DpPCs, IpPCs
<1>3. i \in Inum /\ Uses(p, i) /\ Load(i) = dinode[i]
  BY <1>1, <1>2, InHand, Zenon
<1>4. InodeTypes /\ FileTypes /\ cwd'[p] = cwd[p] /\ file'[p] = file[p]
  BY <1>1, Zenon DEF DirFacts
<1>5. OwnFiles(p) /\ OwnLocks(p)
  BY <1>1, <1>4, Zenon DEF InodeTypes, FileTypes, OwnFiles, OwnLocks
<1>6. CASE ~MayLink(i)
  <2>1. Loaded(i) /\ Return(p, <<i>>) /\ UNCHANGED dinode
    BY <1>6, Zenon DEF Link
  <2>2. Shared(p)
    BY <1>1, <1>3, <1>5, <2>1, Loads, Zenon DEF Loaded
  <2>3. Keeps(p) /\ pc'[p] = "idle" /\ ~Linking(p)'
    BY <1>1, <1>2, <2>1, <2>2, Finishes, Zenon
  <2> QED
    BY <1>1, <2>1, <2>3, Zenon DEF Quiet, Linking, LinksAt
<1>7. CASE MayLink(i)
  <2> DEFINE f == [n \in {i} |-> LinkFirst(i)]
  <2>1. Update({i}, f) /\ Go(p, "linknew", << >>, None, i, << >>)
    BY <1>7, Zenon DEF Link
  <2>2. /\ f \in [{i} -> [type : Types, nlink : Nat]]
        /\ \A n \in {i} : Uses(p, n) /\ f[n].type = dinode[n].type
    <3>1. dinode[i] \in [type : Types, nlink : Nat] /\ dinode[i].nlink + 1 \in Nat
      BY <1>3, <1>4 DEF InodeTypes
    <3>2. LinkFirst(i) = [dinode[i] EXCEPT !.nlink = dinode[i].nlink + 1]
      BY <1>3, Zenon DEF LinkFirst, Links
    <3>3. LinkFirst(i) \in [type : Types, nlink : Nat] /\ LinkFirst(i).type = dinode[i].type
      BY <3>1, <3>2, Counts, Zenon
    <3> QED
      BY <1>3, <3>3, Zenon
  <2>3. /\ {i} \in SUBSET Inum /\ ents' \in [Inum -> [AllNames -> Inum \cup {None}]]
        /\ \A n \in Inum : ents'[n] # ents[n] => Uses(p, n) /\ lock[n] \in {p, NoProc}
    BY <1>1, <1>3, <1>4, Zenon DEF InodeTypes
  <2>4. Shared(p)
    BY <1>1, <1>5, <2>1, <2>2, <2>3, Updates, Zenon
  <2>5. Shaped(p, "linknew", << >>, None, i)
    BY <1>2, <1>3 DEF Shaped, Shape, PCs, DpPCs, IpPCs, NamePCs, Ops
  <2>6. Ready(p, "linknew", << >>, None, i, None, None)
    BY <1>3, <1>4, <1>7, Constants, Zenon DEF Ready, LinksAt, Uses, NamePCs, DpPCs, MayLink
  <2>7. Balance(p, None, i, None, None) /\ PutsAre(<< >>, None, None)
    BY <1>1, <1>2, <1>4, IsNat DEF Balance, PutsAre, InodeTypes
  <2>8. Keeps(p) /\ Goes(p, "linknew", << >>, None, i, None, None)
    BY <1>1, <1>5, <2>1, <2>4, <2>5, <2>6, <2>7, Continues, Zenon
  <2> QED
    BY <1>1, <1>7, <2>1, <2>8, Zenon
<1> QED
  BY <1>6, <1>7, Zenon

\* nameiparent(new) starts.
LEMMA LinkNewStep ==
    ASSUME DirFacts, Counted, NEW p \in Proc, LinkNew(p)
    PROVE  Keeps(p) /\ Quiet(p)
<1> DEFINE m == Start(p, call[p].new)
           r == Elems(call[p].new)
<1>1. /\ pc[p] = "linknew" /\ puts[p] = << >> /\ Iget(m, valid)
      /\ Go(p, "walk", r, m, ip[p], << >>)
      /\ UNCHANGED <<dinode, ents, copy, lock, cwd, file>>
  BY Zenon DEF LinkNew, At
<1>2. call[p].op = "link" /\ ip[p] # None /\ dp[p] = None /\ call[p] \in Calls \cup {NoCall}
  BY <1>1, Zenon DEF DirFacts, LocalTypes, Locals, Shape, DpPCs, IpPCs
<1>3. r \in Seq(Elem)
  BY <1>2, Constants DEF NoCall
<1>4. m \in Inum /\ Live(m) /\ ip[p] \in Inum /\ Uses(p, ip[p]) /\ dinode[ip[p]].type # "T_DIR"
  BY <1>1, <1>2, InHand, StartIsLive, Zenon DEF DirFacts, Knows, Linking, LinksAt
<1>5. FileTypes /\ ref \in [Inum -> Nat] /\ cwd'[p] = cwd[p] /\ file'[p] = file[p]
  BY <1>1, Zenon DEF DirFacts, InodeTypes
<1>6. OwnFiles(p) /\ OwnLocks(p)
  BY <1>1, <1>5, Zenon DEF DirFacts, InodeTypes, FileTypes, OwnFiles, OwnLocks
<1>7. Shared(p)
  BY <1>1, <1>4, <1>6, Gets, Zenon
<1>8. Shaped(p, "walk", r, m, ip[p])
  BY <1>2, <1>3, <1>4, Constants DEF Shaped, Shape, PCs, DpPCs, NamePCs, Ops
<1>9. Ready(p, "walk", r, m, ip[p], None, None)
  BY <1>4, <1>5, Constants, Zenon DEF Ready, LinksAt, Uses, NamePCs
<1>10. Balance(p, m, ip[p], None, None) /\ PutsAre(<< >>, None, None)
  BY <1>1, <1>2, <1>4, <1>5, IsNat DEF Balance, PutsAre, Iget, Is
<1>11. Calm(p, "walk", ip[p])
  BY <1>1, <1>2, Zenon DEF Calm, Linking, LinksAt
<1> QED
  BY <1>1, <1>6, <1>7, <1>8, <1>9, <1>10, <1>11, Continues, Zenon
\* dirlink() in link(): the entry is written, or it exists.
LEMMA LinkDirStep ==
    ASSUME DirFacts, Counted, NEW p \in Proc, LinkDir(p)
    PROVE  Keeps(p) /\ (Quiet(p) \/ Dirlookup(dp[p], Head(rest[p])) = None)
<1> DEFINE d == dp[p]
           e == Dirlookup(d, Head(rest[p]))
<1>1. /\ pc[p] = "linkdir" /\ puts[p] = << >> /\ lock[d] = NoProc
      /\ copy' = [copy EXCEPT ![d] = Load(d)] /\ UNCHANGED <<dinode, cwd, file>>
  BY Zenon DEF LinkDir, At, Unlocked
<1>2. /\ call[p].op = "link" /\ d # None /\ ip[p] # None
      /\ rest[p] \in Seq(Elem) /\ rest[p] # << >>
  BY <1>1, Zenon DEF DirFacts, LocalTypes, Locals, Shape, DpPCs, IpPCs, NamePCs
<1>3. /\ d \in Inum /\ Uses(p, d) /\ ~IsFresh(p, d) /\ ~Frees(p, d)
      /\ ip[p] \in Inum /\ Uses(p, ip[p])
  BY <1>1, <1>2, InHand, Zenon DEF Live
<1>4. /\ dinode[d].type = "T_DIR" /\ dinode[ip[p]].type # "T_DIR"
      /\ InodeTypes /\ FileTypes /\ cwd'[p] = cwd[p] /\ file'[p] = file[p]
  BY <1>1 DEF DirFacts, Knows, DpPCs, Linking, LinksAt
<1>5. OwnFiles(p) /\ Head(rest[p]) \in Elem /\ Head(rest[p]) \in AllNames
  BY <1>1, <1>2, <1>4 DEF FileTypes, OwnFiles, Elem, AllNames
<1>6. CASE e = None
  <2>1. /\ ents' = [ents EXCEPT ![d][Head(rest[p])] = ip[p]] /\ valid' = valid \cup {d}
        /\ Return(p, <<d, ip[p]>>) /\ UNCHANGED <<ref, lock>>
    BY <1>6, Zenon DEF LinkDir
  <2>2. /\ ents' \in [Inum -> [AllNames -> Inum \cup {None}]]
        /\ \A n \in Inum : n # d => ents'[n] = ents[n]
    <3>1. ents \in Entries /\ ip[p] \in Inum \cup {None}
      BY <1>3, <1>4, Zenon DEF InodeTypes, Entries
    <3>2. Sets(ents', ents, d, Head(rest[p]), ip[p])
      BY <1>3, <1>5, <2>1, <3>1, SetEntry, Zenon
    <3> QED
      BY <3>2, Zenon DEF Sets, Entries
  <2>3. Shared(p)
    <3>1. Load(d) = dinode[d] /\ dinode[d].type # "none" /\ ref[d] > 0
      BY <1>3, InUse, Zenon
    <3>2. InodeTypes' /\ CacheInv'
      BY <1>1, <1>3, <1>4, <2>1, <2>2, <3>1 DEF DirFacts, InodeTypes, CacheInv
    <3> QED
      BY <1>1, <1>3, <2>1, <2>2, <3>2, Zenon DEF Shared
  <2>4. \A n \in Inum : n \in {cwd'[p], file'[p], d, ip[p]} => Uses(p, n)
    BY <1>3, <1>4, Zenon DEF Uses
  <2>5. Balance(p, None, None, d, ip[p]) /\ PutsAre(<<d, ip[p]>>, d, ip[p])
    BY <1>3, <1>4, <2>1, IsNat DEF Balance, PutsAre, InodeTypes
  <2> QED
    BY <1>1, <1>5, <1>6, <2>1, <2>3, <2>4, <2>5, Returns, Zenon
<1>7. CASE e # None
  <2>1. /\ Iget(e, valid \cup {d}) /\ lock' = [lock EXCEPT ![d] = p]
        /\ Go(p, "linkexists", << >>, d, ip[p], <<e>>) /\ UNCHANGED ents
    BY <1>7, Zenon DEF LinkDir
  <2>2. e \in Inum /\ Live(e)
    BY <1>3, <1>5, <1>7, LookupIsLive, Zenon DEF Dirlookup
  <2>3. OwnLocks(p) /\ lock'[d] = p
    BY <1>1, <1>3, <1>4, <2>1, Zenon DEF InodeTypes, OwnLocks
  <2>4. Shared(p)
    BY <1>1, <1>3, <2>1, <2>2, <2>3, Loads, Zenon
  <2>5. Shaped(p, "linkexists", << >>, d, ip[p])
    BY <1>2, <1>3 DEF Shaped, Shape, PCs, DpPCs, IpPCs, NamePCs, Ops
  <2>6. Ready(p, "linkexists", << >>, d, ip[p], e, None)
    BY <1>3, <1>4, <2>2, <2>3, Constants, Zenon DEF Ready, Uses, NamePCs
  <2>7. ref \in [Inum -> Nat]
    BY <1>4, Zenon DEF InodeTypes
  <2>8. Balance(p, d, ip[p], e, None) /\ PutsAre(<<e>>, e, None)
    BY <1>3, <1>4, <2>1, <2>2, <2>7, IsNat DEF Balance, PutsAre, Iget, Is
  <2>9. Calm(p, "linkexists", ip[p])
    BY <1>1, <2>1, Zenon DEF Calm, Linking, LinksAt
  <2> QED
    BY <1>1, <1>5, <2>1, <2>4, <2>5, <2>6, <2>8, <2>9, Continues, Zenon
<1> QED
  BY <1>6, <1>7, Zenon

\* iunlockput(dp) after dirlink() failed.
LEMMA LinkExistsStep ==
    ASSUME DirFacts, Counted, NEW p \in Proc, LinkExists(p)
    PROVE  Keeps(p) /\ Quiet(p)
<1> DEFINE d == dp[p]
<1>1. /\ pc[p] = "linkexists" /\ puts[p] = << >> /\ lock' = [lock EXCEPT ![d] = NoProc]
      /\ Go(p, "linkbad", << >>, None, ip[p], <<d>>)
      /\ UNCHANGED <<dinode, ents, ref, valid, copy, cwd, file>>
  BY DEF LinkExists, At
<1>2. /\ call[p].op = "link" /\ d # None /\ ip[p] # None /\ lock[d] = p
      /\ dinode[ip[p]].type # "T_DIR"
  BY <1>1, Zenon DEF DirFacts, Locals, Shape, DpPCs, IpPCs, Knows, Linking, LinksAt
<1>3. d \in Inum /\ Uses(p, d) /\ ip[p] \in Inum /\ Uses(p, ip[p])
  BY <1>1, <1>2, InHand, Zenon
<1>4. InodeTypes /\ FileTypes /\ cwd'[p] = cwd[p] /\ file'[p] = file[p]
  BY <1>1, Zenon DEF DirFacts
<1>5. OwnFiles(p) /\ OwnLocks(p)
  BY <1>1, <1>2, <1>3, <1>4, Zenon DEF InodeTypes, FileTypes, OwnFiles, OwnLocks
<1>6. Shared(p)
  BY <1>1, <1>5, Gets, Zenon
<1>7. Shaped(p, "linkbad", << >>, None, ip[p])
  BY <1>2, <1>3 DEF Shaped, Shape, PCs, DpPCs, IpPCs, NamePCs, Ops
<1>8. Ready(p, "linkbad", << >>, None, ip[p], d, None)
  BY <1>2, <1>3, <1>4, Constants, Zenon DEF Ready, Uses, NamePCs, DpPCs
<1>9. Balance(p, None, ip[p], d, None) /\ PutsAre(<<d>>, d, None)
  BY <1>1, <1>3, <1>4, IsNat DEF Balance, PutsAre, InodeTypes
<1>10. Calm(p, "linkbad", ip[p])
  BY <1>1, Zenon DEF Calm, Linking, LinksAt
<1> QED
  BY <1>1, <1>5, <1>6, <1>7, <1>8, <1>9, <1>10, Continues, Zenon
\* The link that failed, or the name that was erased, is counted no more.
LEMMA UnlinkedStep ==
    ASSUME DirFacts, Counted, NEW p \in Proc, LinkBad(p) \/ Unlinked(p)
    PROVE  Keeps(p) /\ pc'[p] = "idle" /\ ~Linking(p)' /\ dinode[ip[p]].nlink > 0
<1> DEFINE i == ip[p]
           f == [n \in {i} |-> Unlinks(n)]
<1>1. /\ pc[p] \in {"linkbad", "unlinked"} /\ puts[p] = << >>
      /\ Update({i}, f) /\ Return(p, <<i>>) /\ UNCHANGED <<ents, ref, cwd, file>>
      /\ \/ UNCHANGED lock
         \/ pc[p] = "unlinked" /\ lock' = [lock EXCEPT ![i] = NoProc]
  BY Zenon DEF LinkBad, Unlinked, At
<1>2. i # None /\ dp[p] = None
  BY <1>1, Zenon DEF DirFacts, Locals, Shape, DpPCs, IpPCs
<1>3. i \in Inum /\ Uses(p, i) /\ Load(i) = dinode[i]
  BY <1>1, <1>2, InHand, Zenon
<1>4. InodeTypes /\ (pc[p] = "unlinked" => lock[i] = p)
  BY Zenon DEF DirFacts, Knows
<1>5. OwnLocks(p)
  BY <1>1, <1>3, <1>4, Zenon DEF InodeTypes, OwnLocks
<1>6. dinode[i].nlink > 0
  <2>1. p \in Counting(i)
    BY <1>1, Zenon DEF Counting, Linking, LinksAt
  <2> QED
    BY <1>3, <2>1, Zenon DEF Counted
<1>7. /\ f \in [{i} -> [type : Types, nlink : Nat]]
      /\ \A n \in {i} : Uses(p, n) /\ f[n].type = dinode[n].type
  <2>1. dinode[i] \in [type : Types, nlink : Nat] /\ dinode[i].nlink - 1 \in Nat
    BY <1>3, <1>4, <1>6 DEF InodeTypes
  <2>2. Unlinks(i) = [dinode[i] EXCEPT !.nlink = dinode[i].nlink - 1]
    BY <1>3, Zenon DEF Unlinks
  <2>3. Unlinks(i) \in [type : Types, nlink : Nat] /\ Unlinks(i).type = dinode[i].type
    BY <2>1, <2>2, Counts, Zenon
  <2> QED
    BY <1>3, <2>3, Zenon
<1>8. /\ {i} \in SUBSET Inum /\ ents' \in [Inum -> [AllNames -> Inum \cup {None}]]
      /\ \A n \in Inum : ents'[n] # ents[n] => Uses(p, n) /\ lock[n] \in {p, NoProc}
  BY <1>1, <1>3, <1>4, Zenon DEF InodeTypes
<1>9. Shared(p)
  BY <1>1, <1>5, <1>7, <1>8, Updates, Zenon
<1> QED
  BY <1>1, <1>2, <1>6, <1>9, Finishes, Zenon

\* dirlookup() in unlink().
LEMMA UnlinkStep ==
    ASSUME DirFacts, Counted, NEW p \in Proc, Unlink(p)
    PROVE  Keeps(p) /\ Quiet(p)
<1> DEFINE d == dp[p]
           name == Head(rest[p])
           i == IF name \in Name THEN Dirlookup(d, name) ELSE None
<1>1. /\ pc[p] = "unlink" /\ puts[p] = << >> /\ lock[d] = NoProc
      /\ copy' = [copy EXCEPT ![d] = Load(d)] /\ UNCHANGED <<dinode, ents, cwd, file>>
  BY Zenon DEF Unlink, At, Unlocked
<1>2. /\ call[p].op = "unlink" /\ d # None /\ ip[p] = None
      /\ rest[p] \in Seq(Elem) /\ rest[p] # << >>
  BY <1>1, Zenon DEF DirFacts, LocalTypes, Locals, Shape, DpPCs, IpPCs, NamePCs
<1>3. d \in Inum /\ Uses(p, d) /\ dinode[d].type = "T_DIR"
  BY <1>1, <1>2, InHand, Zenon DEF DirFacts, Knows, DpPCs
<1>4. /\ InodeTypes /\ FileTypes /\ ref \in [Inum -> Nat]
      /\ cwd'[p] = cwd[p] /\ file'[p] = file[p]
  BY <1>1, Zenon DEF DirFacts, InodeTypes
<1>5. OwnFiles(p)
  BY <1>1, <1>4, Zenon DEF FileTypes, OwnFiles
<1>6. CASE i = None
  <2>1. valid' = valid \cup {d} /\ Return(p, <<d>>) /\ UNCHANGED <<ref, lock>>
    BY <1>6, Zenon DEF Unlink
  <2>2. OwnLocks(p)
    BY <1>4, <2>1, Zenon DEF InodeTypes, OwnLocks
  <2>3. Shared(p)
    BY <1>1, <1>3, <2>1, <2>2, Loads, Zenon
  <2>4. \A n \in Inum : n \in {cwd'[p], file'[p], d, None} => Uses(p, n)
    BY <1>3, <1>4, Constants DEF Uses
  <2>5. Balance(p, None, None, d, None) /\ PutsAre(<<d>>, d, None)
    BY <1>2, <1>3, <1>4, <2>1, IsNat DEF Balance, PutsAre
  <2>6. Keeps(p) /\ pc'[p] = "idle" /\ ~Linking(p)'
    BY <1>1, <1>5, <2>1, <2>3, <2>4, <2>5, Returns, Zenon
  <2> QED
    BY <1>1, <2>6, Zenon DEF Quiet, Linking, LinksAt
<1>7. CASE i # None
  <2>1. /\ Iget(i, valid \cup {d}) /\ lock' = [lock EXCEPT ![d] = p]
        /\ Go(p, "unlinkip", rest[p], d, i, << >>)
    BY <1>7 DEF Unlink
  <2>2. name \in Name /\ i = ents[d][name] /\ i \in Inum /\ Live(i)
    BY <1>3, <1>7, NamedIsLive, Zenon DEF Dirlookup
  <2>3. OwnLocks(p) /\ lock'[d] = p
    BY <1>1, <1>3, <1>4, <2>1, Zenon DEF InodeTypes, OwnLocks
  <2>4. Shared(p)
    BY <1>1, <1>3, <2>1, <2>2, <2>3, Loads, Zenon
  <2> HIDE DEF i
  <2>5. Shaped(p, "unlinkip", rest[p], d, i)
    BY <1>2, <1>3, <1>7, <2>2, Zenon DEF Shaped, Shape, PCs, DpPCs, IpPCs, NamePCs, Ops
  <2>6. Ready(p, "unlinkip", rest[p], d, i, None, None)
    BY <1>1, <1>3, <1>4, <2>2, <2>3, Constants, Zenon DEF Ready, Uses, LinksAt
  <2>7. Balance(p, d, i, None, None) /\ PutsAre(<< >>, None, None)
    <3>1. \A n \in Inum : ref'[n] = ref[n] + Is(i, n)
      BY <1>4, <2>1, <2>2, Igets, Zenon
    <3> QED
      BY <1>2, <1>4, <3>1, IsNat DEF Balance, PutsAre
  <2>8. Calm(p, "unlinkip", i)
    BY <1>1, Zenon DEF Calm, Linking, LinksAt
  <2> QED
    BY <1>1, <1>5, <2>1, <2>4, <2>5, <2>6, <2>7, <2>8, Continues, Zenon
<1> QED
  BY <1>6, <1>7, Zenon
\* The directory is not empty: iunlockput(ip), then iunlockput(dp).
LEMMA UnlinkBadStep ==
    ASSUME DirFacts, Counted, NEW p \in Proc, UnlinkBad(p)
    PROVE  Keeps(p) /\ Quiet(p)
<1> DEFINE d == dp[p]
<1>1. /\ pc[p] = "unlinkbad" /\ puts[p] = << >> /\ lock' = [lock EXCEPT ![d] = NoProc]
      /\ Return(p, <<d>>) /\ UNCHANGED <<dinode, ents, ref, valid, copy, cwd, file>>
  BY Zenon DEF UnlinkBad, At
<1>2. d # None /\ ip[p] = None /\ lock[d] = p
  BY <1>1, Zenon DEF DirFacts, Locals, Shape, DpPCs, IpPCs, Knows
<1>3. d \in Inum /\ Uses(p, d)
  BY <1>1, <1>2, InHand, Zenon
<1>4. /\ InodeTypes /\ FileTypes /\ ref \in [Inum -> Nat]
      /\ cwd'[p] = cwd[p] /\ file'[p] = file[p]
  BY <1>1, Zenon DEF DirFacts, InodeTypes
<1>5. OwnFiles(p) /\ OwnLocks(p)
  BY <1>1, <1>2, <1>3, <1>4 DEF InodeTypes, FileTypes, OwnFiles, OwnLocks
<1>6. Shared(p)
  BY <1>1, <1>5, Gets, Zenon
<1>7. \A n \in Inum : n \in {cwd'[p], file'[p], d, None} => Uses(p, n)
  BY <1>3, <1>4, Constants, Zenon DEF Uses
<1>8. Balance(p, None, None, d, None) /\ PutsAre(<<d>>, d, None)
  BY <1>1, <1>2, <1>3, <1>4, IsNat DEF Balance, PutsAre
<1>9. Keeps(p) /\ pc'[p] = "idle" /\ ~Linking(p)'
  BY <1>1, <1>5, <1>6, <1>7, <1>8, Returns, Zenon
<1> QED
  BY <1>1, <1>9, Zenon DEF Quiet, Linking, LinksAt

\* A step that ends with one inode locked and the other put: dp is unlocked, ip
\* is locked.
LEMMA TwoLocks ==
    ASSUME DirFacts, Counted, NEW p \in Proc, puts[p] = << >>, UNCHANGED <<ref, cwd, file>>,
           pc[p] \in {"init", "unlinkip"}, Unlocked(ip[p]), Shared(p),
           lock' = [lock EXCEPT ![dp[p]] = NoProc, ![ip[p]] = p],
           NEW l \in {"created", "unlinked"}, Go(p, l, << >>, None, ip[p], <<dp[p]>>),
           l = "created" <=> call[p].op \in Creates
    PROVE  Keeps(p) /\ Goes(p, l, << >>, None, ip[p], dp[p], None)
<1>1. /\ dp[p] # None /\ ip[p] # None /\ call[p].op \in Creates \cup {"unlink"}
  BY Zenon DEF DirFacts, Locals, Shape, DpPCs, IpPCs
<1>2. dp[p] \in Inum /\ Uses(p, dp[p]) /\ ip[p] \in Inum /\ Uses(p, ip[p])
  BY <1>1, InHand, Zenon
<1>3. /\ InodeTypes /\ FileTypes /\ ref \in [Inum -> Nat]
      /\ cwd'[p] = cwd[p] /\ file'[p] = file[p]
  BY Zenon DEF DirFacts, InodeTypes
<1>4. OwnFiles(p) /\ lock'[ip[p]] = p
  BY <1>2, <1>3, Zenon DEF InodeTypes, FileTypes, OwnFiles
<1>5. Shaped(p, l, << >>, None, ip[p])
  BY <1>1, <1>2 DEF Shaped, Shape, PCs, DpPCs, IpPCs, NamePCs, Ops, Creates
<1>6. Ready(p, l, << >>, None, ip[p], dp[p], None)
  BY <1>2, <1>3, <1>4, Constants, Zenon DEF Ready, Uses, NamePCs, DpPCs, LinksAt
<1>7. Balance(p, None, ip[p], dp[p], None) /\ PutsAre(<<dp[p]>>, dp[p], None)
  BY <1>2, <1>3, IsNat DEF Balance, PutsAre
<1> QED
  BY <1>4, <1>5, <1>6, <1>7, Continues, Zenon
\* What unlink() does when it erases the entry x of d, which names i.
Erases(p, d, i, x) ==
    /\ d \in Inum /\ i \in Inum /\ d # i /\ x \in Name /\ ents[d][x] = i
    /\ pc[p] = "unlinkip" /\ dinode[d].type = "T_DIR"
    /\ dinode[i].type = "T_DIR" => IsDirEmpty(i) /\ dinode[d].nlink > 0
    /\ ents' = [ents EXCEPT ![d][x] = None]
    /\ dinode' = [n \in Inum |->
                    IF n = d /\ dinode[i].type = "T_DIR"
                    THEN [dinode[d] EXCEPT !.nlink = dinode[d].nlink - 1] ELSE dinode[n]]
    /\ Goes(p, "unlinked", << >>, None, i, d, None)

\* sys_unlink() erases the name.
LEMMA UnlinkIpStep ==
    ASSUME DirFacts, Counted, NEW p \in Proc, UnlinkIp(p)
    PROVE  Keeps(p) /\ (Quiet(p) \/ Erases(p, dp[p], ip[p], Head(rest[p])))
<1> DEFINE d == dp[p]
           i == ip[p]
           x == Head(rest[p])
           dir == Load(i).type = "T_DIR"
<1>1. /\ pc[p] = "unlinkip" /\ puts[p] = << >> /\ Unlocked(i) /\ UNCHANGED <<ref, cwd, file>>
  BY Zenon DEF UnlinkIp, At
<1>2. /\ call[p].op = "unlink" /\ d # None /\ i # None /\ x \in Name /\ lock[d] = p
      /\ dinode[d].type = "T_DIR" /\ ents[d][x] = i
  BY <1>1, Zenon DEF DirFacts, Locals, Shape, DpPCs, IpPCs, Knows
<1>3. /\ d \in Inum /\ Uses(p, d) /\ Load(d) = dinode[d]
      /\ i \in Inum /\ Uses(p, i) /\ Load(i) = dinode[i]
  BY <1>1, <1>2, InHand, Zenon
<1>4. d # i
  BY <1>2, <1>3 DEF DirFacts, TreeInv
<1>5. /\ InodeTypes /\ FileTypes /\ ref \in [Inum -> Nat]
      /\ cwd'[p] = cwd[p] /\ file'[p] = file[p]
  BY <1>1, Zenon DEF DirFacts, InodeTypes
<1>6. CASE dir /\ ~IsDirEmpty(i)
  <2>1. /\ Loaded(i) /\ Go(p, "unlinkbad", << >>, d, None, <<i>>)
        /\ UNCHANGED <<dinode, ents, lock>>
    BY <1>6, Zenon DEF UnlinkIp
  <2>2. OwnFiles(p) /\ OwnLocks(p) /\ lock'[d] = p
    BY <1>1, <1>2, <1>5, <2>1, Zenon DEF InodeTypes, FileTypes, OwnFiles, OwnLocks
  <2>3. Shared(p)
    BY <1>1, <1>3, <2>1, <2>2, Loads, Zenon DEF Loaded
  <2>4. Shaped(p, "unlinkbad", << >>, d, None)
    BY <1>2, <1>3 DEF Shaped, Shape, PCs, DpPCs, IpPCs, NamePCs, Ops
  <2>5. Ready(p, "unlinkbad", << >>, d, None, i, None)
    BY <1>2, <1>3, <1>5, <2>2, Constants, Zenon DEF Ready, Uses, NamePCs, LinksAt
  <2>6. Balance(p, d, None, i, None) /\ PutsAre(<<i>>, i, None)
    BY <1>1, <1>3, <1>5, IsNat DEF Balance, PutsAre
  <2>7. Calm(p, "unlinkbad", None)
    BY <1>1, <2>1, Zenon DEF Calm, Linking, LinksAt
  <2> QED
    BY <1>1, <2>1, <2>2, <2>3, <2>4, <2>5, <2>6, <2>7, Continues, Zenon
<1>7. CASE ~(dir /\ ~IsDirEmpty(i))
  <2> DEFINE f == [n \in {d, i} |-> IF n = d /\ dir THEN Unlinks(d) ELSE Load(n)]
             g == [dinode[d] EXCEPT !.nlink = dinode[d].nlink - 1]
  <2>1. /\ Update({d, i}, f) /\ ents' = [ents EXCEPT ![d][x] = None]
        /\ lock' = [lock EXCEPT ![d] = NoProc, ![i] = p]
        /\ Go(p, "unlinked", << >>, None, i, <<d>>)
    BY <1>7, Zenon DEF UnlinkIp
  <2>2. dinode[i].type = "T_DIR" => dinode[d].nlink > 0
    <3>1. dinode[i].type = "T_DIR" => x \in SubDirs(d)
      BY <1>2, <1>3, Constants, Zenon DEF SubDirs
    <3> QED
      BY <1>3, <3>1 DEF Counted
  <2>3. /\ dinode[d] \in [type : Types, nlink : Nat] /\ dinode[i] \in [type : Types, nlink : Nat]
        /\ dinode[i].type = "T_DIR" => dinode[d].nlink - 1 \in Nat
    BY <1>3, <1>5, <2>2 DEF InodeTypes
  <2>4. dir => g \in [type : Types, nlink : Nat] /\ g.type = dinode[d].type
    BY <1>3, <2>3, Counts, Zenon
  <2>5. f[d] = (IF dir THEN g ELSE dinode[d]) /\ f[i] = dinode[i]
    BY <1>3, <1>4, Zenon DEF Unlinks
  <2>6. /\ f \in [{d, i} -> [type : Types, nlink : Nat]]
        /\ \A n \in {d, i} : Uses(p, n) /\ f[n].type = dinode[n].type
    <3> HIDE DEF g, dir
    <3>1. /\ f[d] \in [type : Types, nlink : Nat] /\ f[d].type = dinode[d].type
          /\ f[i] \in [type : Types, nlink : Nat] /\ f[i].type = dinode[i].type
      BY <2>3, <2>4, <2>5, Zenon
    <3> HIDE DEF f
    <3>2. f = [n \in {d, i} |-> f[n]]
      BY Zenon DEF f
    <3> QED
      BY <1>3, <3>1, <3>2
  <2>7. /\ ents' \in [Inum -> [AllNames -> Inum \cup {None}]]
        /\ \A n \in Inum : n # d => ents'[n] = ents[n]
    <3>1. ents \in Entries /\ x \in AllNames /\ None \in Inum \cup {None}
      BY <1>2, <1>5, Zenon DEF InodeTypes, AllNames, Entries
    <3>2. Sets(ents', ents, d, x, None)
      BY <1>3, <2>1, <3>1, SetEntry, Zenon
    <3> QED
      BY <3>2, Zenon DEF Sets, Entries
  <2>8. /\ {d, i} \in SUBSET Inum /\ OwnLocks(p)
        /\ \A n \in Inum : ents'[n] # ents[n] => Uses(p, n) /\ lock[n] \in {p, NoProc}
    BY <1>1, <1>2, <1>3, <1>5, <2>1, <2>7, Zenon DEF InodeTypes, OwnLocks, Unlocked
  <2>9. Shared(p)
    <3> DEFINE S == {d, i}
    <3>1. /\ UNCHANGED ref /\ S \in SUBSET Inum /\ f \in [S -> [type : Types, nlink : Nat]]
          /\ Update(S, f) /\ \A n \in S : Uses(p, n) /\ f[n].type = dinode[n].type
      BY <1>1, <2>1, <2>6, <2>8, Zenon
    <3> HIDE DEF f, S
    <3> QED
      BY <2>7, <2>8, <3>1, Updates, Zenon
  <2>10. Keeps(p) /\ Goes(p, "unlinked", << >>, None, i, d, None)
    <3>1. "unlinked" \in {"created", "unlinked"} /\ pc[p] \in {"init", "unlinkip"}
          /\ ("unlinked" = "created" <=> call[p].op \in Creates)
      BY <1>1, <1>2, Zenon DEF Creates
    <3> QED
      BY <1>1, <2>1, <2>9, <3>1, TwoLocks, Zenon
  <2>11. dinode' = [n \in Inum |-> IF n = d /\ dinode[i].type = "T_DIR" THEN g ELSE dinode[n]]
    <3>1. dinode' = [n \in Inum |-> IF n \in {d, i} THEN f[n] ELSE dinode[n]]
      BY <2>1 DEF Update
    <3> HIDE DEF f, g
    <3>2. dir <=> dinode[i].type = "T_DIR"
      BY <1>3
    <3> QED
      BY <1>4, <2>5, <3>1, <3>2, Zenon
  <2> QED
    BY <1>1, <1>2, <1>3, <1>4, <1>7, <2>1, <2>2, <2>10, <2>11 DEF Erases
<1> QED
  BY <1>6, <1>7, Zenon
\* What create() does when it gives the new inode i the name x in d.
Names(p, d, i, x) ==
    /\ d \in Inum /\ i \in Inum /\ d # i /\ x \in Name /\ ents[d][x] = None
    /\ pc[p] = "init" /\ ip[p] = i /\ dinode[d].type = "T_DIR"
    /\ \A n \in Inum \ {d, i} : ents'[n] = ents[n]
    /\ \A y \in AllNames : ents'[d][y] = IF y = x THEN i ELSE ents[d][y]
    /\ ents'[i]["."] = (IF dinode[i].type = "T_DIR" THEN i ELSE None)
    /\ ents'[i][".."] = (IF dinode[i].type = "T_DIR" THEN d ELSE None)
    /\ \A y \in Name : ents'[i][y] = None
    /\ dinode' = [n \in Inum |->
                    IF n = i THEN [dinode[i] EXCEPT !.nlink = 1]
                    ELSE IF n = d /\ dinode[i].type = "T_DIR"
                         THEN [dinode[d] EXCEPT !.nlink = dinode[d].nlink + 1] ELSE dinode[n]]
    /\ Goes(p, "created", << >>, None, i, d, None)

\* create() enters the name of the new inode.
LEMMA CreateInitStep ==
    ASSUME DirFacts, Counted, NEW p \in Proc, CreateInit(p)
    PROVE  Keeps(p) /\ Names(p, dp[p], ip[p], Head(rest[p]))
<1> DEFINE d == dp[p]
           i == ip[p]
           x == Head(rest[p])
           dir == CreateType(p) = "T_DIR"
           k == IF dir THEN 1 ELSE 0
           f == [n \in {d, i} |-> IF n = i THEN [Load(i) EXCEPT !.nlink = 1] ELSE Links(d, k)]
           a == IF dir THEN i ELSE None
           b == IF dir THEN d ELSE None
           g == [dinode[i] EXCEPT !.nlink = 1]
           h == [dinode[d] EXCEPT !.nlink = dinode[d].nlink + k]
<1>1. /\ pc[p] = "init" /\ puts[p] = << >> /\ Unlocked(i) /\ UNCHANGED <<ref, cwd, file>>
      /\ Update({d, i}, f) /\ lock' = [lock EXCEPT ![d] = NoProc, ![i] = p]
      /\ ents' = [ents EXCEPT ![i]["."] = a, ![i][".."] = b, ![d][x] = i]
      /\ Go(p, "created", << >>, None, i, <<d>>)
  BY Zenon DEF CreateInit, At
<1>2. /\ call[p].op \in Creates /\ d # None /\ i # None /\ x \in Name /\ lock[d] = p
      /\ dinode[d].type = "T_DIR" /\ ents[d][x] = None
  BY <1>1, Zenon DEF DirFacts, Locals, Shape, DpPCs, IpPCs, Knows
<1>3. /\ d \in Inum /\ Uses(p, d) /\ Load(d) = dinode[d]
      /\ i \in Inum /\ Uses(p, i) /\ Load(i) = dinode[i]
  BY <1>1, <1>2, InHand, Zenon
<1>4. /\ d # i /\ dinode[i] = [type |-> CreateType(p), nlink |-> 0]
      /\ ents[i] = [y \in AllNames |-> None]
  BY <1>1 DEF DirFacts, FreshInv
<1>5. (dir <=> dinode[i].type = "T_DIR") /\ k \in Nat
  BY <1>4
<1>6. /\ InodeTypes /\ ents \in Entries
      /\ dinode[d] \in [type : Types, nlink : Nat] /\ dinode[i] \in [type : Types, nlink : Nat]
  BY <1>3, Zenon DEF DirFacts, InodeTypes, Entries
<1>7. /\ g \in [type : Types, nlink : Nat] /\ g.type = dinode[i].type
      /\ h \in [type : Types, nlink : Nat] /\ h.type = dinode[d].type
      /\ (k = 0 => h = dinode[d])
  <2> HIDE DEF k
  <2>1. 1 \in Nat /\ dinode[d].nlink + k \in Nat
    BY <1>5, <1>6
  <2>2. k = 0 => h = dinode[d]
    BY <1>6
  <2> QED
    BY <1>6, <2>1, <2>2, Counts, Zenon
<1>8. f[i] = g /\ f[d] = h
  BY <1>3, <1>4, Zenon DEF Links
<1>9. /\ f \in [{d, i} -> [type : Types, nlink : Nat]]
      /\ \A n \in {d, i} : Uses(p, n) /\ f[n].type = dinode[n].type
  <2> HIDE DEF g, h, f
  <2>1. f = [n \in {d, i} |-> f[n]]
    BY Zenon DEF f
  <2> QED
    BY <1>3, <1>7, <1>8, <2>1, Zenon
<1>10. /\ ents' \in [Inum -> [AllNames -> Inum \cup {None}]]
       /\ \A n \in Inum \ {d, i} : ents'[n] = ents[n]
       /\ \A y \in AllNames : ents'[d][y] = IF y = x THEN i ELSE ents[d][y]
       /\ ents'[i]["."] = a /\ ents'[i][".."] = b
       /\ \A y \in Name : ents'[i][y] = None
  <2>1. a \in Inum \cup {None} /\ b \in Inum \cup {None} /\ i \in Inum \cup {None}
    BY <1>3, Zenon
  <2> HIDE DEF a, b
  <2>2. "." \in AllNames /\ ".." \in AllNames /\ x \in AllNames /\ Name \subseteq AllNames
    BY <1>2, Zenon DEF AllNames
  <2>3. PICK e1, e2 : /\ e1 = [ents EXCEPT ![i]["."] = a] /\ e2 = [e1 EXCEPT ![i][".."] = b]
                      /\ ents' = [e2 EXCEPT ![d][x] = i]
    BY <1>1, Zenon
  <2>4. e1 \in Entries /\ Sets(e1, ents, i, ".", a)
    BY <1>3, <1>6, <2>1, <2>2, <2>3, SetEntry, Zenon
  <2>5. e2 \in Entries /\ Sets(e2, e1, i, "..", b)
    BY <1>3, <2>1, <2>2, <2>3, <2>4, SetEntry, Zenon
  <2>6. Sets(ents', e2, d, x, i)
    BY <1>3, <2>1, <2>2, <2>3, <2>5, SetEntry, Zenon
  <2>7. /\ \A n \in Inum \ {d, i} : ents'[n] = ents[n]
        /\ \A y \in AllNames : ents'[d][y] = IF y = x THEN i ELSE ents[d][y]
    BY <1>3, <1>4, <2>4, <2>5, <2>6 DEF Sets
  <2>8. /\ ents'[i]["."] = a /\ ents'[i][".."] = b
        /\ \A y \in Name : ents'[i][y] = None
    <3>1. ents'[i] = e2[i]
      BY <1>3, <1>4, <2>6, Zenon DEF Sets
    <3>2. e2[i][".."] = b /\ \A y \in AllNames : y # ".." => e2[i][y] = e1[i][y]
      BY <2>2, <2>5, Zenon DEF Sets
    <3>3. e1[i]["."] = a /\ \A y \in AllNames : y # "." => e1[i][y] = None
      BY <1>4, <2>2, <2>4, Zenon DEF Sets
    <3> QED
      BY <2>2, <3>1, <3>2, <3>3, Constants, Zenon
  <2> QED
    BY <2>6, <2>7, <2>8, Zenon DEF Sets, Entries
<1>11. Shared(p)
  <2> DEFINE S == {d, i}
  <2>1. OwnLocks(p) /\ \A n \in Inum : n \in S => lock[n] \in {p, NoProc}
    BY <1>1, <1>2, <1>3, <1>6, Zenon DEF InodeTypes, OwnLocks, Unlocked
  <2>2. /\ UNCHANGED ref /\ S \in SUBSET Inum /\ f \in [S -> [type : Types, nlink : Nat]]
        /\ Update(S, f) /\ \A n \in S : Uses(p, n) /\ f[n].type = dinode[n].type
    BY <1>1, <1>3, <1>9, Zenon
  <2>3. \A n \in Inum : ents'[n] # ents[n] => Uses(p, n) /\ lock[n] \in {p, NoProc}
    BY <1>10, <2>1, <2>2
  <2> HIDE DEF f, S
  <2> QED
    BY <1>10, <2>1, <2>2, <2>3, Updates, Zenon
<1>12. Keeps(p) /\ Goes(p, "created", << >>, None, i, d, None)
  <2>1. /\ "created" \in {"created", "unlinked"} /\ pc[p] \in {"init", "unlinkip"}
        /\ ("created" = "created" <=> call[p].op \in Creates)
    BY <1>1, <1>2
  <2> QED
    BY <1>1, <1>11, <2>1, TwoLocks, Zenon
<1>13. dinode' = [n \in Inum |->
                    IF n = i THEN g
                    ELSE IF n = d /\ dinode[i].type = "T_DIR"
                         THEN [dinode[d] EXCEPT !.nlink = dinode[d].nlink + 1] ELSE dinode[n]]
  <2>1. dinode' = [n \in Inum |-> IF n \in {d, i} THEN f[n] ELSE dinode[n]]
    BY <1>1, Zenon DEF Update
  <2> HIDE DEF f, g
  <2> QED
    BY <1>4, <1>5, <1>7, <1>8, <2>1
<1> QED
  BY <1>1, <1>2, <1>3, <1>4, <1>5, <1>10, <1>12, <1>13, Zenon DEF Names
-----------------------------------------------------------------------------
(* iput().                                                                 *)

\* The inode that p puts.
LEMMA Putting ==
    ASSUME DirFacts, NEW p \in Proc, puts[p] # << >>
    PROVE  /\ Head(puts[p]) = PutHead[p] /\ PutHead[p] \in Inum
           /\ pc[p] \notin NamePCs /\ pc[p] # "init"
           /\ puts[p] \in Seq(Inum) /\ Len(puts[p]) <= 2
<1>1. puts[p] \in Seq(Inum) /\ Len(puts[p]) <= 2 /\ pc[p] \notin NamePCs
  BY Zenon DEF DirFacts, LocalTypes, Locals
<1>2. PutHead[p] = puts[p][1]
  BY Zenon DEF PutHead
<1>3. Head(puts[p]) = puts[p][1] /\ puts[p][1] \in Inum
  BY <1>1, OneOrTwo, Zenon
<1> QED
  BY <1>1, <1>2, <1>3, Zenon DEF NamePCs

\* What iput() leaves of the locals of p.
Stays(p) ==
    /\ UNCHANGED <<cwd, file, call, pc, rest, dp, ip>>
    /\ \A q \in Proc \ {p} : puts'[q] = puts[q] /\ put'[q] = put[q]

\* A step of iput() is right if it leaves the inodes like this.
LEMMA Puts ==
    ASSUME DirFacts, NEW p \in Proc, puts[p] # << >>, Stays(p),
           InodeTypes', CacheInv', LocalTypes', FreeInv(p)', RefFollows(p),
           puts'[p] = << >> => put'[p] = "check",
           \A n \in Inum : Uses(p, n)' =>
               /\ Uses(p, n) /\ dinode'[n].type = dinode[n].type /\ ents'[n] = ents[n]
               /\ lock[n] = p => lock'[n] = p,
           \A n \in Inum :
               /\ lock[n] \notin {p, NoProc} => lock'[n] = lock[n] /\ ents'[n] = ents[n]
               /\ ents'[n] # ents[n] => Uses(p, n)
               /\ dinode'[n] # dinode[n] => Frees(p, n)
               /\ ref'[n] # ref[n] => PutHead[p] = n
    PROVE  Keeps(p)
<1>1. Locals(p) /\ Knows(p) /\ FileTypes /\ pc[p] \notin NamePCs /\ pc[p] # "init"
  BY Putting, Zenon DEF DirFacts
<1>2. /\ dp[p] \in Inum \cup {None} /\ ip[p] \in Inum \cup {None}
      /\ cwd'[p] = cwd[p] /\ file'[p] = file[p] /\ call'[p] = call[p] /\ pc'[p] = pc[p]
      /\ rest'[p] = rest[p] /\ dp'[p] = dp[p] /\ ip'[p] = ip[p]
  BY Zenon DEF DirFacts, LocalTypes, Stays
<1>3. FileTypes' /\ FreshInv(p)'
  BY <1>1, <1>2, Zenon DEF Stays, FileTypes, FreshInv
<1>4. Locals(p)'
  BY <1>1, <1>2, Zenon DEF Locals
<1>5. /\ pc[p] \in DpPCs => dp[p] \in Inum /\ Uses(p, dp[p])'
      /\ pc[p] \in IpPCs \/ Linking(p) => ip[p] \in Inum /\ Uses(p, ip[p])'
  BY <1>1, <1>2, Zenon DEF Locals, Shape, Uses, Linking, LinksAt, IpPCs
<1>6. Knows(p)'
  <2>1. \A n \in Inum : Uses(p, n)' => dinode'[n].type # "none"
    BY <1>1, Zenon DEF Knows
  <2>2. pc'[p] \in DpPCs \ {"walk"} => dinode'[dp'[p]].type = "T_DIR"
    BY <1>1, <1>2, <1>5, Zenon DEF Knows
  <2>3. /\ pc'[p] \in {"init", "linkexists", "unlinkip", "unlinkbad"} =>
              lock'[dp'[p]] = p
        /\ pc'[p] \in {"created", "unlinked"} => lock'[ip'[p]] = p
    BY <1>1, <1>2, <1>5, Zenon DEF Knows, DpPCs, IpPCs
  <2>4. Linking(p)' => dinode'[ip'[p]].type # "T_DIR"
    BY <1>1, <1>2, <1>5, Zenon DEF Knows, Linking
  <2>5. pc'[p] # "unlinkip" /\ pc'[p] # "init"
    BY <1>1, <1>2, Zenon DEF NamePCs
  <2> QED
    BY <2>1, <2>2, <2>3, <2>4, <2>5, Zenon DEF Knows
<1>7. Guar(p)
  <2>1. \A q \in Proc \ {p} :
          /\ cwd'[q] = cwd[q] /\ file'[q] = file[q] /\ call'[q] = call[q]
          /\ pc'[q] = pc[q] /\ rest'[q] = rest[q] /\ dp'[q] = dp[q]
          /\ ip'[q] = ip[q] /\ puts'[q] = puts[q] /\ put'[q] = put[q]
    BY Zenon DEF Stays
  <2> QED
    BY <2>1, Zenon DEF Guar
<1> QED
  BY <1>3, <1>4, <1>6, <1>7, Zenon DEF Keeps
\* iput() up to the decision whether to free the inode.
LEMMA IputCheckStep ==
    ASSUME DirFacts, Counted, NEW p \in Proc, IputCheck(p)
    PROVE  Keeps(p) /\ Quiet(p)
<1> DEFINE n == PutHead[p]
<1>1. puts[p] # << >> /\ put[p] = "check"
  BY Zenon DEF IputCheck
<1>2. Head(puts[p]) = n /\ n \in Inum /\ pc[p] # "init"
  BY <1>1, Putting, Zenon
<1>3. /\ UNCHANGED <<dinode, ents, ref, valid, copy, cwd, file, call, pc, rest, dp, ip, puts>>
      /\ lock[n] = NoProc
      /\ \/ /\ n \in valid /\ copy[n].nlink = 0 /\ ref[n] = 1
            /\ lock' = [lock EXCEPT ![n] = p] /\ put' = [put EXCEPT ![p] = "free"]
         \/ put' = [put EXCEPT ![p] = "drop"] /\ UNCHANGED lock
  BY <1>2, Zenon DEF IputCheck, Unlocked, LastRef
<1>4. InodeTypes /\ CacheInv /\ LocalTypes
  BY Zenon DEF DirFacts
<1>5. /\ put' \in [Proc -> {"check", "free", "drop"}] /\ put'[p] \in {"free", "drop"}
      /\ \A q \in Proc \ {p} : put'[q] = put[q]
      /\ lock' \in [Inum -> Proc \cup {NoProc}]
      /\ \A m \in Inum : lock[m] # NoProc => lock'[m] = lock[m]
  <2>1. lock \in [Inum -> Proc \cup {NoProc}] /\ put \in [Proc -> {"check", "free", "drop"}]
    BY <1>4, Zenon DEF InodeTypes, LocalTypes
  <2>2. CASE lock' = [lock EXCEPT ![n] = p] /\ put' = [put EXCEPT ![p] = "free"]
    BY <1>2, <1>3, <2>1, <2>2, Zenon
  <2>3. CASE put' = [put EXCEPT ![p] = "drop"] /\ UNCHANGED lock
    BY <2>1, <2>3, Zenon
  <2> QED
    BY <1>3, <2>2, <2>3, Zenon
<1>6. InodeTypes' /\ CacheInv' /\ LocalTypes'
  BY <1>3, <1>4, <1>5, Zenon DEF InodeTypes, CacheInv, LocalTypes
<1>7. Stays(p) /\ puts'[p] # << >>
  BY <1>1, <1>3, <1>5, Zenon DEF Stays
<1>8. PutHead'[p] = PutHead[p] /\ PutNext'[p] = PutNext[p]
  BY <1>3, SamePuts, Zenon
<1>9. FreeInv(p)'
  <2>1. put'[p] = "free" => /\ n \in valid /\ copy[n].nlink = 0 /\ ref[n] = 1
                            /\ lock'[n] = p
    BY <1>2, <1>3, <1>4, Zenon DEF InodeTypes, LocalTypes
  <2>2. put'[p] = "free" => copy[n] = dinode[n]
    BY <1>4, <2>1 DEF CacheInv
  <2> QED
    BY <1>3, <1>8, <2>1, <2>2, Zenon DEF FreeInv
<1>10. RefFollows(p)
  <2>1. ASSUME NEW m PROVE Pts(p, m)' = Pts(p, m)
    BY <1>3, <1>8, Zenon DEF Pts
  <2> QED
    BY <1>3, <2>1, Zenon DEF RefFollows
<1>11. \A m \in Inum : Uses(p, m)' => Uses(p, m)
  BY <1>1, <1>3, <1>8, Zenon DEF Uses
<1>12. Keeps(p)
  <2>1. \A m \in Inum : lock[m] = p => lock'[m] = p
    BY <1>5, Constants, Zenon
  <2> QED
    BY <1>1, <1>3, <1>5, <1>6, <1>7, <1>9, <1>10, <1>11, <2>1, Puts, Zenon
<1> QED
  BY <1>2, <1>3, <1>12, Zenon DEF Quiet, Linking

\* What iput() does when it frees n.
Freed(p, n) ==
    /\ n \in Inum /\ Frees(p, n) /\ dinode[n].nlink = 0 /\ pc[p] # "init"
    /\ dinode' = [dinode EXCEPT ![n].type = "none"]
    /\ ents' = [ents EXCEPT ![n] = [x \in AllNames |-> None]]
    /\ UNCHANGED <<pc, ip>>

\* iput() frees the inode: one reference, and no link.
LEMMA IputFreeStep ==
    ASSUME DirFacts, Counted, NEW p \in Proc, IputFree(p)
    PROVE  Keeps(p) /\ Freed(p, PutHead[p])
<1> DEFINE n == PutHead[p]
           none == [x \in AllNames |-> None]
<1>1. puts[p] # << >> /\ put[p] = "free"
  BY Zenon DEF IputFree
<1>2. Head(puts[p]) = n /\ n \in Inum /\ pc[p] # "init"
  BY <1>1, Putting, Zenon
<1>3. /\ UNCHANGED <<ref, cwd, file, call, pc, rest, dp, ip, puts>>
      /\ dinode' = [dinode EXCEPT ![n].type = "none"]
      /\ copy' = [copy EXCEPT ![n].type = "none"]
      /\ ents' = [ents EXCEPT ![n] = none]
      /\ valid' = valid \ {n} /\ lock' = [lock EXCEPT ![n] = NoProc]
      /\ put' = [put EXCEPT ![p] = "drop"]
  BY <1>2, Zenon DEF IputFree, Invalid
<1>4. /\ InodeTypes /\ CacheInv /\ LocalTypes
      /\ lock[n] = p /\ ref[n] = 1 /\ dinode[n].nlink = 0
  BY <1>1, Zenon DEF DirFacts, FreeInv
<1>5. /\ n \notin {cwd[p], file[p], dp[p], ip[p], PutNext[p]} /\ Uses(p, n) /\ Frees(p, n)
  BY <1>1, <1>2, <1>4, Zenon DEF Counted, Uses, Frees
<1>6. /\ put' \in [Proc -> {"check", "free", "drop"}] /\ put'[p] = "drop"
      /\ \A q \in Proc \ {p} : put'[q] = put[q]
      /\ lock' \in [Inum -> Proc \cup {NoProc}] /\ valid' \subseteq Inum
      /\ \A m \in Inum : m # n => lock'[m] = lock[m]
  BY <1>2, <1>3, <1>4, Zenon DEF InodeTypes, LocalTypes
<1>7. /\ dinode' \in [Inum -> [type : Types, nlink : Nat]]
      /\ copy' \in [Inum -> [type : Types, nlink : Nat]]
      /\ \A m \in Inum : m # n => dinode'[m] = dinode[m] /\ copy'[m] = copy[m]
  <2>1. dinode' \in [Inum -> [type : Types, nlink : Nat]]
    BY <1>2, <1>3, <1>4, FreedType, Zenon DEF InodeTypes
  <2>2. copy' \in [Inum -> [type : Types, nlink : Nat]]
    BY <1>2, <1>3, <1>4, FreedType, Zenon DEF InodeTypes
  <2>3. \A m \in Inum : m # n => dinode'[m] = dinode[m] /\ copy'[m] = copy[m]
    BY <1>2, <1>3 DEF InodeTypes
  <2> QED
    BY <2>1, <2>2, <2>3, Zenon
<1>8. /\ ents' \in [Inum -> [AllNames -> Inum \cup {None}]]
      /\ \A m \in Inum : m # n => ents'[m] = ents[m]
  <2>1. none \in [AllNames -> Inum \cup {None}]
    BY Zenon
  <2> HIDE DEF none
  <2> QED
    BY <1>2, <1>3, <1>4, <2>1, Zenon DEF InodeTypes
<1>9. InodeTypes' /\ LocalTypes'
  BY <1>3, <1>4, <1>6, <1>7, <1>8, Zenon DEF InodeTypes, LocalTypes
<1>10. CacheInv'
  BY <1>3, <1>4, <1>7, Zenon DEF InodeTypes, CacheInv
<1>11. Stays(p) /\ puts'[p] # << >> /\ FreeInv(p)'
  BY <1>1, <1>3, <1>6, Zenon DEF Stays, FreeInv
<1>12. PutHead'[p] = PutHead[p] /\ PutNext'[p] = PutNext[p]
  BY <1>3, SamePuts, Zenon
<1>13. RefFollows(p)
  <2>1. ASSUME NEW m PROVE Pts(p, m)' = Pts(p, m)
    BY <1>3, <1>12, Zenon DEF Pts
  <2> QED
    BY <1>3, <2>1, Zenon DEF RefFollows
<1>14. \A m \in Inum : Uses(p, m)' => Uses(p, m) /\ m # n
  BY <1>3, <1>5, <1>6, <1>12, Zenon DEF Uses
<1>15. Keeps(p)
  <2>1. \A m \in Inum : Uses(p, m)' =>
            /\ Uses(p, m) /\ dinode'[m].type = dinode[m].type /\ ents'[m] = ents[m]
            /\ lock[m] = p => lock'[m] = p
    BY <1>6, <1>7, <1>8, <1>14, Zenon
  <2>2. \A m \in Inum :
            /\ lock[m] \notin {p, NoProc} => lock'[m] = lock[m] /\ ents'[m] = ents[m]
            /\ ents'[m] # ents[m] => Uses(p, m)
            /\ dinode'[m] # dinode[m] => Frees(p, m)
            /\ ref'[m] # ref[m] => PutHead[p] = m
    BY <1>3, <1>4, <1>5, <1>6, <1>7, <1>8, Zenon
  <2> QED
    BY <1>1, <1>9, <1>10, <1>11, <1>13, <2>1, <2>2, Puts, Zenon
<1> QED
  BY <1>2, <1>3, <1>4, <1>5, <1>15, Zenon DEF Freed
\* The reference is dropped, and the next inode is up.
LEMMA IputDropStep ==
    ASSUME DirFacts, Counted, NEW p \in Proc, IputDrop(p)
    PROVE  Keeps(p) /\ Quiet(p)
<1> DEFINE n == PutHead[p]
           x == PutNext[p]
<1>1. puts[p] # << >> /\ put[p] = "drop"
  BY Zenon DEF IputDrop
<1>2. /\ Head(puts[p]) = n /\ n \in Inum /\ pc[p] # "init"
      /\ puts[p] \in Seq(Inum) /\ Len(puts[p]) <= 2
  BY <1>1, Putting, Zenon
<1>3. /\ UNCHANGED <<dinode, ents, valid, copy, lock, cwd, file, call, pc, rest, dp, ip>>
      /\ ref' = [ref EXCEPT ![n] = ref[n] - 1]
      /\ puts' = [puts EXCEPT ![p] = Tail(puts[p])]
      /\ put' = [put EXCEPT ![p] = "check"]
  BY <1>2, Zenon DEF IputDrop
<1>4. InodeTypes /\ CacheInv /\ LocalTypes /\ ref[n] > 0
  BY <1>2, Zenon DEF DirFacts, Counted
<1>5. Tail(puts[p]) \in Seq(Inum) /\ Len(Tail(puts[p])) <= 2
  BY <1>1, <1>2, OneOrTwo, Zenon
<1>6. /\ puts \in [Proc -> Seq(Inum)] /\ put \in [Proc -> {"check", "free", "drop"}]
      /\ ref \in [Inum -> Nat]
  BY <1>4, Zenon DEF InodeTypes, LocalTypes
<1>7. /\ put' \in [Proc -> {"check", "free", "drop"}] /\ put'[p] = "check"
      /\ puts' \in [Proc -> Seq(Inum)] /\ puts'[p] = Tail(puts[p])
      /\ \A q \in Proc \ {p} : puts'[q] = puts[q] /\ put'[q] = put[q]
  BY <1>3, <1>5, <1>6, Zenon
<1>8. /\ ref' \in [Inum -> Nat]
      /\ \A m \in Inum : ref'[m] = IF m = n THEN ref[m] - 1 ELSE ref[m]
  BY <1>2, <1>3, <1>4, <1>6
<1>9. InodeTypes'
  BY <1>3, <1>4, <1>8, Zenon DEF InodeTypes
<1>10. LocalTypes'
  <2>1. \A q \in Proc : Len(puts'[q]) <= 2
    BY <1>4, <1>5, <1>7, Zenon DEF LocalTypes
  <2> QED
    BY <1>3, <1>4, <1>7, <2>1, Zenon DEF LocalTypes
<1>11. CacheInv'
  <2>1. \A m \in Inum : ref'[m] > 0 => ref[m] > 0
    BY <1>4, <1>8, Zenon
  <2> QED
    BY <1>3, <1>4, <2>1, Zenon DEF CacheInv, InodeTypes
<1>12. PutHead'[p] = x /\ PutNext'[p] = None
  <2>1. /\ Len(Tail(puts[p])) # 2
        /\ Len(puts[p]) = 2 => Tail(puts[p]) # << >> /\ Tail(puts[p])[1] = puts[p][2]
        /\ Len(puts[p]) # 2 => Tail(puts[p]) = << >>
    BY <1>1, <1>2, OneOrTwo, Zenon
  <2>2. PutHead'[p] = IF Tail(puts[p]) = << >> THEN None ELSE Tail(puts[p])[1]
    BY <1>7, Zenon DEF PutHead
  <2>3. PutNext'[p] = IF Len(Tail(puts[p])) = 2 THEN Tail(puts[p])[2] ELSE None
    BY <1>7, Zenon DEF PutNext
  <2>4. PutNext[p] = IF Len(puts[p]) = 2 THEN puts[p][2] ELSE None
    BY Zenon DEF PutNext
  <2> QED
    BY <2>1, <2>2, <2>3, <2>4, Zenon
<1>13. RefFollows(p)
  <2>1. Loses(n)
    BY <1>2, <1>4, <1>6, <1>8, Zenon DEF Loses
  <2> QED
    BY <1>3, <1>12, <2>1, LossBalances, Zenon
<1>14. \A m \in Inum : Uses(p, m)' => Uses(p, m)
  BY <1>3, <1>12, Constants, Zenon DEF Uses
<1>15. Stays(p) /\ FreeInv(p)'
  BY <1>3, <1>7, Zenon DEF Stays, FreeInv
<1>16. \A m \in Inum : ref'[m] # ref[m] => PutHead[p] = m
  BY <1>8, Zenon
<1>17. Keeps(p)
  BY <1>1, <1>3, <1>7, <1>9, <1>10, <1>11, <1>13, <1>14, <1>15, <1>16, Puts, Zenon
<1> QED
  BY <1>2, <1>3, <1>17, Zenon DEF Quiet, Linking-----------------------------------------------------------------------------
(* ialloc().                                                               *)

\* What create() does when it allocates i.
Allocs(p, i) ==
    /\ i \in Inum /\ pc[p] = "create" /\ dinode[i].type = "none"
    /\ \E t \in Types \ {"none"} : dinode' = [dinode EXCEPT ![i] = [type |-> t, nlink |-> 0]]
    /\ UNCHANGED ents /\ pc'[p] = "init" /\ ip'[p] = i

\* The type of a new inode.
LEMMA NewType ==
    ASSUME NEW p \in Proc, call[p].op \in Creates
    PROVE  CreateType(p) \in Types \ {"none"}
BY DEF CreateType, Creates, Types

\* The free inode i is used by nobody, and not valid.
LEMMA FreeIsUnused ==
    ASSUME DirFacts, Counted, NEW i \in Inum, dinode[i].type = "none"
    PROVE  /\ \A q \in Proc : ~Uses(q, i)
           /\ i \in valid => ref[i] = 0
           /\ ents[i] = [y \in AllNames |-> None] /\ dinode[i].nlink = 0
<1>1. \A q \in Proc : ~Uses(q, i)
  BY Zenon DEF DirFacts, Knows
<1>2. i \in valid => ref[i] = 0
  BY DEF DirFacts, InodeTypes, CacheInv
<1>3. ents[i] = [y \in AllNames |-> None] /\ dinode[i].nlink = 0
  BY Zenon DEF DirFacts, TreeInv
<1> QED
  BY <1>1, <1>2, <1>3, Zenon

\* ialloc() takes a free inode and iget() its entry.
LEMMA CreateAllocStep ==
    ASSUME DirFacts, Counted, NEW p \in Proc, CreateAlloc(p)
    PROVE  Keeps(p) /\ \E i \in Inum : Allocs(p, i)
<1> DEFINE d == dp[p]
           x == Head(rest[p])
           new == [type |-> CreateType(p), nlink |-> 0]
<1>1. PICK i \in Inum :
          /\ dinode[i].type = "none" /\ lock[d] = NoProc /\ ents[d][x] = None
          /\ lock' = [lock EXCEPT ![d] = p]
          /\ dinode' = [dinode EXCEPT ![i] = new]
          /\ copy' = [copy EXCEPT ![d] = Load(d)]
          /\ Iget(i, valid \cup {d})
          /\ Go(p, "init", rest[p], d, i, << >>)
  BY Zenon DEF CreateAlloc, FreeInum, Unlocked, Dirlookup
<1>2. pc[p] = "create" /\ puts[p] = << >> /\ UNCHANGED <<ents, cwd, file>>
  BY Zenon DEF CreateAlloc, At
<1>3. /\ call[p].op \in Creates /\ d # None /\ ip[p] = None /\ rest[p] \in Seq(Elem)
      /\ rest[p] # << >> /\ dinode[d].type = "T_DIR" /\ LocalTypes
  <2>1. Locals(p) /\ Knows(p) /\ LocalTypes
    BY Zenon DEF DirFacts
  <2>2. call[p].op \in Creates /\ d # None /\ ip[p] = None /\ rest[p] # << >>
    BY <1>2, <2>1, Zenon DEF Locals, Shape, DpPCs, IpPCs, NamePCs
  <2>3. dinode[d].type = "T_DIR"
    BY <1>2, <2>1, Zenon DEF Knows, DpPCs
  <2>4. rest[p] \in Seq(Elem)
    BY <2>1, Zenon DEF LocalTypes
  <2> QED
    BY <2>1, <2>2, <2>3, <2>4, Zenon
<1>4. /\ d \in Inum /\ Uses(p, d) /\ Load(d) = dinode[d] /\ put[p] = "check"
      /\ PutHead[p] = None /\ PutNext[p] = None /\ ref[d] > 0
  BY <1>2, <1>3, InHand, Zenon DEF Counted
<1>5. x \in Name
  <2>1. x \in Elem
    BY <1>3
  <2>2. ~IsFresh(p, d) /\ ~Frees(p, d)
    BY <1>2, <1>4, Zenon DEF IsFresh, Frees
  <2> QED
    BY <1>1, <1>3, <1>4, <2>1, <2>2, LookupIsLive, Zenon
<1>6. /\ \A q \in Proc : ~Uses(q, i)
      /\ i \in valid => ref[i] = 0
      /\ ents[i] = [y \in AllNames |-> None] /\ dinode[i].nlink = 0
  BY <1>1, FreeIsUnused, Zenon
<1>7. i # d /\ i # None /\ CreateType(p) \in Types \ {"none"}
  BY <1>3, <1>4, <1>6, NewType, Constants, Zenon
<1>8. /\ LocalTypes' /\ Goes(p, "init", rest[p], d, i, None, None) /\ call'[p] = call[p]
      /\ puts'[p] = << >>
  <2>1. /\ "init" \in PCs /\ d \in Inum \cup {None} /\ i \in Inum \cup {None}
        /\ "init" # "idle"
    BY <1>4, Zenon DEF PCs
  <2>2. PutsAre(<< >>, None, None)
    BY Zenon DEF PutsAre
  <2>3. /\ LocalTypes' /\ Goes(p, "init", rest[p], d, i, None, None)
        /\ call'[p] = IF "init" = "idle" THEN NoCall ELSE call[p]
    BY <1>1, <1>3, <2>1, <2>2, GoEffect, Zenon
  <2> QED
    BY <2>1, <2>3, Zenon DEF Goes
<1>9. /\ InodeTypes /\ CacheInv /\ FileTypes /\ ref \in [Inum -> Nat]
      /\ cwd'[p] = cwd[p] /\ file'[p] = file[p]
  BY <1>2, Zenon DEF DirFacts, InodeTypes
<1>10. /\ ref' \in [Inum -> Nat] /\ \A m \in Inum : ref'[m] = ref[m] + Is(i, m)
       /\ \A m \in Inum : m # i => ref'[m] = ref[m]
  <2>1. ref' = [ref EXCEPT ![i] = ref[i] + 1]
    BY <1>1, Zenon DEF Iget
  <2> QED
    BY <1>9, <2>1 DEF Is
<1>11. /\ dinode' \in [Inum -> [type : Types, nlink : Nat]] /\ dinode'[i] = new
       /\ \A m \in Inum : m # i => dinode'[m] = dinode[m]
  <2>1. new \in [type : Types, nlink : Nat]
    BY <1>7
  <2>2. dinode \in [Inum -> [type : Types, nlink : Nat]]
    BY <1>9, Zenon DEF InodeTypes
  <2> HIDE DEF new
  <2> QED
    BY <1>1, <2>1, <2>2, Zenon
<1>12. /\ valid' \subseteq valid \cup {d} /\ i \notin valid'
  BY <1>1, <1>6, <1>7, Zenon DEF Iget
<1>13. /\ copy' \in [Inum -> [type : Types, nlink : Nat]] /\ copy'[d] = dinode[d]
       /\ \A m \in Inum : m # d => copy'[m] = copy[m]
       /\ lock' \in [Inum -> Proc \cup {NoProc}] /\ lock'[d] = p
       /\ \A m \in Inum : m # d => lock'[m] = lock[m]
  <2>1. /\ copy \in [Inum -> [type : Types, nlink : Nat]]
        /\ dinode[d] \in [type : Types, nlink : Nat]
        /\ lock \in [Inum -> Proc \cup {NoProc}]
    BY <1>4, <1>9, Zenon DEF InodeTypes
  <2>2. copy' = [copy EXCEPT ![d] = dinode[d]] /\ lock' = [lock EXCEPT ![d] = p]
    BY <1>1, <1>4, Zenon
  <2> QED
    BY <1>4, <2>1, <2>2, Zenon
<1>14. InodeTypes'
  <2>1. valid' \subseteq Inum
    BY <1>4, <1>9, <1>12, Zenon DEF InodeTypes
  <2> QED
    BY <1>2, <1>9, <1>10, <1>11, <1>13, <2>1, Zenon DEF InodeTypes
<1>15. CacheInv'
  <2>1. SUFFICES ASSUME NEW m \in valid', ref'[m] > 0
                 PROVE  copy'[m] = dinode'[m] /\ dinode'[m].type # "none"
    BY Zenon DEF CacheInv
  <2>2. m \in Inum /\ m # i
    BY <1>12, <1>14, Zenon DEF InodeTypes
  <2>3. CASE m = d
    BY <1>3, <1>7, <1>4, <1>11, <1>13, <2>3, Zenon
  <2>4. CASE m # d
    BY <1>9, <1>10, <1>11, <1>12, <1>13, <2>1, <2>2, <2>4, Zenon DEF CacheInv
  <2> QED
    BY <2>3, <2>4, Zenon
<1>16. /\ pc'[p] = "init" /\ rest'[p] = rest[p] /\ dp'[p] = d /\ ip'[p] = i
       /\ PutHead'[p] = None /\ PutNext'[p] = None /\ put'[p] = "check"
  BY <1>4, <1>8, Zenon DEF Goes
<1>17. \A m \in Inum : Uses(p, m)' => Uses(p, m) \/ m = i
  BY <1>9, <1>16, Constants, Zenon DEF Uses
<1>18. Locals(p)'
  <2>1. Shape(call[p].op, "init", rest[p], d, i)
    BY <1>3, <1>5, <1>7, Zenon DEF Shape, DpPCs, IpPCs, Ops
  <2> QED
    BY <1>8, <1>16, <2>1, Zenon DEF Locals
<1>19. Knows(p)'
  <2>1. \A m \in Inum : Uses(p, m)' => dinode'[m].type # "none"
    <3>1. dinode'[i].type # "none"
      BY <1>7, <1>11
    <3>2. \A m \in Inum : Uses(p, m) => dinode[m].type # "none" /\ m # i
      BY <1>1, Zenon DEF DirFacts, Knows
    <3> QED
      BY <1>11, <1>17, <3>1, <3>2, Zenon
  <2>2. dinode'[d].type = "T_DIR" /\ lock'[d] = p /\ ents'[d][x] = None
    BY <1>1, <1>2, <1>3, <1>4, <1>7, <1>11, <1>13, Zenon
  <2>3. ~Linking(p)'
    BY <1>16, Zenon DEF Linking, LinksAt
  <2> QED
    BY <1>16, <2>1, <2>2, <2>3, Zenon DEF Knows
<1>20. \A q \in Proc \ {p} : ~Uses(q, i)'
  <2>1. SUFFICES ASSUME NEW q \in Proc, q # p PROVE ~Uses(q, i)'
    BY Zenon
  <2>2. /\ cwd'[q] = cwd[q] /\ file'[q] = file[q] /\ dp'[q] = dp[q] /\ ip'[q] = ip[q]
        /\ put'[q] = put[q] /\ puts'[q] = puts[q]
    BY <1>2, <1>8, <2>1, Zenon DEF Goes
  <2>3. PutHead'[q] = PutHead[q] /\ PutNext'[q] = PutNext[q]
    BY <2>2, SamePuts, Zenon
  <2> QED
    BY <1>6, <2>2, <2>3, Zenon DEF Uses
<1>21. FreshInv(p)'
  <2>1. CreateType(p)' = CreateType(p)
    BY <1>8, Zenon DEF CreateType
  <2>2. i \notin {cwd[p], file[p], d}
    BY <1>6, Zenon DEF Uses
  <2> QED
    BY <1>2, <1>6, <1>9, <1>11, <1>16, <1>20, <2>1, <2>2, Zenon DEF FreshInv
<1>22. FreeInv(p)'
  BY <1>16, Zenon DEF FreeInv
<1>23. Guar(p)
  <2>1. \A q \in Proc \ {p} :
          /\ cwd'[q] = cwd[q] /\ file'[q] = file[q] /\ call'[q] = call[q]
          /\ pc'[q] = pc[q] /\ rest'[q] = rest[q] /\ dp'[q] = dp[q]
          /\ ip'[q] = ip[q] /\ puts'[q] = puts[q] /\ put'[q] = put[q]
    BY <1>2, <1>8, Zenon DEF Goes
  <2>2. \A m \in Inum : lock[m] \notin {p, NoProc} => lock'[m] = lock[m] /\ ents'[m] = ents[m]
    BY <1>1, <1>2, <1>13, Zenon
  <2> QED
    BY <1>1, <1>2, <1>10, <1>11, <1>17, <2>1, <2>2, Zenon DEF Guar
<1>24. RefFollows(p)
  <2>1. Balance(p, d, i, None, None)
    <3>1. Gains(i)
      BY <1>9, <1>10, Zenon DEF Gains
    <3> QED
      BY <1>3, <1>9, <3>1, GainBalances, Zenon
  <2> QED
    BY <1>4, <1>8, <1>9, <1>14, <2>1, RefMoves, Zenon
<1>25. Keeps(p)
  <2>1. FileTypes'
    BY <1>2, <1>9, Zenon DEF FileTypes
  <2> QED
    BY <1>8, <1>14, <1>15, <1>18, <1>19, <1>21, <1>22, <1>23, <1>24, <2>1, Zenon DEF Keeps
<1> QED
  BY <1>1, <1>2, <1>7, <1>16, <1>25, Zenon DEF Allocs
-----------------------------------------------------------------------------
(* What the steps do to the tree.                                          *)

Has(e, S) == IF e \in S THEN 1 ELSE 0

\* No entry changes; nlink follows the link that p counts.
Recounts(p) ==
    /\ UNCHANGED ents /\ pc[p] # "init"
    /\ \A n \in Inum :
          /\ dinode'[n].type = dinode[n].type
          /\ dinode[n].type = "none" => dinode'[n] = dinode[n]
          /\ dinode'[n].nlink + Has(p, Counting(n)) = dinode[n].nlink + Has(p, Counting(n)')

\* Entry x of directory d changes; nlink follows it as well.
Changes(p, d, x) ==
    /\ d \in Inum /\ x \in Name /\ ents'[d][x] # d
    /\ \A m \in Inum, y \in Name : m # d \/ y # x => ents'[m][y] = ents[m][y]
    /\ \A n \in Inum :
          /\ dinode'[n].type = dinode[n].type
          /\ dinode[n].type = "none" => dinode'[n] = dinode[n] /\ ents'[n] = ents[n]
          /\ \/ ~IsFresh(p, n) /\ ents'[n]["."] = ents[n]["."]
             \/ ents'[n]["."] = n
             \/ dinode[n].type # "T_DIR" /\ ents'[n]["."] = None
          /\ dinode[n].type = "T_DIR" /\ ents'[d][x] # n => ents'[n][".."] = ents[n][".."]
          /\ dinode[n].type = "T_DIR" /\ ents'[d][x] = n =>
                NamesOf(n) = {} /\ ents'[n][".."] = d
          /\ dinode'[n].nlink + Is(ents[d][x], n) + Has(x, SubDirs(n)) + Has(p, Counting(n))
               = dinode[n].nlink + Is(ents'[d][x], n) + Has(x, SubDirs(n)')
                   + Has(p, Counting(n)')

\* A step that leaves the tree alone moves no link count.
LEMMA QuietRecounts ==
    ASSUME NEW p \in Proc, Quiet(p)
    PROVE  Recounts(p)
<1>1. \A n \in Inum : Has(p, Counting(n)') = Has(p, Counting(n))
  BY Zenon DEF Quiet, Has, Counting
<1> QED
  BY <1>1, Zenon DEF Quiet, Recounts

\* link() counts the link first.
LEMMA LinkRecounts ==
    ASSUME DirFacts, Counted, NEW p \in Proc, Link(p)
    PROVE  Keeps(p) /\ Recounts(p)
<1> DEFINE i == ip[p]
           f == [n \in {i} |-> LinkFirst(i)]
           g == [dinode[i] EXCEPT !.nlink = dinode[i].nlink + 1]
<1>1. Keeps(p) /\ pc[p] = "link" /\ puts[p] = << >>
  BY LinkStep, Zenon DEF Link, At
<1>2. CASE Quiet(p)
  BY <1>1, <1>2, QuietRecounts, Zenon
<1>3. CASE /\ MayLink(i) /\ Update({i}, f)
           /\ Goes(p, "linknew", << >>, None, i, None, None) /\ UNCHANGED ents
  <2>1. i # None /\ InodeTypes
    BY <1>1, Zenon DEF DirFacts, Locals, Shape, IpPCs
  <2>2. i \in Inum /\ Load(i) = dinode[i] /\ dinode[i].type # "none"
    BY <1>1, <2>1, InHand, Zenon DEF Live
  <2>3. dinode[i] \in [type : Types, nlink : Nat] /\ \A n \in Inum : dinode[n].nlink \in Nat
    BY <2>1, <2>2, Zenon DEF InodeTypes
  <2>4. dinode' = [n \in Inum |-> IF n = i THEN g ELSE dinode[n]]
    BY <1>3, <2>2, Zenon DEF Update, LinkFirst, Links
  <2>5. g.type = dinode[i].type /\ g.nlink = dinode[i].nlink + 1
    BY <2>3, Zenon
  <2>6. \A n \in Inum : /\ Has(p, Counting(n)) = 0
                        /\ Has(p, Counting(n)') = IF n = i THEN 1 ELSE 0
    BY <1>1, <1>3, Zenon DEF Goes, Has, Counting, Linking, LinksAt
  <2> HIDE DEF g, i
  <2>7. \A n \in Inum : dinode'[n].nlink = dinode[n].nlink + (IF n = i THEN 1 ELSE 0)
    BY <2>3, <2>4, <2>5
  <2>8. \A n \in Inum :
          dinode'[n].nlink + Has(p, Counting(n)) = dinode[n].nlink + Has(p, Counting(n)')
    BY <2>3, <2>6, <2>7
  <2>9. \A n \in Inum : /\ dinode'[n].type = dinode[n].type
                        /\ dinode[n].type = "none" => dinode'[n] = dinode[n]
    BY <2>2, <2>4, <2>5, Zenon
  <2> QED
    BY <1>1, <1>3, <2>8, <2>9, Zenon DEF Recounts
<1> QED
  BY <1>2, <1>3, LinkStep, Zenon

\* The count is taken back.
LEMMA UnlinkedRecounts ==
    ASSUME DirFacts, Counted, NEW p \in Proc, LinkBad(p) \/ Unlinked(p)
    PROVE  Keeps(p) /\ Recounts(p)
<1> DEFINE i == ip[p]
           f == [n \in {i} |-> Unlinks(n)]
           g == [dinode[i] EXCEPT !.nlink = dinode[i].nlink - 1]
<1>1. /\ pc[p] \in {"linkbad", "unlinked"} /\ puts[p] = << >>
      /\ Update({i}, f) /\ UNCHANGED ents
  BY Zenon DEF LinkBad, Unlinked, At
<1>2. Keeps(p) /\ pc'[p] = "idle" /\ ~Linking(p)' /\ dinode[i].nlink > 0
  BY UnlinkedStep, Zenon
<1>3. i # None /\ InodeTypes
  BY <1>1, Zenon DEF DirFacts, Locals, Shape, IpPCs
<1>4. i \in Inum /\ Load(i) = dinode[i] /\ dinode[i].type # "none"
  BY <1>1, <1>3, InHand, Zenon DEF Live
<1>5. dinode[i] \in [type : Types, nlink : Nat] /\ \A n \in Inum : dinode[n].nlink \in Nat
  BY <1>3, <1>4, Zenon DEF InodeTypes
<1>6. dinode' = [n \in Inum |-> IF n = i THEN g ELSE dinode[n]]
  BY <1>1, <1>4, Zenon DEF Update, Unlinks
<1>7. g.type = dinode[i].type /\ g.nlink = dinode[i].nlink - 1
  BY <1>5, Zenon
<1>8. \A n \in Inum : /\ Has(p, Counting(n)') = 0
                      /\ Has(p, Counting(n)) = IF n = i THEN 1 ELSE 0
  BY <1>1, <1>2, Zenon DEF Has, Counting, Linking, LinksAt
<1> HIDE DEF g, i
<1>9. \A n \in Inum : dinode'[n].nlink + (IF n = i THEN 1 ELSE 0) = dinode[n].nlink
  BY <1>5, <1>6, <1>7
<1>10. \A n \in Inum :
         dinode'[n].nlink + Has(p, Counting(n)) = dinode[n].nlink + Has(p, Counting(n)')
  BY <1>5, <1>8, <1>9
<1>11. \A n \in Inum : /\ dinode'[n].type = dinode[n].type
                       /\ dinode[n].type = "none" => dinode'[n] = dinode[n]
  BY <1>4, <1>6, <1>7, Zenon
<1> QED
  BY <1>1, <1>2, <1>10, <1>11, Zenon DEF Recounts

\* create() writes the name of the new inode, and its dots.
LEMMA CreateInitChanges ==
    ASSUME DirFacts, Counted, NEW p \in Proc, CreateInit(p)
    PROVE  Keeps(p) /\ Changes(p, dp[p], Head(rest[p]))
<1>0. PICK d, i, x : d = dp[p] /\ i = ip[p] /\ x = Head(rest[p])
  BY Zenon
<1>1. Keeps(p) /\ Names(p, d, i, x)
  BY <1>0, CreateInitStep, Zenon
<1>2. /\ d \in Inum /\ i \in Inum /\ d # i /\ x \in Name /\ ents[d][x] = None
      /\ pc[p] = "init" /\ ip[p] = i /\ ip'[p] = i /\ pc'[p] = "created"
      /\ dinode[d].type = "T_DIR" /\ InodeTypes
  BY <1>1, Zenon DEF Names, Goes, DirFacts
<1>3. /\ \A n \in Inum \ {d, i} : ents'[n] = ents[n]
      /\ \A y \in AllNames : ents'[d][y] = IF y = x THEN i ELSE ents[d][y]
      /\ ents'[i]["."] = (IF dinode[i].type = "T_DIR" THEN i ELSE None)
      /\ ents'[i][".."] = (IF dinode[i].type = "T_DIR" THEN d ELSE None)
      /\ \A y \in Name : ents'[i][y] = None
  BY <1>1, Zenon DEF Names
<1>4. /\ dinode[i].nlink = 0 /\ dinode[i].type # "none"
      /\ \A y \in Name : ents[i][y] = None
  <2>1. FreshInv(p) /\ Uses(p, i) /\ Knows(p)
    BY <1>2, Zenon DEF DirFacts, Uses
  <2>2. /\ dinode[i] = [type |-> CreateType(p), nlink |-> 0]
        /\ ents[i] = [y \in AllNames |-> None] /\ dinode[i].type # "none"
    BY <1>2, <2>1, Zenon DEF FreshInv, Knows
  <2> QED
    BY <2>2 DEF AllNames
<1>5. /\ dinode[i] \in [type : Types, nlink : Nat] /\ dinode[d] \in [type : Types, nlink : Nat]
      /\ \A n \in Inum : dinode[n].nlink \in Nat
  BY <1>2, Zenon DEF InodeTypes
<1>6. PICK g, h : /\ g = [dinode[i] EXCEPT !.nlink = 1]
                  /\ h = [dinode[d] EXCEPT !.nlink = dinode[d].nlink + 1]
  BY Zenon
<1>7. g.type = dinode[i].type /\ g.nlink = 1
  BY <1>5, <1>6, Zenon
<1>8. h.type = dinode[d].type /\ h.nlink = dinode[d].nlink + 1
  BY <1>5, <1>6, Zenon
<1>9. /\ dinode'[i] = g
      /\ dinode'[d] = IF dinode[i].type = "T_DIR" THEN h ELSE dinode[d]
      /\ \A n \in Inum : n # d /\ n # i => dinode'[n] = dinode[n]
  BY <1>1, <1>2, <1>6, Zenon DEF Names
<1>10. \A n \in Inum : dinode'[n].type = dinode[n].type
  BY <1>7, <1>8, <1>9, Zenon
<1>11. \A n \in Inum : dinode[n].type = "none" => dinode'[n] = dinode[n] /\ ents'[n] = ents[n]
  BY <1>2, <1>3, <1>4, <1>9
<1>12. /\ x \in AllNames /\ "." \in AllNames /\ ".." \in AllNames /\ x # "." /\ x # ".."
       /\ Name \subseteq AllNames
  BY <1>2, Constants, Zenon DEF AllNames
<1>13. ents'[d][x] = i
  BY <1>3, <1>12, Zenon
<1>14. \A m \in Inum, y \in Name : m # d \/ y # x => ents'[m][y] = ents[m][y]
  BY <1>3, <1>4, <1>12, Zenon
<1>15. \A n \in Inum : \/ ~IsFresh(p, n) /\ ents'[n]["."] = ents[n]["."]
                       \/ ents'[n]["."] = n
                       \/ dinode[n].type # "T_DIR" /\ ents'[n]["."] = None
  BY <1>2, <1>3, <1>12, Zenon DEF IsFresh
<1>16. \A n \in Inum : n # i => ents'[n][".."] = ents[n][".."]
  BY <1>2, <1>3, <1>12, Zenon
<1>17. NamesOf(i) = {}
  <2>1. ~(dinode[i].nlink > 0)
    BY <1>4
  <2> QED
    BY <1>2, <2>1, Zenon DEF Counted
<1>18. /\ \A n \in Inum : Has(p, Counting(n)) = 0 /\ Has(p, Counting(n)') = 0
       /\ \A n \in Inum : Is(ents[d][x], n) = 0
       /\ \A n \in Inum : Is(ents'[d][x], n) = IF n = i THEN 1 ELSE 0
  BY <1>2, <1>13, Constants, Zenon DEF Has, Counting, Linking, LinksAt, Is
<1>19. /\ \A n \in Inum : n # d => Has(x, SubDirs(n)') = Has(x, SubDirs(n))
       /\ Has(x, SubDirs(d)) = 0
       /\ Has(x, SubDirs(d)') = IF dinode[i].type = "T_DIR" THEN 1 ELSE 0
  <2>1. ASSUME NEW n \in Inum, n # d PROVE Has(x, SubDirs(n)') = Has(x, SubDirs(n))
    <3>1. ents[n] \in [AllNames -> Inum \cup {None}]
      BY <1>2, Zenon DEF InodeTypes
    <3>2. ents'[n][x] = ents[n][x] /\ ents[n][x] \in Inum \cup {None}
      BY <1>2, <1>12, <1>14, <2>1, <3>1, Zenon
    <3> QED
      BY <1>10, <3>2, Zenon DEF Has, SubDirs
  <2>2. Has(x, SubDirs(d)) = 0
    BY <1>2, Zenon DEF Has, SubDirs
  <2>3. Has(x, SubDirs(d)') = IF dinode[i].type = "T_DIR" THEN 1 ELSE 0
    BY <1>2, <1>10, <1>13, Constants, Zenon DEF Has, SubDirs
  <2> QED
    BY <2>1, <2>2, <2>3, Zenon
<1>20. ASSUME NEW n \in Inum
       PROVE  dinode'[n].nlink + Is(ents[d][x], n) + Has(x, SubDirs(n)) + Has(p, Counting(n))
                = dinode[n].nlink + Is(ents'[d][x], n) + Has(x, SubDirs(n)')
                    + Has(p, Counting(n)')
  <2>1. PICK s \in Nat, t \in Nat, a \in Nat, b \in Nat, u \in Nat, v \in Nat :
          /\ s = Has(x, SubDirs(n)) /\ t = Has(x, SubDirs(n)') /\ a = dinode[n].nlink
          /\ b = dinode'[n].nlink /\ u = Is(ents[d][x], n) /\ v = Is(ents'[d][x], n)
    <3>1. Has(x, SubDirs(n)) \in Nat /\ Has(x, SubDirs(n)') \in Nat
      BY Zenon DEF Has
    <3>2. dinode[n].nlink \in Nat /\ dinode'[n].nlink \in Nat
      BY <1>1, <1>2, Zenon DEF Keeps, InodeTypes
    <3>3. Is(ents[d][x], n) \in Nat /\ Is(ents'[d][x], n) \in Nat
      BY IsNat, Zenon
    <3> QED
      BY <3>1, <3>2, <3>3, Zenon
  <2>2. u = 0 /\ Has(p, Counting(n)) = 0 /\ Has(p, Counting(n)') = 0
    BY <1>18, <2>1, Zenon
  <2>3. ASSUME n = i PROVE Evens(a, b, s, t, v)
    <3>1. a = 0 /\ b = 1 /\ v = 1 /\ t = s
      BY <1>2, <1>4, <1>7, <1>9, <1>18, <1>19, <2>1, <2>3, Zenon
    <3>2. b = a + 1
      BY <3>1
    <3>3. Grows(a, b, s, t, v)
      BY <3>1, <3>2, Zenon DEF Grows
    <3> QED
      BY <3>3, EvenOut, Zenon
  <2>4. ASSUME n = d PROVE Evens(a, b, s, t, v)
    <3>1. (v = 0 /\ b = a /\ s = 0 /\ t = 0) \/ (v = 0 /\ b = a + 1 /\ s = 0 /\ t = 1)
      BY <1>2, <1>8, <1>9, <1>18, <1>19, <2>1, <2>4, Zenon
    <3>2. Grows(a, b, s, t, v)
      BY <3>1, Zenon DEF Grows
    <3> QED
      BY <3>2, EvenOut, Zenon
  <2>5. ASSUME n # i, n # d PROVE Evens(a, b, s, t, v)
    <3>1. a = b /\ v = 0 /\ s = t
      BY <1>9, <1>18, <1>19, <2>1, <2>5, Zenon
    <3>2. Grows(a, b, s, t, v)
      BY <3>1, Zenon DEF Grows
    <3> QED
      BY <3>2, EvenOut, Zenon
  <2>6. Evens(a, b, s, t, v)
    BY <2>3, <2>4, <2>5, Zenon
  <2>7. b + u + s + 0 = a + v + t + 0
    BY <2>2, <2>6, Zenon DEF Evens
  <2> QED
    BY <2>1, <2>2, <2>7, Zenon
<1>21. \A n \in Inum :
         /\ dinode[n].type = "T_DIR" /\ ents'[d][x] # n => ents'[n][".."] = ents[n][".."]
         /\ dinode[n].type = "T_DIR" /\ ents'[d][x] = n => NamesOf(n) = {} /\ ents'[n][".."] = d
  BY <1>3, <1>13, <1>16, <1>17, Zenon
<1>22. d \in Inum /\ x \in Name /\ ents'[d][x] # d
  BY <1>2, <1>13, Zenon
<1>23. Changes(p, d, x)
  BY <1>10, <1>11, <1>14, <1>15, <1>20, <1>21, <1>22, Zenon DEF Changes
<1> QED
  BY <1>0, <1>1, <1>23, Zenon
\* What the change of entry x of d to v leaves.
Only(d, x, v) ==
    /\ ents'[d][x] = v /\ \A n \in Inum : n # d => ents'[n] = ents[n]
    /\ \A m \in Inum, y \in Name : m # d \/ y # x => ents'[m][y] = ents[m][y]
    /\ \A n \in Inum : ents'[n]["."] = ents[n]["."] /\ ents'[n][".."] = ents[n][".."]
    /\ \A n \in Inum : n # d => Has(x, SubDirs(n)') = Has(x, SubDirs(n))
    /\ \A u \in Inum : ents[d][x] = u =>
          Has(x, SubDirs(d)) = IF dinode[u].type = "T_DIR" THEN 1 ELSE 0
    /\ \A u \in Inum : v = u =>
          Has(x, SubDirs(d)') = IF dinode[u].type = "T_DIR" THEN 1 ELSE 0
    /\ ents[d][x] = None => Has(x, SubDirs(d)) = 0
    /\ v = None => Has(x, SubDirs(d)') = 0

\* dirlink() and unlink change one entry.
LEMMA OneEntry ==
    ASSUME InodeTypes, NEW d \in Inum, NEW x \in Name, NEW v \in Inum \cup {None},
           ents' = [ents EXCEPT ![d][x] = v],
           \A n \in Inum : dinode'[n].type = dinode[n].type
    PROVE  Only(d, x, v)
<1>1. ents \in Entries /\ x \in AllNames /\ Name \subseteq AllNames
  BY Zenon DEF InodeTypes, Entries, AllNames
<1>2. "." \in AllNames /\ ".." \in AllNames /\ x # "." /\ x # ".."
  BY Constants, Zenon DEF AllNames
<1>3. Sets(ents', ents, d, x, v)
  BY <1>1, SetEntry, Zenon
<1>4. /\ ents'[d][x] = v /\ \A n \in Inum : n # d => ents'[n] = ents[n]
      /\ \A m \in Inum, y \in Name : m # d \/ y # x => ents'[m][y] = ents[m][y]
      /\ \A n \in Inum : ents'[n]["."] = ents[n]["."] /\ ents'[n][".."] = ents[n][".."]
  BY <1>1, <1>2, <1>3, Zenon DEF Sets
<1>5. ASSUME NEW n \in Inum, n # d PROVE Has(x, SubDirs(n)') = Has(x, SubDirs(n))
  <2>1. ents[n] \in [AllNames -> Inum \cup {None}]
    BY <1>1, Zenon DEF Entries
  <2>2. ents'[n][x] = ents[n][x] /\ ents[n][x] \in Inum \cup {None}
    BY <1>1, <1>4, <1>5, <2>1, Zenon
  <2> QED
    BY <2>2, Zenon DEF Has, SubDirs
<1>6. /\ ents[d][x] = None => Has(x, SubDirs(d)) = 0
      /\ v = None => Has(x, SubDirs(d)') = 0
  BY <1>4, Zenon DEF Has, SubDirs
<1>7. ASSUME NEW u \in Inum
      PROVE  /\ ents[d][x] = u => Has(x, SubDirs(d)) = IF dinode[u].type = "T_DIR" THEN 1 ELSE 0
             /\ v = u => Has(x, SubDirs(d)') = IF dinode[u].type = "T_DIR" THEN 1 ELSE 0
  <2>1. u # None
    BY Constants, Zenon
  <2>2. ASSUME ents[d][x] = u
        PROVE  Has(x, SubDirs(d)) = IF dinode[u].type = "T_DIR" THEN 1 ELSE 0
    BY <2>1, <2>2, Zenon DEF Has, SubDirs
  <2>3. ASSUME v = u
        PROVE  Has(x, SubDirs(d)') = IF dinode[u].type = "T_DIR" THEN 1 ELSE 0
    BY <1>4, <2>1, <2>3, Zenon DEF Has, SubDirs
  <2> QED
    BY <2>2, <2>3, Zenon
<1> QED
  BY <1>4, <1>5, <1>6, <1>7, Zenon DEF Only

\* link() writes the name that it has counted.
LEMMA LinkDirChanges ==
    ASSUME DirFacts, Counted, NEW p \in Proc, LinkDir(p)
    PROVE  Keeps(p) /\ (Recounts(p) \/ Changes(p, dp[p], Head(rest[p])))
<1>0. PICK d, i, x : d = dp[p] /\ i = ip[p] /\ x = Head(rest[p])
  BY Zenon
<1>1. Keeps(p) /\ (Quiet(p) \/ ents[d][x] = None)
  BY <1>0, LinkDirStep, Zenon DEF Dirlookup
<1>2. CASE Quiet(p)
  BY <1>1, <1>2, QuietRecounts, Zenon
<1>3. CASE ents[d][x] = None
  <2>1. /\ pc[p] = "linkdir" /\ puts[p] = << >> /\ ents' = [ents EXCEPT ![d][x] = i]
        /\ Return(p, <<d, i>>) /\ UNCHANGED dinode
    BY <1>0, <1>3, Zenon DEF LinkDir, At, Dirlookup
  <2>2. /\ d # None /\ i # None /\ rest[p] \in Seq(Elem) /\ rest[p] # << >> /\ InodeTypes
    BY <1>0, <2>1, Zenon DEF DirFacts, LocalTypes, Locals, Shape, DpPCs, IpPCs, NamePCs
  <2>3. x \in Elem
    BY <1>0, <2>2
  <2>4. /\ d \in Inum /\ Uses(p, d) /\ ~IsFresh(p, d) /\ ~Frees(p, d) /\ i \in Inum
        /\ dinode[d].type # "none"
    BY <1>0, <2>1, <2>2, InHand, Zenon DEF Live
  <2>5. dinode[d].type = "T_DIR" /\ dinode[i].type # "T_DIR"
    BY <1>0, <2>1, Zenon DEF DirFacts, Knows, DpPCs, Linking, LinksAt
  <2>6. x \in Name /\ d # i /\ i \in Inum \cup {None}
    BY <1>3, <2>3, <2>4, <2>5, LookupIsLive, Zenon
  <2>7. /\ ents'[d][x] = i /\ \A n \in Inum : n # d => ents'[n] = ents[n]
        /\ \A m \in Inum, y \in Name : m # d \/ y # x => ents'[m][y] = ents[m][y]
        /\ \A n \in Inum : ents'[n]["."] = ents[n]["."] /\ ents'[n][".."] = ents[n][".."]
        /\ \A n \in Inum : n # d => Has(x, SubDirs(n)') = Has(x, SubDirs(n))
        /\ Has(x, SubDirs(d)) = 0 /\ Has(x, SubDirs(d)') = 0
    <3>1. Only(d, x, i)
      BY <2>1, <2>2, <2>4, <2>6, OneEntry, Zenon
    <3> QED
      BY <1>3, <2>4, <2>5, <3>1, Zenon DEF Only
  <2>8. pc'[p] = "idle"
    BY <2>1, Zenon DEF Return, Go, DirFacts, LocalTypes
  <2>9. \A n \in Inum : /\ Is(ents[d][x], n) = 0 /\ Has(p, Counting(n)') = 0
                        /\ Is(ents'[d][x], n) = Has(p, Counting(n))
    BY <1>0, <1>3, <2>1, <2>7, <2>8, Constants, Zenon DEF Has, Counting, Linking, LinksAt, Is
  <2>10. ASSUME NEW n \in Inum
         PROVE  dinode'[n].nlink + Is(ents[d][x], n) + Has(x, SubDirs(n)) + Has(p, Counting(n))
                  = dinode[n].nlink + Is(ents'[d][x], n) + Has(x, SubDirs(n)')
                      + Has(p, Counting(n)')
    <3>1. PICK a \in Nat, s \in Nat, c \in Nat :
            /\ a = dinode[n].nlink /\ s = Has(x, SubDirs(n)) /\ c = Has(p, Counting(n))
      <4>1. dinode[n].nlink \in Nat
        BY <2>2, Zenon DEF InodeTypes
      <4> QED
        BY <4>1, Zenon DEF Has
    <3>2. dinode'[n].nlink = a /\ Has(x, SubDirs(n)') = s
      BY <2>1, <2>7, <3>1, Zenon
    <3> QED
      BY <2>9, <3>1, <3>2
  <2>11. \A n \in Inum : dinode[n].type = "none" => dinode'[n] = dinode[n] /\ ents'[n] = ents[n]
    BY <2>1, <2>4, <2>7, Zenon
  <2>12. \A n \in Inum : ~IsFresh(p, n)
    BY <2>1, Zenon DEF IsFresh
  <2>13. Changes(p, d, x)
    BY <2>1, <2>4, <2>5, <2>6, <2>7, <2>10, <2>11, <2>12, Zenon DEF Changes
  <2> QED
    BY <1>0, <1>1, <2>13, Zenon
<1> QED
  BY <1>1, <1>2, <1>3, Zenon

\* unlink() erases a name and goes on counting it.
LEMMA UnlinkIpChanges ==
    ASSUME DirFacts, Counted, NEW p \in Proc, UnlinkIp(p)
    PROVE  Keeps(p) /\ (Recounts(p) \/ Changes(p, dp[p], Head(rest[p])))
<1>0. PICK d, i, x : d = dp[p] /\ i = ip[p] /\ x = Head(rest[p])
  BY Zenon
<1>1. Keeps(p) /\ (Quiet(p) \/ Erases(p, d, i, x))
  BY <1>0, UnlinkIpStep, Zenon
<1>2. CASE Quiet(p)
  BY <1>1, <1>2, QuietRecounts, Zenon
<1>3. CASE Erases(p, d, i, x)
  <2>1. /\ d \in Inum /\ i \in Inum /\ d # i /\ x \in Name /\ ents[d][x] = i
        /\ pc[p] = "unlinkip" /\ dinode[d].type = "T_DIR" /\ InodeTypes
        /\ ents' = [ents EXCEPT ![d][x] = None]
        /\ pc'[p] = "unlinked" /\ ip'[p] = i /\ None \in Inum \cup {None}
    BY <1>3, Zenon DEF Erases, Goes, DirFacts
  <2>2. PICK h : h = [dinode[d] EXCEPT !.nlink = dinode[d].nlink - 1]
    BY Zenon
  <2>3. /\ dinode'[d] = IF dinode[i].type = "T_DIR" THEN h ELSE dinode[d]
        /\ \A n \in Inum : n # d => dinode'[n] = dinode[n]
    BY <1>3, <2>1, <2>2, Zenon DEF Erases
  <2>4. dinode[d] \in [type : Types, nlink : Nat]
    BY <2>1, Zenon DEF InodeTypes
  <2>5. h.type = dinode[d].type /\ h.nlink = dinode[d].nlink - 1
    BY <2>2, <2>4, Zenon
  <2>6. /\ \A n \in Inum : dinode'[n].type = dinode[n].type
    BY <2>3, <2>5, Zenon
  <2>7. /\ ents'[d][x] = None /\ \A n \in Inum : n # d => ents'[n] = ents[n]
        /\ \A m \in Inum, y \in Name : m # d \/ y # x => ents'[m][y] = ents[m][y]
        /\ \A n \in Inum : ents'[n]["."] = ents[n]["."] /\ ents'[n][".."] = ents[n][".."]
        /\ \A n \in Inum : n # d => Has(x, SubDirs(n)') = Has(x, SubDirs(n))
        /\ Has(x, SubDirs(d)) = IF dinode[i].type = "T_DIR" THEN 1 ELSE 0
        /\ Has(x, SubDirs(d)') = 0
    <3>1. Only(d, x, None)
      BY <2>1, <2>6, OneEntry, Zenon
    <3> QED
      BY <2>1, <3>1, Zenon DEF Only
  <2>8. \A n \in Inum : /\ Is(ents'[d][x], n) = 0 /\ Has(p, Counting(n)) = 0
                        /\ Is(ents[d][x], n) = Has(p, Counting(n)')
    <3>1. \A n \in Inum : /\ p \notin Counting(n)
                          /\ p \in Counting(n)' <=> i = n
      BY <2>1, Zenon DEF Counting, Linking, LinksAt
    <3> QED
      <4>1. ents'[d][x] = None /\ ents[d][x] = i
        BY <2>1, <2>7, Zenon
      <4>2. \A n \in Inum : Is(ents'[d][x], n) = 0 /\ Has(p, Counting(n)) = 0
        BY <3>1, <4>1, Constants, Zenon DEF Has, Is
      <4>3. \A n \in Inum : Is(ents[d][x], n) = Has(p, Counting(n)')
        BY <3>1, <4>1, Zenon DEF Has, Is
      <4> QED
        BY <4>2, <4>3, Zenon
  <2>9. ASSUME NEW n \in Inum
        PROVE  dinode'[n].nlink + Is(ents[d][x], n) + Has(x, SubDirs(n)) + Has(p, Counting(n))
                 = dinode[n].nlink + Is(ents'[d][x], n) + Has(x, SubDirs(n)')
                     + Has(p, Counting(n)')
    <3>1. PICK a \in Nat, b \in Nat, s \in Nat, c \in Nat :
            /\ a = dinode[n].nlink /\ b = dinode'[n].nlink
            /\ s = Has(x, SubDirs(n)) /\ c = Has(p, Counting(n)')
      <4>1. dinode[n].nlink \in Nat /\ dinode'[n].nlink \in Nat
        BY <1>1, <2>1, Zenon DEF InodeTypes, Keeps
      <4> QED
        BY <4>1, Zenon DEF Has
    <3>2. PICK t \in Nat : t = Has(x, SubDirs(n)')
      BY Zenon DEF Has
    <3>3. b + s = a + t
      <4>1. CASE n # d
        <5>1. a = b /\ s = t
          BY <2>3, <2>7, <3>1, <3>2, <4>1, Zenon
        <5> QED
          BY <5>1
      <4>2. CASE n = d
        <5>1. (a = b /\ s = 0 /\ t = 0) \/ (b = a - 1 /\ s = 1 /\ t = 0)
          BY <2>3, <2>5, <2>7, <3>1, <3>2, <4>2, Zenon
        <5> QED
          BY <5>1
      <4> QED
        BY <4>1, <4>2, Zenon
    <3>4. b + c + s + 0 = a + 0 + t + c
      BY <3>3
    <3> QED
      BY <2>8, <3>1, <3>2, <3>4, Zenon
  <2>10. \A n \in Inum : /\ dinode[n].type = "none" => dinode'[n] = dinode[n] /\ ents'[n] = ents[n]
                         /\ ~IsFresh(p, n)
    BY <2>1, <2>3, <2>7, Zenon DEF IsFresh
  <2>11. \A n \in Inum : ents'[d][x] # n
    BY <2>7, Constants, Zenon
  <2>12. Changes(p, d, x)
    BY <2>1, <2>6, <2>7, <2>9, <2>10, <2>11, Zenon DEF Changes
  <2> QED
    BY <1>0, <1>1, <2>12, Zenon
<1> QED
  BY <1>1, <1>2, <1>3, Zenon
-----------------------------------------------------------------------------
(* The tree after a step.                                                  *)

Tree == TreeInv /\ DotDotIsParent

\* The inodes that others have just allocated.
LEMMA FreshStays ==
    ASSUME NEW p \in Proc, Guar(p)
    PROVE  \A q \in Proc, n \in Inum : q # p => (IsFresh(q, n)' <=> IsFresh(q, n))
BY Zenon DEF Guar, IsFresh

\* A step that only moves link counts keeps the tree.
LEMMA RecountsTree ==
    ASSUME Tree, NEW p \in Proc, Guar(p), Recounts(p)
    PROVE  Tree'
<1>1. \A n \in Inum : /\ dinode'[n].type = dinode[n].type
                      /\ dinode[n].type = "none" => dinode'[n] = dinode[n]
                      /\ NamesOf(n)' = NamesOf(n)
  BY Zenon DEF Recounts, NamesOf
<1>2. ents' = ents /\ pc[p] # "init"
  BY Zenon DEF Recounts
<1>3. \A n \in Inum : (\E q \in Proc : IsFresh(q, n)) => \E q \in Proc : IsFresh(q, n)'
  <2>1. \A n : ~IsFresh(p, n)
    BY <1>2, Zenon DEF IsFresh
  <2> QED
    BY <2>1, FreshStays, Zenon
<1>4. TreeInv'
  BY <1>1, <1>2, <1>3, Zenon DEF Tree, TreeInv
<1>5. DotDotIsParent'
  BY <1>1, <1>2, Zenon DEF Tree, DotDotIsParent
<1> QED
  BY <1>4, <1>5, Zenon DEF Tree

\* The names of n after entry x of d has changed.
LEMMA NamesChange ==
    ASSUME NEW d \in Inum, NEW x \in Name, NEW n,
           \A m \in Inum, y \in Name : m # d \/ y # x => ents'[m][y] = ents[m][y]
    PROVE  /\ <<d, x>> \in NamesOf(n) <=> ents[d][x] = n
           /\ <<d, x>> \in NamesOf(n)' <=> ents'[d][x] = n
           /\ \A e : e # <<d, x>> => (e \in NamesOf(n)' <=> e \in NamesOf(n))
<1>1. \A e \in Inum \X Name : /\ e = <<e[1], e[2]>> /\ e[1] \in Inum /\ e[2] \in Name
  OBVIOUS
<1>2. <<d, x>> \in Inum \X Name /\ <<d, x>>[1] = d /\ <<d, x>>[2] = x
  OBVIOUS
<1>3. ASSUME NEW e \in Inum \X Name, e # <<d, x>>
      PROVE  ents'[e[1]][e[2]] = ents[e[1]][e[2]]
  BY <1>1, <1>3, Zenon
<1>4. /\ <<d, x>> \in NamesOf(n) <=> ents[d][x] = n
      /\ <<d, x>> \in NamesOf(n)' <=> ents'[d][x] = n
  BY <1>2 DEF NamesOf
<1>5. \A e : e # <<d, x>> => (e \in NamesOf(n)' <=> e \in NamesOf(n))
  BY <1>3, Zenon DEF NamesOf
<1> QED
  BY <1>4, <1>5, Zenon

\* A step that writes one entry keeps the tree.
LEMMA ChangesTree ==
    ASSUME Tree, NEW p \in Proc, Guar(p), NEW d, NEW x, Changes(p, d, x)
    PROVE  Tree'
<1>1. /\ d \in Inum /\ x \in Name /\ ents'[d][x] # d
      /\ \A m \in Inum, y \in Name : m # d \/ y # x => ents'[m][y] = ents[m][y]
  BY Zenon DEF Changes
<1>2. ASSUME NEW n \in Inum
      PROVE  /\ dinode'[n].type = "none" => /\ dinode'[n].nlink = 0
                                            /\ ents'[n] = [y \in AllNames |-> None]
             /\ dinode'[n].type = "T_DIR" =>
                    ents'[n]["."] = n \/ \E q \in Proc : IsFresh(q, n)'
             /\ \A y \in Name : ents'[n][y] # n
             /\ ents'[n]["."] \in {None, n}
  <2>1. /\ dinode[n].type = "none" => /\ dinode[n].nlink = 0
                                      /\ ents[n] = [y \in AllNames |-> None]
        /\ dinode[n].type = "T_DIR" => ents[n]["."] = n \/ \E q \in Proc : IsFresh(q, n)
        /\ \A y \in Name : ents[n][y] # n
        /\ ents[n]["."] \in {None, n}
    BY Zenon DEF Tree, TreeInv
  <2>2. /\ dinode'[n].type = dinode[n].type
        /\ dinode[n].type = "none" => dinode'[n] = dinode[n] /\ ents'[n] = ents[n]
        /\ \/ ~IsFresh(p, n) /\ ents'[n]["."] = ents[n]["."]
           \/ ents'[n]["."] = n
           \/ dinode[n].type # "T_DIR" /\ ents'[n]["."] = None
    BY Zenon DEF Changes
  <2>3. \A y \in Name : ents'[n][y] # n
    BY <1>1, <2>1, Zenon
  <2>4. dinode[n].type = "none" => dinode'[n].nlink = 0 /\ ents'[n] = [y \in AllNames |-> None]
    BY <2>1, <2>2, Zenon
  <2>5. dinode[n].type = "T_DIR" => ents'[n]["."] = n \/ \E q \in Proc : IsFresh(q, n)'
    BY <2>1, <2>2, FreshStays, Zenon
  <2>6. ents'[n]["."] \in {None, n}
    BY <2>1, <2>2, Zenon
  <2> QED
    BY <2>2, <2>3, <2>4, <2>5, <2>6, Zenon
<1>3. ASSUME NEW n \in Inum, dinode'[n].type = "T_DIR", NEW e \in NamesOf(n)'
      PROVE  NamesOf(n)' = {e} /\ ents'[n][".."] = e[1]
  <2>1. /\ dinode[n].type = "T_DIR"
        /\ ents'[d][x] # n => ents'[n][".."] = ents[n][".."]
        /\ ents'[d][x] = n => NamesOf(n) = {} /\ ents'[n][".."] = d
    BY <1>3, Zenon DEF Changes
  <2>2. /\ <<d, x>> \in NamesOf(n)' <=> ents'[d][x] = n
        /\ \A a : a # <<d, x>> => (a \in NamesOf(n)' <=> a \in NamesOf(n))
    BY <1>1, NamesChange, Zenon
  <2>3. CASE ents'[d][x] = n
    <3>1. NamesOf(n)' = {<<d, x>>} /\ e = <<d, x>>
      BY <1>3, <2>1, <2>2, <2>3, Zenon
    <3> QED
      BY <2>1, <2>3, <3>1
  <2>4. CASE ents'[d][x] # n
    <3>1. e \in NamesOf(n) /\ \A a \in NamesOf(n)' : a \in NamesOf(n)
      BY <1>3, <2>2, <2>4, Zenon
    <3>2. NamesOf(n) = {e} /\ ents[n][".."] = e[1]
      BY <2>1, <3>1, Zenon DEF Tree, DotDotIsParent
    <3> QED
      BY <1>3, <2>1, <2>4, <3>1, <3>2, Zenon
  <2> QED
    BY <2>3, <2>4, Zenon
<1>4. TreeInv'
  BY <1>2, Zenon DEF TreeInv
<1>5. DotDotIsParent'
  BY <1>3, Zenon DEF DotDotIsParent
<1> QED
  BY <1>4, <1>5, Zenon DEF Tree
\* Freeing an inode keeps the tree: it has no name.
LEMMA FreedTree ==
    ASSUME Tree, InodeTypes, NEW p \in Proc, NEW m, Freed(p, m)
    PROVE  Tree'
<1>1. /\ m \in Inum /\ dinode[m].nlink = 0 /\ UNCHANGED <<pc, ip>>
      /\ dinode' = [dinode EXCEPT ![m].type = "none"]
      /\ ents' = [ents EXCEPT ![m] = [x \in AllNames |-> None]]
  BY Zenon DEF Freed
<1>2. dinode[m] \in [type : Types, nlink : Nat]
  BY <1>1, Zenon DEF InodeTypes
<1>3. /\ \A n \in Inum : n # m => dinode'[n] = dinode[n] /\ ents'[n] = ents[n]
      /\ ents'[m] = [x \in AllNames |-> None]
  BY <1>1, Zenon DEF InodeTypes
<1>4. dinode'[m].type = "none" /\ dinode'[m].nlink = 0
  BY <1>1, <1>2 DEF InodeTypes
<1>5. "." \in AllNames /\ \A y \in AllNames : ents'[m][y] = None
  BY <1>3, Zenon DEF AllNames
<1>6. ASSUME NEW n \in Inum
      PROVE  /\ dinode'[n].type = "none" => /\ dinode'[n].nlink = 0
                                            /\ ents'[n] = [y \in AllNames |-> None]
             /\ dinode'[n].type = "T_DIR" =>
                    ents'[n]["."] = n \/ \E q \in Proc : IsFresh(q, n)'
             /\ \A y \in Name : ents'[n][y] # n
             /\ ents'[n]["."] \in {None, n}
  <2>1. CASE n = m
    BY <1>3, <1>4, <1>5, <2>1, Constants, Zenon DEF AllNames
  <2>2. CASE n # m
    <3>1. dinode'[n] = dinode[n] /\ ents'[n] = ents[n] /\ \A q : IsFresh(q, n)' <=> IsFresh(q, n)
      BY <1>1, <1>3, <2>2, Zenon DEF IsFresh
    <3> QED
      BY <3>1, Zenon DEF Tree, TreeInv
  <2> QED
    BY <2>1, <2>2, Zenon
<1>7. ASSUME NEW n \in Inum, dinode'[n].type = "T_DIR", NEW e \in NamesOf(n)'
      PROVE  NamesOf(n)' = {e} /\ ents'[n][".."] = e[1]
  <2>1. dinode'[n] = dinode[n] /\ ents'[n] = ents[n]
    BY <1>3, <1>4, <1>7
  <2>2. ASSUME NEW a \in NamesOf(n)' PROVE a \in NamesOf(n)
    <3>1. a \in Inum \X Name /\ ents'[a[1]][a[2]] = n
      BY <2>2, Zenon DEF NamesOf
    <3>2. a[1] \in Inum /\ a[2] \in Name
      BY <3>1
    <3>3. a[1] # m
      BY <1>5, <3>1, <3>2, Constants, Zenon DEF AllNames
    <3> QED
      BY <1>3, <3>1, <3>2, <3>3, Zenon DEF NamesOf
  <2>3. NamesOf(n) = {e} /\ ents[n][".."] = e[1]
    BY <1>7, <2>1, <2>2, Zenon DEF Tree, DotDotIsParent
  <2> QED
    BY <1>7, <2>1, <2>2, <2>3, Zenon
<1>8. TreeInv'
  BY <1>6, Zenon DEF TreeInv
<1>9. DotDotIsParent'
  BY <1>7, Zenon DEF DotDotIsParent
<1> QED
  BY <1>8, <1>9, Zenon DEF Tree

\* Allocating an inode keeps the tree: it has no name yet.
LEMMA AllocsTree ==
    ASSUME Tree, InodeTypes, Counted, NEW p \in Proc, Guar(p), NEW i, Allocs(p, i)
    PROVE  Tree'
<1>1. /\ i \in Inum /\ pc[p] = "create" /\ dinode[i].type = "none"
      /\ ents' = ents /\ pc'[p] = "init" /\ ip'[p] = i
  BY Zenon DEF Allocs
<1>2. PICK t \in Types \ {"none"} : dinode' = [dinode EXCEPT ![i] = [type |-> t, nlink |-> 0]]
  BY Zenon DEF Allocs
<1>3. /\ \A n \in Inum : n # i => dinode'[n] = dinode[n]
      /\ dinode'[i] = [type |-> t, nlink |-> 0]
  BY <1>1, <1>2, Zenon DEF InodeTypes
<1>4. dinode'[i].type # "none"
  BY <1>2, <1>3
<1>5. NamesOf(i) = {}
  <2>1. dinode[i].nlink = 0
    BY <1>1, Zenon DEF Tree, TreeInv
  <2>2. ~(dinode[i].nlink > 0)
    BY <2>1
  <2> QED
    BY <1>1, <2>2, Zenon DEF Counted
<1>6. \A n \in Inum : NamesOf(n)' = NamesOf(n)
  BY <1>1, Zenon DEF NamesOf
<1>7. IsFresh(p, i)' /\ \A n : ~IsFresh(p, n)
  BY <1>1, Zenon DEF IsFresh
<1>8. ASSUME NEW n \in Inum
      PROVE  /\ dinode'[n].type = "none" => /\ dinode'[n].nlink = 0
                                            /\ ents'[n] = [y \in AllNames |-> None]
             /\ dinode'[n].type = "T_DIR" =>
                    ents'[n]["."] = n \/ \E q \in Proc : IsFresh(q, n)'
             /\ \A y \in Name : ents'[n][y] # n
             /\ ents'[n]["."] \in {None, n}
  <2>1. CASE n = i
    BY <1>1, <1>4, <1>7, <2>1, Zenon DEF Tree, TreeInv
  <2>2. CASE n # i
    <3>1. dinode'[n] = dinode[n]
      BY <1>3, <2>2, Zenon
    <3>2. (\E q \in Proc : IsFresh(q, n)) => \E q \in Proc : IsFresh(q, n)'
      BY <1>7, FreshStays, Zenon
    <3> QED
      BY <1>1, <3>1, <3>2, Zenon DEF Tree, TreeInv
  <2> QED
    BY <2>1, <2>2, Zenon
<1>9. TreeInv'
  BY <1>8, Zenon DEF TreeInv
<1>10. DotDotIsParent'
  <2>1. ASSUME NEW n \in Inum, dinode'[n].type = "T_DIR", NEW e \in NamesOf(n)'
        PROVE  NamesOf(n)' = {e} /\ ents'[n][".."] = e[1]
    <3>1. e \in NamesOf(n) /\ NamesOf(n)' = NamesOf(n) /\ n # i
      BY <1>5, <1>6, <2>1, Zenon
    <3> QED
      BY <1>1, <1>3, <2>1, <3>1, Zenon DEF Tree, DotDotIsParent
  <2> QED
    BY <2>1, Zenon DEF DotDotIsParent
<1> QED
  BY <1>9, <1>10, Zenon DEF Tree
-----------------------------------------------------------------------------
(* Every step.                                                             *)

Effect(p) ==
    \/ Recounts(p) \/ \E d, x : Changes(p, d, x)
    \/ \E n : Freed(p, n) \/ Allocs(p, n)

\* Every step of a call keeps what the call knows and has one of the effects.
LEMMA StepEffect ==
    ASSUME DirFacts, Counted, NEW p \in Proc,
           \/ IputCheck(p) \/ IputFree(p) \/ IputDrop(p)
           \/ \E c \in Calls : Enter(p, c)
           \/ Walk(p) \/ WalkDone(p)
           \/ Open(p) \/ Close(p) \/ Chdir(p)
           \/ CreateFinds(p) \/ CreateFound(p) \/ CreateAlloc(p) \/ CreateInit(p)
           \/ Created(p)
           \/ Link(p) \/ LinkNew(p) \/ LinkDir(p) \/ LinkExists(p) \/ LinkBad(p)
           \/ Unlink(p) \/ UnlinkIp(p) \/ UnlinkBad(p) \/ Unlinked(p)
    PROVE  Keeps(p) /\ Effect(p)
<1>1. Quiet(p) => Effect(p)
  BY QuietRecounts, Zenon DEF Effect
<1>2. CASE IputCheck(p) \/ IputDrop(p) \/ \E c \in Calls : Enter(p, c)
  BY <1>1, <1>2, IputCheckStep, IputDropStep, EnterStep, Zenon
<1>3. CASE Walk(p) \/ WalkDone(p) \/ CreateFinds(p)
  BY <1>1, <1>3, WalkStep, WalkDoneStep, CreateFindsStep, Zenon
<1>4. CASE Open(p) \/ CreateFound(p) \/ Close(p) \/ Chdir(p) \/ Created(p)
  BY <1>1, <1>4, OpenStep, CloseStep, ChdirStep, CreatedStep, Zenon
<1>5. CASE LinkNew(p) \/ LinkExists(p) \/ Unlink(p) \/ UnlinkBad(p)
  BY <1>1, <1>5, LinkNewStep, LinkExistsStep, UnlinkStep, UnlinkBadStep, Zenon
<1>6. CASE IputFree(p) \/ CreateAlloc(p)
  BY <1>6, IputFreeStep, CreateAllocStep, Zenon DEF Effect
<1>7. CASE Link(p) \/ LinkBad(p) \/ Unlinked(p)
  BY <1>7, LinkRecounts, UnlinkedRecounts, Zenon DEF Effect
<1>8. CASE CreateInit(p) \/ LinkDir(p) \/ UnlinkIp(p)
  BY <1>8, CreateInitChanges, LinkDirChanges, UnlinkIpChanges, Zenon DEF Effect
<1> QED
  BY <1>2, <1>3, <1>4, <1>5, <1>6, <1>7, <1>8, Zenon

\* A step with one of the effects keeps the facts about the tree and the calls.
LEMMA FactsStep ==
    ASSUME DirFacts, Counted, NEW p \in Proc, Keeps(p), Effect(p)
    PROVE  DirFacts'
<1>1. /\ Guar(p) /\ InodeTypes' /\ LocalTypes' /\ FileTypes' /\ CacheInv'
      /\ Locals(p)' /\ Knows(p)' /\ FreshInv(p)' /\ FreeInv(p)'
  BY Zenon DEF Keeps
<1>2. Tree /\ InodeTypes
  BY Zenon DEF DirFacts, Tree
<1>3. Tree'
  BY <1>1, <1>2, RecountsTree, ChangesTree, FreedTree, AllocsTree, Zenon DEF Effect
<1>4. \A q \in Proc : Locals(q)' /\ Knows(q)' /\ FreshInv(q)' /\ FreeInv(q)'
  BY <1>1, Others, Zenon
<1> QED
  BY <1>1, <1>3, <1>4, Zenon DEF DirFacts, Tree
=============================================================================
