--------------------------------- MODULE Vm ---------------------------------
(***************************************************************************)
(* Physical pages (kalloc.c) and the address spaces made of them (vm.c),   *)
(* as growproc() and fork() of proc.c, exec() of exec.c and wait() use     *)
(* them.  Processes compete for the pages: every kalloc() of a loop may    *)
(* fail, and the code then undoes what it did.                             *)
(*                                                                         *)
(* One step is one turn of a loop, with the kalloc()s of the page and of   *)
(* the page table it needs.  A page has a number; kalloc() takes the       *)
(* lowest free one, since the order of the free list only renames pages.   *)
(* The kernel part of a page directory needs one page table.               *)
(***************************************************************************)
EXTENDS Integers, FiniteSets, FiniteSetsExt

CONSTANTS
    Proc,
    InitProc,      \* the first process, which never exits
    NPage,         \* pages of memory
    PGSIZE,
    NPTE,          \* entries of a page table
    NPDE,          \* page directory entries of the user part
    Deltas,        \* arguments of sbrk()
    Ends           \* ends of the segments of a program

Page == 1 .. NPage
None == 0
KERNBASE == NPDE * NPTE * PGSIZE
VPage == 0 .. NPDE * NPTE - 1

PGROUNDUP(a) == ((a + PGSIZE - 1) \div PGSIZE) * PGSIZE

VARIABLES
    mem,           \* free: how often a page is on the free list;
                   \* junk: the pages that hold what kfree() left there
    state,         \* of each process
    kstack, sz,
    as,            \* its address space, and the one that exec() builds
    pc, a, to, child   \* where it is in a call, and the variables of loops

vars == <<mem, state, kstack, sz, as, pc, a, to, child>>

NoSpace == [dir |-> None, ktab |-> None,
            tab |-> [i \in 0 .. NPDE - 1 |-> None], map |-> [v \in VPage |-> None]]

\* userinit(): the first process has one page.
Init ==
    /\ mem = [free |-> [g \in Page |-> IF g <= 5 THEN 0 ELSE 1], junk |-> 6 .. NPage]
    /\ state = [p \in Proc |-> IF p = InitProc THEN "run" ELSE "unused"]
    /\ kstack = [p \in Proc |-> IF p = InitProc THEN 1 ELSE None]
    /\ sz = [p \in Proc |-> IF p = InitProc THEN PGSIZE ELSE 0]
    /\ as = [p \in Proc |-> [cur |->
          IF p = InitProc
          THEN [NoSpace EXCEPT !.dir = 2, !.ktab = 3, !.tab[0] = 4, !.map[0] = 5]
          ELSE NoSpace, new |-> NoSpace]]
    /\ pc = [p \in Proc |-> "idle"]
    /\ a = [p \in Proc |-> 0] /\ to = [p \in Proc |-> 0]
    /\ child = [p \in Proc |-> p]

-----------------------------------------------------------------------------
(* Pages.                                                                  *)

\* kalloc(): a page, or none.
Avail(m) == {g \in Page : m.free[g] > 0}
Kalloc(m) == IF Avail(m) = {} THEN None ELSE Min(Avail(m))
Take(m, g) == [m EXCEPT !.free[g] = @ - 1]

\* kfree() of the values of a function; None stands for an absent page.
Kfree(m, f) ==
    [free |-> [g \in Page |-> m.free[g] + Cardinality({x \in DOMAIN f : f[x] = g})],
     junk |-> m.junk \cup ({f[x] : x \in DOMAIN f} \ {None})]
KfreePage(m, g) == Kfree(m, [x \in {g} |-> x])

\* memset() or memmove() of a whole page
Fill(m, g) == [m EXCEPT !.junk = @ \ {g}]

\* Mutated allocuvm() and copyuvm(): the page is lost when mappages() fails.
MapFails_leak(m, g) == Take(m, g)

MapFails(m, g) == KfreePage(Take(m, g), g)

\* A new filled page at v, with a page table if there is none: kalloc(),
\* memset() or memmove(), and mappages() with walkpgdir().
MapPage(m, s, v) ==
    LET g == Kalloc(m)
        m1 == Take(m, g)
        i == v \div NPTE
        t == Kalloc(m1)
        fail(mm) == [ok |-> FALSE, m |-> mm, s |-> s]
    IN  IF g = None THEN fail(m)
        ELSE IF s.tab[i] # None
        THEN [ok |-> TRUE, m |-> Fill(m1, g), s |-> [s EXCEPT !.map[v] = g]]
        ELSE IF t = None THEN fail(MapFails(m, g))
        ELSE [ok |-> TRUE, m |-> Fill(Fill(Take(m1, t), g), t),
              s |-> [s EXCEPT !.map[v] = g, !.tab[i] = t]]

\* Mutated deallocuvm(): it starts at the page that newsz is in.
DeallocFrom_down(newsz) == newsz - (newsz % PGSIZE)

DeallocFrom(newsz) == PGROUNDUP(newsz)

\* deallocuvm(): the pages that are freed.
Dealloc(s, oldsz, newsz) ==
    [v \in {x \in VPage : x * PGSIZE >= DeallocFrom(newsz) /\ x * PGSIZE < oldsz} |-> s.map[v]]
Unmapped(s, f) == [s EXCEPT !.map = [v \in VPage |-> IF v \in DOMAIN f THEN None ELSE @[v]]]

\* freevm()
Freevm(m, s) ==
    KfreePage(KfreePage(Kfree(Kfree(m, s.map), s.tab), s.ktab), s.dir)

-----------------------------------------------------------------------------
(* sbrk(), which init never calls.                                         *)

At(p, l) == state[p] = "run" /\ pc[p] = l
Go(p, l) == pc' = [pc EXCEPT ![p] = l]

TooBig(newsz) == newsz >= KERNBASE

\* growproc() with n > 0: allocuvm() starts, or the size is refused.
Grow(p, n) ==
    /\ At(p, "idle") /\ n > 0 /\ p # InitProc
    /\ IF TooBig(sz[p] + n) THEN UNCHANGED <<pc, a, to>>
       ELSE /\ a' = [a EXCEPT ![p] = PGROUNDUP(sz[p])]
            /\ to' = [to EXCEPT ![p] = sz[p] + n]
            /\ Go(p, "grow")
    /\ UNCHANGED <<mem, state, kstack, sz, as, child>>

\* One turn of allocuvm(), its failure, or the end of growproc().
GrowStep(p) ==
    /\ At(p, "grow")
    /\ LET s == as[p].cur
           r == MapPage(mem, s, a[p] \div PGSIZE)
           f == Dealloc(s, to[p], sz[p])
       IN  \/ /\ a[p] < to[p] /\ r.ok
              /\ mem' = r.m /\ as' = [as EXCEPT ![p].cur = r.s]
              /\ a' = [a EXCEPT ![p] = @ + PGSIZE]
              /\ UNCHANGED <<sz, pc, to>>
           \/ /\ a[p] < to[p] /\ ~r.ok
              /\ mem' = Kfree(r.m, f) /\ as' = [as EXCEPT ![p].cur = Unmapped(s, f)]
              /\ a' = [a EXCEPT ![p] = 0] /\ to' = [to EXCEPT ![p] = 0]
              /\ Go(p, "idle")
              /\ UNCHANGED sz
           \/ /\ a[p] >= to[p]
              /\ sz' = [sz EXCEPT ![p] = to[p]]
              /\ a' = [a EXCEPT ![p] = 0] /\ to' = [to EXCEPT ![p] = 0]
              /\ Go(p, "idle")
              /\ UNCHANGED <<mem, as>>
    /\ UNCHANGED <<state, kstack, child>>

\* growproc() with n < 0.  sz + n is unsigned: below zero it is no smaller
\* than sz and deallocuvm() does nothing.  At zero the memory is gone, the
\* size stays, and the process faults when it returns.
Shrink(p, n) ==
    /\ At(p, "idle") /\ n < 0 /\ p # InitProc
    /\ LET newsz == sz[p] + n
           f == Dealloc(as[p].cur, sz[p], newsz)
       IN  /\ newsz >= 0
           /\ mem' = Kfree(mem, f)
           /\ as' = [as EXCEPT ![p].cur = Unmapped(@, f)]
           /\ IF newsz = 0 THEN UNCHANGED sz ELSE sz' = [sz EXCEPT ![p] = newsz]
           /\ state' = IF newsz = 0 THEN [state EXCEPT ![p] = "faulted"] ELSE state
    /\ UNCHANGED <<kstack, pc, a, to, child>>

-----------------------------------------------------------------------------
(* setupkvm(), for the child of fork() or for exec(): the directory  *)
(* and then the page table of the kernel part.                             *)

\* The address space that p is building.
Built(p) == IF pc[p] \in {"forkdir", "forktab", "copy"} THEN as[child[p]].cur ELSE as[p].new
Build(p, s) == IF pc[p] \in {"forkdir", "forktab", "copy"}
               THEN [as EXCEPT ![child[p]].cur = s] ELSE [as EXCEPT ![p].new = s]

\* A call that cannot get memory gives back what it built, m0 being the memory
\* before; fork() also frees the kernel stack and the process.
GiveUp(p, m0) ==
    LET q == child[p]
        m == Freevm(m0, Built(p))
    IN  /\ IF q = p THEN mem' = m /\ UNCHANGED <<state, kstack>>
           ELSE /\ mem' = KfreePage(m, kstack[q])
                /\ state' = [state EXCEPT ![q] = "unused"]
                /\ kstack' = [kstack EXCEPT ![q] = None]
        /\ as' = Build(p, NoSpace)
        /\ a' = [a EXCEPT ![p] = 0] /\ to' = [to EXCEPT ![p] = 0]
        /\ child' = [child EXCEPT ![p] = p]
        /\ Go(p, "idle")
        /\ UNCHANGED sz

SetupDir(p) ==
    /\ pc[p] \in {"forkdir", "execdir"}
    /\ LET g == Kalloc(mem)
       IN  IF g = None THEN GiveUp(p, mem)
           ELSE /\ mem' = Fill(Take(mem, g), g)
                /\ as' = Build(p, [NoSpace EXCEPT !.dir = g])
                /\ Go(p, IF pc[p] = "forkdir" THEN "forktab" ELSE "exectab")
                /\ UNCHANGED <<state, kstack, sz, a, to, child>>

SetupTab(p) ==
    /\ pc[p] \in {"forktab", "exectab"}
    /\ LET g == Kalloc(mem)
       IN  IF g = None THEN GiveUp(p, mem)
           ELSE /\ mem' = Fill(Take(mem, g), g)
                /\ as' = Build(p, [Built(p) EXCEPT !.ktab = g])
                /\ Go(p, IF pc[p] = "forktab" THEN "copy" ELSE "load")
                /\ UNCHANGED <<state, kstack, sz, a, to, child>>

-----------------------------------------------------------------------------
(* fork(), exit() and wait().                                              *)

\* allocproc(): a kernel stack for an unused process.
Fork(p, q) ==
    /\ At(p, "idle") /\ state[q] = "unused"
    /\ LET g == Kalloc(mem)
       IN  /\ g # None
           /\ mem' = Take(mem, g)
           /\ kstack' = [kstack EXCEPT ![q] = g]
    /\ state' = [state EXCEPT ![q] = "embryo"]
    /\ child' = [child EXCEPT ![p] = q]
    /\ Go(p, "forkdir")
    /\ UNCHANGED <<sz, as, a, to>>

\* One turn of copyuvm(), or the end of fork().
ForkCopy(p) ==
    /\ pc[p] = "copy"
    /\ LET q == child[p]
           r == MapPage(mem, as[q].cur, a[p] \div PGSIZE)
       IN  \/ /\ a[p] < sz[p] /\ r.ok
              /\ mem' = r.m /\ as' = [as EXCEPT ![q].cur = r.s]
              /\ a' = [a EXCEPT ![p] = @ + PGSIZE]
              /\ UNCHANGED <<state, kstack, sz, pc, to, child>>
           \/ /\ a[p] < sz[p] /\ ~r.ok
              /\ GiveUp(p, r.m)
           \/ /\ a[p] >= sz[p]
              /\ sz' = [sz EXCEPT ![q] = sz[p]]
              /\ state' = [state EXCEPT ![q] = "run"]
              /\ a' = [a EXCEPT ![p] = 0]
              /\ child' = [child EXCEPT ![p] = p]
              /\ Go(p, "idle")
              /\ UNCHANGED <<mem, kstack, as, to>>

\* exit(), also of a process that trap() kills.
Exit(p) ==
    /\ p # InitProc /\ pc[p] = "idle" /\ state[p] \in {"run", "faulted"}
    /\ state' = [state EXCEPT ![p] = "zombie"]
    /\ UNCHANGED <<mem, kstack, sz, as, pc, a, to, child>>

\* wait() in the parent frees the process.
Wait(p) ==
    /\ state[p] = "zombie"
    /\ mem' = Freevm(KfreePage(mem, kstack[p]), as[p].cur)
    /\ state' = [state EXCEPT ![p] = "unused"]
    /\ kstack' = [kstack EXCEPT ![p] = None]
    /\ as' = [as EXCEPT ![p].cur = NoSpace]
    /\ sz' = [sz EXCEPT ![p] = 0]
    /\ UNCHANGED <<pc, a, to, child>>

-----------------------------------------------------------------------------
(* exec().  The program is a choice of segments; to is sz in exec(), and a *)
(* the address that allocuvm() has come to.                                *)

Exec(p) ==
    /\ At(p, "idle")
    /\ Go(p, "execdir")
    /\ UNCHANGED <<mem, state, kstack, sz, as, a, to, child>>

\* The next segment: allocuvm() from the present size to its end e.  With a
\* smaller end, allocuvm() returns the present size.
ExecSegment(p, e) ==
    /\ pc[p] = "load" /\ e > to[p]
    /\ a' = [a EXCEPT ![p] = PGROUNDUP(to[p])]
    /\ to' = [to EXCEPT ![p] = e]
    /\ Go(p, "segment")
    /\ UNCHANGED <<mem, state, kstack, sz, as, child>>

\* All segments are loaded: two pages for the stack.
ExecStack(p) ==
    /\ pc[p] = "load"
    /\ LET end == PGROUNDUP(to[p]) + 2 * PGSIZE
       IN  IF TooBig(end) THEN GiveUp(p, mem)
           ELSE /\ a' = [a EXCEPT ![p] = PGROUNDUP(to[p])]
                /\ to' = [to EXCEPT ![p] = end]
                /\ Go(p, "stack")
                /\ UNCHANGED <<mem, state, kstack, sz, as, child>>

\* One turn of allocuvm() in exec().
ExecAlloc(p) ==
    /\ pc[p] \in {"segment", "stack"} /\ a[p] < to[p]
    /\ LET r == MapPage(mem, as[p].new, a[p] \div PGSIZE)
       IN  IF r.ok THEN /\ mem' = r.m /\ as' = [as EXCEPT ![p].new = r.s]
                        /\ a' = [a EXCEPT ![p] = @ + PGSIZE]
                        /\ UNCHANGED <<state, kstack, sz, pc, to, child>>
           ELSE GiveUp(p, r.m)

\* The segment is read into its pages.
ExecLoad(p) ==
    /\ pc[p] = "segment" /\ a[p] >= to[p]
    /\ a' = [a EXCEPT ![p] = 0]
    /\ Go(p, "load")
    /\ UNCHANGED <<mem, state, kstack, sz, as, to, child>>

\* The file is not a program, cannot be read, or the arguments do not fit.
ExecBad(p) ==
    /\ pc[p] \in {"load", "stack"} /\ (pc[p] = "stack" => a[p] >= to[p])
    /\ GiveUp(p, mem)

\* Commit to the user image.
ExecCommit(p) ==
    /\ pc[p] = "stack" /\ a[p] >= to[p]
    /\ as' = [as EXCEPT ![p] = [cur |-> @.new, new |-> NoSpace]]
    /\ sz' = [sz EXCEPT ![p] = to[p]]
    /\ mem' = Freevm(mem, as[p].cur)
    /\ a' = [a EXCEPT ![p] = 0] /\ to' = [to EXCEPT ![p] = 0]
    /\ Go(p, "idle")
    /\ UNCHANGED <<state, kstack, child>>

Next ==
    \E p \in Proc :
        \/ \E n \in Deltas : Grow(p, n) \/ Shrink(p, n)
        \/ GrowStep(p) \/ SetupDir(p) \/ SetupTab(p)
        \/ \E q \in Proc : Fork(p, q)
        \/ ForkCopy(p) \/ Exit(p) \/ Wait(p)
        \/ Exec(p) \/ (\E e \in Ends : ExecSegment(p, e)) \/ ExecStack(p)
        \/ ExecAlloc(p) \/ ExecLoad(p) \/ ExecBad(p) \/ ExecCommit(p)

Spec == Init /\ [][Next]_vars

-----------------------------------------------------------------------------
(* Properties.                                                             *)

Space == [dir : Page \cup {None}, ktab : Page \cup {None},
          tab : [0 .. NPDE - 1 -> Page \cup {None}], map : [VPage -> Page \cup {None}]]

\* Type correctness.
TypeOK ==
    /\ mem.free \in [Page -> Nat] /\ mem.junk \subseteq Page
    /\ state \in [Proc -> {"unused", "embryo", "run", "faulted", "zombie"}]
    /\ kstack \in [Proc -> Page \cup {None}]
    /\ sz \in [Proc -> 0 .. KERNBASE - 1]
    /\ as \in [Proc -> [cur : Space, new : Space]]
    /\ a \in [Proc -> 0 .. KERNBASE] /\ to \in [Proc -> 0 .. KERNBASE - 1]
    /\ child \in [Proc -> Proc]

\* How often page g is used: for kernel stacks, and in the address spaces.
UsesIn(s, g) ==
    (IF s.dir = g THEN 1 ELSE 0) + (IF s.ktab = g THEN 1 ELSE 0)
      + Cardinality({i \in 0 .. NPDE - 1 : s.tab[i] = g})
      + Cardinality({v \in VPage : s.map[v] = g})
Uses(g) ==
    Cardinality({p \in Proc : kstack[p] = g})
      + MapThenSumSet(LAMBDA p : UsesIn(as[p].cur, g) + UsesIn(as[p].new, g), Proc)

\* Every page of memory is in exactly one place, the free list or one use, at
\* every step of every call: no path of allocuvm(), copyuvm(), exec(), fork()
\* or wait(), failing or not, leaks a page, frees it twice or maps it twice.
PagesAccounted == TypeOK /\ \A g \in Page : mem.free[g] + Uses(g) = 1

\* The pages of a process are those below its size, or below the address that
\* allocuvm() has come to: a failed sbrk() or exec() leaves the process as it
\* was, and copyuvm() finds every page it copies.
SizeMapped ==
    \A p \in Proc : state[p] = "run" =>
        {v \in VPage : as[p].cur.map[v] # None}
          = {v \in VPage : v * PGSIZE < IF pc[p] = "grow" THEN a[p] ELSE sz[p]}

\* A page directory, page table or user page that is in use was filled since
\* it was last freed, so it holds no stale entries or data of another process.
InUseIsFilled ==
    \A p \in Proc : state[p] \in {"run", "embryo"} =>
        \A g \in mem.junk : UsesIn(as[p].cur, g) + UsesIn(as[p].new, g) = 0
=============================================================================
