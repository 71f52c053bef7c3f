------------------------------- MODULE Umalloc ------------------------------
(***************************************************************************)
(* The user library's allocator (umalloc.c), called by one process.        *)
(* Addresses count units of sizeof(Header); base is at 0 and the heap      *)
(* starts at HeapStart.  ptr is kept for blocks in the free ring only, and *)
(* size for all blocks: the pointer of an allocated block is never read.   *)
(* The program may also call sbrk() by itself, which leaves gaps between   *)
(* the pieces that morecore() gets.                                        *)
(***************************************************************************)
EXTENDS Integers, FiniteSets, Functions

CONSTANTS
    HDR,           \* sizeof(Header), in bytes
    MINCORE,       \* the least number of units morecore() asks for (4096)
    HeapStart,     \* first address of the heap
    Limit,         \* sbrk() fails beyond this address
    Requests,      \* arguments of malloc(), in bytes
    Gaps           \* units of the program's own sbrk()

VARIABLES
    heap,          \* [ptr, size, freep, brk]; freep is -1 before the first call
    live,          \* the blocks the program holds: address -> bytes asked for
    gap            \* the units the program got by its own sbrk()

vars == <<heap, live, gap>>

base == 0
NULL == -1

Init ==
    /\ heap = [ptr |-> <<>>, size |-> <<>>, freep |-> NULL, brk |-> HeapStart]
    /\ live = <<>>
    /\ gap = {}

Without(f, x) == Restrict(f, DOMAIN f \ {x})
With(f, x, v) == [y \in DOMAIN f \cup {x} |-> IF y = x THEN v ELSE f[y]]

-----------------------------------------------------------------------------
(* free()                                                                  *)

\* p >= p->s.ptr && (bp > p || bp < p->s.ptr)
AtEnds(bp, p, next) == p >= next /\ (bp > p \/ bp < next)

\* The loop: the free block after which bp belongs, from p on.
RECURSIVE Spot(_, _, _)
Spot(h, bp, p) ==
    LET next == h.ptr[p]
    IN  IF (bp > p /\ bp < next) \/ AtEnds(bp, p, next) THEN p ELSE Spot(h, bp, next)

\* Mutated free(): a block is not joined with the one below it.
JoinsLower_never(h, p, bp) == FALSE

\* p + p->s.size == bp
JoinsLower(h, p, bp) == p + h.size[p] = bp

free(h, bp) ==
    LET p == Spot(h, bp, h.freep)
        next == h.ptr[p]
        upper == bp + h.size[bp] = next
        size1 == IF upper THEN With(Without(h.size, next), bp, h.size[bp] + h.size[next]) ELSE h.size
        ptr1 == IF upper THEN With(Without(h.ptr, next), bp, h.ptr[next]) ELSE With(h.ptr, bp, next)
    IN  IF JoinsLower(h, p, bp)
        THEN [h EXCEPT !.size = With(Without(size1, bp), p, h.size[p] + size1[bp]),
                       !.ptr = With(Without(ptr1, bp), p, ptr1[bp]), !.freep = p]
        ELSE [h EXCEPT !.size = size1, !.ptr = With(ptr1, p, bp), !.freep = p]

-----------------------------------------------------------------------------
(* malloc()                                                                *)

\* morecore(): the heap with nu units more, or the same heap.
morecore(h, nunits) ==
    LET nu == IF nunits < MINCORE THEN MINCORE ELSE nunits
    IN  IF h.brk + nu > Limit THEN h
        ELSE free([h EXCEPT !.size = With(@, h.brk, nu), !.brk = @ + nu], h.brk)

Units(nbytes) == (nbytes + HDR - 1) \div HDR + 1

\* p, of enough units, is taken from the ring, or gives up its tail.
Take(h, prevp, p, n) ==
    IF h.size[p] = n
    THEN [at |-> p, h |-> [h EXCEPT !.ptr = Without(With(@, prevp, h.ptr[p]), p), !.freep = prevp]]
    ELSE LET at == p + h.size[p] - n
         IN  [at |-> at, h |-> [h EXCEPT !.size = With(With(@, p, h.size[p] - n), at, n),
                                         !.freep = prevp]]

\* The loop of malloc().
RECURSIVE Walk(_, _, _, _)
Walk(h, prevp, p, n) ==
    LET more == morecore(h, n)
    IN  CASE h.size[p] >= n -> Take(h, prevp, p, n)
          [] h.size[p] < n /\ p # h.freep -> Walk(h, p, h.ptr[p], n)
          [] h.size[p] < n /\ p = h.freep ->
                IF more = h THEN [at |-> NULL, h |-> h]
                ELSE Walk(more, more.freep, more.ptr[more.freep], n)

malloc(nbytes) ==
    LET h == IF heap.freep # NULL THEN heap
             ELSE [heap EXCEPT !.ptr = With(<<>>, base, base), !.size = With(<<>>, base, 0), !.freep = base]
    IN  Walk(h, h.freep, h.ptr[h.freep], Units(nbytes))

-----------------------------------------------------------------------------

Malloc(nbytes) ==
    LET r == malloc(nbytes)
    IN  /\ heap' = r.h
        /\ live' = IF r.at = NULL THEN live ELSE With(live, r.at, nbytes)
        /\ UNCHANGED gap

Free(bp) ==
    /\ heap' = free(heap, bp)
    /\ live' = Without(live, bp)
    /\ UNCHANGED gap

\* The program's own sbrk().
Sbrk(n) ==
    /\ heap.brk + n <= Limit
    /\ heap' = [heap EXCEPT !.brk = @ + n]
    /\ gap' = gap \cup (heap.brk .. heap.brk + n - 1)
    /\ UNCHANGED live

Next ==
    \/ \E nbytes \in Requests : Malloc(nbytes)
    \/ \E bp \in DOMAIN live : Free(bp)
    \/ \E n \in Gaps : Sbrk(n)

Spec == Init /\ [][Next]_vars

-----------------------------------------------------------------------------
(* Properties.                                                             *)

Extent(b) == b .. b + heap.size[b] - 1
FreeBlocks == DOMAIN heap.ptr

\* The blocks the program holds, the free ring and the program's own pieces make
\* up the heap, each unit once.  The ring goes through the free blocks in the
\* order of their addresses, no two of them touch, and every block malloc() gave
\* out still has room for a header and the bytes asked for.
HeapPartitioned ==
    /\ UNION {Extent(b) : b \in DOMAIN heap.size} \cup gap = HeapStart .. heap.brk - 1
    /\ \A b, c \in DOMAIN heap.size : b # c => Extent(b) \cap (Extent(c) \cup gap) = {}
    /\ DOMAIN heap.size = FreeBlocks \cup DOMAIN live /\ FreeBlocks \cap DOMAIN live = {}
    /\ \A b \in FreeBlocks :
          LET above == {c \in FreeBlocks : c > b}
          IN  IF above = {} THEN heap.ptr[b] = base
              ELSE heap.ptr[b] \in above /\ \A c \in above : heap.ptr[b] <= c
    /\ \A b, c \in FreeBlocks : b + heap.size[b] # c \/ heap.size[b] = 0
    /\ \A b \in DOMAIN live : heap.size[b] * HDR >= HDR + live[b]
=============================================================================
