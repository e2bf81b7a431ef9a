------------------------------- MODULE Kmalloc -------------------------------
(***************************************************************************)
(* The kernel heap of kern/mm/kmalloc.c: SLOB, a circular list of free     *)
(* blocks sorted by address, grown page by page, with big blocks that are  *)
(* whole pages.  The kernel runs on one hart and is not preempted inside a *)
(* call, so every call is one step.                                        *)
(*                                                                         *)
(* Memory is counted in units of SLOB_UNIT bytes.  The arena is unit 0;    *)
(* page p is the units from p * UPP on (p > 0: it never touches the arena).*)
(* kmalloc is not called with size 0.                                      *)
(***************************************************************************)
EXTENDS Integers, Sequences, FiniteSets, FiniteSetsExt

CONSTANTS
    SLOB_UNIT,   \* bytes of a unit
    UPP,         \* units of a page
    NPage,       \* pages the heap may get
    Sizes,       \* arguments of kmalloc, in bytes
    MaxLive,     \* bound: blocks in use
    NULL

PAGE_SIZE == UPP * SLOB_UNIT

ASSUME KmallocAssumption ==
    /\ SLOB_UNIT \in Nat \ {0, 1} /\ UPP \in Nat \ {0, 1} /\ NPage \in Nat /\ MaxLive \in Nat
    /\ Sizes \subseteq Nat \ {0} /\ NULL \notin Nat

arena == 0
Page == 1 .. NPage

\* sizeof(bigblock_t) is one and a half units.
BB_SIZE == SLOB_UNIT + SLOB_UNIT \div 2

\* 1 << k.
Pow2[k \in Nat] == IF k = 0 THEN 1 ELSE 2 * Pow2[k - 1]

VARIABLES
    h,          \* the free list: next of its blocks, units of every block, slobfree
    bigblocks,  \* the list of big blocks: their descriptor, order and first page
    pages,      \* free pages
    live,       \* history: blocks in use, the size asked for by address
    panic       \* the assertion of slob_alloc failed

vars == <<h, bigblocks, pages, live, panic>>

Blocks(g) == DOMAIN g.next

\* Mutant: rounded down.
SlobUnitsDown(size) == size \div SLOB_UNIT

SLOB_UNITS(size) == (size + SLOB_UNIT - 1) \div SLOB_UNIT

----------------------------------------------------------------------------
(***************************************************************************)
(* The list g after k steps from slobfree, and slob_alloc and slob_free as *)
(* operators on it.                                                        *)
(***************************************************************************)

Walk(g, k) == LET w[i \in 0 .. k] == IF i = 0 THEN g.slobfree ELSE g.next[w[i - 1]] IN w[k]

Steps(g) == 1 .. Cardinality(Blocks(g))

\* The steps that lead to a block of at least n units.
Fits(g, n) == {k \in Steps(g) : g.units[Walk(g, k)] >= n}

Without(f, x) == [y \in DOMAIN f \ {x} |-> f[y]]
With(f, x, v) == [y \in DOMAIN f \cup {x} |-> IF y = x THEN v ELSE f[y]]

\* First fit: unlink the block, or take its lower part.
Take(g, n) ==
    LET k == Min(Fits(g, n))
        prev == Walk(g, k - 1)
        cur == Walk(g, k)
    IN  [blk |-> cur, g |->
          IF g.units[cur] = n
          THEN [g EXCEPT !.next = Without([@ EXCEPT ![prev] = g.next[cur]], cur),
                         !.slobfree = prev]
          ELSE [next |-> With(Without([g.next EXCEPT ![prev] = cur + n], cur),
                              cur + n, g.next[cur]),
                units |-> With([g.units EXCEPT ![cur] = n], cur + n, g.units[cur] - n),
                slobfree |-> prev]]

\* Where the loop of slob_free stops.
Place(g, b, cur) ==
    \/ b > cur /\ b < g.next[cur]
    \/ cur >= g.next[cur] /\ (b > cur \/ b < g.next[cur])

\* Mutant: the upper neighbour is never joined.
SlobFreeNoJoin(g, b, u) ==
    LET cur == Walk(g, Min({k \in 0 .. Cardinality(Blocks(g)) : Place(g, b, Walk(g, k))}))
    IN  [next |-> With([g.next EXCEPT ![cur] = b], b, g.next[cur]),
         units |-> With(g.units, b, u), slobfree |-> cur]

\* slob_free of u units at b: joined with the free block above, then with the
\* one below.
slob_free(g, b, u) ==
    LET cur == Walk(g, Min({k \in 0 .. Cardinality(Blocks(g)) : Place(g, b, Walk(g, k))}))
        up == g.next[cur]
        above == b + u = up
        size == IF above THEN u + g.units[up] ELSE u
        after == IF above THEN g.next[up] ELSE up
        nx == IF above THEN Without(g.next, up) ELSE g.next
        un == IF above THEN Without(g.units, up) ELSE g.units
    IN  IF cur + g.units[cur] = b
        THEN [next |-> [nx EXCEPT ![cur] = after],
              units |-> Without([un EXCEPT ![cur] = @ + size], b), slobfree |-> cur]
        ELSE [next |-> With([nx EXCEPT ![cur] = b], b, after),
              units |-> With(un, b, size), slobfree |-> cur]

\* The lowest run of n free pages, as a set of at most one first page.
Run(p, n) == p .. p + n - 1
FirstRun(ps, n) ==
    LET fit == {p \in ps : Run(p, n) \subseteq ps} IN IF fit = {} THEN {} ELSE {Min(fit)}

\* slob_alloc(size): its outcomes, blk NULL when the heap cannot grow.
slob_alloc(g, ps, size) ==
    LET n == SLOB_UNITS(size)
    IN  IF Fits(g, n) # {} THEN {[blk |-> Take(g, n).blk, g |-> Take(g, n).g, ps |-> ps]}
        ELSE IF FirstRun(ps, 1) = {} THEN {[blk |-> NULL, g |-> g, ps |-> ps]}
        ELSE {LET t == Take(slob_free(g, p * UPP, UPP), n)
              IN  [blk |-> t.blk, g |-> t.g, ps |-> ps \ {p}] : p \in FirstRun(ps, 1)}

SlobAllocAsserts(size) == size + SLOB_UNIT < PAGE_SIZE

\* find_order: how often size is halved until it is at most a page.
find_order(size) ==
    LET order[s \in 0 .. size] == IF s > PAGE_SIZE THEN 1 + order[s \div 2] ELSE 0
    IN  order[size]

----------------------------------------------------------------------------
Init ==
    /\ h = [next |-> [b \in {arena} |-> arena], units |-> [b \in {arena} |-> 1],
            slobfree |-> arena]
    /\ bigblocks = <<>>
    /\ pages = Page
    /\ live = [b \in {} |-> 0]
    /\ panic = FALSE

\* __kmalloc, less than a page with its header.
KmallocSmall(size) ==
    /\ ~panic /\ Cardinality(DOMAIN live) < MaxLive
    /\ size < PAGE_SIZE - SLOB_UNIT
    /\ \/ /\ SlobAllocAsserts(size + SLOB_UNIT)
          /\ \E r \in slob_alloc(h, pages, size + SLOB_UNIT) :
                /\ h' = r.g
                /\ pages' = r.ps
                /\ live' = IF r.blk = NULL THEN live ELSE With(live, r.blk + 1, size)
          /\ UNCHANGED panic
       \/ /\ ~SlobAllocAsserts(size + SLOB_UNIT)
          /\ panic' = TRUE
          /\ UNCHANGED <<h, pages, live>>
    /\ UNCHANGED bigblocks

\* __kmalloc, whole pages: a descriptor first, then the pages; the descriptor is
\* given back when there are none.
KmallocBig(size) ==
    /\ ~panic /\ Cardinality(DOMAIN live) < MaxLive
    /\ size >= PAGE_SIZE - SLOB_UNIT
    /\ \E r \in slob_alloc(h, pages, BB_SIZE) :
          LET order == find_order(size)
              run == FirstRun(r.ps, Pow2[order])
          IN  \/ /\ r.blk = NULL
                 /\ UNCHANGED <<h, bigblocks, pages, live>>
              \/ /\ r.blk # NULL /\ run = {}
                 /\ h' = slob_free(r.g, r.blk, SLOB_UNITS(BB_SIZE))
                 /\ pages' = r.ps
                 /\ UNCHANGED <<bigblocks, live>>
              \/ /\ r.blk # NULL
                 /\ \E p \in run :
                       /\ pages' = r.ps \ Run(p, Pow2[order])
                       /\ bigblocks' = <<[bb |-> r.blk, order |-> order, page |-> p]>> \o bigblocks
                       /\ live' = With(live, p * UPP, size)
                 /\ h' = r.g
    /\ UNCHANGED panic

\* The big block at address b of the list: kfree looks for page-aligned ones only.
Big(b) == {i \in DOMAIN bigblocks : b % UPP = 0 /\ bigblocks[i].page * UPP = b}

\* kfree of the i-th big block.
FreeBig(b, i) ==
    LET e == bigblocks[i]
    IN  /\ bigblocks' = SubSeq(bigblocks, 1, i - 1) \o SubSeq(bigblocks, i + 1, Len(bigblocks))
        /\ pages' = pages \cup Run(e.page, Pow2[e.order])
        /\ h' = slob_free(h, e.bb, SLOB_UNITS(BB_SIZE))

\* kfree; a small block is freed with the size its header has.
kfree(b) ==
    /\ ~panic
    /\ \/ \E i \in Big(b) : (\A j \in Big(b) : i <= j) /\ FreeBig(b, i)
       \/ /\ Big(b) = {}
          /\ h' = slob_free(h, b - 1, h.units[b - 1])
          /\ UNCHANGED <<bigblocks, pages>>
    /\ live' = Without(live, b)
    /\ UNCHANGED panic

Panicked == panic /\ UNCHANGED vars

Next ==
    \/ \E size \in Sizes : KmallocSmall(size)
    \/ \E size \in Sizes : KmallocBig(size)
    \/ \E b \in DOMAIN live : kfree(b)
    \/ Panicked

Spec == Init /\ [][Next]_vars

----------------------------------------------------------------------------
\* ksize, in bytes.
ksize(b) == IF Big(b) # {} THEN PAGE_SIZE * Pow2[bigblocks[Min(Big(b))].order]
            ELSE h.units[b - 1] * SLOB_UNIT

\* The units of a block in use, header or descriptor included.
Footprint(b) ==
    IF Big(b) # {}
    THEN LET e == bigblocks[Min(Big(b))]
         IN  (b .. b + Pow2[e.order] * UPP - 1) \cup (e.bb .. e.bb + SLOB_UNITS(BB_SIZE) - 1)
    ELSE b - 1 .. b - 1 + h.units[b - 1] - 1
FreeUnits(b) == b .. b + h.units[b] - 1

\* The free list is one cycle through all its blocks, ascending but for one step
\* back to the arena, and no two of its blocks touch.
ListSound ==
    /\ {Walk(h, k) : k \in Steps(h)} = Blocks(h)
    /\ \A b \in Blocks(h) : IF h.next[b] > b THEN b + h.units[b] < h.next[b]
                                             ELSE h.next[b] = arena /\ b = Max(Blocks(h))

\* No unit is handed out twice, or is at once free and in use; every unit the heap
\* ever got from the page allocator is one or the other; and slob_free finds its
\* place and joins both neighbours, whatever the order of the calls and wherever
\* slobfree points.
HeapExact ==
    LET used == {Footprint(b) : b \in DOMAIN live}
        free == {FreeUnits(b) : b \in Blocks(h)}
    IN  /\ ListSound
        /\ \A x, y \in used \cup free : x = y \/ x \cap y = {}
        /\ used \cap free = {}
        /\ UNION (used \cup free) = {arena} \cup UNION {p * UPP .. p * UPP + UPP - 1 :
                                                           p \in Page \ pages}

\* A block has room for what was asked for.  ksize counts the header of a small
\* block as well; a big block of order k may lack up to 2^k - 1 bytes, because
\* find_order halves the size with rounding down.
Lacks(b) == IF Big(b) # {} THEN Pow2[bigblocks[Min(Big(b))].order] - 1 ELSE 0 - SLOB_UNIT
LargeEnough == \A b \in DOMAIN live : live[b] <= ksize(b) + Lacks(b)
=============================================================================
