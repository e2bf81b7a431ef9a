------------------------------ MODULE DefaultPmm ------------------------------
(***************************************************************************)
(* default_pmm_manager of kern/mm/default_pmm.c: first fit over a doubly   *)
(* linked list (libs/list.h) of free blocks, sorted by address.  The list  *)
(* is modelled with its prev and next pointers, the loops of alloc_pages   *)
(* and free_pages one iteration per step.  pmm.c calls them with           *)
(* interrupts disabled, so calls do not overlap.                           *)
(*                                                                         *)
(* A page is its index in pages[]; the list head is -1, below every page.  *)
(***************************************************************************)
EXTENDS Integers, FiniteSets

CONSTANTS
    NPage,     \* pages given to init_memmap
    NULL,
    Clients    \* what clients may do: some of "any", "keep_top", "ascending"

ASSUME PmmAssumption ==
    /\ NPage \in Nat \ {0}
    /\ NULL \notin Int
    /\ Clients \subseteq {"any", "keep_top", "ascending"}

Page == 0 .. NPage - 1
free_list == -1
Node == Page \cup {free_list}
Top == NPage - 1

VARIABLES
    next, prev,   \* page_link of every page and of the list head
    property,     \* Page.property
    pg,           \* pages whose flag PG_property is set
    nr_free,
    pc,           \* "idle", in the loop of "alloc" or "free", or at "merge"
    le,           \* the loop variable
    base,         \* argument of default_free_pages
    n,            \* argument of default_alloc_pages
    held,         \* history: pages clients have
    ret,          \* what default_alloc_pages returned last
    clients       \* what the clients of this behaviour do

vars == <<next, prev, property, pg, nr_free, pc, le, base, n, held, ret, clients>>

Run(b, k) == b .. b + k - 1

free == Page \ held

----------------------------------------------------------------------------
(***************************************************************************)
(* The clients.  "keep_top": memory is never used up to the last page, so  *)
(* the topmost page stays free.  "ascending": single pages only, and each  *)
(* page that is freed lies above all the free pages, as in basic_check.    *)
(***************************************************************************)

MayAlloc(k) ==
    CASE clients = "keep_top" ->
            (\E c \in Page : Run(c, k) \subseteq free)
                => \E c \in Page : Run(c, k) \subseteq free \ {Top}
      [] clients = "ascending" -> k = 1
      [] OTHER -> TRUE

MayFree(b, k) ==
    /\ Run(b, k) \subseteq held
    /\ clients = "ascending" => k = 1 /\ \A x \in free : x < b

----------------------------------------------------------------------------
(***************************************************************************)
(* list.h, as the values given to the two pointer arrays.                  *)
(***************************************************************************)

\* Mutant: the entry stays linked.
DelNextForgotten(nx, p, x) == nx

\* __list_add(elm, p, x): elm goes between p and x.
AddNext(nx, elm, p, x) == [nx EXCEPT ![p] = elm, ![elm] = x]
AddPrev(pv, elm, p, x) == [pv EXCEPT ![x] = elm, ![elm] = p]

\* __list_del(p, x): p and x point to each other.
DelNext(nx, p, x) == [nx EXCEPT ![p] = x]
DelPrev(pv, p, x) == [pv EXCEPT ![x] = p]

----------------------------------------------------------------------------

\* default_init and default_init_memmap, called once, on all the memory.
Init ==
    /\ next = [q \in Node |-> IF q = free_list THEN 0 ELSE free_list]
    /\ prev = [q \in Node |-> IF q = free_list THEN 0 ELSE free_list]
    /\ property = [q \in Page |-> IF q = 0 THEN NPage ELSE 0]
    /\ pg = {0}
    /\ nr_free = NPage
    /\ pc = "idle"
    /\ le = free_list
    /\ base = 0
    /\ n = 1
    /\ held = {}
    /\ ret = NULL
    /\ clients \in Clients

----------------------------------------------------------------------------
\* A call ends, and its local variables with it.
Return == pc' = "idle" /\ le' = free_list /\ base' = 0 /\ n' = 1

(***************************************************************************)
(* default_alloc_pages.                                                    *)
(***************************************************************************)

AllocCall == \E k \in 1 .. NPage :
    /\ pc = "idle"
    /\ MayAlloc(k)
    /\ IF k > nr_free
         THEN ret' = NULL /\ UNCHANGED <<pc, le, n>>
         ELSE pc' = "alloc" /\ n' = k /\ le' = next[free_list] /\ UNCHANGED ret
    /\ UNCHANGED <<next, prev, property, pg, nr_free, base, held>>

\* Mutant: a block of exactly the size asked for is passed over.
FitsStrict == property[le] > n

Fits == property[le] >= n

AllocScan ==
    /\ pc = "alloc"
    /\ le # free_list
    /\ ~Fits
    /\ le' = next[le]
    /\ UNCHANGED <<next, prev, property, pg, nr_free, pc, base, n, held, ret>>

AllocFails ==
    /\ pc = "alloc"
    /\ le = free_list
    /\ Return
    /\ ret' = NULL
    /\ UNCHANGED <<next, prev, property, pg, nr_free, held>>

\* The block le is unlinked; what it has beyond n pages becomes a block in its
\* place.
AllocTake ==
    LET p == prev[le]
        x == next[le]
        rest == le + n
        dn == DelNext(next, p, x)
        dp == DelPrev(prev, p, x)
    IN
    /\ pc = "alloc"
    /\ le # free_list
    /\ Fits
    /\ IF property[le] > n
         THEN /\ property' = [property EXCEPT ![rest] = property[le] - n]
              /\ pg' = (pg \cup {rest}) \ {le}
              /\ next' = AddNext(dn, rest, p, dn[p])
              /\ prev' = AddPrev(dp, rest, p, dn[p])
         ELSE /\ next' = dn
              /\ prev' = dp
              /\ pg' = pg \ {le}
              /\ UNCHANGED property
    /\ nr_free' = nr_free - n
    /\ held' = held \cup Run(le, n)
    /\ ret' = le
    /\ Return

----------------------------------------------------------------------------
(***************************************************************************)
(* default_free_pages.  A client may give back any run of pages it holds.  *)
(***************************************************************************)

\* The pages are reset, the block gets its size; an empty list takes it.  A call with
\* the head of a free block among its pages fails an assertion and is not modelled
\* further.
FreeCall == \E b \in Page, k \in 1 .. NPage :
    /\ pc = "idle"
    /\ MayFree(b, k)
    /\ Run(b, k) \cap pg = {}
    /\ base' = b
    /\ property' = [property EXCEPT ![b] = k]
    /\ pg' = (pg \ Run(b, k)) \cup {b}
    /\ nr_free' = nr_free + k
    /\ held' = held \ Run(b, k)
    /\ le' = next[free_list]
    /\ IF next[free_list] = free_list
         THEN /\ next' = AddNext(next, b, free_list, next[free_list])
              /\ prev' = AddPrev(prev, b, free_list, next[free_list])
              /\ pc' = "merge"
         ELSE pc' = "free" /\ UNCHANGED <<next, prev>>
    /\ UNCHANGED <<n, ret>>

\* base < page: the block goes before this one, and the loop is left.
FreeBefore ==
    /\ pc = "free"
    /\ le # free_list
    /\ base < le
    /\ next' = AddNext(next, base, prev[le], le)
    /\ prev' = AddPrev(prev, base, prev[le], le)
    /\ pc' = "merge"
    /\ UNCHANGED <<property, pg, nr_free, le, base, n, held, ret>>

\* Otherwise, after the last one; the loop goes on from the link just made.
FreeAfter ==
    LET nx == AddNext(next, base, le, next[le]) IN
    /\ pc = "free"
    /\ le # free_list
    /\ base >= le
    /\ next[le] = free_list
    /\ next' = nx
    /\ prev' = AddPrev(prev, base, le, next[le])
    /\ le' = nx[le]
    /\ UNCHANGED <<property, pg, nr_free, pc, base, n, held, ret>>

\* Mutant: the loop starts over instead of going on.
FreeScanRestarts ==
    /\ pc = "free"
    /\ le # free_list
    /\ base >= le
    /\ next[le] # free_list
    /\ le' = next[free_list]
    /\ UNCHANGED <<next, prev, property, pg, nr_free, pc, base, n, held, ret>>

FreeScan ==
    /\ pc = "free"
    /\ le # free_list
    /\ base >= le
    /\ next[le] # free_list
    /\ le' = next[le]
    /\ UNCHANGED <<next, prev, property, pg, nr_free, pc, base, n, held, ret>>

FreeLoopEnd ==
    /\ pc = "free"
    /\ le = free_list
    /\ pc' = "merge"
    /\ UNCHANGED <<next, prev, property, pg, nr_free, le, base, n, held, ret>>

\* Mutant: blocks are joined across a gap of one page.
TouchesAcross(b, prop, x) == b + prop[b] + 1 = x

\* The block at b ends where x begins.
Touches(b, prop, x) == b + prop[b] = x

\* The block is joined with its predecessor, then with its successor, where
\* they touch.
Merge ==
    LET p == prev[base]
        low == p # free_list /\ Touches(p, property, base)
        b1 == IF low THEN p ELSE base
        prop1 == IF low THEN [property EXCEPT ![p] = @ + property[base]] ELSE property
        pg1 == IF low THEN pg \ {base} ELSE pg
        nx1 == IF low THEN DelNext(next, p, next[base]) ELSE next
        pv1 == IF low THEN DelPrev(prev, p, next[base]) ELSE prev
        x == nx1[b1]
        high == x # free_list /\ Touches(b1, prop1, x)
    IN
    /\ pc = "merge"
    /\ property' = IF high THEN [prop1 EXCEPT ![b1] = @ + prop1[x]] ELSE prop1
    /\ pg' = IF high THEN pg1 \ {x} ELSE pg1
    /\ next' = IF high THEN DelNext(nx1, pv1[x], nx1[x]) ELSE nx1
    /\ prev' = IF high THEN DelPrev(pv1, pv1[x], nx1[x]) ELSE pv1
    /\ Return
    /\ UNCHANGED <<nr_free, held, ret>>

----------------------------------------------------------------------------

\* The loops and the merge: what the allocator does without its clients.
Step ==
    \/ AllocScan \/ AllocFails \/ AllocTake
    \/ FreeBefore \/ FreeAfter \/ FreeScan \/ FreeLoopEnd \/ Merge

Next == (AllocCall \/ FreeCall \/ Step) /\ UNCHANGED clients

\* A call runs with interrupts disabled and does not block.
Spec == Init /\ [][Next]_vars /\ WF_vars(Step /\ UNCHANGED clients)

----------------------------------------------------------------------------
(***************************************************************************)
(* Properties.                                                             *)
(***************************************************************************)

\* Type invariant of the page array, the list and the loop variables.
TypeOK ==
    /\ next \in [Node -> Node]
    /\ prev \in [Node -> Node]
    /\ property \in [Page -> 0 .. NPage]
    /\ pg \subseteq Page
    /\ nr_free \in 0 .. NPage
    /\ pc \in {"idle", "alloc", "free", "merge"}
    /\ le \in Node
    /\ base \in Page
    /\ n \in 1 .. NPage
    /\ held \subseteq Page
    /\ ret \in Page \cup {NULL}
    /\ clients \in Clients

\* x follows q among the listed blocks, in address order and cyclically.
Successor(q, x) ==
    /\ x \in pg \cup {free_list}
    /\ x # free_list => q < x
    /\ \A r \in pg : q < r => x # free_list /\ x <= r

\* The list holds exactly the pages flagged PG_property, sorted by address, and
\* prev inverts next.
LinksSorted == \A q \in pg \cup {free_list} : Successor(q, next[q]) /\ prev[next[q]] = q

\* The blocks partition the free pages, and no two of them touch: neighbours have
\* been merged.
BlocksExact ==
    /\ \A b \in pg : property[b] >= 1 /\ Run(b, property[b]) \subseteq free
    /\ \A x \in free : \E b \in pg : x \in Run(b, property[b])
    /\ \A b, c \in pg : b < c => b + property[b] < c

\* Between two calls, as long as the topmost page stays free, the list is what
\* default_alloc_pages and default_free_pages take it for, and nr_free, which the
\* early return of alloc_pages trusts, counts the pages no client has.
ListExact == pc = "idle" /\ clients = "keep_top" =>
    LinksSorted /\ BlocksExact /\ nr_free = Cardinality(free)

\* alloc_pages never hands out a page that a client still has.
HandsOutFree ==
    pc = "alloc" /\ le # free_list /\ Fits => Run(le, n) \cap held = {}

\* The loops over the list end: they run with interrupts disabled.
CallReturns == pc # "idle" ~> pc = "idle"

Abstract == INSTANCE PhysMem

\* The block list implements a first-fit allocator over a set of pages.
ImplementsPhysMem == Abstract!PSpec
=============================================================================
