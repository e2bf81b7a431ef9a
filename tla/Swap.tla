-------------------------------- MODULE Swap --------------------------------
(***************************************************************************)
(* Demand paging as check_swap sets it up: swap.c, swap_fifo.c, swapfs.c,  *)
(* ide.c, the loop of alloc_pages, and do_pgfault on an area whose page    *)
(* table exists.  Frames are the pages that check_swap leaves in the free  *)
(* list.  The faults of a process do not overlap, so the handler is one    *)
(* step, together with the access that is then repeated.                   *)
(*                                                                         *)
(* Addresses are page numbers.  An entry of the page table is 0 (page and  *)
(* slot both empty), a valid one (page) or a swap entry (slot).            *)
(***************************************************************************)
EXTENDS Integers, Sequences, FiniteSets, FiniteSetsExt, SequencesExt

CONSTANTS
    VPage,             \* pages of the area of check_mm_struct
    Frame,             \* physical pages, by number
    Val,               \* what a page may hold
    max_swap_offset,   \* size of the swap device in pages
    UInt,              \* 2^32 in the code: pgfault_num counts modulo it
    NULL

ASSUME SwapAssumption ==
    /\ VPage \subseteq Nat /\ Frame \subseteq Nat
    /\ IsFiniteSet(Frame) /\ Frame # {}
    /\ max_swap_offset \in Nat /\ UInt \in Nat \ {0}
    /\ NULL \notin Frame \cup Val

Slot == 0 .. max_swap_offset - 1
Access == {"R", "W"}

VARIABLES
    s,      \* page and slot of the page table, data of the frames, the free
            \* frames, pra_list_head and pra_vaddr, the disk, pgfault_num
    last,   \* history: the last access, and whether it faulted
    panic

vars == <<s, last, panic>>

State == [page : [VPage -> Frame \cup {NULL}], slot : [VPage -> Nat],
          data : [Frame -> Val], free : SUBSET Frame,
          queue : Seq(Frame), pra_vaddr : [Frame -> VPage \cup {NULL}],
          disk : [Slot -> Val], pgfault_num : Nat]

----------------------------------------------------------------------------
\* Mutants: pages share slots; the last slot is refused.
EntryMasked(v) == (v % 4) + 1
GoodOffsetShort(off) == 0 < off /\ off + 1 < max_swap_offset

\* The swap entry of a page, and swap_offset's test of it.
Entry(v) == v + 1
GoodOffset(off) == 0 < off /\ off < max_swap_offset

\* _fifo_map_swappable, at the back.
map_swappable(t, f) == [t EXCEPT !.queue = Append(@, f)]

\* swap_out of one page finds no page in the queue, or meets an entry that is not
\* valid or an offset out of range.
SwapOutPanics(t) ==
    \/ t.queue = <<>>
    \/ t.page[t.pra_vaddr[Head(t.queue)]] = NULL
    \/ ~GoodOffset(Entry(t.pra_vaddr[Head(t.queue)]))

\* swap_out of one page: the oldest is written to its slot and freed.
swap_out(t) ==
    LET f == Head(t.queue)
        v == t.pra_vaddr[f]
    IN  [t EXCEPT !.queue = Tail(@), !.disk[Entry(v)] = t.data[f],
                  !.page[v] = NULL, !.slot[v] = Entry(v), !.free = @ \cup {f}]

\* alloc_pages(1): swaps out when no page is free.
AllocPanics(t) == t.free = {} /\ SwapOutPanics(t)
MadeRoom(t) == IF t.free = {} THEN swap_out(t) ELSE t
Lowest(t) == CHOOSE f \in t.free : \A g \in t.free : f <= g
alloc_page(t) == [t EXCEPT !.free = @ \ {Lowest(t)}]

\* Page f is mapped at v and made swappable: the end of pgdir_alloc_page, and
\* page_insert and the lines behind it in do_pgfault.
Mapped(t, v, f) ==
    map_swappable([t EXCEPT !.page[v] = f, !.slot[v] = 0, !.pra_vaddr[f] = v], f)

\* swap_in, once it has a page; an entry keeps its slot until page_insert.
swap_in(t, v, f) == [t EXCEPT !.data[f] = t.disk[t.slot[v]]]

\* do_pgfault at v: a first access gets a page as it is, a later one its contents.
\* swap_in tests the offset again when it reads.
FaultPanics(t, v) ==
    AllocPanics(t) \/ (t.slot[v] # 0 /\ ~GoodOffset(t.slot[v]))
do_pgfault(t, v) ==
    LET counted == [t EXCEPT !.pgfault_num = (@ + 1) % UInt]
        room == MadeRoom(counted)
        f == Lowest(room)
        got == alloc_page(room)
    IN  Mapped(IF t.slot[v] = 0 THEN got ELSE swap_in(got, v, f), v, f)

\* Memory once v is mapped.
Served(t, v) == IF t.page[v] # NULL THEN t ELSE do_pgfault(t, v)
Stored(t, v, x) == [t EXCEPT !.data[t.page[v]] = x]

----------------------------------------------------------------------------
\* check_swap before the first access.  The frames hold anything.
InitState(d) ==
    [page |-> [v \in VPage |-> NULL], slot |-> [v \in VPage |-> 0],
     data |-> d, free |-> Frame, queue |-> <<>>,
     pra_vaddr |-> [f \in Frame |-> NULL],
     disk |-> [o \in Slot |-> CHOOSE x \in Val : TRUE], pgfault_num |-> 0]

Init ==
    /\ \E d \in [Frame -> Val] : s = InitState(d)
    /\ last = NULL
    /\ panic = FALSE

Fails(v) == s.page[v] = NULL /\ FaultPanics(s, v)

Load(v) ==
    /\ ~panic /\ ~Fails(v)
    /\ s' = Served(s, v)
    /\ last' = <<"R", v, s.page[v] = NULL>>
    /\ UNCHANGED panic

Store(v, x) ==
    /\ ~panic /\ ~Fails(v)
    /\ s' = Stored(Served(s, v), v, x)
    /\ last' = <<"W", v, s.page[v] = NULL>>
    /\ UNCHANGED panic

AccessPanics(v) ==
    /\ ~panic /\ Fails(v)
    /\ panic' = TRUE
    /\ UNCHANGED <<s, last>>

Panicked == panic /\ UNCHANGED vars

Next ==
    \/ \E v \in VPage : Load(v)
    \/ \E v \in VPage, x \in Val : Store(v, x)
    \/ \E v \in VPage : AccessPanics(v)
    \/ Panicked

Spec == Init /\ [][Next]_vars

----------------------------------------------------------------------------
\* Type invariant: the queue holds pages, the table pages or slots.
TypeOK == s \in State /\ panic \in BOOLEAN

\* An access panics only when the oldest resident page has to make room and the
\* device has no slot for it: never for want of a victim, never over an entry that
\* is not valid, and never when a page that was written is read back.
OnlyOffDevice == panic =>
    /\ s.free = {} /\ s.queue # <<>>
    /\ Entry(s.pra_vaddr[Head(s.queue)]) >= max_swap_offset

\* Demand paging keeps contents and replaces first in, first out.
Holds(t, v) == IF t.page[v] # NULL THEN t.data[t.page[v]]
               ELSE IF t.slot[v] # 0 THEN t.disk[t.slot[v]] ELSE NULL
Order(t) == [i \in DOMAIN t.queue |-> t.pra_vaddr[t.queue[i]]]
Cache == INSTANCE FifoCache WITH
    Size <- Cardinality(Frame), mem <- [v \in VPage |-> Holds(s, v)], order <- Order(s)
FifoPaging == Cache!CSpec

----------------------------------------------------------------------------
\* The accesses of check_content_set and _fifo_check_swap, each with pgfault_num as
\* they assert it; the pages a to e are 1 to 5.
check_content_set == <<<<1, 1>>, <<1, 1>>, <<2, 2>>, <<2, 2>>, <<3, 3>>, <<3, 3>>, <<4, 4>>, <<4, 4>>>>
fifo_check_swap == <<<<3, 4>>, <<1, 4>>, <<4, 4>>, <<2, 4>>, <<5, 5>>, <<2, 5>>,
                     <<1, 6>>, <<2, 7>>, <<3, 8>>, <<4, 9>>, <<5, 10>>, <<1, 11>>>>
Script == check_content_set \o fifo_check_swap

\* check_swap, run at boot, passes: the faults are counted as the script says, four
\* pages use up the frames, and the last read of page a finds what was written.
check_swap ==
    LET byte == <<"a", "b", "c", "d", "e">>
        page(i) == Script[i][1]
        run[i \in 0 .. Len(Script)] ==
            IF i = 0 THEN InitState([f \in Frame |-> "none"])
            ELSE Stored(Served(run[i - 1], page(i)), page(i), byte[page(i)])
        read == Served(run[Len(Script) - 1], 1)
    IN  /\ \A i \in 1 .. Len(Script) : run[i].pgfault_num = Script[i][2]
        /\ run[Len(check_content_set)].free = {}
        /\ \A v \in 1 .. 4 : run[Len(check_content_set)].page[v] = v
        /\ read.data[read.page[1]] = byte[1]
=============================================================================
