------------------------------ MODULE PageTable ------------------------------
(***************************************************************************)
(* Page tables and page reference counts of kern/mm/pmm.c, driven the way  *)
(* the kernel drives them: copy_mm and load_icode make an address space,   *)
(* load_icode and do_pgfault map pages, dup_mmap copies a space area by    *)
(* area, exit_mmap unmaps all the areas and then frees the tables.         *)
(*                                                                         *)
(* Addresses are page numbers; a table has N entries at every level (512   *)
(* in mmu.h).  A physical page is a frame; m holds what the frames hold.   *)
(* The loops run one iteration per step; interrupts in the kernel start    *)
(* no memory operation, so calls do not overlap.  Before swap_init the     *)
(* self-tests of pmm_init map and unmap pages in boot_pgdir.  UserMemory   *)
(* is what the module promises to processes.                               *)
(***************************************************************************)
EXTENDS Integers, FiniteSets, Sequences

CONSTANTS
    Frame,         \* physical pages, by number
    N,             \* entries of a table
    Areas,         \* the areas of every space, ascending: sequence of <<start, end>>
    Val,           \* what a data page may hold
    MaxMm,         \* bound: address spaces at a time
    NULL

La == 0 .. N * N * N - 1

ASSUME PageTableAssumption ==
    /\ Frame \subseteq Nat /\ IsFiniteSet(Frame) /\ Frame # {}
    /\ N \in Nat \ {0}
    /\ NULL \notin Frame \cup Val
    /\ MaxMm \in Nat
    /\ Areas \in Seq(La \X (La \cup {N * N * N})) /\ Areas # <<>>
    /\ \A k \in 1 .. Len(Areas) : Areas[k][1] < Areas[k][2]
    /\ \A j, k \in 1 .. Len(Areas) : j < k => Areas[j][2] <= Areas[k][1]

Idx == 0 .. N - 1

PDX1(la) == (la \div (N * N)) % N
PDX0(la) == (la \div N) % N
PTX(la) == la % N

Start(k) == Areas[k][1]
End(k) == Areas[k][2]
InArea(la) == \E k \in 1 .. Len(Areas) : Start(k) <= la /\ la < End(k)
UserLa == {la \in La : InArea(la)}

VARIABLES
    m,     \* the frames: their use (history), Page.ref, entries as a table, data
    mm,    \* the address spaces processes have, by their page directory
    call   \* the call in progress

vars == <<m, mm, call>>

Kind == {"free", "pgdir", "pd0", "pt", "page"}
Memory == [kind : [Frame -> Kind], ref : [Frame -> Nat],
           tab : [Frame -> [Idx -> Frame \cup {NULL}]], data : [Frame -> Val \cup {NULL}]]

Empty == [i \in Idx |-> NULL]

----------------------------------------------------------------------------
(***************************************************************************)
(* Operations on the frames.  One that allocates returns the set of its    *)
(* outcomes, each with the new contents s.                                 *)
(***************************************************************************)

\* The entry at index c[2] of table c[1].
At(s, c) == s.tab[c[1]][c[2]]
SetEntry(s, c, x) == [s EXCEPT !.tab[c[1]][c[2]] = x]

Free(s) == {f \in Frame : s.kind[f] = "free"}

\* First fit: the lowest free page, no page when there is none.
alloc_page(s) == {f \in Free(s) : \A g \in Free(s) : f <= g}

\* default_free_pages also clears the count.  What a freed page held is not
\* kept, to have fewer states: a table is cleared when it is allocated, and a
\* data page that is allocated may hold anything.
free_page(s, f) ==
    [s EXCEPT !.kind[f] = "free", !.ref[f] = 0, !.tab[f] = Empty, !.data[f] = NULL]

\* Make the table that entry c points to, if there is none.
Table(s, c, k) ==
    IF At(s, c) # NULL THEN {s}
    ELSE {SetEntry([s EXCEPT !.kind[f] = k, !.ref[f] = 1, !.tab[f] = Empty], c, f)
             : f \in alloc_page(s)}

\* get_pte(d, la, 0): the page table of la, or NULL.
pt_of(s, d, la) ==
    LET pd0 == At(s, <<d, PDX1(la)>>)
    IN  IF pd0 = NULL THEN NULL ELSE At(s, <<pd0, PDX0(la)>>)

\* get_pte(d, la, 1): pt is NULL when a table could not be allocated; a pd0
\* that was allocated before stays.
get_pte(s, d, la) ==
    LET c1 == <<d, PDX1(la)>>
        One == Table(s, c1, "pd0")
        Two(t) == Table(t, <<At(t, c1), PDX0(la)>>, "pt")
    IN  IF One = {} THEN {[s |-> s, pt |-> NULL]}
        ELSE UNION {IF Two(t) = {} THEN {[s |-> t, pt |-> NULL]}
                    ELSE {[s |-> u, pt |-> pt_of(u, d, la)] : u \in Two(t)} : t \in One}

get_page(s, d, la) ==
    LET t == pt_of(s, d, la) IN IF t = NULL THEN NULL ELSE At(s, <<t, PTX(la)>>)

page_remove_pte(s, c) ==
    LET f == At(s, c)
        less == [s EXCEPT !.ref[f] = @ - 1]
    IN  IF f = NULL THEN s
        ELSE SetEntry(IF less.ref[f] = 0 THEN free_page(less, f) ELSE less, c, NULL)

\* Mutant: the old page is dropped before the new one is counted.
InsertDropsFirst(s, p, c) ==
    SetEntry([page_remove_pte(s, c) EXCEPT !.ref[p] = @ + 1], c, p)

\* page_insert, once get_pte has found the entry c.
Insert(s, p, c) ==
    LET more == [s EXCEPT !.ref[p] = @ + 1]
    IN  SetEntry(IF At(s, c) = NULL THEN more
                 ELSE IF At(s, c) = p THEN [more EXCEPT !.ref[p] = @ - 1]
                 ELSE page_remove_pte(more, c), c, p)

page_insert(s, d, p, la) ==
    {IF r.pt = NULL THEN [s |-> r.s, ok |-> FALSE]
     ELSE [s |-> Insert(r.s, p, <<r.pt, PTX(la)>>), ok |-> TRUE] : r \in get_pte(s, d, la)}

\* A free page taken for data, that holds v.
Holding(s, p, v) == [s EXCEPT !.kind[p] = "page", !.data[p] = v]

pgdir_alloc_page(s, d, la) ==
    IF alloc_page(s) = {} THEN {[s |-> s, ok |-> FALSE]}
    ELSE UNION {UNION {{IF r.ok THEN r ELSE [s |-> free_page(r.s, p), ok |-> FALSE]
                          : r \in page_insert(Holding(s, p, v), d, p, la)}
                         : v \in Val} : p \in alloc_page(s)}

\* do_pgfault, on an address that has no valid entry.
do_pgfault(s, d, la) ==
    UNION {IF r.pt = NULL THEN {[s |-> r.s, ok |-> FALSE]}
           ELSE pgdir_alloc_page(r.s, d, la) : r \in get_pte(s, d, la)}

----------------------------------------------------------------------------
\* The record of a call: the space it works on, the space that it copies, the
\* area, the address, and free_pd0 of exit_range.
Call(op, d, from, k, la) ==
    [op |-> op, d |-> d, from |-> from, k |-> k, la |-> la, all |-> TRUE]
Op(op) == Call(op, NULL, NULL, 0, 0)
Idle == Op("idle")

\* Once swap_init has run, alloc_page(1) without a free page calls
\* swap_out(NULL, ...), which faults in the kernel and panics: it never returns
\* NULL, and the clean-up behind it in copy_mm and load_icode is not reached.
Short == call' = Op("panic")

\* The page directory the kernel has from the start.
boot_pgdir == CHOOSE f \in Frame : \A g \in Frame : f <= g

Init ==
    /\ m = [kind |-> [f \in Frame |-> IF f = boot_pgdir THEN "pgdir" ELSE "free"],
            ref |-> [f \in Frame |-> 0], tab |-> [f \in Frame |-> Empty],
            data |-> [f \in Frame |-> NULL]]
    /\ mm = {}
    /\ call = Op("boot")

----------------------------------------------------------------------------
(***************************************************************************)
(* check_pgdir and check_boot_pgdir, with any calls in place of the ones   *)
(* they make: pages of the first page table are mapped, mapped a second    *)
(* time, mapped over, and removed.                                         *)
(***************************************************************************)

Mapped(d) == {get_page(m, d, la) : la \in La} \ {NULL}

\* page_insert of a page just allocated, or of one that is mapped already; the
\* tests assert that it succeeds.
BootInsert(la) ==
    /\ call.op = "boot"
    /\ \E p \in alloc_page(m) \cup Mapped(boot_pgdir) :
       \E r \in page_insert([m EXCEPT !.kind[p] = "page"], boot_pgdir, p, la) :
          m' = r.s /\ IF r.ok THEN UNCHANGED call ELSE Short
    /\ UNCHANGED mm

page_remove(la) ==
    /\ call.op = "boot"
    /\ pt_of(m, boot_pgdir, la) # NULL
    /\ m' = page_remove_pte(m, <<pt_of(m, boot_pgdir, la), PTX(la)>>)
    /\ UNCHANGED <<mm, call>>

\* The end of the tests: the last page, if it is still mapped, and the tables are
\* freed and the entry of boot_pgdir cleared.
BootEnd ==
    LET pd0 == At(m, <<boot_pgdir, 0>>)
        pt == At(m, <<pd0, 0>>)
        left == Mapped(boot_pgdir)
        m1 == IF left = {} THEN m ELSE free_page(m, CHOOSE p \in left : TRUE)
    IN  /\ call.op = "boot" /\ pd0 # NULL
        /\ Cardinality(left) <= 1
        /\ m' = SetEntry(free_page(free_page(m1, pt), pd0), <<boot_pgdir, 0>>, NULL)
        /\ call' = Idle
        /\ UNCHANGED mm

\* load_icode: setup_pgdir.  The kernel's own entries are left out.
setup_pgdir ==
    /\ call = Idle
    /\ Cardinality(mm) < MaxMm
    /\ \/ \E f \in alloc_page(m) :
            /\ m' = [m EXCEPT !.kind[f] = "pgdir"]
            /\ mm' = mm \cup {f}
            /\ UNCHANGED call
       \/ /\ alloc_page(m) = {}
          /\ Short
          /\ UNCHANGED <<m, mm>>

\* copy_mm: setup_pgdir, then dup_mmap, from the last area to the first.
copy_mm(from) ==
    /\ call = Idle
    /\ Cardinality(mm) < MaxMm
    /\ UNCHANGED mm
    /\ \/ \E f \in alloc_page(m) :
            /\ m' = [m EXCEPT !.kind[f] = "pgdir"]
            /\ call' = Call("dup", f, from, Len(Areas), Start(Len(Areas)))
       \/ /\ alloc_page(m) = {}
          /\ Short
          /\ UNCHANGED m

\* load_icode maps a page of an area.
LoadPage(d, la) ==
    /\ call = Idle /\ InArea(la) /\ get_page(m, d, la) = NULL
    /\ \E r \in pgdir_alloc_page(m, d, la) :
          m' = r.s /\ IF r.ok THEN UNCHANGED call ELSE Short
    /\ UNCHANGED mm

\* A page fault in an area; exception_handler panics when do_pgfault fails.
Fault(d, la) ==
    /\ call = Idle /\ InArea(la) /\ get_page(m, d, la) = NULL
    /\ \E r \in do_pgfault(m, d, la) :
          m' = r.s /\ IF r.ok THEN UNCHANGED call ELSE Short
    /\ UNCHANGED mm

\* A process writes to a page it has (no kernel code: the hardware).
Write(d, la, v) ==
    /\ call = Idle /\ InArea(la) /\ get_page(m, d, la) # NULL
    /\ m' = [m EXCEPT !.data[get_page(m, d, la)] = v]
    /\ UNCHANGED <<mm, call>>

----------------------------------------------------------------------------
(***************************************************************************)
(* dup_mmap: copy_range on every area.                                     *)
(***************************************************************************)

\* Mutant: a missing table does not advance the address to the next table.
NextTableStays(la) == (la \div N) * N

NextTable(la) == ((la + N) \div N) * N

\* The loop goes on at la, or with area k - 1, or dup_mmap is done.
DupNext(la) ==
    IF la < End(call.k) THEN /\ call' = [call EXCEPT !.la = la]
                             /\ UNCHANGED mm
    ELSE IF call.k > 1 THEN /\ call' = [call EXCEPT !.k = @ - 1, !.la = Start(call.k - 1)]
                            /\ UNCHANGED mm
    ELSE call' = Idle /\ mm' = mm \cup {call.d}

\* Mutant: the contents are not copied.
CopiedNothing(s, p, np) == Holding(s, np, CHOOSE v \in Val : TRUE)

\* npage with the contents of page.
Copied(s, p, np) == Holding(s, np, s.data[p])

copy_range ==
    /\ call.op = "dup"
    /\ LET page == get_page(m, call.from, call.la)
       IN  \/ /\ pt_of(m, call.from, call.la) = NULL
              /\ DupNext(NextTable(call.la))
              /\ UNCHANGED m
           \/ /\ pt_of(m, call.from, call.la) # NULL
              /\ page = NULL
              /\ DupNext(call.la + 1)
              /\ UNCHANGED m
           \/ /\ page # NULL
              /\ \E r \in get_pte(m, call.d, call.la) :
                    \/ /\ r.pt = NULL \/ alloc_page(r.s) = {}
                       /\ m' = r.s
                       /\ Short
                       /\ UNCHANGED mm
                    \/ /\ r.pt # NULL
                       /\ \E np \in alloc_page(r.s) :
                             m' = Insert(Copied(r.s, page, np), np, <<r.pt, PTX(call.la)>>)
                       /\ DupNext(call.la + 1)

----------------------------------------------------------------------------
(***************************************************************************)
(* exit_mmap: unmap_range on every area, then exit_range on every area;    *)
(* put_pgdir follows.                                                      *)
(***************************************************************************)

\* do_exit, do_execve, on the last process of the space.
exit_mmap(d) ==
    /\ call = Idle
    /\ mm' = mm \ {d}
    /\ call' = Call("unmap", d, NULL, 1, Start(1))
    /\ UNCHANGED m

\* Mutant: the last area is missed.
UnmapMissesLast(la) ==
    IF la < End(call.k) THEN [call EXCEPT !.la = la]
    ELSE IF call.k < Len(Areas) - 1 THEN [call EXCEPT !.k = @ + 1, !.la = Start(call.k + 1)]
    ELSE Call("exit", call.d, NULL, 1, (Start(1) \div N) * N)

UnmapNext(la) ==
    IF la < End(call.k) THEN [call EXCEPT !.la = la]
    ELSE IF call.k < Len(Areas) THEN [call EXCEPT !.k = @ + 1, !.la = Start(call.k + 1)]
    ELSE Call("exit", call.d, NULL, 1, (Start(1) \div N) * N)

unmap_range ==
    /\ call.op = "unmap"
    /\ \/ /\ pt_of(m, call.d, call.la) = NULL
          /\ call' = UnmapNext(NextTable(call.la))
          /\ UNCHANGED m
       \/ /\ pt_of(m, call.d, call.la) # NULL
          /\ m' = page_remove_pte(m, <<pt_of(m, call.d, call.la), PTX(call.la)>>)
          /\ call' = UnmapNext(call.la + 1)
    /\ UNCHANGED mm

\* A table is freed and the entry that points to it cleared.
FreeTable(s, c) == SetEntry(free_page(s, At(s, c)), c, NULL)

\* d1start of the next outer iteration.
NextDir(la) == ((la + N * N) \div (N * N)) * (N * N)

\* The loops go on at la, or with area k + 1, or put_pgdir ends it.
ExitNext(s, la, all) ==
    IF la < End(call.k) THEN m' = s /\ call' = [call EXCEPT !.la = la, !.all = all]
    ELSE IF call.k < Len(Areas)
    THEN m' = s /\ call' = [call EXCEPT !.k = @ + 1, !.la = (Start(call.k + 1) \div N) * N,
                                        !.all = TRUE]
    ELSE m' = free_page(s, call.d) /\ call' = Idle

\* Mutant: the test is turned round.
AllValid(s, pt) == \A i \in Idx : s.tab[pt][i] # NULL

\* free_pt: no entry of pt is valid.
NoneValid(s, pt) == \A i \in Idx : s.tab[pt][i] = NULL

exit_range ==
    /\ call.op = "exit"
    /\ UNCHANGED mm
    /\ LET c1 == <<call.d, PDX1(call.la)>>
           pd0 == At(m, c1)
           c0 == <<pd0, PDX0(call.la)>>
           pt == At(m, c0)
           m1 == IF pt # NULL /\ NoneValid(m, pt) THEN FreeTable(m, c0) ELSE m
           all == call.all /\ pt # NULL
           la == call.la + N
       IN  \/ /\ pd0 = NULL
              /\ ExitNext(m, NextDir(call.la), TRUE)
           \/ /\ pd0 # NULL
              /\ la < NextDir(call.la) /\ la < End(call.k)
              /\ ExitNext(m1, la, all)
           \/ /\ pd0 # NULL
              /\ la >= NextDir(call.la) \/ la >= End(call.k)
              /\ ExitNext(IF all THEN FreeTable(m1, c1) ELSE m1, NextDir(call.la), TRUE)

Panic == call.op = "panic" /\ UNCHANGED vars

Next ==
    \/ \E la \in Idx : BootInsert(la)
    \/ \E la \in Idx : page_remove(la)
    \/ BootEnd
    \/ setup_pgdir
    \/ \E d \in mm : copy_mm(d)
    \/ \E d \in mm, la \in La : LoadPage(d, la)
    \/ \E d \in mm, la \in La : Fault(d, la)
    \/ \E d \in mm, la \in La, v \in Val : Write(d, la, v)
    \/ copy_range
    \/ \E d \in mm : exit_mmap(d)
    \/ unmap_range
    \/ exit_range
    \/ Panic

Spec == Init /\ [][Next]_vars

\* A call, once begun, runs on: the kernel is not preempted.
LiveSpec == Spec /\ WF_vars(copy_range \/ unmap_range \/ exit_range)

----------------------------------------------------------------------------
\* Type invariant: in particular page_remove_pte never takes a count below zero.
TypeOK ==
    /\ m \in Memory
    /\ mm \subseteq Frame
    /\ call.op \in {"boot", "idle", "dup", "unmap", "exit", "panic"}

\* The entries that point to f.
Slots(f) == {c \in Frame \X Idx : At(m, c) = f}

\* Page.ref of a data page is the number of entries that map it; a page used as a
\* table is counted once and reached by one entry at most; and no entry leads to a
\* page that is free: get_pte, page_insert, page_remove_pte, copy_range and
\* exit_range keep this when a page is mapped twice, over another one or over itself.
RefExact == \A f \in Frame :
    /\ m.kind[f] = "page" => m.ref[f] = Cardinality(Slots(f))
    /\ m.kind[f] \in {"pd0", "pt"} => m.ref[f] = 1 /\ Cardinality(Slots(f)) <= 1
    /\ m.kind[f] \in {"free", "pgdir"} => Slots(f) = {}

\* What lies under one entry of the page directory lies under one page table.  Most
\* programs in user/ are linked so, but nothing enforces it: the bss of testbss.c
\* needs three page tables, of which the first also has the text.
OneTableEach == \A la, lb \in La :
    InArea(la) /\ InArea(lb) /\ PDX1(la) = PDX1(lb) => PDX0(la) = PDX0(lb)

\* Between calls every page in use serves a space: the self-tests and exit give
\* everything back.  Where OneTableEach does not hold exit_range forgets tables, but
\* none that leads to a page: an address space never loses more than empty tables.
Reached(f) == f \in mm \cup {boot_pgdir} \/ Slots(f) # {}
Lost(f) == m.kind[f] \in {"pd0", "pt"} /\ m.tab[f] = Empty /\ ~OneTableEach
NoLeak == call = Idle => \A f \in Frame : m.kind[f] # "free" => Reached(f) \/ Lost(f)

\* exit_range finds every page table it meets empty and frees it, also one that several
\* areas use: unmap_range has been over all of them before.
TablesFreed == [][LET pt == pt_of(m, call.d, call.la)
                  IN  call.op = "exit" /\ pt # NULL => m'.kind[pt] = "free"]_vars

\* What the comment in exit_range says (pmm.c:329): a level 0 page directory is freed
\* only when all its entries are invalid, or become so in the same step.
DirectoryFreedEmpty == [][\A f \in Frame : m.kind[f] = "pd0" /\ m'.kind[f] = "free" =>
    \A i \in Idx : m.tab[f][i] # NULL => m'.kind[m.tab[f][i]] = "free"]_vars

\* Private memory: fork copies a whole space, exit drops it, nothing shows
\* in another space (UserMemory).
Shown(d) == [la \in UserLa |-> IF d \in mm /\ get_page(m, d, la) # NULL
                           THEN m.data[get_page(m, d, la)] ELSE NULL]
Private == INSTANCE UserMemory WITH
    Space <- Frame, Addr <- UserLa, alive <- mm, view <- [d \in Frame |-> Shown(d)],
    copying <- IF call.op = "dup" THEN call.from ELSE NULL
PrivateMemory == Private!USpec

\* Every call of the memory manager ends, with a result or a panic.
CallsEnd == [](call.op \in {"dup", "unmap", "exit"} => <>(call.op \in {"idle", "panic"}))
=============================================================================
