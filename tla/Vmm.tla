--------------------------------- MODULE Vmm ---------------------------------
(***************************************************************************)
(* Virtual memory areas of kern/mm/vmm.c: the list of areas of an address  *)
(* space (mm_struct) with its cache of one area, mm_map, dup_mmap,         *)
(* mm_destroy, user_mem_check, and do_pgfault with the permissions of the  *)
(* pages that load_icode and do_pgfault map.                               *)
(*                                                                         *)
(* vma_create and the copying of pages may fail.                           *)
(***************************************************************************)
EXTENDS VmaList, FiniteSets

CONSTANTS
    Mm,           \* address spaces
    STACKPAGES,   \* pages of the user stack
    MaxVma,       \* bound: areas of all spaces, when load_icode maps one
    MaxLen        \* bound: length of a range of memory asked about

ASSUME VmmAssumption ==
    /\ STACKPAGES \in Nat \ {0} /\ MaxVma \in Nat /\ MaxLen \in 0 .. Top - 1
    /\ USERBASE + STACKPAGES * PGSIZE <= USERTOP
    /\ NULL \notin Mm \X Mm \X Nat

Page == 0 .. Top \div PGSIZE

\* The flags of an area, from the program header of a segment, or of the stack.
SegFlags == {{"R", "X"}, {"R", "W"}}
StackFlags == {"R", "W", "STACK"}

VARIABLES
    mmap_list, mmap_cache,  \* of every space
    pte,      \* permissions of a page, NULL where nothing is mapped
    alive,    \* spaces in use
    dup,      \* dup_mmap in progress: <<to, from, areas left to copy>>, or NULL
    panic     \* why the kernel panicked, or "no"

vars == <<mmap_list, mmap_cache, pte, alive, dup, panic>>

\* Mutant: only the area of the first address is asked.
UserMemCheckFirst(l, c, addr, len, write) ==
    LET end == (addr + len) % Top
        v == find_vma(l, c, addr)
    IN  <<UserAccess(addr, end) /\ v # NULL /\ (IF write THEN "W" ELSE "R") \in v.flags, v>>

\* user_mem_check on a space: <<result, mmap_cache afterwards>>.  The loop goes
\* from area to area; step is it, from an address and what is cached then.
user_mem_check(l, c, addr, len, write) ==
    LET end == (addr + len) % Top
        step[at \in Addr \X ({NULL} \cup {l[i] : i \in DOMAIN l})] ==
            LET s == at[1]
                cc == at[2]
                v == find_vma(l, cc, s)
            IN  IF s >= end THEN <<TRUE, cc>>
                ELSE IF v = NULL \/ s < v.start THEN <<FALSE, cc>>
                ELSE IF (IF write THEN "W" ELSE "R") \notin v.flags THEN <<FALSE, v>>
                ELSE IF write /\ "STACK" \in v.flags /\ s < v.start + PGSIZE
                THEN <<FALSE, v>>
                ELSE step[<<v.end, v>>]
    IN  IF UserAccess(addr, end) THEN step[<<addr, c>>] ELSE <<FALSE, c>>

----------------------------------------------------------------------------
Init ==
    /\ mmap_list = [x \in Mm |-> <<>>]
    /\ mmap_cache = [x \in Mm |-> NULL]
    /\ pte = [x \in Mm |-> [p \in Page |-> NULL]]
    /\ alive = {}
    /\ dup = NULL
    /\ panic = "no"

Running == panic = "no" /\ dup = NULL

\* load_icode maps the segments, then the stack, then the program may run.
Loaded(x) == \E i \in DOMAIN mmap_list[x] : "STACK" \in mmap_list[x][i].flags

mm_create(x) ==
    /\ Running /\ x \notin alive /\ \A y \in alive : Loaded(y)
    /\ alive' = alive \cup {x}
    /\ UNCHANGED <<mmap_list, mmap_cache, pte, dup, panic>>

\* Permissions load_icode gives the pages of a segment (all user pages).
SegPerm(flags) ==
    (IF "R" \in flags THEN {"R"} ELSE {}) \cup (IF "W" \in flags THEN {"R", "W"} ELSE {})
        \cup (IF "X" \in flags THEN {"X"} ELSE {})

\* mm_map of [addr, addr + len), and the pages that load_icode maps at once with
\* permissions perm.
mm_map(x, addr, len, flags, perm, pages) ==
    LET start == RoundDown(addr)
        end == RoundUp((addr + len) % Top)
        l == mmap_list[x]
        v == [start |-> start, end |-> end, flags |-> flags]
    IN  /\ Running /\ x \in alive /\ ~Loaded(x)
        /\ UserAccess(start, end)               \* else -E_INVAL, no change
        /\ mmap_cache' = [mmap_cache EXCEPT ![x] = Cached(@, find_vma(l, @, start))]
        /\ \/ UNCHANGED <<mmap_list, pte, panic>>   \* refused, or vma_create fails
           \/ /\ ~Refused(l, mmap_cache[x], start, end)
              /\ ~InsertAsserts(l, v)
              /\ panic' = "overlap"
              /\ UNCHANGED <<mmap_list, pte>>
           \/ /\ ~Refused(l, mmap_cache[x], start, end)
              /\ InsertAsserts(l, v)
              /\ mmap_list' = [mmap_list EXCEPT ![x] = Inserted(l, v)]
              /\ pte' = [pte EXCEPT ![x] = [p \in Page |->
                            IF p \in pages THEN perm ELSE @[p]]]
              /\ UNCHANGED panic
        /\ UNCHANGED <<alive, dup>>

RoomForArea == Cardinality(UNION {{y} \X DOMAIN mmap_list[y] : y \in Mm}) < MaxVma

\* The pages that the two loops `while (start < end)` of load_icode allocate: those
\* with a byte of the segment, so none when it has no byte.  (Where its end wraps it
\* is taken to have no byte in the file, and there is none either.)
SegPages(addr, len) ==
    {p \in Page : /\ addr < (addr + len) % Top
                  /\ RoundDown(addr) <= p * PGSIZE /\ p * PGSIZE < (addr + len) % Top}

\* load_icode: a loadable segment.  mm_map rounds it to pages, so even one without
\* bytes has an area, unless it is at a page boundary.
MapSegment(x, addr, len, flags) ==
    LET pages == SegPages(addr, len)
    IN  /\ RoomForArea
        /\ mm_map(x, addr, len, IF pages = {} THEN flags \cup {"EMPTY"} ELSE flags,
                  SegPerm(flags), pages)

\* load_icode: the user stack; its upper pages are allocated, the others on demand.
MapStack(x) ==
    /\ RoomForArea
    /\ mm_map(x, USERTOP - STACKPAGES * PGSIZE, STACKPAGES * PGSIZE, StackFlags,
              Access, {USERTOP \div PGSIZE - 1})

\* copy_from_user, copy_to_user, do_wait, do_execve.
UserMemCheck(x, addr, len, write) ==
    /\ Running /\ x \in alive /\ Loaded(x)
    /\ mmap_cache' = [mmap_cache EXCEPT
                        ![x] = user_mem_check(mmap_list[x], @, addr, len, write)[2]]
    /\ UNCHANGED <<mmap_list, pte, alive, dup, panic>>

\* Mutant: a page of a writable area cannot be written.
FaultPermNoWrite(v) == {"R"}

\* Permissions do_pgfault gives a page of area v.
FaultPerm(v) == IF "W" \in v.flags THEN {"R", "W"} ELSE {}

\* An entry lets the access through.
Allows(e, k) == IF e = NULL THEN FALSE ELSE k \in e

\* do_pgfault, on a load or store that the page's entry does not allow;
\* exception_handler panics when it fails.  (An instruction page fault is only
\* reported, and comes again.)
do_pgfault(x, addr, k) ==
    LET v == find_vma(mmap_list[x], mmap_cache[x], addr)
        p == addr \div PGSIZE
    IN  /\ Running /\ x \in alive /\ Loaded(x)
        /\ ~Allows(pte[x][p], k)
        /\ mmap_cache' = [mmap_cache EXCEPT ![x] = Cached(@, v)]
        /\ \/ /\ panic' = "pgfault failed"    \* no area has addr, or no memory
              /\ UNCHANGED pte
           \/ /\ v # NULL /\ pte[x][p] = NULL
              /\ pte' = [pte EXCEPT ![x][p] = FaultPerm(v)]
              /\ UNCHANGED panic
           \/ /\ v # NULL /\ pte[x][p] # NULL
              \* A valid entry is taken for a swap entry: swap_offset panics.
              /\ panic' = IF k \notin v.flags THEN "refused access"
                          ELSE IF "EMPTY" \in v.flags THEN "empty area" ELSE "allowed access"
              /\ UNCHANGED pte
        /\ UNCHANGED <<mmap_list, alive, dup>>

\* Mutant: the last area is missed.
CopyMissesLast(to, from) ==
    /\ Running /\ from \in alive /\ Loaded(from) /\ to \notin alive
    /\ dup' = <<to, from, Len(mmap_list[from]) - 1>>
    /\ UNCHANGED <<mmap_list, mmap_cache, pte, alive, panic>>

\* copy_mm: mm_create, then dup_mmap from the last area to the first.
copy_mm(to, from) ==
    /\ Running /\ from \in alive /\ Loaded(from) /\ to \notin alive
    /\ dup' = <<to, from, Len(mmap_list[from])>>
    /\ UNCHANGED <<mmap_list, mmap_cache, pte, alive, panic>>

DupStep ==
    /\ dup # NULL /\ panic = "no"
    /\ LET to == dup[1]
           from == dup[2]
           v == mmap_list[from][dup[3]]
       IN  \/ /\ dup[3] > 0
              /\ IF InsertAsserts(mmap_list[to], v)
                 THEN /\ mmap_list' = [mmap_list EXCEPT ![to] = Inserted(@, v)]
                      /\ pte' = [pte EXCEPT ![to] = [p \in Page |->
                                    IF InVma(v, p * PGSIZE) THEN pte[from][p] ELSE @[p]]]
                      /\ dup' = <<to, from, dup[3] - 1>>
                      /\ UNCHANGED panic
                 ELSE panic' = "overlap" /\ UNCHANGED <<mmap_list, pte, dup>>
              /\ UNCHANGED alive
           \/ /\ dup[3] = 0
              /\ alive' = alive \cup {to}
              /\ dup' = NULL
              /\ UNCHANGED <<mmap_list, pte, panic>>
    /\ UNCHANGED mmap_cache

\* exit_mmap, then mm_destroy: pages, areas and mm_struct go.
Gone(x) ==
    /\ mmap_list' = [mmap_list EXCEPT ![x] = <<>>]
    /\ mmap_cache' = [mmap_cache EXCEPT ![x] = NULL]
    /\ pte' = [pte EXCEPT ![x] = [p \in Page |-> NULL]]

\* vma_create or copy_range failed: copy_mm undoes what was done.
DupFails ==
    /\ dup # NULL /\ panic = "no" /\ dup[3] > 0
    /\ Gone(dup[1])
    /\ dup' = NULL
    /\ UNCHANGED <<alive, panic>>

mm_destroy(x) ==
    /\ Running /\ x \in alive
    /\ Gone(x)
    /\ alive' = alive \ {x}
    /\ UNCHANGED <<dup, panic>>

Panicked == panic # "no" /\ UNCHANGED vars

Next ==
    \/ \E x \in Mm : mm_create(x)
    \/ \E x \in Mm, a \in Addr, len \in 0 .. MaxLen, fl \in SegFlags : MapSegment(x, a, len, fl)
    \/ \E x \in Mm : MapStack(x)
    \/ \E x \in Mm, a \in Addr, len \in 0 .. MaxLen, w \in BOOLEAN : UserMemCheck(x, a, len, w)
    \/ \E x \in Mm, a \in Addr, k \in {"R", "W"} : do_pgfault(x, a, k)
    \/ \E x, y \in Mm : copy_mm(x, y)
    \/ DupStep
    \/ DupFails
    \/ \E x \in Mm : mm_destroy(x)
    \/ Panicked

Spec == Init /\ [][Next]_vars

----------------------------------------------------------------------------
\* Type invariant of the areas and of the entries do_pgfault makes.
TypeOK ==
    /\ mmap_list \in [Mm -> Seq(Vma)]
    /\ mmap_cache \in [Mm -> {NULL} \cup Vma]
    /\ pte \in [Mm -> [Page -> {NULL} \cup SUBSET Access]]
    /\ alive \subseteq Mm
    /\ panic \in {"no", "overlap", "pgfault failed", "refused access",
                  "allowed access", "empty area"}

\* insert_vma_struct, called by mm_map in any order of addresses and by dup_mmap
\* from the last area to the first, keeps every list ascending, its areas apart.
Sorted == \A x \in Mm : SortedList(mmap_list[x])

\* Whatever the cache holds, find_vma returns the area that has the address, and
\* user_mem_check answers as a check of every byte would.
ByteOk(x, a, write) == \E i \in DOMAIN mmap_list[x] :
    LET v == mmap_list[x][i]
    IN  /\ InVma(v, a)
        /\ (IF write THEN "W" ELSE "R") \in v.flags
        /\ write /\ "STACK" \in v.flags => a >= v.start + PGSIZE
UserMemCheckExact == \A x \in alive, a \in Addr, len \in 1 .. MaxLen, w \in BOOLEAN :
    user_mem_check(mmap_list[x], mmap_cache[x], a, len, w)[1]
        <=> /\ a + len < Top
            /\ UserAccess(a, a + len)
            /\ \A b \in a .. a + len - 1 : ByteOk(x, b, w)

\* A child gets the areas and the page permissions of its parent.
ForkCopies == dup # NULL /\ dup[3] = 0 =>
    /\ mmap_list[dup[1]] = mmap_list[dup[2]]
    /\ pte[dup[1]] = pte[dup[2]]

\* An access that the area allows never ends with do_pgfault taking a valid entry
\* for a swap entry, and a fetch never faults, since exception_handler serves no
\* instruction page fault: what load_icode and fork map is enough for both, in every
\* area of a segment that has bytes (in one of a segment without bytes they
\* do: the panic "empty area").
AllowedAccessServed ==
    /\ panic # "allowed access"
    /\ \A x \in alive, p \in Page : Loaded(x) =>
          \A i \in DOMAIN mmap_list[x] :
             LET v == mmap_list[x][i]
             IN  "X" \in v.flags /\ "EMPTY" \notin v.flags /\ InVma(v, p * PGSIZE)
                    => Allows(pte[x][p], "X")
=============================================================================
