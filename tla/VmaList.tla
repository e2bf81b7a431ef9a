------------------------------- MODULE VmaList -------------------------------
(***************************************************************************)
(* The list of virtual memory areas of kern/mm/vmm.c, as operators on a    *)
(* sequence in list order: find_vma with its cache, insert_vma_struct with *)
(* its assertions, and the tests of mm_map.  Addresses are bytes and wrap  *)
(* at Top.  An area stands for the pointer to it: no two areas of a list   *)
(* are equal.                                                              *)
(***************************************************************************)
EXTENDS Integers, Sequences

CONSTANTS
    PGSIZE,
    USERBASE, USERTOP,   \* bounds of user memory
    Top,                 \* 2^64 in the code: addresses are 0 .. Top - 1
    NULL

ASSUME VmaAssumption ==
    /\ PGSIZE \in Nat \ {0} /\ USERBASE \in Nat /\ USERTOP \in Nat /\ Top \in Nat \ {0}
    /\ USERBASE % PGSIZE = 0 /\ USERTOP % PGSIZE = 0 /\ Top % PGSIZE = 0
    /\ 0 < USERBASE /\ USERBASE < USERTOP /\ USERTOP + PGSIZE <= Top

Addr == 0 .. Top - 1
Access == {"R", "W", "X"}

\* vm_start, vm_end and vm_flags.  "EMPTY" is no flag of the code: it marks the area
\* of a segment without bytes, of which load_icode allocates no page.
Vma == [start : Nat, end : Nat, flags : SUBSET (Access \cup {"STACK", "EMPTY"})]

\* The pointer NULL points to no area, and the entry 0 of a page table is no page.
ASSUME NullAssumption == NULL \notin Vma /\ \A e \in SUBSET Access : e # NULL

RoundDown(a) == (a \div PGSIZE) * PGSIZE
RoundUp(a) == RoundDown((a + PGSIZE - 1) % Top)

UserAccess(start, end) == USERBASE <= start /\ start < end /\ end <= USERTOP

InVma(v, a) == v.start <= a /\ a < v.end

\* The first area of list l that has a.
Scan(l, a) ==
    LET hit == {i \in DOMAIN l : InVma(l[i], a)}
    IN  IF hit = {} THEN NULL ELSE l[CHOOSE i \in hit : \A j \in hit : i <= j]

\* find_vma: the cached area if a is in it, else a scan of the list.
find_vma(l, c, a) == IF c # NULL /\ InVma(c, a) THEN c ELSE Scan(l, a)

\* mmap_cache afterwards.
Cached(c, v) == IF v # NULL THEN v ELSE c

\* insert_vma_struct puts v behind the areas that start no higher: le_prev is the
\* last area before the first one that starts above v.
After(l, v) ==
    LET above == {i \in DOMAIN l : l[i].start > v.start}
    IN  IF above = {} THEN Len(l) ELSE (CHOOSE i \in above : \A j \in above : i <= j) - 1

Inserted(l, v) ==
    LET k == After(l, v)
    IN  [i \in 1 .. Len(l) + 1 |-> IF i <= k THEN l[i] ELSE IF i = k + 1 THEN v ELSE l[i - 1]]

\* check_vma_overlap
Apart(prev, next) ==
    prev.start < prev.end /\ prev.end <= next.start /\ next.start < next.end

\* Mutant: the area behind is not looked at.
AssertsPrevOnly(l, v) ==
    v.start < v.end /\ (After(l, v) > 0 => Apart(l[After(l, v)], v))

\* The assertions of insert_vma_struct.
InsertAsserts(l, v) ==
    LET k == After(l, v)
    IN  /\ v.start < v.end
        /\ k > 0 => Apart(l[k], v)
        /\ k < Len(l) => Apart(v, l[k + 1])

\* The test of mm_map for an area in the way.
Refused(l, c, start, end) ==
    LET v == find_vma(l, c, start) IN v # NULL /\ end > v.start

\* Areas ascend and do not meet.
SortedList(l) == \A i, j \in DOMAIN l :
    /\ l[i].start < l[i].end
    /\ i < j => l[i].end <= l[j].start

\* check_vma_struct: areas of two bytes at every fifth address, the first ten
\* inserted downwards, are found in list order and by find_vma, whatever of the
\* neighbourhood is cached.
check_vma_struct ==
    LET V(i) == [start |-> 5 * i, end |-> 5 * i + 2, flags |-> {}]
        nth == [k \in 1 .. 100 |-> IF k <= 10 THEN V(11 - k) ELSE V(k)]
        list[k \in 0 .. 100] == IF k = 0 THEN <<>> ELSE Inserted(list[k - 1], nth[k])
    IN  /\ \A k \in 1 .. 100 : InsertAsserts(list[k - 1], nth[k])
        /\ \A i \in 1 .. 100 : list[100][i] = V(i)
        /\ \A i \in 1 .. 100, d \in 0 .. 4 : \A c \in {NULL, V(1), V(i), V(100)} :
              find_vma(list[100], c, 5 * i + d) = IF d < 2 THEN V(i) ELSE NULL
        /\ \A a \in 0 .. 4 : find_vma(list[100], V(100), a) = NULL
=============================================================================
