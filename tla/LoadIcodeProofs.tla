--------------------------- MODULE LoadIcodeProofs ---------------------------
(***************************************************************************)
(* Proofs about LoadIcode, for any page size and user range and any        *)
(* program headers: what load_icode has built so far is exact, and what    *)
(* its error path takes down is all of it.                                 *)
(***************************************************************************)
EXTENDS LoadIcode, SequenceTheorems, NaturalsInduction, WellFoundedInduction, TLAPS

SegEnd(j) == phs[j].va + phs[j].memsz
AreaOf(j) == Area(phs[j].va, phs[j].memsz)

\* The segments that have an area, and the end of what is in memory of one.
Loading == pc \in {"file", "bss"}
Placed == {j \in 1 .. Len(phs) : phs[j].load /\ (j < k \/ (j = k /\ Loading))}
DoneTo(j) == IF j = k THEN at.start ELSE SegEnd(j)

\* Byte a of user memory as segment j wants it.
ByteOf(j, a) == IF a - phs[j].va < phs[j].filesz THEN <<j, a - phs[j].va>> ELSE Zero

InArea(a) == \E i \in DOMAIN areas : InVma(areas[i], a)

----------------------------------------------------------------------------
(***************************************************************************)
(* The inductive invariant.                                                *)
(***************************************************************************)
Place == {"execve", "create", "pgdir", "elf", "header", "file", "bss",
          "returned", "do_exit", "panic", "bad_tail"}

Typed ==
    /\ TypeOK
    /\ phs \in Binaries /\ magic \in BOOLEAN
    /\ k \in 1 .. Len(phs) + 1
    /\ at = [start |-> at.start, la |-> at.la, from |-> at.from]
    /\ mem = [a \in Addr |-> mem[a]]
    /\ pc \in Place

\* Nothing has been built, or everything is gone again.
Nothing == areas = <<>> /\ \A a \in Addr : mem[a] = NULL
NoneYet ==
    /\ pc \in {"execve", "create", "pgdir", "elf"} => Nothing /\ k = 1
    /\ pc \in {"execve", "create"} => held = {}
    /\ pc = "pgdir" => held = {"mm"}
    /\ pc = "do_exit" => Nothing /\ held = {}

\* Pages are in areas only: what exit_mmap unmaps is all there is.
Covered == \A a \in Addr : mem[a] # NULL => InArea(a)

\* Each segment placed has its area, which holds it, and no two share a byte.
SegmentsApart ==
    /\ \A j \in Placed :
          /\ \E i \in DOMAIN areas : areas[i] = AreaOf(j)
          /\ AreaOf(j).start <= phs[j].va /\ SegEnd(j) <= AreaOf(j).end
    /\ \A j1, j2 \in Placed : j1 # j2 =>
          AreaOf(j1).end <= AreaOf(j2).start \/ AreaOf(j2).end <= AreaOf(j1).start

\* What has been copied or zeroed is as it should be.
LoadedExact == \A j \in Placed, a \in Addr :
    phs[j].va <= a /\ a < DoneTo(j) => mem[a] = ByteOf(j, a)

Building ==
    /\ pc \in {"header", "file", "bss"} => SortedList(areas) /\ Covered /\ held \subseteq {"mm", "pgdir"}
    /\ pc \in {"header", "file", "bss", "returned"} => SegmentsApart /\ LoadedExact

\* Where the loops of the current segment are.  Nothing has been copied, or the page
\* below la was filled last, and then start is its end or the end of a part.
Position == Loading =>
    /\ k <= Len(phs) /\ Ph.load /\ Ph.filesz <= Ph.memsz
    /\ Ph.va <= at.start /\ at.start <= MemEnd
    /\ RoundDown(at.la) = at.la
    /\ \/ at.start = Ph.va /\ at.la = RoundDown(Ph.va)
       \/ /\ RoundDown(Ph.va) < at.la /\ at.la <= AreaOf(k).end
          /\ at.start <= at.la /\ at.la < at.start + PGSIZE
          /\ at.start = at.la \/ at.start = (IF pc = "file" THEN FileEnd ELSE MemEnd)
    /\ pc = "file" => at.start <= FileEnd /\ at.from = at.start - Ph.va
    /\ pc = "bss" => at.start >= FileEnd

LInv == Typed /\ NoneYet /\ Building /\ Position /\ pc # "bad_tail"

----------------------------------------------------------------------------
(***************************************************************************)
(* The list of areas (as in VmmProofs, which is about other variables).    *)
(***************************************************************************)

\* A set of naturals has a least member.
LEMMA Least ==
    ASSUME NEW S \in SUBSET Nat, S # {}
    PROVE  \E x \in S : \A y \in S : x <= y
<1>1. PICK x \in S : \A y \in S : ~(<<y, x>> \in OpToRel(<, Nat))
  BY NatLessThanWellFounded, WFMin, Zenon
<1>2. \A y \in S : ~(y < x)
  BY <1>1, Zenon DEF OpToRel
<1>3. \A y \in S : x <= y
  BY <1>2
<1> QED BY <1>3

\* The fields of an area.
LEMMA VmaFields ==
    ASSUME NEW v \in Vma
    PROVE  v.start \in Nat /\ v.end \in Nat /\ v.flags \in SUBSET (Access \cup {"STACK", "EMPTY"})
  BY DEF Vma

\* le_prev of insert_vma_struct: the areas up to it start no higher than the
\* new one; the one behind it, if any, starts above.
LEMMA AfterFacts ==
    ASSUME NEW l \in Seq(Vma), NEW v \in Vma
    PROVE  /\ After(l, v) \in 0 .. Len(l)
           /\ \A i \in 1 .. After(l, v) : l[i].start <= v.start
           /\ After(l, v) < Len(l) => l[After(l, v) + 1].start > v.start
<1> DEFINE above == {i \in DOMAIN l : l[i].start > v.start}
           first == CHOOSE i \in above : \A j \in above : i <= j
<1>1. DOMAIN l = 1 .. Len(l) /\ Len(l) \in Nat
  OBVIOUS
<1>2. v.start \in Nat /\ \A i \in 1 .. Len(l) : l[i].start \in Nat
  BY <1>1, VmaFields
<1>3. CASE above = {}
  <2>1. After(l, v) = Len(l)
    BY <1>3 DEF After
  <2>2. \A i \in 1 .. Len(l) : ~(l[i].start > v.start)
    BY <1>1, <1>3
  <2> QED BY <1>1, <1>2, <2>1, <2>2
<1>4. CASE above # {}
  <2>1. After(l, v) = first - 1
    BY <1>4 DEF After
  <2>2. above \in SUBSET Nat
    BY <1>1
  <2>3. \E i \in above : \A j \in above : i <= j
    BY <1>4, <2>2, Least
  <2>4. first \in above /\ \A j \in above : first <= j
    BY <2>3
  <2>5. first \in 1 .. Len(l) /\ l[first].start > v.start
    BY <1>1, <2>4
  <2>6. \A i \in 1 .. Len(l) : i < first => ~(l[i].start > v.start)
    BY <1>1, <2>4, <2>5
  <2> HIDE DEF first
  <2> QED BY <1>1, <1>2, <2>1, <2>5, <2>6
<1> QED BY <1>3, <1>4

\* list_add_after: the list grows by the new area, behind le_prev.
LEMMA InsertedFacts ==
    ASSUME NEW l \in Seq(Vma), NEW v \in Vma
    PROVE  /\ Inserted(l, v) \in Seq(Vma)
           /\ Len(Inserted(l, v)) = Len(l) + 1
           /\ \A i \in 1 .. Len(l) + 1 : Inserted(l, v)[i] =
                 IF i <= After(l, v) THEN l[i] ELSE IF i = After(l, v) + 1 THEN v ELSE l[i - 1]
<1> DEFINE le == After(l, v)
           n == Len(l) + 1
           entry(i) == IF i <= le THEN l[i] ELSE IF i = le + 1 THEN v ELSE l[i - 1]
<1>1. le \in 0 .. Len(l) /\ Len(l) \in Nat /\ n \in Nat
  BY AfterFacts
<1>2. \A i \in 1 .. Len(l) : l[i] \in Vma
  OBVIOUS
<1>3. Inserted(l, v) = [i \in 1 .. n |-> entry(i)]
  BY DEF Inserted
<1>4. ASSUME NEW i \in 1 .. n PROVE entry(i) \in Vma
  <2>1. CASE i <= le
    BY <1>1, <1>2, <2>1
  <2>2. CASE i = le + 1
    BY <1>1, <2>2
  <2>3. CASE ~(i <= le) /\ i # le + 1
    <3>1. i - 1 \in 1 .. Len(l)
      BY <1>1, <2>3
    <3> QED BY <1>2, <2>3, <3>1
  <2> QED BY <2>1, <2>2, <2>3
<1> HIDE DEF entry, n, le
<1>5. [i \in 1 .. n |-> entry(i)] \in Seq(Vma) /\ Len([i \in 1 .. n |-> entry(i)]) = n
  BY <1>1, <1>4, IsASeq
<1>6. \A i \in 1 .. n : Inserted(l, v)[i] = entry(i)
  BY <1>3
<1> QED BY <1>3, <1>5, <1>6 DEF entry, n, le

\* Where the areas of the grown list come from.
LEMMA InsertedSet ==
    ASSUME NEW l \in Seq(Vma), NEW v \in Vma
    PROVE  /\ \A i \in DOMAIN l : \E j \in DOMAIN Inserted(l, v) : Inserted(l, v)[j] = l[i]
           /\ \E j \in DOMAIN Inserted(l, v) : Inserted(l, v)[j] = v
           /\ \A j \in DOMAIN Inserted(l, v) :
                 Inserted(l, v)[j] = v \/ \E i \in DOMAIN l : Inserted(l, v)[j] = l[i]
<1> DEFINE le == After(l, v)
           m == Inserted(l, v)
<1>1. le \in 0 .. Len(l) /\ Len(l) \in Nat
  BY AfterFacts
<1>2. /\ DOMAIN l = 1 .. Len(l) /\ DOMAIN m = 1 .. Len(l) + 1
      /\ \A i \in 1 .. Len(l) + 1 :
            m[i] = IF i <= le THEN l[i] ELSE IF i = le + 1 THEN v ELSE l[i - 1]
  BY InsertedFacts
<1> HIDE DEF le, m
<1>3. ASSUME NEW i \in 1 .. Len(l)
      PROVE  \E j \in 1 .. Len(l) + 1 : m[j] = l[i]
  <2>1. CASE i <= le
    BY <1>1, <1>2, <2>1
  <2>2. CASE ~(i <= le)
    <3>1. i + 1 \in 1 .. Len(l) + 1 /\ m[i + 1] = l[i]
      BY <1>1, <1>2, <2>2
    <3> QED BY <3>1
  <2> QED BY <2>1, <2>2
<1>4. le + 1 \in 1 .. Len(l) + 1 /\ m[le + 1] = v
  BY <1>1, <1>2
<1>5. ASSUME NEW j \in 1 .. Len(l) + 1
      PROVE  m[j] = v \/ \E i \in 1 .. Len(l) : m[j] = l[i]
  <2>1. CASE j <= le
    BY <1>1, <1>2, <2>1
  <2>2. CASE j = le + 1
    BY <1>4, <2>2
  <2>3. CASE ~(j <= le) /\ j # le + 1
    <3>1. j - 1 \in 1 .. Len(l) /\ m[j] = l[j - 1]
      BY <1>1, <1>2, <2>3
    <3> QED BY <3>1
  <2> QED BY <2>1, <2>2, <2>3
<1> QED BY <1>2, <1>3, <1>4, <1>5 DEF m

\* The assertions of insert_vma_struct are enough: it keeps the areas in order
\* and apart.
LEMMA InsertedSorted ==
    ASSUME NEW l \in Seq(Vma), NEW v \in Vma, SortedList(l), InsertAsserts(l, v)
    PROVE  /\ SortedList(Inserted(l, v))
           /\ \A i \in DOMAIN l : l[i].end <= v.start \/ v.end <= l[i].start
<1> DEFINE le == After(l, v)
           m == Inserted(l, v)
           n == Len(l)
<1>1. le \in 0 .. n /\ n \in Nat
  BY AfterFacts
<1>2. /\ DOMAIN l = 1 .. n /\ DOMAIN m = 1 .. n + 1
      /\ \A i \in 1 .. n + 1 :
            m[i] = IF i <= le THEN l[i] ELSE IF i = le + 1 THEN v ELSE l[i - 1]
  BY InsertedFacts
<1>3. /\ v.start \in Nat /\ v.end \in Nat /\ v.start < v.end
      /\ le > 0 => l[le].end <= v.start
      /\ le < n => v.end <= l[le + 1].start
  BY VmaFields DEF InsertAsserts, Apart
<1>4. \A i \in 1 .. n : l[i].start \in Nat /\ l[i].end \in Nat /\ l[i].start < l[i].end
  BY <1>2, VmaFields DEF SortedList
<1>5. \A i, j \in 1 .. n : i < j => l[i].end <= l[j].start
  BY <1>2 DEF SortedList
<1> HIDE DEF le, m, n
<1>6. ASSUME NEW i \in 1 .. le PROVE l[i].end <= v.start
  <2>1. i \in 1 .. n /\ le \in 1 .. n /\ le > 0
    BY <1>1
  <2>2. CASE i = le
    BY <1>3, <2>1, <2>2
  <2>3. CASE i # le
    <3>1. l[i].end <= l[le].start
      BY <1>5, <2>1, <2>3
    <3> QED BY <1>3, <1>4, <2>1, <3>1
  <2> QED BY <2>2, <2>3
<1>7. ASSUME NEW i \in le + 1 .. n PROVE v.end <= l[i].start
  <2>1. i \in 1 .. n /\ le + 1 \in 1 .. n /\ le < n
    BY <1>1
  <2>2. CASE i = le + 1
    BY <1>3, <2>1, <2>2
  <2>3. CASE i # le + 1
    <3>1. l[le + 1].end <= l[i].start
      BY <1>1, <1>5, <2>1, <2>3
    <3> QED BY <1>3, <1>4, <2>1, <3>1
  <2> QED BY <2>2, <2>3
<1>8. ASSUME NEW i \in 1 .. n PROVE l[i].end <= v.start \/ v.end <= l[i].start
  <2>1. i \in 1 .. le \/ i \in le + 1 .. n
    BY <1>1
  <2> QED BY <1>6, <1>7, <2>1
<1>9. ASSUME NEW i \in 1 .. n + 1 PROVE m[i].start < m[i].end
  <2>1. CASE i <= le
    BY <1>1, <1>2, <1>4, <2>1
  <2>2. CASE i = le + 1
    BY <1>1, <1>2, <1>3, <2>2
  <2>3. CASE ~(i <= le) /\ i # le + 1
    <3>1. i - 1 \in 1 .. n /\ m[i] = l[i - 1]
      BY <1>1, <1>2, <2>3
    <3> QED BY <1>4, <3>1
  <2> QED BY <2>1, <2>2, <2>3
<1>10. ASSUME NEW i \in 1 .. n + 1, NEW j \in 1 .. n + 1, i < j
       PROVE  m[i].end <= m[j].start
  <2>1. CASE j <= le
    <3>1. i \in 1 .. n /\ j \in 1 .. n /\ m[i] = l[i] /\ m[j] = l[j]
      BY <1>1, <1>2, <1>10, <2>1
    <3> QED BY <1>5, <1>10, <3>1
  <2>2. CASE j = le + 1
    <3>1. i \in 1 .. le /\ m[i] = l[i] /\ m[j] = v
      BY <1>1, <1>2, <1>10, <2>2
    <3> QED BY <1>6, <3>1
  <2>3. CASE j > le + 1 /\ i <= le
    <3>1. i \in 1 .. n /\ j - 1 \in 1 .. n /\ m[i] = l[i] /\ m[j] = l[j - 1] /\ i < j - 1
      BY <1>1, <1>2, <1>10, <2>3
    <3> QED BY <1>5, <3>1
  <2>4. CASE j > le + 1 /\ i = le + 1
    <3>1. j - 1 \in le + 1 .. n /\ m[i] = v /\ m[j] = l[j - 1]
      BY <1>1, <1>2, <1>10, <2>4
    <3> QED BY <1>7, <3>1
  <2>5. CASE j > le + 1 /\ i > le + 1
    <3>1. /\ i - 1 \in 1 .. n /\ j - 1 \in 1 .. n /\ i - 1 < j - 1
          /\ m[i] = l[i - 1] /\ m[j] = l[j - 1]
      BY <1>1, <1>2, <1>10, <2>5
    <3> QED BY <1>5, <3>1
  <2> QED BY <1>1, <2>1, <2>2, <2>3, <2>4, <2>5
<1>11. SortedList(m)
  BY <1>2, <1>9, <1>10 DEF SortedList
<1> QED BY <1>2, <1>8, <1>11 DEF m, n

\* A search of the list finds something at an address that an area has.
LEMMA ScanFinds ==
    ASSUME NEW l \in Seq(Vma), NEW a \in Nat, NEW i \in DOMAIN l, InVma(l[i], a)
    PROVE  Scan(l, a) # NULL
<1> DEFINE hit == {j \in DOMAIN l : InVma(l[j], a)}
           first == CHOOSE x \in hit : \A y \in hit : x <= y
<1>1. hit \in SUBSET Nat /\ hit # {}
  OBVIOUS
<1>2. \E x \in hit : \A y \in hit : x <= y
  BY <1>1, Least
<1>3. first \in hit
  BY <1>2
<1>4. Scan(l, a) = l[first]
  BY <1>1 DEF Scan
<1> HIDE DEF first
<1>5. l[first] \in Vma
  BY <1>3
<1> QED BY <1>4, <1>5, NullAssumption

----------------------------------------------------------------------------
(***************************************************************************)
(* Pages.                                                                  *)
(***************************************************************************)

\* ROUNDDOWN gives the page of an address.
LEMMA RoundFacts ==
    ASSUME NEW a \in Nat
    PROVE  /\ RoundDown(a) \in Nat /\ RoundDown(a) <= a /\ a < RoundDown(a) + PGSIZE
           /\ \E q \in Nat : RoundDown(a) = q * PGSIZE
<1> USE VmaAssumption
<1> DEFINE d == a \div PGSIZE
<1>1. d \in Nat /\ d * PGSIZE <= a /\ a < (d + 1) * PGSIZE
  OBVIOUS
<1> HIDE DEF d
<1>2. d * PGSIZE \in Nat /\ (d + 1) * PGSIZE = d * PGSIZE + PGSIZE
  BY <1>1
<1>3. RoundDown(a) = d * PGSIZE
  BY DEF RoundDown, d
<1> QED BY <1>1, <1>2, <1>3

\* The addresses of one page are rounded to its first.
LEMMA OnPage ==
    ASSUME NEW q \in Nat, NEW a \in Nat, q * PGSIZE <= a, a < q * PGSIZE + PGSIZE
    PROVE  RoundDown(a) = q * PGSIZE
<1> USE VmaAssumption
<1>1. PICK d \in Nat : RoundDown(a) = d * PGSIZE
  BY RoundFacts
<1>2. d * PGSIZE <= a /\ a < (d + 1) * PGSIZE /\ a < (q + 1) * PGSIZE
  BY <1>1, RoundFacts
<1>3. d * PGSIZE < (q + 1) * PGSIZE /\ q * PGSIZE < (d + 1) * PGSIZE
  BY <1>2
<1>4. d < q + 1 /\ q < d + 1
  BY <1>3
<1> QED BY <1>1, <1>4

\* A page begins where rounding changes nothing; pages follow each other.
LEMMA PageStarts ==
    ASSUME NEW a \in Nat
    PROVE  /\ RoundDown(RoundDown(a)) = RoundDown(a)
           /\ RoundDown(a) = a => RoundDown(a + PGSIZE) = a + PGSIZE
           /\ RoundDown(a) = a =>
                 \A b \in Nat : RoundDown(b) = a <=> a <= b /\ b < a + PGSIZE
           /\ RoundDown(a) = a =>
                 \A b \in Nat : RoundDown(b) = b /\ a < b => a + PGSIZE <= b
<1> USE VmaAssumption
<1>1. PICK q \in Nat : RoundDown(a) = q * PGSIZE
  BY RoundFacts
<1>2. RoundDown(a) \in Nat
  BY RoundFacts
<1>3. RoundDown(RoundDown(a)) = RoundDown(a)
  BY <1>1, <1>2, OnPage
<1>4. ASSUME RoundDown(a) = a PROVE RoundDown(a + PGSIZE) = a + PGSIZE
  <2>1. (q + 1) * PGSIZE = a + PGSIZE /\ q + 1 \in Nat /\ a + PGSIZE \in Nat
    BY <1>1, <1>4
  <2>2. (q + 1) * PGSIZE <= a + PGSIZE /\ a + PGSIZE < (q + 1) * PGSIZE + PGSIZE
    BY <2>1
  <2> QED BY <2>1, <2>2, OnPage
<1>5. ASSUME RoundDown(a) = a, NEW b \in Nat
      PROVE  RoundDown(b) = a <=> a <= b /\ b < a + PGSIZE
  <2>1. RoundDown(b) = a => a <= b /\ b < a + PGSIZE
    BY RoundFacts
  <2>2. a <= b /\ b < a + PGSIZE => RoundDown(b) = a
    <3>1. q * PGSIZE = a
      BY <1>1, <1>5
    <3> QED BY <3>1, OnPage
  <2> QED BY <2>1, <2>2
<1>6. ASSUME RoundDown(a) = a, NEW b \in Nat, RoundDown(b) = b, a < b
      PROVE  a + PGSIZE <= b
  BY <1>5, <1>6
<1> QED BY <1>3, <1>4, <1>5, <1>6

\* The range that mm_map rounds to pages, when it is one of user memory.
LEMMA AreaFacts ==
    ASSUME NEW addr \in Nat, NEW len \in Nat, addr + len < Top
    PROVE  LET v == Area(addr, len) IN
           /\ v \in Vma /\ v.start = RoundDown(addr) /\ v.start <= addr
           /\ RoundDown(v.end) = v.end /\ v.start \in Nat /\ v.end \in Nat
           /\ v.start < v.end => addr + len <= v.end
<1> USE VmaAssumption
<1> DEFINE x == addr + len
           y == (x + PGSIZE - 1) % Top
           v == Area(addr, len)
<1>1. x \in Nat /\ x % Top = x
  OBVIOUS
<1>2. y \in Nat
  BY <1>1
<1>3. v.start = RoundDown(addr) /\ v.end = RoundDown(y) /\ v.flags = {}
  BY <1>1 DEF Area, RoundUp
<1>4. /\ RoundDown(addr) \in Nat /\ RoundDown(addr) <= addr
      /\ RoundDown(y) \in Nat /\ RoundDown(y) <= y /\ y < RoundDown(y) + PGSIZE
  BY <1>2, RoundFacts
<1>5. RoundDown(RoundDown(y)) = RoundDown(y)
  BY <1>2, PageStarts
<1>6. v \in Vma
  BY <1>3, <1>4 DEF Area, Vma
<1>7. ASSUME v.start < v.end PROVE x <= v.end
  <2>1. CASE x + PGSIZE - 1 < Top
    <3>1. y = x + PGSIZE - 1
      BY <1>1, <2>1
    <3> QED BY <1>1, <1>3, <1>4, <3>1
  <2>2. CASE ~(x + PGSIZE - 1 < Top)
    <3>1. PGSIZE <= Top
      OBVIOUS
    <3>2. y = x + PGSIZE - 1 - Top
      BY <1>1, <2>2, <3>1
    <3>3. y < PGSIZE
      BY <1>1, <3>2
    <3>4. 0 * PGSIZE = 0 /\ RoundDown(y) = 0 * PGSIZE
      BY <1>2, <3>3, OnPage
    <3> QED BY <1>3, <1>4, <1>7, <3>4
  <2> QED BY <2>1, <2>2
<1> QED BY <1>3, <1>4, <1>5, <1>6, <1>7

----------------------------------------------------------------------------
(***************************************************************************)
(* The steps in front of the program headers, and the error path.          *)
(***************************************************************************)

\* The fields of the program headers, which end below Top.
LEMMA Headers ==
    ASSUME Typed, NEW j \in 1 .. Len(phs)
    PROVE  /\ phs[j].load \in BOOLEAN /\ phs[j].va \in Nat
           /\ phs[j].filesz \in Nat /\ phs[j].memsz \in Nat
           /\ phs[j].va + phs[j].memsz < Top
<1>1. /\ phs \in Seq([load : BOOLEAN, va : Addr, filesz : Nat, memsz : Nat])
      /\ phs[j].va + phs[j].memsz < Top
  BY LoadAssumption DEF Typed
<1>2. phs[j] \in [load : BOOLEAN, va : Addr, filesz : Nat, memsz : Nat]
  BY <1>1, ElementOfSeq, Zenon
<1>3. /\ phs[j].load \in BOOLEAN
      /\ phs[j].filesz \in Nat /\ phs[j].memsz \in Nat
  BY <1>2, Zenon
<1>4. phs[j].va \in Addr
  BY <1>2, Zenon
<1>5. Addr \subseteq Nat
  BY VmaAssumption DEF Addr
<1> QED BY <1>1, <1>3, <1>4, <1>5, Zenon

\* The state in which do_execve is called.
LEMMA InitLInv == Init => LInv
<1> SUFFICES ASSUME Init PROVE LInv
  OBVIOUS
<1>1. phs \in Seq([load : BOOLEAN, va : Addr, filesz : Nat, memsz : Nat])
  BY LoadAssumption DEF Init
<1>2. Len(phs) \in Nat
  BY <1>1
<1>3. Typed
  BY <1>2 DEF Init, Typed, TypeOK, Place
<1>4. NoneYet
  BY DEF Init, NoneYet, Nothing
<1> QED BY <1>3, <1>4 DEF Init, LInv, Building, Position, Loading

\* do_execve, mm_create, setup_pgdir and the test of the magic number.
LEMMA EarlySteps ==
    ASSUME LInv, do_execve \/ Create \/ SetupPgdir \/ CheckMagic
    PROVE  LInv'
<1> USE DEF LInv
<1>l. Len(phs) \in Nat
  BY LoadAssumption DEF Typed
<1>1. pc \in {"execve", "create", "pgdir", "elf"} /\ Nothing /\ k = 1
  BY DEF do_execve, Create, SetupPgdir, CheckMagic, NoneYet
<1>2. k' = k /\ phs' = phs /\ magic' = magic /\ at' = at /\ mem' = mem /\ areas' = <<>>
  BY <1>1 DEF do_execve, Create, SetupPgdir, CheckMagic, Fail, Cleanup, Nothing
<1>3. held' \subseteq {"mm", "pgdir"} /\ old' \in 0 .. 2
  BY DEF do_execve, Create, SetupPgdir, CheckMagic, Fail, Cleanup, Typed, TypeOK
<1>4. /\ pc' \in {"create", "pgdir", "elf", "header", "returned", "do_exit"}
      /\ pc' \in {"create", "do_exit"} => held' = {}
      /\ pc' = "pgdir" => held' = {"mm"}
  BY <1>1 DEF do_execve, Create, SetupPgdir, CheckMagic, Fail, Cleanup, Go, NoneYet, Typed, TypeOK
<1>5. Typed'
  BY <1>2, <1>3, <1>4 DEF Typed, TypeOK, Place
<1>6. NoneYet'
  BY <1>1, <1>2, <1>4 DEF NoneYet, Nothing
<1>7. Placed' = {}
  BY <1>1, <1>2, <1>4, <1>l DEF Placed, Loading
<1>8. Building'
  <2>1. SortedList(areas')
    BY <1>2 DEF SortedList
  <2>2. Covered'
    BY <1>1, <1>2 DEF Covered, Nothing
  <2>3. SegmentsApart' /\ LoadedExact'
    BY <1>7 DEF SegmentsApart, LoadedExact
  <2> QED BY <1>3, <2>1, <2>2, <2>3 DEF Building
<1>9. Position'
  BY <1>4 DEF Position, Loading
<1> QED BY <1>4, <1>5, <1>6, <1>8, <1>9

\* bad_cleanup_mmap: exit_mmap unmaps every page, for all pages are in areas.
LEMMA FailStep ==
    ASSUME LInv, pc \in {"header", "file", "bss"}, NEW code, Fail("mmap", code)
    PROVE  LInv'
<1> USE DEF LInv
<1>1. /\ k' = k /\ phs' = phs /\ magic' = magic /\ at' = at /\ old' = old
      /\ pc' = "do_exit" /\ areas' = <<>> /\ held' = held \ {"mm", "pgdir"}
      /\ mem' = [a \in Addr |-> IF Scan(areas, a) # NULL THEN NULL ELSE mem[a]]
  BY DEF Fail, Cleanup, Go
<1>2. held' = {}
  BY <1>1 DEF Building
<1>3. ASSUME NEW a \in Addr PROVE mem'[a] = NULL
  <2>1. a \in Nat /\ areas \in Seq(Vma)
    BY VmaAssumption DEF Addr, Typed, TypeOK
  <2>2. CASE InArea(a)
    BY <1>1, <2>1, <2>2, ScanFinds DEF InArea
  <2>3. CASE ~InArea(a)
    BY <1>1, <2>3 DEF Building, Covered
  <2> QED BY <2>2, <2>3
<1>4. Typed'
  BY <1>1, <1>2 DEF Typed, TypeOK, Place
<1>5. NoneYet'
  BY <1>1, <1>2, <1>3 DEF NoneYet, Nothing
<1> QED BY <1>1, <1>4, <1>5 DEF Building, Position, Loading

----------------------------------------------------------------------------
(***************************************************************************)
(* The loops over the pages of a segment.                                  *)
(***************************************************************************)

\* The area of the segment being loaded, and the segment in it.
LEMMA CurrentArea ==
    ASSUME LInv, Loading
    PROVE  LET v == AreaOf(k) IN
           /\ k \in 1 .. Len(phs) /\ k \in Placed
           /\ v.start \in Nat /\ v.end \in Nat /\ v.start = RoundDown(Ph.va)
           /\ RoundDown(v.end) = v.end
           /\ v.start <= Ph.va /\ MemEnd <= v.end /\ v.start < v.end
           /\ \E i \in DOMAIN areas : areas[i] = v
           /\ Ph.va \in Nat /\ Ph.filesz \in Nat /\ Ph.memsz \in Nat
           /\ Ph.filesz <= Ph.memsz
           /\ at.start \in Nat /\ at.la \in Nat /\ at.from \in Nat
<1> USE DEF LInv
<1>1. k \in 1 .. Len(phs) /\ Ph.load /\ Ph.filesz <= Ph.memsz
  <2>1. k \in 1 .. Len(phs) + 1 /\ k <= Len(phs) /\ Len(phs) \in Nat
    BY LoadAssumption DEF Position, Typed
  <2> QED BY <2>1 DEF Position
<1>2. /\ Ph.va \in Nat /\ Ph.filesz \in Nat /\ Ph.memsz \in Nat
      /\ Ph.va + Ph.memsz < Top
  BY <1>1, Headers DEF Ph
<1>3. k \in Placed
  BY <1>1 DEF Placed, Ph
<1>4. /\ \E i \in DOMAIN areas : areas[i] = AreaOf(k)
      /\ AreaOf(k).start <= Ph.va /\ MemEnd <= AreaOf(k).end
  BY <1>3 DEF Building, SegmentsApart, Loading, SegEnd, MemEnd, Ph
<1>5. /\ AreaOf(k).start = RoundDown(Ph.va)
      /\ AreaOf(k).start \in Nat /\ AreaOf(k).end \in Nat
      /\ RoundDown(AreaOf(k).end) = AreaOf(k).end
  BY <1>2, AreaFacts DEF AreaOf, Ph
<1>6. AreaOf(k).start < AreaOf(k).end
  BY <1>4 DEF Building, Loading, SortedList
<1> QED BY <1>1, <1>2, <1>3, <1>4, <1>5, <1>6 DEF Typed, TypeOK

\* One iteration of a loop: bytes of the area change, none that was loaded, and
\* those the iteration passes are as the segment wants them.
LEMMA FillStep ==
    ASSUME LInv, Loading, Loading',
           UNCHANGED <<phs, magic, k, areas, held, old>>,
           at' = [start |-> at'.start, la |-> at'.la, from |-> at'.from],
           at'.start \in Nat, at'.la \in Nat, at'.from \in Nat,
           mem' = [a \in Addr |-> mem'[a]],
           \A a \in Addr : ~InVma(AreaOf(k), a) => mem'[a] = mem[a],
           \A a \in Addr : Ph.va <= a /\ a < at.start => mem'[a] = mem[a],
           \A a \in Addr : at.start <= a /\ a < at'.start => mem'[a] = ByteOf(k, a),
           Position'
    PROVE  LInv'
<1> USE DEF LInv
<1>1. Typed'
  BY DEF Typed, TypeOK, Place, Loading
<1>2. NoneYet'
  BY DEF NoneYet, Loading
<1>3. Placed' = Placed /\ (\A j : AreaOf(j)' = AreaOf(j) /\ SegEnd(j)' = SegEnd(j))
  BY DEF Placed, AreaOf, SegEnd
<1>4. SegmentsApart'
  <2>1. SegmentsApart /\ phs' = phs /\ areas' = areas
    BY DEF Building, Loading
  <2> QED BY <1>3, <2>1, Zenon DEF SegmentsApart
<1>5. Covered'
  <2>1. SUFFICES ASSUME NEW a \in Addr, mem'[a] # NULL PROVE InArea(a)
    BY DEF Covered, InArea
  <2>2. CASE InVma(AreaOf(k), a)
    BY <2>2, CurrentArea DEF InArea
  <2>3. CASE ~InVma(AreaOf(k), a)
    BY <2>1, <2>3 DEF Building, Covered, Loading
  <2> QED BY <2>2, <2>3
<1>6. LoadedExact'
  <2>1. SUFFICES ASSUME NEW j \in Placed, NEW a \in Addr, phs[j].va <= a, a < DoneTo(j)'
                 PROVE  mem'[a] = ByteOf(j, a)
    BY <1>3 DEF LoadedExact, ByteOf
  <2>2. j \in 1 .. Len(phs) /\ k \in 1 .. Len(phs) /\ a \in Nat
    BY CurrentArea, VmaAssumption DEF Placed, Addr
  <2>3. CASE j = k
    <3>1. a < at'.start /\ Ph.va <= a
      BY <2>1, <2>3 DEF DoneTo, Ph
    <3>2. CASE a < at.start
      <4>1. mem[a] = ByteOf(k, a)
        BY <2>1, <2>3, <3>2 DEF Building, LoadedExact, Loading, DoneTo
      <4> QED BY <2>3, <3>1, <3>2, <4>1
    <3>3. CASE ~(a < at.start)
      BY <2>2, <2>3, <3>1, <3>3, CurrentArea
    <3> QED BY <3>2, <3>3
  <2>4. CASE j # k
    <3>1. a < DoneTo(j) /\ a < SegEnd(j)
      BY <2>1, <2>4 DEF DoneTo, SegEnd
    <3>2. mem[a] = ByteOf(j, a)
      BY <2>1, <3>1 DEF Building, LoadedExact, Loading
    <3>3. /\ AreaOf(j).start <= phs[j].va /\ SegEnd(j) <= AreaOf(j).end
          /\ AreaOf(j).end <= AreaOf(k).start \/ AreaOf(k).end <= AreaOf(j).start
      BY <2>1, <2>4, CurrentArea DEF Building, SegmentsApart, Loading
    <3>4. /\ phs[j].va \in Nat /\ SegEnd(j) \in Nat /\ phs[j].memsz \in Nat
          /\ phs[j].va + phs[j].memsz < Top
      BY <2>2, Headers DEF SegEnd
    <3>5. /\ AreaOf(j).start \in Nat /\ AreaOf(j).end \in Nat
          /\ AreaOf(k).start \in Nat /\ AreaOf(k).end \in Nat
      BY <3>4, AreaFacts, CurrentArea DEF AreaOf
    <3>6. ~InVma(AreaOf(k), a)
      <4>1. AreaOf(j).start <= a /\ a < AreaOf(j).end
        BY <2>1, <2>2, <3>1, <3>3, <3>4, <3>5
      <4> QED BY <2>2, <3>3, <3>5, <4>1 DEF InVma
    <3> QED BY <3>2, <3>6
  <2> QED BY <2>3, <2>4
<1>7. Building'
  BY <1>4, <1>5, <1>6 DEF Building, Loading
<1> QED BY <1>1, <1>2, <1>7 DEF Loading

\* size in the loops: up to the end of the page or of the part.
LEMMA SizeFacts ==
    ASSUME NEW start \in Nat, NEW la \in Nat, NEW end \in Nat,
           la <= start, start < la + PGSIZE, start < end
    PROVE  /\ Size(start, la, end) \in Nat
           /\ start + Size(start, la, end) = IF end < la + PGSIZE THEN end ELSE la + PGSIZE
  BY VmaAssumption DEF Size

\* While a part is not complete, la is the page of start, within the area.
LEMMA Window ==
    ASSUME LInv, Loading, at.start < IF pc = "file" THEN FileEnd ELSE MemEnd
    PROVE  /\ RoundDown(Ph.va) <= at.la /\ RoundDown(at.la) = at.la
           /\ at.la <= at.start /\ at.start < at.la + PGSIZE
           /\ at.start = Ph.va \/ at.start = at.la
<1>1. /\ Ph.va \in Nat /\ Ph.filesz \in Nat /\ Ph.memsz \in Nat /\ Ph.filesz <= Ph.memsz
      /\ at.start \in Nat /\ at.la \in Nat
  BY CurrentArea
<1>2. FileEnd \in Nat /\ MemEnd \in Nat
  BY <1>1 DEF FileEnd, MemEnd
<1>3. /\ RoundDown(at.la) = at.la
      /\ \/ at.start = Ph.va /\ at.la = RoundDown(Ph.va)
         \/ RoundDown(Ph.va) < at.la /\ at.start = at.la
  BY <1>1, <1>2 DEF LInv, Position
<1>4. /\ RoundDown(Ph.va) <= Ph.va /\ Ph.va < RoundDown(Ph.va) + PGSIZE
      /\ RoundDown(Ph.va) \in Nat
  BY <1>1, RoundFacts
<1>5. PGSIZE \in Nat /\ PGSIZE > 0
  BY VmaAssumption
<1> QED BY <1>1, <1>3, <1>4, <1>5

\* A page that is allocated and filled from start on, in either loop.
LEMMA PageStep ==
    ASSUME LInv, Loading, pc' = pc, NEW end, NEW n, NEW fill,
           end = IF pc = "file" THEN FileEnd ELSE MemEnd,
           at.start < end, n = Size(at.start, at.la, end),
           PageFilled(n, fill), Advance(n),
           \A a \in Addr : at.start <= a /\ a < at.start + n => fill[a] = ByteOf(k, a),
           UNCHANGED <<phs, magic, k, areas, held, old>>
    PROVE  LInv'
<1> USE VmaAssumption
<1> DEFINE v == AreaOf(k)
<1>1. /\ v.start \in Nat /\ v.end \in Nat /\ v.start = RoundDown(Ph.va)
      /\ RoundDown(v.end) = v.end /\ v.start <= Ph.va /\ MemEnd <= v.end /\ v.start < v.end
      /\ Ph.va \in Nat /\ Ph.filesz \in Nat /\ Ph.memsz \in Nat /\ Ph.filesz <= Ph.memsz
      /\ at.start \in Nat /\ at.la \in Nat /\ at.from \in Nat
  BY CurrentArea
<1>2. end \in Nat /\ end <= MemEnd /\ MemEnd \in Nat /\ FileEnd \in Nat
  BY <1>1 DEF MemEnd, FileEnd
<1>3. /\ v.start <= at.la /\ RoundDown(at.la) = at.la
      /\ at.la <= at.start /\ at.start < at.la + PGSIZE
      /\ at.start = Ph.va \/ at.start = at.la
  BY <1>1, Window
<1>4. Ph.va <= at.start
  BY DEF LInv, Position
<1>5. at.la + PGSIZE <= v.end /\ RoundDown(at.la + PGSIZE) = at.la + PGSIZE
  <2>1. at.la < v.end
    BY <1>1, <1>2, <1>3, <1>4
  <2> QED BY <1>1, <1>3, <2>1, PageStarts
<1>6. n \in Nat /\ at.start + n = IF end < at.la + PGSIZE THEN end ELSE at.la + PGSIZE
  BY <1>1, <1>2, <1>3, SizeFacts
<1>7. at' = [start |-> at.start + n, la |-> at.la + PGSIZE, from |-> at.from + n]
  BY DEF Advance
<1>8. \A a \in PageOf(at.la) : at.la <= a /\ a < at.la + PGSIZE
  <2>1. SUFFICES ASSUME NEW a \in Addr, RoundDown(a) = RoundDown(at.la)
                 PROVE  at.la <= a /\ a < at.la + PGSIZE
    BY DEF PageOf
  <2>2. a \in Nat
    BY DEF Addr
  <2> QED BY <1>1, <1>3, <2>1, <2>2, PageStarts
<1>9. /\ mem' = [a \in Addr |-> mem'[a]]
      /\ \A a \in Addr : at.start <= a /\ a < at.start + n => mem'[a] = ByteOf(k, a)
  BY DEF PageFilled
<1>10. ASSUME NEW a \in Addr, ~(at.start <= a /\ a < at.start + n), a \notin PageOf(at.la)
       PROVE  mem'[a] = mem[a]
  BY <1>10 DEF PageFilled
<1>11. \A a \in Addr : ~InVma(v, a) => mem'[a] = mem[a]
  <2>1. SUFFICES ASSUME NEW a \in Addr, ~InVma(v, a) PROVE mem'[a] = mem[a]
    OBVIOUS
  <2>2. a \in Nat
    BY DEF Addr
  <2>3. ~(at.la <= a /\ a < at.la + PGSIZE)
    BY <1>1, <1>3, <1>5, <2>1, <2>2 DEF InVma
  <2>4. ~(at.start <= a /\ a < at.start + n)
    BY <1>1, <1>2, <1>3, <1>4, <1>6, <2>2, <2>3
  <2> QED BY <1>8, <1>10, <2>3, <2>4
<1>12. \A a \in Addr : Ph.va <= a /\ a < at.start => mem'[a] = mem[a]
  <2>1. SUFFICES ASSUME NEW a \in Addr, Ph.va <= a, a < at.start PROVE mem'[a] = mem[a]
    OBVIOUS
  <2>2. a \in Nat
    BY DEF Addr
  <2>3. a < at.la
    BY <1>1, <1>3, <2>1, <2>2
  <2> QED BY <1>1, <1>8, <1>10, <2>1, <2>2, <2>3
<1>13. Position'
  <2>1. Ph' = Ph /\ FileEnd' = FileEnd /\ MemEnd' = MemEnd /\ AreaOf(k)' = v
    BY DEF Ph, FileEnd, MemEnd, AreaOf
  <2>2. /\ at'.start = at.start + n /\ at'.la = at.la + PGSIZE
        /\ at'.from = at.from + n
    BY <1>7
  <2>3. at.start + n \in Nat /\ at.start + n <= end /\ at.start < at.start + n
    BY <1>1, <1>2, <1>3, <1>4, <1>6
  <2>4. /\ RoundDown(Ph.va) < at.la + PGSIZE /\ at.la + PGSIZE <= v.end
        /\ at.start + n <= at.la + PGSIZE /\ at.la + PGSIZE < at.start + n + PGSIZE
        /\ at.start + n = at.la + PGSIZE \/ at.start + n = end
    BY <1>1, <1>2, <1>3, <1>4, <1>5, <1>6, <2>3
  <2>5. /\ k <= Len(phs) /\ Ph.load
        /\ pc = "file" => at.from = at.start - Ph.va
        /\ pc = "bss" => at.start >= FileEnd
    BY DEF LInv, Position
  <2>6. /\ Ph.va <= at'.start /\ at'.start <= MemEnd /\ RoundDown(at'.la) = at'.la
    BY <1>1, <1>2, <1>3, <1>4, <1>5, <2>2, <2>3
  <2>7. pc' = "file" => at'.start <= FileEnd /\ at'.from = at'.start - Ph.va
    BY <1>1, <1>2, <1>6, <2>2, <2>3, <2>5
  <2>8. pc' = "bss" => at'.start >= FileEnd
    BY <1>1, <1>2, <1>6, <2>2, <2>3, <2>5
  <2>9. /\ RoundDown(Ph.va) < at'.la /\ at'.la <= v.end
        /\ at'.start <= at'.la /\ at'.la < at'.start + PGSIZE
        /\ at'.start = at'.la \/ at'.start = (IF pc' = "file" THEN FileEnd ELSE MemEnd)
    BY <2>2, <2>4
  <2> HIDE DEF v
  <2> QED BY <1>1, <2>1, <2>5, <2>6, <2>7, <2>8, <2>9 DEF Position
<1>14. Loading' /\ at'.start \in Nat /\ at'.la \in Nat /\ at'.from \in Nat
  BY <1>1, <1>6, <1>7 DEF Loading
<1>15. \A a \in Addr : at.start <= a /\ a < at'.start => mem'[a] = ByteOf(k, a)
  BY <1>7, <1>9
<1> QED BY <1>7, <1>9, <1>11, <1>12, <1>13, <1>14, <1>15, FillStep

\* The partial page in front of the bss: the assertion behind it holds.
LEMMA HeadStep ==
    ASSUME LInv, pc = "file", at.start >= FileEnd, at.start < at.la, at.start # MemEnd,
           NEW n, n = RestOfPage(at.start + PGSIZE - at.la), Zeroed(n),
           at' = [start |-> at.start + n, la |-> at.la, from |-> at.from],
           pc' = (IF TailAsserts(at.start + n, MemEnd) THEN "bss" ELSE "bad_tail"),
           UNCHANGED <<phs, magic, k, areas, held, old>>
    PROVE  LInv'
<1> DEFINE v == AreaOf(k)
<1>0. Loading
  BY DEF Loading
<1>p. PGSIZE \in Nat /\ PGSIZE > 0
  BY VmaAssumption
<1>1. /\ v.start \in Nat /\ v.end \in Nat /\ v.start = RoundDown(Ph.va)
      /\ v.start <= Ph.va /\ MemEnd <= v.end
      /\ Ph.va \in Nat /\ Ph.filesz \in Nat /\ Ph.memsz \in Nat /\ Ph.filesz <= Ph.memsz
      /\ at.start \in Nat /\ at.la \in Nat /\ at.from \in Nat
  BY <1>0, CurrentArea
<1>2. MemEnd \in Nat /\ FileEnd \in Nat /\ RoundDown(Ph.va) <= Ph.va
  <2>1. MemEnd \in Nat /\ FileEnd \in Nat
    BY <1>1 DEF MemEnd, FileEnd
  <2> QED BY <1>1, <2>1, RoundFacts
<1> HIDE DEF v
<1>3. /\ k <= Len(phs) /\ Ph.load /\ RoundDown(at.la) = at.la
      /\ Ph.va <= at.start /\ at.start < MemEnd
      /\ RoundDown(Ph.va) < at.la /\ at.la <= v.end /\ at.la < at.start + PGSIZE
  BY <1>0, <1>1, <1>2 DEF LInv, Position, v
<1>4. /\ n \in Nat
      /\ at.start + n = IF MemEnd < at.la THEN MemEnd ELSE at.la
  <2>1. n = IF MemEnd < at.la THEN PGSIZE - (at.start + PGSIZE - at.la) - (at.la - MemEnd)
            ELSE PGSIZE - (at.start + PGSIZE - at.la)
    BY DEF RestOfPage
  <2>2. at.start < at.la /\ at.start < MemEnd
    BY <1>3
  <2>3. CASE MemEnd < at.la
    <3>1. n = MemEnd - at.start
      BY <1>p, <1>1, <1>2, <2>1, <2>3
    <3> QED BY <1>1, <1>2, <2>2, <2>3, <3>1
  <2>4. CASE ~(MemEnd < at.la)
    <3>1. n = at.la - at.start
      BY <1>p, <1>1, <1>2, <2>1, <2>4
    <3> QED BY <1>1, <1>2, <2>2, <2>4, <3>1
  <2> QED BY <2>3, <2>4
<1>5. pc' = "bss"
  BY <1>1, <1>2, <1>4 DEF TailAsserts
<1>6. at' = [start |-> at.start + n, la |-> at.la, from |-> at.from]
  OBVIOUS
<1>7. /\ mem' = [a \in Addr |-> mem'[a]]
      /\ \A a \in Addr : at.start <= a /\ a < at.start + n => mem'[a] = Zero
      /\ \A a \in Addr : ~(at.start <= a /\ a < at.start + n) => mem'[a] = mem[a]
  BY DEF Zeroed
<1>8. \A a \in Addr : a \in Nat
  BY VmaAssumption DEF Addr
<1>9. \A a \in Addr : ~InVma(v, a) => mem'[a] = mem[a]
  <2>1. SUFFICES ASSUME NEW a \in Addr, ~InVma(v, a) PROVE mem'[a] = mem[a]
    OBVIOUS
  <2>2. ~(at.start <= a /\ a < at.start + n)
    BY <1>1, <1>2, <1>3, <1>4, <1>8, <2>1 DEF InVma
  <2> QED BY <1>7, <2>2
<1>10. \A a \in Addr : Ph.va <= a /\ a < at.start => mem'[a] = mem[a]
  BY <1>1, <1>7, <1>8
<1>11. \A a \in Addr : at.start <= a /\ a < at.start + n => mem'[a] = ByteOf(k, a)
  <2>1. SUFFICES ASSUME NEW a \in Addr, at.start <= a, a < at.start + n
                 PROVE  ByteOf(k, a) = Zero
    BY <1>7
  <2>2. ~(a - Ph.va < Ph.filesz)
    BY <1>1, <1>2, <1>8, <2>1 DEF FileEnd
  <2> QED BY <2>2 DEF ByteOf, Ph
<1>12. Position'
  <2>1. Ph' = Ph /\ FileEnd' = FileEnd /\ MemEnd' = MemEnd /\ AreaOf(k)' = v
    BY DEF Ph, FileEnd, MemEnd, AreaOf, v
  <2>2. at'.start = at.start + n /\ at'.la = at.la
    BY <1>6
  <2>3. /\ Ph.va <= at'.start /\ at'.start <= MemEnd /\ at'.start >= FileEnd
        /\ at'.start <= at.la /\ at.la < at'.start + PGSIZE
        /\ at'.start = at.la \/ at'.start = MemEnd
    <3>1. at.start + n = MemEnd \/ at.start + n = at.la
      BY <1>4
    <3>2. at.start + n <= MemEnd /\ at.start + n <= at.la /\ at.start <= at.start + n
      BY <1>1, <1>2, <1>4
    <3>3. at.start + n >= FileEnd /\ Ph.va <= at.start + n /\ at.la < at.start + n + PGSIZE
      <4>1. at.start + n >= FileEnd
        BY <1>1, <1>2, <1>4, <3>2
      <4>2. Ph.va <= at.start + n
        BY <1>1, <1>3, <1>4, <3>2
      <4>3. at.la < at.start + n + PGSIZE
        BY <1>p, <1>1, <1>3, <1>4
      <4> QED BY <4>1, <4>2, <4>3
    <3> QED BY <2>2, <3>1, <3>2, <3>3
  <2> QED BY <1>1, <1>3, <1>5, <2>1, <2>2, <2>3 DEF Position
<1> QED BY <1>0, <1>1, <1>4, <1>5, <1>6, <1>7, <1>9, <1>10, <1>11, <1>12, FillStep DEF Loading, v

\* From the file part to the bss, when no page is left partly filled.
LEMMA ToBssStep ==
    ASSUME LInv, pc = "file", at.start >= FileEnd, at.start >= at.la, pc' = "bss",
           UNCHANGED <<phs, magic, k, at, areas, mem, held, old>>
    PROVE  LInv'
<1>0. Loading /\ Loading'
  BY DEF Loading
<1>1. /\ at.start \in Nat /\ at.la \in Nat /\ at.from \in Nat
      /\ at = [start |-> at.start, la |-> at.la, from |-> at.from]
      /\ mem = [a \in Addr |-> mem[a]]
  BY DEF LInv, Typed, TypeOK
<1>2. Ph' = Ph /\ FileEnd' = FileEnd /\ MemEnd' = MemEnd /\ AreaOf(k)' = AreaOf(k)
  BY DEF Ph, FileEnd, MemEnd, AreaOf
<1>3. Position'
  <2>1. /\ k <= Len(phs) /\ Ph.load /\ Ph.filesz <= Ph.memsz
        /\ Ph.va <= at.start /\ at.start <= MemEnd /\ RoundDown(at.la) = at.la
    BY <1>0 DEF LInv, Position
  <2>2. \/ at.start = Ph.va /\ at.la = RoundDown(Ph.va)
        \/ /\ RoundDown(Ph.va) < at.la /\ at.la <= AreaOf(k).end
           /\ at.start <= at.la /\ at.la < at.start + PGSIZE /\ at.start = at.la
    BY <1>0, <1>1 DEF LInv, Position
  <2> QED BY <1>2, <2>1, <2>2 DEF Position
<1>4. \A a \in Addr : at.start <= a /\ a < at.start => mem[a] = ByteOf(k, a)
  BY <1>1, VmaAssumption DEF Addr
<1> QED BY <1>0, <1>1, <1>3, <1>4, FillStep

\* The segment is complete.
LEMMA NextHeaderStep ==
    ASSUME LInv, Loading, at.start >= MemEnd, NextHeader,
           UNCHANGED <<phs, magic, at, areas, mem, held, old>>
    PROVE  LInv'
<1> USE DEF LInv
<1>1. /\ k \in 1 .. Len(phs) /\ at.start \in Nat
      /\ Ph.va \in Nat /\ Ph.memsz \in Nat
  BY CurrentArea
<1>2. at.start = SegEnd(k)
  BY <1>1 DEF Position, MemEnd, SegEnd, Ph
<1>3. k' = k + 1 /\ pc' = "header"
  BY DEF NextHeader, Go
<1>4. Placed' = Placed
  BY <1>1, <1>3 DEF Placed, Position, Loading, Ph
<1>5. /\ \A j : AreaOf(j)' = AreaOf(j) /\ SegEnd(j)' = SegEnd(j)
      /\ \A j \in Placed : DoneTo(j)' = DoneTo(j)
  BY <1>1, <1>2, <1>3 DEF AreaOf, SegEnd, DoneTo, Placed
<1>6. Typed'
  <2>1. k + 1 \in 1 .. Len(phs) + 1
    BY <1>1
  <2> QED BY <1>3, <2>1 DEF Typed, TypeOK, Place
<1>7. SegmentsApart' /\ LoadedExact'
  <2>1. SegmentsApart /\ LoadedExact
    BY DEF Building, Loading
  <2>2. SegmentsApart'
    BY <1>4, <1>5, <2>1, Zenon DEF SegmentsApart
  <2>3. LoadedExact'
    BY <1>4, <1>5, <2>1 DEF LoadedExact, ByteOf
  <2> QED BY <2>2, <2>3
<1>8. Building'
  BY <1>3, <1>7 DEF Building, Loading, Covered, InArea
<1> QED BY <1>3, <1>6, <1>8 DEF NoneYet, Position, Loading

\* The steps in the two loops.
LEMMA LoopSteps ==
    ASSUME LInv, CopyPage \/ BssHead \/ BssPage \/ BssEnd
    PROVE  LInv'
<1> USE VmaAssumption
<1>c. \A a \in Addr : a \in Nat
  BY DEF Addr
<1>1. CASE CopyPage
  <2>1. Loading /\ pc = "file" /\ at.start < FileEnd
    BY <1>1 DEF CopyPage, Loading
  <2>2. CASE Fail("mmap", "E_NO_MEM")
    BY <2>1, <2>2, FailStep
  <2>3. CASE ~Fail("mmap", "E_NO_MEM")
    <3> DEFINE n == Size(at.start, at.la, FileEnd)
               fill == [a \in Addr |-> FileByte(a)]
    <3>1. /\ PageFilled(n, fill) /\ Advance(n) /\ pc' = pc
          /\ UNCHANGED <<phs, magic, k, areas, held, old>>
      BY <1>1, <2>3 DEF CopyPage
    <3>2. /\ at.start \in Nat /\ at.la \in Nat /\ at.from \in Nat
          /\ Ph.va \in Nat /\ Ph.filesz \in Nat
          /\ Ph.va <= at.start /\ at.from = at.start - Ph.va
      BY <2>1, CurrentArea DEF LInv, Position
    <3>3. /\ at.la <= at.start /\ at.start < at.la + PGSIZE
      BY <2>1, Window
    <3>4. FileEnd \in Nat /\ n \in Nat /\ at.start + n <= FileEnd
      <4>1. FileEnd \in Nat
        BY <3>2 DEF FileEnd
      <4>2. n \in Nat /\ at.start + n = IF FileEnd < at.la + PGSIZE THEN FileEnd ELSE at.la + PGSIZE
        BY <2>1, <3>2, <3>3, <4>1, SizeFacts
      <4> QED BY <3>2, <4>1, <4>2
    <3>5. ASSUME NEW a \in Addr, at.start <= a, a < at.start + n
          PROVE  fill[a] = ByteOf(k, a)
      <4>1. at.from + (a - at.start) = a - Ph.va /\ a - Ph.va < Ph.filesz
        BY <1>c, <3>2, <3>4, <3>5 DEF FileEnd
      <4> QED BY <4>1 DEF FileByte, ByteOf, Ph
    <3> HIDE DEF n, fill
    <3>6. n = Size(at.start, at.la, FileEnd)
      BY DEF n
    <3> QED BY <2>1, <3>1, <3>5, <3>6, PageStep
  <2> QED BY <2>2, <2>3
<1>2. CASE BssHead
  <2>1. Loading /\ pc = "file" /\ at.start >= FileEnd
    BY <1>2 DEF BssHead, Loading
  <2>2. CASE at.start >= at.la /\ pc' = "bss" /\ UNCHANGED <<phs, magic, k, at, areas, mem, held, old>>
    BY <2>1, <2>2, ToBssStep
  <2>3. CASE at.start = MemEnd /\ NextHeader /\ UNCHANGED <<phs, magic, at, areas, mem, held, old>>
    <3>1. at.start >= MemEnd
      BY <2>1, <2>3, CurrentArea
    <3> QED BY <2>1, <2>3, <3>1, NextHeaderStep
  <2>4. CASE at.start < at.la /\ at.start # MemEnd /\ pc' # "header"
    <3> DEFINE n == RestOfPage(at.start + PGSIZE - at.la)
    <3>1. /\ Zeroed(n) /\ at' = [at EXCEPT !.start = @ + n]
          /\ pc' = (IF TailAsserts(at.start + n, MemEnd) THEN "bss" ELSE "bad_tail")
          /\ UNCHANGED <<phs, magic, k, areas, held, old>>
      BY <1>2, <2>1, <2>4, CurrentArea DEF BssHead, Go
    <3>2. at = [start |-> at.start, la |-> at.la, from |-> at.from]
      BY DEF LInv, Typed
    <3>3. at' = [start |-> at.start + n, la |-> at.la, from |-> at.from]
      BY <3>1, <3>2
    <3> QED BY <2>1, <2>4, <3>1, <3>3, HeadStep
  <2> QED BY <1>2, <2>1, <2>2, <2>3, <2>4 DEF BssHead, NextHeader, Go, TailAsserts
<1>3. CASE BssPage
  <2>1. Loading /\ pc = "bss" /\ at.start < MemEnd
    BY <1>3 DEF BssPage, Loading
  <2>2. CASE Fail("mmap", "E_NO_MEM")
    BY <2>1, <2>2, FailStep
  <2>3. CASE ~Fail("mmap", "E_NO_MEM")
    <3> DEFINE n == Size(at.start, at.la, MemEnd)
               fill == [a \in Addr |-> Zero]
    <3>1. /\ PageFilled(n, fill) /\ Advance(n) /\ pc' = pc
          /\ UNCHANGED <<phs, magic, k, areas, held, old>>
      BY <1>3, <2>3 DEF BssPage
    <3>2. /\ at.start \in Nat /\ Ph.va \in Nat /\ Ph.filesz \in Nat
          /\ at.start >= FileEnd
      BY <2>1, CurrentArea DEF LInv, Position
    <3>5. ASSUME NEW a \in Addr, at.start <= a, a < at.start + n
          PROVE  fill[a] = ByteOf(k, a)
      <4>1. ~(a - Ph.va < Ph.filesz)
        BY <1>c, <3>2, <3>5 DEF FileEnd
      <4> QED BY <4>1 DEF ByteOf, Ph
    <3> HIDE DEF n, fill
    <3>6. n = Size(at.start, at.la, MemEnd)
      BY DEF n
    <3> QED BY <2>1, <3>1, <3>5, <3>6, PageStep
  <2> QED BY <2>2, <2>3
<1>4. CASE BssEnd
  BY <1>4, NextHeaderStep DEF BssEnd, Loading
<1> QED BY <1>1, <1>2, <1>3, <1>4

----------------------------------------------------------------------------
(***************************************************************************)
(* mm_map for a segment and for the stack.                                 *)
(***************************************************************************)

\* An area that insert_vma_struct takes joins those that are there, apart from them.
LEMMA AddArea ==
    ASSUME areas \in Seq(Vma), SortedList(areas), NEW v \in Vma,
           InsertAsserts(areas, v), areas' = Inserted(areas, v)
    PROVE  /\ areas' \in Seq(Vma) /\ SortedList(areas')
           /\ \E i \in DOMAIN areas' : areas'[i] = v
           /\ \A w : (\E i \in DOMAIN areas : areas[i] = w) =>
                 /\ \E i \in DOMAIN areas' : areas'[i] = w
                 /\ w.end <= v.start \/ v.end <= w.start
           /\ \A a : InArea(a) => InArea(a)'
<1>1. areas' \in Seq(Vma)
  BY InsertedFacts
<1>2. SortedList(areas') /\ \A i \in DOMAIN areas : areas[i].end <= v.start \/ v.end <= areas[i].start
  BY InsertedSorted
<1>3. /\ \A i \in DOMAIN areas : \E j \in DOMAIN areas' : areas'[j] = areas[i]
      /\ \E j \in DOMAIN areas' : areas'[j] = v
  BY InsertedSet
<1>4. ASSUME NEW a, InArea(a) PROVE InArea(a)'
  BY <1>3, <1>4 DEF InArea
<1> QED BY <1>1, <1>2, <1>3, <1>4

\* The next program header.
LEMMA HeaderStep == ASSUME LInv, Header PROVE LInv'
<1> USE DEF LInv
<1> DEFINE v == AreaOf(k)
<1>1. pc = "header" /\ k <= Len(phs)
  BY DEF Header
<1>2. k \in 1 .. Len(phs) /\ Len(phs) \in Nat
  BY <1>1, LoadAssumption DEF Typed
<1>3. /\ Ph.va \in Nat /\ Ph.filesz \in Nat /\ Ph.memsz \in Nat
      /\ Ph.va + Ph.memsz < Top
  BY <1>2, Headers DEF Ph
<1>4. SortedList(areas) /\ Covered /\ SegmentsApart /\ LoadedExact /\ held \subseteq {"mm", "pgdir"}
  BY <1>1 DEF Building
<1>5. Placed = {j \in 1 .. Len(phs) : phs[j].load /\ j < k}
  BY <1>1 DEF Placed, Loading
<1>6. CASE ~Ph.load /\ k' = k + 1 /\ UNCHANGED <<phs, magic, at, areas, mem, held, old, ret, pc>>
  <2>1. Typed'
    BY <1>2, <1>6 DEF Typed, TypeOK
  <2>2. Placed' = Placed
    BY <1>1, <1>2, <1>5, <1>6 DEF Placed, Loading, Ph
  <2>3. /\ \A j : AreaOf(j)' = AreaOf(j) /\ SegEnd(j)' = SegEnd(j)
        /\ \A j \in Placed : DoneTo(j)' = DoneTo(j)
    BY <1>2, <1>5, <1>6 DEF AreaOf, SegEnd, DoneTo
  <2>4. SegmentsApart'
    BY <1>4, <1>6, <2>2, <2>3, Zenon DEF SegmentsApart
  <2>5. LoadedExact'
    BY <1>4, <1>6, <2>2, <2>3 DEF LoadedExact, ByteOf
  <2> QED BY <1>1, <1>4, <1>6, <2>1, <2>4, <2>5 DEF Building, Covered, InArea, NoneYet, Position, Loading
<1>7. CASE \E code : Fail("mmap", code)
  BY <1>1, <1>7, FailStep
<1>8. CASE Panic
  <2>1. pc' = "panic" /\ UNCHANGED <<phs, magic, k, at, areas, mem, held, old, ret>>
    BY <1>8 DEF Panic, Go
  <2>2. Typed'
    BY <2>1 DEF Typed, TypeOK, Place
  <2> QED BY <2>1, <2>2 DEF Building, NoneYet, Position, Loading
<1>9. CASE /\ Ph.load /\ Ph.filesz <= Ph.memsz /\ MapDone(v)
           /\ at' = [start |-> Ph.va, la |-> RoundDown(Ph.va), from |-> 0]
           /\ Go("file")
           /\ UNCHANGED <<phs, magic, k, mem, held, old, ret>>
  <2>1. UserAccess(v.start, v.end) /\ InsertAsserts(areas, v) /\ areas' = Inserted(areas, v)
    BY <1>9 DEF MapDone, MapFails
  <2>2. v.start < v.end
    BY <2>1 DEF UserAccess
  <2>3. /\ v \in Vma /\ v.start = RoundDown(Ph.va) /\ v.start <= Ph.va
        /\ RoundDown(v.end) = v.end /\ v.start \in Nat /\ v.end \in Nat
        /\ Ph.va + Ph.memsz <= v.end
    BY <1>3, <2>2, AreaFacts DEF AreaOf, Ph
  <2> HIDE DEF v
  <2>4. /\ areas' \in Seq(Vma) /\ SortedList(areas')
        /\ \E i \in DOMAIN areas' : areas'[i] = v
        /\ \A w : (\E i \in DOMAIN areas : areas[i] = w) =>
              /\ \E i \in DOMAIN areas' : areas'[i] = w
              /\ w.end <= v.start \/ v.end <= w.start
        /\ \A a : InArea(a) => InArea(a)'
    BY <1>4, <2>1, <2>3, AddArea DEF Typed, TypeOK
  <2>5. pc' = "file"
    BY <1>9 DEF Go
  <2>6. Placed' = Placed \cup {k}
    BY <1>2, <1>5, <1>9, <2>5 DEF Placed, Loading, Ph
  <2>7. /\ \A j : AreaOf(j)' = AreaOf(j) /\ SegEnd(j)' = SegEnd(j)
        /\ \A j \in Placed : j # k /\ DoneTo(j)' = DoneTo(j)
        /\ DoneTo(k)' = Ph.va
        /\ AreaOf(k) = v /\ SegEnd(k) = Ph.va + Ph.memsz
    BY <1>2, <1>5, <1>9 DEF AreaOf, SegEnd, DoneTo, v, Ph
  <2>8. Typed'
    BY <1>3, <1>9, <2>3, <2>4, <2>5 DEF Typed, TypeOK, Place
  <2>9. Covered'
    BY <1>4, <1>9, <2>4 DEF Covered
  <2>10. SegmentsApart'
    <3>1. ASSUME NEW j \in Placed'
          PROVE  /\ \E i \in DOMAIN areas' : areas'[i] = AreaOf(j)
                 /\ AreaOf(j).start <= phs[j].va /\ SegEnd(j) <= AreaOf(j).end
      <4>1. CASE j = k
        BY <2>3, <2>4, <2>7, <4>1 DEF Ph
      <4>2. CASE j \in Placed
        BY <1>4, <2>4, <4>2 DEF SegmentsApart
      <4> QED BY <2>6, <4>1, <4>2
    <3>2. ASSUME NEW j \in Placed
          PROVE  AreaOf(j).end <= v.start \/ v.end <= AreaOf(j).start
      BY <1>4, <2>4 DEF SegmentsApart
    <3>3. ASSUME NEW i \in Placed', NEW j \in Placed', i # j
          PROVE  AreaOf(i).end <= AreaOf(j).start \/ AreaOf(j).end <= AreaOf(i).start
      <4>1. CASE i \in Placed /\ j \in Placed
        BY <1>4, <3>3, <4>1 DEF SegmentsApart
      <4>2. CASE i = k /\ j \in Placed
        BY <2>7, <3>2, <4>2
      <4>3. CASE i \in Placed /\ j = k
        BY <2>7, <3>2, <4>3
      <4> QED BY <2>6, <3>3, <4>1, <4>2, <4>3
    <3> QED BY <1>9, <2>7, <3>1, <3>3, Zenon DEF SegmentsApart
  <2>11. LoadedExact'
    <3>1. SUFFICES ASSUME NEW j \in Placed', NEW a \in Addr, phs[j].va <= a, a < DoneTo(j)'
                   PROVE  mem[a] = ByteOf(j, a)
      BY <1>9 DEF LoadedExact, ByteOf
    <3>2. a \in Nat
      BY VmaAssumption DEF Addr
    <3>3. j # k
      <4>1. SUFFICES ASSUME j = k PROVE FALSE
        OBVIOUS
      <4>2. DoneTo(j)' = Ph.va
        BY <1>9, <4>1 DEF DoneTo
      <4>3. Ph.va <= a /\ a < Ph.va
        BY <3>1, <4>1, <4>2 DEF Ph
      <4> QED BY <1>3, <3>2, <4>3
    <3>4. j \in Placed /\ a < DoneTo(j)
      BY <2>6, <2>7, <3>1, <3>3
    <3> QED BY <1>4, <3>1, <3>4 DEF LoadedExact
  <2>12. Position'
    <3>1. Ph' = Ph /\ FileEnd' = FileEnd /\ MemEnd' = MemEnd
      BY <1>9 DEF Ph, FileEnd, MemEnd
    <3>2. at'.start = Ph.va /\ at'.la = RoundDown(Ph.va) /\ at'.from = 0
      BY <1>9
    <3>3. /\ RoundDown(RoundDown(Ph.va)) = RoundDown(Ph.va)
          /\ Ph.va <= FileEnd /\ Ph.va <= MemEnd /\ Ph.va <= Ph.va
          /\ 0 = Ph.va - Ph.va
      BY <1>3, PageStarts DEF FileEnd, MemEnd
    <3> QED BY <1>1, <1>9, <2>5, <3>1, <3>2, <3>3 DEF Position
  <2> QED BY <1>4, <1>9, <2>4, <2>5, <2>8, <2>9, <2>10, <2>11, <2>12 DEF Building, NoneYet, Loading
<1> QED BY <1>6, <1>7, <1>8, <1>9 DEF Header, AreaOf, Ph

\* ROUNDDOWN goes down also below 0, where no address is.
LEMMA RoundBelow ==
    ASSUME NEW a \in Int
    PROVE  RoundDown(a) \in Int /\ RoundDown(a) <= a
<1> USE VmaAssumption
<1> DEFINE d == a \div PGSIZE
<1>1. d \in Int /\ d * PGSIZE <= a
  OBVIOUS
<1> HIDE DEF d
<1>2. RoundDown(a) = d * PGSIZE
  BY DEF RoundDown, d
<1> QED BY <1>1, <1>2

\* The area of the stack is one of user memory that has its upper pages.
LEMMA StackArea ==
    LET addr == USERTOP - STACKPAGES * PGSIZE
        v == Area(addr, STACKPAGES * PGSIZE)
    IN  UserAccess(v.start, v.end) =>
            /\ v \in Vma /\ v.start \in Nat /\ v.end \in Nat
            /\ v.start <= USERTOP - STACKMAPPED * PGSIZE /\ USERTOP <= v.end
<1> DEFINE len == STACKPAGES * PGSIZE
           mapped == STACKMAPPED * PGSIZE
           addr == USERTOP - len
           v == Area(addr, len)
<1>1. PGSIZE \in Nat /\ USERTOP \in Nat /\ USERBASE \in Nat /\ 0 < USERBASE /\ USERTOP < Top /\ Top \in Nat
  BY VmaAssumption
<1>2. STACKPAGES \in Nat /\ STACKMAPPED \in Nat /\ STACKMAPPED <= STACKPAGES
  BY LoadAssumption
<1>3. len \in Nat /\ mapped \in Nat /\ mapped <= len
  BY <1>1, <1>2
<1> SUFFICES ASSUME UserAccess(v.start, v.end)
             PROVE  /\ v \in Vma /\ v.start \in Nat /\ v.end \in Nat
                    /\ v.start <= USERTOP - mapped /\ USERTOP <= v.end
  OBVIOUS
<1> HIDE DEF len, mapped
<1>4. addr \in Int
  BY <1>1, <1>3
<1>5. v.start = RoundDown(addr)
  BY DEF Area
<1>6. v.start \in Int /\ v.start <= addr
  BY <1>4, <1>5, RoundBelow
<1>7. USERBASE <= v.start /\ v.start < v.end
  BY DEF UserAccess
<1> HIDE DEF v
<1>8. addr \in Nat /\ addr + len = USERTOP
  BY <1>1, <1>3, <1>6, <1>7
<1>9. /\ v \in Vma /\ v.start \in Nat /\ v.end \in Nat
      /\ addr + len <= v.end
  BY <1>1, <1>3, <1>7, <1>8, AreaFacts DEF v
<1> QED BY <1>1, <1>3, <1>6, <1>8, <1>9

\* The user stack: its pages are in an area of their own.
LEMMA StackStep == ASSUME LInv, Stack PROVE LInv'
<1> USE DEF LInv
<1> DEFINE v == Area(USERTOP - STACKPAGES * PGSIZE, STACKPAGES * PGSIZE)
<1>1. pc = "header" /\ k > Len(phs)
  BY DEF Stack
<1>2. SortedList(areas) /\ SegmentsApart /\ LoadedExact
  BY <1>1 DEF Building
<1>3. CASE \E code : Fail("mmap", code)
  BY <1>1, <1>3, FailStep
<1>4. CASE Panic
  <2>1. pc' = "panic" /\ UNCHANGED <<phs, magic, k, at, areas, mem, held, old, ret>>
    BY <1>4 DEF Panic, Go
  <2>2. Typed'
    BY <2>1 DEF Typed, TypeOK, Place
  <2> QED BY <2>1, <2>2 DEF Building, NoneYet, Position, Loading
<1>5. ASSUME MapDone(v)
      PROVE  /\ v \in Vma /\ v.start \in Nat /\ v.end \in Nat
             /\ v.start <= USERTOP - STACKMAPPED * PGSIZE /\ USERTOP <= v.end
             /\ areas' \in Seq(Vma)
             /\ \A w : (\E i \in DOMAIN areas : areas[i] = w) =>
                   /\ \E i \in DOMAIN areas' : areas'[i] = w
                   /\ w.end <= v.start \/ v.end <= w.start
  <2>1. UserAccess(v.start, v.end) /\ InsertAsserts(areas, v) /\ areas' = Inserted(areas, v)
    BY <1>5 DEF MapDone, MapFails
  <2>2. /\ v \in Vma /\ v.start \in Nat /\ v.end \in Nat
        /\ v.start <= USERTOP - STACKMAPPED * PGSIZE /\ USERTOP <= v.end
    BY <2>1, StackArea
  <2> HIDE DEF v
  <2> QED BY <1>2, <2>1, <2>2, AddArea DEF Typed, TypeOK
<1> HIDE DEF v
<1>6. CASE MapDone(v) /\ pc' = "panic" /\ UNCHANGED <<phs, magic, k, at, mem, held, old, ret>>
  <2>1. Typed'
    BY <1>5, <1>6 DEF Typed, TypeOK, Place
  <2> QED BY <1>6, <2>1 DEF Building, NoneYet, Position, Loading
<1>7. CASE /\ MapDone(v)
           /\ mem' = [a \in Addr |-> IF USERTOP - STACKMAPPED * PGSIZE <= a /\ a < USERTOP
                                     THEN Junk ELSE mem[a]]
           /\ pc' = "returned"
           /\ UNCHANGED <<phs, magic, k, at, held, old>>
  <2>1. Typed'
    BY <1>5, <1>7 DEF Typed, TypeOK, Place
  <2>2. Placed' = Placed
    BY <1>1, <1>7 DEF Placed, Loading
  <2>3. \A j : AreaOf(j)' = AreaOf(j) /\ SegEnd(j)' = SegEnd(j) /\ DoneTo(j)' = DoneTo(j)
    BY <1>7 DEF AreaOf, SegEnd, DoneTo
  <2>4. SegmentsApart'
    <3>1. ASSUME NEW j \in Placed
          PROVE  /\ \E i \in DOMAIN areas' : areas'[i] = AreaOf(j)
                 /\ AreaOf(j).start <= phs[j].va /\ SegEnd(j) <= AreaOf(j).end
      BY <1>2, <1>5, <1>7 DEF SegmentsApart
    <3>2. \A i, j \in Placed : i # j =>
             AreaOf(i).end <= AreaOf(j).start \/ AreaOf(j).end <= AreaOf(i).start
      BY <1>2 DEF SegmentsApart
    <3> QED BY <1>7, <2>2, <2>3, <3>1, <3>2, Zenon DEF SegmentsApart
  <2>5. LoadedExact'
    <3>1. SUFFICES ASSUME NEW j \in Placed, NEW a \in Addr, phs[j].va <= a, a < DoneTo(j)
                   PROVE  mem'[a] = ByteOf(j, a)
      BY <1>7, <2>2, <2>3 DEF LoadedExact, ByteOf
    <3>2. mem[a] = ByteOf(j, a)
      BY <1>2, <3>1 DEF LoadedExact
    <3>3. ~(USERTOP - STACKMAPPED * PGSIZE <= a /\ a < USERTOP)
      <4>1. /\ AreaOf(j).start <= phs[j].va /\ SegEnd(j) <= AreaOf(j).end
            /\ AreaOf(j).end <= v.start \/ v.end <= AreaOf(j).start
        BY <1>2, <1>5, <1>7 DEF SegmentsApart
      <4>2. j \in 1 .. Len(phs) /\ j # k
        BY <1>1, LoadAssumption DEF Placed, Typed
      <4>3. DoneTo(j) = SegEnd(j)
        BY <4>2 DEF DoneTo
      <4>4. /\ phs[j].va \in Nat /\ phs[j].memsz \in Nat
            /\ phs[j].va + phs[j].memsz < Top
        BY <4>2, Headers
      <4>5. SegEnd(j) \in Nat
        BY <4>4 DEF SegEnd
      <4>6. AreaOf(j).start \in Nat /\ AreaOf(j).end \in Nat
        BY <4>4, AreaFacts DEF AreaOf
      <4>7. a \in Nat /\ USERTOP \in Nat /\ STACKMAPPED * PGSIZE \in Nat
        BY VmaAssumption, LoadAssumption DEF Addr
      <4> DEFINE mapped == STACKMAPPED * PGSIZE
      <4>8. /\ v.start \in Nat /\ v.end \in Nat /\ mapped \in Nat
            /\ v.start <= USERTOP - mapped /\ USERTOP <= v.end
        BY <1>5, <1>7, <4>7
      <4>9. ~(USERTOP - mapped <= a /\ a < USERTOP)
        <5> HIDE DEF mapped
        <5> QED BY <3>1, <4>1, <4>3, <4>4, <4>5, <4>6, <4>7, <4>8
      <4> QED BY <4>9
    <3> QED BY <1>7, <3>2, <3>3
  <2> QED BY <1>7, <2>1, <2>4, <2>5 DEF Building, NoneYet, Position, Loading
<1> QED BY <1>3, <1>4, <1>6, <1>7 DEF Stack, v, Go

----------------------------------------------------------------------------
(***************************************************************************)
(* What holds of every state.                                              *)
(***************************************************************************)

\* Every step of do_execve and load_icode keeps the invariant.
LEMMA StepLInv == LInv /\ [Next]_vars => LInv'
<1> SUFFICES ASSUME LInv, [Next]_vars PROVE LInv'
  OBVIOUS
<1>1. CASE do_execve \/ Create \/ SetupPgdir \/ CheckMagic
  BY <1>1, EarlySteps
<1>2. CASE Header
  BY <1>2, HeaderStep
<1>3. CASE CopyPage \/ BssHead \/ BssPage \/ BssEnd
  BY <1>3, LoopSteps
<1>4. CASE Stack
  BY <1>4, StackStep
<1>5. CASE Ended \/ UNCHANGED vars
  <2>1. UNCHANGED vars
    BY <1>5 DEF Ended
  <2> QED BY <2>1 DEF vars, LInv, Typed, TypeOK, Place, NoneYet, Nothing, Building, Covered,
          InArea, SegmentsApart, LoadedExact, Placed, Loading, DoneTo, SegEnd, AreaOf, ByteOf,
          Position, Ph, FileEnd, MemEnd
<1> QED BY <1>1, <1>2, <1>3, <1>4, <1>5 DEF Next

\* Of a byte that a segment has, no other segment has a part.
LEMMA OneOwner ==
    ASSUME LInv, pc \in {"header", "returned"}, NEW a \in Addr,
           NEW j1 \in 1 .. k - 1, NEW j2 \in 1 .. k - 1,
           phs[j1].load, phs[j1].va <= a, a < phs[j1].va + phs[j1].memsz,
           phs[j2].load, phs[j2].va <= a, a < phs[j2].va + phs[j2].memsz
    PROVE  j1 = j2
<1> USE DEF LInv
<1>1. k \in 1 .. Len(phs) + 1 /\ Len(phs) \in Nat
  BY LoadAssumption DEF Typed
<1>2. j1 \in 1 .. Len(phs) /\ j2 \in 1 .. Len(phs) /\ j1 < k /\ j2 < k
  BY <1>1
<1>3. j1 \in Placed /\ j2 \in Placed
  BY <1>2 DEF Placed
<1>4. SUFFICES ASSUME j1 # j2 PROVE FALSE
  OBVIOUS
<1>5. /\ AreaOf(j1).end <= AreaOf(j2).start \/ AreaOf(j2).end <= AreaOf(j1).start
      /\ AreaOf(j1).start <= phs[j1].va /\ SegEnd(j1) <= AreaOf(j1).end
      /\ AreaOf(j2).start <= phs[j2].va /\ SegEnd(j2) <= AreaOf(j2).end
  BY <1>3, <1>4 DEF Building, SegmentsApart
<1>6. /\ phs[j1].va \in Nat /\ phs[j1].memsz \in Nat /\ phs[j1].va + phs[j1].memsz < Top
      /\ phs[j2].va \in Nat /\ phs[j2].memsz \in Nat /\ phs[j2].va + phs[j2].memsz < Top
  BY <1>2, Headers
<1>7. /\ AreaOf(j1).start \in Nat /\ AreaOf(j1).end \in Nat
      /\ AreaOf(j2).start \in Nat /\ AreaOf(j2).end \in Nat
  BY <1>6, AreaFacts DEF AreaOf
<1>8. a \in Nat
  BY VmaAssumption DEF Addr
<1> QED BY <1>5, <1>6, <1>7, <1>8 DEF SegEnd

\* The invariant says of each byte of a loaded segment what ImageExact says.
LEMMA ExactFromLInv == LInv => ImageExact
<1> SUFFICES ASSUME LInv, pc \in {"header", "returned"}, NEW a \in Addr, Owned(k, a)
             PROVE  mem[a] = Image(k, a)
  BY DEF ImageExact, LInv
<1> DEFINE owner == {j \in 1 .. k - 1 : phs[j].load /\ phs[j].va <= a /\ a < phs[j].va + phs[j].memsz}
           one == CHOOSE i \in owner : TRUE
<1>1. one \in owner
  BY DEF Owned
<1>2. Image(k, a) = ByteOf(one, a)
  BY DEF Image, ByteOf
<1> HIDE DEF one
<1>3. k \in 1 .. Len(phs) + 1 /\ Len(phs) \in Nat
  BY LoadAssumption DEF LInv, Typed
<1>4. one \in Placed /\ one # k
  BY <1>1, <1>3 DEF Placed
<1>5. phs[one].va <= a /\ a < DoneTo(one)
  BY <1>1, <1>4 DEF DoneTo, SegEnd
<1> QED BY <1>2, <1>4, <1>5 DEF LInv, Building, LoadedExact

\* What has been built is exact at every step, and all of it is in areas.
THEOREM LoadInvariant == Spec => []LInv
BY InitLInv, StepLInv, PTL DEF Spec

\* Each byte of a loaded segment is that of the binary or zero, wherever segments and
\* their file parts begin and end on the pages, and the assertion about the partial
\* page in front of the bss holds.
THEOREM ImageCorrect == Spec => []ImageExact
BY LoadInvariant, ExactFromLInv, PTL

\* mm_map refuses a segment that would meet one already there: two loaded segments
\* share no byte, so there is only one image ImageExact can be about.
THEOREM OwnerUnique ==
    Spec => [](pc \in {"header", "returned"} =>
                 \A a \in Addr : \A j1, j2 \in 1 .. k - 1 :
                    /\ phs[j1].load /\ phs[j1].va <= a /\ a < phs[j1].va + phs[j1].memsz
                    /\ phs[j2].load /\ phs[j2].va <= a /\ a < phs[j2].va + phs[j2].memsz
                    => j1 = j2)
<1> DEFINE Unique == pc \in {"header", "returned"} =>
                 \A a \in Addr : \A j1, j2 \in 1 .. k - 1 :
                    /\ phs[j1].load /\ phs[j1].va <= a /\ a < phs[j1].va + phs[j1].memsz
                    /\ phs[j2].load /\ phs[j2].va <= a /\ a < phs[j2].va + phs[j2].memsz
                    => j1 = j2
<1>1. LInv => Unique
  BY OneOwner, Zenon
<1> QED BY <1>1, LoadInvariant, PTL

\* The error path of load_icode leaves no page, no area and no page directory behind.
THEOREM FailsCleanlyCorrect == Spec => []FailsCleanly
<1>1. LInv => FailsCleanly
  BY DEF LInv, NoneYet, Nothing, FailsCleanly
<1> QED BY <1>1, LoadInvariant, PTL

\* The addresses of the loops stay naturals and mmap_list a list of areas.
THEOREM TypeCorrect == Spec => []TypeOK
<1>1. LInv => TypeOK
  BY DEF LInv, Typed
<1> QED BY <1>1, LoadInvariant, PTL
=============================================================================
