------------------------------ MODULE VmmProofs ------------------------------
(***************************************************************************)
(* Proofs about Vmm, for any page size and user range, any number of       *)
(* address spaces, areas and stack pages.                                  *)
(***************************************************************************)
EXTENDS Vmm, SequenceTheorems, NaturalsInduction, WellFoundedInduction, TLAPS

Aligned(a) == \E q \in Nat : a = q * PGSIZE

\* Flags an area may have, with the mark of a segment without bytes.
AreaFlags == SegFlags \cup {StackFlags} \cup {f \cup {"EMPTY"} : f \in SegFlags}

\* What holds of one address space with list l, cache c and entries e.  The areas
\* ascend, lie in user memory and begin and end at pages; the cache holds an area
\* of the list; a page is mapped only inside an area, then with all the area
\* allows; and only the stack has pages that are not mapped yet.  Of the pages in the
\* area of a segment without bytes nothing is said.
AreaOK(v) ==
    /\ UserAccess(v.start, v.end) /\ Aligned(v.start) /\ Aligned(v.end)
    /\ v.flags \in AreaFlags

PageOK(v, e, p) == InVma(v, p * PGSIZE) /\ "EMPTY" \notin v.flags =>
    /\ e[p] # NULL => v.flags \ {"STACK"} \subseteq e[p]
    /\ "STACK" \notin v.flags => e[p] # NULL

SpaceOK(l, c, e) ==
    /\ SortedList(l)
    /\ \A i \in DOMAIN l : AreaOK(l[i])
    /\ c # NULL => \E i \in DOMAIN l : c = l[i]
    /\ \A p \in Page : e[p] # NULL => \E i \in DOMAIN l : InVma(l[i], p * PGSIZE)
    /\ \A i \in DOMAIN l, p \in Page : PageOK(l[i], e, p)

\* An address space that is not in use is empty.
Empty(x) == mmap_list[x] = <<>> /\ mmap_cache[x] = NULL /\ \A p \in Page : pte[x][p] = NULL

\* dup_mmap has copied the areas behind the n-th, and the pages in them.
Copied(t, f, n) ==
    /\ t \in Mm \ alive /\ f \in alive
    /\ n \in 0 .. Len(mmap_list[f])
    /\ Len(mmap_list[t]) = Len(mmap_list[f]) - n
    /\ \A i \in DOMAIN mmap_list[t] : mmap_list[t][i] = mmap_list[f][i + n]
    /\ mmap_cache[t] = NULL
    /\ \A p \in Page : pte[t][p] # NULL => pte[t][p] = pte[f][p]
    /\ \A i \in DOMAIN mmap_list[t], p \in Page :
          InVma(mmap_list[t][i], p * PGSIZE) => pte[t][p] = pte[f][p]

Copying == dup # NULL =>
    \E t, f \in Mm, n \in Nat : dup = <<t, f, n>> /\ Copied(t, f, n)

\* The inductive invariant.
VInv ==
    /\ TypeOK
    /\ \A x \in Mm : SpaceOK(mmap_list[x], mmap_cache[x], pte[x])
    /\ \A x \in Mm \ alive : (dup = NULL \/ x # dup[1]) => Empty(x)
    /\ Copying

----------------------------------------------------------------------------
(***************************************************************************)
(* The list of areas.                                                      *)
(***************************************************************************)

\* A set of naturals has a least member.
LEMMA Least ==
    ASSUME NEW S \in SUBSET Nat, S # {}
    PROVE  \E x \in S : \A y \in S : x <= y
<1>1. PICK x \in S : \A y \in S : ~(<<y, x>> \in OpToRel(<, Nat))
  BY NatLessThanWellFounded, WFMin, Zenon
<1>2. \A y \in S : ~(y < x)
  BY <1>1, Zenon DEF OpToRel
<1>3. \A y \in S : x <= y
  BY <1>2
<1> QED BY <1>3

\* The fields of an area.
LEMMA VmaFields ==
    ASSUME NEW v \in Vma
    PROVE  v.start \in Nat /\ v.end \in Nat /\ v.flags \in SUBSET (Access \cup {"STACK", "EMPTY"})
  BY DEF Vma

\* le_prev of insert_vma_struct: the areas up to it start no higher than the
\* new one; the one behind it, if any, starts above.
LEMMA AfterFacts ==
    ASSUME NEW l \in Seq(Vma), NEW v \in Vma
    PROVE  /\ After(l, v) \in 0 .. Len(l)
           /\ \A i \in 1 .. After(l, v) : l[i].start <= v.start
           /\ After(l, v) < Len(l) => l[After(l, v) + 1].start > v.start
<1> DEFINE above == {i \in DOMAIN l : l[i].start > v.start}
           first == CHOOSE i \in above : \A j \in above : i <= j
<1>1. DOMAIN l = 1 .. Len(l) /\ Len(l) \in Nat
  OBVIOUS
<1>2. v.start \in Nat /\ \A i \in 1 .. Len(l) : l[i].start \in Nat
  BY <1>1, VmaFields
<1>3. CASE above = {}
  <2>1. After(l, v) = Len(l)
    BY <1>3 DEF After
  <2>2. \A i \in 1 .. Len(l) : ~(l[i].start > v.start)
    BY <1>1, <1>3
  <2> QED BY <1>1, <1>2, <2>1, <2>2
<1>4. CASE above # {}
  <2>1. After(l, v) = first - 1
    BY <1>4 DEF After
  <2>2. above \in SUBSET Nat
    BY <1>1
  <2>3. \E i \in above : \A j \in above : i <= j
    BY <1>4, <2>2, Least
  <2>4. first \in above /\ \A j \in above : first <= j
    BY <2>3
  <2>5. first \in 1 .. Len(l) /\ l[first].start > v.start
    BY <1>1, <2>4
  <2>6. \A i \in 1 .. Len(l) : i < first => ~(l[i].start > v.start)
    BY <1>1, <2>4, <2>5
  <2> HIDE DEF first
  <2> QED BY <1>1, <1>2, <2>1, <2>5, <2>6
<1> QED BY <1>3, <1>4

\* list_add_after: the list grows by the new area, behind le_prev.
LEMMA InsertedFacts ==
    ASSUME NEW l \in Seq(Vma), NEW v \in Vma
    PROVE  /\ Inserted(l, v) \in Seq(Vma)
           /\ Len(Inserted(l, v)) = Len(l) + 1
           /\ \A i \in 1 .. Len(l) + 1 : Inserted(l, v)[i] =
                 IF i <= After(l, v) THEN l[i] ELSE IF i = After(l, v) + 1 THEN v ELSE l[i - 1]
<1> DEFINE k == After(l, v)
           n == Len(l) + 1
           at(i) == IF i <= k THEN l[i] ELSE IF i = k + 1 THEN v ELSE l[i - 1]
<1>1. k \in 0 .. Len(l) /\ Len(l) \in Nat /\ n \in Nat
  BY AfterFacts
<1>2. \A i \in 1 .. Len(l) : l[i] \in Vma
  OBVIOUS
<1>3. Inserted(l, v) = [i \in 1 .. n |-> at(i)]
  BY DEF Inserted
<1>4. ASSUME NEW i \in 1 .. n PROVE at(i) \in Vma
  <2>1. CASE i <= k
    BY <1>1, <1>2, <2>1
  <2>2. CASE i = k + 1
    BY <1>1, <2>2
  <2>3. CASE ~(i <= k) /\ i # k + 1
    <3>1. i - 1 \in 1 .. Len(l)
      BY <1>1, <2>3
    <3> QED BY <1>2, <2>3, <3>1
  <2> QED BY <2>1, <2>2, <2>3
<1> HIDE DEF at, n, k
<1>5. [i \in 1 .. n |-> at(i)] \in Seq(Vma) /\ Len([i \in 1 .. n |-> at(i)]) = n
  BY <1>1, <1>4, IsASeq
<1>6. \A i \in 1 .. n : Inserted(l, v)[i] = at(i)
  BY <1>3
<1> QED BY <1>3, <1>5, <1>6 DEF at, n, k

\* Where the areas of the grown list come from.
LEMMA InsertedSet ==
    ASSUME NEW l \in Seq(Vma), NEW v \in Vma
    PROVE  /\ \A i \in DOMAIN l : \E j \in DOMAIN Inserted(l, v) : Inserted(l, v)[j] = l[i]
           /\ \E j \in DOMAIN Inserted(l, v) : Inserted(l, v)[j] = v
           /\ \A j \in DOMAIN Inserted(l, v) :
                 Inserted(l, v)[j] = v \/ \E i \in DOMAIN l : Inserted(l, v)[j] = l[i]
<1> DEFINE k == After(l, v)
           m == Inserted(l, v)
<1>1. k \in 0 .. Len(l) /\ Len(l) \in Nat
  BY AfterFacts
<1>2. /\ DOMAIN l = 1 .. Len(l) /\ DOMAIN m = 1 .. Len(l) + 1
      /\ \A i \in 1 .. Len(l) + 1 :
            m[i] = IF i <= k THEN l[i] ELSE IF i = k + 1 THEN v ELSE l[i - 1]
  BY InsertedFacts
<1> HIDE DEF k, m
<1>3. ASSUME NEW i \in 1 .. Len(l)
      PROVE  \E j \in 1 .. Len(l) + 1 : m[j] = l[i]
  <2>1. CASE i <= k
    BY <1>1, <1>2, <2>1
  <2>2. CASE ~(i <= k)
    <3>1. i + 1 \in 1 .. Len(l) + 1 /\ m[i + 1] = l[i]
      BY <1>1, <1>2, <2>2
    <3> QED BY <3>1
  <2> QED BY <2>1, <2>2
<1>4. k + 1 \in 1 .. Len(l) + 1 /\ m[k + 1] = v
  BY <1>1, <1>2
<1>5. ASSUME NEW j \in 1 .. Len(l) + 1
      PROVE  m[j] = v \/ \E i \in 1 .. Len(l) : m[j] = l[i]
  <2>1. CASE j <= k
    BY <1>1, <1>2, <2>1
  <2>2. CASE j = k + 1
    BY <1>4, <2>2
  <2>3. CASE ~(j <= k) /\ j # k + 1
    <3>1. j - 1 \in 1 .. Len(l) /\ m[j] = l[j - 1]
      BY <1>1, <1>2, <2>3
    <3> QED BY <3>1
  <2> QED BY <2>1, <2>2, <2>3
<1> QED BY <1>2, <1>3, <1>4, <1>5 DEF m

\* The assertions of insert_vma_struct are enough: it keeps the areas in order
\* and apart.
LEMMA InsertedSorted ==
    ASSUME NEW l \in Seq(Vma), NEW v \in Vma, SortedList(l), InsertAsserts(l, v)
    PROVE  /\ SortedList(Inserted(l, v))
           /\ \A i \in DOMAIN l : l[i].end <= v.start \/ v.end <= l[i].start
<1> DEFINE k == After(l, v)
           m == Inserted(l, v)
           n == Len(l)
<1>1. k \in 0 .. n /\ n \in Nat
  BY AfterFacts
<1>2. /\ DOMAIN l = 1 .. n /\ DOMAIN m = 1 .. n + 1
      /\ \A i \in 1 .. n + 1 :
            m[i] = IF i <= k THEN l[i] ELSE IF i = k + 1 THEN v ELSE l[i - 1]
  BY InsertedFacts
<1>3. /\ v.start \in Nat /\ v.end \in Nat /\ v.start < v.end
      /\ k > 0 => l[k].end <= v.start
      /\ k < n => v.end <= l[k + 1].start
  BY VmaFields DEF InsertAsserts, Apart
<1>4. \A i \in 1 .. n : l[i].start \in Nat /\ l[i].end \in Nat /\ l[i].start < l[i].end
  BY <1>2, VmaFields DEF SortedList
<1>5. \A i, j \in 1 .. n : i < j => l[i].end <= l[j].start
  BY <1>2 DEF SortedList
<1> HIDE DEF k, m, n
<1>6. ASSUME NEW i \in 1 .. k PROVE l[i].end <= v.start
  <2>1. i \in 1 .. n /\ k \in 1 .. n /\ k > 0
    BY <1>1
  <2>2. CASE i = k
    BY <1>3, <2>1, <2>2
  <2>3. CASE i # k
    <3>1. l[i].end <= l[k].start
      BY <1>5, <2>1, <2>3
    <3> QED BY <1>3, <1>4, <2>1, <3>1
  <2> QED BY <2>2, <2>3
<1>7. ASSUME NEW i \in k + 1 .. n PROVE v.end <= l[i].start
  <2>1. i \in 1 .. n /\ k + 1 \in 1 .. n /\ k < n
    BY <1>1
  <2>2. CASE i = k + 1
    BY <1>3, <2>1, <2>2
  <2>3. CASE i # k + 1
    <3>1. l[k + 1].end <= l[i].start
      BY <1>1, <1>5, <2>1, <2>3
    <3> QED BY <1>3, <1>4, <2>1, <3>1
  <2> QED BY <2>2, <2>3
<1>8. ASSUME NEW i \in 1 .. n PROVE l[i].end <= v.start \/ v.end <= l[i].start
  <2>1. i \in 1 .. k \/ i \in k + 1 .. n
    BY <1>1
  <2> QED BY <1>6, <1>7, <2>1
<1>9. ASSUME NEW i \in 1 .. n + 1 PROVE m[i].start < m[i].end
  <2>1. CASE i <= k
    BY <1>1, <1>2, <1>4, <2>1
  <2>2. CASE i = k + 1
    BY <1>1, <1>2, <1>3, <2>2
  <2>3. CASE ~(i <= k) /\ i # k + 1
    <3>1. i - 1 \in 1 .. n /\ m[i] = l[i - 1]
      BY <1>1, <1>2, <2>3
    <3> QED BY <1>4, <3>1
  <2> QED BY <2>1, <2>2, <2>3
<1>10. ASSUME NEW i \in 1 .. n + 1, NEW j \in 1 .. n + 1, i < j
       PROVE  m[i].end <= m[j].start
  <2>1. CASE j <= k
    <3>1. i \in 1 .. n /\ j \in 1 .. n /\ m[i] = l[i] /\ m[j] = l[j]
      BY <1>1, <1>2, <1>10, <2>1
    <3> QED BY <1>5, <1>10, <3>1
  <2>2. CASE j = k + 1
    <3>1. i \in 1 .. k /\ m[i] = l[i] /\ m[j] = v
      BY <1>1, <1>2, <1>10, <2>2
    <3> QED BY <1>6, <3>1
  <2>3. CASE j > k + 1 /\ i <= k
    <3>1. i \in 1 .. n /\ j - 1 \in 1 .. n /\ m[i] = l[i] /\ m[j] = l[j - 1] /\ i < j - 1
      BY <1>1, <1>2, <1>10, <2>3
    <3> QED BY <1>5, <3>1
  <2>4. CASE j > k + 1 /\ i = k + 1
    <3>1. j - 1 \in k + 1 .. n /\ m[i] = v /\ m[j] = l[j - 1]
      BY <1>1, <1>2, <1>10, <2>4
    <3> QED BY <1>7, <3>1
  <2>5. CASE j > k + 1 /\ i > k + 1
    <3>1. /\ i - 1 \in 1 .. n /\ j - 1 \in 1 .. n /\ i - 1 < j - 1
          /\ m[i] = l[i - 1] /\ m[j] = l[j - 1]
      BY <1>1, <1>2, <1>10, <2>5
    <3> QED BY <1>5, <3>1
  <2> QED BY <1>1, <2>1, <2>2, <2>3, <2>4, <2>5
<1>11. SortedList(m)
  BY <1>2, <1>9, <1>10 DEF SortedList
<1> QED BY <1>2, <1>8, <1>11 DEF m, n

\* No byte is in two areas.
LEMMA OneArea ==
    ASSUME NEW l \in Seq(Vma), SortedList(l), NEW i \in DOMAIN l, NEW j \in DOMAIN l,
           NEW a \in Nat, InVma(l[i], a), InVma(l[j], a)
    PROVE  i = j
<1>1. i \in Nat /\ j \in Nat
  OBVIOUS
<1>2. /\ l[i].start \in Nat /\ l[i].end \in Nat
      /\ l[j].start \in Nat /\ l[j].end \in Nat
  BY VmaFields
<1>3. /\ i < j => l[i].end <= l[j].start
      /\ j < i => l[j].end <= l[i].start
  BY DEF SortedList
<1> QED BY <1>1, <1>2, <1>3 DEF InVma

\* find_vma, with the cache empty or on an area of the list, finds the area
\* that has the address, and nothing when there is none.
LEMMA FindFacts ==
    ASSUME NEW l \in Seq(Vma), NEW c, c # NULL => \E i \in DOMAIN l : c = l[i],
           NEW a \in Nat
    PROVE  \/ /\ find_vma(l, c, a) = NULL
              /\ \A i \in DOMAIN l : ~InVma(l[i], a)
           \/ \E i \in DOMAIN l : find_vma(l, c, a) = l[i] /\ InVma(l[i], a)
<1> DEFINE hit == {i \in DOMAIN l : InVma(l[i], a)}
<1>1. CASE c # NULL /\ InVma(c, a)
  BY <1>1 DEF find_vma
<1>2. CASE ~(c # NULL /\ InVma(c, a)) /\ hit = {}
  <2>1. find_vma(l, c, a) = NULL
    BY <1>2 DEF find_vma, Scan
  <2> QED BY <1>2, <2>1
<1>3. CASE ~(c # NULL /\ InVma(c, a)) /\ hit # {}
  <2>1. find_vma(l, c, a) = l[CHOOSE i \in hit : \A j \in hit : i <= j]
    BY <1>3 DEF find_vma, Scan
  <2>2. hit \in SUBSET Nat
    OBVIOUS
  <2>3. \E i \in hit : \A j \in hit : i <= j
    BY <1>3, <2>2, Least
  <2>4. (CHOOSE i \in hit : \A j \in hit : i <= j) \in hit
    BY <2>3
  <2> QED BY <2>1, <2>4
<1> QED BY <1>1, <1>2, <1>3

----------------------------------------------------------------------------
(***************************************************************************)
(* Pages.                                                                  *)
(***************************************************************************)

\* ROUNDDOWN, and the number of the page of an address.
LEMMA PageFacts ==
    ASSUME NEW a \in Nat
    PROVE  /\ a \div PGSIZE \in Nat /\ RoundDown(a) \in Nat /\ Aligned(RoundDown(a))
           /\ RoundDown(a) <= a
           /\ \A q \in Nat : q * PGSIZE <= a => q * PGSIZE <= RoundDown(a)
<1> USE VmaAssumption
<1> DEFINE d == a \div PGSIZE
<1>1. d \in Nat /\ d * PGSIZE <= a /\ a < (d + 1) * PGSIZE
  OBVIOUS
<1> HIDE DEF d
<1>2. d * PGSIZE \in Nat
  BY <1>1
<1>3. ASSUME NEW q \in Nat, q * PGSIZE <= a PROVE q * PGSIZE <= d * PGSIZE
  <2>1. q * PGSIZE < (d + 1) * PGSIZE
    BY <1>1, <1>3
  <2>2. q < d + 1
    BY <1>1, <2>1
  <2> QED BY <1>1, <2>2
<1>4. RoundDown(a) = d * PGSIZE
  BY DEF RoundDown, d
<1> QED BY <1>1, <1>2, <1>3, <1>4 DEF Aligned, d

\* An area with an address has the page of the address.
LEMMA AreaHasPage ==
    ASSUME NEW v \in Vma, AreaOK(v), NEW a \in Nat, InVma(v, a)
    PROVE  InVma(v, (a \div PGSIZE) * PGSIZE)
<1>1. v.start \in Nat /\ v.end \in Nat /\ v.start <= a /\ a < v.end
  BY VmaFields DEF InVma
<1>2. PICK q \in Nat : v.start = q * PGSIZE
  BY DEF AreaOK, Aligned
<1>3. v.start <= RoundDown(a) /\ RoundDown(a) <= a /\ RoundDown(a) \in Nat
  BY <1>1, <1>2, PageFacts
<1> QED BY <1>1, <1>3 DEF InVma, RoundDown

\* The range that mm_map rounds to pages.
LEMMA RangeFacts ==
    ASSUME NEW a \in Nat, NEW len \in Nat
    PROVE  /\ RoundDown(a) \in Nat /\ Aligned(RoundDown(a))
           /\ RoundUp((a + len) % Top) \in Nat /\ Aligned(RoundUp((a + len) % Top))
<1> USE VmaAssumption
<1>1. \A b \in Nat : b % Top \in Nat
  OBVIOUS
<1>2. (a + len) % Top \in Nat
  BY <1>1
<1>3. ((a + len) % Top) + PGSIZE - 1 \in Nat
  BY <1>2
<1>4. (((a + len) % Top) + PGSIZE - 1) % Top \in Nat
  BY <1>1, <1>3
<1> QED BY <1>4, PageFacts DEF RoundUp

----------------------------------------------------------------------------
(***************************************************************************)
(* One address space.                                                      *)
(***************************************************************************)

\* An area that insert_vma_struct takes, with pages that go with it, leaves the
\* address space in order.
LEMMA InsertSpace ==
    ASSUME NEW l \in Seq(Vma), NEW c, NEW e, NEW e2, NEW v \in Vma,
           SpaceOK(l, c, e), InsertAsserts(l, v), AreaOK(v),
           \A p \in Page : ~InVma(v, p * PGSIZE) => e2[p] = e[p],
           \A p \in Page : PageOK(v, e2, p)
    PROVE  SpaceOK(Inserted(l, v), c, e2)
<1> DEFINE m == Inserted(l, v)
<1>1. SortedList(m) /\ \A i \in DOMAIN l : l[i].end <= v.start \/ v.end <= l[i].start
  BY InsertedSorted DEF SpaceOK
<1>2. /\ \A i \in DOMAIN l : \E j \in DOMAIN m : m[j] = l[i]
      /\ \E j \in DOMAIN m : m[j] = v
      /\ \A j \in DOMAIN m : m[j] = v \/ \E i \in DOMAIN l : m[j] = l[i]
  BY InsertedSet
<1> HIDE DEF m
<1>3. ASSUME NEW j \in DOMAIN m PROVE AreaOK(m[j])
  BY <1>2 DEF SpaceOK
<1>4. c # NULL => \E j \in DOMAIN m : c = m[j]
  <2>1. ASSUME NEW i \in DOMAIN l, c = l[i] PROVE \E j \in DOMAIN m : c = m[j]
    BY <1>2, <2>1
  <2> QED BY <2>1 DEF SpaceOK
<1>5. ASSUME NEW p \in Page, e2[p] # NULL
      PROVE  \E j \in DOMAIN m : InVma(m[j], p * PGSIZE)
  <2>1. CASE InVma(v, p * PGSIZE)
    BY <1>2, <2>1
  <2>2. CASE ~InVma(v, p * PGSIZE)
    <3>1. e[p] # NULL
      BY <1>5, <2>2
    <3>2. PICK i \in DOMAIN l : InVma(l[i], p * PGSIZE)
      BY <3>1 DEF SpaceOK
    <3>3. PICK j \in DOMAIN m : m[j] = l[i]
      BY <1>2
    <3> QED BY <3>2, <3>3
  <2> QED BY <2>1, <2>2
<1>6. ASSUME NEW i \in DOMAIN l, NEW p \in Page PROVE PageOK(l[i], e2, p)
  <2>1. CASE InVma(l[i], p * PGSIZE)
    <3>1. /\ l[i].start \in Nat /\ l[i].end \in Nat /\ v.start \in Nat /\ v.end \in Nat
      BY VmaFields
    <3>2. p * PGSIZE \in Nat
      BY VmaAssumption DEF Page
    <3>3. ~InVma(v, p * PGSIZE)
      BY <1>1, <2>1, <3>1, <3>2 DEF InVma
    <3>4. e2[p] = e[p]
      BY <3>3
    <3> QED BY <3>4 DEF SpaceOK, PageOK
  <2>2. CASE ~InVma(l[i], p * PGSIZE)
    BY <2>2 DEF PageOK
  <2> QED BY <2>1, <2>2
<1>7. ASSUME NEW j \in DOMAIN m, NEW p \in Page PROVE PageOK(m[j], e2, p)
  BY <1>2, <1>6
<1>8. SpaceOK(m, c, e2)
  BY <1>1, <1>3, <1>4, <1>5, <1>7 DEF SpaceOK
<1> QED BY <1>8 DEF m

\* Whatever find_vma leaves in the cache is an area of the list.
LEMMA CacheSpace ==
    ASSUME NEW l \in Seq(Vma), NEW c, NEW e, SpaceOK(l, c, e), NEW a \in Nat
    PROVE  SpaceOK(l, Cached(c, find_vma(l, c, a)), e)
<1>1. c # NULL => \E i \in DOMAIN l : c = l[i]
  BY DEF SpaceOK
<1>2. \/ find_vma(l, c, a) = NULL
      \/ \E i \in DOMAIN l : find_vma(l, c, a) = l[i]
  BY <1>1, FindFacts
<1>3. Cached(c, find_vma(l, c, a)) # NULL =>
         \E i \in DOMAIN l : Cached(c, find_vma(l, c, a)) = l[i]
  BY <1>1, <1>2 DEF Cached
<1> QED BY <1>3 DEF SpaceOK

\* A space without areas, cache and pages is in order.
LEMMA EmptySpace ==
    ASSUME NEW e, \A p \in Page : e[p] = NULL
    PROVE  SpaceOK(<<>>, NULL, e)
  BY DEF SpaceOK, SortedList

\* A page that do_pgfault maps on demand is of the stack, and gets what it allows,
\* or of the area of a segment without bytes.
LEMMA FaultSpace ==
    ASSUME NEW l \in Seq(Vma), NEW c, NEW e, SpaceOK(l, c, e), NEW i \in DOMAIN l,
           NEW a \in Nat, InVma(l[i], a), a \div PGSIZE \in Page, e[a \div PGSIZE] = NULL,
           NEW e2, \A p \in Page : e2[p] = IF p = a \div PGSIZE THEN FaultPerm(l[i]) ELSE e[p]
    PROVE  SpaceOK(l, c, e2)
<1> DEFINE q == a \div PGSIZE
<1>1. l[i] \in Vma /\ AreaOK(l[i])
  BY DEF SpaceOK
<1>2. InVma(l[i], q * PGSIZE) /\ q * PGSIZE \in Nat
  BY <1>1, AreaHasPage, VmaAssumption DEF Page
<1> HIDE DEF q
<1>3. q \in Page /\ e[q] = NULL /\ \A p \in Page : e2[p] = IF p = q THEN FaultPerm(l[i]) ELSE e[p]
  BY DEF q
<1>4. "STACK" \in l[i].flags \/ "EMPTY" \in l[i].flags
  BY <1>2, <1>3 DEF SpaceOK, PageOK
<1>5. l[i].flags = StackFlags \/ "EMPTY" \in l[i].flags
  BY <1>1, <1>4 DEF AreaOK, AreaFlags, SegFlags
<1>6. l[i].flags = StackFlags => FaultPerm(l[i]) = {"R", "W"}
  BY DEF FaultPerm, StackFlags
<1>7. ASSUME NEW p \in Page, e2[p] # NULL
      PROVE  \E j \in DOMAIN l : InVma(l[j], p * PGSIZE)
  BY <1>2, <1>3, <1>7 DEF SpaceOK
<1>8. ASSUME NEW j \in DOMAIN l, NEW p \in Page
      PROVE  PageOK(l[j], e2, p)
  <2>1. CASE p = q /\ InVma(l[j], p * PGSIZE)
    <3>1. j = i
      BY <1>2, <2>1, OneArea DEF SpaceOK
    <3> QED BY <1>3, <1>5, <1>6, <2>1, <3>1 DEF PageOK, StackFlags
  <2>2. CASE p = q /\ ~InVma(l[j], p * PGSIZE)
    BY <2>2 DEF PageOK
  <2>3. CASE p # q
    BY <1>3, <2>3 DEF SpaceOK, PageOK
  <2> QED BY <2>1, <2>2, <2>3
<1> QED BY <1>7, <1>8 DEF SpaceOK

----------------------------------------------------------------------------
(***************************************************************************)
(* The steps.                                                              *)
(***************************************************************************)

\* The invariant holds initially.
LEMMA InitVInv == Init => VInv
<1> SUFFICES ASSUME Init PROVE VInv
  OBVIOUS
<1>1. TypeOK
  BY DEF Init, TypeOK
<1>2. ASSUME NEW x \in Mm PROVE Empty(x)
  BY DEF Init, Empty
<1>3. ASSUME NEW x \in Mm PROVE SpaceOK(mmap_list[x], mmap_cache[x], pte[x])
  <2>1. Empty(x)
    BY <1>2
  <2> QED BY <2>1, EmptySpace DEF Empty
<1>4. Copying
  BY DEF Init, Copying
<1> QED BY <1>1, <1>2, <1>3, <1>4 DEF VInv

\* A step about one address space, with no dup_mmap in progress.
LEMMA OneSpace ==
    ASSUME VInv, TypeOK', dup = NULL, dup' = NULL, NEW x \in Mm,
           \A y \in Mm \ {x} : /\ mmap_list'[y] = mmap_list[y] /\ mmap_cache'[y] = mmap_cache[y]
                               /\ pte'[y] = pte[y] /\ (y \in alive' <=> y \in alive),
           SpaceOK(mmap_list'[x], mmap_cache'[x], pte'[x]),
           x \in alive' \/ Empty(x)'
    PROVE  VInv'
<1>1. ASSUME NEW y \in Mm PROVE SpaceOK(mmap_list'[y], mmap_cache'[y], pte'[y])
  <2>1. CASE y = x
    BY <2>1
  <2>2. CASE y # x
    BY <2>2 DEF VInv
  <2> QED BY <2>1, <2>2
<1>2. ASSUME NEW y \in Mm \ alive' PROVE Empty(y)'
  <2>1. CASE y = x
    BY <1>2, <2>1
  <2>2. CASE y # x
    BY <1>2, <2>2 DEF VInv, Empty
  <2> QED BY <2>1, <2>2
<1>3. Copying'
  BY DEF Copying
<1> QED BY <1>1, <1>2, <1>3 DEF VInv

\* mm_create keeps the invariant.
LEMMA CreateStep == ASSUME VInv, NEW x \in Mm, mm_create(x) PROVE VInv'
<1>1. dup = NULL /\ UNCHANGED <<mmap_list, mmap_cache, pte, dup, panic>> /\ alive' = alive \cup {x}
  BY DEF mm_create, Running
<1>2. TypeOK'
  BY <1>1 DEF VInv, TypeOK
<1>3. SpaceOK(mmap_list'[x], mmap_cache'[x], pte'[x])
  BY <1>1 DEF VInv
<1> QED BY <1>1, <1>2, <1>3, OneSpace

\* mm_map with the pages that load_icode maps in the new area.
LEMMA MapStep ==
    ASSUME VInv, NEW x \in Mm, NEW addr \in Nat, NEW len \in Nat,
           NEW flags \in AreaFlags, NEW perm \in SUBSET Access,
           flags \ {"STACK", "EMPTY"} \subseteq perm, NEW pages,
           \A p \in Page : p \in pages =>
              RoundDown(addr) <= p * PGSIZE /\ p * PGSIZE < RoundUp((addr + len) % Top),
           \/ "STACK" \in flags \/ "EMPTY" \in flags
           \/ \A p \in Page : RoundDown(addr) <= p * PGSIZE
                             /\ p * PGSIZE < RoundUp((addr + len) % Top) => p \in pages,
           mm_map(x, addr, len, flags, perm, pages)
    PROVE  VInv'
<1> DEFINE start == RoundDown(addr)
           end == RoundUp((addr + len) % Top)
           l == mmap_list[x]
           c == mmap_cache[x]
           e == pte[x]
           v == [start |-> start, end |-> end, flags |-> flags]
           found == Cached(c, find_vma(l, c, start))
           e2 == [p \in Page |-> IF p \in pages THEN perm ELSE e[p]]
<1>1. /\ start \in Nat /\ Aligned(start) /\ end \in Nat /\ Aligned(end)
  BY RangeFacts
<1>2. /\ dup = NULL /\ x \in alive /\ UserAccess(start, end) /\ UNCHANGED <<alive, dup>>
      /\ mmap_cache' = [mmap_cache EXCEPT ![x] = found]
      /\ \/ UNCHANGED <<mmap_list, pte>> /\ panic' \in {panic, "overlap"}
         \/ /\ InsertAsserts(l, v)
            /\ mmap_list' = [mmap_list EXCEPT ![x] = Inserted(l, v)]
            /\ pte' = [pte EXCEPT ![x] = e2]
            /\ UNCHANGED panic
  BY DEF mm_map, Running
<1>a. /\ TypeOK /\ l \in Seq(Vma) /\ SpaceOK(l, c, e)
      /\ c \in {NULL} \cup Vma /\ e \in [Page -> {NULL} \cup SUBSET Access]
  BY DEF VInv, TypeOK
<1>3. v \in Vma /\ AreaOK(v) /\ v.start = start /\ v.end = end /\ v.flags = flags
  <2>1. flags \in SUBSET (Access \cup {"STACK", "EMPTY"})
    BY DEF AreaFlags, SegFlags, StackFlags, Access
  <2> QED BY <1>1, <1>2, <2>1 DEF Vma, AreaOK
<1>p. /\ \A p \in Page : p \in pages => InVma(v, p * PGSIZE)
      /\ \/ "STACK" \in flags \/ "EMPTY" \in flags
         \/ \A p \in Page : InVma(v, p * PGSIZE) => p \in pages
  BY <1>3 DEF InVma
<1> HIDE DEF start, end, v, l, c, e
<1>4. SpaceOK(l, found, e)
  BY <1>1, <1>a, CacheSpace
<1>5. found \in {NULL} \cup Vma
  <2>1. found # NULL => \E i \in DOMAIN l : found = l[i]
    BY <1>4 DEF SpaceOK
  <2> QED BY <1>a, <2>1
<1> HIDE DEF found
<1>6. CASE UNCHANGED <<mmap_list, pte>> /\ panic' \in {panic, "overlap"}
  <2>1. TypeOK'
    BY <1>2, <1>5, <1>6, <1>a DEF TypeOK
  <2>2. mmap_list'[x] = l /\ mmap_cache'[x] = found /\ pte'[x] = e
    BY <1>2, <1>6, <1>a DEF TypeOK, l, e
  <2>3. \A y \in Mm \ {x} : mmap_cache'[y] = mmap_cache[y]
    BY <1>2, <1>a DEF TypeOK
  <2> QED BY <1>2, <1>4, <1>6, <2>1, <2>2, <2>3, OneSpace
<1>7. CASE /\ InsertAsserts(l, v)
           /\ mmap_list' = [mmap_list EXCEPT ![x] = Inserted(l, v)]
           /\ pte' = [pte EXCEPT ![x] = e2]
           /\ UNCHANGED panic
  <2>1. \A p \in Page : e2[p] = IF p \in pages THEN perm ELSE e[p]
    OBVIOUS
  <2>2. e2 \in [Page -> {NULL} \cup SUBSET Access]
    BY <1>a
  <2> HIDE DEF e2
  <2>3. ASSUME NEW p \in Page, InVma(v, p * PGSIZE) PROVE e[p] = NULL
    <3>1. ASSUME NEW i \in DOMAIN l, InVma(l[i], p * PGSIZE) PROVE FALSE
      <4>1. l[i].end <= v.start \/ v.end <= l[i].start
        BY <1>3, <1>7, <1>a, InsertedSorted DEF SpaceOK
      <4>2. /\ l[i].start \in Nat /\ l[i].end \in Nat /\ v.start \in Nat /\ v.end \in Nat
            /\ p * PGSIZE \in Nat
        BY <1>3, <1>a, VmaFields, VmaAssumption DEF Page
      <4> QED BY <2>3, <3>1, <4>1, <4>2 DEF InVma
    <3> QED BY <1>a, <3>1 DEF SpaceOK
  <2>4. ASSUME NEW p \in Page PROVE PageOK(v, e2, p)
    <3>1. perm # NULL
      BY NullAssumption
    <3>2. CASE p \in pages
      BY <1>3, <2>1, <3>1, <3>2 DEF PageOK
    <3>3. CASE InVma(v, p * PGSIZE) /\ p \notin pages
      BY <1>3, <1>p, <2>1, <2>3, <3>3 DEF PageOK
    <3>4. CASE ~InVma(v, p * PGSIZE)
      BY <3>4 DEF PageOK
    <3> QED BY <3>2, <3>3, <3>4
  <2>5. SpaceOK(Inserted(l, v), found, e2)
    <3>1. \A p \in Page : ~InVma(v, p * PGSIZE) => e2[p] = e[p]
      BY <1>p, <2>1
    <3> QED BY <1>3, <1>4, <1>7, <1>a, <2>4, <3>1, InsertSpace
  <2>6. Inserted(l, v) \in Seq(Vma)
    BY <1>3, <1>a, InsertedFacts
  <2>7. TypeOK'
    BY <1>2, <1>5, <1>7, <1>a, <2>2, <2>6 DEF TypeOK
  <2>8. mmap_list'[x] = Inserted(l, v) /\ mmap_cache'[x] = found /\ pte'[x] = e2
    BY <1>2, <1>7, <1>a DEF TypeOK
  <2>9. \A y \in Mm \ {x} : /\ mmap_list'[y] = mmap_list[y] /\ mmap_cache'[y] = mmap_cache[y]
                            /\ pte'[y] = pte[y]
    BY <1>2, <1>7, <1>a DEF TypeOK
  <2> QED BY <1>2, <2>5, <2>7, <2>8, <2>9, OneSpace
<1> QED BY <1>2, <1>6, <1>7

\* Rounding the end of a range up: the page of its last byte is the last one.
LEMMA RoundUpFacts ==
    ASSUME NEW x \in Nat, x < Top, RoundUp(x) > 0, NEW p \in Nat
    PROVE  p * PGSIZE < RoundUp(x) <=> p * PGSIZE < x
<1> USE VmaAssumption
<1> DEFINE y == x + PGSIZE - 1
<1>1. y \in Nat /\ p * PGSIZE \in Nat
  OBVIOUS
<1>2. y < Top
  <2>1. SUFFICES ASSUME ~(y < Top) PROVE FALSE
    OBVIOUS
  <2>2. y - Top \in 0 .. PGSIZE - 1 /\ y - Top < Top /\ y = (y - Top) + Top
    BY <1>1, <2>1
  <2>3. y % Top = y - Top
    BY <1>1, <2>2
  <2>4. (y - Top) \div PGSIZE = 0
    BY <2>2
  <2> QED BY <2>3, <2>4 DEF RoundUp, RoundDown
<1>3. RoundUp(x) = RoundDown(y)
  <2>1. y % Top = y
    BY <1>1, <1>2
  <2> QED BY <2>1 DEF RoundUp
<1>4. /\ RoundDown(y) \in Nat /\ RoundDown(y) <= y
      /\ \A q \in Nat : q * PGSIZE <= y => q * PGSIZE <= RoundDown(y)
  BY <1>1, PageFacts
<1>5. PICK n \in Nat : RoundDown(y) = n * PGSIZE
  BY <1>1, PageFacts DEF Aligned
<1>6. (p + 1) * PGSIZE = p * PGSIZE + PGSIZE
  OBVIOUS
<1>7. ASSUME p * PGSIZE < x PROVE p * PGSIZE < RoundDown(y)
  <2>1. (p + 1) * PGSIZE <= y
    BY <1>1, <1>6, <1>7
  <2>r. p + 1 \in Nat
    OBVIOUS
  <2>2. (p + 1) * PGSIZE <= RoundDown(y)
    BY <1>4, <2>1, <2>r, Zenon
  <2> HIDE DEF y
  <2> QED BY <1>1, <1>4, <1>6, <2>2
<1>8. ASSUME p * PGSIZE < RoundDown(y) PROVE p * PGSIZE < x
  <2> HIDE DEF y
  <2>1. p < n
    BY <1>5, <1>8
  <2>2. (p + 1) * PGSIZE <= n * PGSIZE
    BY <2>1
  <2>3. p * PGSIZE + PGSIZE <= y
    BY <1>1, <1>4, <1>5, <1>6, <2>2
  <2> QED BY <1>1, <2>3 DEF y
<1> QED BY <1>3, <1>7, <1>8

\* So do the two ways in which load_icode maps an area, mm_map with its pages and the stack.
LEMMA MapSteps ==
    ASSUME VInv, NEW x \in Mm,
           \/ \E a \in Addr, len \in 0 .. MaxLen, fl \in SegFlags : MapSegment(x, a, len, fl)
           \/ MapStack(x)
    PROVE  VInv'
<1> USE VmaAssumption, VmmAssumption
<1>1. ASSUME NEW a \in Addr, NEW len \in 0 .. MaxLen, NEW fl \in SegFlags, MapSegment(x, a, len, fl)
      PROVE  VInv'
  <2> DEFINE pages == SegPages(a, len)
             flags == IF pages = {} THEN fl \cup {"EMPTY"} ELSE fl
             end == (a + len) % Top
  <2>1. mm_map(x, a, len, flags, SegPerm(fl), pages)
    BY <1>1 DEF MapSegment
  <2>2. SegPerm(fl) \in SUBSET Access /\ flags \ {"STACK", "EMPTY"} \subseteq SegPerm(fl)
    BY DEF SegPerm, SegFlags, Access
  <2>3. a \in Nat /\ len \in Nat /\ flags \in AreaFlags
    BY DEF Addr, AreaFlags
  <2>4. end \in Nat /\ end < Top
    BY <2>3
  <2>5. RoundUp(end) > 0
    <3>1. UserAccess(RoundDown(a), RoundUp(end))
      BY <2>1 DEF mm_map
    <3>2. RoundDown(a) \in Nat /\ RoundUp(end) \in Nat
      BY <2>3, RangeFacts
    <3> QED BY <3>1, <3>2 DEF UserAccess
  <2>6. \A p \in Page : p * PGSIZE < RoundUp(end) <=> p * PGSIZE < end
    <3> HIDE DEF end
    <3>1. \A p \in Page : p \in Nat
      BY DEF Page
    <3> QED BY <2>4, <2>5, <3>1, RoundUpFacts
  <2>7. \A p \in Page : p \in pages => RoundDown(a) <= p * PGSIZE /\ p * PGSIZE < RoundUp(end)
    BY <2>6 DEF SegPages
  <2>8. ASSUME pages # {}, NEW p \in Page, RoundDown(a) <= p * PGSIZE, p * PGSIZE < RoundUp(end)
        PROVE  p \in pages
    <3>1. a < end
      BY <2>8 DEF SegPages
    <3> QED BY <2>6, <2>8, <3>1 DEF SegPages
  <2>9. \/ "STACK" \in flags \/ "EMPTY" \in flags
        \/ \A p \in Page : RoundDown(a) <= p * PGSIZE /\ p * PGSIZE < RoundUp(end) => p \in pages
    BY <2>8
  <2> HIDE DEF pages, flags
  <2> QED BY <2>1, <2>2, <2>3, <2>7, <2>9, MapStep
<1>2. CASE MapStack(x)
  <2> DEFINE s == STACKPAGES * PGSIZE
             q == USERTOP \div PGSIZE - 1
  <2>1. mm_map(x, USERTOP - s, s, StackFlags, Access, {q})
    BY <1>2 DEF MapStack
  <2>2. s \in Nat /\ USERTOP - s \in Nat /\ StackFlags \ {"STACK", "EMPTY"} \subseteq Access
    BY DEF StackFlags, Access
  <2>3. q * PGSIZE = USERTOP - PGSIZE
    <3>1. (USERTOP \div PGSIZE) * PGSIZE = USERTOP /\ USERTOP \div PGSIZE \in Nat
      OBVIOUS
    <3> QED BY <3>1
  <2>4. RoundDown(USERTOP - s) <= q * PGSIZE
    <3>1. PGSIZE <= s
      OBVIOUS
    <3>2. RoundDown(USERTOP - s) \in Nat /\ RoundDown(USERTOP - s) <= USERTOP - s
      BY <2>2, PageFacts
    <3> HIDE DEF s, q
    <3> QED BY <2>2, <2>3, <3>1, <3>2
  <2>5. q * PGSIZE < RoundUp((USERTOP - s + s) % Top)
    <3>1. (USERTOP - s + s) % Top = USERTOP
      <4>1. USERTOP - s + s = USERTOP /\ USERTOP < Top
        BY <2>2
      <4> QED BY <4>1
    <3>2. USERTOP + PGSIZE - 1 \in Nat /\ (USERTOP + PGSIZE - 1) % Top = USERTOP + PGSIZE - 1
      OBVIOUS
    <3>3. (USERTOP \div PGSIZE) * PGSIZE = USERTOP /\ USERTOP \div PGSIZE \in Nat
      OBVIOUS
    <3>4. USERTOP <= RoundDown(USERTOP + PGSIZE - 1) /\ RoundDown(USERTOP + PGSIZE - 1) \in Nat
      <4> DEFINE z == USERTOP + PGSIZE - 1
      <4>1. RoundDown(z) \in Nat /\ \A n \in Nat : n * PGSIZE <= z => n * PGSIZE <= RoundDown(z)
        BY <3>2, PageFacts
      <4>2. (USERTOP \div PGSIZE) * PGSIZE <= z
        BY <3>3
      <4> HIDE DEF z
      <4>3. (USERTOP \div PGSIZE) * PGSIZE <= RoundDown(z)
        BY <3>3, <4>1, <4>2, Zenon
      <4> QED BY <3>3, <4>1, <4>3 DEF z
    <3> HIDE DEF q
    <3> QED BY <2>3, <3>1, <3>2, <3>4 DEF RoundUp
  <2>6. "STACK" \in StackFlags /\ StackFlags \in AreaFlags
    BY DEF StackFlags, AreaFlags
  <2> HIDE DEF s, q
  <2>7. \A p \in Page : p \in {q} =>
           RoundDown(USERTOP - s) <= p * PGSIZE /\ p * PGSIZE < RoundUp((USERTOP - s + s) % Top)
    BY <2>4, <2>5
  <2> QED BY <2>1, <2>2, <2>6, <2>7, MapStep
<1> QED BY <1>1, <1>2

----------------------------------------------------------------------------
(***************************************************************************)
(* The loop of user_mem_check.                                             *)
(***************************************************************************)

\* What find_vma may leave in the cache.
Kept(l) == {NULL} \cup {l[i] : i \in DOMAIN l}

\* One turn of the loop, and the loop.
Turn(l, end, write, f, at) ==
    LET s == at[1]
        cc == at[2]
        v == find_vma(l, cc, s)
    IN  IF s >= end THEN <<TRUE, cc>>
        ELSE IF v = NULL \/ s < v.start THEN <<FALSE, cc>>
        ELSE IF (IF write THEN "W" ELSE "R") \notin v.flags THEN <<FALSE, v>>
        ELSE IF write /\ "STACK" \in v.flags /\ s < v.start + PGSIZE THEN <<FALSE, v>>
        ELSE f[<<v.end, v>>]

IsWalk(l, end, write, f) == f = [at \in Addr \X Kept(l) |-> Turn(l, end, write, f, at)]

Walk(l, end, write) == CHOOSE f : IsWalk(l, end, write, f)

\* user_mem_check is the access check of the range and the walk over its areas.
LEMMA CheckIsWalk ==
    ASSUME NEW l, NEW c, NEW addr, NEW len, NEW write
    PROVE  user_mem_check(l, c, addr, len, write) =
              IF UserAccess(addr, (addr + len) % Top)
              THEN Walk(l, (addr + len) % Top, write)[<<addr, c>>] ELSE <<FALSE, c>>
  BY DEF user_mem_check, Walk, IsWalk, Turn, Kept

\* A list of areas as the invariant has it.
Areas(l) == l \in Seq(Vma) /\ SortedList(l) /\ \A i \in DOMAIN l : AreaOK(l[i])

\* Downward from Top.
LEMMA Downward ==
    ASSUME NEW T \in SUBSET (0 .. Top), Top \in T, \A n \in T : n > 0 => n - 1 \in T
    PROVE  0 \in T
<1>1. T \in SUBSET Nat /\ T # {}
  BY VmaAssumption
<1>2. PICK n \in T : \A m \in T : n <= m
  BY <1>1, Least
<1>3. CASE n > 0
  <2>1. n - 1 \in T /\ n \in Nat
    BY <1>1, <1>3
  <2> QED BY <1>2, <2>1
<1>4. CASE ~(n > 0)
  BY <1>1, <1>2, <1>4
<1> QED BY <1>3, <1>4

\* What find_vma finds from a cache that the loop may have.
LEMMA FoundIn ==
    ASSUME NEW l, Areas(l), NEW cc \in Kept(l), NEW s \in Addr
    PROVE  \/ find_vma(l, cc, s) = NULL /\ \A i \in DOMAIN l : ~InVma(l[i], s)
           \/ /\ \E i \in DOMAIN l : find_vma(l, cc, s) = l[i] /\ InVma(l[i], s)
              /\ find_vma(l, cc, s) # NULL
              /\ find_vma(l, cc, s) \in Kept(l)
              /\ find_vma(l, cc, s).end \in Addr
              /\ find_vma(l, cc, s).end > s /\ ~(s < find_vma(l, cc, s).start)
<1>1. s \in Nat
  BY DEF Addr
<1>2. cc # NULL => \E i \in DOMAIN l : cc = l[i]
  BY DEF Kept
<1>3. CASE find_vma(l, cc, s) = NULL /\ \A i \in DOMAIN l : ~InVma(l[i], s)
  BY <1>3
<1>4. ASSUME NEW i \in DOMAIN l, find_vma(l, cc, s) = l[i], InVma(l[i], s)
      PROVE  /\ l[i] # NULL /\ l[i] \in Kept(l) /\ l[i].end \in Addr
             /\ l[i].end > s /\ ~(s < l[i].start)
  <2>1. l[i] \in Vma /\ AreaOK(l[i])
    BY DEF Areas
  <2>2. /\ l[i].start \in Nat /\ l[i].end \in Nat /\ l[i].end <= USERTOP
    BY <2>1, VmaFields DEF AreaOK, UserAccess
  <2>3. USERTOP \in Nat /\ Top \in Nat /\ USERTOP < Top
    BY VmaAssumption
  <2>4. l[i].start <= s /\ s < l[i].end
    BY <1>4 DEF InVma
  <2>5. l[i].end \in Addr
    BY <2>2, <2>3 DEF Addr
  <2> QED BY <1>1, <2>1, <2>2, <2>4, <2>5, NullAssumption DEF Kept
<1>5. \/ /\ find_vma(l, cc, s) = NULL
         /\ \A i \in DOMAIN l : ~InVma(l[i], s)
      \/ \E i \in DOMAIN l : find_vma(l, cc, s) = l[i] /\ InVma(l[i], s)
  <2>1. l \in Seq(Vma)
    BY DEF Areas
  <2> QED BY <1>1, <1>2, <2>1, FindFacts
<1>6. ASSUME NEW i \in DOMAIN l, find_vma(l, cc, s) = l[i], InVma(l[i], s)
      PROVE  /\ find_vma(l, cc, s) # NULL
             /\ find_vma(l, cc, s) \in Kept(l)
             /\ find_vma(l, cc, s).end \in Addr
             /\ find_vma(l, cc, s).end > s /\ ~(s < find_vma(l, cc, s).start)
  BY <1>4, <1>6
<1> QED BY <1>5, <1>6

\* A turn looks at the rest of the loop only further up.
LEMMA TurnLooksUp ==
    ASSUME NEW l, Areas(l), NEW end, NEW write, NEW f, NEW g,
           NEW s \in Addr, NEW cc \in Kept(l),
           \A t \in Addr, d \in Kept(l) : t > s => f[<<t, d>>] = g[<<t, d>>]
    PROVE  Turn(l, end, write, f, <<s, cc>>) = Turn(l, end, write, g, <<s, cc>>)
<1> DEFINE v == find_vma(l, cc, s)
<1>1. CASE v = NULL
  BY <1>1 DEF Turn
<1>2. CASE v # NULL
  <2>1. v \in Kept(l) /\ v.end \in Addr /\ v.end > s
    BY <1>2, FoundIn
  <2>2. f[<<v.end, v>>] = g[<<v.end, v>>]
    BY <2>1
  <2> QED BY <2>2 DEF Turn
<1> QED BY <1>1, <1>2

\* The loop is well defined: it always ends.
LEMMA WalkExists ==
    ASSUME NEW l, Areas(l), NEW end, NEW write
    PROVE  \E f : IsWalk(l, end, write, f)
<1> DEFINE From(f, n) == \A s \in Addr, cc \in Kept(l) :
               s >= n => f[<<s, cc>>] = Turn(l, end, write, f, <<s, cc>>)
           T == {n \in 0 .. Top : \E f : From(f, n)}
<1>1. Top \in T
  <2>1. Top \in 0 .. Top
    BY VmaAssumption
  <2>2. \A s \in Addr : ~(s >= Top)
    BY VmaAssumption DEF Addr
  <2>3. From([x \in {} |-> x], Top)
    BY <2>2
  <2> QED BY <2>1, <2>3
<1>2. ASSUME NEW n \in T, n > 0 PROVE n - 1 \in T
  <2>1. n - 1 \in 0 .. Top /\ n \in Nat
    BY <1>2, VmaAssumption
  <2>2. PICK f : From(f, n)
    BY <1>2
  <2> DEFINE g == [at \in Addr \X Kept(l) |->
                     IF at[1] = n - 1 THEN Turn(l, end, write, f, at) ELSE f[at]]
  <2>3. \A s \in Addr, cc \in Kept(l) :
           g[<<s, cc>>] = IF s = n - 1 THEN Turn(l, end, write, f, <<s, cc>>) ELSE f[<<s, cc>>]
    OBVIOUS
  <2> HIDE DEF g
  <2>4. ASSUME NEW s \in Addr, NEW cc \in Kept(l), s >= n - 1
        PROVE  g[<<s, cc>>] = Turn(l, end, write, g, <<s, cc>>)
    <3>1. s \in Nat
      BY DEF Addr
    <3>2. \A t \in Addr, d \in Kept(l) : t > s => f[<<t, d>>] = g[<<t, d>>]
      <4>1. \A t \in Addr : t > s => t # n - 1
        BY <2>1, <2>4, <3>1 DEF Addr
      <4> QED BY <2>3, <4>1
    <3>3. Turn(l, end, write, f, <<s, cc>>) = Turn(l, end, write, g, <<s, cc>>)
      BY <3>2, TurnLooksUp
    <3>4. g[<<s, cc>>] = Turn(l, end, write, f, <<s, cc>>)
      <4>1. CASE s = n - 1
        BY <2>3, <4>1
      <4>2. CASE s # n - 1
        <5>1. s >= n
          BY <2>1, <2>4, <3>1, <4>2
        <5>2. f[<<s, cc>>] = Turn(l, end, write, f, <<s, cc>>)
          BY <2>2, <5>1
        <5> QED BY <2>3, <4>2, <5>2
      <4> QED BY <4>1, <4>2
    <3> QED BY <3>3, <3>4
  <2>5. From(g, n - 1)
    BY <2>4
  <2> QED BY <2>1, <2>5
<1>3. 0 \in T
  BY <1>1, <1>2, Downward
<1>4. PICK f : From(f, 0)
  BY <1>3
<1> DEFINE h == [at \in Addr \X Kept(l) |-> f[at]]
<1>5. \A s \in Addr, cc \in Kept(l) : h[<<s, cc>>] = f[<<s, cc>>]
  OBVIOUS
<1>6. \A s \in Addr : s >= 0
  BY DEF Addr
<1> HIDE DEF h
<1>7. ASSUME NEW s \in Addr, NEW cc \in Kept(l)
      PROVE  f[<<s, cc>>] = Turn(l, end, write, h, <<s, cc>>)
  <2>1. f[<<s, cc>>] = Turn(l, end, write, f, <<s, cc>>)
    BY <1>4, <1>6
  <2>2. Turn(l, end, write, f, <<s, cc>>) = Turn(l, end, write, h, <<s, cc>>)
    BY <1>5, TurnLooksUp
  <2> QED BY <2>1, <2>2
<1>8. ASSUME NEW at \in Addr \X Kept(l)
      PROVE  f[at] = Turn(l, end, write, h, at)
  <2>1. PICK s \in Addr, cc \in Kept(l) : at = <<s, cc>>
    OBVIOUS
  <2> QED BY <1>7, <2>1
<1>9. h = [at \in Addr \X Kept(l) |-> Turn(l, end, write, h, at)]
  BY <1>8 DEF h
<1> QED BY <1>9 DEF IsWalk

\* The walk makes one turn of the loop and goes on: its equation has a solution.
LEMMA WalkTurns ==
    ASSUME NEW l, Areas(l), NEW end, NEW write, NEW s \in Addr, NEW cc \in Kept(l)
    PROVE  Walk(l, end, write)[<<s, cc>>] =
              Turn(l, end, write, Walk(l, end, write), <<s, cc>>)
<1> DEFINE W == Walk(l, end, write)
<1>1. IsWalk(l, end, write, W)
  BY WalkExists DEF Walk
<1>2. W = [at \in Addr \X Kept(l) |-> Turn(l, end, write, W, at)]
  BY <1>1 DEF IsWalk
<1>3. <<s, cc>> \in Addr \X Kept(l)
  OBVIOUS
<1> HIDE DEF W
<1>4. W[<<s, cc>>] = Turn(l, end, write, W, <<s, cc>>)
  BY <1>2, <1>3
<1> QED BY <1>4 DEF W

\* Byte a may be accessed: some area has it and allows it; the lowest page of the
\* stack may not be written.
ByteIn(l, a, write) == \E i \in DOMAIN l :
    /\ InVma(l[i], a)
    /\ (IF write THEN "W" ELSE "R") \in l[i].flags
    /\ write /\ "STACK" \in l[i].flags => a >= l[i].start + PGSIZE

\* From any address, and with any area of the list in the cache, the loop answers
\* as a check of every byte would, and leaves an area of the list in the cache.
LEMMA WalkExact ==
    ASSUME NEW l, Areas(l), NEW end \in Nat, NEW write \in BOOLEAN
    PROVE  \A s \in Addr, cc \in Kept(l) :
              /\ Walk(l, end, write)[<<s, cc>>][1] <=> \A b \in s .. end - 1 : ByteIn(l, b, write)
              /\ Walk(l, end, write)[<<s, cc>>][2] \in Kept(l)
<1> DEFINE W == Walk(l, end, write)
           Right(s) == \A cc \in Kept(l) :
              /\ W[<<s, cc>>][1] <=> \A b \in s .. end - 1 : ByteIn(l, b, write)
              /\ W[<<s, cc>>][2] \in Kept(l)
           T == {n \in 0 .. Top : \A s \in Addr : s >= n => Right(s)}
<1>w. ASSUME NEW s \in Addr, NEW cc \in Kept(l)
      PROVE  W[<<s, cc>>] = Turn(l, end, write, W, <<s, cc>>)
  BY WalkTurns
<1> HIDE DEF W
<1>1. Top \in T
  <2>1. Top \in 0 .. Top
    BY VmaAssumption
  <2>2. \A s \in Addr : ~(s >= Top)
    BY VmaAssumption DEF Addr
  <2> HIDE DEF Right
  <2> QED BY <2>1, <2>2
<1>2. ASSUME NEW s \in Addr, \A t \in Addr : t > s => Right(t), NEW cc \in Kept(l)
      PROVE  /\ W[<<s, cc>>][1] <=> \A b \in s .. end - 1 : ByteIn(l, b, write)
             /\ W[<<s, cc>>][2] \in Kept(l)
  <2> DEFINE v == find_vma(l, cc, s)
             need == IF write THEN "W" ELSE "R"
             guard == write /\ "STACK" \in v.flags /\ s < v.start + PGSIZE
  <2>0. s \in Nat
    BY DEF Addr
  <2>a. W[<<s, cc>>] = IF s >= end THEN <<TRUE, cc>>
                       ELSE IF v = NULL \/ s < v.start THEN <<FALSE, cc>>
                       ELSE IF need \notin v.flags THEN <<FALSE, v>>
                       ELSE IF guard THEN <<FALSE, v>>
                       ELSE W[<<v.end, v>>]
    BY <1>w DEF Turn
  <2>1. CASE s >= end
    <3>1. s .. end - 1 = {}
      BY <2>0, <2>1
    <3> QED BY <2>a, <2>1, <3>1
  <2>2. CASE s < end /\ v = NULL
    <3>0. ~(s >= end)
      BY <2>0, <2>2
    <3>1. W[<<s, cc>>] = <<FALSE, cc>>
      BY <2>a, <2>2, <3>0, Zenon
    <3>2. \A i \in DOMAIN l : ~InVma(l[i], s)
      BY <2>2, FoundIn
    <3>3. s \in s .. end - 1 /\ ~ByteIn(l, s, write)
      BY <2>0, <2>2, <3>2 DEF ByteIn
    <3> QED BY <3>1, <3>3
  <2>3. CASE s < end /\ v # NULL
    <3>1. /\ v \in Kept(l) /\ v.end \in Addr /\ v.end > s /\ ~(s < v.start)
      BY <2>3, FoundIn
    <3>2. PICK i \in DOMAIN l : v = l[i] /\ InVma(l[i], s)
      BY <2>3, FoundIn
    <3>3. v \in Vma /\ v.start \in Nat /\ v.end \in Nat
      <4>1. l[i] \in Vma
        BY DEF Areas
      <4> QED BY <3>2, <4>1, VmaFields
    <3>4. ASSUME NEW j \in DOMAIN l, NEW b \in Nat, InVma(l[j], b), InVma(v, b)
          PROVE  l[j] = v
      BY <3>2, <3>4, OneArea DEF Areas
    <3>a. W[<<s, cc>>] = IF need \notin v.flags \/ guard THEN <<FALSE, v>>
                         ELSE W[<<v.end, v>>]
      BY <2>a, <2>0, <2>3, <3>1
    <3> HIDE DEF v
    <3>5. InVma(v, s)
      BY <3>2
    <3>6. CASE need \notin v.flags \/ guard
      <4>1. ~ByteIn(l, s, write)
        <5>1. ASSUME NEW j \in DOMAIN l, InVma(l[j], s) PROVE l[j] = v
          BY <2>0, <3>4, <3>5, <5>1
        <5> QED BY <2>0, <3>3, <3>6, <5>1, VmaAssumption DEF ByteIn
      <4>2. s \in s .. end - 1
        BY <2>0, <2>3
      <4> QED BY <3>1, <3>a, <3>6, <4>1, <4>2
    <3>7. CASE need \in v.flags /\ ~guard
      <4>1. ASSUME NEW b \in s .. end - 1, b < v.end PROVE ByteIn(l, b, write)
        <5>1. b \in Nat /\ s <= b
          BY <2>0
        <5>2. InVma(v, b)
          BY <3>1, <3>3, <4>1, <5>1, <2>0 DEF InVma
        <5>3. write /\ "STACK" \in v.flags => b >= v.start + PGSIZE
          BY <2>0, <3>3, <3>7, <5>1, VmaAssumption
        <5> QED BY <3>2, <3>7, <5>2, <5>3 DEF ByteIn
      <4>2. W[<<v.end, v>>][1] <=> \A b \in v.end .. end - 1 : ByteIn(l, b, write)
        BY <1>2, <3>1
      <4>3. W[<<v.end, v>>][2] \in Kept(l)
        BY <1>2, <3>1
      <4>4. (\A b \in v.end .. end - 1 : ByteIn(l, b, write))
               <=> \A b \in s .. end - 1 : ByteIn(l, b, write)
        <5>1. v.end .. end - 1 \subseteq s .. end - 1
          BY <2>0, <3>1, <3>3
        <5>2. \A b \in s .. end - 1 : b < v.end \/ b \in v.end .. end - 1
          BY <2>0, <3>3
        <5> QED BY <4>1, <5>1, <5>2
      <4>5. W[<<s, cc>>] = W[<<v.end, v>>]
        BY <3>a, <3>7
      <4> HIDE DEF guard, need
      <4> QED BY <4>2, <4>3, <4>4, <4>5
    <3> QED BY <3>6, <3>7
  <2> QED BY <2>0, <2>1, <2>2, <2>3
<1>3. ASSUME NEW n \in T, n > 0 PROVE n - 1 \in T
  <2>1. n \in 0 .. Top /\ n - 1 \in 0 .. Top /\ \A s \in Addr : s >= n => Right(s)
    BY <1>3, VmaAssumption
  <2>2. ASSUME NEW s \in Addr, s >= n - 1 PROVE Right(s)
    <3>1. ASSUME NEW t \in Addr, t > s PROVE Right(t)
      <4>1. t >= n
        BY <2>1, <2>2, <3>1 DEF Addr
      <4> HIDE DEF Right
      <4> QED BY <2>1, <4>1
    <3> QED BY <1>2, <3>1
  <2> HIDE DEF Right
  <2> QED BY <2>1, <2>2
<1>4. 0 \in T
  <2> HIDE DEF Right
  <2> QED BY <1>1, <1>3, Downward
<1>5. \A s \in Addr : s >= 0
  BY DEF Addr
<1> QED BY <1>4, <1>5 DEF W

\* What the invariant says of a space is what the lemmas on find_vma ask for.
LEMMA SpaceAreas ==
    ASSUME VInv, NEW x \in Mm
    PROVE  Areas(mmap_list[x]) /\ mmap_cache[x] \in Kept(mmap_list[x])
  BY DEF VInv, TypeOK, SpaceOK, Areas, Kept

----------------------------------------------------------------------------
(***************************************************************************)
(* The other steps.                                                        *)
(***************************************************************************)

\* A check of user memory changes the cache only, to a listed area.
LEMMA CheckStep ==
    ASSUME VInv, NEW x \in Mm, NEW addr \in Addr, NEW len \in Nat, NEW write \in BOOLEAN,
           UserMemCheck(x, addr, len, write)
    PROVE  VInv'
<1> DEFINE l == mmap_list[x]
           c == mmap_cache[x]
           end == (addr + len) % Top
           c2 == user_mem_check(l, c, addr, len, write)[2]
<1>1. /\ dup = NULL /\ UNCHANGED <<mmap_list, pte, alive, dup, panic>> /\ x \in alive
      /\ mmap_cache' = [mmap_cache EXCEPT ![x] = c2]
  BY DEF UserMemCheck, Running
<1>2. Areas(l) /\ c \in Kept(l) /\ TypeOK /\ SpaceOK(l, c, pte[x])
  BY SpaceAreas DEF VInv
<1>3. end \in Nat
  BY VmaAssumption DEF Addr
<1>4. c2 \in Kept(l)
  <2>1. CASE UserAccess(addr, end)
    <3>1. Walk(l, end, write)[<<addr, c>>][2] \in Kept(l)
      BY <1>2, <1>3, WalkExact
    <3> QED BY <2>1, <3>1, CheckIsWalk
  <2>2. CASE ~UserAccess(addr, end)
    BY <1>2, <2>2, CheckIsWalk
  <2> QED BY <2>1, <2>2
<1> HIDE DEF c2, c, l
<1>5. c2 # NULL => \E i \in DOMAIN l : c2 = l[i]
  BY <1>4 DEF Kept
<1>6. SpaceOK(l, c2, pte[x])
  BY <1>2, <1>5 DEF SpaceOK
<1>7. c2 \in {NULL} \cup Vma
  BY <1>2, <1>5 DEF Areas
<1>8. TypeOK'
  BY <1>1, <1>2, <1>7 DEF TypeOK
<1>9. mmap_cache'[x] = c2 /\ \A y \in Mm \ {x} : mmap_cache'[y] = mmap_cache[y]
  BY <1>1, <1>2 DEF TypeOK
<1>10. SpaceOK(mmap_list'[x], mmap_cache'[x], pte'[x])
  BY <1>1, <1>6, <1>9 DEF l
<1> QED BY <1>1, <1>8, <1>9, <1>10, OneSpace

\* do_pgfault: and what makes it panic is never an access that the area allows.
LEMMA FaultStep ==
    ASSUME VInv, NEW x \in Mm, NEW addr \in Addr, NEW k \in {"R", "W"},
           do_pgfault(x, addr, k)
    PROVE  VInv' /\ panic' # "allowed access"
<1> DEFINE l == mmap_list[x]
           c == mmap_cache[x]
           e == pte[x]
           v == find_vma(l, c, addr)
           p == addr \div PGSIZE
           c2 == Cached(c, v)
<1>a. /\ TypeOK /\ l \in Seq(Vma) /\ SpaceOK(l, c, e)
      /\ c \in {NULL} \cup Vma /\ e \in [Page -> {NULL} \cup SUBSET Access]
  BY DEF VInv, TypeOK
<1>b. addr \in Nat /\ addr < Top
  BY VmaAssumption DEF Addr
<1>c. p \in Page
  <2>1. p \in Nat /\ p * PGSIZE <= addr
    BY <1>b, PageFacts DEF RoundDown
  <2>2. Top \in Nat /\ PGSIZE \in Nat \ {0}
    BY VmaAssumption
  <2>3. Top \div PGSIZE \in Nat /\ Top < (Top \div PGSIZE + 1) * PGSIZE
    BY <2>2
  <2> HIDE DEF p
  <2>4. p * PGSIZE < (Top \div PGSIZE + 1) * PGSIZE
    BY <1>b, <2>1, <2>2, <2>3
  <2>5. p < Top \div PGSIZE + 1
    BY <2>1, <2>2, <2>3, <2>4
  <2> QED BY <2>1, <2>3, <2>5 DEF Page
<1>1. /\ dup = NULL /\ UNCHANGED <<mmap_list, alive, dup>> /\ x \in alive /\ panic = "no"
      /\ ~Allows(e[p], k)
      /\ mmap_cache' = [mmap_cache EXCEPT ![x] = c2]
      /\ \/ panic' = "pgfault failed" /\ UNCHANGED pte
         \/ /\ v # NULL /\ e[p] = NULL /\ pte' = [pte EXCEPT ![x][p] = FaultPerm(v)]
            /\ UNCHANGED panic
         \/ /\ v # NULL /\ e[p] # NULL /\ UNCHANGED pte
            /\ panic' = IF k \notin v.flags THEN "refused access"
                        ELSE IF "EMPTY" \in v.flags THEN "empty area" ELSE "allowed access"
  BY DEF do_pgfault, Running
<1>2. SpaceOK(l, c2, e)
  BY <1>a, <1>b, CacheSpace
<1>3. v = NULL \/ \E i \in DOMAIN l : v = l[i] /\ InVma(l[i], addr)
  <2>1. c # NULL => \E i \in DOMAIN l : c = l[i]
    BY <1>a DEF SpaceOK
  <2> QED BY <1>a, <1>b, <2>1, FindFacts
<1>4. c2 \in {NULL} \cup Vma
  BY <1>a, <1>3 DEF Cached
<1> HIDE DEF c2, v, p, l, c, e
<1>5. ASSUME v # NULL, e[p] # NULL, "EMPTY" \notin v.flags PROVE k \notin v.flags
  <2>1. PICK i \in DOMAIN l : v = l[i] /\ InVma(l[i], addr)
    BY <1>3, <1>5
  <2>2. l[i] \in Vma /\ AreaOK(l[i])
    BY <1>a DEF SpaceOK
  <2>3. InVma(l[i], p * PGSIZE)
    BY <1>b, <2>1, <2>2, AreaHasPage DEF p
  <2>4. l[i].flags \ {"STACK"} \subseteq e[p]
    BY <1>a, <1>c, <1>5, <2>1, <2>3 DEF SpaceOK, PageOK
  <2> QED BY <1>1, <1>5, <2>1, <2>4 DEF Allows
<1>6. panic' # "allowed access" /\ panic' \in {"no", "pgfault failed", "refused access", "empty area"}
  BY <1>1, <1>5
<1>7. mmap_cache'[x] = c2 /\ \A y \in Mm \ {x} : mmap_cache'[y] = mmap_cache[y]
  BY <1>1, <1>a DEF TypeOK
<1>8. CASE UNCHANGED pte
  <2>1. TypeOK'
    BY <1>1, <1>4, <1>6, <1>8, <1>a DEF TypeOK
  <2>2. SpaceOK(mmap_list'[x], mmap_cache'[x], pte'[x])
    BY <1>1, <1>2, <1>7, <1>8 DEF l, e
  <2>3. VInv'
    BY <1>1, <1>7, <1>8, <2>1, <2>2, OneSpace
  <2> QED BY <1>6, <2>3
<1>9. CASE v # NULL /\ e[p] = NULL /\ pte' = [pte EXCEPT ![x][p] = FaultPerm(v)]
  <2>1. PICK i \in DOMAIN l : v = l[i] /\ InVma(l[i], addr)
    BY <1>3, <1>9
  <2> DEFINE e2 == [e EXCEPT ![p] = FaultPerm(v)]
  <2>2. FaultPerm(v) \in SUBSET Access
    BY DEF FaultPerm, Access
  <2>3. /\ e2 \in [Page -> {NULL} \cup SUBSET Access]
        /\ \A q \in Page : e2[q] = IF q = p THEN FaultPerm(v) ELSE e[q]
    BY <1>a, <2>2
  <2>4. pte' = [pte EXCEPT ![x] = e2]
    BY <1>9, <1>a DEF TypeOK, e
  <2> HIDE DEF e2
  <2>5. SpaceOK(l, c2, e2)
    BY <1>2, <1>a, <1>b, <1>c, <1>9, <2>1, <2>3, FaultSpace DEF p
  <2>6. TypeOK'
    BY <1>1, <1>4, <1>6, <1>a, <2>3, <2>4 DEF TypeOK
  <2>7. pte'[x] = e2 /\ \A y \in Mm \ {x} : pte'[y] = pte[y]
    BY <1>a, <2>4 DEF TypeOK
  <2>8. SpaceOK(mmap_list'[x], mmap_cache'[x], pte'[x])
    BY <1>1, <1>7, <2>5, <2>7 DEF l
  <2>9. VInv'
    BY <1>1, <1>7, <2>6, <2>7, <2>8, OneSpace
  <2> QED BY <1>6, <2>9
<1> QED BY <1>1, <1>8, <1>9

\* mm_destroy keeps the invariant.
LEMMA DestroyStep == ASSUME VInv, NEW x \in Mm, mm_destroy(x) PROVE VInv'
<1> DEFINE none == [p \in Page |-> NULL]
<1>1. /\ dup = NULL /\ UNCHANGED <<dup, panic>> /\ alive' = alive \ {x}
      /\ mmap_list' = [mmap_list EXCEPT ![x] = <<>>]
      /\ mmap_cache' = [mmap_cache EXCEPT ![x] = NULL]
      /\ pte' = [pte EXCEPT ![x] = none]
  BY DEF mm_destroy, Running, Gone
<1>2. TypeOK /\ none \in [Page -> {NULL} \cup SUBSET Access] /\ \A p \in Page : none[p] = NULL
  BY DEF VInv
<1> HIDE DEF none
<1>3. TypeOK'
  <2>1. mmap_list' \in [Mm -> Seq(Vma)]
    <3> DEFINE nil == <<>>
    <3>1. nil \in Seq(Vma)
      OBVIOUS
    <3>2. mmap_list' = [mmap_list EXCEPT ![x] = nil]
      BY <1>1
    <3> HIDE DEF nil
    <3> QED BY <1>2, <3>1, <3>2 DEF TypeOK
  <2> QED BY <1>1, <1>2, <2>1 DEF TypeOK
<1>4. mmap_list'[x] = <<>> /\ mmap_cache'[x] = NULL /\ pte'[x] = none
  BY <1>1, <1>2 DEF TypeOK
<1>5. \A y \in Mm \ {x} : /\ mmap_list'[y] = mmap_list[y] /\ mmap_cache'[y] = mmap_cache[y]
                          /\ pte'[y] = pte[y]
  BY <1>1, <1>2 DEF TypeOK
<1>6. SpaceOK(mmap_list'[x], mmap_cache'[x], pte'[x])
  BY <1>2, <1>4, EmptySpace
<1>7. Empty(x)'
  BY <1>2, <1>4 DEF Empty
<1> QED BY <1>1, <1>3, <1>5, <1>6, <1>7, OneSpace

\* copy_mm has created an empty address space.
LEMMA CopyStep == ASSUME VInv, NEW t \in Mm, NEW f \in Mm, copy_mm(t, f) PROVE VInv'
<1> DEFINE n == Len(mmap_list[f])
<1>1. /\ dup = NULL /\ dup' = <<t, f, n>> /\ f \in alive /\ t \notin alive
      /\ UNCHANGED <<mmap_list, mmap_cache, pte, alive, panic>>
  BY DEF copy_mm, Running
<1>2. TypeOK /\ TypeOK'
  BY <1>1 DEF VInv, TypeOK
<1>3. n \in Nat
  <2>1. mmap_list[f] \in Seq(Vma)
    BY <1>2 DEF TypeOK
  <2> QED BY <2>1
<1>4. Empty(t)
  BY <1>1 DEF VInv
<1>5. Copied(t, f, n)'
  BY <1>1, <1>3, <1>4 DEF Copied, Empty
<1>6. Copying'
  BY <1>1, <1>3, <1>5 DEF Copying
<1>7. \A x \in Mm : SpaceOK(mmap_list[x], mmap_cache[x], pte[x])'
  BY <1>1 DEF VInv
<1>8. \A x \in Mm \ alive : Empty(x)'
  BY <1>1 DEF VInv, Empty
<1>9. alive' = alive
  BY <1>1
<1> QED BY <1>2, <1>6, <1>7, <1>8, <1>9 DEF VInv

\* So does a dup_mmap that is given up.
LEMMA DupFailsStep == ASSUME VInv, DupFails PROVE VInv'
<1> DEFINE none == [p \in Page |-> NULL]
<1>1. PICK t \in Mm, f \in Mm, n \in Nat : dup = <<t, f, n>> /\ Copied(t, f, n)
  BY DEF DupFails, VInv, Copying
<1>2. /\ dup # NULL /\ dup' = NULL /\ UNCHANGED <<alive, panic>>
      /\ mmap_list' = [mmap_list EXCEPT ![t] = <<>>]
      /\ mmap_cache' = [mmap_cache EXCEPT ![t] = NULL]
      /\ pte' = [pte EXCEPT ![t] = none]
  BY <1>1 DEF DupFails, Gone
<1>3. TypeOK /\ none \in [Page -> {NULL} \cup SUBSET Access] /\ \A p \in Page : none[p] = NULL
  BY DEF VInv
<1> HIDE DEF none
<1>4. TypeOK'
  <2>1. mmap_list' \in [Mm -> Seq(Vma)]
    <3> DEFINE nil == <<>>
    <3>1. nil \in Seq(Vma)
      OBVIOUS
    <3>2. mmap_list' = [mmap_list EXCEPT ![t] = nil]
      BY <1>2
    <3> HIDE DEF nil
    <3> QED BY <1>3, <3>1, <3>2 DEF TypeOK
  <2> QED BY <1>2, <1>3, <2>1 DEF TypeOK
<1>5. mmap_list'[t] = <<>> /\ mmap_cache'[t] = NULL /\ pte'[t] = none
  BY <1>2, <1>3 DEF TypeOK
<1>6. \A y \in Mm \ {t} : /\ mmap_list'[y] = mmap_list[y] /\ mmap_cache'[y] = mmap_cache[y]
                          /\ pte'[y] = pte[y]
  BY <1>2, <1>3 DEF TypeOK
<1>7. ASSUME NEW x \in Mm PROVE SpaceOK(mmap_list'[x], mmap_cache'[x], pte'[x])
  <2>1. CASE x = t
    BY <1>3, <1>5, <2>1, EmptySpace
  <2>2. CASE x # t
    BY <1>6, <2>2 DEF VInv
  <2> QED BY <2>1, <2>2
<1>8. ASSUME NEW x \in Mm \ alive' PROVE Empty(x)'
  <2>1. CASE x = t
    BY <1>3, <1>5, <2>1 DEF Empty
  <2>2. CASE x # t
    <3>1. Empty(x)
      BY <1>1, <1>2, <1>8, <2>2 DEF VInv
    <3> QED BY <1>6, <2>2, <3>1 DEF Empty
  <2> QED BY <2>1, <2>2
<1> QED BY <1>2, <1>4, <1>7, <1>8 DEF VInv, Copying

\* dup_mmap copies one more area, in front of those it has copied.
LEMMA DupStepStep == ASSUME VInv, DupStep PROVE VInv'
<1>1. PICK t \in Mm, f \in Mm, n \in Nat : dup = <<t, f, n>> /\ Copied(t, f, n)
  BY DEF DupStep, VInv, Copying
<1> DEFINE l == mmap_list[t]
           m == mmap_list[f]
           v == m[n]
           e2 == [p \in Page |-> IF InVma(v, p * PGSIZE) THEN pte[f][p] ELSE pte[t][p]]
<1>a. /\ TypeOK /\ l \in Seq(Vma) /\ m \in Seq(Vma)
      /\ SpaceOK(l, mmap_cache[t], pte[t]) /\ SpaceOK(m, mmap_cache[f], pte[f])
      /\ pte[t] \in [Page -> {NULL} \cup SUBSET Access]
      /\ pte[f] \in [Page -> {NULL} \cup SUBSET Access]
  BY DEF VInv, TypeOK
<1>b. /\ t \notin alive /\ f \in alive /\ t # f
      /\ n \in 0 .. Len(m) /\ Len(l) = Len(m) - n /\ Len(m) \in Nat
      /\ \A i \in DOMAIN l : l[i] = m[i + n]
      /\ mmap_cache[t] = NULL
  BY <1>1, <1>a DEF Copied
<1>2. /\ dup # NULL /\ panic = "no" /\ UNCHANGED mmap_cache
      /\ \/ /\ n > 0 /\ InsertAsserts(l, v) /\ UNCHANGED <<alive, panic>>
            /\ mmap_list' = [mmap_list EXCEPT ![t] = Inserted(l, v)]
            /\ pte' = [pte EXCEPT ![t] = e2]
            /\ dup' = <<t, f, n - 1>>
         \/ panic' = "overlap" /\ UNCHANGED <<mmap_list, pte, dup, alive>>
         \/ /\ n = 0 /\ alive' = alive \cup {t} /\ dup' = NULL
            /\ UNCHANGED <<mmap_list, pte, panic>>
  BY <1>1, <1>a DEF DupStep, TypeOK
<1>3. \A x \in Mm \ alive : x # t => Empty(x)
  BY <1>1, <1>2 DEF VInv
<1>4. CASE panic' = "overlap" /\ UNCHANGED <<mmap_list, pte, dup, alive>>
  <2>1. TypeOK'
    BY <1>2, <1>4, <1>a DEF TypeOK
  <2>2. Copied(t, f, n)'
    BY <1>1, <1>2, <1>4 DEF Copied
  <2>3. Copying'
    BY <1>1, <1>4, <2>2 DEF Copying
  <2>4. \A x \in Mm : SpaceOK(mmap_list[x], mmap_cache[x], pte[x])'
    BY <1>2, <1>4 DEF VInv
  <2>5. \A x \in Mm \ alive' : (dup' = NULL \/ x # dup'[1]) => Empty(x)'
    BY <1>1, <1>2, <1>3, <1>4 DEF Empty
  <2> QED BY <2>1, <2>3, <2>4, <2>5 DEF VInv
<1>5. CASE n = 0 /\ alive' = alive \cup {t} /\ dup' = NULL /\ UNCHANGED <<mmap_list, pte, panic>>
  <2>1. TypeOK'
    BY <1>2, <1>5, <1>a DEF TypeOK
  <2>2. \A x \in Mm : SpaceOK(mmap_list[x], mmap_cache[x], pte[x])'
    BY <1>2, <1>5 DEF VInv
  <2>3. \A x \in Mm \ alive' : Empty(x)'
    BY <1>2, <1>3, <1>5 DEF Empty
  <2> QED BY <1>5, <2>1, <2>2, <2>3 DEF VInv, Copying
<1>6. CASE /\ n > 0 /\ InsertAsserts(l, v) /\ UNCHANGED <<alive, panic>>
           /\ mmap_list' = [mmap_list EXCEPT ![t] = Inserted(l, v)]
           /\ pte' = [pte EXCEPT ![t] = e2]
           /\ dup' = <<t, f, n - 1>>
  <2>1. n \in DOMAIN m /\ v \in Vma /\ AreaOK(v)
    <3>1. n \in DOMAIN m
      BY <1>6, <1>a, <1>b
    <3> QED BY <1>a, <3>1 DEF SpaceOK
  <2>2. After(l, v) = 0
    <3>1. ASSUME NEW i \in DOMAIN l PROVE l[i].start > v.start
      <4>1. i \in Nat /\ i + n \in DOMAIN m /\ l[i] = m[i + n] /\ n < i + n
        BY <1>a, <1>b
      <4>2. m[n].start < m[n].end /\ m[n].end <= m[i + n].start
        BY <1>a, <2>1, <4>1 DEF SpaceOK, SortedList
      <4>3. m[i + n] \in Vma
        BY <1>a, <4>1
      <4> QED BY <2>1, <4>1, <4>2, <4>3, VmaFields
    <3>2. After(l, v) \in 0 .. Len(l) /\ \A i \in 1 .. After(l, v) : l[i].start <= v.start
      BY <1>a, <2>1, AfterFacts
    <3>3. ASSUME After(l, v) > 0 PROVE FALSE
      <4>1. 1 \in 1 .. After(l, v) /\ 1 \in DOMAIN l
        BY <1>a, <3>2, <3>3
      <4>2. l[1].start <= v.start /\ l[1].start > v.start
        BY <3>1, <3>2, <4>1
      <4>3. l[1] \in Vma
        BY <1>a, <4>1
      <4> QED BY <2>1, <4>2, <4>3, VmaFields
    <3> QED BY <1>a, <3>2, <3>3
  <2>3. /\ Inserted(l, v) \in Seq(Vma) /\ Len(Inserted(l, v)) = Len(m) - (n - 1)
        /\ \A i \in DOMAIN Inserted(l, v) :
              Inserted(l, v)[i] = m[i + (n - 1)] /\ i + (n - 1) \in DOMAIN m
    <3>1. /\ Inserted(l, v) \in Seq(Vma) /\ Len(Inserted(l, v)) = Len(l) + 1
          /\ \A i \in 1 .. Len(l) + 1 : Inserted(l, v)[i] = IF i = 1 THEN v ELSE l[i - 1]
      <4>1. /\ Inserted(l, v) \in Seq(Vma) /\ Len(Inserted(l, v)) = Len(l) + 1
            /\ \A i \in 1 .. Len(l) + 1 : Inserted(l, v)[i] =
                  IF i <= 0 THEN l[i] ELSE IF i = 0 + 1 THEN v ELSE l[i - 1]
        <5>1. /\ Inserted(l, v) \in Seq(Vma) /\ Len(Inserted(l, v)) = Len(l) + 1
              /\ \A i \in 1 .. Len(l) + 1 : Inserted(l, v)[i] =
                    IF i <= After(l, v) THEN l[i]
                    ELSE IF i = After(l, v) + 1 THEN v ELSE l[i - 1]
          BY <1>a, <2>1, InsertedFacts
        <5> HIDE DEF l, v
        <5> QED BY <2>2, <5>1
      <4> QED BY <1>a, <4>1
    <3>2. ASSUME NEW i \in 1 .. Len(l) + 1
          PROVE  Inserted(l, v)[i] = m[i + (n - 1)] /\ i + (n - 1) \in DOMAIN m
      <4>1. i + (n - 1) \in DOMAIN m
        BY <1>6, <1>a, <1>b
      <4>2. CASE i = 1
        BY <3>1, <4>1, <4>2
      <4>3. CASE i # 1
        <5>1. i - 1 \in DOMAIN l /\ (i - 1) + n = i + (n - 1)
          BY <1>a, <1>b, <4>3
        <5>2. l[i - 1] = m[i + (n - 1)]
          BY <1>b, <5>1
        <5> QED BY <3>1, <4>1, <4>3, <5>2
      <4> QED BY <4>2, <4>3
    <3>3. Len(Inserted(l, v)) = Len(m) - (n - 1) /\ DOMAIN Inserted(l, v) = 1 .. Len(l) + 1
      BY <1>a, <1>b, <3>1
    <3> QED BY <3>1, <3>2, <3>3
  <2>4. /\ e2 \in [Page -> {NULL} \cup SUBSET Access]
        /\ \A p \in Page : e2[p] = IF InVma(v, p * PGSIZE) THEN pte[f][p] ELSE pte[t][p]
    BY <1>a
  <2> DEFINE k == Inserted(l, v)
  <2>5. SpaceOK(k, mmap_cache[t], e2)
    <3>1. \A p \in Page : PageOK(v, e2, p)
      <4>1. \A p \in Page : PageOK(v, pte[f], p)
        BY <1>a, <2>1 DEF SpaceOK
      <4> HIDE DEF v, e2
      <4> QED BY <2>4, <4>1 DEF PageOK
    <3>2. \A p \in Page : ~InVma(v, p * PGSIZE) => e2[p] = pte[t][p]
      BY <2>4
    <3> HIDE DEF e2, v
    <3> QED BY <1>6, <1>a, <2>1, <3>1, <3>2, InsertSpace
  <2>k. \A j \in DOMAIN k : k[j] = v \/ \E i \in DOMAIN l : k[j] = l[i]
    BY <1>a, <2>1, InsertedSet
  <2> HIDE DEF e2, k, v, l, m
  <2>6. /\ mmap_list'[t] = k /\ pte'[t] = e2 /\ mmap_cache' = mmap_cache
        /\ \A y \in Mm \ {t} : mmap_list'[y] = mmap_list[y] /\ pte'[y] = pte[y]
    BY <1>2, <1>6, <1>a DEF TypeOK, k
  <2>7. TypeOK'
    BY <1>2, <1>6, <1>a, <2>3, <2>4 DEF TypeOK, k
  <2>8. ASSUME NEW x \in Mm PROVE SpaceOK(mmap_list[x], mmap_cache[x], pte[x])'
    <3>1. CASE x = t
      BY <2>5, <2>6, <3>1
    <3>2. CASE x # t
      BY <2>6, <3>2 DEF VInv
    <3> QED BY <3>1, <3>2
  <2>9. \A x \in Mm \ alive' : (dup' = NULL \/ x # dup'[1]) => Empty(x)'
    <3>1. dup' # NULL /\ dup'[1] = t /\ alive' = alive
      <4>1. n - 1 \in Nat
        BY <1>6
      <4>2. <<t, f, n - 1>> \in Mm \X Mm \X Nat
        BY <4>1
      <4> QED BY <1>6, <4>2, VmmAssumption
    <3> QED BY <1>3, <2>6, <3>1 DEF Empty
  <2>10. Copied(t, f, n - 1)'
    <3>1. t \in Mm \ alive' /\ f \in alive' /\ mmap_list'[f] = m /\ pte'[f] = pte[f]
      BY <1>6, <1>b, <2>6 DEF m
    <3>2. n - 1 \in 0 .. Len(m)
      BY <1>6, <1>b
    <3>3. mmap_cache'[t] = NULL
      BY <1>b, <2>6
    <3>4. \A p \in Page : e2[p] # NULL => e2[p] = pte[f][p]
      BY <1>1, <2>4 DEF Copied
    <3>5. ASSUME NEW j \in DOMAIN k, NEW p \in Page, InVma(k[j], p * PGSIZE)
          PROVE  e2[p] = pte[f][p]
      <4>1. CASE InVma(v, p * PGSIZE)
        BY <2>4, <4>1
      <4>2. CASE ~InVma(v, p * PGSIZE)
        <5>1. PICK i \in DOMAIN l : k[j] = l[i]
          BY <2>k, <3>5, <4>2
        <5>2. pte[t][p] = pte[f][p]
          BY <1>1, <3>5, <5>1 DEF Copied, l
        <5> QED BY <2>4, <4>2, <5>2
      <4> QED BY <4>1, <4>2
    <3>6. Len(k) = Len(m) - (n - 1) /\ \A i \in DOMAIN k : k[i] = m[i + (n - 1)]
      BY <2>3 DEF k
    <3> QED BY <2>6, <3>1, <3>2, <3>3, <3>4, <3>5, <3>6 DEF Copied
  <2>11. Copying'
    <3>1. n - 1 \in Nat
      BY <1>6
    <3> QED BY <1>6, <2>10, <3>1 DEF Copying
  <2> QED BY <2>7, <2>8, <2>9, <2>11 DEF VInv
<1> QED BY <1>2, <1>4, <1>5, <1>6

----------------------------------------------------------------------------
(***************************************************************************)
(* The theorems.                                                           *)
(***************************************************************************)

\* Every step keeps the invariant, and none finds the page of an allowed access
\* mapped without the permission.
LEMMA StepVInv ==
    VInv /\ [Next]_vars => VInv' /\ (panic # "allowed access" => panic' # "allowed access")
<1> SUFFICES ASSUME VInv, [Next]_vars
             PROVE  VInv' /\ (panic # "allowed access" => panic' # "allowed access")
  OBVIOUS
<1>1. ASSUME NEW x \in Mm, mm_create(x)
      PROVE  VInv' /\ panic' = panic
  BY <1>1, CreateStep DEF mm_create
<1>2. ASSUME NEW x \in Mm, NEW a \in Addr, NEW len \in 0 .. MaxLen, NEW fl \in SegFlags,
             MapSegment(x, a, len, fl)
      PROVE  VInv' /\ panic' \in {panic, "overlap"}
  BY <1>2, MapSteps DEF MapSegment, mm_map
<1>3. ASSUME NEW x \in Mm, MapStack(x)
      PROVE  VInv' /\ panic' \in {panic, "overlap"}
  BY <1>3, MapSteps DEF MapStack, mm_map
<1>4. ASSUME NEW x \in Mm, NEW a \in Addr, NEW len \in 0 .. MaxLen, NEW w \in BOOLEAN,
             UserMemCheck(x, a, len, w)
      PROVE  VInv' /\ panic' = panic
  <2>1. len \in Nat
    BY VmmAssumption
  <2> QED BY <1>4, <2>1, CheckStep DEF UserMemCheck
<1>5. ASSUME NEW x \in Mm, NEW a \in Addr, NEW k \in {"R", "W"}, do_pgfault(x, a, k)
      PROVE  VInv' /\ panic' # "allowed access"
  BY <1>5, FaultStep
<1>6. ASSUME NEW x \in Mm, NEW y \in Mm, copy_mm(x, y)
      PROVE  VInv' /\ panic' = panic
  BY <1>6, CopyStep DEF copy_mm
<1>7. CASE DupStep
  <2>1. panic' \in {panic, "overlap"}
    BY <1>7 DEF DupStep
  <2> QED BY <1>7, <2>1, DupStepStep
<1>8. CASE DupFails
  BY <1>8, DupFailsStep DEF DupFails
<1>9. ASSUME NEW x \in Mm, mm_destroy(x)
      PROVE  VInv' /\ panic' = panic
  BY <1>9, DestroyStep DEF mm_destroy
<1>10. CASE Panicked \/ UNCHANGED vars
  <2>1. UNCHANGED <<mmap_list, mmap_cache, pte, alive, dup, panic>>
    BY <1>10 DEF Panicked, vars
  <2>2. TypeOK'
    BY <2>1 DEF VInv, TypeOK
  <2>3. \A x \in Mm : SpaceOK(mmap_list[x], mmap_cache[x], pte[x])'
    BY <2>1 DEF VInv
  <2>4. \A x \in Mm \ alive' : (dup' = NULL \/ x # dup'[1]) => Empty(x)'
    BY <2>1 DEF VInv, Empty
  <2>5. Copying'
    BY <2>1 DEF VInv, Copying, Copied
  <2> QED BY <2>1, <2>2, <2>3, <2>4, <2>5 DEF VInv
<1> QED BY <1>1, <1>2, <1>3, <1>4, <1>5, <1>6, <1>7, <1>8, <1>9, <1>10 DEF Next

\* Address spaces stay in order through load_icode, fork, page faults, checks and destruction:
\* lists ascend and their areas are apart, caches are listed, pages lie inside areas with what the
\* area allows, and a dup_mmap in progress has copied exactly the areas behind it.
THEOREM SpacesCorrect == Spec => []VInv
<1>1. VInv /\ [Next]_vars => VInv'
  BY StepVInv
<1> QED BY <1>1, InitVInv, PTL DEF Spec

\* insert_vma_struct keeps every list of areas ascending and the areas apart, in
\* whatever order mm_map and dup_mmap call it.
THEOREM SortedCorrect == Spec => []Sorted
<1>1. VInv => Sorted
  BY DEF VInv, SpaceOK, Sorted
<1> QED BY <1>1, SpacesCorrect, PTL

\* dup_mmap gives the child the areas and the page permissions of its parent.
THEOREM ForkCorrect == Spec => []ForkCopies
<1>1. VInv => ForkCopies
  <2> SUFFICES ASSUME VInv, dup # NULL, dup[3] = 0
               PROVE  mmap_list[dup[1]] = mmap_list[dup[2]] /\ pte[dup[1]] = pte[dup[2]]
    BY DEF ForkCopies
  <2>1. PICK t \in Mm, f \in Mm, n \in Nat : dup = <<t, f, n>> /\ Copied(t, f, n)
    BY DEF VInv, Copying
  <2>2. n = 0 /\ dup[1] = t /\ dup[2] = f
    BY <2>1
  <2>3. /\ mmap_list[t] \in Seq(Vma) /\ mmap_list[f] \in Seq(Vma)
        /\ pte[t] \in [Page -> {NULL} \cup SUBSET Access]
        /\ pte[f] \in [Page -> {NULL} \cup SUBSET Access]
        /\ SpaceOK(mmap_list[f], mmap_cache[f], pte[f])
    BY DEF VInv, TypeOK
  <2>4. mmap_list[t] = mmap_list[f]
    <3>1. /\ Len(mmap_list[t]) = Len(mmap_list[f])
          /\ \A i \in 1 .. Len(mmap_list[t]) : mmap_list[t][i] = mmap_list[f][i]
      BY <2>1, <2>2, <2>3 DEF Copied
    <3> QED BY <2>3, <3>1, SeqEqual
  <2>5. ASSUME NEW p \in Page PROVE pte[t][p] = pte[f][p]
    <3>1. CASE pte[f][p] = NULL
      BY <2>1, <3>1 DEF Copied
    <3>2. CASE pte[f][p] # NULL
      <4>1. PICK i \in DOMAIN mmap_list[f] : InVma(mmap_list[f][i], p * PGSIZE)
        BY <2>3, <3>2 DEF SpaceOK
      <4> QED BY <2>1, <2>4, <4>1 DEF Copied
    <3> QED BY <3>1, <3>2
  <2> QED BY <2>2, <2>3, <2>4, <2>5
<1> QED BY <1>1, SpacesCorrect, PTL

\* The loop of user_mem_check over areas, with the cache of find_vma, answers as
\* a check of every byte of the range would.
THEOREM UserMemCheckCorrect == Spec => []UserMemCheckExact
<1>1. VInv => UserMemCheckExact
  <2> SUFFICES ASSUME VInv, NEW x \in alive, NEW a \in Addr, NEW len \in 1 .. MaxLen,
                      NEW w \in BOOLEAN
               PROVE  user_mem_check(mmap_list[x], mmap_cache[x], a, len, w)[1]
                         <=> /\ a + len < Top
                             /\ UserAccess(a, a + len)
                             /\ \A b \in a .. a + len - 1 : ByteOk(x, b, w)
    BY DEF UserMemCheckExact
  <2> DEFINE l == mmap_list[x]
             c == mmap_cache[x]
             end == (a + len) % Top
  <2>1. x \in Mm
    BY DEF VInv, TypeOK
  <2>2. Areas(l) /\ c \in Kept(l)
    BY <2>1, SpaceAreas
  <2>3. \A b : ByteOk(x, b, w) <=> ByteIn(l, b, w)
    BY DEF ByteOk, ByteIn
  <2>4. /\ a \in Nat /\ a < Top /\ len \in Nat /\ len > 0 /\ len < Top
        /\ Top \in Nat /\ USERTOP \in Nat /\ USERTOP < Top /\ USERBASE \in Nat
    BY VmaAssumption, VmmAssumption DEF Addr
  <2>5. CASE a + len < Top
    <3>1. end = a + len /\ end \in Nat
      BY <2>4, <2>5
    <3>2. UserAccess(a, end) =>
             (Walk(l, end, w)[<<a, c>>][1] <=> \A b \in a .. end - 1 : ByteIn(l, b, w))
      BY <2>2, <3>1, WalkExact
    <3>3. user_mem_check(l, c, a, len, w)[1]
             <=> UserAccess(a, end) /\ \A b \in a .. end - 1 : ByteIn(l, b, w)
      BY <3>2, CheckIsWalk
    <3>4. /\ UserAccess(a, end) <=> UserAccess(a, a + len)
          /\ (\A b \in a .. end - 1 : ByteIn(l, b, w))
                <=> \A b \in a .. a + len - 1 : ByteOk(x, b, w)
      <4> HIDE DEF l, c, end
      <4>1. a .. end - 1 = a .. a + len - 1
        BY <2>4, <3>1
      <4>2. UserAccess(a, end) <=> UserAccess(a, a + len)
        BY <3>1
      <4>3. (\A b \in a .. end - 1 : ByteIn(l, b, w))
               <=> \A b \in a .. a + len - 1 : ByteOk(x, b, w)
        BY <2>3, <4>1, Zenon
      <4> QED BY <4>2, <4>3
    <3> QED BY <2>5, <3>3, <3>4, Zenon
  <2>6. CASE ~(a + len < Top)
    <3>1. end = a + len - Top
      <4>1. a + len - Top \in 0 .. Top - 1
        BY <2>4, <2>6
      <4>2. a + len = (a + len - Top) + Top
        BY <2>4
      <4> QED BY <2>4, <4>1, <4>2
    <3>2. ~UserAccess(a, end)
      BY <2>4, <3>1 DEF UserAccess
    <3> QED BY <2>6, <3>2, CheckIsWalk
  <2> QED BY <2>5, <2>6
<1> QED BY <1>1, SpacesCorrect, PTL

\* An access that the area allows never ends in the swap path of do_pgfault, and
\* every page of code is mapped for execution, in the area of every segment that has
\* bytes: load_icode and dup_mmap map enough.
THEOREM AllowedCorrect == Spec => []AllowedAccessServed
<1> DEFINE Good == panic # "allowed access"
<1>1. Init => Good
  BY DEF Init
<1>2. VInv /\ Good /\ [Next]_vars => Good'
  BY StepVInv
<1>3. VInv /\ Good => AllowedAccessServed
  <2> SUFFICES ASSUME VInv, NEW x \in alive, NEW p \in Page, NEW i \in DOMAIN mmap_list[x],
                      "X" \in mmap_list[x][i].flags, "EMPTY" \notin mmap_list[x][i].flags,
                      InVma(mmap_list[x][i], p * PGSIZE)
               PROVE  Allows(pte[x][p], "X")
    BY DEF AllowedAccessServed
  <2>1. SpaceOK(mmap_list[x], mmap_cache[x], pte[x])
    BY DEF VInv, TypeOK
  <2>2. AreaOK(mmap_list[x][i]) /\ PageOK(mmap_list[x][i], pte[x], p)
    BY <2>1 DEF SpaceOK
  <2>3. "STACK" \notin mmap_list[x][i].flags
    BY <2>2 DEF AreaOK, AreaFlags, SegFlags, StackFlags
  <2> QED BY <2>2, <2>3 DEF PageOK, Allows
<1> HIDE DEF Good
<1> QED BY <1>1, <1>2, <1>3, SpacesCorrect, PTL DEF Spec
=============================================================================
