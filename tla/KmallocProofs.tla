---------------------------- MODULE KmallocProofs -----------------------------
(***************************************************************************)
(* Proofs about Kmalloc: the free list is one circle, sorted and without   *)
(* two blocks that touch, wherever slobfree points; every unit of every    *)
(* page the heap got belongs to one block; and blocks are as large as was  *)
(* asked for, but for the bytes find_order loses.  They hold for any       *)
(* number of pages, any unit and page of at least two bytes and two units, *)
(* any sizes and any order of the calls.                                   *)
(***************************************************************************)
EXTENDS Kmalloc, FiniteSetTheorems, WellFoundedInduction, SequenceTheorems, TLAPS

\* A set of naturals has a least member.
LEMMA Least ==
    ASSUME NEW S \in SUBSET Nat, S # {}
    PROVE  \E x \in S : \A y \in S : x <= y
<1>1. PICK x \in S : \A y \in S : ~(<<y, x>> \in OpToRel(<, Nat))
  BY NatLessThanWellFounded, WFMin, Zenon
<1>2. \A y \in S : ~(y < x)
  BY <1>1, Zenon DEF OpToRel
<1>3. \A y \in S : x <= y
  BY <1>2
<1> QED BY <1>3

\* What holds of 0 and goes from each number to the next holds of all.
LEMMA Upward ==
    ASSUME NEW S \in SUBSET Nat, 0 \in S, \A n \in S : n + 1 \in S
    PROVE  S = Nat
<1> SUFFICES ASSUME Nat \ S # {} PROVE FALSE
  OBVIOUS
<1>1. PICK n \in Nat \ S : \A k \in Nat \ S : n <= k
  BY Least
<1>2. n # 0 /\ n - 1 \in Nat
  BY <1>1
<1>3. n - 1 \in S
  BY <1>1, <1>2
<1> QED BY <1>1, <1>2, <1>3

\* The first n values of x, f[x], f[f[x]], ...
Begins(B, f, x, n, w) ==
    w \in [0 .. n -> B] /\ w[0] = x /\ \A i \in 0 .. n : i > 0 => w[i] = f[w[i - 1]]

\* They exist.
LEMMA BeginsExists ==
    ASSUME NEW B, NEW f \in [B -> B], NEW x \in B, NEW n \in Nat
    PROVE  \E w : Begins(B, f, x, n, w)
<1> DEFINE S == {k \in Nat : \E w : Begins(B, f, x, k, w)}
<1>1. 0 \in S
  <2> DEFINE w == [i \in 0 .. 0 |-> x]
  <2>1. Begins(B, f, x, 0, w)
    BY DEF Begins
  <2> QED BY <2>1
<1>2. ASSUME NEW k \in S PROVE k + 1 \in S
  <2>1. PICK w : Begins(B, f, x, k, w)
    OBVIOUS
  <2> DEFINE v == [i \in 0 .. k + 1 |-> IF i <= k THEN w[i] ELSE f[w[k]]]
  <2>2. k \in Nat
    OBVIOUS
  <2>3. w[k] \in B /\ \A i \in 0 .. k : w[i] \in B
    BY <2>1, <2>2 DEF Begins
  <2>4. \A i \in 0 .. k + 1 : i \notin 0 .. k => i = k + 1
    BY <2>2
  <2>5. v \in [0 .. k + 1 -> B]
    BY <2>2, <2>3
  <2>6. v[0] = x
    BY <2>1, <2>2 DEF Begins
  <2>7. ASSUME NEW i \in 0 .. k + 1, i > 0 PROVE v[i] = f[v[i - 1]]
    <3>1. CASE i <= k
      <4>1. i \in 0 .. k /\ i - 1 \in 0 .. k /\ i - 1 \in 0 .. k + 1 /\ i - 1 <= k
        BY <2>2, <2>7, <3>1
      <4>2. v[i] = w[i] /\ v[i - 1] = w[i - 1]
        BY <2>7, <3>1, <4>1
      <4> QED BY <2>1, <2>7, <4>1, <4>2 DEF Begins
    <3>2. CASE i = k + 1
      <4>1. i - 1 = k /\ ~(i <= k) /\ k \in 0 .. k + 1 /\ k <= k
        BY <2>2, <3>2
      <4>2. v[i] = f[w[k]] /\ v[k] = w[k]
        BY <2>7, <4>1
      <4> QED BY <4>1, <4>2
    <3> QED BY <2>2, <2>4, <2>7, <3>1, <3>2
  <2>8. Begins(B, f, x, k + 1, v)
    BY <2>5, <2>6, <2>7 DEF Begins
  <2> QED BY <2>2, <2>8
<1>3. S = Nat
  <2> HIDE DEF S
  <2>1. S \in SUBSET Nat
    BY DEF S
  <2> QED BY <1>1, <1>2, <2>1, Upward
<1> QED BY <1>3

\* Two of them agree as far as both go.
LEMMA BeginsUnique ==
    ASSUME NEW B, NEW f \in [B -> B], NEW x \in B, NEW n \in Nat, NEW k \in Nat,
           NEW w, Begins(B, f, x, n, w), NEW v, Begins(B, f, x, k, v),
           NEW i \in Nat, i <= n, i <= k
    PROVE  w[i] = v[i]
<1> DEFINE S == {j \in Nat : j <= n /\ j <= k => w[j] = v[j]}
<1>1. 0 \in S
  BY DEF Begins
<1>2. ASSUME NEW j \in S PROVE j + 1 \in S
  <2> SUFFICES ASSUME j + 1 <= n, j + 1 <= k PROVE w[j + 1] = v[j + 1]
    OBVIOUS
  <2>1. j + 1 \in 0 .. n /\ j + 1 \in 0 .. k /\ j + 1 > 0 /\ (j + 1) - 1 = j /\ w[j] = v[j]
    OBVIOUS
  <2> HIDE DEF S
  <2> QED BY <2>1 DEF Begins
<1>3. S = Nat
  <2> HIDE DEF S
  <2>1. S \in SUBSET Nat
    BY DEF S
  <2> QED BY <1>1, <1>2, <2>1, Upward
<1> QED BY <1>3

\* All of them.
Goes(B, f, x, w) == w \in [Nat -> B] /\ w[0] = x /\ \A i \in Nat : w[i + 1] = f[w[i]]

\* A function can be applied again and again.
LEMMA Iterates ==
    ASSUME NEW B, NEW f, f \in [B -> B], NEW x, x \in B
    PROVE  \E w : Goes(B, f, x, w)
<1> DEFINE v(n) == CHOOSE w : Begins(B, f, x, n, w)
           u == [n \in Nat |-> v(n)[n]]
<1>1. ASSUME NEW n \in Nat PROVE Begins(B, f, x, n, v(n))
  BY BeginsExists
<1> HIDE DEF v
<1>2. u \in [Nat -> B]
  BY <1>1 DEF Begins
<1>3. u[0] = x
  BY <1>1 DEF Begins
<1> USE DEF Goes
<1>4. ASSUME NEW i \in Nat PROVE u[i + 1] = f[u[i]]
  <2>1. v(i + 1)[i + 1] = f[v(i + 1)[i]]
    <3>1. i + 1 \in Nat /\ i + 1 \in 0 .. i + 1 /\ i + 1 > 0 /\ (i + 1) - 1 = i
      OBVIOUS
    <3>2. Begins(B, f, x, i + 1, v(i + 1))
      BY <1>1, <3>1
    <3> QED BY <3>1, <3>2 DEF Begins
  <2>2. v(i + 1)[i] = v(i)[i]
    BY <1>1, BeginsUnique
  <2> QED BY <2>1, <2>2
<1> QED BY <1>2, <1>3, <1>4

\* Powers of two.
LEMMA Pow2Facts ==
    /\ Pow2[0] = 1
    /\ \A k \in Nat : Pow2[k] \in Nat \ {0} /\ Pow2[k + 1] = 2 * Pow2[k]
<1> DEFINE f == [y \in Nat |-> 2 * y]
           Is(p) == p = [k \in Nat |-> IF k = 0 THEN 1 ELSE 2 * p[k - 1]]
<1>1. PICK w \in [Nat -> Nat] : w[0] = 1 /\ \A i \in Nat : w[i + 1] = f[w[i]]
  <2>1. f \in [Nat -> Nat] /\ 1 \in Nat
    OBVIOUS
  <2> HIDE DEF f
  <2>2. \E w : Goes(Nat, f, 1, w)
    BY <2>1, Iterates, Zenon
  <2> QED BY <2>2 DEF Goes
<1>2. Is(w)
  <2>1. ASSUME NEW k \in Nat PROVE w[k] = IF k = 0 THEN 1 ELSE 2 * w[k - 1]
    <3>1. CASE k = 0
      BY <1>1, <3>1
    <3>2. CASE k # 0
      <4>1. k - 1 \in Nat /\ (k - 1) + 1 = k /\ w[k - 1] \in Nat
        BY <3>2
      <4> QED BY <1>1, <3>2, <4>1
    <3> QED BY <3>1, <3>2
  <2> QED BY <2>1
<1>3. Is(Pow2)
  <2>1. Pow2 = CHOOSE p : Is(p)
    BY DEF Pow2
  <2> HIDE DEF Is
  <2> QED BY <1>2, <2>1
<1>4. Pow2[0] = 1
  BY <1>3
<1>5. ASSUME NEW k \in Nat PROVE Pow2[k + 1] = 2 * Pow2[k]
  <2>1. k + 1 \in Nat /\ k + 1 # 0 /\ (k + 1) - 1 = k
    OBVIOUS
  <2> QED BY <1>3, <2>1
<1> DEFINE S == {k \in Nat : Pow2[k] \in Nat \ {0}}
<1>6. 0 \in S
  BY <1>4
<1>7. ASSUME NEW k \in S PROVE k + 1 \in S
  BY <1>5
<1>8. S = Nat
  <2>1. S \in SUBSET Nat
    OBVIOUS
  <2> HIDE DEF S
  <2> QED BY <1>6, <1>7, <2>1, Upward
<1>9. ASSUME NEW k \in Nat PROVE Pow2[k] \in Nat \ {0}
  BY <1>8
<1> HIDE DEF S, f, Is
<1> QED BY <1>4, <1>5, <1>9

----------------------------------------------------------------------------
(***************************************************************************)
(* The invariant.                                                          *)
(***************************************************************************)

\* The blocks, free or in use, by their first unit; those in use; and their units.
Starts(g) == DOMAIN g.units
Taken(g) == Starts(g) \ Blocks(g)
Chunk(g, x) == x .. x + g.units[x] - 1
Space(g) == UNION {Chunk(g, x) : x \in Starts(g)}

\* Where the pages end.
Limit == (NPage + 1) * UPP

\* A heap; the arena is its lowest block, one unit that nothing touches.
Heap(g) ==
    /\ g \in [next : [Blocks(g) -> Blocks(g)], units : [Starts(g) -> Nat \ {0}],
              slobfree : Blocks(g)]
    /\ Blocks(g) \subseteq Starts(g) /\ Starts(g) \subseteq Nat
    /\ arena \in Blocks(g) /\ g.units[arena] = 1
    /\ \A x \in Starts(g) : /\ x # arena => UPP <= x
                            /\ x + g.units[x] <= Limit

\* The list of free blocks ascends, and the last one leads back to the arena.
Leads(B, b, x) ==
    \/ b < x /\ \A c \in B : c <= b \/ x <= c
    \/ x = arena /\ \A c \in B : c <= b
Circular(g) == \A b \in Blocks(g) : Leads(Blocks(g), b, g.next[b])

\* Blocks do not overlap, and free ones do not even touch.
Apart(g) == \A x, y \in Starts(g) : x < y => x + g.units[x] <= y
Loose(g) == \A x, y \in Blocks(g) : x < y => x + g.units[x] # y

Slob(g) == Heap(g) /\ Circular(g) /\ Apart(g) /\ Loose(g)

\* The units of the pages in S.
UnitsOf(S) == UNION {p * UPP .. p * UPP + UPP - 1 : p \in S}

BigRun(e) == Run(e.page, Pow2[e.order])
BigPages(s) == UNION {BigRun(s[i]) : i \in DOMAIN s}
Descriptors(s) == {s[i].bb : i \in DOMAIN s}
Small(g, s) == Taken(g) \ Descriptors(s)

\* The list s of big blocks: descriptors of their own, pages of their own.
Entry == [bb : Nat, order : Nat, page : Page]
BigBlocks(g, s, ps) ==
    /\ s \in Seq(Entry)
    /\ \A i \in DOMAIN s : /\ s[i].bb \in Taken(g) /\ g.units[s[i].bb] = 2
                           /\ BigRun(s[i]) \subseteq Page \ ps
    /\ \A i, j \in DOMAIN s : i # j => /\ s[i].bb # s[j].bb
                                       /\ BigRun(s[i]) \cap BigRun(s[j]) = {}

\* The blocks in use are the big ones, and the small ones behind their headers.
Live(g, s, lv) ==
    /\ DOMAIN lv = {s[i].page * UPP : i \in DOMAIN s} \cup {x + 1 : x \in Small(g, s)}
    /\ \A i \in DOMAIN s :
          /\ lv[s[i].page * UPP] \in Nat
          /\ lv[s[i].page * UPP] < (PAGE_SIZE + 1) * Pow2[s[i].order]
    /\ \A x \in Small(g, s) :
          /\ lv[x + 1] \in Nat
          /\ lv[x + 1] + SLOB_UNIT <= g.units[x] * SLOB_UNIT

\* The heap g has all pages but the free ones and those of big blocks.
Good(g, s, ps, lv) ==
    /\ Slob(g)
    /\ \A x \in Taken(g) : g.units[x] >= 2
    /\ ps \subseteq Page
    /\ BigBlocks(g, s, ps)
    /\ Space(g) = {arena} \cup UnitsOf(Page \ (ps \cup BigPages(s)))
    /\ Live(g, s, lv)

KInv == Good(h, bigblocks, pages, live)

\* What the walk along the list meets.
LEMMA WalkFacts ==
    ASSUME NEW g, g.next \in [Blocks(g) -> Blocks(g)], g.slobfree \in Blocks(g)
    PROVE  /\ Walk(g, 0) = g.slobfree
           /\ \A k \in Nat : Walk(g, k) \in Blocks(g) /\ Walk(g, k + 1) = g.next[Walk(g, k)]
<1> DEFINE B == Blocks(g)
           Is(k, w) == w = [i \in 0 .. k |-> IF i = 0 THEN g.slobfree ELSE g.next[w[i - 1]]]
<1>1. PICK u : Goes(B, g.next, g.slobfree, u)
  BY Iterates, Zenon
<1>2. /\ u \in [Nat -> B] /\ u[0] = g.slobfree
      /\ \A i \in Nat : u[i + 1] = g.next[u[i]]
  BY <1>1 DEF Goes
<1> HIDE DEF B
<1>3. ASSUME NEW k \in Nat PROVE Walk(g, k) = u[k]
  <2> DEFINE v == [i \in 0 .. k |-> u[i]]
             w == CHOOSE w : Is(k, w)
  <2>1. Is(k, v)
    <3>1. ASSUME NEW i \in 0 .. k, i # 0 PROVE v[i] = g.next[v[i - 1]]
      <4>1. i - 1 \in Nat /\ i - 1 \in 0 .. k /\ (i - 1) + 1 = i
        BY <3>1
      <4> QED BY <1>2, <4>1
    <3>2. 0 \in 0 .. k /\ v[0] = g.slobfree
      BY <1>2
    <3>3. v = [i \in 0 .. k |-> v[i]]
      OBVIOUS
    <3> HIDE DEF v
    <3> QED BY <3>1, <3>2, <3>3
  <2>2. Is(k, w)
    BY <2>1
  <2>3. Walk(g, k) = w[k]
    BY DEF Walk
  <2>4. ASSUME NEW i \in 0 .. k PROVE w[i] = IF i = 0 THEN g.slobfree ELSE g.next[w[i - 1]]
    <3> HIDE DEF w
    <3> QED BY <2>2
  <2> HIDE DEF w, v
  <2> DEFINE S == {j \in Nat : j <= k => w[j] = u[j]}
  <2>5. 0 \in S
    BY <1>2, <2>4
  <2>6. ASSUME NEW j \in S PROVE j + 1 \in S
    <3> SUFFICES ASSUME j + 1 <= k PROVE w[j + 1] = u[j + 1]
      OBVIOUS
    <3>1. j + 1 \in 0 .. k /\ j + 1 # 0 /\ (j + 1) - 1 = j /\ w[j] = u[j]
      OBVIOUS
    <3> QED BY <1>2, <2>4, <3>1
  <2>7. S = Nat
    <3>1. S \in SUBSET Nat
      OBVIOUS
    <3> HIDE DEF S
    <3> QED BY <2>5, <2>6, <3>1, Upward
  <2> QED BY <2>3, <2>7
<1> QED BY <1>2, <1>3 DEF B

\* A heap is finite.
LEMMA HeapFinite ==
    ASSUME NEW g, Heap(g)
    PROVE  /\ Limit \in Nat
           /\ Starts(g) \subseteq 0 .. Limit /\ Blocks(g) \subseteq 0 .. Limit
           /\ IsFiniteSet(Blocks(g))
<1>1. Limit \in Nat
  BY KmallocAssumption, SMTT(30) DEF Limit
<1>2. ASSUME NEW x \in Starts(g) PROVE x \in 0 .. Limit
  <2>1. x \in Nat /\ g.units[x] \in Nat /\ x + g.units[x] <= Limit
    BY DEF Heap
  <2> QED BY <1>1, <2>1
<1>3. Blocks(g) \subseteq Starts(g)
  BY DEF Heap
<1>4. IsFiniteSet(0 .. Limit)
  BY <1>1, FS_Interval
<1> QED BY <1>1, <1>2, <1>3, <1>4, FS_Subset

\* A bounded set of naturals has a greatest member.
LEMMA Greatest ==
    ASSUME NEW m \in Nat, NEW S \in SUBSET (0 .. m), S # {}
    PROVE  \E x \in S : \A y \in S : y <= x
<1> DEFINE T == {m - y : y \in S}
<1>1. T \in SUBSET Nat /\ T # {}
  <2>1. ASSUME NEW y \in S PROVE m - y \in Nat
    OBVIOUS
  <2>2. PICK y \in S : TRUE
    OBVIOUS
  <2>3. m - y \in T
    OBVIOUS
  <2> QED BY <2>1, <2>3
<1>2. PICK t \in T : \A r \in T : t <= r
  <2> HIDE DEF T
  <2> QED BY <1>1, Least
<1>3. PICK x \in S : t = m - x
  OBVIOUS
<1>4. ASSUME NEW y \in S PROVE y <= x
  <2>1. m - y \in T
    OBVIOUS
  <2>2. t <= m - y
    BY <1>2, <2>1
  <2> QED BY <1>3, <2>2
<1> QED BY <1>4

\* The list has no other circle in it.
LEMMA OneCircle ==
    ASSUME NEW g, Heap(g), Circular(g), NEW C \in SUBSET Blocks(g), C # {},
           \A x \in C : g.next[x] \in C
    PROVE  C = Blocks(g)
<1> SUFFICES ASSUME NEW d \in Blocks(g), d \notin C PROVE FALSE
  OBVIOUS
<1>1. /\ Limit \in Nat /\ Blocks(g) \subseteq 0 .. Limit /\ arena = 0
      /\ \A x \in Blocks(g) : Leads(Blocks(g), x, g.next[x])
  BY HeapFinite DEF Circular, arena
<1>2. CASE \E c \in C : c < d
  <2> DEFINE S == {c \in C : c < d}
  <2>1. S \in SUBSET (0 .. Limit) /\ S # {}
    BY <1>1, <1>2
  <2>2. PICK c \in S : \A y \in S : y <= c
    <3> HIDE DEF S
    <3> QED BY <1>1, <2>1, Greatest
  <2>3. c \in C /\ c < d /\ g.next[c] \in C
    OBVIOUS
  <2>4. ~(c < g.next[c] /\ g.next[c] <= d)
    BY <1>1, <2>2, <2>3
  <2>5. ~(d <= c)
    BY <1>1, <2>3
  <2> HIDE DEF S
  <2> QED BY <1>1, <2>3, <2>4, <2>5 DEF Leads
<1>3. CASE \A c \in C : ~(c < d)
  <2>1. PICK c \in C : \A y \in C : y <= c
    BY <1>1, Greatest
  <2>2. g.next[c] \in C /\ g.next[c] <= c
    BY <2>1
  <2>3. g.next[c] = arena
    BY <1>1, <2>1, <2>2 DEF Leads
  <2>4. ~(arena < d) /\ d # arena
    BY <1>3, <2>2, <2>3
  <2> QED BY <1>1, <2>4
<1> QED BY <1>2, <1>3

\* Every block is met within as many steps as there are blocks.
LEMMA WalkCovers ==
    ASSUME NEW g, Heap(g), Circular(g)
    PROVE  /\ {Walk(g, k) : k \in Steps(g)} = Blocks(g)
           /\ Cardinality(Blocks(g)) \in Nat
<1> DEFINE B == Blocks(g)
           n == Cardinality(B)
           V(k) == {Walk(g, i) : i \in 1 .. k}
<1>1. g.next \in [B -> B] /\ g.slobfree \in B
  BY DEF Heap
<1>2. \A k \in Nat : Walk(g, k) \in B /\ Walk(g, k + 1) = g.next[Walk(g, k)]
  BY <1>1, WalkFacts
<1>3. IsFiniteSet(B) /\ n \in Nat
  BY HeapFinite, FS_CardinalityType
<1>4. ASSUME NEW k \in Nat PROVE V(k) \subseteq B /\ IsFiniteSet(V(k)) /\ Cardinality(V(k)) \in Nat
  <2>1. V(k) \subseteq B
    BY <1>2
  <2> HIDE DEF V, B
  <2> QED BY <1>3, <2>1, FS_Subset, FS_CardinalityType
<1>5. ASSUME NEW k \in Nat PROVE V(k + 1) = V(k) \cup {Walk(g, k + 1)}
  <2>1. 1 .. k + 1 = (1 .. k) \cup {k + 1}
    OBVIOUS
  <2> QED BY <2>1
<1> DEFINE S == {k \in Nat : V(k) = B \/ Cardinality(V(k)) >= k}
<1>6. 0 \in S
  <2>1. V(0) = {}
    OBVIOUS
  <2> HIDE DEF V
  <2> QED BY <2>1, FS_EmptySet
<1>7. ASSUME NEW k \in S PROVE k + 1 \in S
  <2>1. k \in Nat /\ (V(k) = B \/ Cardinality(V(k)) >= k)
    OBVIOUS
  <2>2. CASE Walk(g, k + 1) \in V(k)
    <3>1. ASSUME NEW x \in V(k) PROVE g.next[x] \in V(k)
      <4>1. PICK i \in 1 .. k : x = Walk(g, i)
        OBVIOUS
      <4>2. i \in Nat /\ i + 1 \in Nat /\ (i + 1 \in 1 .. k \/ i + 1 = k + 1)
        BY <2>1
      <4>3. g.next[x] = Walk(g, i + 1)
        BY <1>2, <4>1, <4>2
      <4>4. CASE i + 1 \in 1 .. k
        BY <4>3, <4>4
      <4>5. CASE i + 1 = k + 1
        BY <2>2, <4>3, <4>5
      <4> QED BY <4>2, <4>4, <4>5
    <3>2. V(k) = B
      <4>1. V(k) \in SUBSET Blocks(g) /\ V(k) # {}
        BY <1>4, <2>1, <2>2
      <4> HIDE DEF V, S
      <4> QED BY <3>1, <4>1, OneCircle
    <3> HIDE DEF V, B
    <3> QED BY <1>5, <2>1, <2>2, <3>2
  <2>3. CASE Walk(g, k + 1) \notin V(k)
    <3> HIDE DEF V, B
    <3>1. CASE V(k) = B
      <4>1. Walk(g, k + 1) \in B
        BY <1>2, <2>1
      <4> QED BY <2>3, <3>1, <4>1
    <3>2. CASE Cardinality(V(k)) >= k
      <4>1. Cardinality(V(k + 1)) = Cardinality(V(k)) + 1
        BY <1>4, <1>5, <2>1, <2>3, FS_AddElement
      <4>2. Cardinality(V(k)) \in Nat
        BY <1>4, <2>1
      <4> QED BY <2>1, <3>2, <4>1, <4>2
    <3> QED BY <2>1, <3>1, <3>2
  <2> QED BY <2>2, <2>3
<1>8. S = Nat
  <2>1. S \in SUBSET Nat
    OBVIOUS
  <2> HIDE DEF S
  <2> QED BY <1>6, <1>7, <2>1, Upward
<1>9. V(n) = B
  <2>1. V(n) = B \/ Cardinality(V(n)) >= n
    <3> HIDE DEF V, B, n
    <3> QED BY <1>3, <1>8
  <2>2. Cardinality(V(n)) <= n /\ (Cardinality(V(n)) = n => V(n) = B)
    <3> HIDE DEF V, B
    <3> QED BY <1>3, <1>4, FS_Subset
  <2>3. Cardinality(V(n)) \in Nat
    BY <1>3, <1>4
  <2> HIDE DEF V, B, n
  <2> QED BY <1>3, <2>1, <2>2, <2>3
<1> QED BY <1>3, <1>9 DEF Steps

----------------------------------------------------------------------------
(***************************************************************************)
(* Blocks are inserted and joined.                                         *)
(***************************************************************************)

\* The numbers units and pages are counted in.
LEMMA Numbers ==
    /\ SLOB_UNIT \in Nat /\ SLOB_UNIT >= 2 /\ UPP \in Nat /\ UPP >= 2 /\ NPage \in Nat
    /\ arena = 0 /\ Limit \in Nat
<1>1. Limit \in Nat
  BY KmallocAssumption, SMTT(30) DEF Limit
<1> QED BY <1>1, KmallocAssumption DEF arena

\* The fields of a heap.
LEMMA HeapFields ==
    ASSUME NEW g, Heap(g)
    PROVE  /\ g.next \in [Blocks(g) -> Blocks(g)] /\ g.units \in [Starts(g) -> Nat \ {0}]
           /\ g.slobfree \in Blocks(g)
           /\ Blocks(g) \subseteq Starts(g) /\ Starts(g) \subseteq Nat
           /\ g = [next |-> g.next, units |-> g.units, slobfree |-> g.slobfree]
  BY DEF Heap

\* The free blocks that touch the free block above them.
Touch(g) == {x \in Blocks(g) : x + g.units[x] \in Blocks(g)}

\* No two free blocks touch if none touches the one above it.
LEMMA LooseIsNoTouch ==
    ASSUME NEW g, Heap(g)
    PROVE  Loose(g) <=> Touch(g) = {}
<1>1. ASSUME NEW x \in Blocks(g) PROVE x \in Nat /\ x < x + g.units[x]
  BY HeapFields
<1> QED BY <1>1 DEF Loose, Touch

\* What remains of a set of blocks when they are not where they were.
Taking(g, f, X) ==
    /\ Taken(f) = X
    /\ \A x \in X : x \in Starts(g) /\ f.units[x] = g.units[x]

\* The block b of u units is put behind cur.
Inserted(g, b, u, cur) ==
    [next |-> With([g.next EXCEPT ![cur] = b], b, g.next[cur]),
     units |-> With(g.units, b, u), slobfree |-> cur]

\* The free block x swallows the next one.
Joined(g, x) ==
    LET y == g.next[x]
    IN  [next |-> Without([g.next EXCEPT ![x] = g.next[y]], y),
         units |-> Without([g.units EXCEPT ![x] = @ + g.units[y]], y),
         slobfree |-> g.slobfree]

\* Joined, field by field.
LEMMA JoinedFields ==
    ASSUME NEW g, Heap(g), NEW x \in Blocks(g)
    PROVE  LET y == g.next[x]
               j == Joined(g, x)
           IN  /\ Blocks(j) = Blocks(g) \ {y} /\ Starts(j) = Starts(g) \ {y}
               /\ \A z \in Blocks(j) : j.next[z] = IF z = x THEN g.next[y] ELSE g.next[z]
               /\ \A z \in Starts(j) : j.units[z] = IF z = x THEN g.units[x] + g.units[y]
                                                    ELSE g.units[z]
               /\ j.next = [z \in Blocks(j) |-> j.next[z]]
               /\ j.units = [z \in Starts(j) |-> j.units[z]]
               /\ j.slobfree = g.slobfree
               /\ j = [next |-> j.next, units |-> j.units, slobfree |-> j.slobfree]
<1> DEFINE y == g.next[x]
           j == Joined(g, x)
           nx == [g.next EXCEPT ![x] = g.next[y]]
           un == [g.units EXCEPT ![x] = @ + g.units[y]]
<1>1. /\ g.next \in [Blocks(g) -> Blocks(g)] /\ g.units \in [Starts(g) -> Nat \ {0}]
      /\ Blocks(g) \subseteq Starts(g)
  BY HeapFields
<1>2. /\ DOMAIN nx = Blocks(g) /\ DOMAIN un = Starts(g)
      /\ \A z \in Blocks(g) : nx[z] = IF z = x THEN g.next[y] ELSE g.next[z]
      /\ \A z \in Starts(g) : un[z] = IF z = x THEN g.units[x] + g.units[y] ELSE g.units[z]
  BY <1>1
<1>3. /\ j.next = [z \in Blocks(g) \ {y} |-> nx[z]]
      /\ j.units = [z \in Starts(g) \ {y} |-> un[z]]
      /\ j.slobfree = g.slobfree
      /\ j = [next |-> j.next, units |-> j.units, slobfree |-> j.slobfree]
  <2> HIDE DEF nx, un
  <2>1. j = [next |-> Without(nx, y), units |-> Without(un, y), slobfree |-> g.slobfree]
    BY DEF Joined, nx, un
  <2>2. Without(nx, y) = [z \in Blocks(g) \ {y} |-> nx[z]]
    BY <1>2 DEF Without
  <2>3. Without(un, y) = [z \in Starts(g) \ {y} |-> un[z]]
    BY <1>2 DEF Without
  <2> HIDE DEF j, y
  <2> QED BY <2>1, <2>2, <2>3
<1>4. Blocks(j) = Blocks(g) \ {y} /\ Starts(j) = Starts(g) \ {y}
  <2> HIDE DEF j, nx, un, y
  <2> QED BY <1>3 DEF Blocks, Starts
<1>5. /\ \A z \in Blocks(j) : j.next[z] = nx[z]
      /\ \A z \in Starts(j) : j.units[z] = un[z]
      /\ j.next = [z \in Blocks(j) |-> j.next[z]]
      /\ j.units = [z \in Starts(j) |-> j.units[z]]
  <2> HIDE DEF j, nx, un, y
  <2> QED BY <1>3, <1>4
<1> HIDE DEF j, nx, un
<1>6. /\ \A z \in Blocks(j) : j.next[z] = IF z = x THEN g.next[y] ELSE g.next[z]
      /\ \A z \in Starts(j) : j.units[z] = IF z = x THEN g.units[x] + g.units[y]
                                           ELSE g.units[z]
  <2> HIDE DEF y
  <2> QED BY <1>2, <1>4, <1>5
<1> QED BY <1>3, <1>4, <1>5, <1>6 DEF j

\* Joining keeps a heap, and its blocks in use and its units.
LEMMA JoinedFacts ==
    ASSUME NEW g, Heap(g), Circular(g), Apart(g), NEW x \in Blocks(g),
           x + g.units[x] = g.next[x], g.slobfree # g.next[x]
    PROVE  LET j == Joined(g, x)
           IN  /\ Heap(j) /\ Circular(j) /\ Apart(j)
               /\ Taking(g, j, Taken(g)) /\ Space(j) = Space(g)
               /\ Touch(j) \subseteq (Touch(g) \ {x, g.next[x]})
                                       \cup (IF g.next[x] \in Touch(g) THEN {x} ELSE {})
<1> DEFINE y == g.next[x]
           j == Joined(g, x)
           B == Blocks(g)
<1>1. /\ g.next \in [B -> B] /\ g.units \in [Starts(g) -> Nat \ {0}]
      /\ B \subseteq Starts(g) /\ Starts(g) \subseteq Nat
      /\ g.slobfree \in B
      /\ arena = 0 /\ Limit \in Nat /\ UPP \in Nat /\ UPP >= 2
  BY HeapFields, Numbers
<1>2. y \in B /\ x < y /\ x \in Nat /\ y \in Nat /\ g.units[x] \in Nat /\ g.units[y] \in Nat \ {0}
      /\ x + g.units[x] = y
  BY <1>1
<1>3. /\ Blocks(j) = B \ {y} /\ Starts(j) = Starts(g) \ {y}
      /\ \A z \in Blocks(j) : j.next[z] = IF z = x THEN g.next[y] ELSE g.next[z]
      /\ \A z \in Starts(j) : j.units[z] = IF z = x THEN g.units[x] + g.units[y]
                                           ELSE g.units[z]
      /\ j.next = [z \in Blocks(j) |-> j.next[z]]
      /\ j.units = [z \in Starts(j) |-> j.units[z]]
      /\ j.slobfree = g.slobfree
      /\ j = [next |-> j.next, units |-> j.units, slobfree |-> j.slobfree]
  BY JoinedFields
<1>4. \A z \in B : Leads(B, z, g.next[z])
  BY DEF Circular
<1>5. \A z \in B : z <= x \/ y <= z
  BY <1>1, <1>2, <1>4 DEF Leads
<1>6. g.next[y] \in B \ {y}
  BY <1>1, <1>2, <1>4 DEF Leads
<1>7. ASSUME NEW z \in B \ {x} PROVE g.next[z] \in B \ {y}
  <2>1. SUFFICES ASSUME g.next[z] = y PROVE FALSE
    BY <1>1
  <2>2. z < y /\ \A c \in B : c <= z \/ y <= c
    BY <1>1, <1>2, <1>4, <2>1 DEF Leads
  <2> QED BY <1>1, <1>2, <1>5, <2>2
<1> HIDE DEF j, B
<1>8. j.next \in [Blocks(j) -> Blocks(j)]
  <2>1. ASSUME NEW z \in Blocks(j) PROVE j.next[z] \in Blocks(j)
    BY <1>3, <1>6, <1>7
  <2> QED BY <1>3, <2>1
<1>9. j.units \in [Starts(j) -> Nat \ {0}]
  <2> HIDE DEF y
  <2>1. ASSUME NEW z \in Starts(j) PROVE j.units[z] \in Nat \ {0}
    BY <1>1, <1>2, <1>3
  <2> QED BY <1>3, <2>1
<1> HIDE DEF y
<1>10. ASSUME NEW z \in Starts(g), z # arena PROVE UPP <= z
  BY <1>10 DEF Heap
<1>11. ASSUME NEW z \in Starts(g) PROVE z + g.units[z] <= Limit
  BY DEF Heap
<1>12. arena \in B /\ g.units[arena] = 1
  BY DEF Heap, B
<1>13. x # arena
  <2>1. y \in Starts(g)
    BY <1>1, <1>2
  <2> QED BY <1>1, <1>2, <1>10, <1>12, <2>1
<1>14. Heap(j)
  <2>1. arena \in Blocks(j) /\ j.units[arena] = 1
    BY <1>1, <1>2, <1>3, <1>12, <1>13
  <2>2. Blocks(j) \subseteq Starts(j) /\ Starts(j) \subseteq Nat
    BY <1>1, <1>3
  <2>3. ASSUME NEW z \in Starts(j)
        PROVE  (z # arena => UPP <= z) /\ z + j.units[z] <= Limit
    <3>1. z \in Starts(g)
      BY <1>3
    <3>2. CASE z = x
      <4>1. j.units[z] = g.units[x] + g.units[y] /\ y \in Starts(g)
        BY <1>1, <1>2, <1>3, <2>3, <3>2
      <4>2. x + (g.units[x] + g.units[y]) = y + g.units[y]
        BY <1>2
      <4> QED BY <1>10, <1>11, <3>1, <3>2, <4>1, <4>2
    <3>3. CASE z # x
      BY <1>3, <1>10, <1>11, <2>3, <3>1, <3>3
    <3> QED BY <3>2, <3>3
  <2>4. j \in [next : [Blocks(j) -> Blocks(j)], units : [Starts(j) -> Nat \ {0}],
               slobfree : Blocks(j)]
    <3>1. j.slobfree \in Blocks(j)
      BY <1>1, <1>3 DEF y
    <3> QED BY <1>3, <1>8, <1>9, <3>1
  <2> QED BY <2>1, <2>2, <2>3, <2>4 DEF Heap
<1>15. Circular(j)
  <2>1. ASSUME NEW z \in Blocks(j) PROVE Leads(Blocks(j), z, j.next[z])
    <3>1. z \in B /\ z # y /\ z \in Nat
      BY <1>1, <1>3
    <3>2. CASE z = x
      <4>1. j.next[z] = g.next[y] /\ Leads(B, y, g.next[y])
        BY <1>2, <1>3, <1>4, <2>1, <3>2
      <4>2. \A c \in Blocks(j) : c \in B /\ c # y /\ c \in Nat
        BY <1>1, <1>3
      <4>3. g.next[y] \in Nat
        BY <1>1, <1>6
      <4> QED BY <1>1, <1>2, <1>5, <3>2, <4>1, <4>2, <4>3 DEF Leads
    <3>3. CASE z # x
      <4>1. j.next[z] = g.next[z] /\ Leads(B, z, g.next[z])
        BY <1>3, <1>4, <2>1, <3>1, <3>3
      <4> QED BY <1>3, <4>1 DEF Leads
    <3> QED BY <3>2, <3>3
  <2> QED BY <2>1 DEF Circular
<1>16. Apart(j)
  <2>1. ASSUME NEW p \in Starts(j), NEW q \in Starts(j), p < q
        PROVE  p + j.units[p] <= q
    <3>1. p \in Starts(g) /\ q \in Starts(g) /\ q # y /\ p \in Nat /\ q \in Nat
      BY <1>1, <1>3
    <3>2. \A r, s \in Starts(g) : r < s => r + g.units[r] <= s
      BY DEF Apart
    <3>3. CASE p = x
      <4>1. j.units[p] = g.units[x] + g.units[y] /\ y \in Starts(g)
        BY <1>1, <1>2, <1>3, <2>1, <3>3
      <4>2. y < q
        BY <1>2, <2>1, <3>1, <3>2, <3>3
      <4>3. y + g.units[y] <= q
        BY <3>1, <3>2, <4>1, <4>2
      <4> QED BY <1>2, <3>1, <3>3, <4>1, <4>3
    <3>4. CASE p # x
      BY <1>3, <2>1, <3>1, <3>2, <3>4
    <3> QED BY <3>3, <3>4
  <2> QED BY <2>1 DEF Apart
<1>17. Taking(g, j, Taken(g))
  BY <1>1, <1>2, <1>3 DEF Taking, Taken, B
<1>18. Space(j) = Space(g)
  <2>1. ASSUME NEW z \in Starts(j), z # x PROVE Chunk(j, z) = Chunk(g, z)
    BY <1>3, <2>1 DEF Chunk
  <2>2. x \in Starts(j) /\ x \in Starts(g) /\ y \in Starts(g)
    BY <1>1, <1>2, <1>3 DEF B
  <2>3. Chunk(j, x) = Chunk(g, x) \cup Chunk(g, y)
    <3>1. j.units[x] = g.units[x] + g.units[y]
      BY <1>3, <2>2
    <3> QED BY <1>2, <3>1 DEF Chunk
  <2>4. Starts(j) = Starts(g) \ {y}
    BY <1>3
  <2> QED BY <2>1, <2>2, <2>3, <2>4 DEF Space
<1>19. Touch(j) \subseteq (Touch(g) \ {x, y}) \cup (IF y \in Touch(g) THEN {x} ELSE {})
  <2> SUFFICES ASSUME NEW z \in Touch(j)
               PROVE  z \in (Touch(g) \ {x, y}) \cup (IF y \in Touch(g) THEN {x} ELSE {})
    OBVIOUS
  <2>1. z \in Blocks(j) /\ z + j.units[z] \in B /\ z \in B /\ z # y /\ z \in Starts(j)
    BY <1>1, <1>3 DEF Touch
  <2>2. CASE z = x
    <3>1. z + j.units[z] = y + g.units[y]
      BY <1>2, <1>3, <2>1, <2>2
    <3> QED BY <1>2, <2>1, <2>2, <3>1 DEF Touch, B
  <2>3. CASE z # x
    BY <1>3, <2>1, <2>3 DEF Touch, B
  <2> QED BY <2>2, <2>3
<1> QED BY <1>14, <1>15, <1>16, <1>17, <1>18, <1>19 DEF j, y

\* Inserted, field by field.
LEMMA InsertedFields ==
    ASSUME NEW g, Heap(g), NEW b, NEW u, NEW cur \in Blocks(g), b # cur
    PROVE  LET f == Inserted(g, b, u, cur)
           IN  /\ Blocks(f) = Blocks(g) \cup {b} /\ Starts(f) = Starts(g) \cup {b}
               /\ \A z \in Blocks(f) : f.next[z] = IF z = b THEN g.next[cur]
                                                   ELSE IF z = cur THEN b ELSE g.next[z]
               /\ \A z \in Starts(f) : f.units[z] = IF z = b THEN u ELSE g.units[z]
               /\ f.next = [z \in Blocks(f) |-> f.next[z]]
               /\ f.units = [z \in Starts(f) |-> f.units[z]]
               /\ f.slobfree = cur
               /\ f = [next |-> f.next, units |-> f.units, slobfree |-> f.slobfree]
<1> DEFINE f == Inserted(g, b, u, cur)
           nx == [g.next EXCEPT ![cur] = b]
<1>1. DOMAIN g.next = Blocks(g) /\ DOMAIN g.units = Starts(g) /\ g.next \in [Blocks(g) -> Blocks(g)]
  BY HeapFields DEF Blocks, Starts
<1>2. /\ DOMAIN nx = Blocks(g)
      /\ \A z \in Blocks(g) : nx[z] = IF z = cur THEN b ELSE g.next[z]
  BY <1>1
<1>3. /\ f.next = [z \in Blocks(g) \cup {b} |-> IF z = b THEN g.next[cur] ELSE nx[z]]
      /\ f.units = [z \in Starts(g) \cup {b} |-> IF z = b THEN u ELSE g.units[z]]
      /\ f.slobfree = cur
      /\ f = [next |-> f.next, units |-> f.units, slobfree |-> f.slobfree]
  <2> HIDE DEF nx
  <2>1. f = [next |-> With(nx, b, g.next[cur]), units |-> With(g.units, b, u), slobfree |-> cur]
    BY DEF Inserted, nx
  <2>2. With(nx, b, g.next[cur]) = [z \in Blocks(g) \cup {b} |-> IF z = b THEN g.next[cur] ELSE nx[z]]
    BY <1>2 DEF With
  <2>3. With(g.units, b, u) = [z \in Starts(g) \cup {b} |-> IF z = b THEN u ELSE g.units[z]]
    BY <1>1 DEF With
  <2> HIDE DEF f
  <2> QED BY <2>1, <2>2, <2>3
<1>4. Blocks(f) = Blocks(g) \cup {b} /\ Starts(f) = Starts(g) \cup {b}
  <2> HIDE DEF f, nx
  <2> QED BY <1>3 DEF Blocks, Starts
<1>5. /\ \A z \in Blocks(f) : f.next[z] = IF z = b THEN g.next[cur] ELSE nx[z]
      /\ \A z \in Starts(f) : f.units[z] = IF z = b THEN u ELSE g.units[z]
      /\ f.next = [z \in Blocks(f) |-> f.next[z]]
      /\ f.units = [z \in Starts(f) |-> f.units[z]]
  <2> HIDE DEF f, nx
  <2> QED BY <1>3, <1>4
<1> HIDE DEF f, nx
<1>6. \A z \in Blocks(f) : f.next[z] = IF z = b THEN g.next[cur]
                                       ELSE IF z = cur THEN b ELSE g.next[z]
  BY <1>2, <1>4, <1>5
<1> QED BY <1>3, <1>4, <1>5, <1>6 DEF f

\* cur is the last free block below b.
Before(g, b, cur) ==
    /\ cur \in Blocks(g) /\ cur < b
    /\ \A c \in Blocks(g) : c <= cur \/ b <= c

\* What does not belong to a block at b.
Rest(g, b) == UNION {Chunk(g, x) : x \in Starts(g) \ {b}}

\* u units at b are free to be taken by a block.
Room(g, b, u) ==
    /\ b \in Nat /\ UPP <= b /\ u \in Nat \ {0} /\ b + u <= Limit
    /\ \A x \in Starts(g) \ {b} : x + g.units[x] <= b \/ b + u <= x

\* Inserting keeps a heap; at most the new block and the one before it touch the next.
LEMMA InsertedFacts ==
    ASSUME NEW g, Slob(g), NEW b, NEW u, Room(g, b, u), b \notin Blocks(g),
           NEW cur, Before(g, b, cur)
    PROVE  LET f == Inserted(g, b, u, cur)
           IN  /\ Heap(f) /\ Circular(f) /\ Apart(f)
               /\ Taking(g, f, Taken(g) \ {b})
               /\ Space(f) = Rest(g, b) \cup (b .. b + u - 1)
               /\ Touch(f) \subseteq {b, cur}
<1> DEFINE f == Inserted(g, b, u, cur)
           B == Blocks(g)
<1>1. /\ Heap(g) /\ Circular(g) /\ Apart(g) /\ Loose(g)
      /\ g.next \in [B -> B] /\ g.units \in [Starts(g) -> Nat \ {0}]
      /\ B \subseteq Starts(g) /\ Starts(g) \subseteq Nat
      /\ arena = 0 /\ Limit \in Nat /\ UPP \in Nat /\ UPP >= 2
  BY HeapFields, Numbers DEF Slob
<1>2. /\ b \in Nat /\ UPP <= b /\ u \in Nat \ {0} /\ b + u <= Limit /\ b \notin B
      /\ cur \in B /\ cur < b /\ cur \in Nat /\ b # cur
      /\ \A c \in B : c <= cur \/ b <= c
  BY <1>1 DEF Room, Before
<1>3. /\ Blocks(f) = B \cup {b} /\ Starts(f) = Starts(g) \cup {b}
      /\ \A z \in Blocks(f) : f.next[z] = IF z = b THEN g.next[cur]
                                          ELSE IF z = cur THEN b ELSE g.next[z]
      /\ \A z \in Starts(f) : f.units[z] = IF z = b THEN u ELSE g.units[z]
      /\ f.next = [z \in Blocks(f) |-> f.next[z]]
      /\ f.units = [z \in Starts(f) |-> f.units[z]]
      /\ f.slobfree = cur
      /\ f = [next |-> f.next, units |-> f.units, slobfree |-> f.slobfree]
  BY <1>1, <1>2, InsertedFields
<1>4. \A z \in B : Leads(B, z, g.next[z])
  BY <1>1 DEF Circular
<1> HIDE DEF f, B
<1>5. f.next \in [Blocks(f) -> Blocks(f)]
  <2>1. ASSUME NEW z \in Blocks(f) PROVE f.next[z] \in Blocks(f)
    BY <1>1, <1>2, <1>3
  <2> QED BY <1>3, <2>1
<1>6. f.units \in [Starts(f) -> Nat \ {0}]
  <2>1. ASSUME NEW z \in Starts(f) PROVE f.units[z] \in Nat \ {0}
    BY <1>1, <1>2, <1>3
  <2> QED BY <1>3, <2>1
<1>7. Heap(f)
  <2>1. ASSUME NEW z \in Starts(f)
        PROVE  (z # arena => UPP <= z) /\ z + f.units[z] <= Limit
    <3>1. CASE z = b
      BY <1>2, <1>3, <2>1, <3>1
    <3>2. CASE z # b
      <4>1. z \in Starts(g) /\ f.units[z] = g.units[z]
        BY <1>3, <2>1, <3>2
      <4> QED BY <1>1, <4>1 DEF Heap
    <3> QED BY <3>1, <3>2
  <2>2. arena \in Blocks(f) /\ f.units[arena] = 1
    <3>1. arena \in B /\ g.units[arena] = 1
      BY <1>1 DEF Heap, B
    <3> QED BY <1>1, <1>2, <1>3, <3>1
  <2>3. Blocks(f) \subseteq Starts(f) /\ Starts(f) \subseteq Nat
    BY <1>1, <1>2, <1>3
  <2>4. f \in [next : [Blocks(f) -> Blocks(f)], units : [Starts(f) -> Nat \ {0}],
               slobfree : Blocks(f)]
    <3>1. f.slobfree \in Blocks(f)
      BY <1>2, <1>3
    <3> QED BY <1>3, <1>5, <1>6, <3>1
  <2> QED BY <2>1, <2>2, <2>3, <2>4 DEF Heap
<1>8. Circular(f)
  <2>1. ASSUME NEW z \in Blocks(f) PROVE Leads(Blocks(f), z, f.next[z])
    <3>0. g.next[cur] \in Nat /\ Leads(B, cur, g.next[cur]) /\ \A c \in B : c \in Nat
      BY <1>1, <1>2, <1>4
    <3>1. CASE z = b
      <4>1. f.next[z] = g.next[cur] /\ g.next[cur] # b
        BY <1>1, <1>2, <1>3, <2>1, <3>1
      <4> QED BY <1>1, <1>2, <1>3, <3>0, <3>1, <4>1 DEF Leads
    <3>2. CASE z = cur
      <4>1. f.next[z] = b
        BY <1>2, <1>3, <2>1, <3>2
      <4> QED BY <1>2, <1>3, <3>2, <4>1 DEF Leads
    <3>3. CASE z # b /\ z # cur
      <4>1. z \in B /\ f.next[z] = g.next[z] /\ Leads(B, z, g.next[z]) /\ g.next[z] \in Nat
        BY <1>1, <1>3, <1>4, <2>1, <3>3
      <4>2. z < cur \/ b < z
        BY <1>1, <1>2, <3>0, <3>3, <4>1
      <4> QED BY <1>1, <1>2, <1>3, <3>0, <4>1, <4>2 DEF Leads
    <3> QED BY <3>1, <3>2, <3>3
  <2> QED BY <2>1 DEF Circular
<1>9. Apart(f)
  <2>1. ASSUME NEW p \in Starts(f), NEW q \in Starts(f), p < q
        PROVE  p + f.units[p] <= q
    <3>1. \A r, s \in Starts(g) : r < s => r + g.units[r] <= s
      BY <1>1 DEF Apart
    <3>2. \A x \in Starts(g) \ {b} : x + g.units[x] <= b \/ b + u <= x
      BY DEF Room
    <3>3. CASE p = b
      <4>1. q \in Starts(g) \ {b} /\ q \in Nat /\ f.units[p] = u /\ g.units[q] \in Nat
        <5>1. q # b
          BY <1>2, <2>1, <3>3
        <5>2. q \in Starts(g)
          BY <1>3, <5>1
        <5>3. f.units[p] = u
          BY <1>3, <3>3
        <5>4. q \in Nat /\ g.units[q] \in Nat
          BY <1>1, <5>2
        <5> QED BY <5>1, <5>2, <5>3, <5>4
      <4> QED BY <1>2, <2>1, <3>2, <3>3, <4>1
    <3>4. CASE q = b
      <4>1. p \in Starts(g) \ {b} /\ p \in Nat /\ f.units[p] = g.units[p]
        <5>1. p # b
          BY <1>2, <2>1, <3>4
        <5>2. p \in Starts(g)
          BY <1>3, <5>1
        <5>3. f.units[p] = g.units[p]
          BY <1>3, <5>1
        <5>4. p \in Nat
          BY <1>1, <5>2
        <5> QED BY <5>1, <5>2, <5>3, <5>4
      <4> QED BY <1>2, <2>1, <3>2, <3>4, <4>1
    <3>5. CASE p # b /\ q # b
      BY <1>3, <2>1, <3>1, <3>5
    <3> QED BY <3>3, <3>4, <3>5
  <2> QED BY <2>1 DEF Apart
<1>10. Taking(g, f, Taken(g) \ {b})
  BY <1>1, <1>2, <1>3 DEF Taking, Taken, B
<1>11. Space(f) = Rest(g, b) \cup (b .. b + u - 1)
  <2>1. ASSUME NEW z \in Starts(g) \ {b} PROVE Chunk(f, z) = Chunk(g, z)
    BY <1>3 DEF Chunk
  <2>2. Chunk(f, b) = b .. b + u - 1
    BY <1>3 DEF Chunk
  <2>3. Starts(f) = (Starts(g) \ {b}) \cup {b}
    BY <1>3
  <2> QED BY <2>1, <2>2, <2>3 DEF Space, Rest
<1>12. Touch(f) \subseteq {b, cur}
  <2> SUFFICES ASSUME NEW z \in Touch(f), z # b PROVE z = cur
    OBVIOUS
  <2>1. z \in B /\ z \in Starts(g) /\ z \in Nat /\ f.units[z] = g.units[z] /\ z + g.units[z] \in B \cup {b}
    BY <1>1, <1>3 DEF Touch
  <2>2. z + g.units[z] \notin B
    <3>1. g.units[z] \in Nat \ {0}
      BY <1>1, <2>1
    <3> QED BY <1>1, <2>1, <3>1 DEF Loose, B
  <2>3. z + g.units[z] = b
    BY <2>1, <2>2
  <2>4. z < b /\ z <= cur
    <3>1. g.units[z] \in Nat \ {0}
      BY <1>1, <2>1
    <3> QED BY <1>2, <2>1, <2>3, <3>1
  <2>5. z < cur => z + g.units[z] <= cur
    BY <1>1, <1>2, <2>1 DEF Apart
  <2> QED BY <1>2, <2>1, <2>3, <2>4, <2>5
<1> QED BY <1>7, <1>8, <1>9, <1>10, <1>11, <1>12 DEF f

----------------------------------------------------------------------------
(***************************************************************************)
(* slob_free.                                                              *)
(***************************************************************************)

\* Where its loop stops.
FreeAt(g, b) == Walk(g, Min({k \in 0 .. Cardinality(Blocks(g)) : Place(g, b, Walk(g, k))}))

\* The least member of a set of naturals.
LEMMA MinIs ==
    ASSUME NEW S \in SUBSET Nat, S # {}
    PROVE  Min(S) \in S /\ \A y \in S : Min(S) <= y
<1>1. \E x \in S : \A y \in S : x <= y
  BY Least
<1> QED BY <1>1 DEF Min

\* It stops at the last free block below b, wherever it began.
LEMMA PlaceFound ==
    ASSUME NEW g, Slob(g), NEW b \in Nat, UPP <= b, b \notin Blocks(g)
    PROVE  Before(g, b, FreeAt(g, b))
<1> DEFINE B == Blocks(g)
           n == Cardinality(B)
           K == {k \in 0 .. n : Place(g, b, Walk(g, k))}
           cur == Walk(g, Min(K))
<1>1. /\ Heap(g) /\ Circular(g)
      /\ g.next \in [B -> B] /\ g.slobfree \in B /\ B \subseteq 0 .. Limit
      /\ arena = 0 /\ Limit \in Nat /\ UPP \in Nat /\ UPP >= 2 /\ arena \in B
      /\ \A z \in B : Leads(B, z, g.next[z])
  BY HeapFields, HeapFinite, Numbers DEF Slob, Heap, Circular
<1>2. {Walk(g, k) : k \in Steps(g)} = B /\ n \in Nat
  BY <1>1, WalkCovers
<1>3. \A k \in Nat : Walk(g, k) \in B
  BY <1>1, WalkFacts
<1>4. K # {}
  <2> DEFINE S == {c \in B : c < b}
  <2>1. S \in SUBSET (0 .. Limit) /\ S # {}
    BY <1>1
  <2>2. PICK c \in S : \A y \in S : y <= c
    <3> HIDE DEF S
    <3> QED BY <1>1, <2>1, Greatest
  <2>3. c \in B /\ c < b /\ c \in Nat /\ g.next[c] \in B /\ g.next[c] \in Nat
    BY <1>1
  <2>4. Place(g, b, c)
    <3>1. CASE c < g.next[c]
      <4>1. ~(g.next[c] < b)
        BY <2>2, <2>3, <3>1
      <4>2. g.next[c] # b
        BY <2>3
      <4> HIDE DEF S
      <4> QED BY <2>3, <4>1, <4>2 DEF Place
    <3>2. CASE ~(c < g.next[c])
      <4> HIDE DEF S
      <4> QED BY <2>3, <3>2 DEF Place
    <3> QED BY <3>1, <3>2
  <2>5. PICK k \in Steps(g) : c = Walk(g, k)
    BY <1>2, <2>3
  <2>6. k \in 0 .. n
    <3> HIDE DEF n, B, S
    <3>1. k \in 1 .. n
      BY DEF Steps, n, B
    <3> QED BY <1>2, <3>1
  <2> HIDE DEF n, B, S
  <2> QED BY <2>4, <2>5, <2>6
<1>5. Min(K) \in K
  <2>1. K \in SUBSET Nat
    BY <1>2
  <2> HIDE DEF K
  <2> QED BY <1>4, <2>1, MinIs
<1>6. cur \in B /\ Place(g, b, cur)
  <2>1. Min(K) \in Nat /\ Place(g, b, Walk(g, Min(K)))
    BY <1>2, <1>5
  <2> HIDE DEF K
  <2> QED BY <1>3, <2>1
<1>7. FreeAt(g, b) = cur
  BY DEF FreeAt
<1> HIDE DEF cur, K, n
<1>8. /\ cur \in Nat /\ g.next[cur] \in B /\ g.next[cur] \in Nat
      /\ Leads(B, cur, g.next[cur]) /\ \A c \in B : c \in Nat
  BY <1>1, <1>6
<1> HIDE DEF B
<1>9. cur < b /\ \A c \in B : c <= cur \/ b <= c
  BY <1>1, <1>6, <1>8 DEF Leads, Place
<1> QED BY <1>6, <1>7, <1>9 DEF Before, B

\* Two heaps with the same fields.
LEMMA SameHeap ==
    ASSUME NEW f, NEW k,
           f = [next |-> f.next, units |-> f.units, slobfree |-> f.slobfree],
           k = [next |-> k.next, units |-> k.units, slobfree |-> k.slobfree],
           Blocks(f) = Blocks(k), Starts(f) = Starts(k), f.slobfree = k.slobfree,
           f.next = [z \in Blocks(f) |-> f.next[z]], f.units = [z \in Starts(f) |-> f.units[z]],
           k.next = [z \in Blocks(k) |-> k.next[z]], k.units = [z \in Starts(k) |-> k.units[z]],
           \A z \in Blocks(f) : f.next[z] = k.next[z],
           \A z \in Starts(f) : f.units[z] = k.units[z]
    PROVE  f = k
<1>1. f.next = k.next
  OBVIOUS
<1>2. f.units = k.units
  OBVIOUS
<1> QED BY <1>1, <1>2

\* The block above, if it touches, is swallowed by the new one.
Upper(g, b, u, cur) ==
    LET i == Inserted(g, b, u, cur) IN IF b + u = g.next[cur] THEN Joined(i, b) ELSE i

\* And the new one by the block below.
Lower(g, b, u, cur) ==
    LET a == Upper(g, b, u, cur) IN IF cur + g.units[cur] = b THEN Joined(a, cur) ELSE a

\* What slob_free computes, field by field.
LEMMA FreeFields ==
    ASSUME NEW g, Heap(g), NEW b, NEW u, NEW cur, cur = FreeAt(g, b), cur \in Blocks(g),
           b \notin Blocks(g), b + u = g.next[cur] => g.next[cur] # cur
    PROVE  LET f == slob_free(g, b, u)
               up == g.next[cur]
               above == b + u = up
               below == cur + g.units[cur] = b
               gone == IF above THEN {up} ELSE {}
               size == IF above THEN u + g.units[up] ELSE u
               after == IF above THEN g.next[up] ELSE up
           IN  /\ f = [next |-> f.next, units |-> f.units, slobfree |-> f.slobfree]
               /\ f.slobfree = cur
               /\ f.next = [z \in Blocks(f) |-> f.next[z]]
               /\ f.units = [z \in Starts(f) |-> f.units[z]]
               /\ Blocks(f) = IF below THEN Blocks(g) \ gone ELSE (Blocks(g) \ gone) \cup {b}
               /\ Starts(f) = IF below THEN (Starts(g) \ gone) \ {b} ELSE (Starts(g) \ gone) \cup {b}
               /\ \A z \in Blocks(f) : f.next[z] =
                    IF below THEN IF z = cur THEN after ELSE g.next[z]
                    ELSE IF z = b THEN after ELSE IF z = cur THEN b ELSE g.next[z]
               /\ \A z \in Starts(f) : f.units[z] =
                    IF below THEN IF z = cur THEN g.units[z] + size ELSE g.units[z]
                    ELSE IF z = b THEN size ELSE g.units[z]
<1> DEFINE f == slob_free(g, b, u)
           up == g.next[cur]
           above == b + u = up
           below == cur + g.units[cur] = b
           gone == IF above THEN {up} ELSE {}
           size == IF above THEN u + g.units[up] ELSE u
           after == IF above THEN g.next[up] ELSE up
           nx == IF above THEN Without(g.next, up) ELSE g.next
           un == IF above THEN Without(g.units, up) ELSE g.units
<1>1. /\ g.next \in [Blocks(g) -> Blocks(g)] /\ g.units \in [Starts(g) -> Nat \ {0}]
      /\ Blocks(g) \subseteq Starts(g)
  BY HeapFields
<1>2. f = IF below
          THEN [next |-> [nx EXCEPT ![cur] = after],
                units |-> Without([un EXCEPT ![cur] = @ + size], b), slobfree |-> cur]
          ELSE [next |-> With([nx EXCEPT ![cur] = b], b, after),
                units |-> With(un, b, size), slobfree |-> cur]
  BY Zenon DEF slob_free, FreeAt
<1> HIDE DEF f
<1>3. /\ nx = [z \in Blocks(g) \ gone |-> g.next[z]]
      /\ un = [z \in Starts(g) \ gone |-> g.units[z]]
  <2>1. DOMAIN g.next = Blocks(g) /\ DOMAIN g.units = Starts(g)
    BY <1>1
  <2>2. CASE above
    BY <2>1, <2>2 DEF Without
  <2>3. CASE ~above
    BY <1>1, <2>3
  <2> QED BY <2>2, <2>3
<1>4. cur \in Blocks(g) \ gone /\ cur \in Starts(g) \ gone
  BY <1>1
<1> HIDE DEF nx, un, size, after, gone
<1>5. CASE below
  <2>1. /\ f.next = [nx EXCEPT ![cur] = after]
        /\ f.units = Without([un EXCEPT ![cur] = @ + size], b)
        /\ f.slobfree = cur
        /\ f = [next |-> f.next, units |-> f.units, slobfree |-> f.slobfree]
    BY <1>2, <1>5
  <2>2. f.next = [z \in Blocks(g) \ gone |-> IF z = cur THEN after ELSE g.next[z]]
    BY <1>3, <1>4, <2>1
  <2>3. f.units = [z \in (Starts(g) \ gone) \ {b} |->
                     IF z = cur THEN g.units[z] + size ELSE g.units[z]]
    BY <1>3, <1>4, <2>1 DEF Without
  <2>4. Blocks(f) = Blocks(g) \ gone /\ Starts(f) = (Starts(g) \ gone) \ {b}
    BY <2>2, <2>3 DEF Blocks, Starts
  <2> HIDE DEF below, above, up
  <2> QED BY <1>5, <2>1, <2>2, <2>3, <2>4 DEF f, size, after, gone, below, above, up
<1>6. CASE ~below
  <2>1. /\ f.next = With([nx EXCEPT ![cur] = b], b, after)
        /\ f.units = With(un, b, size)
        /\ f.slobfree = cur
        /\ f = [next |-> f.next, units |-> f.units, slobfree |-> f.slobfree]
    BY <1>2, <1>6
  <2>2. f.next = [z \in (Blocks(g) \ gone) \cup {b} |->
                    IF z = b THEN after ELSE IF z = cur THEN b ELSE g.next[z]]
    BY <1>3, <1>4, <2>1 DEF With
  <2>3. f.units = [z \in (Starts(g) \ gone) \cup {b} |-> IF z = b THEN size ELSE g.units[z]]
    BY <1>3, <1>4, <2>1 DEF With
  <2>4. Blocks(f) = (Blocks(g) \ gone) \cup {b} /\ Starts(f) = (Starts(g) \ gone) \cup {b}
    BY <2>2, <2>3 DEF Blocks, Starts
  <2> HIDE DEF below, above, up
  <2> QED BY <1>6, <2>1, <2>2, <2>3, <2>4 DEF f, size, after, gone, below, above, up
<1> QED BY <1>5, <1>6

\* What is taken stays through two operations.
LEMMA TakingOn ==
    ASSUME NEW g, NEW i, NEW a, NEW X, Taking(g, i, X), Taking(i, a, X)
    PROVE  Taking(g, a, X)
  BY DEF Taking

\* slob_free inserts the block and joins it with its neighbours.
LEMMA FreeIsLower ==
    ASSUME NEW g, Slob(g), NEW b, NEW u, Room(g, b, u), b \notin Blocks(g),
           NEW cur, cur = FreeAt(g, b), Before(g, b, cur),
           Heap(Inserted(g, b, u, cur)), Heap(Upper(g, b, u, cur))
    PROVE  /\ slob_free(g, b, u) = Lower(g, b, u, cur)
           /\ LET a == Upper(g, b, u, cur)
              IN  /\ cur \in Blocks(a) /\ b \in Blocks(a) /\ a.next[cur] = b
                  /\ a.slobfree = cur
                  /\ a.units[cur] = g.units[cur] /\ a.units[b] >= u
<1> DEFINE i == Inserted(g, b, u, cur)
           a == Upper(g, b, u, cur)
           l == Lower(g, b, u, cur)
           f == slob_free(g, b, u)
           up == g.next[cur]
           above == b + u = up
           below == cur + g.units[cur] = b
           gone == IF above THEN {up} ELSE {}
           size == IF above THEN u + g.units[up] ELSE u
           after == IF above THEN g.next[up] ELSE up
<1>1. /\ Heap(g)
      /\ g.next \in [Blocks(g) -> Blocks(g)] /\ g.units \in [Starts(g) -> Nat \ {0}]
      /\ Blocks(g) \subseteq Starts(g) /\ Starts(g) \subseteq Nat
      /\ b \in Nat /\ u \in Nat \ {0} /\ cur \in Blocks(g) /\ cur < b /\ cur \in Nat /\ cur # b
      /\ b \notin Blocks(g)
  BY HeapFields DEF Slob, Room, Before
<1>2. up \in Blocks(g) /\ up # b /\ up \in Nat /\ (above => up # cur) /\ g.units[up] \in Nat
  BY <1>1
<1>3. /\ Blocks(i) = Blocks(g) \cup {b} /\ Starts(i) = Starts(g) \cup {b}
      /\ \A z \in Blocks(i) : i.next[z] = IF z = b THEN up
                                          ELSE IF z = cur THEN b ELSE g.next[z]
      /\ \A z \in Starts(i) : i.units[z] = IF z = b THEN u ELSE g.units[z]
      /\ i.next = [z \in Blocks(i) |-> i.next[z]]
      /\ i.units = [z \in Starts(i) |-> i.units[z]]
      /\ i.slobfree = cur
      /\ i = [next |-> i.next, units |-> i.units, slobfree |-> i.slobfree]
  BY <1>1, InsertedFields
<1> HIDE DEF i
<1>4. /\ Blocks(a) = (Blocks(g) \cup {b}) \ gone /\ Starts(a) = (Starts(g) \cup {b}) \ gone
      /\ \A z \in Blocks(a) : a.next[z] = IF z = b THEN after
                                          ELSE IF z = cur THEN b ELSE g.next[z]
      /\ \A z \in Starts(a) : a.units[z] = IF z = b THEN size ELSE g.units[z]
      /\ a.next = [z \in Blocks(a) |-> a.next[z]]
      /\ a.units = [z \in Starts(a) |-> a.units[z]]
      /\ a.slobfree = cur
      /\ a = [next |-> a.next, units |-> a.units, slobfree |-> a.slobfree]
  <2>1. CASE above
    <3>1. a = Joined(i, b)
      BY <2>1 DEF Upper, i
    <3>2. b \in Blocks(i) /\ Heap(i) /\ i.next[b] = up /\ i.next[up] = g.next[up]
      BY <1>2, <1>3, <2>1 DEF i
    <3>3. i.units[b] = u /\ i.units[up] = g.units[up]
      BY <1>1, <1>2, <1>3
    <3> HIDE DEF a
    <3>4. /\ Blocks(a) = Blocks(i) \ {up} /\ Starts(a) = Starts(i) \ {up}
          /\ \A z \in Blocks(a) : a.next[z] = IF z = b THEN i.next[up] ELSE i.next[z]
          /\ \A z \in Starts(a) : a.units[z] = IF z = b THEN i.units[b] + i.units[up]
                                               ELSE i.units[z]
          /\ a.next = [z \in Blocks(a) |-> a.next[z]]
          /\ a.units = [z \in Starts(a) |-> a.units[z]]
          /\ a.slobfree = i.slobfree
          /\ a = [next |-> a.next, units |-> a.units, slobfree |-> a.slobfree]
      <4> HIDE DEF up
      <4> QED BY <3>1, <3>2, JoinedFields
    <3>5. gone = {up} /\ size = u + g.units[up] /\ after = g.next[up]
      BY <2>1
    <3> HIDE DEF up, gone, size, after
    <3> QED BY <1>3, <3>2, <3>3, <3>4, <3>5
  <2>2. CASE ~above
    <3>1. a = i
      BY <2>2 DEF Upper, i
    <3>2. gone = {} /\ size = u /\ after = up
      BY <2>2
    <3> HIDE DEF a, up, gone, size, after
    <3> QED BY <1>3, <3>1, <3>2
  <2> QED BY <2>1, <2>2
<1> HIDE DEF a
<1>5. cur \in Blocks(a) /\ b \in Blocks(a) /\ a.next[cur] = b /\ a.next[b] = after
  BY <1>1, <1>2, <1>4
<1>6. a.units[cur] = g.units[cur] /\ a.units[b] = size /\ a.units[b] >= u
      /\ cur \in Starts(a) /\ b \in Starts(a)
  BY <1>1, <1>2, <1>4
<1>7. /\ f = [next |-> f.next, units |-> f.units, slobfree |-> f.slobfree]
      /\ f.slobfree = cur
      /\ f.next = [z \in Blocks(f) |-> f.next[z]]
      /\ f.units = [z \in Starts(f) |-> f.units[z]]
      /\ Blocks(f) = IF below THEN Blocks(g) \ gone ELSE (Blocks(g) \ gone) \cup {b}
      /\ Starts(f) = IF below THEN (Starts(g) \ gone) \ {b} ELSE (Starts(g) \ gone) \cup {b}
      /\ \A z \in Blocks(f) : f.next[z] =
           IF below THEN IF z = cur THEN after ELSE g.next[z]
           ELSE IF z = b THEN after ELSE IF z = cur THEN b ELSE g.next[z]
      /\ \A z \in Starts(f) : f.units[z] =
           IF below THEN IF z = cur THEN g.units[z] + size ELSE g.units[z]
           ELSE IF z = b THEN size ELSE g.units[z]
  BY <1>1, <1>2, FreeFields
<1> HIDE DEF f
<1>8. b \notin gone /\ b \notin Blocks(g) /\ cur \notin gone
  BY <1>1, <1>2
<1>9. f = l
  <2>1. CASE below
    <3>1. l = Joined(a, cur)
      BY <2>1 DEF Lower, a
    <3> HIDE DEF l
    <3>2. /\ Blocks(l) = Blocks(a) \ {b} /\ Starts(l) = Starts(a) \ {b}
          /\ \A z \in Blocks(l) : l.next[z] = IF z = cur THEN a.next[b] ELSE a.next[z]
          /\ \A z \in Starts(l) : l.units[z] = IF z = cur THEN a.units[cur] + a.units[b]
                                               ELSE a.units[z]
          /\ l.next = [z \in Blocks(l) |-> l.next[z]]
          /\ l.units = [z \in Starts(l) |-> l.units[z]]
          /\ l.slobfree = a.slobfree
          /\ l = [next |-> l.next, units |-> l.units, slobfree |-> l.slobfree]
      <4>1. Heap(a)
        BY DEF a
      <4> QED BY <1>5, <3>1, <4>1, JoinedFields
    <3> HIDE DEF up, gone, size, after, below, above
    <3>3. Blocks(f) = Blocks(l) /\ Starts(f) = Starts(l)
      BY <1>4, <1>7, <1>8, <2>1, <3>2
    <3>4. ASSUME NEW z \in Blocks(f) PROVE f.next[z] = l.next[z]
      <4>1. z \in Blocks(l) /\ z \in Blocks(a) /\ z # b
        BY <3>2, <3>3, <3>4
      <4>2. f.next[z] = IF z = cur THEN after ELSE g.next[z]
        BY <1>7, <2>1, <3>4
      <4>3. a.next[z] = IF z = cur THEN b ELSE g.next[z]
        BY <1>4, <4>1
      <4>4. l.next[z] = IF z = cur THEN a.next[b] ELSE a.next[z]
        BY <3>2, <4>1
      <4> QED BY <1>5, <4>2, <4>3, <4>4
    <3>5. ASSUME NEW z \in Starts(f) PROVE f.units[z] = l.units[z]
      <4>1. z \in Starts(l) /\ z \in Starts(a) /\ z # b
        BY <3>2, <3>3, <3>5
      <4>2. f.units[z] = IF z = cur THEN g.units[z] + size ELSE g.units[z]
        BY <1>7, <2>1, <3>5
      <4>3. a.units[z] = g.units[z]
        BY <1>4, <4>1
      <4>4. l.units[z] = IF z = cur THEN a.units[cur] + a.units[b] ELSE a.units[z]
        BY <3>2, <4>1
      <4> QED BY <1>6, <4>2, <4>3, <4>4
    <3>6. f.slobfree = l.slobfree
      BY <1>4, <1>7, <3>2
    <3>7. /\ f = [next |-> f.next, units |-> f.units, slobfree |-> f.slobfree]
          /\ f.next = [z \in Blocks(f) |-> f.next[z]]
          /\ f.units = [z \in Starts(f) |-> f.units[z]]
      BY <1>7
    <3>8. /\ l = [next |-> l.next, units |-> l.units, slobfree |-> l.slobfree]
          /\ l.next = [z \in Blocks(l) |-> l.next[z]]
          /\ l.units = [z \in Starts(l) |-> l.units[z]]
      BY <3>2
    <3>9. \A z \in Blocks(f) : f.next[z] = l.next[z]
      BY <3>4
    <3>10. \A z \in Starts(f) : f.units[z] = l.units[z]
      BY <3>5
    <3> QED BY <3>3, <3>6, <3>7, <3>8, <3>9, <3>10, SameHeap
  <2>2. CASE ~below
    <3>1. l = a
      BY <2>2 DEF Lower, a
    <3> HIDE DEF l, up, gone, size, after, below, above
    <3>3. Blocks(f) = Blocks(a) /\ Starts(f) = Starts(a)
      BY <1>4, <1>7, <1>8, <2>2
    <3>4. ASSUME NEW z \in Blocks(f) PROVE f.next[z] = a.next[z]
      BY <1>4, <1>7, <2>2, <3>3
    <3>5. ASSUME NEW z \in Starts(f) PROVE f.units[z] = a.units[z]
      BY <1>4, <1>7, <2>2, <3>3
    <3>6. f.slobfree = a.slobfree
      BY <1>4, <1>7
    <3>7. f = a
      BY <1>4, <1>7, <3>3, <3>4, <3>5, <3>6, SameHeap
    <3> QED BY <3>1, <3>7
  <2> QED BY <2>1, <2>2
<1>10. a.slobfree = cur
  BY <1>4
<1> QED BY <1>5, <1>6, <1>9, <1>10 DEF f, l, a

\* slob_free keeps the heap, joins both neighbours and frees just this block.
LEMMA SlobFree ==
    ASSUME NEW g, Slob(g), NEW b, NEW u, Room(g, b, u), b \notin Blocks(g)
    PROVE  LET f == slob_free(g, b, u)
           IN  /\ Slob(f)
               /\ Taking(g, f, Taken(g) \ {b})
               /\ Space(f) = Rest(g, b) \cup (b .. b + u - 1)
               /\ \E x \in Blocks(f) : f.units[x] >= u
<1> DEFINE cur == FreeAt(g, b)
           i == Inserted(g, b, u, cur)
           a == Upper(g, b, u, cur)
           l == Lower(g, b, u, cur)
           f == slob_free(g, b, u)
           up == g.next[cur]
           X == Taken(g) \ {b}
<1>1. Before(g, b, cur)
  BY PlaceFound DEF Room
<1> HIDE DEF cur
<1>2. /\ Heap(g)
      /\ g.next \in [Blocks(g) -> Blocks(g)] /\ g.units \in [Starts(g) -> Nat \ {0}]
      /\ Blocks(g) \subseteq Starts(g) /\ Starts(g) \subseteq Nat
      /\ b \in Nat /\ u \in Nat \ {0} /\ cur \in Blocks(g) /\ cur < b /\ cur \in Nat /\ cur # b
  BY <1>1, HeapFields DEF Slob, Room, Before
<1>3. up \in Blocks(g) /\ up # b /\ up \in Nat
  BY <1>2
<1>4. /\ Heap(i) /\ Circular(i) /\ Apart(i) /\ Taking(g, i, X)
      /\ Space(i) = Rest(g, b) \cup (b .. b + u - 1) /\ Touch(i) \subseteq {b, cur}
  <2> HIDE DEF up
  <2>1. Slob(g) /\ Room(g, b, u) /\ b \notin Blocks(g)
    OBVIOUS
  <2>2. LET k == Inserted(g, b, u, cur)
        IN  /\ Heap(k) /\ Circular(k) /\ Apart(k)
            /\ Taking(g, k, Taken(g) \ {b})
            /\ Space(k) = Rest(g, b) \cup (b .. b + u - 1)
            /\ Touch(k) \subseteq {b, cur}
    BY <1>1, <2>1, InsertedFacts, ZenonT(30)
  <2> QED BY <2>2
<1>5. /\ Blocks(i) = Blocks(g) \cup {b} /\ Starts(i) = Starts(g) \cup {b}
      /\ i.next[b] = up /\ i.slobfree = cur /\ i.units[b] = u
  <2>1. LET k == Inserted(g, b, u, cur)
        IN  /\ Blocks(k) = Blocks(g) \cup {b} /\ Starts(k) = Starts(g) \cup {b}
            /\ \A z \in Blocks(k) : k.next[z] = IF z = b THEN g.next[cur]
                                                ELSE IF z = cur THEN b ELSE g.next[z]
            /\ \A z \in Starts(k) : k.units[z] = IF z = b THEN u ELSE g.units[z]
            /\ k.next = [z \in Blocks(k) |-> k.next[z]]
            /\ k.units = [z \in Starts(k) |-> k.units[z]]
            /\ k.slobfree = cur
            /\ k = [next |-> k.next, units |-> k.units, slobfree |-> k.slobfree]
    <3> HIDE DEF up
    <3>1. Heap(g)
      BY <1>2
    <3>2. cur \in Blocks(g)
      BY <1>2
    <3>3. b # cur
      BY <1>2
    <3> QED BY <3>1, <3>2, <3>3, InsertedFields
  <2>2. /\ Blocks(i) = Blocks(g) \cup {b} /\ Starts(i) = Starts(g) \cup {b}
        /\ \A z \in Blocks(i) : i.next[z] = IF z = b THEN up
                                            ELSE IF z = cur THEN b ELSE g.next[z]
        /\ \A z \in Starts(i) : i.units[z] = IF z = b THEN u ELSE g.units[z]
        /\ i.slobfree = cur
    BY <2>1
  <2> HIDE DEF i
  <2> QED BY <2>2
<1> HIDE DEF i
<1>6. /\ Heap(a) /\ Circular(a) /\ Apart(a) /\ Taking(g, a, X)
      /\ Space(a) = Space(i) /\ Touch(a) \subseteq {cur}
  <2>1. CASE b + u = up
    <3>1. a = Joined(i, b)
      BY <2>1 DEF Upper, i
    <3>2. b \in Blocks(i) /\ b + i.units[b] = i.next[b] /\ i.slobfree # i.next[b]
      BY <1>2, <1>3, <1>5, <2>1
    <3> HIDE DEF a
    <3>3. /\ Heap(a) /\ Circular(a) /\ Apart(a)
          /\ Taking(i, a, Taken(i)) /\ Space(a) = Space(i)
          /\ Touch(a) \subseteq (Touch(i) \ {b, i.next[b]})
                                  \cup (IF i.next[b] \in Touch(i) THEN {b} ELSE {})
      BY <1>4, <3>1, <3>2, JoinedFacts
    <3>4. i.next[b] \notin Touch(i)
      BY <1>2, <1>3, <1>4, <1>5, <2>1
    <3>5. Taking(g, a, X)
      <4>1. Taken(i) = X
        BY <1>4 DEF Taking
      <4> HIDE DEF X
      <4> QED BY <1>4, <3>3, <4>1, TakingOn
    <3> HIDE DEF X
    <3> QED BY <1>4, <3>3, <3>4, <3>5
  <2>2. CASE b + u # up
    <3>1. a = i
      BY <2>2 DEF Upper, i
    <3>2. b \notin Touch(i)
      <4> SUFFICES ASSUME b + u \in Blocks(i) PROVE FALSE
        BY <1>5 DEF Touch
      <4>1. Leads(Blocks(i), b, up) /\ b + u \in Nat /\ b < b + u
        <5>1. Leads(Blocks(i), b, i.next[b])
          BY <1>4, <1>5 DEF Circular
        <5> QED BY <1>2, <1>5, <5>1
      <4>2. b < up /\ up <= b + u
        BY <1>2, <1>3, <4>1 DEF Leads
      <4>3. b + u <= up
        BY <1>2, <1>3, <1>4, <1>5, <4>2 DEF Apart
      <4> QED BY <1>2, <1>3, <2>2, <4>2, <4>3
    <3> HIDE DEF a, X
    <3> QED BY <1>4, <3>1, <3>2
  <2> QED BY <2>1, <2>2
<1>7. /\ f = l
      /\ cur \in Blocks(a) /\ b \in Blocks(a) /\ a.next[cur] = b
      /\ a.slobfree = cur
      /\ a.units[cur] = g.units[cur] /\ a.units[b] >= u
  <2>1. Heap(Inserted(g, b, u, cur))
    BY <1>4 DEF i
  <2> QED BY <1>1, <1>6, <2>1, FreeIsLower DEF cur
<1> HIDE DEF a, f, X
<1>8. g.units[cur] \in Nat \ {0} /\ a.units[b] \in Nat \ {0} /\ Blocks(a) \subseteq Starts(a)
  <2>1. a.units \in [Starts(a) -> Nat \ {0}] /\ Blocks(a) \subseteq Starts(a)
    BY <1>6, HeapFields
  <2>2. b \in Starts(a) /\ cur \in Starts(g)
    BY <1>2, <1>7, <2>1
  <2> QED BY <1>2, <2>1, <2>2
<1>9. CASE cur + g.units[cur] = b
  <2>1. l = Joined(a, cur)
    BY <1>9 DEF Lower, a
  <2> HIDE DEF l
  <2>2. cur + a.units[cur] = a.next[cur] /\ a.slobfree # a.next[cur]
    BY <1>2, <1>7, <1>9
  <2>3. /\ Heap(l) /\ Circular(l) /\ Apart(l)
        /\ Taking(a, l, Taken(a)) /\ Space(l) = Space(a)
        /\ Touch(l) \subseteq (Touch(a) \ {cur, a.next[cur]})
                                \cup (IF a.next[cur] \in Touch(a) THEN {cur} ELSE {})
    BY <1>6, <1>7, <2>1, <2>2, JoinedFacts
  <2>4. Touch(l) = {}
    BY <1>2, <1>6, <1>7, <2>3
  <2>5. Taken(a) = X
    BY <1>6 DEF Taking
  <2>6. Taking(g, l, X)
    BY <1>6, <2>3, <2>5, TakingOn
  <2>7. cur \in Blocks(l) /\ l.units[cur] >= u
    <3>1. /\ Blocks(l) = Blocks(a) \ {b} /\ Starts(l) = Starts(a) \ {b}
          /\ \A z \in Starts(l) : l.units[z] = IF z = cur THEN a.units[cur] + a.units[b]
                                               ELSE a.units[z]
      <4>1. cur \in Blocks(a) /\ Heap(a)
        BY <1>6, <1>7
      <4>2. LET y == a.next[cur]
                j == Joined(a, cur)
            IN  /\ Blocks(j) = Blocks(a) \ {y} /\ Starts(j) = Starts(a) \ {y}
                /\ \A z \in Blocks(j) : j.next[z] = IF z = cur THEN a.next[y] ELSE a.next[z]
                /\ \A z \in Starts(j) : j.units[z] = IF z = cur THEN a.units[cur] + a.units[y]
                                                     ELSE a.units[z]
                /\ j.next = [z \in Blocks(j) |-> j.next[z]]
                /\ j.units = [z \in Starts(j) |-> j.units[z]]
                /\ j.slobfree = a.slobfree
                /\ j = [next |-> j.next, units |-> j.units, slobfree |-> j.slobfree]
        BY <4>1, JoinedFields, ZenonT(30)
      <4> QED BY <1>7, <2>1, <4>2
    <3>2. l.units[cur] = a.units[cur] + a.units[b]
      BY <1>2, <1>7, <1>8, <3>1
    <3> QED BY <1>2, <1>7, <1>8, <3>1, <3>2
  <2>8. Slob(l)
    BY <2>3, <2>4, LooseIsNoTouch DEF Slob
  <2> QED BY <1>4, <1>6, <1>7, <2>3, <2>6, <2>7, <2>8 DEF f, X
<1>10. CASE cur + g.units[cur] # b
  <2>1. l = a
    BY <1>10 DEF Lower, a
  <2>2. Touch(a) = {}
    <3> SUFFICES ASSUME cur + g.units[cur] \in Blocks(a) PROVE FALSE
      BY <1>6, <1>7 DEF Touch
    <3>1. Leads(Blocks(a), cur, b)
      BY <1>6, <1>7 DEF Circular
    <3>2. b <= cur + g.units[cur]
      BY <1>2, <1>8, <3>1, Numbers DEF Leads
    <3>3. cur + a.units[cur] <= b
      BY <1>2, <1>6, <1>7, <1>8 DEF Apart
    <3> QED BY <1>2, <1>7, <1>8, <1>10, <3>2, <3>3
  <2>3. Slob(a)
    BY <1>6, <2>2, LooseIsNoTouch DEF Slob
  <2> HIDE DEF l
  <2> QED BY <1>4, <1>6, <1>7, <2>1, <2>3 DEF f, X
<1> QED BY <1>9, <1>10

----------------------------------------------------------------------------
(***************************************************************************)
(* slob_alloc.                                                             *)
(***************************************************************************)

\* The two ways a block is taken: whole, or its lower n units.
Unlinked(g, prev, cur) ==
    [g EXCEPT !.next = Without([@ EXCEPT ![prev] = g.next[cur]], cur), !.slobfree = prev]
Cut(g, n, prev, cur) ==
    [next |-> With(Without([g.next EXCEPT ![prev] = cur + n], cur), cur + n, g.next[cur]),
     units |-> With([g.units EXCEPT ![cur] = n], cur + n, g.units[cur] - n),
     slobfree |-> prev]

\* Two blocks of the list, one behind the other.
Linked(g, prev, cur) ==
    prev \in Blocks(g) /\ cur \in Blocks(g) /\ g.next[prev] = cur /\ cur # arena

\* What taking cur does: it is in use now, and the units are the same.
Took(g, f, n, cur) ==
    /\ Slob(f)
    /\ Taken(f) = Taken(g) \cup {cur} /\ f.units[cur] = n
    /\ \A x \in Taken(g) : f.units[x] = g.units[x]
    /\ Space(f) = Space(g)

\* A block has just one block before it in the list, the last one below it.
LEMMA Neighbours ==
    ASSUME NEW g, Heap(g), Circular(g), NEW prev, NEW cur, Linked(g, prev, cur)
    PROVE  /\ prev < cur /\ \A c \in Blocks(g) : c <= prev \/ cur <= c
           /\ g.next[cur] # cur /\ g.next[cur] \in Blocks(g)
           /\ \A z \in Blocks(g) : g.next[z] = cur => z = prev
<1> DEFINE B == Blocks(g)
<1>1. /\ g.next \in [B -> B] /\ B \subseteq Nat /\ prev \in B /\ cur \in B /\ g.next[prev] = cur
      /\ cur # arena /\ \A z \in B : Leads(B, z, g.next[z])
  BY HeapFields DEF Linked, Circular
<1> HIDE DEF B
<1>2. Leads(B, prev, cur) /\ Leads(B, cur, g.next[cur])
  BY <1>1
<1>3. prev < cur /\ \A c \in B : c <= prev \/ cur <= c
  BY <1>1, <1>2 DEF Leads
<1>4. g.next[cur] # cur /\ g.next[cur] \in B
  BY <1>1, <1>2 DEF Leads
<1>5. ASSUME NEW z \in B, g.next[z] = cur PROVE z = prev
  <2>1. Leads(B, z, cur)
    BY <1>1, <1>5
  <2>2. z < cur /\ \A c \in B : c <= z \/ cur <= c
    BY <1>1, <2>1 DEF Leads
  <2>3. z \in Nat /\ prev \in Nat /\ cur \in Nat
    BY <1>1
  <2>4. prev <= z
    BY <1>1, <1>3, <2>2, <2>3
  <2>5. z <= prev
    BY <1>3, <2>2, <2>3
  <2> QED BY <2>3, <2>4, <2>5
<1> QED BY <1>3, <1>4, <1>5 DEF B

\* Unlinked, field by field.
LEMMA UnlinkedFields ==
    ASSUME NEW g, Heap(g), NEW prev, NEW cur, prev \in Blocks(g), cur \in Blocks(g), prev # cur
    PROVE  LET f == Unlinked(g, prev, cur)
           IN  /\ Blocks(f) = Blocks(g) \ {cur} /\ Starts(f) = Starts(g)
               /\ \A z \in Blocks(f) : f.next[z] = IF z = prev THEN g.next[cur] ELSE g.next[z]
               /\ f.next = [z \in Blocks(f) |-> f.next[z]]
               /\ f.units = g.units
               /\ f.slobfree = prev
               /\ f = [next |-> f.next, units |-> f.units, slobfree |-> f.slobfree]
<1> DEFINE f == Unlinked(g, prev, cur)
           nx == [g.next EXCEPT ![prev] = g.next[cur]]
<1>1. DOMAIN g.next = Blocks(g) /\ DOMAIN g.units = Starts(g) /\ g.next \in [Blocks(g) -> Blocks(g)]
  BY HeapFields DEF Blocks, Starts
<1>2. /\ DOMAIN nx = Blocks(g)
      /\ \A z \in Blocks(g) : nx[z] = IF z = prev THEN g.next[cur] ELSE g.next[z]
  BY <1>1
<1>3. f = [next |-> Without(nx, cur), units |-> g.units, slobfree |-> prev]
  <2>1. g = [next |-> g.next, units |-> g.units, slobfree |-> g.slobfree]
    BY HeapFields
  <2> DEFINE x == Without(nx, cur)
  <2>2. f = [[g EXCEPT !.next = x] EXCEPT !.slobfree = prev]
    BY DEF Unlinked
  <2> HIDE DEF f, x
  <2>3. [g EXCEPT !.next = x] = [next |-> x, units |-> g.units, slobfree |-> g.slobfree]
    BY <2>1
  <2>4. f = [next |-> x, units |-> g.units, slobfree |-> prev]
    BY <2>2, <2>3
  <2> QED BY <2>4 DEF x
<1> HIDE DEF f, nx
<1>4. f.next = Without(nx, cur) /\ f.units = g.units /\ f.slobfree = prev
  BY <1>3
<1>5. /\ Blocks(f) = Blocks(g) \ {cur} /\ Starts(f) = Starts(g)
      /\ f.next = [z \in Blocks(g) \ {cur} |-> nx[z]]
  BY <1>1, <1>2, <1>4 DEF Blocks, Starts, Without
<1>6. \A z \in Blocks(f) : f.next[z] = nx[z]
  BY <1>5
<1>7. f.next = [z \in Blocks(f) |-> f.next[z]]
  BY <1>5, <1>6
<1>8. f = [next |-> f.next, units |-> f.units, slobfree |-> f.slobfree]
  BY <1>3, <1>4
<1>9. \A z \in Blocks(f) : f.next[z] = IF z = prev THEN g.next[cur] ELSE g.next[z]
  BY <1>2, <1>5, <1>6
<1> QED BY <1>4, <1>5, <1>7, <1>8, <1>9 DEF f

\* A block taken whole.
LEMMA UnlinkedFacts ==
    ASSUME NEW g, Slob(g), NEW prev, NEW cur, Linked(g, prev, cur)
    PROVE  Took(g, Unlinked(g, prev, cur), g.units[cur], cur)
<1> DEFINE f == Unlinked(g, prev, cur)
           B == Blocks(g)
<1>1. /\ Heap(g) /\ Circular(g) /\ Apart(g) /\ Loose(g)
      /\ g.next \in [B -> B] /\ g.units \in [Starts(g) -> Nat \ {0}]
      /\ B \subseteq Starts(g) /\ Starts(g) \subseteq Nat
      /\ prev \in B /\ cur \in B /\ g.next[prev] = cur /\ cur # arena /\ arena = 0
  BY HeapFields, Numbers DEF Slob, Linked
<1>2. /\ prev < cur /\ \A c \in B : c <= prev \/ cur <= c
      /\ g.next[cur] # cur /\ g.next[cur] \in B
      /\ \A z \in B : g.next[z] = cur => z = prev
  BY <1>1, Neighbours
<1>3. prev # cur /\ prev \in Nat /\ cur \in Nat
  BY <1>1, <1>2
<1>4. /\ Blocks(f) = B \ {cur} /\ Starts(f) = Starts(g)
      /\ \A z \in Blocks(f) : f.next[z] = IF z = prev THEN g.next[cur] ELSE g.next[z]
      /\ f.next = [z \in Blocks(f) |-> f.next[z]]
      /\ f.units = g.units
      /\ f.slobfree = prev
      /\ f = [next |-> f.next, units |-> f.units, slobfree |-> f.slobfree]
  BY <1>1, <1>3, UnlinkedFields
<1>5. \A z \in B : Leads(B, z, g.next[z])
  BY <1>1 DEF Circular
<1>6. arena \in B /\ g.units[arena] = 1
  BY <1>1 DEF Heap, B
<1> HIDE DEF f, B
<1>7. f.next \in [Blocks(f) -> Blocks(f)]
  <2>1. ASSUME NEW z \in Blocks(f) PROVE f.next[z] \in Blocks(f)
    BY <1>1, <1>2, <1>4
  <2> QED BY <1>4, <2>1
<1>8. Heap(f)
  <2>1. \A x \in Starts(f) : (x # arena => UPP <= x) /\ x + f.units[x] <= Limit
    BY <1>1, <1>4 DEF Heap
  <2>2. arena \in Blocks(f) /\ f.units[arena] = 1 /\ f.slobfree \in Blocks(f)
    BY <1>1, <1>3, <1>4, <1>6
  <2>3. Blocks(f) \subseteq Starts(f) /\ Starts(f) \subseteq Nat
    BY <1>1, <1>4
  <2>4. f.units \in [Starts(f) -> Nat \ {0}]
    BY <1>1, <1>4
  <2>5. f \in [next : [Blocks(f) -> Blocks(f)], units : [Starts(f) -> Nat \ {0}],
               slobfree : Blocks(f)]
    BY <1>4, <1>7, <2>2, <2>4
  <2> QED BY <2>1, <2>2, <2>3, <2>5 DEF Heap
<1>9. Circular(f)
  <2>1. ASSUME NEW z \in Blocks(f) PROVE Leads(Blocks(f), z, f.next[z])
    <3>1. CASE z = prev
      <4>1. f.next[z] = g.next[cur] /\ Leads(B, cur, g.next[cur]) /\ g.next[cur] \in Nat
        BY <1>1, <1>2, <1>4, <1>5, <2>1, <3>1
      <4>2. \A c \in B : c \in Nat
        BY <1>1
      <4> QED BY <1>1, <1>2, <1>3, <1>4, <3>1, <4>1, <4>2 DEF Leads
    <3>2. CASE z # prev
      <4>1. f.next[z] = g.next[z] /\ z \in B /\ Leads(B, z, g.next[z])
        BY <1>4, <1>5, <2>1, <3>2
      <4> QED BY <1>4, <4>1 DEF Leads
    <3> QED BY <3>1, <3>2
  <2> QED BY <2>1 DEF Circular
<1>10. Apart(f)
  BY <1>1, <1>4 DEF Apart
<1>11. Loose(f)
  BY <1>1, <1>4 DEF Loose, B
<1>12. Space(f) = Space(g)
  BY <1>4 DEF Space, Chunk
<1>13. Taken(f) = Taken(g) \cup {cur} /\ f.units = g.units
  BY <1>1, <1>4 DEF Taken, B
<1> QED BY <1>8, <1>9, <1>10, <1>11, <1>12, <1>13 DEF Took, Slob, f

\* Cut, field by field.
LEMMA CutFields ==
    ASSUME NEW g, Heap(g), NEW n, NEW prev, NEW cur, prev \in Blocks(g), cur \in Blocks(g),
           prev # cur, cur + n \notin Starts(g)
    PROVE  LET f == Cut(g, n, prev, cur)
               m == cur + n
           IN  /\ Blocks(f) = (Blocks(g) \ {cur}) \cup {m} /\ Starts(f) = Starts(g) \cup {m}
               /\ \A z \in Blocks(f) : f.next[z] = IF z = m THEN g.next[cur]
                                                   ELSE IF z = prev THEN m ELSE g.next[z]
               /\ \A z \in Starts(f) : f.units[z] = IF z = m THEN g.units[cur] - n
                                                    ELSE IF z = cur THEN n ELSE g.units[z]
               /\ f.next = [z \in Blocks(f) |-> f.next[z]]
               /\ f.units = [z \in Starts(f) |-> f.units[z]]
               /\ f.slobfree = prev
               /\ f = [next |-> f.next, units |-> f.units, slobfree |-> f.slobfree]
<1> DEFINE f == Cut(g, n, prev, cur)
           m == cur + n
           nx == [g.next EXCEPT ![prev] = m]
           un == [g.units EXCEPT ![cur] = n]
<1>1. /\ DOMAIN g.next = Blocks(g) /\ DOMAIN g.units = Starts(g) /\ Blocks(g) \subseteq Starts(g)
      /\ g.next \in [Blocks(g) -> Blocks(g)] /\ g.units \in [Starts(g) -> Nat \ {0}]
  BY HeapFields DEF Blocks, Starts
<1>2. f = [next |-> With(Without(nx, cur), m, g.next[cur]),
           units |-> With(un, m, g.units[cur] - n), slobfree |-> prev]
  BY DEF Cut
<1>3. /\ DOMAIN nx = Blocks(g) /\ DOMAIN un = Starts(g)
      /\ \A z \in Blocks(g) : nx[z] = IF z = prev THEN m ELSE g.next[z]
      /\ \A z \in Starts(g) : un[z] = IF z = cur THEN n ELSE g.units[z]
  BY <1>1
<1>4. m \notin Blocks(g) /\ m \notin Starts(g)
  BY <1>1
<1> HIDE DEF f, nx, un, m
<1>5. /\ f.next = With(Without(nx, cur), m, g.next[cur])
      /\ f.units = With(un, m, g.units[cur] - n) /\ f.slobfree = prev
  BY <1>2
<1>6. /\ Blocks(f) = (Blocks(g) \ {cur}) \cup {m}
      /\ f.next = [z \in (Blocks(g) \ {cur}) \cup {m} |->
                     IF z = m THEN g.next[cur] ELSE Without(nx, cur)[z]]
  <2>1. DOMAIN Without(nx, cur) = Blocks(g) \ {cur}
    BY <1>3 DEF Without
  <2> QED BY <1>5, <2>1 DEF With, Blocks
<1>7. /\ Starts(f) = Starts(g) \cup {m}
      /\ f.units = [z \in Starts(g) \cup {m} |-> IF z = m THEN g.units[cur] - n ELSE un[z]]
  BY <1>3, <1>5 DEF With, Starts
<1>8. ASSUME NEW z \in Blocks(f)
      PROVE  f.next[z] = IF z = m THEN g.next[cur] ELSE IF z = prev THEN m ELSE g.next[z]
  <2>1. CASE z = m
    BY <1>6, <2>1
  <2>2. CASE z # m
    <3>1. z \in Blocks(g) \ {cur} /\ f.next[z] = Without(nx, cur)[z]
      BY <1>6, <1>8, <2>2
    <3>2. Without(nx, cur)[z] = nx[z]
      BY <1>3, <3>1 DEF Without
    <3> QED BY <1>3, <2>2, <3>1, <3>2
  <2> QED BY <2>1, <2>2
<1>9. ASSUME NEW z \in Starts(f)
      PROVE  f.units[z] = IF z = m THEN g.units[cur] - n ELSE IF z = cur THEN n ELSE g.units[z]
  BY <1>3, <1>7
<1>10. f.next = [z \in Blocks(f) |-> f.next[z]] /\ f.units = [z \in Starts(f) |-> f.units[z]]
  BY <1>6, <1>7
<1>11. f = [next |-> f.next, units |-> f.units, slobfree |-> f.slobfree]
  BY <1>2, <1>5
<1> QED BY <1>5, <1>6, <1>7, <1>8, <1>9, <1>10, <1>11 DEF f, m

\* A block of which the lower part is taken: the upper part stays free in its place.
LEMMA CutFacts ==
    ASSUME NEW g, Slob(g), NEW n \in Nat \ {0}, NEW prev, NEW cur, Linked(g, prev, cur),
           n < g.units[cur]
    PROVE  Took(g, Cut(g, n, prev, cur), n, cur)
<1> DEFINE f == Cut(g, n, prev, cur)
           B == Blocks(g)
           m == cur + n
           v == g.units[cur]
<1>1. /\ Heap(g) /\ Circular(g) /\ Apart(g) /\ Loose(g)
      /\ g.next \in [B -> B] /\ g.units \in [Starts(g) -> Nat \ {0}]
      /\ B \subseteq Starts(g) /\ Starts(g) \subseteq Nat
      /\ prev \in B /\ cur \in B /\ g.next[prev] = cur /\ cur # arena /\ arena = 0
      /\ Limit \in Nat /\ UPP \in Nat
  BY HeapFields, Numbers DEF Slob, Linked
<1>2. /\ prev < cur /\ \A c \in B : c <= prev \/ cur <= c
      /\ g.next[cur] # cur /\ g.next[cur] \in B
      /\ \A z \in B : g.next[z] = cur => z = prev
  BY <1>1, Neighbours
<1>3. /\ prev # cur /\ prev \in Nat /\ cur \in Nat /\ v \in Nat \ {0} /\ n \in Nat \ {0} /\ n < v
      /\ m \in Nat /\ cur < m /\ m < cur + v /\ UPP <= cur /\ cur + v <= Limit
  BY <1>1, <1>2 DEF Heap
<1>4. /\ \A x \in Starts(g) : x < cur => x + g.units[x] <= cur
      /\ \A x \in Starts(g) : cur < x => cur + v <= x
  BY <1>1 DEF Apart
<1>5. m \notin Starts(g)
  BY <1>1, <1>3, <1>4
<1> HIDE DEF m, v
<1>6. /\ Blocks(f) = (B \ {cur}) \cup {m} /\ Starts(f) = Starts(g) \cup {m}
      /\ \A z \in Blocks(f) : f.next[z] = IF z = m THEN g.next[cur]
                                          ELSE IF z = prev THEN m ELSE g.next[z]
      /\ \A z \in Starts(f) : f.units[z] = IF z = m THEN v - n
                                           ELSE IF z = cur THEN n ELSE g.units[z]
      /\ f.next = [z \in Blocks(f) |-> f.next[z]]
      /\ f.units = [z \in Starts(f) |-> f.units[z]]
      /\ f.slobfree = prev
      /\ f = [next |-> f.next, units |-> f.units, slobfree |-> f.slobfree]
  BY <1>1, <1>3, <1>5, CutFields DEF m, v
<1>7. \A z \in B : Leads(B, z, g.next[z])
  BY <1>1 DEF Circular
<1>8. arena \in B /\ g.units[arena] = 1
  BY <1>1 DEF Heap, B
<1> HIDE DEF f, B
<1>m. /\ m \in Blocks(f) /\ m \in Starts(f) /\ f.next[m] = g.next[cur] /\ f.units[m] = v - n
      /\ cur \in Starts(f) /\ cur # m /\ f.units[cur] = n
  <2>1. m \in Blocks(f) /\ m \in Starts(f) /\ cur \in Starts(f) /\ cur # m
    BY <1>1, <1>3, <1>6
  <2> QED BY <1>6, <2>1
<1>x. ASSUME NEW x \in Starts(g), x # cur
      PROVE  x \in Starts(f) /\ x # m /\ f.units[x] = g.units[x]
  BY <1>5, <1>6, <1>x
<1>9. f.next \in [Blocks(f) -> Blocks(f)]
  <2>1. ASSUME NEW z \in Blocks(f) PROVE f.next[z] \in Blocks(f)
    <3>1. CASE z = m
      BY <1>2, <1>6, <1>m, <3>1
    <3>2. CASE z = prev /\ z # m
      BY <1>6, <1>m, <2>1, <3>2
    <3>3. CASE z # prev /\ z # m
      <4>1. z \in B /\ f.next[z] = g.next[z] /\ g.next[z] \in B /\ g.next[z] # cur
        BY <1>1, <1>2, <1>6, <2>1, <3>3
      <4> QED BY <1>6, <4>1
    <3> QED BY <3>1, <3>2, <3>3
  <2> QED BY <1>6, <2>1
<1>10. f.units \in [Starts(f) -> Nat \ {0}]
  <2>1. ASSUME NEW z \in Starts(f) PROVE f.units[z] \in Nat \ {0}
    <3>1. v - n \in Nat \ {0}
      BY <1>3
    <3>2. CASE z = m \/ z = cur
      BY <1>3, <1>m, <3>1, <3>2
    <3>3. CASE z # m /\ z # cur
      <4>1. z \in Starts(g)
        BY <1>6, <2>1, <3>3
      <4> QED BY <1>1, <1>x, <3>3, <4>1
    <3> QED BY <3>2, <3>3
  <2> QED BY <1>6, <2>1
<1>11. Heap(f)
  <2>1. ASSUME NEW x \in Starts(f) PROVE (x # arena => UPP <= x) /\ x + f.units[x] <= Limit
    <3>1. CASE x = m
      <4>1. m + (v - n) = cur + v /\ UPP <= m
        BY <1>1, <1>3 DEF m
      <4> QED BY <1>1, <1>3, <1>m, <3>1, <4>1
    <3>2. CASE x = cur /\ x # m
      <4>1. cur + n <= Limit
        BY <1>1, <1>3
      <4> QED BY <1>1, <1>3, <1>m, <3>2, <4>1
    <3>3. CASE x # m /\ x # cur
      <4>1. x \in Starts(g) /\ f.units[x] = g.units[x]
        BY <1>6, <2>1, <3>3
      <4> QED BY <1>1, <4>1 DEF Heap
    <3> QED BY <3>1, <3>2, <3>3
  <2>2. arena \in Blocks(f) /\ f.slobfree \in Blocks(f)
    BY <1>1, <1>3, <1>6, <1>8
  <2>3. f.units[arena] = 1
    <3>1. arena # m /\ arena # cur /\ arena \in Starts(f)
      BY <1>1, <1>3, <1>6, <1>8
    <3> QED BY <1>6, <1>8, <3>1
  <2>4. Blocks(f) \subseteq Starts(f) /\ Starts(f) \subseteq Nat
    BY <1>1, <1>3, <1>6
  <2>5. f \in [next : [Blocks(f) -> Blocks(f)], units : [Starts(f) -> Nat \ {0}],
               slobfree : Blocks(f)]
    BY <1>6, <1>9, <1>10, <2>2
  <2> QED BY <2>1, <2>2, <2>3, <2>4, <2>5 DEF Heap
<1>12. Circular(f)
  <2>0. \A c \in B : c \in Nat /\ (c = cur \/ c < cur \/ cur + v <= c)
    BY <1>1, <1>3, <1>4
  <2>1. ASSUME NEW z \in Blocks(f) PROVE Leads(Blocks(f), z, f.next[z])
    <3>1. CASE z = m
      <4>1. f.next[z] = g.next[cur] /\ Leads(B, cur, g.next[cur]) /\ g.next[cur] \in B
        BY <1>1, <1>2, <1>6, <1>7, <2>1, <3>1
      <4>2. CASE g.next[cur] = arena /\ \A c \in B : c <= cur
        BY <1>3, <1>6, <2>0, <3>1, <4>1, <4>2 DEF Leads
      <4>3. CASE cur < g.next[cur] /\ \A c \in B : c <= cur \/ g.next[cur] <= c
        <5>1. m < g.next[cur]
          BY <1>3, <2>0, <4>1, <4>3
        <5>2. \A c \in Blocks(f) : c <= m \/ g.next[cur] <= c
          BY <1>3, <1>6, <2>0, <4>3
        <5> QED BY <3>1, <4>1, <5>1, <5>2 DEF Leads
      <4> QED BY <4>1, <4>2, <4>3 DEF Leads
    <3>2. CASE z = prev /\ z # m
      <4>1. f.next[z] = m
        BY <1>6, <2>1, <3>2
      <4>2. prev < m
        BY <1>2, <1>3
      <4>3. \A c \in Blocks(f) : c <= prev \/ m <= c
        BY <1>2, <1>3, <1>6, <2>0
      <4> QED BY <3>2, <4>1, <4>2, <4>3 DEF Leads
    <3>3. CASE z # m /\ z # prev
      <4>1. f.next[z] = g.next[z] /\ z \in B /\ z # cur /\ Leads(B, z, g.next[z])
            /\ g.next[z] \in B /\ g.next[z] # cur
        BY <1>1, <1>2, <1>6, <1>7, <2>1, <3>3
      <4>2. cur <= z => m <= z
        BY <1>3, <2>0, <4>1
      <4>3. CASE g.next[z] = arena /\ \A c \in B : c <= z
        <5>1. m <= z
          BY <1>1, <4>2, <4>3
        <5> QED BY <1>6, <4>1, <4>3, <5>1 DEF Leads
      <4>4. CASE z < g.next[z] /\ \A c \in B : c <= z \/ g.next[z] <= c
        <5>1. m <= z \/ g.next[z] <= m
          <6>1. cur <= z \/ g.next[z] <= cur
            BY <1>1, <4>4
          <6> QED BY <1>3, <2>0, <4>1, <4>2, <6>1
        <5> QED BY <1>6, <4>1, <4>4, <5>1 DEF Leads
      <4> QED BY <4>1, <4>3, <4>4 DEF Leads
    <3> QED BY <3>1, <3>2, <3>3
  <2> QED BY <2>1 DEF Circular
<1>13. Apart(f)
  <2>1. ASSUME NEW p \in Starts(f), NEW q \in Starts(f), p < q PROVE p + f.units[p] <= q
    <3>1. CASE p = m
      <4>1. q \in Starts(g) /\ q \in Nat /\ f.units[p] = v - n
        <5>1. q # m
          BY <1>3, <2>1, <3>1
        <5>2. q \in Starts(g)
          BY <1>6, <2>1, <5>1
        <5> QED BY <1>1, <1>m, <3>1, <5>2
      <4>2. cur + v <= q
        BY <1>3, <1>4, <2>1, <3>1, <4>1
      <4> QED BY <1>3, <3>1, <4>1, <4>2 DEF m
    <3>2. CASE p = cur /\ p # m
      <4>1. f.units[p] = n
        BY <1>6, <2>1, <3>2
      <4>2. q = m \/ cur + v <= q
        BY <1>4, <1>6, <2>1, <3>2
      <4>3. q \in Nat
        BY <1>1, <1>3, <1>6
      <4> QED BY <1>3, <3>2, <4>1, <4>2, <4>3 DEF m
    <3>3. CASE p # cur /\ p # m
      <4>1. p \in Starts(g) /\ p \in Nat /\ f.units[p] = g.units[p] /\ g.units[p] \in Nat
        BY <1>1, <1>6, <2>1, <3>3
      <4>2. CASE q = m
        <5>1. p < cur
          BY <1>3, <1>4, <2>1, <3>3, <4>1, <4>2
        <5> QED BY <1>3, <1>4, <4>1, <4>2, <5>1
      <4>3. CASE q # m
        BY <1>1, <1>6, <2>1, <4>1, <4>3 DEF Apart
      <4> QED BY <4>2, <4>3
    <3> QED BY <3>1, <3>2, <3>3
  <2> QED BY <2>1 DEF Apart
<1>14. Loose(f)
  <2>1. ASSUME NEW p \in Blocks(f), NEW q \in Blocks(f), p < q PROVE p + f.units[p] # q
    <3>1. CASE p = m
      <4>1. q \in B /\ q \in Nat /\ q \in Starts(g) /\ f.units[p] = v - n /\ cur < q
        <5>1. q \in B /\ q \in Nat /\ q \in Starts(g)
          BY <1>1, <1>3, <1>6, <2>1, <3>1
        <5> QED BY <1>3, <1>m, <2>1, <3>1, <5>1
      <4>2. cur + v # q
        BY <1>1, <4>1 DEF Loose, B, v
      <4> QED BY <1>3, <3>1, <4>1, <4>2 DEF m
    <3>2. CASE p # m
      <4>1. p \in B /\ p # cur /\ p \in Starts(g) /\ p \in Nat /\ f.units[p] = g.units[p]
        BY <1>1, <1>6, <2>1, <3>2
      <4>2. CASE q = m
        <5>1. p < cur /\ g.units[p] \in Nat
          BY <1>1, <1>3, <1>4, <2>1, <4>1, <4>2
        <5> QED BY <1>3, <1>4, <4>1, <4>2, <5>1
      <4>3. CASE q # m
        BY <1>1, <1>6, <2>1, <4>1, <4>3 DEF Loose, B
      <4> QED BY <4>2, <4>3
    <3> QED BY <3>1, <3>2
  <2> QED BY <2>1 DEF Loose
<1>15. Space(f) = Space(g)
  <2>1. ASSUME NEW z \in Starts(g) \ {cur} PROVE Chunk(f, z) = Chunk(g, z)
    <3>1. f.units[z] = g.units[z]
      BY <1>5, <1>6
    <3> QED BY <3>1 DEF Chunk
  <2>2. Chunk(f, cur) \cup Chunk(f, m) = Chunk(g, cur)
    <3>1. f.units[cur] = n /\ f.units[m] = v - n
      BY <1>m
    <3>2. cur .. cur + n - 1 \cup m .. m + (v - n) - 1 = cur .. cur + v - 1
      BY <1>3 DEF m
    <3> QED BY <3>1, <3>2 DEF Chunk, v
  <2>3. Starts(f) = (Starts(g) \ {cur}) \cup {cur, m} /\ Starts(g) = (Starts(g) \ {cur}) \cup {cur}
    BY <1>1, <1>6
  <2> DEFINE R == UNION {Chunk(g, x) : x \in Starts(g) \ {cur}}
  <2>4. Space(f) = R \cup (Chunk(f, cur) \cup Chunk(f, m))
    BY <2>1, <2>3 DEF Space
  <2>5. Space(g) = R \cup Chunk(g, cur)
    BY <2>3 DEF Space
  <2> QED BY <2>2, <2>4, <2>5
<1>16. Taken(f) = Taken(g) \cup {cur} /\ f.units[cur] = n
  <2>1. m \notin B /\ m \notin Starts(g)
    BY <1>1, <1>5
  <2> QED BY <1>1, <1>6, <1>m, <2>1 DEF Taken, B
<1>17. \A x \in Taken(g) : f.units[x] = g.units[x]
  BY <1>1, <1>5, <1>6 DEF Taken, B
<1> QED BY <1>11, <1>12, <1>13, <1>14, <1>15, <1>16, <1>17 DEF Took, Slob, f

\* Take finds a free block of at least n units and takes n of them.
LEMMA TakeFacts ==
    ASSUME NEW g, Slob(g), NEW n \in Nat, n >= 2, Fits(g, n) # {}
    PROVE  LET t == Take(g, n)
           IN  /\ t.blk \in Blocks(g) /\ t.blk # arena
               /\ Took(g, t.g, n, t.blk)
<1> DEFINE t == Take(g, n)
           k == Min(Fits(g, n))
           prev == Walk(g, k - 1)
           cur == Walk(g, k)
<1>1. /\ Heap(g) /\ Circular(g)
      /\ g.next \in [Blocks(g) -> Blocks(g)] /\ g.units \in [Starts(g) -> Nat \ {0}]
      /\ g.slobfree \in Blocks(g) /\ Blocks(g) \subseteq Starts(g)
  BY HeapFields DEF Slob
<1>2. Cardinality(Blocks(g)) \in Nat
  BY <1>1, WalkCovers
<1>3. k \in Fits(g, n)
  <2>1. Fits(g, n) \in SUBSET Nat
    BY <1>2 DEF Fits, Steps
  <2> QED BY <2>1, MinIs
<1> HIDE DEF k
<1>4. k \in Nat /\ k - 1 \in Nat /\ (k - 1) + 1 = k /\ g.units[cur] >= n
  BY <1>2, <1>3 DEF Fits, Steps
<1>5. prev \in Blocks(g) /\ cur \in Blocks(g) /\ g.next[prev] = cur
  <2>1. \A j \in Nat : Walk(g, j) \in Blocks(g) /\ Walk(g, j + 1) = g.next[Walk(g, j)]
    BY <1>1, WalkFacts
  <2> QED BY <1>4, <2>1
<1>6. cur # arena
  <2>1. g.units[arena] = 1
    BY <1>1 DEF Heap
  <2> QED BY <1>4, <2>1
<1>7. t = [blk |-> cur, g |-> IF g.units[cur] = n THEN Unlinked(g, prev, cur)
                             ELSE Cut(g, n, prev, cur)]
  BY DEF Take, Unlinked, Cut, k
<1> HIDE DEF t, prev, cur
<1>8. Linked(g, prev, cur)
  BY <1>5, <1>6 DEF Linked
<1>9. g.units[cur] \in Nat /\ n \in Nat \ {0}
  BY <1>1, <1>5
<1>10. CASE g.units[cur] = n
  <2>1. t.blk = cur /\ t.g = Unlinked(g, prev, cur)
    BY <1>7, <1>10
  <2>2. Took(g, Unlinked(g, prev, cur), g.units[cur], cur)
    BY <1>8, UnlinkedFacts
  <2> QED BY <1>5, <1>6, <1>10, <2>1, <2>2 DEF t
<1>11. CASE g.units[cur] # n
  <2>1. t.blk = cur /\ t.g = Cut(g, n, prev, cur)
    BY <1>7, <1>11
  <2>2. n < g.units[cur]
    BY <1>4, <1>9, <1>11
  <2>3. Took(g, Cut(g, n, prev, cur), n, cur)
    BY <1>8, <1>9, <2>2, CutFacts
  <2> QED BY <1>5, <1>6, <2>1, <2>3 DEF t
<1> QED BY <1>10, <1>11

\* A block of at least n units is found.
LEMMA BlockFits ==
    ASSUME NEW g, Slob(g), NEW n \in Nat, NEW x \in Blocks(g), g.units[x] >= n
    PROVE  Fits(g, n) # {}
<1>1. PICK k \in Steps(g) : Walk(g, k) = x
  <2>1. {Walk(g, k) : k \in Steps(g)} = Blocks(g)
    BY WalkCovers DEF Slob
  <2> QED BY <2>1
<1> QED BY <1>1 DEF Fits

\* No block overlaps what is not in the space.
LEMMA RoomOutside ==
    ASSUME NEW g, Slob(g), NEW b \in Nat, NEW u \in Nat \ {0}, UPP <= b, b + u <= Limit,
           (b .. b + u - 1) \cap Space(g) = {}
    PROVE  Room(g, b, u) /\ b \notin Starts(g)
<1>1. /\ Apart(g) /\ g.units \in [Starts(g) -> Nat \ {0}] /\ Starts(g) \subseteq Nat
  BY HeapFields DEF Slob
<1>2. ASSUME NEW x \in Starts(g) PROVE x + g.units[x] <= b \/ b + u <= x
  <2>1. x \in Nat /\ g.units[x] \in Nat \ {0}
    BY <1>1
  <2>2. x .. x + g.units[x] - 1 \subseteq Space(g)
    BY DEF Space, Chunk
  <2>3. b \notin x .. x + g.units[x] - 1 /\ x \notin b .. b + u - 1
    <3>1. x \in x .. x + g.units[x] - 1 /\ b \in b .. b + u - 1
      BY <2>1
    <3> QED BY <2>2, <3>1
  <2> QED BY <2>1, <2>3
<1>3. b \notin Starts(g)
  <2> SUFFICES ASSUME b \in Starts(g) PROVE FALSE
    OBVIOUS
  <2>1. g.units[b] \in Nat \ {0}
    BY <1>1
  <2> QED BY <1>2, <2>1
<1> QED BY <1>2, <1>3 DEF Room

----------------------------------------------------------------------------
(***************************************************************************)
(* Sizes, orders and pages.                                                *)
(***************************************************************************)

\* Division rounds down.
LEMMA Division ==
    ASSUME NEW a \in Nat, NEW d \in Nat \ {0}
    PROVE  a \div d \in Nat /\ d * (a \div d) <= a /\ a < d * (a \div d) + d
  BY SMTT(30)

\* Multiples of d are at least d apart.
LEMMA Multiples ==
    ASSUME NEW d \in Nat, NEW a \in Nat, NEW b \in Nat, a < b
    PROVE  a * d + d <= b * d /\ a * d \in Nat /\ b * d \in Nat
<1>1. b - a - 1 \in Nat
  OBVIOUS
<1>2. (b - a - 1) * d \in Nat
  BY <1>1, SMTT(30)
<1>3. b * d = a * d + d + (b - a - 1) * d
  BY SMTT(30)
<1>4. a * d \in Nat /\ b * d \in Nat
  BY SMTT(30)
<1> QED BY <1>2, <1>3, <1>4

\* The units of a block that holds s bytes.
LEMMA UnitsHold ==
    ASSUME NEW s \in Nat, s > SLOB_UNIT
    PROVE  /\ SLOB_UNITS(s) \in Nat /\ SLOB_UNITS(s) >= 2
           /\ s <= SLOB_UNITS(s) * SLOB_UNIT
           /\ s < PAGE_SIZE => SLOB_UNITS(s) <= UPP
<1> DEFINE n == SLOB_UNITS(s)
           U == SLOB_UNIT
<1>1. U \in Nat \ {0} /\ UPP \in Nat /\ s + U - 1 \in Nat
  BY Numbers
<1>2. n \in Nat /\ U * n <= s + U - 1 /\ s + U - 1 < U * n + U
  BY <1>1, Division DEF SLOB_UNITS
<1> HIDE DEF n
<1>3. n * U = U * n /\ U * n \in Nat
  BY <1>1, <1>2, SMTT(30)
<1>4. s <= n * U
  BY <1>1, <1>2, <1>3
<1>5. n # 0 /\ n # 1
  <2>1. n = 0 => n * U = 0
    BY <1>1, SMTT(30)
  <2>2. n = 1 => n * U = U
    BY <1>1, SMTT(30)
  <2> QED BY <1>1, <1>4, <2>1, <2>2
<1>6. ASSUME s < PAGE_SIZE PROVE n <= UPP
  <2> SUFFICES ASSUME UPP < n PROVE FALSE
    BY <1>1, <1>2
  <2>1. UPP * U + U <= n * U /\ UPP * U \in Nat
    BY <1>1, <1>2, Multiples
  <2>2. s < UPP * U
    BY <1>6 DEF PAGE_SIZE
  <2> QED BY <1>1, <1>2, <1>3, <2>1, <2>2
<1> QED BY <1>2, <1>4, <1>5, <1>6 DEF n

\* A descriptor takes two units.
LEMMA DescriptorUnits == BB_SIZE \in Nat /\ BB_SIZE > SLOB_UNIT /\ SLOB_UNITS(BB_SIZE) = 2
<1> DEFINE U == SLOB_UNIT
           w == U \div 2
           n == SLOB_UNITS(BB_SIZE)
<1>1. U \in Nat /\ U >= 2
  BY Numbers
<1>2. w \in Nat /\ 2 * w <= U /\ U < 2 * w + 2
  BY <1>1, Division
<1> HIDE DEF w
<1>3. BB_SIZE \in Nat /\ BB_SIZE > U /\ BB_SIZE < 2 * U
  <2>1. BB_SIZE = U + w
    BY DEF BB_SIZE, w
  <2> QED BY <1>1, <1>2, <2>1
<1>4. n \in Nat /\ n >= 2
  BY <1>3, UnitsHold
<1>5. BB_SIZE + U - 1 \in Nat /\ U \in Nat \ {0}
  BY <1>1, <1>3
<1>6. U * n <= BB_SIZE + U - 1
  BY <1>5, Division DEF SLOB_UNITS
<1> HIDE DEF n
<1>7. ASSUME n > 2 PROVE FALSE
  <2>1. 2 * U + U <= n * U /\ n * U = U * n
    <3>1. 2 * U + U <= n * U
      BY <1>1, <1>4, <1>7, Multiples
    <3>2. n * U = U * n
      BY <1>1, <1>4, SMTT(30)
    <3> QED BY <3>1, <3>2
  <2>2. U * n \in Nat
    BY <1>1, <1>4, SMTT(30)
  <2> QED BY <1>1, <1>3, <1>6, <2>1, <2>2
<1> QED BY <1>3, <1>4, <1>7 DEF n

\* The orders of the sizes up to m.
Orders(m, f) ==
    f = [s \in 0 .. m |-> IF s > PAGE_SIZE THEN 1 + f[s \div 2] ELSE 0]

\* A page has at least one unit.
LEMMA PageSize == PAGE_SIZE \in Nat \ {0} /\ PAGE_SIZE >= SLOB_UNIT
<1>1. SLOB_UNIT \in Nat /\ SLOB_UNIT >= 2 /\ UPP \in Nat /\ UPP >= 2
  BY Numbers
<1>2. 0 * SLOB_UNIT + SLOB_UNIT <= UPP * SLOB_UNIT /\ UPP * SLOB_UNIT \in Nat
  BY <1>1, Multiples
<1> QED BY <1>1, <1>2 DEF PAGE_SIZE

\* find_order is defined by what it is of the half, for every size.
LEMMA OrdersExist ==
    ASSUME NEW m \in Nat
    PROVE  \E f : Orders(m, f)
<1> DEFINE S == {k \in Nat : \E f : Orders(k, f)}
           P == PAGE_SIZE
<1>0. P \in Nat \ {0}
  BY PageSize
<1>1. 0 \in S
  <2> DEFINE f == [s \in 0 .. 0 |-> 0]
  <2>1. Orders(0, f)
    BY <1>0 DEF Orders
  <2> QED BY <2>1
<1>2. ASSUME NEW k \in S PROVE k + 1 \in S
  <2>1. k \in Nat
    OBVIOUS
  <2>2. PICK f : Orders(k, f)
    OBVIOUS
  <2> DEFINE v == [s \in 0 .. k + 1 |-> IF s <= k THEN f[s]
                     ELSE IF s > PAGE_SIZE THEN 1 + f[s \div 2] ELSE 0]
             w == [s \in 0 .. k + 1 |-> IF s > PAGE_SIZE THEN 1 + v[s \div 2] ELSE 0]
  <2>3. ASSUME NEW s \in 0 .. k + 1 PROVE v[s] = w[s]
    <3>1. s \in Nat /\ s <= k + 1
      BY <2>1
    <3>2. s > P => s \div 2 \in 0 .. k /\ v[s \div 2] = f[s \div 2]
      <4>1. s \div 2 \in Nat /\ 2 * (s \div 2) <= s
        BY <3>1, Division
      <4>2. s > P => s \div 2 \in 0 .. k /\ s \div 2 \in 0 .. k + 1 /\ s \div 2 <= k
        BY <1>0, <2>1, <3>1, <4>1
      <4> QED BY <4>2
    <3>3. CASE s <= k
      <4>1. s \in 0 .. k
        BY <2>1, <3>1, <3>3
      <4>2. f[s] = IF s > PAGE_SIZE THEN 1 + f[s \div 2] ELSE 0
        <5> HIDE DEF v, w, S
        <5> QED BY <2>2, <4>1 DEF Orders
      <4> QED BY <3>2, <3>3, <4>2
    <3>4. CASE ~(s <= k)
      BY <3>2, <3>4
    <3> QED BY <3>3, <3>4
  <2>4. v = w
    BY <2>3
  <2>5. Orders(k + 1, v)
    BY <2>4 DEF Orders
  <2> QED BY <2>1, <2>5
<1>3. S = Nat
  <2>1. S \in SUBSET Nat
    OBVIOUS
  <2> HIDE DEF S
  <2> QED BY <1>1, <1>2, <2>1, Upward
<1> QED BY <1>3

\* find_order halves the size down to a page; 1 << order pages may lack less than
\* 1 << order bytes of it.
LEMMA OrderHolds ==
    ASSUME NEW size \in Nat
    PROVE  /\ find_order(size) \in Nat
           /\ size < (PAGE_SIZE + 1) * Pow2[find_order(size)]
<1> DEFINE f == CHOOSE o : Orders(size, o)
           P == PAGE_SIZE
           Enough(s) == f[s] \in Nat /\ s < (P + 1) * Pow2[f[s]]
           S == {k \in Nat : \A s \in 0 .. k : s <= size => Enough(s)}
<1>1. Orders(size, f)
  BY OrdersExist
<1>2. find_order(size) = f[size]
  BY DEF find_order, Orders
<1> HIDE DEF f
<1>3. P \in Nat \ {0}
  BY PageSize
<1>4. \A s \in 0 .. size : f[s] = IF s > P THEN 1 + f[s \div 2] ELSE 0
  BY <1>1 DEF Orders
<1> HIDE DEF P
<1>5. ASSUME NEW s \in 0 .. size, s <= P PROVE Enough(s)
  <2>1. f[s] = 0 /\ Pow2[0] = 1
    BY <1>3, <1>4, <1>5, Pow2Facts
  <2> QED BY <1>3, <1>5, <2>1
<1>6. 0 \in S
  <2>1. \A s \in 0 .. 0 : s \in 0 .. size /\ s <= P
    BY <1>3
  <2> HIDE DEF Enough
  <2> QED BY <1>5, <2>1
<1>7. ASSUME NEW k \in S PROVE k + 1 \in S
  <2>1. k \in Nat /\ \A s \in 0 .. k : s <= size => Enough(s)
    OBVIOUS
  <2>2. ASSUME NEW s \in 0 .. k + 1, s <= size PROVE Enough(s)
    <3>1. s \in Nat /\ s \in 0 .. size
      BY <2>1, <2>2
    <3>2. CASE s <= P
      BY <1>5, <3>1, <3>2
    <3>3. CASE ~(s <= P)
      <4> DEFINE q == s \div 2
      <4>1. q \in Nat /\ 2 * q <= s /\ s < 2 * q + 2
        BY <3>1, Division
      <4>2. f[s] = 1 + f[q]
        BY <1>3, <1>4, <3>1, <3>3
      <4> HIDE DEF q
      <4>3. q \in 0 .. k /\ q <= size
        BY <1>3, <2>1, <2>2, <3>1, <3>3, <4>1
      <4>4. f[q] \in Nat /\ q < (P + 1) * Pow2[f[q]]
        BY <2>1, <4>3
      <4>5. Pow2[f[q]] \in Nat \ {0} /\ Pow2[f[s]] = 2 * Pow2[f[q]]
        <5>1. f[s] = f[q] + 1
          BY <4>2, <4>4
        <5> QED BY <4>4, <5>1, Pow2Facts
      <4> DEFINE y == Pow2[f[q]]
      <4>6. (P + 1) * (2 * y) = 2 * ((P + 1) * y) /\ (P + 1) * y \in Nat
        BY <1>3, <4>5, SMTT(30)
      <4>7. s < (P + 1) * (2 * y)
        <5> DEFINE z == (P + 1) * y
        <5>1. q < z /\ z \in Nat
          BY <4>4, <4>6
        <5> HIDE DEF z
        <5>2. s < 2 * z
          BY <3>1, <4>1, <5>1
        <5> QED BY <4>6, <5>2 DEF z
      <4>8. f[s] \in Nat
        BY <4>2, <4>4
      <4> QED BY <4>5, <4>7, <4>8
    <3> QED BY <3>2, <3>3
  <2> HIDE DEF Enough
  <2> QED BY <2>1, <2>2
<1>8. S = Nat
  <2>1. S \in SUBSET Nat
    OBVIOUS
  <2> HIDE DEF S
  <2> QED BY <1>6, <1>7, <2>1, Upward
<1>9. Enough(size)
  <2>1. size \in S /\ size \in 0 .. size
    BY <1>8
  <2> HIDE DEF Enough
  <2> QED BY <2>1
<1> QED BY <1>2, <1>9 DEF P

\* The units of a page, above the arena and below the limit, and its own.
PageUnits(p) == p * UPP .. p * UPP + UPP - 1

\* Pages lie between the arena and the limit and do not overlap.
LEMMA PagesApart ==
    /\ \A p \in Page : /\ p * UPP \in Nat /\ UPP <= p * UPP /\ p * UPP + UPP <= Limit
                       /\ arena \notin PageUnits(p)
    /\ \A p, q \in Page : p # q => PageUnits(p) \cap PageUnits(q) = {}
<1>1. UPP \in Nat /\ UPP >= 2 /\ NPage \in Nat /\ arena = 0
  BY Numbers
<1>2. ASSUME NEW p \in Page
      PROVE  /\ p * UPP \in Nat /\ UPP <= p * UPP /\ p * UPP + UPP <= Limit
             /\ arena \notin PageUnits(p)
  <2>1. p \in Nat /\ 0 < p /\ p < NPage + 1 /\ 0 \in Nat /\ NPage + 1 \in Nat
    BY <1>1 DEF Page
  <2>2. 0 * UPP + UPP <= p * UPP /\ p * UPP \in Nat
    BY <1>1, <2>1, Multiples
  <2>3. p * UPP + UPP <= Limit
    BY <1>1, <2>1, Multiples DEF Limit
  <2>4. 0 * UPP = 0
    BY <1>1
  <2>5. UPP <= p * UPP
    BY <1>1, <2>2, <2>4
  <2> DEFINE x == p * UPP
  <2> HIDE DEF x
  <2>6. x \in Nat /\ UPP <= x => 0 \notin x .. x + UPP - 1
    BY <1>1
  <2> QED BY <1>1, <2>2, <2>3, <2>5, <2>6 DEF PageUnits, x
<1>3. ASSUME NEW p \in Page, NEW q \in Page, p < q PROVE PageUnits(p) \cap PageUnits(q) = {}
  <2>1. p \in Nat /\ q \in Nat
    BY <1>1 DEF Page
  <2> DEFINE x == p * UPP
             y == q * UPP
  <2>2. x + UPP <= y /\ x \in Nat /\ y \in Nat
    BY <1>1, <1>3, <2>1, Multiples
  <2> HIDE DEF x, y
  <2>3. (x .. x + UPP - 1) \cap (y .. y + UPP - 1) = {}
    BY <1>1, <2>2
  <2> QED BY <2>3 DEF PageUnits, x, y
<1>4. ASSUME NEW p \in Page, NEW q \in Page, p # q PROVE PageUnits(p) \cap PageUnits(q) = {}
  <2>1. p < q \/ q < p
    BY <1>1, <1>4 DEF Page
  <2> QED BY <1>3, <2>1
<1> QED BY <1>2, <1>4

\* A free page; a run of free pages.
LEMMA FirstRunFits ==
    ASSUME NEW ps \in SUBSET Page, NEW n, NEW p \in FirstRun(ps, n)
    PROVE  p \in ps /\ Run(p, n) \subseteq ps
<1> DEFINE fit == {q \in ps : Run(q, n) \subseteq ps}
<1>1. fit # {} /\ p = Min(fit)
  BY DEF FirstRun
<1>2. fit \in SUBSET Nat
  <2>1. \A q \in Page : q \in Nat
    BY Numbers DEF Page
  <2> QED BY <2>1
<1> HIDE DEF fit
<1>3. p \in fit
  BY <1>1, <1>2, MinIs
<1> QED BY <1>3 DEF fit

\* The space of a heap that has all pages but those of ps and Q.
HasPages(g, ps, Q) == Space(g) = {arena} \cup UnitsOf(Page \ (ps \cup Q))

\* The block r.blk of n units was taken, perhaps from a page of ps.
Gets(g, ps, Q, n, r) ==
    /\ r.blk \notin Taken(g) /\ r.blk \in Nat /\ UPP <= r.blk
    /\ Slob(r.g)
    /\ Taken(r.g) = Taken(g) \cup {r.blk} /\ r.g.units[r.blk] = n
    /\ \A x \in Taken(g) : r.g.units[x] = g.units[x]
    /\ r.ps \subseteq ps /\ HasPages(r.g, r.ps, Q)

\* A block of the heap that is taken.
Owned(g, f, n, blk) ==
    /\ blk \notin Taken(g) /\ blk \in Nat /\ UPP <= blk
    /\ Slob(f) /\ Taken(f) = Taken(g) \cup {blk} /\ f.units[blk] = n
    /\ \A x \in Taken(g) : f.units[x] = g.units[x]
    /\ Space(f) = Space(g)

\* What was free in the heap and was taken is owned.
LEMMA TookGets ==
    ASSUME NEW g, Slob(g), NEW n, NEW blk \in Blocks(g), blk # arena, NEW f, Took(g, f, n, blk)
    PROVE  Owned(g, f, n, blk)
<1>1. blk \in Nat /\ blk \in Starts(g) /\ Heap(g)
  BY HeapFields DEF Slob
<1>2. UPP <= blk
  BY <1>1 DEF Heap
<1> QED BY <1>1, <1>2 DEF Took, Taken, Owned

\* slob_alloc takes a block, from the heap or from one more page; or it changes
\* nothing when there is no page.
LEMMA SlobAlloc ==
    ASSUME NEW g, Slob(g), NEW ps \in SUBSET Page, NEW Q, ps \cap Q = {}, HasPages(g, ps, Q),
           NEW size, SLOB_UNITS(size) \in Nat, SLOB_UNITS(size) >= 2, SLOB_UNITS(size) <= UPP,
           NEW r \in slob_alloc(g, ps, size)
    PROVE  \/ r.blk = NULL /\ r.g = g /\ r.ps = ps
           \/ Gets(g, ps, Q, SLOB_UNITS(size), r)
<1> DEFINE n == SLOB_UNITS(size)
<1>1. n \in Nat /\ n >= 2 /\ n <= UPP /\ UPP \in Nat
  BY Numbers
<1> HIDE DEF n
<1>2. CASE Fits(g, n) # {}
  <2> DEFINE t == Take(g, n)
  <2>1. r = [blk |-> t.blk, g |-> t.g, ps |-> ps]
    BY <1>2 DEF slob_alloc, n
  <2>2. t.blk \in Blocks(g) /\ t.blk # arena /\ Took(g, t.g, n, t.blk)
    BY <1>1, <1>2, TakeFacts
  <2> HIDE DEF t
  <2>3. /\ t.blk \notin Taken(g) /\ t.blk \in Nat /\ UPP <= t.blk
        /\ Slob(t.g) /\ Taken(t.g) = Taken(g) \cup {t.blk} /\ t.g.units[t.blk] = n
        /\ \A x \in Taken(g) : t.g.units[x] = g.units[x]
        /\ Space(t.g) = Space(g)
    <3>1. Owned(g, t.g, n, t.blk)
      BY <2>2, TookGets
    <3> QED BY <3>1 DEF Owned
  <2>4. HasPages(t.g, ps, Q)
    BY <2>3 DEF HasPages
  <2>5. r.blk = t.blk /\ r.g = t.g /\ r.ps = ps
    BY <2>1
  <2> QED BY <2>3, <2>4, <2>5 DEF Gets, n
<1>3. CASE Fits(g, n) = {} /\ FirstRun(ps, 1) = {}
  <2>1. r = [blk |-> NULL, g |-> g, ps |-> ps]
    BY <1>3 DEF slob_alloc, n
  <2> QED BY <2>1
<1>4. CASE Fits(g, n) = {} /\ FirstRun(ps, 1) # {}
  <2>1. PICK p \in FirstRun(ps, 1) :
          r = LET t == Take(slob_free(g, p * UPP, UPP), n)
              IN  [blk |-> t.blk, g |-> t.g, ps |-> ps \ {p}]
    BY <1>4 DEF slob_alloc, n
  <2> DEFINE b == p * UPP
             f == slob_free(g, b, UPP)
             t == Take(f, n)
  <2>2. p \in ps /\ p \in Page /\ p \notin Q
    BY FirstRunFits
  <2>3. b \in Nat /\ UPP <= b /\ b + UPP <= Limit /\ UPP \in Nat \ {0}
    BY <2>2, PagesApart, Numbers
  <2>4. (b .. b + UPP - 1) \cap Space(g) = {}
    <3>1. \A q \in Page \ (ps \cup Q) : PageUnits(p) \cap PageUnits(q) = {}
      BY <2>2, PagesApart
    <3>2. arena \notin PageUnits(p)
      BY <2>2, PagesApart
    <3>3. Space(g) = {arena} \cup UNION {PageUnits(q) : q \in Page \ (ps \cup Q)}
      BY DEF HasPages, UnitsOf, PageUnits
    <3>4. b .. b + UPP - 1 = PageUnits(p)
      BY DEF PageUnits
    <3>5. PageUnits(p) \cap Space(g) = {}
      BY <3>1, <3>2, <3>3
    <3> HIDE DEF b
    <3> QED BY <3>4, <3>5
  <2>5. r = [blk |-> t.blk, g |-> t.g, ps |-> ps \ {p}]
    BY <2>1
  <2>51. b .. b + UPP - 1 = PageUnits(p)
    BY DEF PageUnits
  <2> HIDE DEF b
  <2>6. Room(g, b, UPP) /\ b \notin Starts(g)
    BY <2>3, <2>4, RoomOutside
  <2>7. b \notin Blocks(g)
    BY <2>6, HeapFields DEF Slob
  <2>8. /\ Slob(f) /\ Taking(g, f, Taken(g) \ {b})
        /\ Space(f) = Rest(g, b) \cup (b .. b + UPP - 1)
        /\ \E x \in Blocks(f) : f.units[x] >= UPP
    BY <2>6, <2>7, SlobFree
  <2> HIDE DEF f
  <2>9. Taken(g) \ {b} = Taken(g) /\ Rest(g, b) = Space(g)
    BY <2>6 DEF Taken, Rest, Space
  <2>10. Taken(f) = Taken(g) /\ \A x \in Taken(g) : f.units[x] = g.units[x]
    BY <2>8, <2>9 DEF Taking
  <2>11. Fits(f, n) # {}
    <3>1. PICK x \in Blocks(f) : f.units[x] >= UPP
      BY <2>8
    <3>2. f.units[x] \in Nat
      BY <2>8, HeapFields DEF Slob
    <3>3. f.units[x] >= n
      BY <1>1, <3>1, <3>2
    <3> QED BY <1>1, <2>8, <3>3, BlockFits
  <2>12. t.blk \in Blocks(f) /\ t.blk # arena /\ Took(f, t.g, n, t.blk)
    BY <1>1, <2>8, <2>11, TakeFacts
  <2> HIDE DEF t
  <2>13. /\ t.blk \notin Taken(f) /\ t.blk \in Nat /\ UPP <= t.blk
         /\ Slob(t.g) /\ Taken(t.g) = Taken(f) \cup {t.blk} /\ t.g.units[t.blk] = n
         /\ \A x \in Taken(f) : t.g.units[x] = f.units[x]
         /\ Space(t.g) = Space(f)
    <3>1. Owned(f, t.g, n, t.blk)
      BY <2>8, <2>12, TookGets
    <3> QED BY <3>1 DEF Owned
  <2>14. HasPages(t.g, ps \ {p}, Q)
    <3>1. Page \ ((ps \ {p}) \cup Q) = (Page \ (ps \cup Q)) \cup {p}
      BY <2>2
    <3>2. Space(g) = {arena} \cup UNION {PageUnits(q) : q \in Page \ (ps \cup Q)}
      BY DEF HasPages, UnitsOf, PageUnits
    <3>3. Space(t.g) = Space(g) \cup PageUnits(p)
      BY <2>8, <2>9, <2>13, <2>51
    <3>4. Space(t.g) = {arena} \cup UNION {PageUnits(q) : q \in Page \ ((ps \ {p}) \cup Q)}
      BY <3>1, <3>2, <3>3
    <3> QED BY <3>4 DEF HasPages, UnitsOf, PageUnits
  <2>15. r.blk = t.blk /\ r.g = t.g /\ r.ps = ps \ {p}
    BY <2>5
  <2> QED BY <2>10, <2>13, <2>14, <2>15 DEF Gets, n
<1> QED BY <1>2, <1>3, <1>4

----------------------------------------------------------------------------
(***************************************************************************)
(* The pieces of the state.                                                *)
(***************************************************************************)

\* A block in use is freed.
LEMMA FreeTaken ==
    ASSUME NEW g, Slob(g), NEW b \in Taken(g)
    PROVE  LET f == slob_free(g, b, g.units[b])
           IN  /\ Slob(f) /\ Taken(f) = Taken(g) \ {b}
               /\ \A x \in Taken(f) : f.units[x] = g.units[x]
               /\ Space(f) = Space(g)
<1> DEFINE u == g.units[b]
           f == slob_free(g, b, u)
<1>1. /\ Heap(g) /\ Apart(g) /\ g.units \in [Starts(g) -> Nat \ {0}] /\ Starts(g) \subseteq Nat
      /\ b \in Starts(g) /\ b \notin Blocks(g)
  BY HeapFields DEF Slob, Taken
<1>2. u \in Nat \ {0} /\ b \in Nat
  BY <1>1
<1>3. UPP <= b /\ b + u <= Limit
  BY <1>1 DEF Heap
<1>4. \A x \in Starts(g) \ {b} : x + g.units[x] <= b \/ b + u <= x
  <2>1. ASSUME NEW x \in Starts(g) \ {b} PROVE x + g.units[x] <= b \/ b + u <= x
    <3>1. x < b \/ b < x
      BY <1>1
    <3> QED BY <1>1, <3>1 DEF Apart
  <2> QED BY <2>1
<1> HIDE DEF u
<1>5. Room(g, b, u)
  BY <1>2, <1>3, <1>4 DEF Room
<1>6. /\ Slob(f) /\ Taking(g, f, Taken(g) \ {b})
      /\ Space(f) = Rest(g, b) \cup (b .. b + u - 1)
      /\ \E x \in Blocks(f) : f.units[x] >= u
  BY <1>1, <1>5, SlobFree
<1>7. Rest(g, b) \cup (b .. b + u - 1) = Space(g)
  <2>1. b .. b + u - 1 = Chunk(g, b)
    BY DEF Chunk, u
  <2>2. Starts(g) = (Starts(g) \ {b}) \cup {b}
    BY <1>1
  <2> HIDE DEF f
  <2> QED BY <2>1, <2>2 DEF Rest, Space
<1> HIDE DEF f
<1>8. Taken(f) = Taken(g) \ {b} /\ \A x \in Taken(f) : f.units[x] = g.units[x]
  BY <1>6 DEF Taking
<1> QED BY <1>6, <1>7, <1>8 DEF f, u

\* The units of a page the heap does not have.
LEMMA OutOfSpace ==
    ASSUME NEW g, NEW ps, NEW Q, HasPages(g, ps, Q), NEW p \in Page, p \in ps \cup Q
    PROVE  PageUnits(p) \cap Space(g) = {} /\ p * UPP \in PageUnits(p) /\ p * UPP \notin Space(g)
<1>1. \A q \in Page \ (ps \cup Q) : PageUnits(p) \cap PageUnits(q) = {}
  BY PagesApart
<1>2. arena \notin PageUnits(p)
  BY PagesApart
<1>3. Space(g) = {arena} \cup UNION {PageUnits(q) : q \in Page \ (ps \cup Q)}
  BY DEF HasPages, UnitsOf, PageUnits
<1>4. p * UPP \in PageUnits(p)
  <2>1. p * UPP \in Nat /\ UPP \in Nat /\ UPP >= 2
    BY PagesApart, Numbers
  <2> DEFINE x == p * UPP
  <2> HIDE DEF x
  <2>2. x \in Nat => x \in x .. x + UPP - 1
    BY <2>1
  <2> QED BY <2>1, <2>2 DEF PageUnits, x
<1> QED BY <1>1, <1>2, <1>3, <1>4

\* A block of two units and its second one.
LEMMA SecondUnit ==
    ASSUME NEW g, Slob(g), NEW x \in Starts(g), g.units[x] >= 2
    PROVE  x \in Nat /\ x + 1 \in Space(g) /\ (x + 1) - 1 = x
<1>1. x \in Nat /\ g.units[x] \in Nat
  BY HeapFields DEF Slob
<1>2. x + 1 \in Chunk(g, x)
  BY <1>1 DEF Chunk
<1> QED BY <1>1, <1>2 DEF Space

\* Pages are told apart by their first units.
LEMMA FirstUnits ==
    /\ \A p, q \in Page : p * UPP = q * UPP => p = q
    /\ \A p \in Page : p * UPP \in Nat /\ (p * UPP) % UPP = 0
<1>1. UPP \in Nat /\ UPP >= 2 /\ NPage \in Nat
  BY Numbers
<1>2. ASSUME NEW p \in Page, NEW q \in Page, p < q PROVE p * UPP # q * UPP
  <2>1. p \in Nat /\ q \in Nat
    BY <1>1 DEF Page
  <2> DEFINE x == p * UPP
             y == q * UPP
  <2>2. x + UPP <= y /\ x \in Nat /\ y \in Nat
    BY <1>1, <1>2, <2>1, Multiples
  <2> HIDE DEF x, y
  <2>3. x # y
    BY <1>1, <2>2
  <2> QED BY <2>3 DEF x, y
<1>3. ASSUME NEW p \in Page, NEW q \in Page, p * UPP = q * UPP PROVE p = q
  <2>1. p < q \/ q < p \/ p = q
    BY <1>1 DEF Page
  <2> QED BY <1>2, <1>3, <2>1
<1>4. ASSUME NEW p \in Page PROVE p * UPP \in Nat /\ (p * UPP) % UPP = 0
  <2>1. p \in Nat /\ p * UPP \in Nat
    BY PagesApart, <1>1 DEF Page
  <2> QED BY <1>1, <2>1, SMTT(30)
<1> QED BY <1>3, <1>4

\* The units of a run of pages.
LEMMA RunUnits ==
    ASSUME NEW p \in Nat, NEW k \in Nat \ {0}
    PROVE  UnitsOf(Run(p, k)) = p * UPP .. p * UPP + k * UPP - 1
<1>1. UPP \in Nat /\ UPP >= 2 /\ UPP \in Nat \ {0}
  BY Numbers
<1>2. p * UPP \in Nat /\ k * UPP \in Nat /\ p * UPP + k * UPP = (p + k) * UPP
  BY <1>1, SMTT(30)
<1>3. ASSUME NEW x \in UnitsOf(Run(p, k)) PROVE x \in p * UPP .. p * UPP + k * UPP - 1
  <2>1. PICK q \in Run(p, k) : x \in q * UPP .. q * UPP + UPP - 1
    BY DEF UnitsOf
  <2>2. q \in Nat /\ p <= q /\ q < p + k /\ p + k \in Nat
    BY <2>1 DEF Run
  <2>3. q * UPP + UPP <= (p + k) * UPP /\ q * UPP \in Nat /\ (p + k) * UPP \in Nat
    BY <1>1, <2>2, Multiples
  <2>4. p * UPP <= q * UPP
    <3>1. CASE p = q
      BY <2>3, <3>1
    <3>2. CASE p < q
      <4>1. p * UPP + UPP <= q * UPP
        BY <1>1, <2>2, <3>2, Multiples
      <4> QED BY <1>1, <1>2, <2>3, <4>1
    <3> QED BY <2>2, <3>1, <3>2
  <2> DEFINE y == p * UPP
             z == q * UPP
             w == (p + k) * UPP
             v == k * UPP
  <2>5. y + v = w /\ v \in Nat /\ y \in Nat /\ w \in Nat /\ z \in Nat /\ y <= z /\ z + UPP <= w
        /\ x \in z .. z + UPP - 1
    BY <1>2, <2>1, <2>3, <2>4
  <2> HIDE DEF y, z, w, v
  <2>6. x \in y .. y + v - 1
    BY <1>1, <2>5
  <2> QED BY <2>6 DEF y, v
<1>4. ASSUME NEW x \in p * UPP .. p * UPP + k * UPP - 1 PROVE x \in UnitsOf(Run(p, k))
  <2> DEFINE q == x \div UPP
  <2>1. x \in Nat /\ p * UPP <= x /\ x < (p + k) * UPP
    BY <1>2
  <2>2. q \in Nat /\ UPP * q <= x /\ x < UPP * q + UPP
    BY <1>1, <2>1, Division
  <2> HIDE DEF q
  <2>3. UPP * q = q * UPP /\ q * UPP \in Nat
    BY <1>1, <2>2, SMTT(30)
  <2>4. q < p + k
    <3> SUFFICES ASSUME p + k <= q PROVE FALSE
      BY <2>2
    <3>1. (p + k) * UPP <= q * UPP
      <4>1. CASE p + k = q
        BY <2>3, <4>1
      <4>2. CASE p + k < q
        <5>1. (p + k) * UPP + UPP <= q * UPP /\ (p + k) * UPP \in Nat
          BY <1>1, <2>2, <4>2, Multiples
        <5> QED BY <1>1, <2>3, <5>1
      <4> QED BY <2>2, <4>1, <4>2
    <3>2. (p + k) * UPP \in Nat
      BY <1>2
    <3> QED BY <2>1, <2>2, <2>3, <3>1, <3>2
  <2>5. p <= q
    <3> SUFFICES ASSUME q < p PROVE FALSE
      BY <2>2
    <3>1. q * UPP + UPP <= p * UPP
      BY <1>1, <2>2, Multiples
    <3> QED BY <1>1, <1>2, <2>1, <2>2, <2>3, <3>1
  <2>6. q \in Run(p, k)
    BY <2>2, <2>4, <2>5 DEF Run
  <2>7. x \in q * UPP .. q * UPP + UPP - 1
    BY <1>1, <2>1, <2>2, <2>3
  <2> QED BY <2>6, <2>7 DEF UnitsOf
<1> QED BY <1>3, <1>4

\* A list with an entry in front, and one without its i-th entry.
LEMMA Pushed ==
    ASSUME NEW T, NEW s \in Seq(T), NEW e \in T
    PROVE  LET t == <<e>> \o s
           IN  /\ t \in Seq(T) /\ 1 \in DOMAIN t /\ t[1] = e
               /\ \A i \in DOMAIN s : i \in Nat /\ i + 1 \in DOMAIN t /\ t[i + 1] = s[i]
               /\ \A j \in DOMAIN t \ {1} : j \in Nat /\ j - 1 \in DOMAIN s /\ t[j] = s[j - 1]
<1> DEFINE t == <<e>> \o s
<1>1. t \in Seq(T) /\ Len(s) \in Nat /\ Len(t) = 1 + Len(s)
  OBVIOUS
<1>2. DOMAIN t = 1 .. 1 + Len(s) /\ DOMAIN s = 1 .. Len(s)
  BY <1>1
<1>3. t[1] = e /\ \A i \in 1 .. Len(s) : t[i + 1] = s[i]
  BY <1>1
<1> HIDE DEF t
<1>4. \A j \in DOMAIN t \ {1} : j \in Nat /\ j - 1 \in DOMAIN s /\ (j - 1) + 1 = j
  BY <1>1, <1>2
<1> QED BY <1>1, <1>2, <1>3, <1>4 DEF t

Skip(i, j) == IF j < i THEN j ELSE j + 1

\* t has the entries of s but for the i-th.
LacksEntry(T, s, i, t) ==
    /\ t \in Seq(T)
    /\ \A j \in DOMAIN t : j \in Nat /\ Skip(i, j) \in DOMAIN s \ {i} /\ t[j] = s[Skip(i, j)]
    /\ \A k \in DOMAIN s \ {i} : \E j \in DOMAIN t : Skip(i, j) = k

\* SubSeq before and behind it leave the other entries.
LEMMA Removed ==
    ASSUME NEW T, NEW s, s \in Seq(T), NEW i, i \in DOMAIN s
    PROVE  LacksEntry(T, s, i, SubSeq(s, 1, i - 1) \o SubSeq(s, i + 1, Len(s)))
<1> DEFINE a == SubSeq(s, 1, i - 1)
           c == SubSeq(s, i + 1, Len(s))
           t == a \o c
<1>1. Len(s) \in Nat /\ DOMAIN s = 1 .. Len(s) /\ i \in Nat /\ 1 <= i /\ i <= Len(s)
  OBVIOUS
<1>2. a \in Seq(T) /\ Len(a) = i - 1 /\ \A j \in 1 .. i - 1 : a[j] = s[j]
  BY <1>1
<1>3. c \in Seq(T) /\ Len(c) = Len(s) - i /\ \A j \in 1 .. Len(s) - i : c[j] = s[i + j]
  BY <1>1
<1> HIDE DEF a, c
<1>4. /\ t \in Seq(T) /\ Len(t) = Len(s) - 1 /\ DOMAIN t = 1 .. Len(s) - 1
      /\ \A j \in 1 .. Len(t) : t[j] = IF j <= Len(a) THEN a[j] ELSE c[j - Len(a)]
  <2>1. t \in Seq(T)
    BY <1>2, <1>3
  <2>2. Len(t) = Len(a) + Len(c)
    BY <1>2, <1>3, ConcatProperties
  <2>3. \A j \in 1 .. Len(a) + Len(c) : t[j] = IF j <= Len(a) THEN a[j] ELSE c[j - Len(a)]
    BY <1>2, <1>3, ConcatProperties
  <2> HIDE DEF t
  <2>4. Len(t) = Len(s) - 1
    BY <1>1, <1>2, <1>3, <2>2
  <2>5. DOMAIN t = 1 .. Len(s) - 1
    BY <2>1, <2>4
  <2> QED BY <2>1, <2>2, <2>3, <2>4, <2>5
<1> HIDE DEF t
<1>5. ASSUME NEW j \in DOMAIN t
      PROVE  j \in Nat /\ Skip(i, j) \in DOMAIN s \ {i} /\ t[j] = s[Skip(i, j)]
  <2>1. j \in Nat /\ 1 <= j /\ j <= Len(s) - 1
    BY <1>1, <1>4
  <2>2. CASE j < i
    <3>1. t[j] = a[j]
      BY <1>1, <1>2, <1>4, <2>1, <2>2
    <3>2. a[j] = s[j]
      BY <1>1, <1>2, <2>1, <2>2
    <3> QED BY <1>1, <2>1, <2>2, <3>1, <3>2 DEF Skip
  <2>3. CASE ~(j < i)
    <3>0. j \in 1 .. Len(t) /\ ~(j <= Len(a)) /\ Len(a) = i - 1
      BY <1>1, <1>2, <1>4, <2>1, <2>3
    <3>1. t[j] = c[j - (i - 1)]
      BY <1>4, <3>0
    <3>2. j - (i - 1) \in 1 .. Len(s) - i /\ i + (j - (i - 1)) = j + 1
      BY <1>1, <2>1, <2>3
    <3>3. c[j - (i - 1)] = s[j + 1]
      BY <1>3, <3>2
    <3> QED BY <1>1, <2>1, <2>3, <3>1, <3>3 DEF Skip
  <2> QED BY <2>2, <2>3
<1>6. ASSUME NEW k \in DOMAIN s \ {i} PROVE \E j \in DOMAIN t : Skip(i, j) = k
  <2>1. CASE k < i
    <3>1. k \in DOMAIN t /\ Skip(i, k) = k
      BY <1>1, <1>4, <2>1 DEF Skip
    <3> QED BY <3>1
  <2>2. CASE ~(k < i)
    <3>1. k - 1 \in DOMAIN t /\ Skip(i, k - 1) = k
      BY <1>1, <1>4, <2>2 DEF Skip
    <3> QED BY <3>1
  <2> QED BY <2>1, <2>2
<1>7. LacksEntry(T, s, i, t)
  BY <1>4, <1>5, <1>6 DEF LacksEntry
<1> QED BY <1>7 DEF t, a, c

----------------------------------------------------------------------------
(***************************************************************************)
(* What the calls do to a good state.                                      *)
(***************************************************************************)

\* The pages and the addresses of big and of small blocks are apart.
LEMMA Parts ==
    ASSUME NEW g, NEW s, NEW ps, NEW lv, Good(g, s, ps, lv)
    PROVE  /\ Slob(g) /\ ps \subseteq Page /\ ps \cap BigPages(s) = {} /\ BigPages(s) \subseteq Page
           /\ s \in Seq(Entry) /\ HasPages(g, ps, BigPages(s))
           /\ \A i \in DOMAIN s :
                /\ s[i].bb \in Nat /\ s[i].order \in Nat /\ s[i].page \in Page
                /\ s[i].bb \in Taken(g)
                /\ BigRun(s[i]) \subseteq BigPages(s) /\ s[i].page \in BigRun(s[i])
                /\ s[i].page * UPP \notin Space(g)
           /\ \A x \in Taken(g) : x \in Nat /\ x \in Starts(g) /\ x + 1 \in Space(g) /\ (x + 1) - 1 = x
<1>1. /\ Slob(g) /\ ps \subseteq Page /\ s \in Seq(Entry) /\ HasPages(g, ps, BigPages(s))
      /\ \A i \in DOMAIN s : s[i].bb \in Taken(g) /\ BigRun(s[i]) \subseteq Page \ ps
  BY DEF Good, BigBlocks, HasPages
<1>2. ps \cap BigPages(s) = {} /\ BigPages(s) \subseteq Page
  BY <1>1 DEF BigPages
<1>3. ASSUME NEW i \in DOMAIN s
      PROVE  /\ s[i].bb \in Nat /\ s[i].order \in Nat /\ s[i].page \in Page
             /\ BigRun(s[i]) \subseteq BigPages(s) /\ s[i].page \in BigRun(s[i])
             /\ s[i].page * UPP \notin Space(g)
  <2>1. s[i] \in Entry
    BY <1>1
  <2>2. s[i].bb \in Nat /\ s[i].order \in Nat /\ s[i].page \in Page
    BY <2>1 DEF Entry
  <2>3. BigRun(s[i]) \subseteq BigPages(s)
    BY DEF BigPages
  <2>4. Pow2[s[i].order] \in Nat \ {0} /\ s[i].page \in Nat
    BY <2>2, Pow2Facts, Numbers DEF Page
  <2>5. s[i].page \in BigRun(s[i])
    BY <2>4 DEF BigRun, Run
  <2>6. s[i].page \in ps \cup BigPages(s)
    BY <2>3, <2>5
  <2>7. s[i].page * UPP \notin Space(g)
    BY <1>1, <2>2, <2>6, OutOfSpace
  <2> QED BY <2>2, <2>3, <2>5, <2>7
<1>4. ASSUME NEW x \in Taken(g)
      PROVE  x \in Nat /\ x \in Starts(g) /\ x + 1 \in Space(g) /\ (x + 1) - 1 = x
  <2>1. x \in Starts(g) /\ g.units[x] >= 2
    BY DEF Good, Taken
  <2> QED BY <1>1, <2>1, SecondUnit
<1> QED BY <1>1, <1>2, <1>3, <1>4

\* Nothing is handed out: the blocks in use stay.
LEMMA NothingTaken ==
    ASSUME NEW g, NEW s, NEW ps, NEW lv, Good(g, s, ps, lv),
           NEW f, Slob(f), Taken(f) = Taken(g), \A x \in Taken(g) : f.units[x] = g.units[x],
           NEW qs \in SUBSET ps, HasPages(f, qs, BigPages(s))
    PROVE  Good(f, s, qs, lv)
<1>1. /\ ps \subseteq Page /\ BigBlocks(g, s, ps) /\ Live(g, s, lv)
      /\ \A x \in Taken(g) : g.units[x] >= 2
  BY DEF Good
<1>2. \A x \in Taken(f) : f.units[x] >= 2
  BY <1>1
<1>3. BigBlocks(f, s, qs)
  BY <1>1 DEF BigBlocks
<1>4. Small(f, s) = Small(g, s) /\ Small(g, s) \subseteq Taken(g)
  BY DEF Small
<1>5. Live(f, s, lv)
  BY <1>1, <1>4 DEF Live
<1>6. Space(f) = {arena} \cup UnitsOf(Page \ (qs \cup BigPages(s)))
  BY DEF HasPages
<1> QED BY <1>1, <1>2, <1>3, <1>5, <1>6 DEF Good

\* A small block is handed out.
LEMMA SmallTaken ==
    ASSUME NEW g, NEW s, NEW ps, NEW lv, Good(g, s, ps, lv),
           NEW n \in Nat, n >= 2, NEW r, Gets(g, ps, BigPages(s), n, r),
           NEW size \in Nat, size + SLOB_UNIT <= n * SLOB_UNIT
    PROVE  Good(r.g, s, r.ps, With(lv, r.blk + 1, size))
<1> DEFINE f == r.g
           qs == r.ps
           x == r.blk
           lw == With(lv, x + 1, size)
<1>1. /\ x \notin Taken(g) /\ x \in Nat /\ Slob(f)
      /\ Taken(f) = Taken(g) \cup {x} /\ f.units[x] = n
      /\ \A y \in Taken(g) : f.units[y] = g.units[y]
      /\ qs \subseteq ps /\ HasPages(f, qs, BigPages(s))
  BY DEF Gets
<1> HIDE DEF f, qs, x
<1>2. /\ ps \subseteq Page /\ BigBlocks(g, s, ps) /\ Live(g, s, lv)
      /\ \A y \in Taken(g) : g.units[y] >= 2
  BY DEF Good
<1>3. \A i \in DOMAIN s : s[i].page * UPP \notin Space(g) /\ s[i].bb \in Taken(g) /\ s[i].page \in Page
                          /\ s[i].page \in BigPages(s)
  BY Parts
<1>4. \A y \in Taken(g) : y \in Nat
  BY Parts
<1>5. \A y \in Taken(f) : f.units[y] >= 2
  BY <1>1, <1>2
<1>6. BigBlocks(f, s, qs)
  BY <1>1, <1>2 DEF BigBlocks
<1>7. Small(f, s) = Small(g, s) \cup {x} /\ x \notin Small(g, s) /\ Small(g, s) \subseteq Taken(g)
  BY <1>1, <1>3 DEF Small, Descriptors
<1>8. \A i \in DOMAIN s : s[i].page * UPP # x + 1
  <2>1. x \in Starts(f) /\ f.units[x] >= 2
    BY <1>1 DEF Taken
  <2>2. x + 1 \in Space(f)
    BY <1>1, <2>1, SecondUnit
  <2>3. \A i \in DOMAIN s : s[i].page * UPP \notin Space(f)
    <3>1. ASSUME NEW i \in DOMAIN s PROVE s[i].page * UPP \notin Space(f)
      <4>1. s[i].page \in Page /\ s[i].page \in qs \cup BigPages(s)
        BY <1>3
      <4> QED BY <1>1, <4>1, OutOfSpace
    <3> QED BY <3>1
  <2> QED BY <2>2, <2>3
<1>9. \A y \in Small(g, s) : y + 1 # x + 1
  BY <1>1, <1>4, <1>7
<1>10. /\ DOMAIN lw = DOMAIN lv \cup {x + 1} /\ lw[x + 1] = size
       /\ \A a \in DOMAIN lv : a # x + 1 => lw[a] = lv[a]
  BY DEF With
<1> HIDE DEF lw
<1>11. Live(f, s, lw)
  <2>1. DOMAIN lw = {s[i].page * UPP : i \in DOMAIN s} \cup {y + 1 : y \in Small(f, s)}
    BY <1>2, <1>7, <1>10 DEF Live
  <2>2. ASSUME NEW i \in DOMAIN s
        PROVE  /\ lw[s[i].page * UPP] \in Nat
               /\ lw[s[i].page * UPP] < (PAGE_SIZE + 1) * Pow2[s[i].order]
    <3>1. s[i].page * UPP \in DOMAIN lv /\ s[i].page * UPP # x + 1
      BY <1>2, <1>8 DEF Live
    <3>2. lw[s[i].page * UPP] = lv[s[i].page * UPP]
      BY <1>10, <3>1
    <3> QED BY <1>2, <3>2 DEF Live
  <2>3. ASSUME NEW y \in Small(f, s)
        PROVE  lw[y + 1] \in Nat /\ lw[y + 1] + SLOB_UNIT <= f.units[y] * SLOB_UNIT
    <3>1. CASE y = x
      BY <1>1, <1>10, <3>1
    <3>2. CASE y # x
      <4>1. y \in Small(g, s) /\ y + 1 \in DOMAIN lv
        BY <1>2, <1>7, <3>2 DEF Live
      <4>2. lw[y + 1] = lv[y + 1] /\ f.units[y] = g.units[y]
        BY <1>1, <1>7, <1>9, <1>10, <4>1
      <4> QED BY <1>2, <4>1, <4>2 DEF Live
    <3> QED BY <3>1, <3>2
  <2> QED BY <2>1, <2>2, <2>3 DEF Live
<1>12. Space(f) = {arena} \cup UnitsOf(Page \ (qs \cup BigPages(s)))
  BY <1>1 DEF HasPages
<1>13. qs \subseteq Page
  BY <1>1, <1>2
<1>14. Good(f, s, qs, lw)
  BY <1>1, <1>5, <1>6, <1>11, <1>12, <1>13 DEF Good
<1> QED BY <1>14 DEF f, qs, x, lw

\* A small block is given back.
LEMMA SmallFreed ==
    ASSUME NEW g, NEW s, NEW ps, NEW lv, Good(g, s, ps, lv), NEW x \in Small(g, s),
           NEW f, Slob(f), Taken(f) = Taken(g) \ {x}, \A y \in Taken(f) : f.units[y] = g.units[y],
           Space(f) = Space(g)
    PROVE  Good(f, s, ps, Without(lv, x + 1))
<1> DEFINE lw == Without(lv, x + 1)
<1>1. /\ ps \subseteq Page /\ BigBlocks(g, s, ps) /\ Live(g, s, lv)
      /\ \A y \in Taken(g) : g.units[y] >= 2
      /\ Space(g) = {arena} \cup UnitsOf(Page \ (ps \cup BigPages(s)))
  BY DEF Good
<1>2. \A i \in DOMAIN s : s[i].page * UPP \notin Space(g)
  BY Parts
<1>3. \A y \in Taken(g) : y \in Nat /\ y + 1 \in Space(g)
  BY Parts
<1>4. x \in Taken(g) /\ \A i \in DOMAIN s : s[i].bb # x
  BY DEF Small, Descriptors
<1>5. BigBlocks(f, s, ps)
  BY <1>1, <1>4 DEF BigBlocks
<1>6. Small(f, s) = Small(g, s) \ {x} /\ Small(g, s) \subseteq Taken(g)
  BY DEF Small
<1>7. \A i \in DOMAIN s : s[i].page * UPP # x + 1
  BY <1>2, <1>3, <1>4
<1>8. \A y \in Small(f, s) : y \in Small(g, s) /\ y \in Taken(f) /\ y + 1 # x + 1
  <2>1. \A y \in Small(f, s) : y \in Small(g, s) /\ y \in Taken(f) /\ y # x /\ y \in Nat /\ x \in Nat
    BY <1>3, <1>4, <1>6 DEF Small
  <2> QED BY <2>1
<1>9. DOMAIN lw = DOMAIN lv \ {x + 1} /\ \A a \in DOMAIN lw : lw[a] = lv[a]
  BY DEF Without
<1> HIDE DEF lw
<1>10. Live(f, s, lw)
  <2>1. DOMAIN lw = {s[i].page * UPP : i \in DOMAIN s} \cup {y + 1 : y \in Small(f, s)}
    <3>1. DOMAIN lv = {s[i].page * UPP : i \in DOMAIN s} \cup {y + 1 : y \in Small(g, s)}
      BY <1>1 DEF Live
    <3>2. {y + 1 : y \in Small(g, s)} = {y + 1 : y \in Small(f, s)} \cup {x + 1}
      BY <1>6
    <3>3. x + 1 \notin {y + 1 : y \in Small(f, s)}
      BY <1>8
    <3>4. x + 1 \notin {s[i].page * UPP : i \in DOMAIN s}
      BY <1>7
    <3> QED BY <1>9, <3>1, <3>2, <3>3, <3>4
  <2>2. ASSUME NEW i \in DOMAIN s
        PROVE  /\ lw[s[i].page * UPP] \in Nat
               /\ lw[s[i].page * UPP] < (PAGE_SIZE + 1) * Pow2[s[i].order]
    <3>1. lw[s[i].page * UPP] = lv[s[i].page * UPP]
      BY <1>9, <2>1
    <3> QED BY <1>1, <3>1 DEF Live
  <2>3. ASSUME NEW y \in Small(f, s)
        PROVE  lw[y + 1] \in Nat /\ lw[y + 1] + SLOB_UNIT <= f.units[y] * SLOB_UNIT
    <3>1. lw[y + 1] = lv[y + 1] /\ f.units[y] = g.units[y] /\ y \in Small(g, s)
      BY <1>8, <1>9, <2>1
    <3> QED BY <1>1, <3>1 DEF Live
  <2> QED BY <2>1, <2>2, <2>3 DEF Live
<1>11. \A y \in Taken(f) : f.units[y] >= 2
  BY <1>1
<1> QED BY <1>1, <1>5, <1>10, <1>11 DEF Good, lw

\* A big block is handed out.
LEMMA BigTaken ==
    ASSUME NEW g, NEW s, NEW ps, NEW lv, Good(g, s, ps, lv),
           NEW r, Gets(g, ps, BigPages(s), 2, r),
           NEW order \in Nat, NEW p \in Page, Run(p, Pow2[order]) \subseteq r.ps,
           NEW size \in Nat, size < (PAGE_SIZE + 1) * Pow2[order]
    PROVE  LET e == [bb |-> r.blk, order |-> order, page |-> p]
           IN  Good(r.g, <<e>> \o s, r.ps \ Run(p, Pow2[order]), With(lv, p * UPP, size))
<1> DEFINE f == r.g
           x == r.blk
           e == [bb |-> x, order |-> order, page |-> p]
           run == Run(p, Pow2[order])
           qs == r.ps \ run
           t == <<e>> \o s
           lw == With(lv, p * UPP, size)
<1>1. /\ x \notin Taken(g) /\ x \in Nat /\ Slob(f)
      /\ Taken(f) = Taken(g) \cup {x} /\ f.units[x] = 2
      /\ \A y \in Taken(g) : f.units[y] = g.units[y]
      /\ r.ps \subseteq ps /\ HasPages(f, r.ps, BigPages(s))
  BY DEF Gets
<1>2. /\ ps \subseteq Page /\ BigBlocks(g, s, ps) /\ Live(g, s, lv)
      /\ \A y \in Taken(g) : g.units[y] >= 2
  BY DEF Good
<1>3. /\ s \in Seq(Entry) /\ ps \cap BigPages(s) = {} /\ HasPages(g, ps, BigPages(s))
      /\ \A i \in DOMAIN s : /\ s[i].bb \in Taken(g) /\ s[i].page \in Page
                             /\ s[i].page \in BigPages(s) /\ BigRun(s[i]) \subseteq BigPages(s)
      /\ \A y \in Taken(g) : y + 1 \in Space(g)
  BY Parts
<1>4. p \in run /\ p \in ps /\ run \subseteq ps
  <2>1. p \in Nat /\ Pow2[order] \in Nat \ {0}
    BY Pow2Facts, Numbers DEF Page
  <2>2. p \in run
    BY <2>1 DEF Run
  <2> QED BY <1>1, <2>2
<1>5. e \in Entry /\ e.bb = x /\ e.order = order /\ e.page = p /\ BigRun(e) = run
  BY <1>1 DEF Entry, BigRun
<1> HIDE DEF e
<1>6. /\ t \in Seq(Entry) /\ 1 \in DOMAIN t /\ t[1] = e
      /\ \A i \in DOMAIN s : i \in Nat /\ i + 1 \in DOMAIN t /\ t[i + 1] = s[i]
      /\ \A j \in DOMAIN t \ {1} : j \in Nat /\ j - 1 \in DOMAIN s /\ t[j] = s[j - 1]
  BY <1>3, <1>5, Pushed
<1> HIDE DEF f, x, t, run, lw
<1>7. {t[j] : j \in DOMAIN t} = {e} \cup {s[i] : i \in DOMAIN s}
  <2>1. \A j \in DOMAIN t : t[j] = e \/ \E i \in DOMAIN s : t[j] = s[i]
    <3>1. ASSUME NEW j \in DOMAIN t, j # 1 PROVE j - 1 \in DOMAIN s /\ t[j] = s[j - 1]
      BY <1>6, <3>1
    <3> QED BY <1>6, <3>1
  <2>2. \A i \in DOMAIN s : \E j \in DOMAIN t : t[j] = s[i]
    BY <1>6
  <2> QED BY <1>6, <2>1, <2>2
<1>8. BigPages(t) = run \cup BigPages(s)
  <2>1. BigPages(t) = UNION {BigRun(c) : c \in {t[j] : j \in DOMAIN t}}
    BY DEF BigPages
  <2>2. BigPages(s) = UNION {BigRun(c) : c \in {s[i] : i \in DOMAIN s}}
    BY DEF BigPages
  <2> QED BY <1>5, <1>7, <2>1, <2>2
<1>9. Descriptors(t) = {x} \cup Descriptors(s)
  <2>1. Descriptors(t) = {c.bb : c \in {t[j] : j \in DOMAIN t}}
    BY DEF Descriptors
  <2>2. Descriptors(s) = {c.bb : c \in {s[i] : i \in DOMAIN s}}
    BY DEF Descriptors
  <2> QED BY <1>5, <1>7, <2>1, <2>2
<1>10. Small(f, t) = Small(g, s) /\ Small(g, s) \subseteq Taken(g)
  BY <1>1, <1>9 DEF Small
<1>11. BigBlocks(f, t, qs)
  <2>1. ASSUME NEW j \in DOMAIN t
        PROVE  /\ t[j].bb \in Taken(f) /\ f.units[t[j].bb] = 2
               /\ BigRun(t[j]) \subseteq Page \ qs
    <3>1. CASE j = 1
      BY <1>1, <1>2, <1>4, <1>5, <1>6, <3>1
    <3>2. CASE j # 1
      <4>1. j - 1 \in DOMAIN s /\ t[j] = s[j - 1]
        BY <1>6, <3>2
      <4> DEFINE c == s[j - 1]
      <4>2. c.bb \in Taken(g) /\ g.units[c.bb] = 2 /\ BigRun(c) \subseteq Page \ ps
        BY <1>2, <4>1 DEF BigBlocks
      <4> HIDE DEF c
      <4>3. c.bb \in Taken(f) /\ f.units[c.bb] = 2 /\ BigRun(c) \subseteq Page \ qs
        BY <1>1, <4>2
      <4> QED BY <4>1, <4>3 DEF c
    <3> QED BY <3>1, <3>2
  <2>2. ASSUME NEW i \in DOMAIN s
        PROVE  s[i].bb # e.bb /\ BigRun(s[i]) \cap BigRun(e) = {}
    BY <1>1, <1>3, <1>4, <1>5
  <2>3. ASSUME NEW i \in DOMAIN t, NEW j \in DOMAIN t, i # j
        PROVE  t[i].bb # t[j].bb /\ BigRun(t[i]) \cap BigRun(t[j]) = {}
    <3>1. CASE i = 1
      <4>1. j - 1 \in DOMAIN s /\ t[j] = s[j - 1] /\ t[i] = e
        BY <1>6, <2>3, <3>1
      <4> QED BY <2>2, <4>1
    <3>2. CASE j = 1
      <4>1. i - 1 \in DOMAIN s /\ t[i] = s[i - 1] /\ t[j] = e
        BY <1>6, <2>3, <3>2
      <4> QED BY <2>2, <4>1
    <3>3. CASE i # 1 /\ j # 1
      <4>1. /\ i - 1 \in DOMAIN s /\ t[i] = s[i - 1] /\ j - 1 \in DOMAIN s /\ t[j] = s[j - 1]
            /\ i \in Nat /\ j \in Nat
        BY <1>6, <3>3
      <4>2. i - 1 # j - 1
        BY <2>3, <4>1
      <4> QED BY <1>2, <4>1, <4>2 DEF BigBlocks
    <3> QED BY <3>1, <3>2, <3>3
  <2> QED BY <1>6, <2>1, <2>3 DEF BigBlocks
<1>12. \A i \in DOMAIN s : s[i].page * UPP # p * UPP
  <2>1. \A i \in DOMAIN s : s[i].page # p
    BY <1>3, <1>4
  <2> QED BY <1>3, <2>1, FirstUnits
<1>13. \A y \in Small(g, s) : y + 1 # p * UPP
  <2>1. p * UPP \notin Space(g)
    BY <1>3, <1>4, OutOfSpace
  <2> QED BY <1>3, <1>10, <2>1
<1>14. /\ DOMAIN lw = DOMAIN lv \cup {p * UPP} /\ lw[p * UPP] = size
       /\ \A a \in DOMAIN lv : a # p * UPP => lw[a] = lv[a]
  BY DEF With, lw
<1>15. Live(f, t, lw)
  <2>1. DOMAIN lw = {t[i].page * UPP : i \in DOMAIN t} \cup {y + 1 : y \in Small(f, t)}
    <3>1. DOMAIN lv = {s[i].page * UPP : i \in DOMAIN s} \cup {y + 1 : y \in Small(g, s)}
      BY <1>2 DEF Live
    <3>2. {t[i].page * UPP : i \in DOMAIN t} = {c.page * UPP : c \in {t[j] : j \in DOMAIN t}}
      OBVIOUS
    <3>3. {s[i].page * UPP : i \in DOMAIN s} = {c.page * UPP : c \in {s[j] : j \in DOMAIN s}}
      OBVIOUS
    <3>4. {t[i].page * UPP : i \in DOMAIN t} = {p * UPP} \cup {s[i].page * UPP : i \in DOMAIN s}
      BY <1>5, <1>7, <3>2, <3>3
    <3> QED BY <1>10, <1>14, <3>1, <3>4
  <2>2. ASSUME NEW i \in DOMAIN t
        PROVE  /\ lw[t[i].page * UPP] \in Nat
               /\ lw[t[i].page * UPP] < (PAGE_SIZE + 1) * Pow2[t[i].order]
    <3>1. CASE i = 1
      BY <1>5, <1>6, <1>14, <3>1
    <3>2. CASE i # 1
      <4>1. i - 1 \in DOMAIN s /\ t[i] = s[i - 1]
        BY <1>6, <3>2
      <4> DEFINE c == s[i - 1]
      <4>2. /\ c.page * UPP \in DOMAIN lv /\ lv[c.page * UPP] \in Nat
            /\ lv[c.page * UPP] < (PAGE_SIZE + 1) * Pow2[c.order]
        BY <1>2, <4>1 DEF Live
      <4>3. c.page * UPP # p * UPP
        BY <1>12, <4>1
      <4> HIDE DEF c
      <4>4. lw[c.page * UPP] = lv[c.page * UPP]
        BY <1>14, <4>2, <4>3
      <4> QED BY <4>1, <4>2, <4>4 DEF c
    <3> QED BY <3>1, <3>2
  <2>3. ASSUME NEW y \in Small(f, t)
        PROVE  lw[y + 1] \in Nat /\ lw[y + 1] + SLOB_UNIT <= f.units[y] * SLOB_UNIT
    <3>1. y \in Small(g, s) /\ y \in Taken(g) /\ y + 1 \in DOMAIN lv /\ y + 1 # p * UPP
      BY <1>2, <1>10, <1>13 DEF Live
    <3>2. lw[y + 1] = lv[y + 1] /\ f.units[y] = g.units[y]
      BY <1>1, <1>14, <3>1
    <3> QED BY <1>2, <3>1, <3>2 DEF Live
  <2> QED BY <2>1, <2>2, <2>3 DEF Live
<1>16. Space(f) = {arena} \cup UnitsOf(Page \ (qs \cup BigPages(t)))
  <2>1. qs \cup BigPages(t) = r.ps \cup BigPages(s)
    <3>1. run \subseteq r.ps
      BY DEF run
    <3> QED BY <1>8, <3>1
  <2> HIDE DEF qs
  <2> QED BY <1>1, <2>1 DEF HasPages
<1>17. qs \subseteq Page /\ \A y \in Taken(f) : f.units[y] >= 2
  BY <1>1, <1>2
<1> HIDE DEF qs
<1>18. Good(f, t, qs, lw)
  BY <1>1, <1>11, <1>15, <1>16, <1>17 DEF Good
<1> QED BY <1>18 DEF f, x, t, run, lw, qs, e

\* A big block is given back.
LEMMA BigFreed ==
    ASSUME NEW g, NEW s, NEW ps, NEW lv, Good(g, s, ps, lv), NEW i \in DOMAIN s,
           NEW f, Slob(f), Taken(f) = Taken(g) \ {s[i].bb},
           \A y \in Taken(f) : f.units[y] = g.units[y], Space(f) = Space(g)
    PROVE  Good(f, SubSeq(s, 1, i - 1) \o SubSeq(s, i + 1, Len(s)), ps \cup BigRun(s[i]),
                Without(lv, s[i].page * UPP))
<1> DEFINE e == s[i]
           t == SubSeq(s, 1, i - 1) \o SubSeq(s, i + 1, Len(s))
           qs == ps \cup BigRun(e)
           lw == Without(lv, e.page * UPP)
<1>1. /\ ps \subseteq Page /\ BigBlocks(g, s, ps) /\ Live(g, s, lv)
      /\ \A y \in Taken(g) : g.units[y] >= 2
      /\ Space(g) = {arena} \cup UnitsOf(Page \ (ps \cup BigPages(s)))
  BY DEF Good
<1>2. /\ s \in Seq(Entry) /\ BigPages(s) \subseteq Page
      /\ \A k \in DOMAIN s : /\ s[k].bb \in Taken(g) /\ s[k].page \in Page /\ s[k].page \in BigRun(s[k])
                             /\ s[k].page * UPP \notin Space(g) /\ BigRun(s[k]) \subseteq BigPages(s)
      /\ \A y \in Taken(g) : y + 1 \in Space(g)
  BY Parts
<1>3. /\ t \in Seq(Entry)
      /\ \A j \in DOMAIN t : j \in Nat /\ Skip(i, j) \in DOMAIN s \ {i} /\ t[j] = s[Skip(i, j)]
      /\ \A k \in DOMAIN s \ {i} : \E j \in DOMAIN t : Skip(i, j) = k
  <2>1. s \in Seq(Entry) /\ i \in DOMAIN s
    BY <1>2
  <2>2. LacksEntry(Entry, s, i, t)
    BY <2>1, Removed
  <2> HIDE DEF t
  <2> QED BY <2>2 DEF LacksEntry
<1> HIDE DEF t, lw
<1>4. {t[j] : j \in DOMAIN t} = {s[k] : k \in DOMAIN s \ {i}}
  BY <1>3
<1>5. \A k \in DOMAIN s \ {i} : s[k].bb # e.bb /\ BigRun(s[k]) \cap BigRun(e) = {}
  BY <1>1 DEF BigBlocks
<1>6. DOMAIN s = (DOMAIN s \ {i}) \cup {i}
  OBVIOUS
<1>7. BigPages(s) = BigPages(t) \cup BigRun(e) /\ BigPages(t) \cap BigRun(e) = {}
  <2>1. BigPages(t) = UNION {BigRun(c) : c \in {t[j] : j \in DOMAIN t}}
    BY DEF BigPages
  <2>2. BigPages(t) = UNION {BigRun(s[k]) : k \in DOMAIN s \ {i}}
    BY <1>4, <2>1
  <2>3. BigPages(s) = BigPages(t) \cup BigRun(e)
    BY <1>6, <2>2 DEF BigPages
  <2> QED BY <1>5, <2>2, <2>3
<1>8. Descriptors(s) = Descriptors(t) \cup {e.bb} /\ e.bb \notin Descriptors(t)
  <2>1. Descriptors(t) = {c.bb : c \in {t[j] : j \in DOMAIN t}}
    BY DEF Descriptors
  <2>2. Descriptors(t) = {s[k].bb : k \in DOMAIN s \ {i}}
    BY <1>4, <2>1
  <2>3. Descriptors(s) = Descriptors(t) \cup {e.bb}
    BY <1>6, <2>2 DEF Descriptors
  <2> QED BY <1>5, <2>2, <2>3
<1>9. Small(f, t) = Small(g, s) /\ Small(g, s) \subseteq Taken(g) /\ Small(g, s) \subseteq Taken(f)
  BY <1>8 DEF Small
<1>10. BigBlocks(f, t, qs)
  <2>1. ASSUME NEW j \in DOMAIN t
        PROVE  /\ t[j].bb \in Taken(f) /\ f.units[t[j].bb] = 2
               /\ BigRun(t[j]) \subseteq Page \ qs
    <3> DEFINE c == s[Skip(i, j)]
    <3>1. Skip(i, j) \in DOMAIN s \ {i} /\ t[j] = c
      BY <1>3
    <3>2. /\ c.bb \in Taken(g) /\ g.units[c.bb] = 2 /\ BigRun(c) \subseteq Page \ ps
          /\ c.bb # e.bb /\ BigRun(c) \cap BigRun(e) = {}
      BY <1>1, <1>5, <3>1 DEF BigBlocks
    <3> HIDE DEF c, e
    <3>3. Taken(f) = Taken(g) \ {e.bb}
      BY DEF e
    <3>4. c.bb \in Taken(f) /\ f.units[c.bb] = 2
      BY <3>2, <3>3
    <3> QED BY <3>1, <3>2, <3>4
  <2>2. ASSUME NEW j \in DOMAIN t, NEW k \in DOMAIN t, j # k
        PROVE  t[j].bb # t[k].bb /\ BigRun(t[j]) \cap BigRun(t[k]) = {}
    <3>1. /\ Skip(i, j) \in DOMAIN s /\ t[j] = s[Skip(i, j)] /\ j \in Nat
          /\ Skip(i, k) \in DOMAIN s /\ t[k] = s[Skip(i, k)] /\ k \in Nat
      BY <1>3
    <3>2. Skip(i, j) # Skip(i, k)
      <4>1. i \in Nat
        BY <1>2
      <4> QED BY <2>2, <3>1, <4>1 DEF Skip
    <3> QED BY <1>1, <3>1, <3>2 DEF BigBlocks
  <2> QED BY <1>3, <2>1, <2>2 DEF BigBlocks
<1>11. \A k \in DOMAIN s \ {i} : s[k].page * UPP # e.page * UPP
  <2>1. \A k \in DOMAIN s \ {i} : s[k].page # e.page /\ s[k].page \in Page /\ e.page \in Page
    BY <1>2, <1>5
  <2> QED BY <2>1, FirstUnits
<1>12. \A y \in Small(g, s) : y + 1 # e.page * UPP
  BY <1>2, <1>9
<1>13. DOMAIN lw = DOMAIN lv \ {e.page * UPP} /\ \A a \in DOMAIN lw : lw[a] = lv[a]
  BY DEF Without, lw
<1>14. Live(f, t, lw)
  <2>1. DOMAIN lw = {t[j].page * UPP : j \in DOMAIN t} \cup {y + 1 : y \in Small(f, t)}
    <3>1. DOMAIN lv = {s[k].page * UPP : k \in DOMAIN s} \cup {y + 1 : y \in Small(g, s)}
      BY <1>1 DEF Live
    <3>2. {t[j].page * UPP : j \in DOMAIN t} = {c.page * UPP : c \in {t[j] : j \in DOMAIN t}}
      OBVIOUS
    <3>3. {t[j].page * UPP : j \in DOMAIN t} = {s[k].page * UPP : k \in DOMAIN s \ {i}}
      BY <1>4, <3>2
    <3>4. {s[k].page * UPP : k \in DOMAIN s} = {t[j].page * UPP : j \in DOMAIN t} \cup {e.page * UPP}
      BY <1>6, <3>3
    <3>5. e.page * UPP \notin {t[j].page * UPP : j \in DOMAIN t}
      BY <1>11, <3>3
    <3>6. e.page * UPP \notin {y + 1 : y \in Small(g, s)}
      BY <1>12
    <3> QED BY <1>9, <1>13, <3>1, <3>4, <3>5, <3>6
  <2>2. ASSUME NEW j \in DOMAIN t
        PROVE  /\ lw[t[j].page * UPP] \in Nat
               /\ lw[t[j].page * UPP] < (PAGE_SIZE + 1) * Pow2[t[j].order]
    <3> DEFINE c == s[Skip(i, j)]
    <3>1. t[j].page * UPP \in DOMAIN lw
      BY <2>1
    <3>2. Skip(i, j) \in DOMAIN s /\ t[j] = c
      BY <1>3
    <3>3. lv[c.page * UPP] \in Nat /\ lv[c.page * UPP] < (PAGE_SIZE + 1) * Pow2[c.order]
      BY <1>1, <3>2 DEF Live
    <3> HIDE DEF c
    <3> QED BY <1>13, <3>1, <3>2, <3>3
  <2>3. ASSUME NEW y \in Small(f, t)
        PROVE  lw[y + 1] \in Nat /\ lw[y + 1] + SLOB_UNIT <= f.units[y] * SLOB_UNIT
    <3>1. lw[y + 1] = lv[y + 1] /\ f.units[y] = g.units[y] /\ y \in Small(g, s)
      BY <1>9, <1>13, <2>1
    <3> QED BY <1>1, <3>1 DEF Live
  <2> QED BY <2>1, <2>2, <2>3 DEF Live
<1>15. Space(f) = {arena} \cup UnitsOf(Page \ (qs \cup BigPages(t)))
  <2>1. qs \cup BigPages(t) = ps \cup BigPages(s)
    BY <1>7
  <2> QED BY <1>1, <2>1
<1>16. qs \subseteq Page
  BY <1>1, <1>2
<1>17. \A y \in Taken(f) : f.units[y] >= 2
  BY <1>1
<1> HIDE DEF qs
<1>18. Good(f, t, qs, lw)
  BY <1>10, <1>14, <1>15, <1>16, <1>17 DEF Good
<1> QED BY <1>18 DEF t, lw, qs

\* An address in use is a page's, of one big block, or behind a small block's header.
LEMMA Kinds ==
    ASSUME KInv, NEW b \in DOMAIN live
    PROVE  \/ \E i \in DOMAIN bigblocks : b = bigblocks[i].page * UPP /\ Big(b) = {i}
           \/ \E x \in Small(h, bigblocks) : b = x + 1 /\ b - 1 = x /\ Big(b) = {}
<1> DEFINE s == bigblocks
<1>1. Good(h, s, pages, live)
  BY DEF KInv
<1>2. /\ \A i \in DOMAIN s : /\ s[i].page \in Page /\ s[i].page \in BigRun(s[i])
                             /\ s[i].page * UPP \notin Space(h)
      /\ \A x \in Taken(h) : x \in Nat /\ x + 1 \in Space(h) /\ (x + 1) - 1 = x
  BY <1>1, Parts
<1>3. DOMAIN live = {s[i].page * UPP : i \in DOMAIN s} \cup {x + 1 : x \in Small(h, s)}
  BY <1>1 DEF Good, Live
<1>4. \A i, j \in DOMAIN s : i # j => BigRun(s[i]) \cap BigRun(s[j]) = {}
  BY <1>1 DEF Good, BigBlocks
<1>5. CASE \E i \in DOMAIN s : b = s[i].page * UPP
  <2>1. PICK i \in DOMAIN s : b = s[i].page * UPP
    BY <1>5
  <2>2. b % UPP = 0
    BY <1>2, <2>1, FirstUnits
  <2>3. ASSUME NEW j \in DOMAIN s, s[j].page * UPP = b PROVE j = i
    <3>1. s[j].page = s[i].page
      BY <1>2, <2>1, <2>3, FirstUnits
    <3> QED BY <1>2, <1>4, <2>1, <3>1
  <2>4. Big(b) = {i}
    BY <2>1, <2>2, <2>3 DEF Big
  <2> QED BY <2>1, <2>4
<1>6. CASE \E x \in Small(h, s) : b = x + 1
  <2>1. PICK x \in Small(h, s) : b = x + 1
    BY <1>6
  <2>2. x \in Taken(h)
    BY DEF Small
  <2>3. b \in Space(h) /\ b - 1 = x
    BY <1>2, <2>1, <2>2
  <2>4. Big(b) = {}
    BY <1>2, <2>3 DEF Big
  <2> QED BY <2>1, <2>3, <2>4
<1> QED BY <1>3, <1>5, <1>6

\* The arena alone is a good heap.
LEMMA InitGood == Init => KInv
<1> SUFFICES ASSUME Init PROVE KInv
  OBVIOUS
<1>1. /\ h = [next |-> [b \in {arena} |-> arena], units |-> [b \in {arena} |-> 1],
              slobfree |-> arena]
      /\ bigblocks = <<>> /\ pages = Page /\ live = [b \in {} |-> 0]
  BY DEF Init
<1>2. arena = 0 /\ Limit \in Nat /\ Limit >= 1
  <2>1. UPP \in Nat /\ UPP >= 2 /\ NPage \in Nat /\ arena = 0
    BY Numbers
  <2>2. 0 * UPP + UPP <= (NPage + 1) * UPP /\ (NPage + 1) * UPP \in Nat
    BY <2>1, Multiples
  <2> QED BY <2>1, <2>2 DEF Limit
<1>3. /\ h.next = [b \in {arena} |-> arena] /\ h.units = [b \in {arena} |-> 1]
      /\ h.slobfree = arena
  BY <1>1
<1>4. Blocks(h) = {arena} /\ Starts(h) = {arena} /\ h.next[arena] = arena /\ h.units[arena] = 1
  BY <1>3 DEF Blocks, Starts
<1>5. Heap(h)
  <2>1. h.next \in [Blocks(h) -> Blocks(h)] /\ h.units \in [Starts(h) -> Nat \ {0}]
    BY <1>3, <1>4
  <2>2. h \in [next : [Blocks(h) -> Blocks(h)], units : [Starts(h) -> Nat \ {0}],
               slobfree : Blocks(h)]
    <3>1. h = [next |-> h.next, units |-> h.units, slobfree |-> h.slobfree]
      BY <1>1
    <3>2. h.slobfree \in Blocks(h)
      BY <1>3, <1>4
    <3> QED BY <2>1, <3>1, <3>2
  <2> QED BY <1>2, <1>4, <2>2 DEF Heap
<1>6. Circular(h) /\ Apart(h) /\ Loose(h)
  BY <1>2, <1>4 DEF Circular, Apart, Loose, Leads
<1>7. Taken(h) = {} /\ Small(h, bigblocks) = {}
  BY <1>4 DEF Taken, Small
<1>8. DOMAIN bigblocks = {} /\ bigblocks \in Seq(Entry) /\ BigPages(bigblocks) = {}
  BY <1>1 DEF BigPages
<1>9. BigBlocks(h, bigblocks, pages)
  BY <1>8 DEF BigBlocks
<1>10. Space(h) = {arena} \cup UnitsOf(Page \ (pages \cup BigPages(bigblocks)))
  <2>1. Chunk(h, arena) = {arena}
    BY <1>2, <1>4 DEF Chunk
  <2>2. UnitsOf({}) = {}
    BY DEF UnitsOf
  <2>3. Page \ (pages \cup BigPages(bigblocks)) = {}
    BY <1>1
  <2> QED BY <1>4, <2>1, <2>2, <2>3 DEF Space
<1>11. Live(h, bigblocks, live)
  BY <1>1, <1>7, <1>8 DEF Live
<1> QED BY <1>1, <1>5, <1>6, <1>7, <1>9, <1>10, <1>11 DEF KInv, Good, Slob

\* __kmalloc of less than a page keeps it good,
LEMMA KmallocSmallGood ==
    ASSUME KInv, NEW size \in Sizes, KmallocSmall(size)
    PROVE  KInv'
<1> USE DEF KmallocSmall
<1>1. Good(h, bigblocks, pages, live) /\ bigblocks' = bigblocks
  BY DEF KInv
<1>2. /\ Slob(h) /\ pages \subseteq Page /\ pages \cap BigPages(bigblocks) = {}
      /\ HasPages(h, pages, BigPages(bigblocks))
  BY <1>1, Parts
<1>3. size \in Nat \ {0} /\ NULL \notin Nat /\ SLOB_UNIT \in Nat /\ SLOB_UNIT >= 2
      /\ PAGE_SIZE \in Nat
  BY KmallocAssumption, PageSize
<1>4. CASE ~SlobAllocAsserts(size + SLOB_UNIT)
  BY <1>1, <1>4 DEF KInv
<1>5. CASE SlobAllocAsserts(size + SLOB_UNIT)
  <2> DEFINE n == SLOB_UNITS(size + SLOB_UNIT)
  <2>1. PICK r \in slob_alloc(h, pages, size + SLOB_UNIT) :
          /\ h' = r.g /\ pages' = r.ps
          /\ live' = IF r.blk = NULL THEN live ELSE With(live, r.blk + 1, size)
    BY <1>5
  <2>2. /\ size + SLOB_UNIT \in Nat /\ size + SLOB_UNIT > SLOB_UNIT
        /\ size + SLOB_UNIT < PAGE_SIZE
    BY <1>3, <1>5 DEF SlobAllocAsserts
  <2>3. /\ n \in Nat /\ n >= 2 /\ n <= UPP /\ size + SLOB_UNIT <= n * SLOB_UNIT
    BY <2>2, UnitsHold
  <2>4. \/ r.blk = NULL /\ r.g = h /\ r.ps = pages
        \/ Gets(h, pages, BigPages(bigblocks), n, r)
    BY <1>2, <2>3, SlobAlloc
  <2> HIDE DEF n
  <2>5. CASE r.blk = NULL /\ r.g = h /\ r.ps = pages
    BY <1>1, <2>1, <2>5 DEF KInv
  <2>6. CASE Gets(h, pages, BigPages(bigblocks), n, r)
    <3>1. r.blk # NULL
      BY <1>3, <2>6 DEF Gets
    <3>2. Good(r.g, bigblocks, r.ps, With(live, r.blk + 1, size))
      BY <1>1, <1>3, <2>3, <2>6, SmallTaken
    <3> QED BY <1>1, <2>1, <3>1, <3>2 DEF KInv
  <2> QED BY <2>4, <2>5, <2>6
<1> QED BY <1>4, <1>5

\* __kmalloc of pages as well, also when it gives the descriptor back,
LEMMA KmallocBigGood ==
    ASSUME KInv, NEW size \in Sizes, KmallocBig(size)
    PROVE  KInv'
<1> DEFINE order == find_order(size)
           run(r) == FirstRun(r.ps, Pow2[order])
<1>1. Good(h, bigblocks, pages, live)
  BY DEF KInv
<1>2. /\ Slob(h) /\ pages \subseteq Page /\ pages \cap BigPages(bigblocks) = {}
      /\ HasPages(h, pages, BigPages(bigblocks))
  BY <1>1, Parts
<1>3. size \in Nat \ {0} /\ NULL \notin Nat /\ UPP >= 2 /\ UPP \in Nat
  BY KmallocAssumption, Numbers
<1>4. order \in Nat /\ size < (PAGE_SIZE + 1) * Pow2[order]
  BY <1>3, OrderHolds
<1>5. SLOB_UNITS(BB_SIZE) = 2
  BY DescriptorUnits
<1>6. PICK r \in slob_alloc(h, pages, BB_SIZE) :
        \/ /\ r.blk = NULL
           /\ UNCHANGED <<h, bigblocks, pages, live>>
        \/ /\ r.blk # NULL /\ run(r) = {}
           /\ h' = slob_free(r.g, r.blk, SLOB_UNITS(BB_SIZE))
           /\ pages' = r.ps
           /\ UNCHANGED <<bigblocks, live>>
        \/ /\ r.blk # NULL
           /\ \E p \in run(r) :
                 /\ pages' = r.ps \ Run(p, Pow2[order])
                 /\ bigblocks' = <<[bb |-> r.blk, order |-> order, page |-> p]>> \o bigblocks
                 /\ live' = With(live, p * UPP, size)
           /\ h' = r.g
  BY DEF KmallocBig
<1> HIDE DEF order
<1>7. \/ r.blk = NULL /\ r.g = h /\ r.ps = pages
      \/ Gets(h, pages, BigPages(bigblocks), 2, r)
  <2>1. SLOB_UNITS(BB_SIZE) \in Nat /\ SLOB_UNITS(BB_SIZE) >= 2 /\ SLOB_UNITS(BB_SIZE) <= UPP
    BY <1>3, <1>5
  <2>2. \/ r.blk = NULL /\ r.g = h /\ r.ps = pages
        \/ Gets(h, pages, BigPages(bigblocks), SLOB_UNITS(BB_SIZE), r)
    BY <1>2, <2>1, SlobAlloc
  <2> QED BY <1>5, <2>2
<1>8. CASE r.blk = NULL
  BY <1>1, <1>6, <1>8 DEF KInv
<1>9. CASE r.blk # NULL
  <2>1. Gets(h, pages, BigPages(bigblocks), 2, r)
    BY <1>7, <1>9
  <2>2. /\ r.blk \notin Taken(h) /\ Slob(r.g) /\ Taken(r.g) = Taken(h) \cup {r.blk}
        /\ r.g.units[r.blk] = 2 /\ \A x \in Taken(h) : r.g.units[x] = h.units[x]
        /\ r.ps \subseteq pages /\ HasPages(r.g, r.ps, BigPages(bigblocks))
    BY <2>1 DEF Gets
  <2>3. CASE /\ run(r) = {}
             /\ h' = slob_free(r.g, r.blk, SLOB_UNITS(BB_SIZE))
             /\ pages' = r.ps
             /\ UNCHANGED <<bigblocks, live>>
    <3> DEFINE f == slob_free(r.g, r.blk, r.g.units[r.blk])
    <3>1. h' = f
      BY <1>5, <2>2, <2>3
    <3>2. /\ Slob(f) /\ Taken(f) = Taken(r.g) \ {r.blk}
          /\ \A x \in Taken(f) : f.units[x] = r.g.units[x]
          /\ Space(f) = Space(r.g)
      <4>1. r.blk \in Taken(r.g)
        BY <2>2
      <4> QED BY <2>2, <4>1, FreeTaken
    <3> HIDE DEF f
    <3>3. Taken(f) = Taken(h) /\ \A x \in Taken(h) : f.units[x] = h.units[x]
      BY <2>2, <3>2
    <3>4. HasPages(f, r.ps, BigPages(bigblocks))
      BY <2>2, <3>2 DEF HasPages
    <3>5. Good(f, bigblocks, r.ps, live)
      BY <1>1, <2>2, <3>2, <3>3, <3>4, NothingTaken
    <3> QED BY <2>3, <3>1, <3>5 DEF KInv
  <2>4. CASE /\ \E p \in run(r) :
                   /\ pages' = r.ps \ Run(p, Pow2[order])
                   /\ bigblocks' = <<[bb |-> r.blk, order |-> order, page |-> p]>> \o bigblocks
                   /\ live' = With(live, p * UPP, size)
             /\ h' = r.g
    <3>1. PICK p \in run(r) :
                   /\ pages' = r.ps \ Run(p, Pow2[order])
                   /\ bigblocks' = <<[bb |-> r.blk, order |-> order, page |-> p]>> \o bigblocks
                   /\ live' = With(live, p * UPP, size)
      BY <2>4
    <3>2. r.ps \in SUBSET Page /\ p \in FirstRun(r.ps, Pow2[order])
      BY <1>2, <2>2
    <3>3. p \in Page /\ Run(p, Pow2[order]) \subseteq r.ps
      BY <3>2, FirstRunFits
    <3>4. Good(r.g, <<[bb |-> r.blk, order |-> order, page |-> p]>> \o bigblocks,
               r.ps \ Run(p, Pow2[order]), With(live, p * UPP, size))
      BY <1>1, <1>3, <1>4, <2>1, <3>3, BigTaken
    <3> QED BY <2>4, <3>1, <3>4 DEF KInv
  <2> QED BY <1>6, <1>9, <2>3, <2>4
<1> QED BY <1>8, <1>9

\* and kfree, of a big block and of a small one.
LEMMA KfreeGood ==
    ASSUME KInv, NEW b \in DOMAIN live, kfree(b)
    PROVE  KInv'
<1>1. Good(h, bigblocks, pages, live)
  BY DEF KInv
<1>2. Slob(h) /\ \A i \in DOMAIN bigblocks : bigblocks[i].bb \in Taken(h)
  BY <1>1, Parts
<1>3. live' = Without(live, b)
  BY DEF kfree
<1>4. CASE \E i \in DOMAIN bigblocks : b = bigblocks[i].page * UPP /\ Big(b) = {i}
  <2>1. PICK i \in DOMAIN bigblocks : b = bigblocks[i].page * UPP /\ Big(b) = {i}
    BY <1>4
  <2>2. FreeBig(b, i)
    BY <2>1 DEF kfree
  <2> DEFINE e == bigblocks[i]
             f == slob_free(h, e.bb, h.units[e.bb])
  <2>3. h.units[e.bb] = 2 /\ SLOB_UNITS(BB_SIZE) = 2
    BY <1>1, DescriptorUnits DEF Good, BigBlocks
  <2>4. /\ bigblocks' = SubSeq(bigblocks, 1, i - 1) \o SubSeq(bigblocks, i + 1, Len(bigblocks))
        /\ pages' = pages \cup BigRun(e)
        /\ h' = f
    BY <2>2, <2>3 DEF FreeBig, BigRun
  <2>5. /\ Slob(f) /\ Taken(f) = Taken(h) \ {e.bb}
        /\ \A x \in Taken(f) : f.units[x] = h.units[x]
        /\ Space(f) = Space(h)
    BY <1>2, FreeTaken
  <2> HIDE DEF f
  <2>6. Good(f, SubSeq(bigblocks, 1, i - 1) \o SubSeq(bigblocks, i + 1, Len(bigblocks)),
             pages \cup BigRun(e), Without(live, e.page * UPP))
    BY <1>1, <2>5, BigFreed
  <2> QED BY <1>3, <2>1, <2>4, <2>6 DEF KInv
<1>5. CASE \E x \in Small(h, bigblocks) : b = x + 1 /\ b - 1 = x /\ Big(b) = {}
  <2>1. PICK x \in Small(h, bigblocks) : b = x + 1 /\ b - 1 = x /\ Big(b) = {}
    BY <1>5
  <2> DEFINE f == slob_free(h, x, h.units[x])
  <2>2. h' = f /\ bigblocks' = bigblocks /\ pages' = pages
    BY <2>1 DEF kfree
  <2>3. x \in Taken(h)
    BY DEF Small
  <2>4. /\ Slob(f) /\ Taken(f) = Taken(h) \ {x}
        /\ \A y \in Taken(f) : f.units[y] = h.units[y]
        /\ Space(f) = Space(h)
    BY <1>2, <2>3, FreeTaken
  <2> HIDE DEF f
  <2>5. Good(f, bigblocks, pages, Without(live, x + 1))
    BY <1>1, <2>4, SmallFreed
  <2> QED BY <1>3, <2>1, <2>2, <2>5 DEF KInv
<1> QED BY <1>4, <1>5, Kinds

\* Every step keeps the invariant.
LEMMA StepGood == KInv /\ [Next]_vars => KInv'
<1> SUFFICES ASSUME KInv, [Next]_vars PROVE KInv'
  OBVIOUS
<1>1. ASSUME NEW size \in Sizes, KmallocSmall(size) PROVE KInv'
  BY <1>1, KmallocSmallGood
<1>2. ASSUME NEW size \in Sizes, KmallocBig(size) PROVE KInv'
  BY <1>2, KmallocBigGood
<1>3. ASSUME NEW b \in DOMAIN live, kfree(b) PROVE KInv'
  BY <1>3, KfreeGood
<1>4. CASE UNCHANGED vars
  BY <1>4 DEF KInv, vars
<1>5. CASE Panicked
  BY <1>5 DEF KInv, Panicked, vars
<1> QED BY <1>1, <1>2, <1>3, <1>4, <1>5 DEF Next

\* Between any two calls of kmalloc and kfree the heap is good: the free list is sorted,
\* closed and merged, and blocks, descriptors and pages have one owner each.
THEOREM HeapInvariant == Spec => []KInv
<1> QED BY InitGood, StepGood, PTL DEF Spec

----------------------------------------------------------------------------
(***************************************************************************)
(* What the invariant says of the heap.                                    *)
(***************************************************************************)

\* The greatest number of a set.
LEMMA MaxIs ==
    ASSUME NEW S \in SUBSET Nat, NEW b \in S, \A c \in S : c <= b
    PROVE  b = Max(S)
<1> DEFINE IsMax(x) == x \in S /\ \A c \in S : x >= c
<1>1. Max(S) = CHOOSE x : IsMax(x)
  BY DEF Max
<1>2. IsMax(b)
  OBVIOUS
<1> HIDE DEF IsMax
<1>3. IsMax(CHOOSE x : IsMax(x))
  BY <1>2
<1>4. IsMax(Max(S))
  BY <1>1, <1>3
<1>5. Max(S) \in Nat /\ b \in Nat /\ Max(S) >= b /\ Max(S) <= b
  BY <1>4 DEF IsMax
<1> QED BY <1>5

\* The free list is what ListSound says.
LEMMA Sound ==
    ASSUME Slob(h)
    PROVE  ListSound
<1> DEFINE B == Blocks(h)
<1>1. /\ Heap(h) /\ Circular(h) /\ Apart(h) /\ Loose(h)
      /\ h.next \in [B -> B] /\ h.units \in [Starts(h) -> Nat \ {0}]
      /\ B \subseteq Starts(h) /\ Starts(h) \subseteq Nat
  BY HeapFields DEF Slob
<1>2. {Walk(h, k) : k \in Steps(h)} = B
  BY <1>1, WalkCovers
<1>3. ASSUME NEW b \in B
      PROVE  IF h.next[b] > b THEN b + h.units[b] < h.next[b]
                              ELSE h.next[b] = arena /\ b = Max(B)
  <2>1. b \in Nat /\ h.next[b] \in B /\ h.next[b] \in Nat /\ h.units[b] \in Nat
    BY <1>1
  <2>2. CASE h.next[b] > b
    <3>1. b + h.units[b] <= h.next[b] /\ b + h.units[b] # h.next[b]
      BY <1>1, <2>1, <2>2 DEF Apart, Loose
    <3> QED BY <2>1, <2>2, <3>1
  <2>3. CASE ~(h.next[b] > b)
    <3>1. Leads(B, b, h.next[b])
      BY <1>1 DEF Circular
    <3>2. h.next[b] = arena /\ \A c \in B : c <= b
      BY <2>1, <2>3, <3>1 DEF Leads
    <3>3. B \in SUBSET Nat
      BY <1>1
    <3> HIDE DEF B
    <3>4. b = Max(B)
      BY <3>2, <3>3, MaxIs
    <3> QED BY <2>3, <3>2, <3>4
  <2> QED BY <2>2, <2>3
<1> QED BY <1>2, <1>3 DEF ListSound

\* The units of a block in use, by its kind.
LEMMA BigFootprint ==
    ASSUME KInv, NEW i \in DOMAIN bigblocks, NEW b, b = bigblocks[i].page * UPP, Big(b) = {i}
    PROVE  Footprint(b) = UnitsOf(BigRun(bigblocks[i])) \cup Chunk(h, bigblocks[i].bb)
<1> DEFINE e == bigblocks[i]
           k == Pow2[e.order]
<1>1. Good(h, bigblocks, pages, live)
  BY DEF KInv
<1>2. e.order \in Nat /\ e.page \in Page /\ i \in Nat
  BY <1>1, Parts
<1>3. k \in Nat \ {0} /\ e.page \in Nat
  BY <1>2, Pow2Facts, Numbers DEF Page
<1>4. h.units[e.bb] = 2 /\ SLOB_UNITS(BB_SIZE) = 2
  BY <1>1, DescriptorUnits DEF Good, BigBlocks
<1>5. Min(Big(b)) = i
  <2>1. Big(b) \in SUBSET Nat /\ Big(b) # {}
    BY <1>2
  <2> QED BY <2>1, MinIs
<1>6. Footprint(b) = (b .. b + k * UPP - 1) \cup (e.bb .. e.bb + 2 - 1)
  BY <1>4, <1>5 DEF Footprint
<1>7. UnitsOf(BigRun(e)) = b .. b + k * UPP - 1
  <2> HIDE DEF k
  <2>1. UnitsOf(Run(e.page, k)) = e.page * UPP .. e.page * UPP + k * UPP - 1
    BY <1>3, RunUnits
  <2>2. BigRun(e) = Run(e.page, k)
    BY DEF BigRun, k
  <2> QED BY <2>1, <2>2
<1>8. Chunk(h, e.bb) = e.bb .. e.bb + 2 - 1
  BY <1>4 DEF Chunk
<1> QED BY <1>6, <1>7, <1>8

\* That of a small block is the block with its header.
LEMMA SmallFootprint ==
    ASSUME NEW b, NEW x, b - 1 = x, Big(b) = {}
    PROVE  Footprint(b) = Chunk(h, x)
  BY DEF Footprint, Chunk

\* Blocks are apart, and not empty.
LEMMA ChunksApart ==
    ASSUME NEW g, Slob(g), NEW x \in Starts(g), NEW y \in Starts(g)
    PROVE  /\ x \in Chunk(g, x) /\ Chunk(g, x) \subseteq Space(g)
           /\ x # y => Chunk(g, x) \cap Chunk(g, y) = {}
<1>1. Apart(g) /\ x \in Nat /\ y \in Nat /\ g.units[x] \in Nat \ {0} /\ g.units[y] \in Nat \ {0}
  BY HeapFields DEF Slob
<1>2. x \in Chunk(g, x) /\ Chunk(g, x) \subseteq Space(g)
  BY <1>1 DEF Chunk, Space
<1>3. ASSUME x # y PROVE Chunk(g, x) \cap Chunk(g, y) = {}
  <2>1. x + g.units[x] <= y \/ y + g.units[y] <= x
    BY <1>1, <1>3 DEF Apart
  <2> QED BY <1>1, <2>1 DEF Chunk
<1> QED BY <1>2, <1>3

\* The pages of big blocks are outside the heap's space.
LEMMA BigOutside ==
    ASSUME KInv, NEW i \in DOMAIN bigblocks
    PROVE  /\ UnitsOf(BigRun(bigblocks[i])) \cap Space(h) = {}
           /\ \A j \in DOMAIN bigblocks : i # j =>
                UnitsOf(BigRun(bigblocks[i])) \cap UnitsOf(BigRun(bigblocks[j])) = {}
<1>1. Good(h, bigblocks, pages, live)
  BY DEF KInv
<1>2. /\ HasPages(h, pages, BigPages(bigblocks)) /\ BigPages(bigblocks) \subseteq Page
      /\ \A j \in DOMAIN bigblocks : BigRun(bigblocks[j]) \subseteq BigPages(bigblocks)
  BY <1>1, Parts
<1>3. \A j \in DOMAIN bigblocks :
        UnitsOf(BigRun(bigblocks[j])) = UNION {PageUnits(p) : p \in BigRun(bigblocks[j])}
  BY DEF UnitsOf, PageUnits
<1>4. \A p \in BigPages(bigblocks) : PageUnits(p) \cap Space(h) = {}
  BY <1>2, OutOfSpace
<1>5. UnitsOf(BigRun(bigblocks[i])) \cap Space(h) = {}
  BY <1>2, <1>3, <1>4
<1>6. ASSUME NEW j \in DOMAIN bigblocks, i # j
      PROVE  UnitsOf(BigRun(bigblocks[i])) \cap UnitsOf(BigRun(bigblocks[j])) = {}
  <2>1. BigRun(bigblocks[i]) \cap BigRun(bigblocks[j]) = {}
    BY <1>1, <1>6 DEF Good, BigBlocks
  <2>2. \A p \in BigRun(bigblocks[i]), q \in BigRun(bigblocks[j]) :
          PageUnits(p) \cap PageUnits(q) = {}
    <3>1. \A p \in BigRun(bigblocks[i]), q \in BigRun(bigblocks[j]) :
            p \in Page /\ q \in Page /\ p # q
      BY <1>2, <2>1
    <3> QED BY <3>1, PagesApart
  <2> QED BY <1>3, <2>2
<1> QED BY <1>5, <1>6

\* A good state is exact.
LEMMA GoodIsExact == KInv => HeapExact
<1> SUFFICES ASSUME KInv PROVE HeapExact
  OBVIOUS
<1> DEFINE s == bigblocks
           used == {Footprint(b) : b \in DOMAIN live}
           free == {FreeUnits(b) : b \in Blocks(h)}
           Bigs == {UnitsOf(BigRun(s[i])) \cup Chunk(h, s[i].bb) : i \in DOMAIN s}
           Smalls == {Chunk(h, x) : x \in Small(h, s)}
<1>1. Good(h, s, pages, live)
  BY DEF KInv
<1>2. /\ Slob(h) /\ Blocks(h) \subseteq Starts(h)
      /\ \A i \in DOMAIN s : s[i].bb \in Taken(h)
      /\ BigPages(s) \subseteq Page /\ pages \cap BigPages(s) = {}
      /\ HasPages(h, pages, BigPages(s))
  <2>1. Slob(h)
    BY <1>1, Parts
  <2>2. Blocks(h) \subseteq Starts(h)
    BY <2>1, HeapFields DEF Slob
  <2> QED BY <1>1, <2>2, Parts
<1>3. Taken(h) = Starts(h) \ Blocks(h) /\ Small(h, s) = Taken(h) \ {s[i].bb : i \in DOMAIN s}
  BY DEF Taken, Small, Descriptors
<1>4. \A i, j \in DOMAIN s : i # j => s[i].bb # s[j].bb
  BY <1>1 DEF Good, BigBlocks
<1>5. free = {Chunk(h, b) : b \in Blocks(h)}
  BY DEF FreeUnits, Chunk
<1>6. used = Bigs \cup Smalls
  <2>1. DOMAIN live = {s[i].page * UPP : i \in DOMAIN s} \cup {x + 1 : x \in Small(h, s)}
    BY <1>1 DEF Good, Live
  <2>2. ASSUME NEW b \in DOMAIN live PROVE Footprint(b) \in Bigs \cup Smalls
    <3>1. CASE \E i \in DOMAIN s : b = s[i].page * UPP /\ Big(b) = {i}
      BY <3>1, BigFootprint
    <3>2. CASE \E x \in Small(h, s) : b = x + 1 /\ b - 1 = x /\ Big(b) = {}
      BY <3>2, SmallFootprint
    <3> QED BY <3>1, <3>2, Kinds
  <2>3. \A i \in DOMAIN s : s[i].page * UPP \notin Space(h)
    BY <1>1, Parts
  <2>4. \A x \in Small(h, s) : x \in Nat /\ x + 1 \in Space(h) /\ (x + 1) - 1 = x
    BY <1>1, <1>3, Parts
  <2>5. ASSUME NEW i \in DOMAIN s
        PROVE  UnitsOf(BigRun(s[i])) \cup Chunk(h, s[i].bb) \in used
    <3> DEFINE b == s[i].page * UPP
    <3>1. b \in DOMAIN live
      BY <2>1
    <3>2. PICK j \in DOMAIN s : b = s[j].page * UPP /\ Big(b) = {j}
      <4>1. \A x \in Small(h, s) : b # x + 1
        BY <2>3, <2>4
      <4> HIDE DEF b
      <4> QED BY <3>1, <4>1, Kinds
    <3>3. i \in Big(b)
      <4>1. s[i].page \in Page
        BY <1>1, Parts
      <4>2. b % UPP = 0
        BY <4>1, FirstUnits
      <4> QED BY <4>2 DEF Big
    <3>4. Big(b) = {i}
      BY <3>2, <3>3
    <3>5. Footprint(b) = UnitsOf(BigRun(s[i])) \cup Chunk(h, s[i].bb)
      BY <3>4, BigFootprint
    <3> QED BY <3>1, <3>5
  <2>6. ASSUME NEW x \in Small(h, s) PROVE Chunk(h, x) \in used
    <3> DEFINE b == x + 1
    <3>1. b \in DOMAIN live /\ b \in Space(h)
      BY <2>1, <2>4
    <3>2. PICK y \in Small(h, s) : b = y + 1 /\ b - 1 = y /\ Big(b) = {}
      <4>1. \A i \in DOMAIN s : b # s[i].page * UPP
        BY <2>3, <3>1
      <4> HIDE DEF b
      <4> QED BY <3>1, <4>1, Kinds
    <3>3. b - 1 = x
      BY <2>4
    <3>4. Footprint(b) = Chunk(h, x)
      BY <3>2, <3>3, SmallFootprint
    <3> QED BY <3>1, <3>4
  <2> HIDE DEF used
  <2>7. used \subseteq Bigs \cup Smalls
    BY <2>2 DEF used
  <2> QED BY <2>5, <2>6, <2>7
<1> HIDE DEF used, free
<1>7. ListSound
  BY <1>2, Sound
<1>8. /\ \A x, y \in Starts(h) : x # y => Chunk(h, x) \cap Chunk(h, y) = {}
      /\ \A x \in Starts(h) : x \in Chunk(h, x) /\ Chunk(h, x) \subseteq Space(h)
  BY <1>2, ChunksApart
<1>9. /\ \A i \in DOMAIN s : UnitsOf(BigRun(s[i])) \cap Space(h) = {}
      /\ \A i, j \in DOMAIN s : i # j => UnitsOf(BigRun(s[i])) \cap UnitsOf(BigRun(s[j])) = {}
  BY BigOutside
\* Every set of units belongs to a block of the heap: its own units, and the pages
\* of the big block it describes.
<1> DEFINE Extra(x) == UNION {UnitsOf(BigRun(s[i])) : i \in {j \in DOMAIN s : s[j].bb = x}}
           All(x) == Extra(x) \cup Chunk(h, x)
<1>10. ASSUME NEW i \in DOMAIN s PROVE Extra(s[i].bb) = UnitsOf(BigRun(s[i]))
  <2>1. {j \in DOMAIN s : s[j].bb = s[i].bb} = {i}
    BY <1>4
  <2> QED BY <2>1
<1>11. ASSUME NEW x, x \notin {s[i].bb : i \in DOMAIN s} PROVE Extra(x) = {}
  BY <1>11
<1>12. ASSUME NEW x, NEW y, x # y PROVE Extra(x) \cap Extra(y) = {}
  BY <1>9, <1>12
<1>13. \A x : Extra(x) \cap Space(h) = {}
  BY <1>9
<1>14. UNION {Extra(x) : x \in Starts(h)} = UnitsOf(BigPages(s))
  <2>1. UnitsOf(BigPages(s)) = UNION {UnitsOf(BigRun(s[i])) : i \in DOMAIN s}
    BY DEF UnitsOf, BigPages
  <2>2. \A i \in DOMAIN s : s[i].bb \in Starts(h)
    BY <1>2, <1>3
  <2> QED BY <2>1, <2>2
<1>15. used = {All(x) : x \in Taken(h)}
  <2>1. Bigs = {All(s[i].bb) : i \in DOMAIN s}
    BY <1>10
  <2>2. Smalls = {All(x) : x \in Small(h, s)}
    <3>1. \A x \in Small(h, s) : Extra(x) = {}
      BY <1>3, <1>11
    <3> HIDE DEF Extra
    <3>2. \A x \in Small(h, s) : All(x) = Chunk(h, x)
      BY <3>1
    <3> HIDE DEF All
    <3> QED BY <3>2
  <2>3. Taken(h) = {s[i].bb : i \in DOMAIN s} \cup Small(h, s)
    BY <1>2, <1>3
  <2> HIDE DEF All, Bigs, Smalls
  <2> QED BY <1>6, <2>1, <2>2, <2>3
<1>16. free = {All(x) : x \in Blocks(h)}
  <2>1. \A x \in Blocks(h) : Extra(x) = {}
    BY <1>2, <1>3, <1>11
  <2> HIDE DEF Extra
  <2>2. \A x \in Blocks(h) : All(x) = Chunk(h, x)
    BY <2>1
  <2> HIDE DEF All
  <2> QED BY <1>5, <2>2
<1> HIDE DEF Extra
<1>17. \A x, y \in Starts(h) : x # y => All(x) \cap All(y) = {}
  <2>1. ASSUME NEW x \in Starts(h), NEW y \in Starts(h), x # y PROVE All(x) \cap All(y) = {}
    <3>1. Extra(x) \cap Extra(y) = {}
      BY <1>12, <2>1
    <3>2. Chunk(h, x) \cap Chunk(h, y) = {}
      BY <1>8, <2>1
    <3>3. Extra(x) \cap Chunk(h, y) = {} /\ Extra(y) \cap Chunk(h, x) = {}
      BY <1>8, <1>13
    <3> QED BY <3>1, <3>2, <3>3
  <2> QED BY <2>1
<1>18. \A x \in Starts(h) : x \in All(x)
  BY <1>8
<1>19. UNION {All(x) : x \in Starts(h)} = {arena} \cup UNION {p * UPP .. p * UPP + UPP - 1 :
                                                            p \in Page \ pages}
  <2>1. UNION {All(x) : x \in Starts(h)} = Space(h) \cup UnitsOf(BigPages(s))
    BY <1>14 DEF Space
  <2>2. UnitsOf(Page \ (pages \cup BigPages(s))) \cup UnitsOf(BigPages(s)) = UnitsOf(Page \ pages)
    <3>1. Page \ pages = (Page \ (pages \cup BigPages(s))) \cup BigPages(s)
      BY <1>2
    <3> QED BY <3>1 DEF UnitsOf
  <2>3. Space(h) = {arena} \cup UnitsOf(Page \ (pages \cup BigPages(s)))
    BY <1>2 DEF HasPages
  <2> QED BY <2>1, <2>2, <2>3 DEF UnitsOf
<1> HIDE DEF All
<1>20. used \cup free = {All(x) : x \in Starts(h)}
  <2>1. Starts(h) = Taken(h) \cup Blocks(h)
    BY <1>2, <1>3
  <2> QED BY <1>15, <1>16, <2>1
<1>21. \A x, y \in used \cup free : x = y \/ x \cap y = {}
  BY <1>17, <1>20
<1>22. used \cap free = {}
  <2> SUFFICES ASSUME NEW x \in Taken(h), NEW y \in Blocks(h), All(x) = All(y) PROVE FALSE
    BY <1>15, <1>16
  <2>1. x \in Starts(h) /\ y \in Starts(h) /\ x # y
    BY <1>2, <1>3
  <2>2. x \in All(x) /\ All(x) \cap All(y) = {}
    BY <1>17, <1>18, <2>1
  <2> QED BY <2>2
<1>23. UNION (used \cup free) = {arena} \cup UNION {p * UPP .. p * UPP + UPP - 1 : p \in Page \ pages}
  BY <1>19, <1>20
<1> QED BY <1>7, <1>21, <1>22, <1>23 DEF HeapExact, used, free

\* Blocks in a good state are large enough.
LEMMA GoodIsLarge == KInv => LargeEnough
<1> SUFFICES ASSUME KInv, NEW b \in DOMAIN live PROVE live[b] <= ksize(b) + Lacks(b)
  BY DEF LargeEnough
<1>1. Good(h, bigblocks, pages, live)
  BY DEF KInv
<1>2. CASE \E i \in DOMAIN bigblocks : b = bigblocks[i].page * UPP /\ Big(b) = {i}
  <2>1. PICK i \in DOMAIN bigblocks : b = bigblocks[i].page * UPP /\ Big(b) = {i}
    BY <1>2
  <2> DEFINE k == Pow2[bigblocks[i].order]
  <2>2. bigblocks[i].order \in Nat /\ i \in Nat
    BY <1>1, Parts
  <2>3. k \in Nat \ {0} /\ PAGE_SIZE \in Nat
    BY <2>2, Pow2Facts, PageSize
  <2>4. Min(Big(b)) = i
    <3>1. Big(b) \in SUBSET Nat /\ Big(b) # {}
      BY <2>1, <2>2
    <3> QED BY <2>1, <3>1, MinIs
  <2>5. live[b] \in Nat /\ live[b] < (PAGE_SIZE + 1) * k
    BY <1>1, <2>1 DEF Good, Live
  <2>6. ksize(b) = PAGE_SIZE * k /\ Lacks(b) = k - 1
    BY <2>1, <2>4 DEF ksize, Lacks
  <2> HIDE DEF k
  <2>7. (PAGE_SIZE + 1) * k = PAGE_SIZE * k + k /\ PAGE_SIZE * k \in Nat
    BY <2>3, SMTT(30)
  <2> QED BY <2>3, <2>5, <2>6, <2>7
<1>3. CASE \E x \in Small(h, bigblocks) : b = x + 1 /\ b - 1 = x /\ Big(b) = {}
  <2>1. PICK x \in Small(h, bigblocks) : b = x + 1 /\ b - 1 = x /\ Big(b) = {}
    BY <1>3
  <2>2. live[b] \in Nat /\ live[b] + SLOB_UNIT <= h.units[x] * SLOB_UNIT
    BY <1>1, <2>1 DEF Good, Live
  <2>3. ksize(b) = h.units[x] * SLOB_UNIT /\ Lacks(b) = 0 - SLOB_UNIT
    BY <2>1 DEF ksize, Lacks
  <2>4. h.units[x] * SLOB_UNIT \in Nat /\ SLOB_UNIT \in Nat
    <3>1. Slob(h) /\ x \in Starts(h)
      BY <1>1 DEF Good, Small, Taken
    <3>2. h.units[x] \in Nat
      BY <3>1, HeapFields DEF Slob
    <3> QED BY <3>2, Numbers, SMTT(30)
  <2> QED BY <2>2, <2>3, <2>4
<1> QED BY <1>2, <1>3, Kinds

\* No unit is handed out twice or lost, and slob_free joins both neighbours, for
\* every number of pages, unit and page size, set of sizes and order of the calls.
THEOREM HeapCorrect == Spec => []HeapExact
<1> QED BY HeapInvariant, GoodIsExact, PTL

\* A block has room for what was asked for, but for the bytes find_order loses.
THEOREM LargeCorrect == Spec => []LargeEnough
<1> QED BY HeapInvariant, GoodIsLarge, PTL
===============================================================================
