------------------------------ MODULE PmmProofs -------------------------------
(***************************************************************************)
(* Proofs about DefaultPmm: between calls the list of free blocks is       *)
(* sorted, linked both ways and merged as long as the topmost page stays   *)
(* free; for the clients that do so, and for those that take single pages  *)
(* and free in ascending order, no page is handed out twice and the        *)
(* allocator is first fit over a set of pages.                             *)
(***************************************************************************)
EXTENDS DefaultPmm, FiniteSetTheorems, TLAPS

\* x is the entry of the list of S that comes after q.
Follows(S, q, x) ==
    /\ x \in S \cup {free_list}
    /\ x # free_list => q < x
    /\ \A r \in S : q < r => x # free_list /\ x <= r

\* nx goes through S in ascending order.
Ascends(nx, S) == \A q \in S \cup {free_list} : Follows(S, q, nx[q])

\* pv goes through S the other way.
Mirrors(nx, pv, S) == \A q \in S \cup {free_list} :
    /\ pv[nx[q]] = q
    /\ pv[q] \in S \cup {free_list} /\ nx[pv[q]] = q

\* The blocks at S, of the sizes prop, make up the pages F.
Covers(prop, S, F) ==
    /\ \A b \in S : prop[b] >= 1 /\ Run(b, prop[b]) \subseteq F
    /\ \A x \in F : \E b \in S : x \in Run(b, prop[b])
    /\ \A b, c \in S : b < c => b + prop[b] <= c

\* Blocks that touch are the one at b and a neighbour of it.
Apart(prop, S, b) == \A c, d \in S : c < d /\ c + prop[c] = d => b \in {c, d}

Types ==
    /\ next \in [Node -> Node]
    /\ prev \in [Node -> Node]
    /\ property \in [Page -> 0 .. NPage]
    /\ pg \subseteq Page
    /\ pc \in {"idle", "alloc", "free", "merge"}
    /\ le \in Node
    /\ base \in Page
    /\ n \in 1 .. NPage
    /\ held \subseteq Page
    /\ ret \in Page \cup {NULL}
    /\ clients \in {"keep_top", "ascending"}

\* The list holds every block but the one that the loop of free_pages is still
\* finding a place for.
Listed == IF pc = "free" /\ le \notin {base, free_list} THEN pg \ {base} ELSE pg

List ==
    /\ Ascends(next, Listed)
    /\ prev[next[free_list]] = free_list
    /\ Covers(property, pg, free)
    /\ nr_free = Cardinality(free)

\* The loop of alloc_pages has passed the blocks that are too small.
Allocating == pc = "alloc" =>
    /\ le \in pg \cup {free_list}
    /\ MayAlloc(n)
    /\ \A b \in pg : le = free_list \/ b < le => property[b] < n

\* The loop of free_pages, and the merge, when the topmost page stays free: the
\* block goes somewhere below the last one, and the loop has passed no block
\* above it.
KeepTop == clients = "keep_top" =>
    /\ Top \in free
    /\ Mirrors(next, prev, Listed)
    /\ pc \in {"idle", "alloc"} => \A c, d \in pg : c < d => c + property[c] < d
    /\ pc \in {"free", "merge"} => base \in pg /\ Apart(property, pg, base)
    /\ pc = "free" =>
         /\ base + property[base] <= Top
         /\ le \in pg \ {base}
         /\ \A b \in pg \ {base} : b < le => b < base

\* The same when pages are freed in ascending order: the block goes behind the
\* last one, twice, which leaves it its own predecessor.
Ascending == clients = "ascending" =>
    /\ pc = "alloc" => n = 1 /\ le = next[free_list]
    /\ pc \in {"free", "merge"} => base \in pg /\ \A b \in pg : b <= base
    /\ pc = "free" =>
         /\ le \in pg \cup {free_list}
         /\ next[free_list] \notin {base, free_list}
         /\ le = free_list => prev[base] = base
    /\ pc = "merge" => prev[base] \in {base, free_list}

Good == Types /\ List /\ Allocating /\ KeepTop /\ Ascending

PInv == clients # "any" => Good

----------------------------------------------------------------------------
(***************************************************************************)
(* The list.                                                               *)
(***************************************************************************)

\* The list head is below every page (default_pmm.c works on addresses; the model
\* numbers the pages).
LEMMA Numbers ==
    /\ NPage \in Nat /\ NPage > 0
    /\ free_list = -1 /\ free_list \notin Page /\ Node = Page \cup {free_list}
    /\ \A q \in Page : q \in Nat /\ q < NPage
    /\ \A q \in Nat : q < NPage => q \in Page
    /\ \A q \in Node : q \in Int /\ (q # free_list => free_list < q)
BY PmmAssumption DEF Page, Node, free_list

\* __list_add (list.h) between two neighbours keeps the list ascending, when the
\* new block's address is between theirs.
LEMMA AscendsAdd ==
    ASSUME NEW S \in SUBSET Page, NEW nx \in [Node -> Node], Ascends(nx, S),
           NEW elm \in Page \ S, NEW p \in S \cup {free_list}, p < elm,
           nx[p] = free_list \/ elm < nx[p]
    PROVE  /\ AddNext(nx, elm, p, nx[p]) \in [Node -> Node]
           /\ Ascends(AddNext(nx, elm, p, nx[p]), S \cup {elm})
<1> DEFINE x == nx[p]
           new == AddNext(nx, elm, p, x)
<1>1. /\ elm \in Node /\ p \in Node /\ x \in Node /\ elm # p /\ elm # free_list
      /\ S \cup {free_list} \subseteq Node
  BY Numbers
<1>2. /\ new \in [Node -> Node] /\ new[p] = elm /\ new[elm] = x
      /\ \A q \in Node \ {p, elm} : new[q] = nx[q]
  BY <1>1 DEF AddNext
<1>3. Follows(S, p, x)
  BY DEF Ascends
<1>4. Follows(S \cup {elm}, p, elm)
  BY <1>1, <1>3, Numbers DEF Follows
<1>5. Follows(S \cup {elm}, elm, x)
  BY <1>1, <1>3, Numbers DEF Follows
<1>6. ASSUME NEW q \in (S \cup {free_list}) \ {p} PROVE Follows(S \cup {elm}, q, new[q])
  <2>1. /\ q \in Node \ {p, elm} /\ new[q] = nx[q] /\ Follows(S, q, nx[q])
    BY <1>1, <1>2 DEF Ascends
  <2>2. CASE q < p
    BY <2>1, <2>2, <1>1, Numbers DEF Follows
  <2>3. CASE p < q
    BY <2>1, <2>3, <1>1, <1>3, Numbers DEF Follows
  <2> QED  BY <2>1, <2>2, <2>3, <1>1, Numbers
<1>7. ASSUME NEW q \in (S \cup {elm}) \cup {free_list} PROVE Follows(S \cup {elm}, q, new[q])
  BY <1>2, <1>4, <1>5, <1>6
<1> QED  BY <1>2, <1>7 DEF Ascends

\* It also keeps the way back.
LEMMA MirrorsAdd ==
    ASSUME NEW S \in SUBSET Page, NEW nx \in [Node -> Node], NEW pv \in [Node -> Node],
           Ascends(nx, S), Mirrors(nx, pv, S),
           NEW elm \in Page \ S, NEW p \in S \cup {free_list}
    PROVE  /\ AddPrev(pv, elm, p, nx[p]) \in [Node -> Node]
           /\ Mirrors(AddNext(nx, elm, p, nx[p]), AddPrev(pv, elm, p, nx[p]), S \cup {elm})
<1> DEFINE x == nx[p]
           new == AddNext(nx, elm, p, x)
           back == AddPrev(pv, elm, p, x)
<1>1. /\ elm \in Node /\ p \in Node /\ x \in S \cup {free_list} /\ x \in Node
      /\ elm # p /\ elm # x /\ elm \notin S \cup {free_list}
      /\ S \cup {free_list} \subseteq Node
  BY Numbers DEF Ascends, Follows
<1>2. /\ new[p] = elm /\ new[elm] = x /\ \A q \in Node \ {p, elm} : new[q] = nx[q]
  BY <1>1 DEF AddNext
<1>3. /\ back \in [Node -> Node] /\ back[x] = elm /\ back[elm] = p
      /\ \A q \in Node \ {x, elm} : back[q] = pv[q]
  BY <1>1 DEF AddPrev
<1>4. ASSUME NEW q \in (S \cup {free_list}) \ {p} PROVE back[new[q]] = q
  <2>1. /\ q \in Node \ {p, elm} /\ new[q] = nx[q] /\ pv[nx[q]] = q /\ pv[x] = p
    BY <1>1, <1>2 DEF Mirrors
  <2>2. nx[q] \in S \cup {free_list}
    BY DEF Ascends, Follows
  <2>3. nx[q] # x /\ nx[q] \in Node \ {x, elm}
    BY <2>1, <2>2, <1>1
  <2> QED  BY <2>1, <2>3, <1>3
<1>5. ASSUME NEW q \in (S \cup {free_list}) \ {x}
      PROVE  back[q] \in S \cup {free_list} /\ new[back[q]] = q
  <2>1. /\ q \in Node \ {x, elm} /\ back[q] = pv[q]
        /\ pv[q] \in S \cup {free_list} /\ nx[pv[q]] = q
    BY <1>1, <1>3 DEF Mirrors
  <2>2. pv[q] # p /\ pv[q] # elm /\ pv[q] \in Node
    BY <2>1, <1>1
  <2> QED  BY <2>1, <2>2, <1>2
<1>6. back[new[p]] = p /\ back[new[elm]] = elm
  BY <1>2, <1>3
<1>7. back[x] = elm /\ new[elm] = x /\ back[elm] = p /\ new[p] = elm
  BY <1>2, <1>3
<1>8. ASSUME NEW q \in (S \cup {elm}) \cup {free_list}
      PROVE  /\ back[new[q]] = q
             /\ back[q] \in (S \cup {elm}) \cup {free_list} /\ new[back[q]] = q
  BY <1>4, <1>5, <1>6, <1>7
<1> QED  BY <1>3, <1>8 DEF Mirrors

\* __list_del (list.h) of a block keeps the list ascending, when it is given the
\* block's neighbours.
LEMMA AscendsDel ==
    ASSUME NEW S \in SUBSET Page, NEW nx \in [Node -> Node], Ascends(nx, S),
           NEW y \in S, NEW p \in S \cup {free_list}, nx[p] = y
    PROVE  /\ DelNext(nx, p, nx[y]) \in [Node -> Node]
           /\ Ascends(DelNext(nx, p, nx[y]), S \ {y})
<1> DEFINE x == nx[y]
           new == DelNext(nx, p, x)
<1>1. /\ y \in Node /\ y # free_list /\ p \in Node /\ x \in Node
      /\ S \cup {free_list} \subseteq Node
  BY Numbers
<1>2. /\ new \in [Node -> Node] /\ new[p] = x /\ \A q \in Node \ {p} : new[q] = nx[q]
  BY <1>1 DEF DelNext
<1>3. Follows(S, p, y) /\ Follows(S, y, x)
  BY DEF Ascends
<1>4. p < y /\ x # y
  BY <1>1, <1>3, Numbers DEF Follows
<1>5. Follows(S \ {y}, p, x)
  BY <1>1, <1>3, <1>4, Numbers DEF Follows
<1>6. ASSUME NEW q \in ((S \ {y}) \cup {free_list}) \ {p} PROVE Follows(S \ {y}, q, new[q])
  <2>1. q \in Node /\ new[q] = nx[q] /\ Follows(S, q, nx[q])
    BY <1>1, <1>2 DEF Ascends
  <2>2. nx[q] # y
    <3>1. CASE q < p
      BY <3>1, <2>1, <1>1, <1>4, Numbers DEF Follows
    <3>2. CASE p < q
      BY <3>2, <2>1, <1>1, <1>3, <1>4, Numbers DEF Follows
    <3> QED  BY <3>1, <3>2, <2>1, <1>1, Numbers
  <2> QED  BY <2>1, <2>2 DEF Follows
<1>7. ASSUME NEW q \in (S \ {y}) \cup {free_list} PROVE Follows(S \ {y}, q, new[q])
  BY <1>2, <1>5, <1>6
<1> QED  BY <1>2, <1>7 DEF Ascends

\* list_del keeps the list and its mirror.
LEMMA MirrorsDel ==
    ASSUME NEW S \in SUBSET Page, NEW nx \in [Node -> Node], NEW pv \in [Node -> Node],
           Ascends(nx, S), Mirrors(nx, pv, S), NEW y \in S, NEW p, p = pv[y]
    PROVE  /\ p \in S \cup {free_list} /\ nx[p] = y
           /\ DelPrev(pv, p, nx[y]) \in [Node -> Node]
           /\ Mirrors(DelNext(nx, p, nx[y]), DelPrev(pv, p, nx[y]), S \ {y})
<1> DEFINE x == nx[y]
           new == DelNext(nx, p, x)
           back == DelPrev(pv, p, x)
<1>0. p \in S \cup {free_list} /\ nx[p] = y
  BY DEF Mirrors
<1>1. /\ y \in Node /\ y # free_list /\ p \in Node /\ x \in S \cup {free_list} /\ x \in Node
      /\ S \cup {free_list} \subseteq Node
  BY <1>0, Numbers DEF Ascends, Follows
<1>2. /\ new[p] = x /\ \A q \in Node \ {p} : new[q] = nx[q]
  BY <1>1 DEF DelNext
<1>3. /\ back \in [Node -> Node] /\ back[x] = p /\ \A q \in Node \ {x} : back[q] = pv[q]
  BY <1>1 DEF DelPrev
<1>4. Follows(S, p, y) /\ Follows(S, y, x)
  BY <1>0 DEF Ascends
<1>5. p # y /\ x # y
  BY <1>1, <1>4, Numbers DEF Follows
<1>6. ASSUME NEW q \in ((S \ {y}) \cup {free_list}) \ {p} PROVE back[new[q]] = q
  <2>1. q \in Node /\ new[q] = nx[q] /\ pv[nx[q]] = q /\ pv[x] = y
    BY <1>1, <1>2 DEF Mirrors
  <2>2. nx[q] # x /\ nx[q] \in Node
    BY <2>1, <1>1
  <2> QED  BY <2>1, <2>2, <1>3
<1>7. ASSUME NEW q \in ((S \ {y}) \cup {free_list}) \ {x}
      PROVE  back[q] \in (S \ {y}) \cup {free_list} /\ new[back[q]] = q
  <2>1. /\ q \in Node /\ back[q] = pv[q] /\ pv[q] \in S \cup {free_list} /\ nx[pv[q]] = q
    BY <1>1, <1>3 DEF Mirrors
  <2>2. pv[q] # y /\ pv[q] # p /\ pv[q] \in Node
    BY <2>1, <1>0, <1>1
  <2> QED  BY <2>1, <2>2, <1>2
<1>8. ASSUME NEW q \in (S \ {y}) \cup {free_list}
      PROVE  /\ back[new[q]] = q
             /\ back[q] \in (S \ {y}) \cup {free_list} /\ new[back[q]] = q
  BY <1>0, <1>1, <1>2, <1>3, <1>5, <1>6, <1>7
<1> QED  BY <1>0, <1>3, <1>8 DEF Mirrors
----------------------------------------------------------------------------
(***************************************************************************)
(* The blocks.                                                             *)
(***************************************************************************)

\* prop gives the pages S a size and they make up F.
Sizes(prop, S, F) ==
    /\ prop \in [Page -> 0 .. NPage]
    /\ S \in SUBSET Page /\ F \in SUBSET Page
    /\ Covers(prop, S, F)

\* What a block reaches, in numbers.
LEMMA BlockFacts ==
    ASSUME NEW prop, NEW S, NEW F, Sizes(prop, S, F), NEW b \in S
    PROVE  /\ b \in Nat /\ b \in Page /\ b < NPage
           /\ prop[b] \in Nat /\ prop[b] >= 1 /\ b + prop[b] <= NPage
           /\ Run(b, prop[b]) \subseteq F /\ b \in F
<1>1. b \in Page /\ b \in Nat /\ b < NPage /\ prop[b] \in 0 .. NPage /\ prop[b] >= 1
      /\ Run(b, prop[b]) \subseteq F /\ F \subseteq Page
  BY Numbers DEF Sizes, Covers
<1>2. b + prop[b] - 1 \in Run(b, prop[b]) /\ b \in Run(b, prop[b])
  BY <1>1 DEF Run
<1>3. b + prop[b] - 1 < NPage
  BY <1>1, <1>2, Numbers
<1> QED  BY <1>1, <1>2, <1>3, Numbers

\* default_alloc_pages: the whole of a block goes.
LEMMA CoversTakeAll ==
    ASSUME NEW prop, NEW S, NEW F, Sizes(prop, S, F), NEW b \in S
    PROVE  Sizes(prop, S \ {b}, F \ Run(b, prop[b]))
<1>1. \A c \in S : c \in Nat /\ prop[c] \in Nat /\ prop[c] >= 1 /\ Run(c, prop[c]) \subseteq F
  BY BlockFacts
<1>2. \A c, d \in S : c < d => c + prop[c] <= d
  BY DEF Sizes, Covers
<1>3. ASSUME NEW c \in S \ {b}
      PROVE  prop[c] >= 1 /\ Run(c, prop[c]) \subseteq F \ Run(b, prop[b])
  <2>1. c < b \/ b < c
    BY <1>1
  <2>2. c + prop[c] <= b \/ b + prop[b] <= c
    BY <1>2, <2>1
  <2> QED  BY <1>1, <2>2 DEF Run
<1>4. ASSUME NEW x \in F \ Run(b, prop[b]) PROVE \E c \in S \ {b} : x \in Run(c, prop[c])
  BY DEF Sizes, Covers
<1> QED  BY <1>2, <1>3, <1>4 DEF Sizes, Covers

\* default_alloc_pages: the lower part of a block goes, the rest becomes a block.
LEMMA CoversSplit ==
    ASSUME NEW prop, NEW S, NEW F, Sizes(prop, S, F), NEW b \in S,
           NEW k \in Nat, 1 <= k, k < prop[b]
    PROVE  /\ b + k \in Page \ S
           /\ Sizes([prop EXCEPT ![b + k] = prop[b] - k], (S \cup {b + k}) \ {b}, F \ Run(b, k))
<1> DEFINE rest == b + k
           new == [prop EXCEPT ![rest] = prop[b] - k]
           T == (S \cup {rest}) \ {b}
<1>1. \A c \in S : c \in Nat /\ c \in Page /\ prop[c] \in Nat /\ prop[c] >= 1
                   /\ Run(c, prop[c]) \subseteq F
  BY BlockFacts
<1>2. \A c, d \in S : c < d => c + prop[c] <= d
  BY DEF Sizes, Covers
<1>3. prop \in [Page -> 0 .. NPage] /\ F \subseteq Page /\ S \subseteq Page
  BY DEF Sizes
<1>4. rest \in Nat /\ rest \in Page /\ b < rest
  <2>1. rest \in Nat /\ b < rest /\ b + prop[b] <= NPage
    BY <1>1, BlockFacts
  <2> QED  BY <2>1, <1>1, Numbers
<1>5. rest \notin S
  BY <1>1, <1>2, <1>4
<1>6. /\ new \in [Page -> 0 .. NPage] /\ new[rest] = prop[b] - k
      /\ \A c \in S : new[c] = prop[c]
  <2>1. prop[b] - k \in 0 .. NPage
    <3>1. b + prop[b] <= NPage
      BY BlockFacts
    <3> QED  BY <3>1, <1>1, Numbers
  <2> QED  BY <2>1, <1>3, <1>4, <1>5
<1>7. ASSUME NEW c \in T PROVE new[c] >= 1 /\ Run(c, new[c]) \subseteq F \ Run(b, k)
  <2>1. CASE c = rest
    <3>1. Run(rest, prop[b] - k) \subseteq Run(b, prop[b]) /\ Run(b, prop[b]) \subseteq F
      BY <1>1 DEF Run
    <3>2. Run(rest, prop[b] - k) \cap Run(b, k) = {} /\ prop[b] - k >= 1
      BY <1>1 DEF Run
    <3> QED  BY <2>1, <3>1, <3>2, <1>6
  <2>2. CASE c \in S \ {b}
    <3>1. c < b \/ b < c
      BY <2>2, <1>1
    <3>2. c + prop[c] <= b \/ b + prop[b] <= c
      BY <2>2, <1>2, <3>1
    <3>3. Run(c, prop[c]) \cap Run(b, k) = {}
      BY <2>2, <3>2, <1>1 DEF Run
    <3> QED  BY <2>2, <3>3, <1>1, <1>6
  <2> QED  BY <2>1, <2>2
<1>8. ASSUME NEW x \in F \ Run(b, k) PROVE \E c \in T : x \in Run(c, new[c])
  <2>1. PICK c \in S : x \in Run(c, prop[c])
    BY DEF Sizes, Covers
  <2>2. CASE c = b
    <3>1. x \in Run(rest, prop[b] - k)
      BY <2>1, <2>2, <1>1 DEF Run
    <3> QED  BY <3>1, <1>4, <1>6, <1>1
  <2>3. CASE c # b
    BY <2>1, <2>3, <1>6
  <2> QED  BY <2>2, <2>3
<1>9. ASSUME NEW c \in T, NEW d \in T, c < d PROVE c + new[c] <= d
  <2>1. CASE c = rest
    <3>1. d \in S \ {b} /\ b < d
      BY <2>1, <1>9, <1>1, <1>4
    <3>2. b + prop[b] <= d
      BY <3>1, <1>2
    <3> QED  BY <2>1, <3>2, <1>1, <1>6
  <2>2. CASE c \in S \ {b} /\ d = rest
    <3>1. ~(b < c)
      BY <2>2, <1>9, <1>1, <1>2
    <3>2. c < b
      BY <2>2, <3>1, <1>1
    <3> QED  BY <2>2, <3>2, <1>1, <1>2, <1>4, <1>6
  <2>3. CASE c \in S \ {b} /\ d \in S \ {b}
    BY <2>3, <1>9, <1>2, <1>6
  <2> QED  BY <2>1, <2>2, <2>3
<1>10. T \in SUBSET Page /\ F \ Run(b, k) \in SUBSET Page
  BY <1>3, <1>4
<1> HIDE DEF new, T
<1>11. Sizes(new, T, F \ Run(b, k))
  BY <1>6, <1>7, <1>8, <1>9, <1>10 DEF Sizes, Covers
<1> QED  BY <1>4, <1>5, <1>11 DEF new, T

\* default_free_pages: a run that clients held becomes a block.
LEMMA CoversGive ==
    ASSUME NEW prop, NEW S, NEW F, Sizes(prop, S, F), NEW b \in Page, NEW k \in 1 .. NPage,
           Run(b, k) \subseteq Page \ F
    PROVE  /\ b \notin S /\ S \cap Run(b, k) = {} /\ b + k <= NPage
           /\ Sizes([prop EXCEPT ![b] = k], S \cup {b}, F \cup Run(b, k))
<1> DEFINE new == [prop EXCEPT ![b] = k]
<1>1. \A c \in S : c \in Nat /\ c \in Page /\ prop[c] \in Nat /\ prop[c] >= 1
                   /\ Run(c, prop[c]) \subseteq F /\ c \in F
  BY BlockFacts
<1>2. \A c, d \in S : c < d => c + prop[c] <= d
  BY DEF Sizes, Covers
<1>3. prop \in [Page -> 0 .. NPage] /\ F \subseteq Page /\ S \subseteq Page
  BY DEF Sizes
<1>4. b \in Nat /\ k \in Nat /\ k >= 1 /\ b \in Run(b, k) /\ b + k <= NPage
  <2>1. b \in Nat /\ k \in Nat /\ k >= 1
    BY Numbers
  <2>2. b \in Run(b, k) /\ b + k - 1 \in Run(b, k)
    BY <2>1 DEF Run
  <2>3. b + k - 1 < NPage
    BY <2>2, Numbers
  <2> QED  BY <2>1, <2>2, <2>3, Numbers
<1>5. b \notin S /\ S \cap Run(b, k) = {}
  BY <1>1, <1>4
<1>6. /\ new \in [Page -> 0 .. NPage] /\ new[b] = k /\ \A c \in S : new[c] = prop[c]
  BY <1>3, <1>4, <1>5, Numbers
<1>7. ASSUME NEW c \in S \cup {b} PROVE new[c] >= 1 /\ Run(c, new[c]) \subseteq F \cup Run(b, k)
  BY <1>1, <1>4, <1>6
<1>8. ASSUME NEW x \in F \cup Run(b, k) PROVE \E c \in S \cup {b} : x \in Run(c, new[c])
  <2>1. CASE x \in Run(b, k)
    BY <2>1, <1>6
  <2>2. CASE x \in F
    <3>1. PICK c \in S : x \in Run(c, prop[c])
      BY <2>2 DEF Sizes, Covers
    <3> QED  BY <3>1, <1>6
  <2> QED  BY <2>1, <2>2
<1>9. ASSUME NEW c \in S \cup {b}, NEW d \in S \cup {b}, c < d PROVE c + new[c] <= d
  <2>1. CASE c \in S /\ d \in S
    BY <2>1, <1>9, <1>2, <1>6
  <2>2. CASE c \in S /\ d = b
    <3>1. b \notin Run(c, prop[c])
      BY <2>2, <1>1, <1>4
    <3> QED  BY <2>2, <3>1, <1>1, <1>4, <1>6, <1>9 DEF Run
  <2>3. CASE c = b /\ d \in S
    <3>1. d \notin Run(b, k)
      BY <2>3, <1>5
    <3> QED  BY <2>3, <3>1, <1>1, <1>4, <1>6, <1>9 DEF Run
  <2>4. CASE c = b /\ d = b
    BY <2>4, <1>4, <1>9
  <2> QED  BY <2>1, <2>2, <2>3, <2>4
<1>10. S \cup {b} \in SUBSET Page /\ F \cup Run(b, k) \in SUBSET Page
  BY <1>3
<1> HIDE DEF new
<1>11. Sizes(new, S \cup {b}, F \cup Run(b, k))
  BY <1>6, <1>7, <1>8, <1>9, <1>10 DEF Sizes, Covers
<1> QED  BY <1>4, <1>5, <1>11 DEF new

\* The merge: a block and the one that it touches become one.
LEMMA CoversJoin ==
    ASSUME NEW prop, NEW S, NEW F, Sizes(prop, S, F), NEW p \in S, NEW x \in S,
           p + prop[p] = x
    PROVE  Sizes([prop EXCEPT ![p] = @ + prop[x]], S \ {x}, F)
<1> DEFINE new == [prop EXCEPT ![p] = @ + prop[x]]
           T == S \ {x}
<1>1. \A c \in S : c \in Nat /\ c \in Page /\ prop[c] \in Nat /\ prop[c] >= 1
                   /\ Run(c, prop[c]) \subseteq F /\ c + prop[c] <= NPage
  BY BlockFacts
<1>2. \A c, d \in S : c < d => c + prop[c] <= d
  BY DEF Sizes, Covers
<1>3. prop \in [Page -> 0 .. NPage] /\ F \subseteq Page /\ S \subseteq Page
  BY DEF Sizes
<1>4. p < x
  BY <1>1
<1>5. /\ new \in [Page -> 0 .. NPage] /\ new[p] = prop[p] + prop[x]
      /\ \A c \in S \ {p} : new[c] = prop[c]
  <2>1. prop[p] + prop[x] \in 0 .. NPage
    BY <1>1, Numbers
  <2> QED  BY <2>1, <1>1, <1>3
<1>6. Run(p, new[p]) = Run(p, prop[p]) \cup Run(x, prop[x])
  BY <1>1, <1>5 DEF Run
<1>7. ASSUME NEW c \in T PROVE new[c] >= 1 /\ Run(c, new[c]) \subseteq F
  <2>1. CASE c = p
    BY <2>1, <1>1, <1>5, <1>6
  <2>2. CASE c # p
    BY <2>2, <1>1, <1>5
  <2> QED  BY <2>1, <2>2
<1>8. ASSUME NEW y \in F PROVE \E c \in T : y \in Run(c, new[c])
  <2>1. PICK c \in S : y \in Run(c, prop[c])
    BY DEF Sizes, Covers
  <2>2. CASE c \in {p, x}
    BY <2>1, <2>2, <1>1, <1>4, <1>6
  <2>3. CASE c \notin {p, x}
    BY <2>1, <2>3, <1>5
  <2> QED  BY <2>2, <2>3
<1>9. ASSUME NEW c \in T, NEW d \in T, c < d PROVE c + new[c] <= d
  <2>1. CASE c = p
    <3>1. x <= d /\ x # d
      BY <2>1, <1>9, <1>1, <1>2
    <3>2. x < d
      BY <3>1, <1>1
    <3>3. x + prop[x] <= d
      BY <3>2, <1>2
    <3> QED  BY <2>1, <3>3, <1>1, <1>5
  <2>2. CASE c # p
    BY <2>2, <1>9, <1>2, <1>5
  <2> QED  BY <2>1, <2>2
<1>10. T \in SUBSET Page /\ F \in SUBSET Page
  BY <1>3
<1> HIDE DEF new, T
<1>11. Sizes(new, T, F)
  BY <1>5, <1>7, <1>8, <1>9, <1>10 DEF Sizes, Covers
<1> QED  BY <1>11 DEF new, T

\* A run of free pages lies in one block, when no two blocks touch.
LEMMA OneBlock ==
    ASSUME NEW prop, NEW S, NEW F, Sizes(prop, S, F),
           \A c, d \in S : c < d => c + prop[c] < d,
           NEW c \in Page, NEW k \in 1 .. NPage, Run(c, k) \subseteq F
    PROVE  \E b \in S : b <= c /\ c + k <= b + prop[b]
<1>1. \A b \in S : b \in Nat /\ prop[b] \in Nat /\ prop[b] >= 1
  BY BlockFacts
<1>2. c \in Nat /\ k \in Nat /\ k >= 1 /\ c \in Run(c, k)
  <2>1. c \in Nat /\ k \in Nat /\ k >= 1
    BY Numbers
  <2> QED  BY <2>1 DEF Run
<1>3. PICK b \in S : c \in Run(b, prop[b])
  BY <1>2 DEF Sizes, Covers
<1>4. b <= c /\ c < b + prop[b]
  BY <1>1, <1>2, <1>3 DEF Run
<1>5. ASSUME b + prop[b] < c + k PROVE FALSE
  <2>1. b + prop[b] \in Run(c, k)
    BY <1>1, <1>2, <1>4, <1>5 DEF Run
  <2>2. PICK d \in S : b + prop[b] \in Run(d, prop[d])
    BY <2>1 DEF Sizes, Covers
  <2>3. d <= b + prop[b] /\ b + prop[b] < d + prop[d]
    BY <2>2, <1>1 DEF Run
  <2>4. CASE d < b
    BY <2>3, <2>4, <1>1
  <2>5. CASE b < d
    BY <2>3, <2>5, <1>1
  <2>6. CASE d = b
    BY <2>3, <2>6, <1>1
  <2> QED  BY <2>4, <2>5, <2>6, <1>1
<1> QED  BY <1>1, <1>2, <1>4, <1>5

\* nr_free is a count: n pages more, n pages less.
LEMMA Counts ==
    ASSUME NEW F \in SUBSET Page, NEW b \in Page, NEW k \in 1 .. NPage
    PROVE  /\ Cardinality(F) \in 0 .. NPage
           /\ Run(b, k) \subseteq F =>
                Cardinality(F \ Run(b, k)) = Cardinality(F) - k /\ k <= Cardinality(F)
           /\ Run(b, k) \subseteq Page \ F =>
                Cardinality(F \cup Run(b, k)) = Cardinality(F) + k
<1>1. b \in Int /\ k \in Nat /\ k >= 1 /\ 0 \in Int /\ NPage - 1 \in Int
  BY Numbers
<1>2. IsFiniteSet(Page) /\ Cardinality(Page) = NPage
  BY <1>1, FS_Interval, Numbers DEF Page
<1>3. IsFiniteSet(F) /\ Cardinality(F) <= NPage
  BY <1>2, FS_Subset
<1>4. Cardinality(F) \in Nat
  BY <1>3, FS_CardinalityType
<1>5. IsFiniteSet(Run(b, k)) /\ Cardinality(Run(b, k)) = k
  <2>1. b + k - 1 \in Int /\ ~(b > b + k - 1) /\ (b + k - 1) - b + 1 = k
    BY <1>1
  <2> DEFINE e == b + k - 1
  <2>2. e \in Int /\ ~(b > e) /\ e - b + 1 = k /\ b \in Int
    BY <2>1, <1>1
  <2> HIDE DEF e
  <2>3. IsFiniteSet(b .. e) /\ Cardinality(b .. e) = k
    BY <2>2, FS_Interval
  <2> QED  BY <2>3 DEF e, Run
<1>6. ASSUME Run(b, k) \subseteq F
      PROVE  Cardinality(F \ Run(b, k)) = Cardinality(F) - k /\ k <= Cardinality(F)
  <2>1. F \cap Run(b, k) = Run(b, k)
    BY <1>6
  <2>2. Cardinality(F \ Run(b, k)) = Cardinality(F) - Cardinality(F \cap Run(b, k))
    BY <1>3, FS_Difference
  <2>3. Cardinality(Run(b, k)) <= Cardinality(F)
    BY <1>3, <1>6, FS_Subset
  <2> QED  BY <2>1, <2>2, <2>3, <1>5
<1>7. ASSUME Run(b, k) \subseteq Page \ F
      PROVE  Cardinality(F \cup Run(b, k)) = Cardinality(F) + k
  <2>1. F \cap Run(b, k) = {}
    BY <1>7
  <2>2. Cardinality(F \cup Run(b, k)) =
          Cardinality(F) + Cardinality(Run(b, k)) - Cardinality(F \cap Run(b, k))
    BY <1>3, <1>5, FS_Union
  <2>3. Cardinality(F \cap Run(b, k)) = 0
    BY <2>1, FS_EmptySet
  <2> QED  BY <2>2, <2>3, <1>4, <1>5
<1> QED  BY <1>3, <1>4, <1>6, <1>7, Numbers
----------------------------------------------------------------------------
(***************************************************************************)
(* The invariant, action by action.                                        *)
(***************************************************************************)

\* The blocks of a state in numbers, and where the list is complete.
LEMMA StateFacts ==
    ASSUME Types, List
    PROVE  /\ Sizes(property, pg, free)
           /\ Listed \in SUBSET Page /\ Listed \subseteq pg
           /\ pc # "free" => Listed = pg
           /\ nr_free \in 0 .. NPage
<1>1. free \in SUBSET Page
  BY DEF free
<1>2. Cardinality(free) \in 0 .. NPage
  <2>1. 0 \in Page /\ 1 \in 1 .. NPage
    BY Numbers
  <2> QED  BY <1>1, <2>1, Counts
<1> QED  BY <1>1, <1>2 DEF Types, List, Listed, Sizes

\* What the clients' restrictions on alloc_pages come to.
LEMMA MayAllocFacts ==
    ASSUME NEW k \in 1 .. NPage, MayAlloc(k)
    PROVE  /\ clients = "ascending" => k = 1
           /\ clients = "keep_top" /\ (\E c \in Page : Run(c, k) \subseteq free)
                => \E c \in Page : Run(c, k) \subseteq free \ {Top}
BY DEF MayAlloc

\* The invariant holds initially.
LEMMA InitGood ==
    ASSUME Init, clients # "any"
    PROVE  Good
<1>1. clients \in {"keep_top", "ascending"}
  BY PmmAssumption DEF Init
<1>2. /\ 0 \in Page /\ 0 \in Node /\ free_list \in Node /\ NPage \in 0 .. NPage
      /\ 0 \in 0 .. NPage /\ 1 \in 1 .. NPage /\ free_list # 0
  BY Numbers
<1>3. Types
  BY <1>1, <1>2 DEF Init, Types
<1>4. free = Page /\ Listed = {0} /\ pg = {0}
  BY <1>2 DEF Init, free, Listed
<1>5. next[free_list] = 0 /\ next[0] = free_list /\ prev[free_list] = 0 /\ prev[0] = free_list
  BY <1>2 DEF Init
<1>6. Ascends(next, {0}) /\ Mirrors(next, prev, {0})
  BY <1>2, <1>5, Numbers DEF Ascends, Mirrors, Follows
<1>7. Covers(property, {0}, Page)
  <2>1. property[0] = NPage /\ NPage >= 1
    BY <1>2, Numbers DEF Init
  <2>2. Run(0, NPage) = Page
    BY Numbers DEF Run, Page
  <2> QED  BY <2>1, <2>2 DEF Covers
<1>8. nr_free = Cardinality(Page)
  <2>1. 0 \in Int /\ NPage - 1 \in Int /\ ~(0 > NPage - 1) /\ (NPage - 1) - 0 + 1 = NPage
    BY Numbers
  <2>2. Cardinality(Page) = NPage
    BY <2>1, FS_Interval DEF Page
  <2> QED  BY <2>2 DEF Init
<1>9. List
  BY <1>4, <1>5, <1>6, <1>7, <1>8 DEF List
<1>10. Top \in free
  BY <1>4, Numbers DEF Top
<1>11. Allocating /\ Ascending
  BY DEF Init, Allocating, Ascending
<1>12. KeepTop
  <2>1. pc = "idle" /\ \A c, d \in pg : ~(c < d)
    BY <1>2, <1>4 DEF Init
  <2> QED  BY <2>1, <1>4, <1>6, <1>10 DEF KeepTop
<1> QED  BY <1>3, <1>9, <1>11, <1>12 DEF Good

\* A call of alloc_pages keeps the invariant.
LEMMA AllocCallGood ==
    ASSUME Good, AllocCall, UNCHANGED clients
    PROVE  Good'
<1> USE DEF Good
<1>1. PICK k \in 1 .. NPage :
        /\ pc = "idle"
        /\ MayAlloc(k)
        /\ IF k > nr_free
             THEN ret' = NULL /\ UNCHANGED <<pc, le, n>>
             ELSE pc' = "alloc" /\ n' = k /\ le' = next[free_list] /\ UNCHANGED ret
        /\ UNCHANGED <<next, prev, property, pg, nr_free, base, held>>
  BY DEF AllocCall
<1>2. free' = free /\ Listed = pg /\ Listed' = pg
  BY <1>1 DEF free, Listed
<1>3. Follows(pg, free_list, next[free_list])
  BY <1>2 DEF List, Ascends
<1>4. pg \subseteq Page /\ next \in [Node -> Node] /\ free_list \in Node
  BY Numbers DEF Types
<1>5. Types'
  BY <1>1, <1>4 DEF Types
<1>6. List'
  BY <1>1, <1>2 DEF List
<1>7. Allocating'
  <2>1. SUFFICES ASSUME pc' = "alloc" PROVE Allocating'
    BY DEF Allocating
  <2>2. n' = k /\ le' = next[free_list]
    BY <1>1, <2>1
  <2>3. le' \in pg' \cup {free_list}
    BY <1>1, <1>3, <2>2 DEF Follows
  <2>4. MayAlloc(n)'
    BY <1>1, <1>2, <2>2 DEF MayAlloc
  <2>5. ASSUME NEW b \in pg, le' = free_list \/ b < le' PROVE FALSE
    BY <2>2, <2>5, <1>3, <1>4, Numbers DEF Follows
  <2> QED  BY <1>1, <2>3, <2>4, <2>5 DEF Allocating
<1>8. KeepTop'
  BY <1>1, <1>2 DEF KeepTop
<1>9. Ascending'
  BY <1>1, MayAllocFacts DEF Ascending
<1> QED  BY <1>5, <1>6, <1>7, <1>8, <1>9

\* So does a step of its loop past a block that is too small,
LEMMA AllocScanGood ==
    ASSUME Good, AllocScan, UNCHANGED clients
    PROVE  Good'
<1> USE DEF Good
<1>1. /\ pc = "alloc" /\ le # free_list /\ ~(property[le] >= n) /\ le' = next[le]
      /\ UNCHANGED <<next, prev, property, pg, nr_free, pc, base, n, held, ret>>
  BY DEF AllocScan, Fits
<1>2. free' = free /\ Listed = pg /\ Listed' = pg
  BY <1>1 DEF free, Listed
<1>3. le \in pg /\ pg \subseteq Page /\ next \in [Node -> Node] /\ le \in Node
  BY <1>1, Numbers DEF Types, Allocating
<1>4. Follows(pg, le, next[le])
  BY <1>2, <1>3 DEF List, Ascends
<1>5. property[le] \in Nat /\ property[le] >= 1 /\ n \in Nat
  BY <1>3, StateFacts, BlockFacts DEF Types
<1>6. Types'
  BY <1>1, <1>3 DEF Types
<1>7. List'
  BY <1>1, <1>2 DEF List
<1>8. Allocating'
  <2>1. le' \in pg' \cup {free_list}
    BY <1>1, <1>4 DEF Follows
  <2>2. MayAlloc(n)'
    BY <1>1, <1>2 DEF MayAlloc, Allocating
  <2>3. ASSUME NEW b \in pg, le' = free_list \/ b < le' PROVE property[b] < n
    <3>1. ~(le < b)
      BY <2>3, <1>1, <1>3, <1>4, Numbers DEF Follows
    <3>2. b < le \/ b = le
      BY <3>1, <1>3, Numbers
    <3> QED  BY <3>2, <1>1, <1>5 DEF Allocating
  <2> QED  BY <1>1, <2>1, <2>2, <2>3 DEF Allocating
<1>9. KeepTop'
  BY <1>1, <1>2 DEF KeepTop
<1>10. clients # "ascending"
  BY <1>1, <1>5 DEF Ascending
<1>11. Ascending'
  BY <1>10 DEF Ascending
<1> QED  BY <1>6, <1>7, <1>8, <1>9, <1>11

\* the end of the loop,
LEMMA AllocFailsGood ==
    ASSUME Good, AllocFails, UNCHANGED clients
    PROVE  Good'
<1> USE DEF Good
<1>1. /\ pc = "alloc" /\ pc' = "idle" /\ le' = free_list /\ base' = 0 /\ n' = 1 /\ ret' = NULL
      /\ UNCHANGED <<next, prev, property, pg, nr_free, held>>
  BY DEF AllocFails, Return
<1>2. free' = free /\ Listed = pg /\ Listed' = pg
  BY <1>1 DEF free, Listed
<1>3. 0 \in Page /\ 1 \in 1 .. NPage /\ free_list \in Node
  BY Numbers
<1>4. Types'
  BY <1>1, <1>3 DEF Types
<1>5. List'
  BY <1>1, <1>2 DEF List
<1>6. Allocating' /\ Ascending'
  BY <1>1 DEF Allocating, Ascending
<1>7. KeepTop'
  BY <1>1, <1>2 DEF KeepTop
<1> QED  BY <1>4, <1>5, <1>6, <1>7
\* The block that alloc_pages has found is the lowest place for n pages, and n
\* pages from its start are free and leave the topmost page alone.
LEMMA FoundFacts ==
    ASSUME Good, pc = "alloc", le # free_list, Fits
    PROVE  /\ le \in pg /\ le \in Nat /\ n \in Nat /\ n >= 1 /\ n <= property[le]
           /\ property[le] \in Nat /\ le + property[le] <= NPage
           /\ Run(le, n) \subseteq Run(le, property[le]) /\ Run(le, property[le]) \subseteq free
           /\ \A c \in Page : Run(c, n) \subseteq free => le <= c
           /\ clients = "keep_top" => le + n <= Top
<1> USE DEF Good
<1>1. le \in pg /\ n \in 1 .. NPage
  BY DEF Allocating, Types
<1>2. /\ le \in Nat /\ property[le] \in Nat /\ le + property[le] <= NPage
      /\ Run(le, property[le]) \subseteq free
      /\ \A b \in pg : b \in Nat /\ property[b] \in Nat /\ property[b] >= 1
  BY <1>1, StateFacts, BlockFacts
<1>3. n \in Nat /\ n >= 1 /\ n <= property[le]
  BY <1>1, <1>2, Numbers DEF Fits
<1>4. Run(le, n) \subseteq Run(le, property[le])
  BY <1>2, <1>3 DEF Run
<1>5. ASSUME NEW c \in Page, Run(c, n) \subseteq free
      PROVE  \E b \in pg : b <= c /\ n <= property[b] /\ (clients = "keep_top" => c + n <= b + property[b])
  <2>0. c \in Nat
    BY Numbers
  <2>1. CASE clients = "keep_top"
    <3>1. \A b, d \in pg : b < d => b + property[b] < d
      BY <2>1 DEF KeepTop
    <3>2. PICK b \in pg : b <= c /\ c + n <= b + property[b]
      BY <3>1, <1>1, <1>5, StateFacts, OneBlock
    <3> QED  BY <3>2, <2>0, <1>2, <1>3
  <2>2. CASE clients = "ascending"
    <3>1. n = 1 /\ c \in free
      BY <2>2, <2>0, <1>5 DEF Ascending, Run
    <3>2. PICK b \in pg : c \in Run(b, property[b])
      BY <3>1 DEF List, Covers
    <3>3. b <= c
      BY <3>2, <2>0, <1>2 DEF Run
    <3> QED  BY <2>2, <3>1, <3>3, <1>2
  <2> QED  BY <2>1, <2>2 DEF Types
<1>6. ASSUME NEW c \in Page, Run(c, n) \subseteq free PROVE le <= c
  <2>1. PICK b \in pg : b <= c /\ n <= property[b]
    BY <1>5, <1>6
  <2>2. ~(b < le)
    <3>1. b < le => property[b] < n
      BY DEF Allocating
    <3> QED  BY <2>1, <3>1, <1>2, <1>3
  <2> QED  BY <2>1, <2>2, <1>2, Numbers
<1>7. ASSUME clients = "keep_top" PROVE le + n <= Top
  <2>1. le \in Page /\ Run(le, n) \subseteq free
    BY <1>1, <1>2, <1>4 DEF Types
  <2>2. PICK c \in Page : Run(c, n) \subseteq free \ {Top}
    BY <2>1, <1>1, <1>7, MayAllocFacts DEF Allocating
  <2>3. le <= c
    BY <2>2, <1>6
  <2>4. c \in Nat /\ Top = NPage - 1 /\ free \subseteq Page
    BY Numbers DEF Top, free
  <2>5. c + n - 1 \in Run(c, n)
    BY <2>4, <1>3 DEF Run
  <2>6. c + n - 1 # Top /\ c + n - 1 < NPage
    BY <2>2, <2>4, <2>5, Numbers
  <2> QED  BY <2>3, <2>4, <2>6, <1>2, <1>3, Numbers
<1> QED  BY <1>1, <1>2, <1>3, <1>4, <1>6, <1>7

\* and taking the block found, with what is left of it put back.
LEMMA AllocTakeGood ==
    ASSUME Good, AllocTake, UNCHANGED clients
    PROVE  Good'
<1> USE DEF Good
<1> DEFINE p == prev[le]
           x == next[le]
           rest == le + n
           dn == DelNext(next, p, x)
           dp == DelPrev(prev, p, x)
           S == pg \ {le}
           After ==
               /\ Sizes(property', pg', free')
               /\ next' \in [Node -> Node] /\ prev' \in [Node -> Node]
               /\ Ascends(next', pg') /\ (clients = "keep_top" => Mirrors(next', prev', pg'))
               /\ prev'[next'[free_list]] = free_list
               /\ clients = "keep_top" => \A c, d \in pg' : c < d => c + property'[c] < d
<1>1. /\ pc = "alloc" /\ le # free_list /\ Fits
      /\ IF property[le] > n
           THEN /\ property' = [property EXCEPT ![rest] = property[le] - n]
                /\ pg' = (pg \cup {rest}) \ {le}
                /\ next' = AddNext(dn, rest, p, dn[p])
                /\ prev' = AddPrev(dp, rest, p, dn[p])
           ELSE /\ next' = dn
                /\ prev' = dp
                /\ pg' = pg \ {le}
                /\ UNCHANGED property
      /\ nr_free' = nr_free - n
      /\ held' = held \cup Run(le, n)
      /\ ret' = le
      /\ pc' = "idle" /\ le' = free_list /\ base' = 0 /\ n' = 1
  BY DEF AllocTake, Return
<1>2. /\ le \in pg /\ le \in Nat /\ n \in Nat /\ n >= 1 /\ n <= property[le]
      /\ property[le] \in Nat /\ le + property[le] <= NPage
      /\ Run(le, n) \subseteq Run(le, property[le]) /\ Run(le, property[le]) \subseteq free
      /\ clients = "keep_top" => le + n <= Top
  BY <1>1, FoundFacts
<1>3. /\ Listed = pg /\ Listed' = pg' /\ pg \in SUBSET Page /\ S \in SUBSET Page
      /\ next \in [Node -> Node] /\ prev \in [Node -> Node] /\ pg \subseteq Node
      /\ free \subseteq Page /\ le \in Page /\ free_list \in Node
  BY <1>1, <1>2, Numbers DEF Types, Listed, free
<1>4. free' = free \ Run(le, n) /\ Run(le, n) \subseteq Page
  BY <1>1, <1>2, <1>3 DEF free
<1>5. /\ Ascends(next, pg) /\ Sizes(property, pg, free)
      /\ clients = "keep_top" => Mirrors(next, prev, pg)
  BY <1>3, StateFacts DEF List, KeepTop
<1>6. p \in pg \cup {free_list} /\ next[p] = le /\ p < le /\ p # le /\ p \in Int
  <2>1. clients = "keep_top" => p \in pg \cup {free_list} /\ next[p] = le
    BY <1>2, <1>5 DEF Mirrors
  <2>2. clients = "ascending" => p = free_list /\ next[p] = le
    BY <1>1 DEF Ascending, List
  <2>3. p \in pg \cup {free_list} /\ next[p] = le
    BY <2>1, <2>2 DEF Types
  <2>4. Follows(pg, p, le)
    BY <2>3, <1>5 DEF Ascends
  <2>5. p < le
    BY <2>4, <1>1 DEF Follows
  <2>6. p \in Int
    BY <2>3, <1>3, Numbers
  <2> QED  BY <2>3, <2>5, <2>6, <1>2
<1>7. dn \in [Node -> Node] /\ Ascends(dn, S) /\ dn[p] = x /\ p \in S \cup {free_list}
  <2>1. dn \in [Node -> Node] /\ Ascends(dn, S)
    BY <1>2, <1>3, <1>5, <1>6, AscendsDel
  <2> QED  BY <2>1, <1>3, <1>6 DEF DelNext
<1>8. /\ dp \in [Node -> Node] /\ dp[x] = p
      /\ clients = "keep_top" => Mirrors(dn, dp, S)
  <2>1. x \in Node /\ p \in Node
    BY <1>3, <1>6
  <2>2. dp \in [Node -> Node] /\ dp[x] = p
    BY <2>1, <1>3 DEF DelPrev
  <2>3. ASSUME clients = "keep_top" PROVE Mirrors(dn, dp, S)
    BY <2>3, <1>2, <1>3, <1>5, MirrorsDel
  <2> QED  BY <2>2, <2>3
<1>9. clients = "ascending" => p = free_list
  BY <1>1 DEF Ascending, List
<1>0. rest = le + n /\ x = next[le] /\ S = pg \ {le}
  OBVIOUS
<1> HIDE DEF p, x, rest, dn, dp, S
<1>10. ASSUME ~(property[le] > n) PROVE After
  <2>1. next' = dn /\ prev' = dp /\ pg' = S /\ property' = property /\ property[le] = n
    <3>1. property[le] = n
      BY <1>2, <1>10
    <3> QED  BY <3>1, <1>0, <1>1, <1>10
  <2>2. Sizes(property', pg', free')
    BY <2>1, <1>0, <1>2, <1>4, <1>5, CoversTakeAll
  <2>3. next' \in [Node -> Node] /\ prev' \in [Node -> Node]
    BY <2>1, <1>7, <1>8
  <2>4. Ascends(next', pg') /\ (clients = "keep_top" => Mirrors(next', prev', pg'))
    BY <2>1, <1>7, <1>8
  <2>5. prev'[next'[free_list]] = free_list
    <3>1. CASE clients = "keep_top"
      BY <3>1, <2>4 DEF Mirrors
    <3>2. CASE clients = "ascending"
      BY <3>2, <2>1, <1>7, <1>8, <1>9
    <3> QED  BY <3>1, <3>2 DEF Types
  <2>6. clients = "keep_top" => \A c, d \in pg' : c < d => c + property'[c] < d
    BY <2>1, <1>0, <1>1 DEF KeepTop
  <2> QED  BY <2>2, <2>3, <2>4, <2>5, <2>6
<1>11. ASSUME property[le] > n PROVE After
  <2>1. /\ next' = AddNext(dn, rest, p, dn[p]) /\ prev' = AddPrev(dp, rest, p, dn[p])
        /\ property' = [property EXCEPT ![rest] = property[le] - n]
        /\ pg' = (pg \cup {rest}) \ {le}
    BY <1>1, <1>11
  <2>2. rest \in Page \ pg /\ Sizes(property', pg', free')
    BY <2>1, <1>0, <1>2, <1>4, <1>5, <1>11, CoversSplit
  <2>3. rest \in Nat /\ le < rest /\ rest # free_list /\ rest \in Page \ S /\ rest \in Node
        /\ pg' = S \cup {rest}
    BY <2>1, <2>2, <1>0, <1>2, Numbers
  <2>4. p < rest
    BY <2>3, <1>2, <1>6
  <2>5. dn[p] = free_list \/ rest < dn[p]
    <3>1. Follows(pg, le, x)
      BY <1>0, <1>2, <1>5 DEF Ascends
    <3>2. ASSUME x # free_list PROVE rest < x
      <4>1. x \in pg /\ le < x /\ x \in Nat
        BY <3>1, <3>2, <1>3, Numbers DEF Follows
      <4>2. le + property[le] <= x
        BY <4>1, <1>2, <1>5 DEF Sizes, Covers
      <4> QED  BY <4>1, <4>2, <1>0, <1>2, <1>11
    <3> QED  BY <3>2, <1>7
  <2>6. next' \in [Node -> Node] /\ Ascends(next', pg')
    BY <2>1, <2>3, <2>4, <2>5, <1>3, <1>7, AscendsAdd
  <2>7. x \in Node /\ x # rest /\ p # rest
    BY <2>2, <2>3, <1>0, <1>3, <1>2, <1>5, <1>6 DEF Ascends, Follows
  <2>8. prev' \in [Node -> Node] /\ (clients = "keep_top" => Mirrors(next', prev', pg'))
    <3>1. prev' \in [Node -> Node]
      BY <2>1, <2>3, <1>3, <1>6, <1>7, <1>8 DEF AddPrev
    <3>2. ASSUME clients = "keep_top" PROVE Mirrors(next', prev', pg')
      BY <3>2, <2>1, <2>3, <1>3, <1>7, <1>8, MirrorsAdd
    <3> QED  BY <3>1, <3>2
  <2>9. prev'[next'[free_list]] = free_list
    <3>1. CASE clients = "keep_top"
      BY <3>1, <2>8 DEF Mirrors
    <3>2. CASE clients = "ascending"
      <4>1. p = free_list /\ next'[free_list] = rest
        BY <3>2, <2>1, <2>3, <1>3, <1>7, <1>9 DEF AddNext
      <4>2. prev'[rest] = p
        BY <2>1, <2>3, <2>7, <1>7, <1>8 DEF AddPrev
      <4> QED  BY <4>1, <4>2
    <3> QED  BY <3>1, <3>2 DEF Types
  <2>10. ASSUME clients = "keep_top", NEW c \in pg', NEW d \in pg', c < d
         PROVE  c + property'[c] < d
    <3>1. \A b \in pg : b \in Nat /\ property[b] \in Nat /\ property[b] >= 1
      BY <1>5, BlockFacts
    <3>2. \A a, b \in pg : a < b => a + property[a] < b
      BY <2>10, <1>1 DEF KeepTop
    <3>3. property'[rest] = property[le] - n /\ \A b \in pg : property'[b] = property[b]
      BY <2>1, <2>2, <1>3 DEF Types
    <3>4. CASE c = rest
      <4>1. d \in pg /\ le < d
        <5>1. rest < d /\ ~(rest < rest)
          BY <3>4, <2>3, <2>10
        <5>2. d \in pg /\ d \in Nat
          BY <5>1, <2>3, <2>10, <1>0, <3>1
        <5> QED  BY <5>1, <5>2, <2>3, <1>2
      <4>2. le + property[le] < d
        BY <4>1, <3>2, <1>2
      <4> QED  BY <3>4, <4>1, <4>2, <3>1, <3>3, <1>0, <1>2
    <3>5. CASE c # rest /\ d = rest
      <4>1. c \in pg /\ c # le
        BY <3>5, <2>1, <2>10
      <4>2. ~(le < c)
        <5>1. SUFFICES ASSUME le < c PROVE FALSE
          OBVIOUS
        <5>2. le + property[le] < c
          BY <4>1, <5>1, <3>2, <1>2
        <5> QED  BY <4>1, <5>2, <3>1, <3>5, <2>10, <1>0, <1>2, <1>11
      <4>3. c < le
        BY <4>1, <4>2, <3>1, <1>2
      <4>4. c + property[c] < le
        BY <4>1, <4>3, <3>2, <1>2
      <4> QED  BY <3>5, <4>1, <4>4, <3>1, <3>3, <2>3, <1>2
    <3>6. CASE c # rest /\ d # rest
      BY <3>2, <3>3, <3>6, <2>1, <2>10
    <3> QED  BY <3>4, <3>5, <3>6
  <2> QED  BY <2>2, <2>6, <2>8, <2>9, <2>10
<1>12. After
  BY <1>10, <1>11
<1>13. nr_free' = Cardinality(free')
  <2>1. Run(le, n) \subseteq free /\ n \in 1 .. NPage /\ free \in SUBSET Page
    BY <1>2, <1>3 DEF Types
  <2>2. Cardinality(free \ Run(le, n)) = Cardinality(free) - n
    BY <2>1, <1>3, Counts
  <2> QED  BY <2>2, <1>1, <1>4 DEF List
<1>14. Types'
  <2>1. held' \subseteq Page /\ 0 \in Page /\ 1 \in 1 .. NPage
    BY <1>1, <1>4, Numbers DEF Types
  <2> QED  BY <2>1, <1>1, <1>3, <1>12 DEF Types, Sizes
<1>15. List'
  BY <1>3, <1>12, <1>13 DEF List, Sizes
<1>16. Allocating' /\ Ascending'
  BY <1>1 DEF Allocating, Ascending
<1>17. KeepTop'
  <2>1. SUFFICES ASSUME clients = "keep_top" PROVE KeepTop'
    BY DEF KeepTop
  <2>2. Top \in free /\ Top \notin Run(le, n)
    BY <2>1, <1>2, Numbers DEF KeepTop, Run, Top
  <2> QED  BY <2>1, <2>2, <1>1, <1>3, <1>4, <1>12 DEF KeepTop
<1> QED  BY <1>14, <1>15, <1>16, <1>17

\* A call of free_pages keeps the invariant.
LEMMA FreeCallGood ==
    ASSUME Good, FreeCall, UNCHANGED clients
    PROVE  Good'
<1> USE DEF Good
<1>1. PICK b \in Page, k \in 1 .. NPage :
        /\ pc = "idle"
        /\ MayFree(b, k)
        /\ base' = b
        /\ property' = [property EXCEPT ![b] = k]
        /\ pg' = (pg \ Run(b, k)) \cup {b}
        /\ nr_free' = nr_free + k
        /\ held' = held \ Run(b, k)
        /\ le' = next[free_list]
        /\ IF next[free_list] = free_list
             THEN /\ next' = AddNext(next, b, free_list, next[free_list])
                  /\ prev' = AddPrev(prev, b, free_list, next[free_list])
                  /\ pc' = "merge"
             ELSE pc' = "free" /\ UNCHANGED <<next, prev>>
        /\ UNCHANGED <<n, ret>>
  BY DEF FreeCall
<1> DEFINE first == next[free_list]
<1>2. /\ Run(b, k) \subseteq Page \ free /\ b \in Nat /\ k \in Nat /\ k >= 1 /\ b \in Run(b, k)
      /\ free' = free \cup Run(b, k)
      /\ clients = "ascending" => \A y \in free : y < b
  <2>1. Run(b, k) \subseteq held /\ (clients = "ascending" => \A y \in free : y < b)
    BY <1>1 DEF MayFree
  <2>2. b \in Nat /\ k \in Nat /\ k >= 1
    BY Numbers
  <2>3. held \subseteq Page
    BY DEF Types
  <2>4. Run(b, k) \subseteq Page \ free /\ free' = free \cup Run(b, k)
    BY <2>1, <2>3, <1>1 DEF free
  <2> QED  BY <2>1, <2>2, <2>4 DEF Run
<1>3. /\ Listed = pg /\ pg \in SUBSET Page /\ pg \subseteq Node /\ free_list \in Node
      /\ next \in [Node -> Node] /\ prev \in [Node -> Node] /\ b \in Node /\ b # free_list
      /\ Ascends(next, pg) /\ Sizes(property, pg, free) /\ pg \subseteq free
      /\ clients = "keep_top" => Mirrors(next, prev, pg)
  <2>1. Listed = pg /\ Sizes(property, pg, free) /\ Ascends(next, pg)
    BY <1>1, StateFacts DEF List
  <2>2. pg \subseteq free
    BY <2>1, BlockFacts
  <2> QED  BY <2>1, <2>2, Numbers DEF Types, KeepTop
<1>4. /\ b \notin pg /\ b + k <= NPage /\ pg' = pg \cup {b}
      /\ Sizes(property', pg', free')
  <2>1. /\ b \notin pg /\ pg \cap Run(b, k) = {} /\ b + k <= NPage
        /\ Sizes([property EXCEPT ![b] = k], pg \cup {b}, free \cup Run(b, k))
    BY <1>2, <1>3, CoversGive
  <2>2. pg' = pg \cup {b}
    BY <2>1, <1>1
  <2> QED  BY <2>1, <2>2, <1>1, <1>2
<1>5. Follows(pg, free_list, first)
  BY <1>3 DEF Ascends
<1>6. first = free_list => pg = {}
  BY <1>3, <1>5, Numbers DEF Follows
<1>7. first # free_list => first \in pg /\ Listed' = pg
  BY <1>1, <1>3, <1>4, <1>5 DEF Follows, Listed
<1>8. first = free_list => Listed' = pg'
  BY <1>1 DEF Listed
<1>9. /\ next' \in [Node -> Node] /\ prev' \in [Node -> Node]
      /\ Ascends(next', Listed') /\ prev'[next'[free_list]] = free_list
      /\ clients = "keep_top" => Mirrors(next', prev', Listed')
  <2>1. ASSUME first # free_list
        PROVE  /\ next' \in [Node -> Node] /\ prev' \in [Node -> Node]
               /\ Ascends(next', Listed') /\ prev'[next'[free_list]] = free_list
               /\ clients = "keep_top" => Mirrors(next', prev', Listed')
    <3>1. next' = next /\ prev' = prev /\ Listed' = pg
      BY <2>1, <1>1, <1>7
    <3> QED  BY <3>1, <1>3 DEF List
  <2>2. ASSUME first = free_list
        PROVE  /\ next' \in [Node -> Node] /\ prev' \in [Node -> Node]
               /\ Ascends(next', Listed') /\ prev'[next'[free_list]] = free_list
               /\ clients = "keep_top" => Mirrors(next', prev', Listed')
    <3>1. /\ next' = AddNext(next, b, free_list, next[free_list])
          /\ prev' = AddPrev(prev, b, free_list, next[free_list])
          /\ Listed' = pg \cup {b} /\ next[free_list] = free_list
      BY <2>2, <1>1, <1>4, <1>8
    <3>2. free_list < b /\ b \in Page \ pg /\ free_list \in pg \cup {free_list}
      BY <1>4, <1>3, Numbers
    <3>3. next' \in [Node -> Node] /\ Ascends(next', Listed')
      BY <3>1, <3>2, <1>3, AscendsAdd
    <3>4. prev' \in [Node -> Node] /\ prev'[next'[free_list]] = free_list
      BY <3>1, <1>3 DEF AddNext, AddPrev
    <3>5. clients = "keep_top" => Mirrors(next', prev', Listed')
      BY <3>1, <3>2, <1>3, MirrorsAdd
    <3> QED  BY <3>3, <3>4, <3>5
  <2> QED  BY <2>1, <2>2
<1>10. nr_free' = Cardinality(free')
  BY <1>1, <1>2, Counts DEF List, free
<1>11. Types'
  <2>1. held' \subseteq Page /\ le' \in Node
    BY <1>1, <1>3 DEF Types
  <2> QED  BY <2>1, <1>1, <1>4, <1>9 DEF Types, Sizes
<1>12. List'
  BY <1>4, <1>9, <1>10 DEF List, Sizes
<1>13. Allocating'
  BY <1>1 DEF Allocating
<1>14. \A c \in pg : property'[c] = property[c]
  BY <1>1, <1>3, <1>4 DEF Types
<1>15. KeepTop'
  <2>1. SUFFICES ASSUME clients = "keep_top" PROVE KeepTop'
    BY DEF KeepTop
  <2>2. Top \in free /\ Top \in Nat /\ Top = NPage - 1
    BY <2>1, Numbers DEF KeepTop, Top
  <2>3. first # free_list
    <3>1. pg # {}
      BY <2>2 DEF List, Covers
    <3> QED  BY <3>1, <1>6
  <2>4. pc' = "free" /\ base' = b /\ le' = first /\ first \in pg /\ Listed' = pg
    BY <2>3, <1>1, <1>7
  <2>5. Apart(property', pg', b)
    <3>1. \A c, d \in pg : c < d => c + property[c] < d
      BY <2>1, <1>1 DEF KeepTop
    <3>2. ASSUME NEW c \in pg', NEW d \in pg', c < d, c + property'[c] = d, b \notin {c, d}
          PROVE  FALSE
      <4>1. c \in pg /\ d \in pg
        BY <3>2, <1>4
      <4>2. c + property[c] < d /\ property'[c] = property[c]
        BY <3>1, <3>2, <4>1, <1>14
      <4>3. c \in Nat /\ property[c] \in Nat
        BY <4>1, <1>3, BlockFacts
      <4> QED  BY <3>2, <4>2, <4>3
    <3> QED  BY <3>2 DEF Apart
  <2>6. b + property'[b] <= Top
    <3>1. property'[b] = k
      BY <1>1 DEF Types
    <3>2. b + k - 1 \in Run(b, k)
      BY <1>2 DEF Run
    <3>3. b + k - 1 # Top
      BY <3>2, <2>2, <1>2
    <3> QED  BY <3>1, <3>3, <2>2, <1>2, <1>4, Numbers
  <2>7. \A c \in pg' \ {b} : ~(c < first)
    <3>1. ASSUME NEW c \in pg PROVE free_list < c /\ c \in Nat /\ first <= c
      BY <1>3, <1>5, Numbers DEF Follows
    <3>2. first \in Nat
      BY <2>4, <1>3, Numbers
    <3> QED  BY <3>1, <3>2, <1>4
  <2>8. first \in pg' \ {b} /\ b \in pg'
    BY <2>4, <1>4
  <2> QED  BY <2>1, <2>2, <2>4, <2>5, <2>6, <2>7, <2>8, <1>2, <1>9 DEF KeepTop
<1>16. Ascending'
  <2>1. SUFFICES ASSUME clients = "ascending" PROVE Ascending'
    BY DEF Ascending
  <2>2. \A c \in pg' : c <= b
    BY <2>1, <1>2, <1>3, <1>4, Numbers
  <2>3. b \in pg' /\ pc' # "alloc" /\ base' = b
    BY <1>1, <1>4
  <2>4. CASE first # free_list
    <3>1. next' = next /\ pc' = "free" /\ le' = first /\ first \in pg /\ first # b
      BY <2>4, <1>1, <1>4, <1>7
    <3> QED  BY <2>2, <2>3, <2>4, <3>1, <1>4 DEF Ascending
  <2>5. CASE first = free_list
    <3>1. pc' = "merge" /\ prev' = AddPrev(prev, b, free_list, free_list)
      BY <2>5, <1>1
    <3>2. prev'[b] = free_list
      BY <3>1, <1>3 DEF AddPrev
    <3> QED  BY <2>2, <2>3, <3>1, <3>2 DEF Ascending
  <2> QED  BY <2>4, <2>5
<1> QED  BY <1>11, <1>12, <1>13, <1>15, <1>16

\* Where the loop of free_pages is, in the state before each of its steps.
LEMMA FreeLoopFacts ==
    ASSUME Good, pc = "free"
    PROVE  /\ base \in pg /\ base \in Nat /\ base \in Page /\ le \in pg \cup {free_list}
           /\ next \in [Node -> Node] /\ prev \in [Node -> Node]
           /\ pg \in SUBSET Page /\ pg \subseteq Node /\ pg \subseteq Nat /\ free_list \in Node
           /\ le \notin {base, free_list} => Listed = pg \ {base}
           /\ le \in {base, free_list} => Listed = pg /\ clients = "ascending"
           /\ Ascends(next, Listed) /\ Sizes(property, pg, free)
           /\ clients = "keep_top" => Mirrors(next, prev, Listed)
<1> USE DEF Good
<1>1. base \in pg /\ le \in pg \cup {free_list}
      /\ (clients = "keep_top" => le \in pg \ {base})
  BY DEF KeepTop, Ascending, Types
<1>2. /\ le \notin {base, free_list} => Listed = pg \ {base}
      /\ le \in {base, free_list} => Listed = pg
  BY DEF Listed
<1>3. pg \in SUBSET Page /\ free_list \notin Page
  BY Numbers DEF Types
<1>4. le \in {base, free_list} => clients = "ascending"
  BY <1>1, <1>3 DEF Types
<1> QED  BY <1>1, <1>2, <1>3, <1>4, StateFacts, Numbers DEF Types, List, KeepTop

\* So does inserting before the first block above,
LEMMA FreeBeforeGood ==
    ASSUME Good, FreeBefore, UNCHANGED clients
    PROVE  Good'
<1> USE DEF Good
<1> DEFINE p == prev[le]
           S == pg \ {base}
<1>1. /\ pc = "free" /\ le # free_list /\ base < le
      /\ next' = AddNext(next, base, p, le) /\ prev' = AddPrev(prev, base, p, le)
      /\ pc' = "merge"
      /\ UNCHANGED <<property, pg, nr_free, le, base, n, held, ret>>
  BY DEF FreeBefore
<1>2. /\ base \in pg /\ base \in Nat /\ base \in Page /\ le \in pg /\ le \in Nat
      /\ next \in [Node -> Node] /\ prev \in [Node -> Node]
      /\ pg \in SUBSET Page /\ pg \subseteq Nat
  BY <1>1, FreeLoopFacts
<1>3. clients = "keep_top"
  <2>1. clients # "ascending"
    BY <1>1, <1>2 DEF Ascending
  <2> QED  BY <2>1 DEF Types
<1>4. /\ le # base /\ Listed = S /\ S \in SUBSET Page
      /\ Ascends(next, S) /\ Mirrors(next, prev, S)
  <2>1. le # base
    BY <1>1, <1>2
  <2> QED  BY <2>1, <1>1, <1>2, <1>3, FreeLoopFacts
<1>5. p \in S \cup {free_list} /\ next[p] = le
  BY <1>2, <1>4 DEF Mirrors
<1>6. p < base
  <2>1. Follows(S, p, le)
    BY <1>4, <1>5 DEF Ascends
  <2>2. p < le
    BY <2>1, <1>1 DEF Follows
  <2>3. p \in S => p < base
    BY <2>2, <1>1, <1>3 DEF KeepTop
  <2> QED  BY <2>3, <1>2, <1>5, Numbers
<1>7. S \cup {base} = pg /\ base \in Page \ S /\ (next[p] = free_list \/ base < next[p])
  BY <1>1, <1>2, <1>5
<1>8. Listed' = pg /\ free' = free
  BY <1>1 DEF Listed, free
<1> HIDE DEF p, S
<1>9. /\ next' \in [Node -> Node] /\ Ascends(next', pg)
      /\ prev' \in [Node -> Node] /\ Mirrors(next', prev', pg)
  <2>1. /\ AddNext(next, base, p, next[p]) \in [Node -> Node]
        /\ Ascends(AddNext(next, base, p, next[p]), S \cup {base})
    BY <1>2, <1>4, <1>5, <1>6, <1>7, AscendsAdd
  <2>2. /\ AddPrev(prev, base, p, next[p]) \in [Node -> Node]
        /\ Mirrors(AddNext(next, base, p, next[p]), AddPrev(prev, base, p, next[p]), S \cup {base})
    BY <1>2, <1>4, <1>5, <1>7, MirrorsAdd
  <2>3. next' = AddNext(next, base, p, next[p]) /\ prev' = AddPrev(prev, base, p, next[p])
    BY <1>1, <1>5 DEF p
  <2> QED  BY <2>1, <2>2, <2>3, <1>7
<1>10. Types'
  BY <1>1, <1>9 DEF Types
<1>11. List'
  <2>1. prev'[next'[free_list]] = free_list
    BY <1>9 DEF Mirrors
  <2> QED  BY <2>1, <1>1, <1>8, <1>9 DEF List
<1>12. Allocating' /\ Ascending'
  BY <1>1, <1>3 DEF Allocating, Ascending
<1>13. KeepTop'
  BY <1>1, <1>3, <1>8, <1>9 DEF KeepTop
<1> QED  BY <1>10, <1>11, <1>12, <1>13

\* inserting behind the last block,
LEMMA FreeAfterGood ==
    ASSUME Good, FreeAfter, UNCHANGED clients
    PROVE  Good'
<1> USE DEF Good
<1> DEFINE S == pg \ {base}
<1>1. /\ pc = "free" /\ le # free_list /\ base >= le /\ next[le] = free_list
      /\ next' = AddNext(next, base, le, next[le]) /\ prev' = AddPrev(prev, base, le, next[le])
      /\ le' = next'[le]
      /\ UNCHANGED <<property, pg, nr_free, pc, base, n, held, ret>>
  BY DEF FreeAfter
<1>2. /\ base \in pg /\ base \in Nat /\ base \in Page /\ le \in pg /\ le \in Nat
      /\ next \in [Node -> Node] /\ prev \in [Node -> Node] /\ free_list \in Node
      /\ pg \in SUBSET Page /\ pg \subseteq Nat /\ base \in Node /\ le \in Node
      /\ Ascends(next, Listed) /\ Sizes(property, pg, free)
      /\ base # free_list
  BY <1>1, FreeLoopFacts, Numbers
<1>3. clients = "ascending"
  <2>1. SUFFICES ASSUME clients = "keep_top" PROVE FALSE
    BY DEF Types
  <2>2. /\ Top \in free /\ base + property[base] <= Top /\ le \in S
        /\ \A b \in S : b < le => b < base
    BY <2>1, <1>1 DEF KeepTop
  <2>3. Follows(S, le, free_list)
    BY <2>2, <1>1, <1>2, FreeLoopFacts DEF Ascends
  <2>4. PICK t \in pg : Top \in Run(t, property[t])
    BY <2>2 DEF List, Covers
  <2>5. /\ t \in Nat /\ property[t] \in Nat /\ property[base] \in Nat /\ property[base] >= 1
        /\ Top \in Nat
    BY <2>2, <2>4, <1>2, BlockFacts, Numbers DEF Top
  <2>6. t <= Top /\ Top < t + property[t]
    BY <2>4, <2>5 DEF Run
  <2>7. t # base /\ ~(t < base)
    <3>1. t < base => t + property[t] <= base
      BY <2>4, <1>2 DEF Sizes, Covers
    <3> QED  BY <3>1, <2>2, <2>5, <2>6, <1>2
  <2>8. t \in S /\ le < t
    BY <2>4, <2>5, <2>7, <1>1, <1>2
  <2> QED  BY <2>3, <2>8 DEF Follows
<1>4. /\ \A b \in pg : b <= base
      /\ next[free_list] \notin {base, free_list}
  BY <1>1, <1>3 DEF Ascending
<1>5. free' = free
  BY <1>1 DEF free
<1>6. next[free_list] \in Node /\ free_list # le
  BY <1>1, <1>2
<1>7. ASSUME le # base
      PROVE  /\ next' \in [Node -> Node] /\ prev' \in [Node -> Node] /\ le' = base
             /\ Ascends(next', pg) /\ next'[free_list] = next[free_list]
             /\ prev'[next'[free_list]] = free_list
  <2>1. Listed = S /\ S \in SUBSET Page /\ le \in S /\ base \in Page \ S /\ S \cup {base} = pg
    BY <1>1, <1>2, <1>7, FreeLoopFacts
  <2>2. le < base
    BY <1>1, <1>2, <1>7
  <2>3. next' = AddNext(next, base, le, next[le]) /\ prev' = AddPrev(prev, base, le, free_list)
    BY <1>1
  <2> HIDE DEF S
  <2>4. next' \in [Node -> Node] /\ Ascends(next', pg)
    <3>1. Ascends(next, S) /\ next[le] = free_list
      BY <2>1, <1>1, <1>2
    <3>2. /\ AddNext(next, base, le, next[le]) \in [Node -> Node]
          /\ Ascends(AddNext(next, base, le, next[le]), S \cup {base})
      BY <3>1, <2>1, <2>2, <1>2, AscendsAdd
    <3> QED  BY <3>2, <2>1, <2>3
  <2>5. le' = base /\ next'[free_list] = next[free_list]
    BY <2>2, <2>3, <1>1, <1>2 DEF AddNext
  <2>6. prev' \in [Node -> Node] /\ prev'[next[free_list]] = prev[next[free_list]]
    BY <2>3, <1>2, <1>4, <1>6 DEF AddPrev
  <2> QED  BY <2>4, <2>5, <2>6 DEF List
<1>8. ASSUME le = base
      PROVE  /\ next' = next /\ prev' \in [Node -> Node] /\ le' = free_list
             /\ Ascends(next', pg) /\ prev'[base] = base
             /\ prev'[next'[free_list]] = free_list
  <2>1. Listed = pg /\ next[base] = free_list
    BY <1>1, <1>8, FreeLoopFacts
  <2>2. next' = AddNext(next, base, base, free_list) /\ prev' = AddPrev(prev, base, base, free_list)
    BY <1>1, <1>8
  <2>3. next' = next
    BY <2>1, <2>2, <1>2 DEF AddNext
  <2>4. /\ prev' \in [Node -> Node] /\ prev'[base] = base
        /\ prev'[next[free_list]] = prev[next[free_list]]
    BY <2>2, <1>2, <1>4, <1>6 DEF AddPrev
  <2> QED  BY <2>1, <2>3, <2>4, <1>1, <1>2, <1>8 DEF List
<1>9. le' \in {base, free_list} /\ Listed' = pg
  <2>1. le' \in {base, free_list}
    BY <1>7, <1>8
  <2> QED  BY <2>1, <1>1 DEF Listed
<1>10. Types'
  BY <1>1, <1>2, <1>7, <1>8, <1>9 DEF Types
<1>11. List'
  BY <1>1, <1>5, <1>7, <1>8, <1>9 DEF List
<1>12. Allocating' /\ KeepTop'
  BY <1>1, <1>3 DEF Allocating, KeepTop
<1>13. Ascending'
  <2>1. next'[free_list] \notin {base, free_list}
    BY <1>4, <1>7, <1>8
  <2>2. le' = free_list => prev'[base] = base
    BY <1>2, <1>7, <1>8
  <2> QED  BY <2>1, <2>2, <1>1, <1>2, <1>4, <1>9 DEF Ascending
<1> QED  BY <1>10, <1>11, <1>12, <1>13

\* a step of the loop past a lower block,
LEMMA FreeScanGood ==
    ASSUME Good, FreeScan, UNCHANGED clients
    PROVE  Good'
<1> USE DEF Good
<1> DEFINE S == pg \ {base}
<1>1. /\ pc = "free" /\ le # free_list /\ base >= le /\ next[le] # free_list /\ le' = next[le]
      /\ UNCHANGED <<next, prev, property, pg, nr_free, pc, base, n, held, ret>>
  BY DEF FreeScan
<1>2. /\ base \in pg /\ base \in Nat /\ le \in pg /\ le \in Nat
      /\ next \in [Node -> Node] /\ pg \in SUBSET Page /\ pg \subseteq Nat /\ le \in Node
      /\ Ascends(next, Listed)
  BY <1>1, FreeLoopFacts
<1>3. le # base
  <2>1. SUFFICES ASSUME le = base PROVE FALSE
    OBVIOUS
  <2>2. clients = "ascending" /\ Listed = pg
    BY <2>1, <1>1, FreeLoopFacts
  <2>3. Follows(pg, base, next[base])
    BY <2>2, <1>2 DEF Ascends
  <2>4. next[base] \in pg /\ base < next[base]
    BY <2>1, <2>3, <1>1 DEF Follows
  <2>5. next[base] <= base
    BY <2>2, <2>4, <1>1 DEF Ascending
  <2>6. next[base] \in Nat
    BY <2>4, <1>2
  <2> QED  BY <2>4, <2>5, <2>6, <1>2
<1>4. Listed = S
  BY <1>1, <1>3, FreeLoopFacts
<1>5. Follows(S, le, next[le])
  BY <1>2, <1>3, <1>4 DEF Ascends
<1>6. le' \in S /\ le' \in Node /\ le' # free_list /\ le' # base
  BY <1>1, <1>2, <1>5, Numbers DEF Follows
<1>7. Listed' = S /\ free' = free
  BY <1>1, <1>6 DEF Listed, free
<1>8. Types'
  BY <1>1, <1>6 DEF Types
<1>9. List'
  BY <1>1, <1>4, <1>7 DEF List
<1>10. Allocating'
  BY <1>1 DEF Allocating
<1>11. KeepTop'
  <2>1. SUFFICES ASSUME clients = "keep_top" PROVE KeepTop'
    BY DEF KeepTop
  <2>2. ASSUME NEW b \in S, b < le' PROVE b < base
    <3>1. ~(le < b)
      BY <2>2, <1>1, <1>2, <1>5, <1>6 DEF Follows
    <3>2. b \in Nat
      BY <1>2
    <3> QED  BY <3>1, <3>2, <1>1, <1>2, <1>3
  <2> QED  BY <2>1, <2>2, <1>1, <1>4, <1>6, <1>7 DEF KeepTop
<1>12. Ascending'
  BY <1>1, <1>6 DEF Ascending
<1> QED  BY <1>8, <1>9, <1>10, <1>11, <1>12

\* the end of the loop, which the disciplines keep from inserting twice,
LEMMA FreeLoopEndGood ==
    ASSUME Good, FreeLoopEnd, UNCHANGED clients
    PROVE  Good'
<1> USE DEF Good
<1>1. /\ pc = "free" /\ le = free_list /\ pc' = "merge"
      /\ UNCHANGED <<next, prev, property, pg, nr_free, le, base, n, held, ret>>
  BY DEF FreeLoopEnd
<1>2. Listed = pg /\ clients = "ascending"
  BY <1>1, FreeLoopFacts
<1>3. Listed' = pg /\ free' = free
  BY <1>1 DEF Listed, free
<1>4. Types' /\ List' /\ Allocating' /\ KeepTop'
  BY <1>1, <1>2, <1>3 DEF Types, List, Allocating, KeepTop
<1>5. Ascending'
  BY <1>1, <1>2 DEF Ascending
<1> QED  BY <1>4, <1>5
\* A linked list of blocks that make up F.
Linked(nx, pv, prop, S, F) ==
    /\ nx \in [Node -> Node] /\ pv \in [Node -> Node]
    /\ Ascends(nx, S) /\ Mirrors(nx, pv, S)
    /\ Sizes(prop, S, F)

\* One join of the merge: the block at b takes in the next one, x.  A pair of blocks
\* that touch afterwards touched before, or x touched what b touches now.
LEMMA Join ==
    ASSUME NEW nx, NEW pv, NEW prop, NEW S, NEW F, Linked(nx, pv, prop, S, F),
           NEW b \in S, NEW x \in S, nx[b] = x, b + prop[b] = x
    PROVE  LET new == [prop EXCEPT ![b] = @ + prop[x]] IN
           /\ pv[x] = b /\ x # b
           /\ Linked(DelNext(nx, b, nx[x]), DelPrev(pv, b, nx[x]), new, S \ {x}, F)
           /\ \A c, d \in S \ {x} : c + new[c] = d =>
                \/ c # b /\ c + prop[c] = d
                \/ c = b /\ x + prop[x] = d
<1> DEFINE new == [prop EXCEPT ![b] = @ + prop[x]]
<1>1. /\ nx \in [Node -> Node] /\ pv \in [Node -> Node] /\ Ascends(nx, S) /\ Mirrors(nx, pv, S)
      /\ Sizes(prop, S, F) /\ S \in SUBSET Page
  BY DEF Linked, Sizes
<1>2. pv[x] = b
  BY <1>1 DEF Mirrors
<1>3. /\ DelNext(nx, b, nx[x]) \in [Node -> Node]
      /\ Ascends(DelNext(nx, b, nx[x]), S \ {x})
  BY <1>1, AscendsDel
<1>4. /\ DelPrev(pv, b, nx[x]) \in [Node -> Node]
      /\ Mirrors(DelNext(nx, b, nx[x]), DelPrev(pv, b, nx[x]), S \ {x})
  BY <1>1, <1>2, MirrorsDel
<1>5. Sizes(new, S \ {x}, F)
  BY <1>1, CoversJoin
<1>6. /\ \A c \in S : c \in Nat /\ c \in Page /\ prop[c] \in Nat /\ prop[c] >= 1
      /\ prop \in [Page -> 0 .. NPage]
  BY <1>1, BlockFacts DEF Sizes
<1>7. new[b] = prop[b] + prop[x] /\ \A c \in S \ {b} : new[c] = prop[c]
  BY <1>6
<1>8. x # b
  BY <1>6
<1>9. ASSUME NEW c \in S \ {x}, NEW d \in S \ {x}, c + new[c] = d
      PROVE  \/ c # b /\ c + prop[c] = d
             \/ c = b /\ x + prop[x] = d
  <2>1. CASE c = b
    BY <2>1, <1>6, <1>7, <1>9
  <2>2. CASE c # b
    BY <2>2, <1>7, <1>9
  <2> QED  BY <2>1, <2>2
<1> HIDE DEF new
<1>10. Linked(DelNext(nx, b, nx[x]), DelPrev(pv, b, nx[x]), new, S \ {x}, F)
  BY <1>3, <1>4, <1>5 DEF Linked
<1> QED  BY <1>2, <1>8, <1>9, <1>10 DEF new

\* A block that touches another one touches the next one of the list.
LEMMA TouchesNext ==
    ASSUME NEW nx, NEW pv, NEW prop, NEW S, NEW F, Linked(nx, pv, prop, S, F),
           NEW c \in S, NEW d \in S, c + prop[c] = d
    PROVE  nx[c] = d /\ pv[d] = c
<1>1. /\ \A b \in S : b \in Nat /\ prop[b] \in Nat /\ prop[b] >= 1
      /\ \A a, b \in S : a < b => a + prop[a] <= b
      /\ Follows(S, c, nx[c]) /\ Mirrors(nx, pv, S)
  <2>1. Sizes(prop, S, F)
    BY DEF Linked
  <2>2. \A b \in S : b \in Nat /\ prop[b] \in Nat /\ prop[b] >= 1
    BY <2>1, BlockFacts
  <2>3. \A a, b \in S : a < b => a + prop[a] <= b
    BY <2>1 DEF Sizes, Covers
  <2>4. Follows(S, c, nx[c]) /\ Mirrors(nx, pv, S)
    BY DEF Linked, Ascends
  <2> QED  BY <2>2, <2>3, <2>4
<1>2. c < d
  BY <1>1
<1>3. nx[c] # free_list /\ nx[c] <= d /\ nx[c] \in S /\ c < nx[c]
  BY <1>1, <1>2 DEF Follows
<1>4. nx[c] = d
  BY <1>1, <1>3
<1> QED  BY <1>1, <1>4 DEF Mirrors

\* and joining with the neighbours.
LEMMA MergeGood ==
    ASSUME Good, Merge, UNCHANGED clients
    PROVE  Good'
<1> USE DEF Good
<1> DEFINE p == prev[base]
           low == p # free_list /\ Touches(p, property, base)
           b1 == IF low THEN p ELSE base
           prop1 == IF low THEN [property EXCEPT ![p] = @ + property[base]] ELSE property
           pg1 == IF low THEN pg \ {base} ELSE pg
           nx1 == IF low THEN DelNext(next, p, next[base]) ELSE next
           pv1 == IF low THEN DelPrev(prev, p, next[base]) ELSE prev
           x == nx1[b1]
           high == x # free_list /\ Touches(b1, prop1, x)
<1>1. /\ pc = "merge"
      /\ property' = IF high THEN [prop1 EXCEPT ![b1] = @ + prop1[x]] ELSE prop1
      /\ pg' = IF high THEN pg1 \ {x} ELSE pg1
      /\ next' = IF high THEN DelNext(nx1, pv1[x], nx1[x]) ELSE nx1
      /\ prev' = IF high THEN DelPrev(pv1, pv1[x], nx1[x]) ELSE pv1
      /\ pc' = "idle" /\ le' = free_list /\ base' = 0 /\ n' = 1
      /\ UNCHANGED <<nr_free, held, ret>>
  BY DEF Merge, Return
<1>2. /\ free' = free /\ Listed = pg /\ Listed' = pg' /\ base \in pg /\ base \in Page
      /\ pg \in SUBSET Page /\ Sizes(property, pg, free) /\ Ascends(next, pg)
      /\ next \in [Node -> Node] /\ prev \in [Node -> Node]
      /\ \A b \in pg : b \in Nat /\ property[b] \in Nat /\ property[b] >= 1
  <2>1. base \in pg
    BY <1>1 DEF KeepTop, Ascending, Types
  <2>2. free' = free /\ Listed = pg /\ Listed' = pg' /\ Sizes(property, pg, free)
    BY <1>1, StateFacts DEF free, Listed
  <2>3. Ascends(next, pg) /\ \A b \in pg : b \in Nat /\ property[b] \in Nat /\ property[b] >= 1
    BY <2>2, BlockFacts DEF List
  <2> QED  BY <2>1, <2>2, <2>3 DEF Types
<1>3. 0 \in Page /\ 1 \in 1 .. NPage /\ free_list \in Node
  BY Numbers
<1>4. CASE clients = "ascending"
  <2>1. p \in {base, free_list} /\ \A b \in pg : b <= base
    BY <1>1, <1>4 DEF Ascending
  <2>2. ~low
    BY <2>1, <1>2 DEF Touches
  <2>3. b1 = base /\ prop1 = property /\ pg1 = pg /\ nx1 = next /\ pv1 = prev
    BY <2>2
  <2>4. next[base] = free_list
    <3>1. Follows(pg, base, next[base])
      BY <1>2 DEF Ascends
    <3>2. next[base] \in pg => next[base] <= base /\ next[base] \in Nat
      BY <2>1, <1>2
    <3>3. next[base] \in pg => next[base] # free_list
      BY <1>2, Numbers
    <3> QED  BY <3>1, <3>2, <3>3, <1>2 DEF Follows
  <2>5. x = free_list
    BY <2>3, <2>4
  <2>6. property' = property /\ pg' = pg /\ next' = next /\ prev' = prev
    BY <2>3, <2>5, <1>1
  <2>7. Types'
    BY <2>6, <1>1, <1>3 DEF Types
  <2>8. List'
    BY <2>6, <1>1, <1>2 DEF List
  <2>9. Allocating' /\ KeepTop' /\ Ascending'
    BY <1>1, <1>4 DEF Allocating, KeepTop, Ascending
  <2> QED  BY <2>7, <2>8, <2>9
<1>5. CASE clients = "keep_top"
  <2>1. Linked(next, prev, property, pg, free) /\ Apart(property, pg, base)
    BY <1>1, <1>2, <1>5 DEF KeepTop, Linked
  <2>2. /\ Linked(nx1, pv1, prop1, pg1, free) /\ b1 \in pg1
        /\ \A c, d \in pg1 : c + prop1[c] = d => c = b1
    <3>1. CASE low
      <4>1. p # free_list /\ p + property[p] = base
        BY <3>1 DEF Touches
      <4>2. p \in pg /\ next[p] = base
        BY <4>1, <2>1, <1>2 DEF Linked, Mirrors
      <4>3. /\ b1 = p /\ prop1 = [property EXCEPT ![p] = @ + property[base]]
            /\ pg1 = pg \ {base} /\ nx1 = DelNext(next, p, next[base])
            /\ pv1 = DelPrev(prev, p, next[base])
        BY <3>1
      <4> HIDE DEF p, low, b1, prop1, pg1, nx1, pv1
      <4>4. /\ base # p /\ Linked(nx1, pv1, prop1, pg1, free)
            /\ \A c, d \in pg1 : c + prop1[c] = d =>
                 \/ c # p /\ c + property[c] = d
                 \/ c = p /\ base + property[base] = d
        <5>1. /\ base \in pg /\ p \in pg /\ next[p] = base /\ p + property[p] = base
              /\ Linked(next, prev, property, pg, free)
          BY <4>1, <4>2, <2>1, <1>2
        <5>2. LET new == [property EXCEPT ![p] = @ + property[base]] IN
              /\ prev[base] = p /\ base # p
              /\ Linked(DelNext(next, p, next[base]), DelPrev(prev, p, next[base]), new,
                        pg \ {base}, free)
              /\ \A c, d \in pg \ {base} : c + new[c] = d =>
                   \/ c # p /\ c + property[c] = d
                   \/ c = p /\ base + property[base] = d
          BY <5>1, Join
        <5> QED  BY <5>2, <4>3
      <4>5. ASSUME NEW c \in pg1, NEW d \in pg1, c + prop1[c] = d PROVE c = p
        <5>1. SUFFICES ASSUME c # p PROVE FALSE
          OBVIOUS
        <5>2. c \in pg /\ d \in pg /\ base \notin {c, d} /\ c + property[c] = d
          BY <5>1, <4>3, <4>4, <4>5
        <5>3. c < d
          BY <5>2, <1>2
        <5> QED  BY <5>2, <5>3, <2>1 DEF Apart
      <4> QED  BY <4>2, <4>3, <4>4, <4>5
    <3>2. CASE ~low
      <4>1. b1 = base /\ prop1 = property /\ pg1 = pg /\ nx1 = next /\ pv1 = prev
        BY <3>2
      <4>2. ASSUME NEW c \in pg, NEW d \in pg, c + property[c] = d PROVE c = base
        <5>1. c < d
          BY <4>2, <1>2
        <5>2. c = base \/ d = base
          BY <5>1, <4>2, <2>1 DEF Apart
        <5>3. ASSUME d = base PROVE FALSE
          <6>1. p = c
            BY <5>3, <4>2, <2>1, TouchesNext
          <6>2. p # free_list
            BY <6>1, <1>2, Numbers
          <6> QED  BY <6>1, <6>2, <5>3, <4>2, <3>2 DEF Touches
        <5> QED  BY <5>2, <5>3
      <4> QED  BY <4>1, <4>2, <2>1, <1>2
    <3> QED  BY <3>1, <3>2
  <2>3. x = nx1[b1] /\ (high <=> x # free_list /\ b1 + prop1[b1] = x)
    BY DEF Touches
  <2> HIDE DEF p, low, b1, prop1, pg1, nx1, pv1, x, high
  <2>4. /\ Linked(next', prev', property', pg', free)
        /\ \A c, d \in pg' : c + property'[c] # d
    <3>1. CASE high
      <4>1. x \in pg1 /\ nx1[b1] = x /\ b1 + prop1[b1] = x
        BY <3>1, <2>2, <2>3 DEF Linked, Ascends, Follows
      <4>2. pv1[x] = b1
        BY <4>1, <2>2 DEF Linked, Mirrors
      <4>3. /\ property' = [prop1 EXCEPT ![b1] = @ + prop1[x]] /\ pg' = pg1 \ {x}
            /\ next' = DelNext(nx1, b1, nx1[x]) /\ prev' = DelPrev(pv1, b1, nx1[x])
        BY <3>1, <4>2, <1>1
      <4>4. /\ x # b1 /\ Linked(next', prev', property', pg', free)
            /\ \A c, d \in pg' : c + property'[c] = d =>
                 \/ c # b1 /\ c + prop1[c] = d
                 \/ c = b1 /\ x + prop1[x] = d
        <5> DEFINE new == [prop1 EXCEPT ![b1] = @ + prop1[x]]
        <5>1. /\ x # b1
              /\ Linked(DelNext(nx1, b1, nx1[x]), DelPrev(pv1, b1, nx1[x]), new,
                        pg1 \ {x}, free)
              /\ \A c, d \in pg1 \ {x} : c + new[c] = d =>
                   \/ c # b1 /\ c + prop1[c] = d
                   \/ c = b1 /\ x + prop1[x] = d
          BY <4>1, <2>2, Join
        <5> QED  BY <5>1, <4>3
      <4>5. ASSUME NEW c \in pg', NEW d \in pg', c + property'[c] = d PROVE FALSE
        <5>1. c \in pg1 /\ d \in pg1
          BY <4>3
        <5>2. \/ c # b1 /\ c + prop1[c] = d
              \/ x + prop1[x] = d
          BY <4>4, <4>5
        <5> QED  BY <5>1, <5>2, <4>1, <4>4, <2>2
      <4> QED  BY <4>4, <4>5
    <3>2. CASE ~high
      <4>1. property' = prop1 /\ pg' = pg1 /\ next' = nx1 /\ prev' = pv1
        BY <3>2, <1>1
      <4>2. ASSUME NEW c \in pg1, NEW d \in pg1, c + prop1[c] = d PROVE FALSE
        <5>1. c = b1
          BY <4>2, <2>2
        <5>2. nx1[c] = d
          BY <4>2, <2>2, TouchesNext
        <5>3. d # free_list
          BY <4>2, <2>2, Numbers DEF Linked, Sizes
        <5> QED  BY <5>1, <5>2, <5>3, <4>2, <3>2, <2>3
      <4> QED  BY <4>1, <4>2, <2>2
    <3> QED  BY <3>1, <3>2
  <2>5. /\ next' \in [Node -> Node] /\ prev' \in [Node -> Node] /\ Sizes(property', pg', free)
        /\ Ascends(next', pg') /\ Mirrors(next', prev', pg')
    BY <2>4 DEF Linked
  <2>6. Types'
    BY <2>5, <1>1, <1>3 DEF Types, Sizes
  <2>7. List'
    <3>1. prev'[next'[free_list]] = free_list
      BY <2>5 DEF Mirrors
    <3> QED  BY <3>1, <2>5, <1>1, <1>2 DEF List, Sizes
  <2>8. ASSUME NEW c \in pg', NEW d \in pg', c < d PROVE c + property'[c] < d
    <3>1. c \in Nat /\ d \in Nat /\ property'[c] \in Nat
      BY <2>5, BlockFacts
    <3>2. c + property'[c] <= d
      BY <2>5, <2>8 DEF Sizes, Covers
    <3>3. c + property'[c] # d
      BY <2>4
    <3> QED  BY <3>1, <3>2, <3>3
  <2>9. KeepTop'
    BY <2>5, <2>8, <1>1, <1>2, <1>5 DEF KeepTop
  <2>10. Allocating' /\ Ascending'
    BY <1>1, <1>5 DEF Allocating, Ascending
  <2> QED  BY <2>6, <2>7, <2>9, <2>10
<1> QED  BY <1>4, <1>5 DEF Types

\* The invariant is inductive.
LEMMA StepGood ==
    ASSUME Good, [Next]_vars
    PROVE  Good'
<1>1. CASE UNCHANGED vars
  <2>1. free' = free /\ Listed' = Listed
    BY <1>1 DEF vars, free, Listed
  <2> QED  BY <1>1, <2>1 DEF vars, Good, Types, List, Allocating, MayAlloc, KeepTop, Ascending
<1>2. CASE Next
  <2>1. UNCHANGED clients /\ (AllocCall \/ FreeCall \/ Step)
    BY <1>2 DEF Next
  <2>2. CASE AllocCall
    BY <2>1, <2>2, AllocCallGood
  <2>3. CASE FreeCall
    BY <2>1, <2>3, FreeCallGood
  <2>4. CASE AllocScan
    BY <2>1, <2>4, AllocScanGood
  <2>5. CASE AllocFails
    BY <2>1, <2>5, AllocFailsGood
  <2>6. CASE AllocTake
    BY <2>1, <2>6, AllocTakeGood
  <2>7. CASE FreeBefore
    BY <2>1, <2>7, FreeBeforeGood
  <2>8. CASE FreeAfter
    BY <2>1, <2>8, FreeAfterGood
  <2>9. CASE FreeScan
    BY <2>1, <2>9, FreeScanGood
  <2>10. CASE FreeLoopEnd
    BY <2>1, <2>10, FreeLoopEndGood
  <2>11. CASE Merge
    BY <2>1, <2>11, MergeGood
  <2> QED  BY <2>1, <2>2, <2>3, <2>4, <2>5, <2>6, <2>7, <2>8, <2>9, <2>10, <2>11 DEF Step
<1> QED  BY <1>1, <1>2

----------------------------------------------------------------------------
(***************************************************************************)
(* The theorems.                                                           *)
(***************************************************************************)

\* Whatever clients of the two disciplines do, the invariant of default_pmm.c's list
\* holds; under any other use of free_pages nothing is claimed.
THEOREM ListInvariant == Spec => []PInv
<1>1. Init => PInv
  BY InitGood DEF PInv
<1>2. PInv /\ [Next]_vars => PInv'
  <2> SUFFICES ASSUME PInv, [Next]_vars PROVE PInv'
    OBVIOUS
  <2>1. clients' = clients
    BY DEF Next, vars
  <2> QED  BY <2>1, StepGood DEF PInv
<1> QED  BY <1>1, <1>2, PTL DEF Spec

\* Between two calls, as long as the topmost page stays free, the list is sorted,
\* linked both ways, made up of the free pages in blocks that are merged, and nr_free
\* is their number: what default_alloc_pages and default_free_pages rely on.
THEOREM ListCorrect == Spec => []ListExact
<1>1. PInv => ListExact
  <2> SUFFICES ASSUME PInv, pc = "idle", clients = "keep_top"
               PROVE  LinksSorted /\ BlocksExact /\ nr_free = Cardinality(free)
    BY DEF ListExact
  <2>1. Good
    BY DEF PInv
  <2>2. Listed = pg
    BY DEF Listed
  <2>3. /\ Ascends(next, pg) /\ Mirrors(next, prev, pg) /\ Covers(property, pg, free)
        /\ nr_free = Cardinality(free)
        /\ \A b, c \in pg : b < c => b + property[b] < c
    BY <2>1, <2>2 DEF Good, List, KeepTop
  <2>4. LinksSorted
    BY <2>3 DEF LinksSorted, Successor, Ascends, Follows, Mirrors
  <2>5. BlocksExact
    BY <2>3 DEF BlocksExact, Covers
  <2> QED  BY <2>3, <2>4, <2>5
<1> QED  BY <1>1, ListInvariant, PTL

\* Clients keep to what they do.
Disciplined == clients \in Clients

\* The discipline of the clients does not change.
LEMMA ClientsStay == Spec => []Disciplined
<1>1. Init => Disciplined
  BY DEF Init, Disciplined
<1>2. Disciplined /\ [Next]_vars => Disciplined'
  BY DEF Next, vars, Disciplined
<1> QED  BY <1>1, <1>2, PTL DEF Spec

\* alloc_pages never hands out a page that a client still has, for clients that leave
\* the topmost page free or that take single pages and free in ascending order.  For
\* clients that do neither the run pmm_double_alloc shows the opposite.
THEOREM HandsOutCorrect ==
    ASSUME "any" \notin Clients
    PROVE  Spec => []HandsOutFree
<1>1. PInv /\ Disciplined => HandsOutFree
  <2> SUFFICES ASSUME PInv, Disciplined, pc = "alloc", le # free_list, Fits
               PROVE  Run(le, n) \cap held = {}
    BY DEF HandsOutFree
  <2>1. Good
    BY DEF PInv, Disciplined
  <2>2. Run(le, n) \subseteq free
    BY <2>1, FoundFacts
  <2> QED  BY <2>2 DEF free
<1> QED  BY <1>1, ClientsStay, ListInvariant, PTL

\* For the same clients the list of blocks is a first-fit allocator over a set of
\* pages: alloc_pages returns the lowest run of free pages that is long enough, NULL
\* only when there is none, and free_pages gives back what was held.
THEOREM FirstFitCorrect ==
    ASSUME "any" \notin Clients
    PROVE  Spec => ImplementsPhysMem
<1>1. Init => Abstract!PInit
  <2> SUFFICES ASSUME Init PROVE Abstract!PInit
    OBVIOUS
  <2>1. held = {} /\ ret = NULL
    BY DEF Init
  <2> QED  BY <2>1 DEF Abstract!PInit, Abstract!Page, free, Page
<1>2. ASSUME Good, [Next]_vars PROVE [Abstract!PNext]_Abstract!pvars
  <2>1. /\ Sizes(property, pg, free) /\ nr_free = Cardinality(free) /\ free \in SUBSET Page
        /\ held \subseteq Page /\ n \in 1 .. NPage
    BY <1>2, StateFacts DEF Good, List, Sizes, Types
  <2>2. CASE UNCHANGED vars
    BY <2>2 DEF vars, free, Abstract!pvars
  <2>3. CASE AllocCall
    <3>1. PICK k \in 1 .. NPage :
            /\ IF k > nr_free THEN ret' = NULL ELSE UNCHANGED ret
            /\ UNCHANGED held
      BY <2>3 DEF AllocCall
    <3>2. free' = free
      BY <3>1 DEF free
    <3>3. CASE k > nr_free
      <4>1. ASSUME NEW c \in Page, Run(c, k) \subseteq free PROVE FALSE
        <5>1. k <= Cardinality(free) /\ Cardinality(free) \in 0 .. NPage
          BY <4>1, <2>1, Counts
        <5> QED  BY <5>1, <3>3, <2>1
      <4>2. Abstract!PAllocFails
        BY <4>1, <3>1, <3>2, <3>3 DEF Abstract!PAllocFails, Abstract!Page, Abstract!Run, Page, Run
      <4> QED  BY <4>2 DEF Abstract!PNext
    <3>4. CASE ~(k > nr_free)
      BY <3>1, <3>2, <3>4 DEF Abstract!pvars
    <3> QED  BY <3>3, <3>4
  <2>4. CASE FreeCall
    <3>1. PICK b \in Page, k \in 1 .. NPage :
            MayFree(b, k) /\ held' = held \ Run(b, k) /\ UNCHANGED ret
      BY <2>4 DEF FreeCall
    <3>2. Run(b, k) \subseteq Page \ free /\ free' = free \cup Run(b, k)
      BY <3>1, <2>1 DEF MayFree, free
    <3>3. Abstract!PFree
      BY <3>1, <3>2 DEF Abstract!PFree, Abstract!Page, Abstract!Run, Page, Run
    <3> QED  BY <3>3 DEF Abstract!PNext
  <2>5. CASE AllocTake
    <3>1. pc = "alloc" /\ le # free_list /\ Fits /\ held' = held \cup Run(le, n) /\ ret' = le
      BY <2>5 DEF AllocTake
    <3>2. /\ le \in pg /\ Run(le, n) \subseteq free
          /\ \A c \in Page : Run(c, n) \subseteq free => le <= c
      BY <3>1, <1>2, FoundFacts
    <3>3. le \in Page /\ free' = free \ Run(le, n)
      BY <3>1, <3>2, <2>1 DEF Sizes, free
    <3>4. Abstract!PAlloc
      BY <3>1, <3>2, <3>3, <2>1
      DEF Abstract!PAlloc, Abstract!FirstFit, Abstract!Page, Abstract!Run, Page, Run
    <3> QED  BY <3>4 DEF Abstract!PNext
  <2>6. CASE AllocFails
    <3>1. pc = "alloc" /\ le = free_list /\ ret' = NULL /\ UNCHANGED held
      BY <2>6 DEF AllocFails
    <3>2. \A b \in pg : property[b] < n
      BY <3>1, <1>2 DEF Good, Allocating
    <3>3. \A b \in pg : b \in Nat /\ property[b] \in Nat /\ property[b] >= 1
      BY <2>1, BlockFacts
    <3>4. ASSUME NEW c \in Page, Run(c, n) \subseteq free PROVE FALSE
      <4>0. c \in Nat /\ n \in Nat /\ n >= 1 /\ c \in Run(c, n)
        <5>1. c \in Nat /\ n \in Nat /\ n >= 1
          BY <2>1, Numbers
        <5> QED  BY <5>1 DEF Run
      <4>1. CASE clients = "keep_top"
        <5>1. \A b, d \in pg : b < d => b + property[b] < d
          BY <4>1, <3>1, <1>2 DEF Good, KeepTop
        <5>2. PICK b \in pg : b <= c /\ c + n <= b + property[b]
          BY <5>1, <3>4, <2>1, OneBlock
        <5> QED  BY <5>2, <4>0, <3>2, <3>3
      <4>2. CASE clients = "ascending"
        <5>1. n = 1
          BY <4>2, <3>1, <1>2 DEF Good, Ascending
        <5>2. PICK b \in pg : c \in Run(b, property[b])
          BY <4>0, <3>4, <2>1 DEF Sizes, Covers
        <5> QED  BY <5>1, <5>2, <3>2, <3>3
      <4> QED  BY <4>1, <4>2, <1>2 DEF Good, Types
    <3>5. free' = free
      BY <3>1 DEF free
    <3>6. Abstract!PAllocFails
      BY <3>1, <3>4, <3>5, <2>1 DEF Abstract!PAllocFails, Abstract!Page, Abstract!Run, Page, Run
    <3> QED  BY <3>6 DEF Abstract!PNext
  <2>7. CASE AllocScan \/ FreeBefore \/ FreeAfter \/ FreeScan \/ FreeLoopEnd \/ Merge
    <3>1. ret' = ret /\ held' = held
      BY <2>7 DEF AllocScan, FreeBefore, FreeAfter, FreeScan, FreeLoopEnd, Merge
    <3> QED  BY <3>1 DEF free, Abstract!pvars
  <2> QED  BY <1>2, <2>2, <2>3, <2>4, <2>5, <2>6, <2>7 DEF Next, Step
<1>3. PInv /\ Disciplined /\ [Next]_vars => [Abstract!PNext]_Abstract!pvars
  BY <1>2 DEF PInv, Disciplined
<1> QED  BY <1>1, <1>3, ClientsStay, ListInvariant, PTL DEF Spec, ImplementsPhysMem, Abstract!PSpec
=============================================================================
