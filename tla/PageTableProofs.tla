--------------------------- MODULE PageTableProofs ----------------------------
(***************************************************************************)
(* Proofs about PageTable: reference counts are exact, a space that ends   *)
(* gives back its pages, and the memory of a process is private, for any   *)
(* number of frames, size of tables and areas.                             *)
(*                                                                         *)
(* exit_range frees a second-level table as soon as the page tables in the *)
(* range of one call are gone, and may leave a second-level table behind   *)
(* when some of them are missing.  The proofs carry that along: a table    *)
(* may lose the entry above it, but only one that leads nowhere, and none  *)
(* does when OneTableEach holds.                                           *)
(***************************************************************************)
EXTENDS PageTable, FiniteSetTheorems, WellFoundedInduction, SequenceTheorems, TLAPS

\* Division by n: the quotient and the remainder.
LEMMA Division ==
    ASSUME NEW a \in Nat, NEW n \in Nat \ {0}
    PROVE  a \div n \in Nat /\ a % n \in 0 .. n - 1 /\ a = n * (a \div n) + (a % n)
  BY SMTT(30)

\* Quotient and remainder are unique.
LEMMA Quotient ==
    ASSUME NEW a, NEW n \in Nat \ {0}, NEW q \in Nat, NEW r \in 0 .. n - 1, a = n * q + r
    PROVE  a \div n = q /\ a % n = r
  BY SMTT(30)

\* A smaller quotient, one multiple of n less at least.
LEMMA Grows ==
    ASSUME NEW n \in Nat, NEW q \in Nat, NEW r \in Nat, q < r
    PROVE  n * q + n <= n * r
  BY SMTT(30)

\* The address with index i in the first level, j in the second, k in the last.
Address(i, j, k) == N * (N * i + j) + k

\* Addresses made of three indices have these indices.
LEMMA Digits ==
    ASSUME NEW i \in Idx, NEW j \in Idx, NEW k \in Idx
    PROVE  LET la == Address(i, j, k)
           IN  /\ la \in La
               /\ la \div N = N * i + j /\ la \div (N * N) = i
               /\ PDX1(la) = i /\ PDX0(la) = j /\ PTX(la) = k
<1> DEFINE q == N * i + j
           la == Address(i, j, k)
<1>1. N \in Nat \ {0} /\ N * N \in Nat \ {0}
  BY PageTableAssumption, SMTT(30)
<1>2. i \in Nat /\ j \in Nat /\ k \in Nat /\ i < N /\ j < N /\ k < N
  BY <1>1 DEF Idx
<1>3. q \in Nat /\ la = N * q + k /\ la \in Nat /\ N * j + k \in Nat /\ N * j + k < N * N
  <2>1. N * j + N <= N * N
    BY <1>1, <1>2, Grows
  <2>2. q \in Nat /\ la = N * q + k
    BY <1>1, <1>2, SMTT(30) DEF Address
  <2> HIDE DEF q, la
  <2> QED
    BY <1>1, <1>2, <2>1, <2>2, SMTT(30)
<1>4. la = (N * N) * i + (N * j + k)
  BY <1>1, <1>2, SMTT(30) DEF Address
<1>5. la \div N = q /\ la % N = k
  BY <1>1, <1>3, Quotient, Zenon DEF Idx
<1>6. q \div N = i /\ q % N = j
  BY <1>1, <1>2, Quotient, Zenon DEF Idx
<1>7. la \div (N * N) = i
  <2>1. N * j + k \in 0 .. N * N - 1
    BY <1>1, <1>3, SMTT(30)
  <2> QED
    BY <1>1, <1>2, <1>4, <2>1, Quotient, Zenon
<1>8. i % N = i
  BY <1>1, <1>2, SMTT(30)
<1>9. la < N * N * N
  <2>1. (N * N) * i + N * N <= (N * N) * N
    BY <1>1, <1>2, Grows
  <2> HIDE DEF la
  <2> QED
    BY <1>1, <1>2, <1>3, <1>4, <2>1, SMTT(30)
<1>10. la \in La
  <2> HIDE DEF la
  <2> QED
    BY <1>1, <1>3, <1>9, SMTT(30) DEF La
<1> QED
  <2>1. PDX1(la) = i /\ PDX0(la) = j /\ PTX(la) = k
    BY <1>5, <1>6, <1>7, <1>8, Zenon DEF PDX1, PDX0, PTX
  <2> QED
    BY <1>5, <1>7, <1>10, <2>1, Zenon

\* Every address is put together from its three indices.
LEMMA Indices ==
    ASSUME NEW la \in La
    PROVE  /\ PDX1(la) \in Idx /\ PDX0(la) \in Idx /\ PTX(la) \in Idx
           /\ la = Address(PDX1(la), PDX0(la), PTX(la))
           /\ la \div N = N * PDX1(la) + PDX0(la) /\ la \div (N * N) = PDX1(la)
<1> DEFINE q == la \div N
           i == q \div N
           j == q % N
           k == la % N
<1>1. N \in Nat \ {0} /\ la \in Nat /\ la < N * N * N
  BY PageTableAssumption DEF La
<1>2. q \in Nat /\ k \in Idx /\ la = N * q + k
  BY <1>1, Division DEF Idx
<1>3. i \in Nat /\ j \in Idx /\ q = N * i + j
  BY <1>1, <1>2, Division DEF Idx
<1>4. i \in Idx
  <2> HIDE DEF i, j, k, q
  <2>1. SUFFICES ASSUME N <= i PROVE FALSE
    BY <1>1, <1>3 DEF Idx
  <2>2. N * N <= N * i
    BY <1>1, <1>3, <2>1, SMTT(30)
  <2>3. j \in Nat /\ k \in Nat
    BY <1>1, <1>2, <1>3 DEF Idx
  <2>4. N * N <= q
    BY <1>1, <1>3, <2>2, <2>3, SMTT(30)
  <2>5. N * (N * N) <= N * q
    BY <1>1, <1>2, <2>4, SMTT(30)
  <2> QED
    BY <1>1, <1>2, <2>3, <2>5, SMTT(30)
<1> HIDE DEF i, j, k, q
<1>5. la = Address(i, j, k)
  BY <1>2, <1>3 DEF Address
<1> QED
  BY <1>2, <1>3, <1>4, <1>5, Digits

\* Two addresses have the same page table exactly if they differ in the last index only.
LEMMA SameTable ==
    ASSUME NEW la \in La, NEW lb \in La
    PROVE  (la \div N = lb \div N) <=> (PDX1(la) = PDX1(lb) /\ PDX0(la) = PDX0(lb))
<1>1. SUFFICES ASSUME la \div N = lb \div N PROVE PDX1(la) = PDX1(lb) /\ PDX0(la) = PDX0(lb)
  BY Indices
<1>2. N \in Nat \ {0}
  BY PageTableAssumption
<1>3. ASSUME NEW x \in La
      PROVE  PDX1(x) = (x \div N) \div N /\ PDX0(x) = (x \div N) % N
  <2>1. /\ PDX1(x) \in Nat /\ PDX0(x) \in 0 .. N - 1
        /\ x \div N = N * PDX1(x) + PDX0(x)
    BY Indices DEF Idx
  <2> QED
    BY <1>2, <2>1, Quotient, Zenon
<1> QED
  BY <1>1, <1>3, Zenon

\* An address is its three indices.
LEMMA Unique ==
    ASSUME NEW la \in La, NEW lb \in La,
           PDX1(la) = PDX1(lb), PDX0(la) = PDX0(lb), PTX(la) = PTX(lb)
    PROVE  la = lb
  BY Indices

\* The loops advance to the first address of the next table or directory entry.
LEMMA NextMultiple ==
    ASSUME NEW n \in Nat \ {0}, NEW a \in Nat
    PROVE  LET next == ((a + n) \div n) * n
           IN  /\ next \in Nat /\ a < next /\ next <= a + n
               /\ next = n * (a \div n) + n
               /\ \A b \in Nat : a <= b /\ b < next => b \div n = a \div n
<1> DEFINE q == a \div n
           r == a % n
<1>1. q \in Nat /\ r \in 0 .. n - 1 /\ a = n * q + r
  BY Division
<1> HIDE DEF q, r
<1>2. a + n = n * (q + 1) + r
  BY <1>1, SMTT(30)
<1>3. (a + n) \div n = q + 1
  BY <1>1, <1>2, Quotient
<1>4. (q + 1) * n = n * q + n /\ n * q \in Nat
  BY <1>1, SMTT(30)
<1>5. ASSUME NEW b \in Nat, a <= b, b < n * q + n
      PROVE  b \div n = q
  <2>1. b - n * q \in 0 .. n - 1 /\ b = n * q + (b - n * q)
    BY <1>1, <1>4, <1>5, SMTT(30)
  <2> QED
    BY <1>1, <2>1, Quotient
<1> QED
  <2>1. /\ (q + 1) * n \in Nat /\ a < (q + 1) * n /\ (q + 1) * n <= a + n
        /\ \A b \in Nat : a <= b /\ b < (q + 1) * n => b \div n = q
    BY <1>1, <1>4, <1>5
  <2> QED
    BY <1>3, <1>4, <2>1, Zenon DEF q

\* Rounding down to a multiple.
LEMMA LastMultiple ==
    ASSUME NEW n \in Nat \ {0}, NEW a \in Nat
    PROVE  LET last == (a \div n) * n
           IN  last \in Nat /\ last <= a /\ a < last + n /\ last % n = 0 /\ last \div n = a \div n
<1> DEFINE q == a \div n
           r == a % n
<1>1. q \in Nat /\ r \in 0 .. n - 1 /\ a = n * q + r
  BY Division
<1> HIDE DEF q, r
<1>2. q * n = n * q + 0 /\ n * q \in Nat
  BY <1>1, SMTT(30)
<1>3. (q * n) \div n = q /\ (q * n) % n = 0
  BY <1>1, <1>2, Quotient
<1> QED
  BY <1>1, <1>2, <1>3 DEF q

\* What copy_range and unmap_range skip, where there is no page table, is of that table.
LEMMA NextTableFacts ==
    ASSUME NEW la \in La
    PROVE  /\ NextTable(la) \in Nat /\ la < NextTable(la)
           /\ \A lb \in La : la <= lb /\ lb < NextTable(la)
                => PDX1(lb) = PDX1(la) /\ PDX0(lb) = PDX0(la)
<1>1. N \in Nat \ {0} /\ la \in Nat
  BY PageTableAssumption DEF La
<1>2. \A lb \in La : lb \in Nat
  BY PageTableAssumption DEF La
<1> QED
  BY <1>1, <1>2, NextMultiple, SameTable DEF NextTable

\* What exit_range steps over is of one entry of the page directory.
LEMMA NextDirFacts ==
    ASSUME NEW la \in La
    PROVE  /\ NextDir(la) \in Nat /\ la < NextDir(la) /\ NextDir(la) % N = 0
           /\ \A lb \in La : la <= lb /\ lb < NextDir(la) => PDX1(lb) = PDX1(la)
<1>1. N \in Nat \ {0} /\ N * N \in Nat \ {0} /\ la \in Nat
  BY PageTableAssumption, SMTT(30) DEF La
<1>2. \A lb \in La : lb \in Nat
  BY PageTableAssumption DEF La
<1> DEFINE q == (la + N * N) \div (N * N)
<1>3. q \in Nat
  <2>1. la + N * N \in Nat
    BY <1>1
  <2> QED
    BY <1>1, <2>1, Division, Zenon
<1>4. /\ NextDir(la) \in Nat /\ la < NextDir(la)
      /\ \A b \in Nat : la <= b /\ b < NextDir(la) => b \div (N * N) = la \div (N * N)
  BY <1>1, NextMultiple DEF NextDir
<1>5. NextDir(la) = N * (N * q) + 0
  <2> HIDE DEF q
  <2> QED
    BY <1>1, <1>3, SMTT(30) DEF NextDir, q
<1>6. N * q \in Nat /\ 0 \in 0 .. N - 1
  BY <1>1, <1>3, SMTT(30)
<1>7. NextDir(la) % N = 0
  BY <1>1, <1>5, <1>6, Quotient, Zenon
<1> QED
  BY <1>2, <1>4, <1>7, Indices

\* The first addresses of two tables in a row.
LEMMA TableStarts ==
    ASSUME NEW la \in La, la % N = 0
    PROVE  /\ \A lb \in La : la <= lb /\ lb < la + N => PDX1(lb) = PDX1(la) /\ PDX0(lb) = PDX0(la)
           /\ la + N \in La /\ la + N < NextDir(la)
                => PDX1(la + N) = PDX1(la) /\ PDX0(la + N) # PDX0(la)
           /\ (la + N) % N = 0
<1>1. N \in Nat \ {0} /\ la \in Nat
  BY PageTableAssumption DEF La
<1> DEFINE q == la \div N
<1>2. q \in Nat /\ la = N * q
  BY <1>1, Division
<1> HIDE DEF q
<1>3. la + N = N * (q + 1) + 0 /\ q + 1 \in Nat /\ 0 \in 0 .. N - 1
  BY <1>1, <1>2, SMTT(30)
<1>4. (la + N) \div N = q + 1 /\ (la + N) % N = 0
  BY <1>1, <1>3, Quotient, Zenon
<1>5. NextTable(la) = la + N
  BY <1>1, <1>2, <1>3, <1>4, SMTT(30) DEF NextTable
<1>6. la + N \in La => ~(PDX1(la + N) = PDX1(la) /\ PDX0(la + N) = PDX0(la))
  BY <1>2, <1>4, SameTable DEF q
<1> QED
  BY <1>1, <1>4, <1>5, <1>6, NextTableFacts, NextDirFacts

\* Every entry of every frame that may be a table.
Slot == Frame \X Idx

\* The entries of s that point to f.
SlotsOf(s, f) == {c \in Slot : At(s, c) = f}

\* What the entries of a table lead to.
Below == {<<"pgdir", "pd0">>, <<"pd0", "pt">>, <<"pt", "page">>}

\* Page directories lead to second-level tables, those to page tables, those to pages.
Levels(s) == \A c \in Slot : At(s, c) # NULL => <<s.kind[c[1]], s.kind[At(s, c)]>> \in Below

\* A table that leads nowhere.
Hollow(s, f) == \A i \in Idx : At(s, <<f, i>>) = NULL

\* No entry leads to f, and f leads nowhere: what exit_range may do to a table.
Forgotten(s, f) == SlotsOf(s, f) = {} /\ Hollow(s, f) /\ ~OneTableEach

\* A page is counted once per entry, a table has the one entry above it or is forgotten.
Counted(s) == \A f \in Frame :
    /\ s.kind[f] = "page" => s.ref[f] = Cardinality(SlotsOf(s, f))
    /\ s.kind[f] \in {"pd0", "pt"} =>
         s.ref[f] = 1 /\ ((\E c \in Slot : SlotsOf(s, f) = {c}) \/ Forgotten(s, f))
    /\ s.kind[f] = "free" => s.ref[f] = 0

\* No table is forgotten.
Linked(s) == \A f \in Frame : s.kind[f] \in {"pd0", "pt"} => SlotsOf(s, f) # {}

\* What holds of memory between any two steps.
Sound(s) == s \in Memory /\ Levels(s) /\ Counted(s)

\* The entry c of u is x, the others are those of s.
Points(s, u, c, x) == \A e \in Slot : At(u, e) = IF e = c THEN x ELSE At(s, e)
\* No entry differs, nothing outside G differs.
SameEntries(s, u) == \A e \in Slot : At(u, e) = At(s, e)
Others(s, u, G) == \A g \in Frame \ G :
    u.kind[g] = s.kind[g] /\ u.ref[g] = s.ref[g] /\ u.data[g] = s.data[g]

\* Frame f, emptied and of another kind.
Cleared(s, f, k, n) == [s EXCEPT !.kind[f] = k, !.ref[f] = n, !.tab[f] = Empty]

\* Tables may have been made on free pages, nothing else has changed.
Grown(s, u) ==
    /\ u.data = s.data
    /\ \A g \in Frame : IF s.kind[g] = "free" THEN u.kind[g] \in {"free", "pd0", "pt"}
                        ELSE u.kind[g] = s.kind[g] /\ u.ref[g] = s.ref[g]

\* Two addresses under one page table.
Under(la, lb) == PDX1(la) = PDX1(lb) /\ PDX0(la) = PDX0(lb)

\* What the page directories of s show in u: the tables that la needs in space d
\* are there too, the one of the pages is pt.
Opened(s, u, d, la, pt) == \A e \in Frame : s.kind[e] = "pgdir" => \A lb \in La :
    /\ (At(u, <<e, PDX1(lb)>>) = NULL) <=>
          (At(s, <<e, PDX1(lb)>>) = NULL /\ ~(e = d /\ PDX1(lb) = PDX1(la)))
    /\ pt_of(u, e, lb) = IF e = d /\ Under(la, lb) THEN pt ELSE pt_of(s, e, lb)
    /\ get_page(u, e, lb) = get_page(s, e, lb)

\* The way through the tables from page directory d to the page at la.
PathFacts(s, d, la) ==
    LET c1 == <<d, PDX1(la)>>
        pd0 == At(s, c1)
        c0 == <<pd0, PDX0(la)>>
        pt == pt_of(s, d, la)
        c == <<pt, PTX(la)>>
        page == get_page(s, d, la)
    IN  /\ NULL \notin Frame /\ c1 \in Slot
        /\ pd0 = NULL => pt = NULL
        /\ pd0 # NULL => /\ pd0 \in Frame /\ s.kind[pd0] = "pd0"
                         /\ \A e \in Slot : At(s, e) = pd0 => e = c1
                         /\ c0 \in Slot /\ pt = At(s, c0)
        /\ pt = NULL => page = NULL
        /\ pt # NULL => /\ pt \in Frame /\ s.kind[pt] = "pt"
                        /\ \A e \in Slot : At(s, e) = pt => e = c0
                        /\ c \in Slot /\ page = At(s, c)
        /\ page # NULL => /\ page \in Frame /\ s.kind[page] = "page"
                          /\ s.ref[page] = 1 => \A e \in Slot : At(s, e) = page => e = c

\* In u the page at la in space d is x, all else that page directories of s lead
\* to is as it was.
Shows(s, u, d, la, x) == \A e \in Frame : s.kind[e] = "pgdir" => \A lb \in La :
    /\ At(u, <<e, PDX1(lb)>>) = At(s, <<e, PDX1(lb)>>)
    /\ pt_of(u, e, lb) = pt_of(s, e, lb)
    /\ get_page(u, e, lb) = IF e = d /\ lb = la THEN x ELSE get_page(s, e, lb)

\* The same, with the tables for la made where there were none.
Maps(s, u, d, la, x) == \A e \in Frame : s.kind[e] = "pgdir" => \A lb \in La :
    /\ (At(u, <<e, PDX1(lb)>>) = NULL) <=>
          (At(s, <<e, PDX1(lb)>>) = NULL /\ ~(e = d /\ PDX1(lb) = PDX1(la)))
    /\ (pt_of(u, e, lb) = NULL) <=> (pt_of(s, e, lb) = NULL /\ ~(e = d /\ Under(la, lb)))
    /\ get_page(u, e, lb) = IF e = d /\ lb = la THEN x ELSE get_page(s, e, lb)

\* Between v and u an entry that led to o, or to nothing, is made to lead to the
\* page p: what that does to the frames.
Replaced(v, u, p, o) ==
    /\ Others(v, u, {p, o})
    /\ u.kind[p] = "page" /\ u.data[p] = v.data[p]
    /\ u.ref[p] = IF o = p THEN v.ref[p] ELSE v.ref[p] + 1
    /\ o \notin {NULL, p} =>
         /\ o \in Frame /\ v.kind[o] = "page" /\ u.ref[o] = v.ref[o] - 1
         /\ u.kind[o] = IF v.ref[o] = 1 THEN "free" ELSE "page"

\* The page directories of s lead to the same pages in u.
Directories(s) == {e \in Frame : s.kind[e] = "pgdir"}
SamePages(s, u) == \A e \in Directories(s), lb \in La : get_page(u, e, lb) = get_page(s, e, lb)

\* The spaces in D have the same pages in u, with the same contents.
Keeps(s, u, D) == \A e \in D, lb \in La :
    LET page == get_page(s, e, lb)
    IN  get_page(u, e, lb) = page /\ (page # NULL => u.data[page] = s.data[page])

\* A free page now holds a value and is mapped once; tables may have been made.
NewPage(s, u, p) ==
    /\ p \in Frame /\ s.kind[p] = "free"
    /\ u.kind[p] = "page" /\ u.ref[p] = 1 /\ u.data[p] \in Val
    /\ \A g \in Frame \ {p} : /\ u.data[g] = s.data[g]
                             /\ IF s.kind[g] = "free" THEN u.kind[g] \in {"free", "pd0", "pt"}
                                ELSE u.kind[g] = s.kind[g] /\ u.ref[g] = s.ref[g]

----------------------------------------------------------------------------
(***************************************************************************)
(* The invariant.                                                          *)
(***************************************************************************)

\* In these page directories every second-level table leads to a page table.
Full(d) == d = boot_pgdir \/ OneTableEach

\* What is mapped in space d lies in A, and every table is there for an address in A.
Within(s, d, A) ==
    /\ \A la \in La : get_page(s, d, la) # NULL => la \in A
    /\ \A la \in La : pt_of(s, d, la) # NULL => \E lb \in A : Under(la, lb)
    /\ \A la \in La : At(s, <<d, PDX1(la)>>) # NULL =>
          \E lb \in A : PDX1(lb) = PDX1(la) /\ (Full(d) => pt_of(s, d, lb) # NULL)

\* The page directories there are: those of the spaces in D, and boot_pgdir.
OnlyDirs(s, D) ==
    /\ D \subseteq Frame /\ boot_pgdir \in Frame \ D
    /\ \A f \in Frame : (s.kind[f] = "pgdir") <=> f \in D \cup {boot_pgdir}

\* The self-tests use the first page table of boot_pgdir.
Booting(s) ==
    /\ OnlyDirs(s, {})
    /\ Within(s, boot_pgdir, Idx) /\ Linked(s)
    /\ \A f \in Frame : s.kind[f] = "page" => s.ref[f] # 0

\* After them it is empty, the spaces map their areas, and every page is mapped once.
Clean(s, D) ==
    /\ OnlyDirs(s, D)
    /\ Within(s, boot_pgdir, {})
    /\ \A d \in D : Within(s, d, UserLa)
    /\ \A f \in Frame : s.kind[f] = "page" => s.ref[f] = 1 /\ s.data[f] \in Val

\* The values of call.
Calls == [op : {"boot", "idle", "dup", "unmap", "exit", "panic"},
          d : Frame \cup {NULL}, from : Frame \cup {NULL}, k : Nat, la : Nat, all : BOOLEAN]

\* A call is in progress that takes several steps.
Working == call.op \in {"dup", "unmap", "exit"}

\* The spaces, those being made or destroyed included.
Dirs == mm \cup (IF Working THEN {call.d} ELSE {})

\* A call is inside the area it is at, or in front of it.
Position == call.k \in 1 .. Len(Areas) /\ call.la \in La /\ call.la < End(call.k)

\* What the call has done: the areas on the side it comes from, and the present
\* one below the address it is at.
In(k, la) == Start(k) <= la /\ la < End(k)
Past(la) == In(call.k, la) /\ la < call.la
DupSeen(la) == Past(la) \/ \E k \in 1 .. Len(Areas) : k > call.k /\ In(k, la)
Seen(la) == Past(la) \/ \E k \in 1 .. Len(Areas) : k < call.k /\ In(k, la)

\* dup_mmap: the child has exactly the pages of the parent that were copied.
Dup == call.op = "dup" =>
    /\ Position /\ Start(call.k) <= call.la /\ call.from \in mm
    /\ \A la \in La :
         LET page == get_page(m, call.from, la)
             npage == get_page(m, call.d, la)
         IN  IF DupSeen(la) /\ page # NULL THEN npage # NULL /\ m.data[npage] = m.data[page]
             ELSE npage = NULL

\* unmap_range: the areas done map nothing.
Unmap == call.op = "unmap" =>
    /\ Position /\ Start(call.k) <= call.la
    /\ \A la \in La : Seen(la) => get_page(m, call.d, la) = NULL

\* There is no page table for la, with OneTableEach no second-level table either.
Gone(s, d, la) == pt_of(s, d, la) = NULL /\ (OneTableEach => At(s, <<d, PDX1(la)>>) = NULL)

\* exit_range: nothing is mapped, and the tables of the areas done are gone.
Exit == call.op = "exit" =>
    /\ Position /\ Start(call.k) < call.la + N /\ call.la % N = 0
    /\ \A la \in La : get_page(m, call.d, la) = NULL
    /\ \A la \in La : Seen(la) => Gone(m, call.d, la)
    /\ OneTableEach => call.all = TRUE

\* The inductive invariant.
TInv ==
    /\ Sound(m) /\ mm \subseteq Frame
    /\ call \in Calls
    /\ call.op = "idle" => call = Idle
    /\ call.op = "boot" => mm = {} /\ Booting(m)
    /\ call.op \in {"idle", "dup", "unmap", "exit"} => Clean(m, Dirs)
    /\ Working => call.d \notin mm
    /\ Dup /\ Unmap /\ Exit

\* An entry leads to a frame or nowhere.
LEMMA EntryIn ==
    ASSUME NEW s \in Memory, NEW c \in Slot
    PROVE  /\ c[1] \in Frame /\ c[2] \in Idx /\ c = <<c[1], c[2]>>
           /\ s.tab \in [Frame -> [Idx -> Frame \cup {NULL}]]
           /\ At(s, c) \in Frame \cup {NULL} /\ NULL \notin Frame
<1>1. c[1] \in Frame /\ c[2] \in Idx /\ c = <<c[1], c[2]>>
  BY DEF Slot
<1>2. s.tab \in [Frame -> [Idx -> Frame \cup {NULL}]]
  BY DEF Memory
<1>3. At(s, c) \in Frame \cup {NULL}
  BY <1>1, <1>2 DEF At
<1> QED
  BY <1>1, <1>2, <1>3, PageTableAssumption

\* Memory with other uses of the frames is memory.
LEMMA WithKind ==
    ASSUME NEW s \in Memory, NEW x \in [Frame -> Kind]
    PROVE  LET u == [s EXCEPT !.kind = x]
           IN  u \in Memory /\ u.kind = x /\ u.ref = s.ref /\ u.tab = s.tab /\ u.data = s.data
  BY DEF Memory

\* The same for the reference counts.
LEMMA WithRef ==
    ASSUME NEW s \in Memory, NEW x \in [Frame -> Nat]
    PROVE  LET u == [s EXCEPT !.ref = x]
           IN  u \in Memory /\ u.kind = s.kind /\ u.ref = x /\ u.tab = s.tab /\ u.data = s.data
  BY DEF Memory

\* The same for the entries.
LEMMA WithTab ==
    ASSUME NEW s \in Memory, NEW x \in [Frame -> [Idx -> Frame \cup {NULL}]]
    PROVE  LET u == [s EXCEPT !.tab = x]
           IN  u \in Memory /\ u.kind = s.kind /\ u.ref = s.ref /\ u.tab = x /\ u.data = s.data
  BY DEF Memory

\* The same for what the pages hold.
LEMMA WithData ==
    ASSUME NEW s \in Memory, NEW x \in [Frame -> Val \cup {NULL}]
    PROVE  LET u == [s EXCEPT !.data = x]
           IN  u \in Memory /\ u.kind = s.kind /\ u.ref = s.ref /\ u.tab = s.tab /\ u.data = x
  BY DEF Memory

\* The fields of memory.
LEMMA FieldTypes ==
    ASSUME NEW s \in Memory
    PROVE  /\ s.kind \in [Frame -> Kind] /\ s.ref \in [Frame -> Nat]
           /\ s.tab \in [Frame -> [Idx -> Frame \cup {NULL}]] /\ s.data \in [Frame -> Val \cup {NULL}]
  BY DEF Memory

\* SetEntry changes one entry.
LEMMA SetEntryFacts ==
    ASSUME NEW s \in Memory, NEW c \in Slot, NEW x \in Frame \cup {NULL}
    PROVE  LET u == SetEntry(s, c, x)
           IN  /\ u \in Memory /\ Points(s, u, c, x)
               /\ u.kind = s.kind /\ u.ref = s.ref /\ u.data = s.data
<1> DEFINE u == SetEntry(s, c, x)
           t == [s.tab EXCEPT ![c[1]][c[2]] = x]
<1>1. c[1] \in Frame /\ c[2] \in Idx /\ c = <<c[1], c[2]>>
      /\ s.tab \in [Frame -> [Idx -> Frame \cup {NULL}]]
  BY EntryIn
<1>2. t \in [Frame -> [Idx -> Frame \cup {NULL}]]
  BY <1>1
<1>3. u = [s EXCEPT !.tab = t]
  BY DEF SetEntry
<1> HIDE DEF t, u
<1>4. u \in Memory /\ u.kind = s.kind /\ u.ref = s.ref /\ u.data = s.data /\ u.tab = t
  BY <1>2, <1>3, WithTab
<1>5. ASSUME NEW e \in Slot
      PROVE  At(u, e) = IF e = c THEN x ELSE At(s, e)
  <2>1. e[1] \in Frame /\ e[2] \in Idx /\ e = <<e[1], e[2]>>
    BY EntryIn
  <2>2. t[e[1]][e[2]] = IF e[1] = c[1] /\ e[2] = c[2] THEN x ELSE s.tab[e[1]][e[2]]
    BY <1>1, <2>1 DEF t
  <2> QED
    BY <1>1, <1>4, <2>1, <2>2 DEF At
<1> QED
  BY <1>4, <1>5 DEF Points, u

\* Cleared changes one frame.
LEMMA ClearedFacts ==
    ASSUME NEW s \in Memory, NEW f \in Frame, NEW k \in Kind, NEW n \in Nat
    PROVE  LET v == Cleared(s, f, k, n)
           IN  /\ v \in Memory /\ v.data = s.data
               /\ \A g \in Frame : /\ v.kind[g] = IF g = f THEN k ELSE s.kind[g]
                                   /\ v.ref[g] = IF g = f THEN n ELSE s.ref[g]
               /\ \A e \in Slot : At(v, e) = IF e[1] = f THEN NULL ELSE At(s, e)
<1> DEFINE x == [s.kind EXCEPT ![f] = k]
           r == [s.ref EXCEPT ![f] = n]
           t == [s.tab EXCEPT ![f] = Empty]
           s1 == [s EXCEPT !.kind = x]
           s2 == [s1 EXCEPT !.ref = r]
           u == [s2 EXCEPT !.tab = t]
<1>1. Empty \in [Idx -> Frame \cup {NULL}] /\ \A i \in Idx : Empty[i] = NULL
  BY DEF Empty
<1>2. /\ x \in [Frame -> Kind] /\ r \in [Frame -> Nat] /\ t \in [Frame -> [Idx -> Frame \cup {NULL}]]
      /\ \A g \in Frame : /\ x[g] = IF g = f THEN k ELSE s.kind[g]
                          /\ r[g] = IF g = f THEN n ELSE s.ref[g]
                          /\ t[g] = IF g = f THEN Empty ELSE s.tab[g]
  BY <1>1, FieldTypes
<1> HIDE DEF x, r, t
<1>3. s1 \in Memory /\ s1.kind = x /\ s1.ref = s.ref /\ s1.tab = s.tab /\ s1.data = s.data
  BY <1>2, WithKind
<1> HIDE DEF s1
<1>4. s2 \in Memory /\ s2.kind = x /\ s2.ref = r /\ s2.tab = s.tab /\ s2.data = s.data
  BY <1>2, <1>3, WithRef
<1> HIDE DEF s2
<1>5. u \in Memory /\ u.kind = x /\ u.ref = r /\ u.tab = t /\ u.data = s.data
  BY <1>2, <1>4, WithTab
<1>6. Cleared(s, f, k, n) = u
  BY <1>3, <1>4 DEF Cleared, s1, s2, x, r, t
<1> HIDE DEF u
<1>7. ASSUME NEW e \in Slot
      PROVE  At(u, e) = IF e[1] = f THEN NULL ELSE At(s, e)
  BY <1>1, <1>2, <1>5, EntryIn DEF At
<1> QED
  BY <1>2, <1>5, <1>6, <1>7

\* free_page leaves an empty frame that is not referred to.
LEMMA FreeFacts ==
    ASSUME NEW s \in Memory, NEW f \in Frame
    PROVE  LET u == free_page(s, f)
           IN  /\ u \in Memory
               /\ u.kind[f] = "free" /\ u.ref[f] = 0 /\ Others(s, u, {f})
               /\ \A e \in Slot : At(u, e) = IF e[1] = f THEN NULL ELSE At(s, e)
<1> DEFINE t == Cleared(s, f, "free", 0)
           d == [t.data EXCEPT ![f] = NULL]
           u == [t EXCEPT !.data = d]
<1>1. /\ t \in Memory /\ t.data = s.data
      /\ \A g \in Frame : /\ t.kind[g] = IF g = f THEN "free" ELSE s.kind[g]
                          /\ t.ref[g] = IF g = f THEN 0 ELSE s.ref[g]
      /\ \A e \in Slot : At(t, e) = IF e[1] = f THEN NULL ELSE At(s, e)
  <2>1. "free" \in Kind /\ 0 \in Nat
    BY DEF Kind
  <2> QED
    BY <2>1, ClearedFacts
<1>2. free_page(s, f) = u
  BY DEF free_page, Cleared
<1> HIDE DEF t
<1>3. d \in [Frame -> Val \cup {NULL}] /\ \A g \in Frame \ {f} : d[g] = s.data[g]
  BY <1>1, FieldTypes
<1> HIDE DEF d
<1>4. u \in Memory /\ u.kind = t.kind /\ u.ref = t.ref /\ u.tab = t.tab /\ u.data = d
  BY <1>1, <1>3, WithData
<1> HIDE DEF u
<1>5. Others(s, u, {f})
  BY <1>1, <1>3, <1>4 DEF Others
<1>6. \A e : At(u, e) = At(t, e)
  BY <1>4 DEF At
<1> QED
  BY <1>1, <1>2, <1>4, <1>5, <1>6

----------------------------------------------------------------------------
(***************************************************************************)
(* The entries that lead to a frame, counted.                              *)
(***************************************************************************)

\* A frame has finitely many entries that point to it.
LEMMA SlotsFinite ==
    ASSUME NEW s, NEW f
    PROVE  IsFiniteSet(SlotsOf(s, f)) /\ Cardinality(SlotsOf(s, f)) \in Nat
<1>1. IsFiniteSet(Idx)
  BY FS_Interval, PageTableAssumption DEF Idx
<1>2. IsFiniteSet(Slot)
  BY <1>1, FS_Product, PageTableAssumption DEF Slot
<1>3. SlotsOf(s, f) \in SUBSET Slot
  BY DEF SlotsOf
<1>4. IsFiniteSet(SlotsOf(s, f))
  BY <1>2, <1>3, FS_Subset
<1> QED
  BY <1>4, FS_CardinalityType

\* The number of entries for a frame, after one entry has changed.
LEMMA Recount ==
    ASSUME NEW s, NEW u, NEW c \in Slot, NEW x, Points(s, u, c, x), NEW f
    PROVE  /\ SlotsOf(u, f) = IF f = x THEN SlotsOf(s, f) \cup {c} ELSE SlotsOf(s, f) \ {c}
           /\ c \in SlotsOf(s, f) <=> f = At(s, c)
           /\ Cardinality(SlotsOf(u, f)) =
                CASE f = x /\ f # At(s, c) -> Cardinality(SlotsOf(s, f)) + 1
                  [] f # x /\ f = At(s, c) -> Cardinality(SlotsOf(s, f)) - 1
                  [] (f = x) = (f = At(s, c)) -> Cardinality(SlotsOf(s, f))
<1>1. SlotsOf(u, f) = IF f = x THEN SlotsOf(s, f) \cup {c} ELSE SlotsOf(s, f) \ {c}
  BY DEF Points, SlotsOf
<1>2. c \in SlotsOf(s, f) <=> f = At(s, c)
  BY DEF SlotsOf
<1>3. Cardinality(SlotsOf(s, f) \cup {c}) =
        IF f = At(s, c) THEN Cardinality(SlotsOf(s, f)) ELSE Cardinality(SlotsOf(s, f)) + 1
  BY <1>2, SlotsFinite, FS_AddElement
<1>4. Cardinality(SlotsOf(s, f) \ {c}) =
        IF f = At(s, c) THEN Cardinality(SlotsOf(s, f)) - 1 ELSE Cardinality(SlotsOf(s, f))
  BY <1>2, SlotsFinite, FS_RemoveElement
<1> QED
  BY <1>1, <1>2, <1>3, <1>4

\* Nothing leads to a page that is free or that is a page directory, and a frame that
\* is no table leads nowhere.
LEMMA Ends ==
    ASSUME NEW s, Sound(s), NEW f \in Frame
    PROVE  /\ s.kind[f] \in {"free", "pgdir"} => SlotsOf(s, f) = {}
           /\ s.kind[f] \in {"free", "page"} => \A i \in Idx : At(s, <<f, i>>) = NULL
<1>1. ASSUME NEW c \in Slot, At(s, c) = f
      PROVE  s.kind[f] \in {"pd0", "pt", "page"}
  BY <1>1, PageTableAssumption DEF Sound, Levels, Below
<1>2. ASSUME NEW i \in Idx, At(s, <<f, i>>) # NULL
      PROVE  s.kind[f] \in {"pgdir", "pd0", "pt"}
  <2>1. <<f, i>> \in Slot
    BY DEF Slot
  <2> QED
    BY <1>2, <2>1 DEF Sound, Levels, Below
<1> QED
  BY <1>1, <1>2 DEF SlotsOf

\* An entry that is not NULL leads to a frame of the next level, and what is no
\* data page has no other entry.
LEMMA Leads ==
    ASSUME NEW s, Sound(s), NEW c \in Slot, At(s, c) # NULL
    PROVE  /\ At(s, c) \in Frame /\ c[1] # At(s, c)
           /\ s.kind[c[1]] = "pgdir" => s.kind[At(s, c)] = "pd0"
           /\ s.kind[c[1]] = "pd0" => s.kind[At(s, c)] = "pt"
           /\ s.kind[c[1]] = "pt" => s.kind[At(s, c)] = "page"
           /\ s.kind[c[1]] \in {"pgdir", "pd0", "pt"}
           /\ s.kind[At(s, c)] # "page" => SlotsOf(s, At(s, c)) = {c}
           /\ s.kind[At(s, c)] = "page" =>
                s.ref[At(s, c)] \in Nat \ {0} /\ (s.ref[At(s, c)] = 1 => SlotsOf(s, At(s, c)) = {c})
<1>1. At(s, c) \in Frame
  BY EntryIn DEF Sound
<1>2. <<s.kind[c[1]], s.kind[At(s, c)]>> \in Below
  BY DEF Sound, Levels
<1>3. c \in SlotsOf(s, At(s, c))
  BY DEF SlotsOf
<1>4. s.kind[At(s, c)] # "page" => SlotsOf(s, At(s, c)) = {c}
  <2>1. SUFFICES ASSUME s.kind[At(s, c)] # "page" PROVE SlotsOf(s, At(s, c)) = {c}
    OBVIOUS
  <2>2. s.kind[At(s, c)] \in {"pd0", "pt"}
    BY <1>2, <2>1 DEF Below
  <2>3. (\E e \in Slot : SlotsOf(s, At(s, c)) = {e}) \/ Forgotten(s, At(s, c))
    BY <1>1, <2>2 DEF Sound, Counted
  <2>4. PICK e \in Slot : SlotsOf(s, At(s, c)) = {e}
    BY <1>3, <2>3 DEF Forgotten
  <2> QED
    BY <1>3, <2>4
<1>5. ASSUME s.kind[At(s, c)] = "page"
      PROVE  s.ref[At(s, c)] \in Nat \ {0} /\ (s.ref[At(s, c)] = 1 => SlotsOf(s, At(s, c)) = {c})
  <2>1. s.ref[At(s, c)] = Cardinality(SlotsOf(s, At(s, c)))
    BY <1>1, <1>5 DEF Sound, Counted
  <2>2. Cardinality(SlotsOf(s, At(s, c))) # 0
    BY <1>3, SlotsFinite, FS_EmptySet
  <2>3. Cardinality(SlotsOf(s, At(s, c))) = 1 => SlotsOf(s, At(s, c)) = {c}
    BY <1>3, SlotsFinite, FS_Singleton
  <2> QED
    BY <2>1, <2>2, <2>3, SlotsFinite
<1> QED
  BY <1>1, <1>2, <1>4, <1>5 DEF Below

----------------------------------------------------------------------------
(***************************************************************************)
(* Each operation on a sound memory gives a sound memory.                  *)
(***************************************************************************)

\* A table is made and the entry c leads to it.
LEMMA FilledSound ==
    ASSUME NEW s, Sound(s), NEW c \in Slot, At(s, c) = NULL, NEW f \in Free(s), NEW k,
           k \in {"pd0", "pt"}, <<s.kind[c[1]], k>> \in Below,
           s.kind[c[1]] = "pgdir" \/ SlotsOf(s, c[1]) # {}
    PROVE  LET u == SetEntry(Cleared(s, f, k, 1), c, f)
           IN  /\ Sound(u) /\ Points(s, u, c, f) /\ u.data = s.data
               /\ Linked(s) => Linked(u)
               /\ \A g \in Frame : /\ u.kind[g] = IF g = f THEN k ELSE s.kind[g]
                                   /\ u.ref[g] = IF g = f THEN 1 ELSE s.ref[g]
<1> DEFINE v == Cleared(s, f, k, 1)
           u == SetEntry(v, c, f)
<1>1. s \in Memory /\ f \in Frame /\ s.kind[f] = "free" /\ f # NULL /\ 1 \in Nat
  BY PageTableAssumption DEF Sound, Free
<1>2. k \in Kind
  BY DEF Kind
<1>3. /\ v \in Memory /\ v.data = s.data
      /\ \A g \in Frame : /\ v.kind[g] = IF g = f THEN k ELSE s.kind[g]
                          /\ v.ref[g] = IF g = f THEN 1 ELSE s.ref[g]
      /\ \A e \in Slot : At(v, e) = IF e[1] = f THEN NULL ELSE At(s, e)
  BY <1>1, <1>2, ClearedFacts
<1> HIDE DEF v
<1>4. u \in Memory /\ Points(v, u, c, f) /\ u.kind = v.kind /\ u.ref = v.ref /\ u.data = v.data
  BY <1>1, <1>3, SetEntryFacts
<1> HIDE DEF u
<1>5. \A e \in Slot : e[1] = f => At(s, e) = NULL
  BY <1>1, Ends, EntryIn
<1>6. Points(s, u, c, f)
  BY <1>3, <1>4, <1>5 DEF Points
<1>7. c[1] \in Frame /\ c[1] # f
  BY <1>1, EntryIn DEF Below
<1>8. SlotsOf(s, f) = {}
  BY <1>1, Ends
<1>9. Levels(u)
  <2> SUFFICES ASSUME NEW e \in Slot, At(u, e) # NULL
               PROVE  <<u.kind[e[1]], u.kind[At(u, e)]>> \in Below
    BY DEF Levels
  <2>1. CASE e = c
    BY <1>1, <1>3, <1>4, <1>6, <1>7, <2>1 DEF Points
  <2>2. CASE e # c
    <3>1. At(u, e) = At(s, e) /\ At(s, e) # NULL /\ e[1] # f /\ e[1] \in Frame /\ At(s, e) \in Frame
      BY <1>1, <1>5, <1>6, <2>2, EntryIn DEF Points
    <3>2. At(s, e) # f
      BY <1>8 DEF SlotsOf
    <3>3. <<s.kind[e[1]], s.kind[At(s, e)]>> \in Below
      BY <3>1 DEF Sound, Levels
    <3> QED
      BY <1>3, <1>4, <3>1, <3>2, <3>3
  <2> QED
    BY <2>1, <2>2
<1>10. Counted(u)
  <2>1. SlotsOf(u, f) = {c}
    BY <1>6, <1>8, Recount
  <2>2. ASSUME NEW g \in Frame, g # f
        PROVE  SlotsOf(u, g) = SlotsOf(s, g)
    <3>1. c \notin SlotsOf(s, g) /\ g # NULL
      BY PageTableAssumption DEF SlotsOf
    <3>2. SlotsOf(u, g) = IF g = f THEN SlotsOf(s, g) \cup {c} ELSE SlotsOf(s, g) \ {c}
      BY <1>6 DEF Points, SlotsOf
    <3> QED
      BY <2>2, <3>1, <3>2
  <2>3. ASSUME NEW g \in Frame, g # f, s.kind[g] \in {"pd0", "pt"}, Forgotten(s, g)
        PROVE  Forgotten(u, g)
    <3>1. g # c[1]
      BY <2>3 DEF Forgotten
    <3>2. \A i \in Idx : <<g, i>> \in Slot /\ <<g, i>> # c
      BY <1>7, <3>1 DEF Slot
    <3>3. Hollow(u, g)
      BY <1>6, <2>3, <3>2 DEF Points, Hollow, Forgotten
    <3> QED
      BY <2>2, <2>3, <3>3 DEF Forgotten
  <2> SUFFICES ASSUME NEW g \in Frame
               PROVE  /\ u.kind[g] = "page" => u.ref[g] = Cardinality(SlotsOf(u, g))
                      /\ u.kind[g] \in {"pd0", "pt"} =>
                           /\ u.ref[g] = 1
                           /\ (\E e \in Slot : SlotsOf(u, g) = {e}) \/ Forgotten(u, g)
                      /\ u.kind[g] = "free" => u.ref[g] = 0
    BY DEF Counted
  <2>4. CASE g = f
    BY <1>3, <1>4, <2>1, <2>4
  <2>5. CASE g # f
    BY <1>3, <1>4, <2>2, <2>3, <2>5 DEF Sound, Counted
  <2> QED
    BY <2>4, <2>5
<1>13. Linked(s) => Linked(u)
  <2>1. SlotsOf(u, f) = {c}
    BY <1>6, <1>8, Recount
  <2>2. ASSUME NEW g \in Frame, g # f
        PROVE  SlotsOf(u, g) = SlotsOf(s, g)
    <3>1. c \notin SlotsOf(s, g) /\ g # NULL
      BY PageTableAssumption DEF SlotsOf
    <3>2. SlotsOf(u, g) = IF g = f THEN SlotsOf(s, g) \cup {c} ELSE SlotsOf(s, g) \ {c}
      BY <1>6 DEF Points, SlotsOf
    <3> QED
      BY <2>2, <3>1, <3>2
  <2> QED
    BY <1>3, <1>4, <2>1, <2>2 DEF Linked
<1>11. Sound(u)
  BY <1>4, <1>9, <1>10 DEF Sound
<1>12. ASSUME NEW g \in Frame
       PROVE  /\ u.kind[g] = IF g = f THEN k ELSE s.kind[g]
              /\ u.ref[g] = IF g = f THEN 1 ELSE s.ref[g]
  BY <1>3, <1>4
<1> QED
  BY <1>3, <1>4, <1>6, <1>11, <1>12, <1>13 DEF u, v

\* A free page is taken.
LEMMA TakenSound ==
    ASSUME NEW s, Sound(s), NEW f \in Free(s), NEW k \in {"page", "pgdir"},
           NEW u \in Memory, u.tab = s.tab, u.ref = s.ref, u.kind[f] = k,
           \A g \in Frame \ {f} : u.kind[g] = s.kind[g]
    PROVE  Sound(u) /\ SameEntries(s, u)
<1>1. s \in Memory /\ f \in Frame /\ s.kind[f] = "free" /\ s.ref[f] = 0
  BY DEF Sound, Free, Counted
<1>2. \A e : At(u, e) = At(s, e)
  BY DEF At
<1>3. \A g : SlotsOf(u, g) = SlotsOf(s, g)
  BY <1>2 DEF SlotsOf
<1>4. SlotsOf(s, f) = {} /\ \A e \in Slot : e[1] = f => At(s, e) = NULL
  BY <1>1, Ends, EntryIn
<1>5. \A g \in Frame : u.kind[g] = IF g = f THEN k ELSE s.kind[g]
  OBVIOUS
<1>6. Levels(u)
  BY <1>1, <1>2, <1>4, <1>5, EntryIn DEF Levels, Sound, SlotsOf
<1>7. Cardinality({}) = 0
  BY FS_EmptySet
<1>8. Counted(u)
  <2>1. \A g : Forgotten(u, g) <=> Forgotten(s, g)
    BY <1>2, <1>3 DEF Forgotten, Hollow
  <2> QED
    BY <1>1, <1>3, <1>4, <1>5, <1>7, <2>1 DEF Counted, Sound
<1> QED
  BY <1>2, <1>6, <1>8 DEF Sound, SameEntries

\* A frame that nothing leads to, and that leads nowhere, is freed.
LEMMA FreedSound ==
    ASSUME NEW s, Sound(s), NEW f \in Frame, SlotsOf(s, f) = {},
           \A i \in Idx : At(s, <<f, i>>) = NULL
    PROVE  LET u == free_page(s, f)
           IN  /\ Sound(u) /\ SameEntries(s, u) /\ u.kind[f] = "free" /\ Others(s, u, {f})
<1> DEFINE u == free_page(s, f)
<1>1. s \in Memory
  BY DEF Sound
<1>2. /\ u \in Memory /\ u.kind[f] = "free" /\ u.ref[f] = 0 /\ Others(s, u, {f})
      /\ \A e \in Slot : At(u, e) = IF e[1] = f THEN NULL ELSE At(s, e)
  BY <1>1, FreeFacts
<1> HIDE DEF u
<1>3. SameEntries(s, u)
  BY <1>1, <1>2, EntryIn DEF SameEntries
<1>4. \A g : SlotsOf(u, g) = SlotsOf(s, g)
  BY <1>3 DEF SameEntries, SlotsOf
<1>5. Levels(u)
  <2> SUFFICES ASSUME NEW e \in Slot, At(u, e) # NULL
               PROVE  <<u.kind[e[1]], u.kind[At(u, e)]>> \in Below
    BY DEF Levels
  <2>1. /\ At(u, e) = At(s, e) /\ e[1] # f /\ At(s, e) # f
        /\ e[1] \in Frame /\ At(s, e) \in Frame
    BY <1>1, <1>2, <1>3, EntryIn DEF SameEntries, SlotsOf
  <2> QED
    BY <1>2, <2>1 DEF Others, Sound, Levels
<1>6. Counted(u)
  <2>1. \A g \in Frame : Hollow(u, g) <=> Hollow(s, g)
    BY <1>3 DEF Hollow, SameEntries, Slot
  <2>2. \A g \in Frame : Forgotten(u, g) <=> Forgotten(s, g)
    BY <1>4, <2>1 DEF Forgotten
  <2> QED
    BY <1>2, <1>4, <2>2 DEF Counted, Sound, Others
<1>7. Sound(u)
  BY <1>2, <1>5, <1>6 DEF Sound
<1> QED
  BY <1>2, <1>3, <1>7 DEF u

\* What f leads to may be forgotten when f is freed.
Droppable(s, f) == \A i \in Idx : At(s, <<f, i>>) # NULL =>
    ~OneTableEach /\ s.kind[At(s, <<f, i>>)] # "page" /\ Hollow(s, At(s, <<f, i>>))

\* A table is freed, and the entries in it and above it are gone.
LEMMA DropSound ==
    ASSUME NEW s, Sound(s), NEW f \in Frame, Droppable(s, f),
           NEW u \in Memory, u.kind[f] = "free", u.ref[f] = 0, Others(s, u, {f}),
           \A e \in Slot : At(u, e) = IF e[1] = f \/ At(s, e) = f THEN NULL ELSE At(s, e)
    PROVE  Sound(u)
<1>1. s \in Memory /\ NULL \notin Frame
  BY PageTableAssumption DEF Sound
<1>2. \A g \in Frame : g # f => u.kind[g] = s.kind[g] /\ u.ref[g] = s.ref[g]
  BY DEF Others
<1>3. Levels(u)
  <2> SUFFICES ASSUME NEW e \in Slot, At(u, e) # NULL
               PROVE  <<u.kind[e[1]], u.kind[At(u, e)]>> \in Below
    BY DEF Levels
  <2>1. At(u, e) = At(s, e) /\ e[1] # f /\ At(s, e) # f
    OBVIOUS
  <2>2. e[1] \in Frame /\ At(s, e) \in Frame
    BY <1>1, <2>1, EntryIn
  <2> QED
    BY <1>2, <2>1, <2>2 DEF Sound, Levels
<1>4. \A g \in Frame : g # f => SlotsOf(u, g) = {e \in SlotsOf(s, g) : e[1] # f}
  BY <1>1 DEF SlotsOf
<1>5. ASSUME NEW g \in Frame, g # f, s.kind[g] = "page"
      PROVE  SlotsOf(u, g) = SlotsOf(s, g)
  <2>1. ASSUME NEW e \in SlotsOf(s, g) PROVE e[1] # f
    <3>1. e \in Slot /\ At(s, e) = g /\ e = <<e[1], e[2]>> /\ e[2] \in Idx
      BY <1>1, EntryIn DEF SlotsOf
    <3> QED
      BY <1>1, <1>5, <3>1 DEF Droppable
  <2> QED
    BY <1>4, <1>5, <2>1
<1>6. ASSUME NEW g \in Frame, Hollow(s, g)
      PROVE  Hollow(u, g)
  BY <1>6 DEF Hollow, Slot
<1>7. ASSUME NEW g \in Frame, g # f, s.kind[g] \in {"pd0", "pt"}
      PROVE  (\E c \in Slot : SlotsOf(u, g) = {c}) \/ Forgotten(u, g)
  <2>1. CASE Forgotten(s, g)
    BY <1>4, <1>6, <1>7, <2>1 DEF Forgotten
  <2>2. CASE ~Forgotten(s, g)
    <3>1. PICK c \in Slot : SlotsOf(s, g) = {c}
      BY <1>7, <2>2 DEF Sound, Counted
    <3>2. CASE c[1] # f
      BY <1>4, <1>7, <3>1, <3>2
    <3>3. CASE c[1] = f
      <4>1. c = <<f, c[2]>> /\ c[2] \in Idx /\ At(s, c) = g
        BY <1>1, <3>1, <3>3, EntryIn DEF SlotsOf
      <4>2. ~OneTableEach /\ Hollow(s, g)
        BY <1>1, <4>1 DEF Droppable
      <4>3. SlotsOf(u, g) = {}
        BY <1>4, <1>7, <3>1, <3>3
      <4> QED
        BY <1>6, <4>2, <4>3 DEF Forgotten
    <3> QED
      BY <3>2, <3>3
  <2> QED
    BY <2>1, <2>2
<1>8. Counted(u)
  <2> SUFFICES ASSUME NEW g \in Frame
               PROVE  /\ u.kind[g] = "page" => u.ref[g] = Cardinality(SlotsOf(u, g))
                      /\ u.kind[g] \in {"pd0", "pt"} =>
                           /\ u.ref[g] = 1
                           /\ (\E e \in Slot : SlotsOf(u, g) = {e}) \/ Forgotten(u, g)
                      /\ u.kind[g] = "free" => u.ref[g] = 0
    BY DEF Counted
  <2>1. CASE g = f
    BY <2>1
  <2>2. CASE g # f
    <3>1. /\ s.kind[g] = "page" => s.ref[g] = Cardinality(SlotsOf(s, g))
          /\ s.kind[g] \in {"pd0", "pt"} => s.ref[g] = 1
          /\ s.kind[g] = "free" => s.ref[g] = 0
      BY DEF Sound, Counted
    <3> QED
      BY <1>2, <1>5, <1>7, <2>2, <3>1
  <2> QED
    BY <2>1, <2>2
<1> QED
  BY <1>3, <1>8 DEF Sound

\* exit_range frees a table.
LEMMA FreeTableSound ==
    ASSUME NEW s, Sound(s), NEW c \in Slot, At(s, c) # NULL, s.kind[At(s, c)] # "page",
           Droppable(s, At(s, c))
    PROVE  LET u == FreeTable(s, c)
           IN  /\ Sound(u) /\ u.kind[At(s, c)] = "free" /\ Others(s, u, {At(s, c)})
               /\ \A e \in Slot : At(u, e) = IF e = c \/ e[1] = At(s, c) THEN NULL ELSE At(s, e)
               /\ Hollow(s, At(s, c)) => Points(s, u, c, NULL)
<1> DEFINE f == At(s, c)
           v == free_page(s, f)
           u == SetEntry(v, c, NULL)
<1>1. s \in Memory /\ f \in Frame /\ c[1] \in Frame /\ c[1] # f /\ NULL \notin Frame
  BY Leads, EntryIn DEF Sound
<1>2. SlotsOf(s, f) = {c}
  BY <1>1, Leads
<1>3. /\ v \in Memory /\ v.kind[f] = "free" /\ v.ref[f] = 0 /\ Others(s, v, {f})
      /\ \A e \in Slot : At(v, e) = IF e[1] = f THEN NULL ELSE At(s, e)
  BY <1>1, FreeFacts
<1> HIDE DEF v
<1>4. /\ u \in Memory /\ Points(v, u, c, NULL)
      /\ u.kind = v.kind /\ u.ref = v.ref /\ u.data = v.data
  BY <1>3, SetEntryFacts
<1> HIDE DEF u
<1>5. \A e \in Slot : At(u, e) = IF e = c \/ e[1] = f THEN NULL ELSE At(s, e)
  BY <1>3, <1>4 DEF Points
<1>6. Others(s, u, {f})
  BY <1>3, <1>4 DEF Others
<1>7. \A e \in Slot : At(s, e) = f <=> e = c
  BY <1>2 DEF SlotsOf
<1>8. Sound(u)
  <2>1. \A e \in Slot : At(u, e) = IF e[1] = f \/ At(s, e) = f THEN NULL ELSE At(s, e)
    BY <1>5, <1>7
  <2>2. u \in Memory /\ u.kind[f] = "free" /\ u.ref[f] = 0
    BY <1>3, <1>4
  <2> HIDE DEF f
  <2> QED
    BY <1>1, <1>6, <2>1, <2>2, DropSound DEF f
<1>9. ASSUME Hollow(s, f) PROVE Points(s, u, c, NULL)
  <2>1. \A e \in Slot : e[1] = f => At(s, e) = NULL
    BY <1>1, <1>9, EntryIn DEF Hollow
  <2> QED
    BY <1>5, <2>1 DEF Points
<1> QED
  BY <1>3, <1>4, <1>5, <1>6, <1>8, <1>9 DEF f, u, v, FreeTable

\* One reference more or less.
LEMMA RefFacts ==
    ASSUME NEW s \in Memory, NEW f \in Frame, NEW n \in Nat
    PROVE  LET u == [s EXCEPT !.ref[f] = n]
           IN  /\ u \in Memory /\ u.kind = s.kind /\ u.tab = s.tab /\ u.data = s.data
               /\ u.ref[f] = n /\ \A g \in Frame \ {f} : u.ref[g] = s.ref[g]
<1> DEFINE r == [s.ref EXCEPT ![f] = n]
           u == [s EXCEPT !.ref = r]
<1>1. r \in [Frame -> Nat] /\ r[f] = n /\ \A g \in Frame \ {f} : r[g] = s.ref[g]
  BY FieldTypes
<1>2. u = [s EXCEPT !.ref[f] = n]
  OBVIOUS
<1> HIDE DEF r
<1>3. u \in Memory /\ u.kind = s.kind /\ u.ref = r /\ u.tab = s.tab /\ u.data = s.data
  BY <1>1, WithRef
<1> HIDE DEF u
<1> QED
  BY <1>1, <1>2, <1>3

\* page_remove_pte clears the entry and frees the page with its last reference.
LEMMA RemoveFacts ==
    ASSUME NEW s \in Memory, NEW c \in Slot, At(s, c) # NULL, s.ref[At(s, c)] # 0,
           \A i \in Idx : At(s, <<At(s, c), i>>) = NULL
    PROVE  LET u == page_remove_pte(s, c)
               o == At(s, c)
           IN  /\ u \in Memory /\ Points(s, u, c, NULL) /\ Others(s, u, {o})
               /\ u.ref[o] = s.ref[o] - 1
               /\ u.kind[o] = IF s.ref[o] = 1 THEN "free" ELSE s.kind[o]
<1> DEFINE o == At(s, c)
           less == [s EXCEPT !.ref[o] = s.ref[o] - 1]
           v == IF less.ref[o] = 0 THEN free_page(less, o) ELSE less
           u == SetEntry(v, c, NULL)
<1>1. o \in Frame /\ s.ref[o] \in Nat \ {0} /\ s.ref[o] - 1 \in Nat /\ NULL \in Frame \cup {NULL}
  <2>1. o \in Frame
    BY EntryIn
  <2>2. s.ref[o] \in Nat
    BY <2>1, FieldTypes
  <2> QED
    BY <2>1, <2>2
<1>2. \A e \in Slot : e[1] = o => At(s, e) = NULL
  BY EntryIn
<1>3. page_remove_pte(s, c) = u
  BY DEF page_remove_pte
<1> HIDE DEF o
<1>4. /\ less \in Memory /\ less.kind = s.kind /\ less.tab = s.tab /\ less.data = s.data
      /\ less.ref[o] = s.ref[o] - 1 /\ \A g \in Frame \ {o} : less.ref[g] = s.ref[g]
  BY <1>1, RefFacts
<1> HIDE DEF less
<1>5. \A e : At(less, e) = At(s, e)
  BY <1>4 DEF At
<1>6. /\ v \in Memory /\ Others(s, v, {o}) /\ v.ref[o] = s.ref[o] - 1
      /\ v.kind[o] = IF s.ref[o] = 1 THEN "free" ELSE s.kind[o]
      /\ \A e \in Slot : At(v, e) = At(s, e)
  <2>1. CASE less.ref[o] = 0
    <3> DEFINE w == free_page(less, o)
    <3>1. /\ w \in Memory /\ w.kind[o] = "free" /\ w.ref[o] = 0 /\ Others(less, w, {o})
          /\ \A e \in Slot : At(w, e) = IF e[1] = o THEN NULL ELSE At(less, e)
      BY <1>1, <1>4, FreeFacts
    <3>2. v = w
      BY <2>1
    <3> HIDE DEF w, v
    <3> QED
      BY <1>1, <1>2, <1>4, <1>5, <2>1, <3>1, <3>2 DEF Others
  <2>2. CASE less.ref[o] # 0
    <3>1. v = less
      BY <2>2
    <3> HIDE DEF v
    <3> QED
      BY <1>1, <1>4, <1>5, <2>2, <3>1 DEF Others
  <2> QED
    BY <2>1, <2>2
<1> HIDE DEF v
<1>7. /\ u \in Memory /\ Points(v, u, c, NULL)
      /\ u.kind = v.kind /\ u.ref = v.ref /\ u.data = v.data
  BY <1>1, <1>6, SetEntryFacts
<1> HIDE DEF u
<1>8. Points(s, u, c, NULL)
  BY <1>6, <1>7 DEF Points
<1>9. Others(s, u, {o})
  BY <1>6, <1>7 DEF Others
<1> QED
  BY <1>3, <1>6, <1>7, <1>8, <1>9 DEF o

\* An entry of a page table is cleared.
LEMMA RemoveSound ==
    ASSUME NEW s, Sound(s), NEW c \in Slot, s.kind[c[1]] = "pt"
    PROVE  LET u == page_remove_pte(s, c)
               o == At(s, c)
           IN  /\ Sound(u) /\ Points(s, u, c, NULL) /\ Others(s, u, {o})
               /\ o # NULL => /\ s.kind[o] = "page"
                              /\ IF s.ref[o] = 1 THEN u.kind[o] = "free"
                                 ELSE u.kind[o] = "page" /\ u.ref[o] # 0
<1> DEFINE u == page_remove_pte(s, c)
           o == At(s, c)
<1>1. CASE o = NULL
  BY <1>1, PageTableAssumption DEF page_remove_pte, Points, Others
<1>2. CASE o # NULL
  <2>1. s \in Memory
    BY DEF Sound
  <2>2. o \in Frame /\ s.kind[o] = "page" /\ s.ref[o] \in Nat \ {0} /\ c[1] # o /\ c[1] \in Frame
    BY <1>2, <2>1, Leads, EntryIn
  <2>3. \A i \in Idx : At(s, <<o, i>>) = NULL
    BY <2>2, Ends
  <2>4. /\ u \in Memory /\ Points(s, u, c, NULL) /\ Others(s, u, {o})
        /\ u.ref[o] = s.ref[o] - 1
        /\ u.kind[o] = IF s.ref[o] = 1 THEN "free" ELSE s.kind[o]
    BY <1>2, <2>1, <2>2, <2>3, RemoveFacts
  <2> HIDE DEF u
  <2>5. NULL # o /\ \A g \in Frame : g # NULL
    BY <1>2, PageTableAssumption
  <2>6. \A g \in Frame : g # o => SlotsOf(u, g) = SlotsOf(s, g)
    BY <2>4, <2>5, Recount
  <2>7. Cardinality(SlotsOf(u, o)) = Cardinality(SlotsOf(s, o)) - 1
    BY <2>4, <2>5, Recount
  <2>8. s.ref[o] = Cardinality(SlotsOf(s, o))
    BY <2>2 DEF Sound, Counted
  <2>9. s.ref[o] = 1 => SlotsOf(u, o) = {}
    BY <2>2, <2>7, <2>8, SlotsFinite, FS_EmptySet
  <2> HIDE DEF o
  <2>10. Levels(u)
    <3> SUFFICES ASSUME NEW e \in Slot, At(u, e) # NULL
                 PROVE  <<u.kind[e[1]], u.kind[At(u, e)]>> \in Below
      BY DEF Levels
    <3>1. At(u, e) = At(s, e) /\ e # c
      BY <2>4 DEF Points
    <3>2. e[1] \in Frame /\ At(s, e) \in Frame /\ <<s.kind[e[1]], s.kind[At(s, e)]>> \in Below
      BY <2>1, <3>1, EntryIn DEF Sound, Levels
    <3>3. e[1] # o
      BY <2>2, <3>2 DEF Below
    <3>4. CASE At(s, e) = o
      <4>1. e \in SlotsOf(u, o)
        BY <3>1, <3>4 DEF SlotsOf
      <4>2. u.kind[o] = s.kind[o]
        BY <2>4, <2>9, <4>1
      <4> QED
        BY <2>4, <3>1, <3>2, <3>3, <3>4, <4>2 DEF Others
    <3>5. CASE At(s, e) # o
      BY <2>4, <3>1, <3>2, <3>3, <3>5 DEF Others
    <3> QED
      BY <3>4, <3>5
  <2>11. Counted(u)
    <3> SUFFICES ASSUME NEW g \in Frame
                 PROVE  /\ u.kind[g] = "page" => u.ref[g] = Cardinality(SlotsOf(u, g))
                        /\ u.kind[g] \in {"pd0", "pt"} =>
                             /\ u.ref[g] = 1
                             /\ (\E e \in Slot : SlotsOf(u, g) = {e}) \/ Forgotten(u, g)
                        /\ u.kind[g] = "free" => u.ref[g] = 0
      BY DEF Counted
    <3>1. CASE g = o
      BY <2>2, <2>4, <2>7, <2>8, <3>1
    <3>2. CASE g # o
      <4>1. Forgotten(s, g) => Forgotten(u, g)
        BY <2>4, <2>6, <3>2 DEF Forgotten, Hollow, Points, Slot
      <4> QED
        BY <2>4, <2>6, <3>2, <4>1 DEF Others, Sound, Counted
    <3> QED
      BY <3>1, <3>2
  <2>12. Sound(u)
    BY <2>4, <2>10, <2>11 DEF Sound
  <2> QED
    BY <1>2, <2>2, <2>4, <2>12 DEF u, o
<1> QED
  BY <1>1, <1>2

\* An entry of a page table is made to lead to a page, in place of what it led to.
LEMMA InsertFacts ==
    ASSUME NEW s, Sound(s), NEW c \in Slot, s.kind[c[1]] = "pt",
           NEW p \in Frame, s.kind[p] = "page"
    PROVE  LET u == Insert(s, p, c)
           IN  u \in Memory /\ Points(s, u, c, p) /\ Replaced(s, u, p, At(s, c))
<1> DEFINE o == At(s, c)
           more == [s EXCEPT !.ref[p] = s.ref[p] + 1]
           v == IF o = NULL THEN more
                ELSE IF o = p THEN [more EXCEPT !.ref[p] = more.ref[p] - 1]
                ELSE page_remove_pte(more, c)
           u == SetEntry(v, c, p)
<1>1. s \in Memory /\ s.ref[p] \in Nat /\ s.ref[p] + 1 \in Nat
  <2>1. s \in Memory
    BY DEF Sound
  <2>2. s.ref[p] \in Nat
    BY <2>1, FieldTypes
  <2> QED
    BY <2>1, <2>2
<1>2. Insert(s, p, c) = u
  BY DEF Insert
<1>3. o # NULL => /\ o \in Frame /\ s.kind[o] = "page" /\ s.ref[o] \in Nat \ {0}
                  /\ \A i \in Idx : At(s, <<o, i>>) = NULL
  BY Leads, Ends
<1>4. NULL \notin Frame
  BY PageTableAssumption
<1> HIDE DEF o
<1>5. /\ more \in Memory /\ more.kind = s.kind /\ more.tab = s.tab /\ more.data = s.data
      /\ more.ref[p] = s.ref[p] + 1 /\ \A g \in Frame \ {p} : more.ref[g] = s.ref[g]
  BY <1>1, RefFacts
<1> HIDE DEF more
<1>6. \A e : At(more, e) = At(s, e)
  BY <1>5 DEF At
<1>7. /\ v \in Memory /\ \A e \in Slot \ {c} : At(v, e) = At(s, e)
      /\ Others(s, v, {p, o})
      /\ v.kind[p] = "page" /\ v.data[p] = s.data[p]
      /\ v.ref[p] = IF o = p THEN s.ref[p] ELSE s.ref[p] + 1
      /\ o \notin {NULL, p} => /\ v.ref[o] = s.ref[o] - 1
                              /\ v.kind[o] = IF s.ref[o] = 1 THEN "free" ELSE "page"
  <2>1. CASE o = NULL
    <3>1. v = more /\ o # p
      BY <1>4, <2>1
    <3> HIDE DEF v
    <3> QED
      BY <1>5, <1>6, <2>1, <3>1 DEF Others
  <2>2. CASE o = p
    <3> DEFINE w == [more EXCEPT !.ref[p] = more.ref[p] - 1]
    <3>1. v = w /\ o # NULL
      BY <1>4, <2>2
    <3>2. more.ref[p] - 1 \in Nat /\ more.ref[p] - 1 = s.ref[p]
      BY <1>1, <1>5
    <3>3. /\ w \in Memory /\ w.kind = more.kind /\ w.tab = more.tab /\ w.data = more.data
          /\ w.ref[p] = more.ref[p] - 1 /\ \A g \in Frame \ {p} : w.ref[g] = more.ref[g]
      BY <1>5, <3>2, RefFacts
    <3> HIDE DEF v, w
    <3>4. \A e : At(w, e) = At(s, e)
      BY <1>6, <3>3 DEF At
    <3> QED
      BY <1>5, <2>2, <3>1, <3>2, <3>3, <3>4 DEF Others
  <2>3. CASE o \notin {NULL, p}
    <3> DEFINE w == page_remove_pte(more, c)
    <3>1. v = w
      BY <2>3
    <3>2. At(more, c) = o /\ more.ref[o] = s.ref[o]
      BY <1>3, <1>5, <1>6, <2>3 DEF o
    <3>3. At(more, c) # NULL /\ more.ref[At(more, c)] # 0
          /\ \A i \in Idx : At(more, <<At(more, c), i>>) = NULL
      BY <1>3, <1>6, <2>3, <3>2
    <3>4. /\ w \in Memory /\ Points(more, w, c, NULL) /\ Others(more, w, {o})
          /\ w.ref[o] = more.ref[o] - 1
          /\ w.kind[o] = IF more.ref[o] = 1 THEN "free" ELSE more.kind[o]
      BY <1>5, <3>2, <3>3, RemoveFacts
    <3> HIDE DEF v, w
    <3>5. \A e \in Slot \ {c} : At(w, e) = At(s, e)
      BY <1>6, <3>4 DEF Points
    <3>6. Others(s, w, {p, o})
      BY <1>5, <3>4 DEF Others
    <3>7. w.kind[p] = "page" /\ w.data[p] = s.data[p] /\ w.ref[p] = s.ref[p] + 1
      BY <1>5, <2>3, <3>4 DEF Others
    <3> QED
      BY <1>3, <1>5, <2>3, <3>1, <3>2, <3>4, <3>5, <3>6, <3>7
  <2> QED
    BY <2>1, <2>2, <2>3
<1> HIDE DEF v
<1>8. /\ u \in Memory /\ Points(v, u, c, p)
      /\ u.kind = v.kind /\ u.ref = v.ref /\ u.data = v.data
  BY <1>7, SetEntryFacts
<1> HIDE DEF u
<1>9. Points(s, u, c, p)
  BY <1>7, <1>8 DEF Points
<1>10. Others(s, u, {p, o})
  BY <1>7, <1>8 DEF Others
<1>11. Replaced(s, u, p, o)
  BY <1>3, <1>7, <1>8, <1>10 DEF Replaced
<1> QED
  BY <1>2, <1>8, <1>9, <1>11 DEF o

\* Setting an entry of a page table by Insert keeps memory sound: the counts go up and down
\* together with the entries.
LEMMA InsertSound ==
    ASSUME NEW s, Sound(s), NEW c \in Slot, s.kind[c[1]] = "pt", SlotsOf(s, c[1]) # {},
           NEW p \in Frame, s.kind[p] = "page"
    PROVE  Sound(Insert(s, p, c))
<1> DEFINE u == Insert(s, p, c)
           o == At(s, c)
<1>1. /\ u \in Memory /\ Points(s, u, c, p) /\ Others(s, u, {p, o})
      /\ u.kind[p] = "page"
      /\ u.ref[p] = IF o = p THEN s.ref[p] ELSE s.ref[p] + 1
      /\ o \notin {NULL, p} =>
           /\ o \in Frame /\ s.kind[o] = "page" /\ u.ref[o] = s.ref[o] - 1
           /\ u.kind[o] = IF s.ref[o] = 1 THEN "free" ELSE "page"
  BY InsertFacts DEF Replaced
<1> HIDE DEF u
<1>2. s \in Memory /\ c[1] \in Frame
  BY EntryIn DEF Sound
<1>3. NULL \notin Frame /\ p # NULL /\ (o # NULL => o \in Frame /\ s.kind[o] = "page" /\ s.ref[o] \in Nat \ {0})
  BY Leads, PageTableAssumption
<1>4. ASSUME NEW g \in Frame
      PROVE  Cardinality(SlotsOf(u, g)) =
                CASE g = p /\ g # o -> Cardinality(SlotsOf(s, g)) + 1
                  [] g # p /\ g = o -> Cardinality(SlotsOf(s, g)) - 1
                  [] (g = p) = (g = o) -> Cardinality(SlotsOf(s, g))
  <2>1. Points(s, u, c, p)
    BY <1>1
  <2>2. Cardinality(SlotsOf(u, g)) =
          CASE g = p /\ g # At(s, c) -> Cardinality(SlotsOf(s, g)) + 1
            [] g # p /\ g = At(s, c) -> Cardinality(SlotsOf(s, g)) - 1
            [] (g = p) = (g = At(s, c)) -> Cardinality(SlotsOf(s, g))
    <3>1. SlotsOf(u, g) = IF g = p THEN SlotsOf(s, g) \cup {c} ELSE SlotsOf(s, g) \ {c}
      BY <2>1 DEF Points, SlotsOf
    <3>2. c \in SlotsOf(s, g) <=> g = At(s, c)
      BY DEF SlotsOf
    <3>3. Cardinality(SlotsOf(s, g) \cup {c}) =
            IF g = At(s, c) THEN Cardinality(SlotsOf(s, g)) ELSE Cardinality(SlotsOf(s, g)) + 1
      BY <3>2, SlotsFinite, FS_AddElement
    <3>4. Cardinality(SlotsOf(s, g) \ {c}) =
            IF g = At(s, c) THEN Cardinality(SlotsOf(s, g)) - 1 ELSE Cardinality(SlotsOf(s, g))
      BY <3>2, SlotsFinite, FS_RemoveElement
    <3> QED
      BY <3>1, <3>2, <3>3, <3>4
  <2> QED
    BY <2>2
<1>5. ASSUME NEW g \in Frame, s.kind[g] # "page"
      PROVE  SlotsOf(u, g) = SlotsOf(s, g)
  <2>1. g # p /\ g # o
    BY <1>3, <1>5
  <2>2. c \notin SlotsOf(s, g)
    BY <2>1 DEF SlotsOf
  <2>3. SlotsOf(u, g) = SlotsOf(s, g) \ {c}
    BY <1>1, <2>1, Recount
  <2> QED
    BY <2>2, <2>3
<1>6. \A g \in Frame : s.kind[g] = "page" => s.ref[g] = Cardinality(SlotsOf(s, g))
  BY DEF Sound, Counted
<1>7. o \notin {NULL, p} /\ s.ref[o] = 1 => SlotsOf(u, o) = {}
  BY <1>3, <1>4, <1>6, SlotsFinite, FS_EmptySet
<1> HIDE DEF o
<1>8. \A g \in Frame : s.kind[g] # "page" => u.kind[g] = s.kind[g] /\ u.ref[g] = s.ref[g]
  <2> SUFFICES ASSUME NEW g \in Frame, s.kind[g] # "page"
               PROVE  u.kind[g] = s.kind[g] /\ u.ref[g] = s.ref[g]
    OBVIOUS
  <2>1. g \notin {p, o}
    BY <1>3
  <2> QED
    BY <1>1, <2>1 DEF Others
<1>9. ASSUME NEW g \in Frame, s.kind[g] = "page"
      PROVE  u.kind[g] = "page" \/ (u.kind[g] = "free" /\ SlotsOf(u, g) = {})
  <2>1. CASE g = p
    BY <1>1, <2>1
  <2>2. CASE g # p /\ g = o
    <3>1. o \notin {NULL, p}
      BY <2>2, PageTableAssumption
    <3> QED
      BY <1>1, <1>7, <2>2, <3>1
  <2>3. CASE g \notin {p, o}
    BY <1>1, <1>9, <2>3 DEF Others
  <2> QED
    BY <2>1, <2>2, <2>3
<1>10. Levels(u)
  <2> SUFFICES ASSUME NEW e \in Slot, At(u, e) # NULL
               PROVE  <<u.kind[e[1]], u.kind[At(u, e)]>> \in Below
    BY DEF Levels
  <2>1. CASE e = c
    <3>1. At(u, e) = p
      BY <1>1, <2>1 DEF Points
    <3> QED
      BY <1>1, <1>2, <1>8, <2>1, <3>1 DEF Below
  <2>2. CASE e # c
    <3>1. At(u, e) = At(s, e)
      BY <1>1, <2>2 DEF Points
    <3>2. e[1] \in Frame /\ At(s, e) \in Frame /\ <<s.kind[e[1]], s.kind[At(s, e)]>> \in Below
      BY <1>2, <3>1, EntryIn DEF Sound, Levels
    <3>3. u.kind[e[1]] = s.kind[e[1]]
      BY <1>8, <3>2 DEF Below
    <3>4. e \in SlotsOf(u, At(s, e))
      BY <3>1 DEF SlotsOf
    <3>5. u.kind[At(s, e)] = s.kind[At(s, e)]
      BY <1>8, <1>9, <3>2, <3>4
    <3> QED
      BY <3>1, <3>2, <3>3, <3>5
  <2> QED
    BY <2>1, <2>2
<1>11. Counted(u)
  <2> SUFFICES ASSUME NEW g \in Frame
               PROVE  /\ u.kind[g] = "page" => u.ref[g] = Cardinality(SlotsOf(u, g))
                      /\ u.kind[g] \in {"pd0", "pt"} =>
                           /\ u.ref[g] = 1
                           /\ (\E e \in Slot : SlotsOf(u, g) = {e}) \/ Forgotten(u, g)
                      /\ u.kind[g] = "free" => u.ref[g] = 0
    BY DEF Counted
  <2>1. CASE s.kind[g] # "page"
    <3>1. ASSUME Forgotten(s, g) PROVE Forgotten(u, g)
      <4>1. g # c[1]
        BY <3>1 DEF Forgotten
      <4>2. \A i \in Idx : <<g, i>> \in Slot /\ <<g, i>> # c
        BY <1>2, <4>1 DEF Slot
      <4>3. Hollow(u, g)
        BY <1>1, <3>1, <4>2 DEF Points, Hollow, Forgotten
      <4> QED
        BY <1>5, <2>1, <3>1, <4>3 DEF Forgotten
    <3> QED
      BY <1>5, <1>8, <2>1, <3>1 DEF Sound, Counted
  <2>2. CASE s.kind[g] = "page" /\ g = p
    <3>1. Cardinality(SlotsOf(u, p)) = IF o = p THEN Cardinality(SlotsOf(s, p))
                                       ELSE Cardinality(SlotsOf(s, p)) + 1
      BY <1>4
    <3> QED
      BY <1>1, <1>6, <2>2, <3>1
  <2>3. CASE s.kind[g] = "page" /\ g # p /\ g = o
    BY <1>1, <1>3, <1>4, <1>6, <2>3
  <2>4. CASE s.kind[g] = "page" /\ g # p /\ g # o
    BY <1>1, <1>4, <1>6, <2>4 DEF Others
  <2> QED
    BY <2>1, <2>2, <2>3, <2>4
<1> QED
  BY <1>1, <1>10, <1>11 DEF Sound, u

\* An entry for a page is changed: no table is forgotten.
LEMMA LinkedPoints ==
    ASSUME NEW s, Sound(s), Linked(s), NEW c \in Slot, s.kind[c[1]] = "pt",
           NEW u, NEW x, Points(s, u, c, x),
           \A g \in Frame : u.kind[g] \in {"pd0", "pt"} => s.kind[g] = u.kind[g]
    PROVE  Linked(u)
<1> SUFFICES ASSUME NEW g \in Frame, u.kind[g] \in {"pd0", "pt"} PROVE SlotsOf(u, g) # {}
  BY DEF Linked
<1>1. s.kind[g] \in {"pd0", "pt"}
  OBVIOUS
<1>2. PICK e \in Slot : At(s, e) = g
  BY <1>1 DEF Linked, SlotsOf
<1>3. e # c
  BY <1>1, <1>2, Leads, PageTableAssumption
<1>4. At(u, e) = g
  BY <1>2, <1>3 DEF Points
<1> QED
  BY <1>4 DEF SlotsOf

----------------------------------------------------------------------------
(***************************************************************************)
(* Paths through the tables.                                               *)
(***************************************************************************)

\* In sound memory the way through the tables leads over tables of the right level, each of
\* which has no other entry above it.
LEMMA Path ==
    ASSUME NEW s, Sound(s), NEW d \in Frame, s.kind[d] = "pgdir", NEW la \in La
    PROVE  PathFacts(s, d, la)
<1> DEFINE c1 == <<d, PDX1(la)>>
           pd0 == At(s, c1)
           c0 == <<pd0, PDX0(la)>>
           pt == pt_of(s, d, la)
           c == <<pt, PTX(la)>>
           page == get_page(s, d, la)
<1>0. ASSUME NEW e \in Slot, At(s, e) # NULL
      PROVE  s.kind[At(s, e)] # "page" \/ s.ref[At(s, e)] = 1
               => \A x \in Slot : At(s, x) = At(s, e) => x = e
  BY <1>0, Leads DEF SlotsOf
<1>1. PDX1(la) \in Idx /\ PDX0(la) \in Idx /\ PTX(la) \in Idx
  BY Indices
<1>2. c1 \in Slot /\ c1[1] = d /\ NULL \notin Frame
  BY <1>1, PageTableAssumption DEF Slot
<1>3. pd0 = NULL => pt = NULL
  BY DEF pt_of
<1>4. pd0 # NULL => pt = At(s, c0)
  BY DEF pt_of
<1>5. pt = NULL => page = NULL
  BY DEF get_page
<1>6. pt # NULL => page = At(s, c)
  BY DEF get_page
<1> HIDE DEF pt, page
<1>7. pd0 # NULL => pd0 \in Frame /\ s.kind[pd0] = "pd0" /\ \A x \in Slot : At(s, x) = pd0 => x = c1
  <2> HIDE DEF c1
  <2> QED
    BY <1>0, <1>2, Leads
<1> HIDE DEF pd0
<1>8. pd0 # NULL => c0 \in Slot /\ c0[1] = pd0
  BY <1>1, <1>7 DEF Slot
<1>9. pt # NULL => pt \in Frame /\ s.kind[pt] = "pt" /\ \A x \in Slot : At(s, x) = pt => x = c0
  <2> HIDE DEF c0
  <2> QED
    BY <1>0, <1>3, <1>4, <1>7, <1>8, Leads
<1>10. pt # NULL => c \in Slot /\ c[1] = pt
  BY <1>1, <1>9 DEF Slot
<1>11. page # NULL => /\ page \in Frame /\ s.kind[page] = "page"
                      /\ s.ref[page] = 1 => \A x \in Slot : At(s, x) = page => x = c
  <2> HIDE DEF c
  <2> QED
    BY <1>0, <1>5, <1>6, <1>9, <1>10, Leads
<1> HIDE DEF c0, c
<1> QED
  BY <1>2, <1>3, <1>4, <1>5, <1>6, <1>7, <1>8, <1>9, <1>10, <1>11 DEF PathFacts, pd0, pt, page, c, c0

\* A table or a page that is mapped once lies on one path only.
LEMMA OneDir ==
    ASSUME NEW s, Sound(s), NEW d \in Frame, s.kind[d] = "pgdir", NEW la \in La,
           NEW e \in Frame, s.kind[e] = "pgdir", NEW lb \in La,
           At(s, <<d, PDX1(la)>>) # NULL, At(s, <<d, PDX1(la)>>) = At(s, <<e, PDX1(lb)>>)
    PROVE  d = e /\ PDX1(la) = PDX1(lb)
<1>1. PathFacts(s, d, la) /\ PathFacts(s, e, lb)
  BY Path
<1>2. <<d, PDX1(la)>> = <<e, PDX1(lb)>>
  BY <1>1, Zenon DEF PathFacts
<1> QED
  BY <1>2

\* No two spaces share a page table, and no two places of one space do.
LEMMA OneTable ==
    ASSUME NEW s, Sound(s), NEW d \in Frame, s.kind[d] = "pgdir", NEW la \in La,
           NEW e \in Frame, s.kind[e] = "pgdir", NEW lb \in La,
           pt_of(s, d, la) # NULL, pt_of(s, d, la) = pt_of(s, e, lb)
    PROVE  d = e /\ Under(la, lb)
<1> DEFINE dd == At(s, <<d, PDX1(la)>>)
           ee == At(s, <<e, PDX1(lb)>>)
<1>1. PathFacts(s, d, la) /\ PathFacts(s, e, lb)
  BY Path
<1>2. dd # NULL /\ ee # NULL /\ <<dd, PDX0(la)>> = <<ee, PDX0(lb)>>
  BY <1>1, Zenon DEF PathFacts
<1>3. dd = ee /\ PDX0(la) = PDX0(lb)
  BY <1>2
<1> QED
  BY <1>2, <1>3, OneDir DEF Under

\* A page with one reference is mapped at one address of one space.
LEMMA OnePage ==
    ASSUME NEW s, Sound(s), NEW d \in Frame, s.kind[d] = "pgdir", NEW la \in La,
           NEW e \in Frame, s.kind[e] = "pgdir", NEW lb \in La,
           get_page(s, d, la) # NULL, get_page(s, d, la) = get_page(s, e, lb),
           s.ref[get_page(s, d, la)] = 1
    PROVE  d = e /\ la = lb
<1> DEFINE dt == pt_of(s, d, la)
           et == pt_of(s, e, lb)
<1>1. PathFacts(s, d, la) /\ PathFacts(s, e, lb)
  BY Path
<1>2. dt # NULL /\ et # NULL /\ <<dt, PTX(la)>> = <<et, PTX(lb)>>
  BY <1>1, Zenon DEF PathFacts
<1>3. dt = et /\ PTX(la) = PTX(lb)
  BY <1>2
<1>4. d = e /\ PDX1(la) = PDX1(lb) /\ PDX0(la) = PDX0(lb)
  BY <1>2, <1>3, OneTable DEF Under
<1> QED
  BY <1>3, <1>4, Unique

\* What a table that get_pte makes, or finds, does to memory.
LEMMA TableFacts ==
    ASSUME NEW s, Sound(s), NEW c \in Slot, NEW k \in {"pd0", "pt"},
           <<s.kind[c[1]], k>> \in Below, NEW t \in Table(s, c, k),
           s.kind[c[1]] = "pgdir" \/ SlotsOf(s, c[1]) # {}
    PROVE  /\ Linked(s) => Linked(t)
           /\ Sound(t) /\ Grown(s, t) /\ At(t, c) \in Frame /\ t.kind[At(t, c)] = k
           /\ \/ t = s /\ At(s, c) # NULL
              \/ /\ At(s, c) = NULL /\ s.kind[At(t, c)] = "free"
                 /\ Points(s, t, c, At(t, c))
<1>1. CASE At(s, c) # NULL
  <2>1. t = s
    BY <1>1 DEF Table
  <2>2. At(s, c) \in Frame /\ s.kind[At(s, c)] = k
    BY <1>1, Leads DEF Below
  <2>3. Grown(s, s)
    BY DEF Grown
  <2> QED
    BY <1>1, <2>1, <2>2, <2>3
<1>2. CASE At(s, c) = NULL
  <2>1. PICK f \in alloc_page(s) : t = SetEntry(Cleared(s, f, k, 1), c, f)
    BY <1>2 DEF Table, Cleared
  <2>2. f \in Free(s) /\ f \in Frame /\ s.kind[f] = "free"
    BY DEF alloc_page, Free
  <2>3. /\ Sound(t) /\ Points(s, t, c, f) /\ t.data = s.data /\ (Linked(s) => Linked(t))
        /\ \A g \in Frame : /\ t.kind[g] = IF g = f THEN k ELSE s.kind[g]
                            /\ t.ref[g] = IF g = f THEN 1 ELSE s.ref[g]
    BY <1>2, <2>1, <2>2, FilledSound
  <2>4. At(t, c) = f
    BY <2>3 DEF Points
  <2>5. Grown(s, t)
    BY <2>2, <2>3 DEF Grown
  <2> QED
    BY <1>2, <2>2, <2>3, <2>4, <2>5
<1> QED
  BY <1>1, <1>2

\* An empty table under a page directory shows nothing new.
LEMMA OpenDir ==
    ASSUME NEW s, Sound(s), NEW t, NEW c \in Slot, s.kind[c[1]] = "pgdir", At(s, c) = NULL,
           NEW f \in Frame, s.kind[f] = "free", Points(s, t, c, f),
           NEW e \in Frame, s.kind[e] = "pgdir", NEW lb \in La
    PROVE  pt_of(t, e, lb) = pt_of(s, e, lb) /\ get_page(t, e, lb) = get_page(s, e, lb)
<1>1. PDX1(lb) \in Idx /\ PDX0(lb) \in Idx /\ PTX(lb) \in Idx
  BY Indices
<1>2. PathFacts(s, e, lb)
  BY Path
<1>3. ASSUME NEW g \in Frame, s.kind[g] # "pgdir", NEW i \in Idx
      PROVE  At(t, <<g, i>>) = At(s, <<g, i>>)
  <2>1. <<g, i>> \in Slot /\ <<g, i>> # c
    BY <1>3 DEF Slot
  <2> QED
    BY <2>1 DEF Points
<1>4. pt_of(t, e, lb) = pt_of(s, e, lb)
  <2> DEFINE c1 == <<e, PDX1(lb)>>
  <2>1. c1 \in Slot
    BY <1>1 DEF Slot
  <2>2. CASE c1 = c
    <3>1. At(t, c1) = f /\ f # NULL /\ At(s, c1) = NULL
      BY <2>1, <2>2, PageTableAssumption DEF Points
    <3>2. At(t, <<f, PDX0(lb)>>) = NULL
      BY <1>1, <1>3, Ends
    <3> HIDE DEF c1
    <3> QED
      BY <3>1, <3>2 DEF pt_of, c1
  <2>3. CASE c1 # c
    <3>1. At(t, c1) = At(s, c1)
      BY <2>1, <2>3 DEF Points
    <3>2. At(s, c1) # NULL => At(s, c1) \in Frame /\ s.kind[At(s, c1)] # "pgdir"
      BY <1>2 DEF PathFacts
    <3> HIDE DEF c1
    <3>3. At(s, c1) # NULL => At(t, <<At(s, c1), PDX0(lb)>>) = At(s, <<At(s, c1), PDX0(lb)>>)
      BY <1>1, <1>3, <3>2
    <3> QED
      BY <3>1, <3>3 DEF pt_of, c1
  <2> QED
    BY <2>2, <2>3
<1>5. get_page(t, e, lb) = get_page(s, e, lb)
  <2> DEFINE pt == pt_of(s, e, lb)
  <2>1. pt # NULL => pt \in Frame /\ s.kind[pt] # "pgdir"
    BY <1>2 DEF PathFacts
  <2> HIDE DEF pt
  <2>2. pt # NULL => At(t, <<pt, PTX(lb)>>) = At(s, <<pt, PTX(lb)>>)
    BY <1>1, <1>3, <2>1
  <2> QED
    BY <1>4, <2>2 DEF get_page, pt
<1> QED
  BY <1>4, <1>5

\* An empty page table is seen only where it was put.
LEMMA OpenTable ==
    ASSUME NEW s, Sound(s), NEW t, NEW d \in Frame, s.kind[d] = "pgdir", NEW la \in La,
           NEW pd0, pd0 = At(s, <<d, PDX1(la)>>), pd0 # NULL,
           NEW c, c = <<pd0, PDX0(la)>>, At(s, c) = NULL,
           NEW f \in Frame, s.kind[f] = "free", Points(s, t, c, f),
           NEW e \in Frame, s.kind[e] = "pgdir", NEW lb \in La
    PROVE  /\ At(t, <<e, PDX1(lb)>>) = At(s, <<e, PDX1(lb)>>)
           /\ pt_of(t, e, lb) = IF e = d /\ Under(la, lb) THEN f ELSE pt_of(s, e, lb)
           /\ get_page(t, e, lb) = get_page(s, e, lb)
<1>1. PDX1(lb) \in Idx /\ PDX0(lb) \in Idx /\ PTX(lb) \in Idx
  BY Indices
<1>2. PathFacts(s, e, lb) /\ PathFacts(s, d, la)
  BY Path
<1>3. pd0 \in Frame /\ s.kind[pd0] = "pd0" /\ c \in Slot /\ f # NULL
  BY <1>2, PageTableAssumption DEF PathFacts
<1>4. ASSUME NEW g \in Frame, NEW i \in Idx, <<g, i>> # c
      PROVE  At(t, <<g, i>>) = At(s, <<g, i>>)
  <2>1. <<g, i>> \in Slot
    BY DEF Slot
  <2> QED
    BY <1>4, <2>1 DEF Points
<1> DEFINE dd == At(s, <<e, PDX1(lb)>>)
<1>5. At(t, <<e, PDX1(lb)>>) = dd
  BY <1>1, <1>3, <1>4
<1>6. dd # NULL => dd \in Frame /\ pt_of(s, e, lb) = At(s, <<dd, PDX0(lb)>>)
  BY <1>2 DEF PathFacts
<1>7. dd = NULL => pt_of(s, e, lb) = NULL
  BY <1>2 DEF PathFacts
<1>8. pt_of(t, e, lb) = IF dd = NULL THEN NULL ELSE At(t, <<dd, PDX0(lb)>>)
  BY <1>5 DEF pt_of
<1>9. e = d /\ Under(la, lb) => dd = pd0 /\ PDX0(lb) = PDX0(la) /\ dd # NULL
  BY DEF Under
<1>10. dd # NULL /\ dd = pd0 => e = d /\ PDX1(la) = PDX1(lb)
  BY OneDir
<1>11. At(t, c) = f
  BY <1>3 DEF Points
<1>12. ASSUME dd # NULL, ~(e = d /\ Under(la, lb))
       PROVE  At(t, <<dd, PDX0(lb)>>) = At(s, <<dd, PDX0(lb)>>)
  <2>1. dd \in Frame /\ (dd = pd0 => PDX0(la) # PDX0(lb))
    BY <1>6, <1>10, <1>12 DEF Under
  <2> HIDE DEF dd
  <2> QED
    BY <1>1, <1>4, <2>1
<1> HIDE DEF dd
<1>13. pt_of(t, e, lb) = IF e = d /\ Under(la, lb) THEN f ELSE pt_of(s, e, lb)
  <2>1. CASE e = d /\ Under(la, lb)
    BY <1>8, <1>9, <1>11, <2>1
  <2>2. CASE ~(e = d /\ Under(la, lb))
    BY <1>6, <1>7, <1>8, <1>12, <2>2
  <2> QED
    BY <2>1, <2>2
<1>14. ASSUME NEW g \in Frame, s.kind[g] # "pd0", NEW i \in Idx
       PROVE  At(t, <<g, i>>) = At(s, <<g, i>>)
  BY <1>3, <1>4, <1>14
<1>15. get_page(t, e, lb) = get_page(s, e, lb)
  <2>1. CASE e = d /\ Under(la, lb)
    <3>1. At(t, <<f, PTX(lb)>>) = NULL
      BY <1>1, <1>14, Ends
    <3>2. pt_of(s, e, lb) = NULL
      BY <1>6, <1>9, <2>1
    <3> QED
      BY <1>3, <1>13, <2>1, <3>1, <3>2 DEF get_page
  <2>2. CASE ~(e = d /\ Under(la, lb))
    <3> DEFINE pt == pt_of(s, e, lb)
    <3>1. pt # NULL => pt \in Frame /\ s.kind[pt] # "pd0"
      BY <1>2 DEF PathFacts
    <3>2. pt_of(t, e, lb) = pt
      BY <1>13, <2>2
    <3> HIDE DEF pt
    <3>3. pt # NULL => At(t, <<pt, PTX(lb)>>) = At(s, <<pt, PTX(lb)>>)
      BY <1>1, <1>14, <3>1
    <3> QED
      BY <3>2, <3>3 DEF get_page, pt
  <2> QED
    BY <2>1, <2>2
<1> QED
  BY <1>5, <1>13, <1>15 DEF dd

\* get_pte keeps memory sound and shows no other pages, even when it fails half way.
LEMMA GetPteFacts ==
    ASSUME NEW s, Sound(s), NEW d \in Frame, s.kind[d] = "pgdir", NEW la \in La,
           NEW r \in get_pte(s, d, la)
    PROVE  /\ Sound(r.s) /\ Grown(s, r.s) /\ SamePages(s, r.s) /\ (Linked(s) => Linked(r.s))
           /\ r.pt # NULL => Opened(s, r.s, d, la, r.pt)
<1> DEFINE c1 == <<d, PDX1(la)>>
           c0(t) == <<At(t, c1), PDX0(la)>>
<1>1. PathFacts(s, d, la) /\ c1 \in Slot /\ c1[1] = d /\ NULL \notin Frame
  BY Path DEF PathFacts
<1>2. Grown(s, s) /\ SamePages(s, s)
  BY DEF Grown, SamePages
<1>3. \/ r = [s |-> s, pt |-> NULL]
      \/ \E t \in Table(s, c1, "pd0") : r = [s |-> t, pt |-> NULL]
      \/ \E t \in Table(s, c1, "pd0") : \E u \in Table(t, c0(t), "pt") :
            r = [s |-> u, pt |-> pt_of(u, d, la)]
  <2>1. CASE Table(s, c1, "pd0") = {}
    BY <2>1 DEF get_pte
  <2>2. CASE Table(s, c1, "pd0") # {}
    <3>1. PICK t \in Table(s, c1, "pd0") :
            r \in IF Table(t, c0(t), "pt") = {} THEN {[s |-> t, pt |-> NULL]}
                  ELSE {[s |-> u, pt |-> pt_of(u, d, la)] : u \in Table(t, c0(t), "pt")}
      BY <2>2 DEF get_pte
    <3> HIDE DEF c1, c0
    <3> QED
      BY <3>1
  <2> QED
    BY <2>1, <2>2
<1>4. ASSUME NEW t \in Table(s, c1, "pd0")
      PROVE  /\ Sound(t) /\ Grown(s, t) /\ At(t, c1) \in Frame /\ t.kind[At(t, c1)] = "pd0"
             /\ t.kind[d] = "pgdir" /\ (Linked(s) => Linked(t))
             /\ \A e \in Frame : s.kind[e] = "pgdir" => \A lb \in La :
                   /\ t.kind[e] = "pgdir"
                   /\ (At(t, <<e, PDX1(lb)>>) = NULL) <=>
                        (At(s, <<e, PDX1(lb)>>) = NULL /\ ~(e = d /\ PDX1(lb) = PDX1(la)))
                   /\ pt_of(t, e, lb) = pt_of(s, e, lb) /\ get_page(t, e, lb) = get_page(s, e, lb)
  <2>1. <<s.kind[c1[1]], "pd0">> \in Below
    BY <1>1 DEF Below
  <2>2. /\ Sound(t) /\ Grown(s, t) /\ At(t, c1) \in Frame /\ t.kind[At(t, c1)] = "pd0"
        /\ Linked(s) => Linked(t)
        /\ \/ t = s /\ At(s, c1) # NULL
           \/ /\ At(s, c1) = NULL /\ s.kind[At(t, c1)] = "free"
              /\ Points(s, t, c1, At(t, c1))
    <3> HIDE DEF c1
    <3> QED
      BY <1>1, <2>1, TableFacts
  <2>3. \A e \in Frame : s.kind[e] = "pgdir" => t.kind[e] = "pgdir"
    BY <2>2 DEF Grown
  <2>4. ASSUME NEW e \in Frame, s.kind[e] = "pgdir", NEW lb \in La
        PROVE  /\ (At(t, <<e, PDX1(lb)>>) = NULL) <=>
                     (At(s, <<e, PDX1(lb)>>) = NULL /\ ~(e = d /\ PDX1(lb) = PDX1(la)))
               /\ pt_of(t, e, lb) = pt_of(s, e, lb) /\ get_page(t, e, lb) = get_page(s, e, lb)
    <3>1. CASE t = s /\ At(s, c1) # NULL
      BY <3>1
    <3>2. CASE /\ At(s, c1) = NULL /\ s.kind[At(t, c1)] = "free"
               /\ Points(s, t, c1, At(t, c1))
      <4>1. <<e, PDX1(lb)>> \in Slot /\ (<<e, PDX1(lb)>> = c1 <=> e = d /\ PDX1(lb) = PDX1(la))
        BY Indices DEF Slot
      <4>2. pt_of(t, e, lb) = pt_of(s, e, lb) /\ get_page(t, e, lb) = get_page(s, e, lb)
        <5> HIDE DEF c1
        <5> QED
          BY <1>1, <2>2, <2>4, <3>2, OpenDir
      <4> HIDE DEF c1
      <4> QED
        BY <1>1, <2>2, <3>2, <4>1, <4>2 DEF Points
    <3> QED
      BY <2>2, <3>1, <3>2
  <2> QED
    BY <2>2, <2>3, <2>4
<1>5. ASSUME NEW t \in Table(s, c1, "pd0"), NEW u \in Table(t, c0(t), "pt")
      PROVE  /\ Sound(u) /\ Grown(s, u) /\ Opened(s, u, d, la, pt_of(u, d, la))
             /\ Linked(s) => Linked(u)
  <2>1. /\ Sound(t) /\ Grown(s, t) /\ At(t, c1) \in Frame /\ t.kind[At(t, c1)] = "pd0"
        /\ t.kind[d] = "pgdir" /\ (Linked(s) => Linked(t))
    BY <1>4
  <2> DEFINE c == c0(t)
  <2>2. c \in Slot /\ c[1] = At(t, c1)
    <3> HIDE DEF c1
    <3> QED
      BY <2>1, Indices DEF Slot
  <2>3. <<t.kind[c[1]], "pt">> \in Below
    BY <2>1, <2>2 DEF Below
  <2>9. SlotsOf(t, c[1]) # {}
    <3> HIDE DEF c1
    <3> QED
      BY <1>1, <2>2 DEF SlotsOf
  <2>4. /\ Sound(u) /\ Grown(t, u) /\ At(u, c) \in Frame /\ u.kind[At(u, c)] = "pt"
        /\ Linked(t) => Linked(u)
        /\ \/ u = t /\ At(t, c) # NULL
           \/ /\ At(t, c) = NULL /\ t.kind[At(u, c)] = "free"
              /\ Points(t, u, c, At(u, c))
    <3>1. u \in Table(t, c, "pt")
      OBVIOUS
    <3> HIDE DEF c, c1
    <3>2. /\ Linked(t) => Linked(u)
          /\ Sound(u) /\ Grown(t, u) /\ At(u, c) \in Frame /\ u.kind[At(u, c)] = "pt"
      BY <2>1, <2>2, <2>3, <2>9, <3>1, TableFacts
    <3>3. \/ u = t /\ At(t, c) # NULL
          \/ /\ At(t, c) = NULL /\ t.kind[At(u, c)] = "free"
             /\ Points(t, u, c, At(u, c))
      BY <2>1, <2>2, <2>3, <2>9, <3>1, TableFacts
    <3> QED
      BY <3>2, <3>3
  <2>5. Grown(s, u)
    BY <2>1, <2>4 DEF Grown
  <2>6. ASSUME NEW e \in Frame, t.kind[e] = "pgdir", NEW lb \in La
        PROVE  /\ (At(u, <<e, PDX1(lb)>>) = NULL) <=> (At(t, <<e, PDX1(lb)>>) = NULL)
               /\ pt_of(u, e, lb) = IF e = d /\ Under(la, lb) THEN At(u, c) ELSE pt_of(t, e, lb)
               /\ get_page(u, e, lb) = get_page(t, e, lb)
    <3>1. CASE u = t
      <4>1. e = d /\ Under(la, lb) => pt_of(t, e, lb) = At(t, c)
        BY <2>1, PageTableAssumption DEF pt_of, Under
      <4> QED
        BY <3>1, <4>1
    <3>2. CASE /\ At(t, c) = NULL /\ t.kind[At(u, c)] = "free"
               /\ Points(t, u, c, At(u, c))
      <4>1. At(t, c1) # NULL
        BY <1>1, <2>1
      <4>2. /\ At(u, <<e, PDX1(lb)>>) = At(t, <<e, PDX1(lb)>>)
            /\ pt_of(u, e, lb) = IF e = d /\ Under(la, lb) THEN At(u, c) ELSE pt_of(t, e, lb)
            /\ get_page(u, e, lb) = get_page(t, e, lb)
        <5> DEFINE f == At(u, c)
        <5>1. f \in Frame /\ t.kind[f] = "free" /\ Points(t, u, c, f)
          BY <2>4, <3>2
        <5> HIDE DEF f
        <5>2. /\ At(u, <<e, PDX1(lb)>>) = At(t, <<e, PDX1(lb)>>)
              /\ pt_of(u, e, lb) = IF e = d /\ Under(la, lb) THEN f ELSE pt_of(t, e, lb)
              /\ get_page(u, e, lb) = get_page(t, e, lb)
          BY <2>1, <2>6, <3>2, <4>1, <5>1, OpenTable
        <5> QED
          BY <5>2 DEF f
      <4> QED
        BY <4>2
    <3> QED
      BY <2>4, <3>1, <3>2
  <2>7. pt_of(u, d, la) = At(u, c)
    BY <2>1, <2>6 DEF Under
  <2> HIDE DEF c, c1
  <2>8. Opened(s, u, d, la, pt_of(u, d, la))
    BY <1>4, <2>6, <2>7 DEF Opened
  <2> QED
    BY <2>1, <2>4, <2>5, <2>8
<1> HIDE DEF c1, c0
<1>6. \A t \in Table(s, c1, "pd0") : SamePages(s, t)
  BY <1>4 DEF SamePages, Directories
<1>7. \A t \in Table(s, c1, "pd0") : \A u \in Table(t, c0(t), "pt") : SamePages(s, u)
  BY <1>5 DEF SamePages, Directories, Opened
<1> QED
  BY <1>2, <1>3, <1>4, <1>5, <1>6, <1>7

\* With the same entries the tables lead to the same pages.
LEMMA SameView ==
    ASSUME NEW s \in Memory, NEW u, SameEntries(s, u), NEW e \in Frame, NEW lb \in La
    PROVE  /\ At(u, <<e, PDX1(lb)>>) = At(s, <<e, PDX1(lb)>>)
           /\ pt_of(u, e, lb) = pt_of(s, e, lb) /\ get_page(u, e, lb) = get_page(s, e, lb)
<1> DEFINE dd == At(s, <<e, PDX1(lb)>>)
           pt == pt_of(s, e, lb)
<1>1. PDX1(lb) \in Idx /\ PDX0(lb) \in Idx /\ PTX(lb) \in Idx
  BY Indices
<1>2. ASSUME NEW g \in Frame, NEW i \in Idx
      PROVE  At(u, <<g, i>>) = At(s, <<g, i>>) /\ At(s, <<g, i>>) \in Frame \cup {NULL}
  BY EntryIn DEF Slot, SameEntries
<1>3. At(u, <<e, PDX1(lb)>>) = dd /\ dd \in Frame \cup {NULL}
  BY <1>1, <1>2
<1>4. pt = IF dd = NULL THEN NULL ELSE At(s, <<dd, PDX0(lb)>>)
  BY DEF pt_of
<1>5. pt_of(u, e, lb) = IF dd = NULL THEN NULL ELSE At(u, <<dd, PDX0(lb)>>)
  BY <1>3 DEF pt_of
<1> HIDE DEF dd, pt
<1>6. pt_of(u, e, lb) = pt /\ pt \in Frame \cup {NULL}
  BY <1>1, <1>2, <1>3, <1>4, <1>5
<1>7. pt # NULL => At(u, <<pt, PTX(lb)>>) = At(s, <<pt, PTX(lb)>>)
  BY <1>1, <1>2, <1>6
<1>8. get_page(u, e, lb) = get_page(s, e, lb)
  BY <1>6, <1>7 DEF get_page, pt
<1> QED
  BY <1>3, <1>6, <1>8 DEF dd, pt

\* An entry of a page table is seen at one address of one space.
LEMMA EntryShows ==
    ASSUME NEW s, Sound(s), NEW d \in Frame, s.kind[d] = "pgdir", NEW la \in La,
           pt_of(s, d, la) # NULL, NEW u, NEW x, Points(s, u, <<pt_of(s, d, la), PTX(la)>>, x)
    PROVE  Shows(s, u, d, la, x)
<1> DEFINE p == pt_of(s, d, la)
           c == <<p, PTX(la)>>
<1>1. p # NULL /\ p \in Frame /\ s.kind[p] = "pt" /\ c \in Slot /\ PathFacts(s, d, la)
  BY Path DEF PathFacts
<1>2. ASSUME NEW g \in Frame, NEW i \in Idx, <<g, i>> # c
      PROVE  At(u, <<g, i>>) = At(s, <<g, i>>)
  <2>1. <<g, i>> \in Slot
    BY DEF Slot
  <2> QED
    BY <1>2, <2>1 DEF Points
<1>3. At(u, c) = x
  BY <1>1 DEF Points
<1> SUFFICES ASSUME NEW e \in Frame, s.kind[e] = "pgdir", NEW lb \in La
             PROVE  /\ At(u, <<e, PDX1(lb)>>) = At(s, <<e, PDX1(lb)>>)
                    /\ pt_of(u, e, lb) = pt_of(s, e, lb)
                    /\ get_page(u, e, lb) = IF e = d /\ lb = la THEN x ELSE get_page(s, e, lb)
  BY DEF Shows
<1> DEFINE dd == At(s, <<e, PDX1(lb)>>)
           pt == pt_of(s, e, lb)
<1>4. PDX1(lb) \in Idx /\ PDX0(lb) \in Idx /\ PTX(lb) \in Idx
  BY Indices
<1>5. PathFacts(s, e, lb)
  BY Path
<1>6. pt = p => e = d /\ Under(la, lb)
  <2>1. pt_of(s, d, la) # NULL /\ pt_of(s, d, la) = pt_of(s, e, lb) => d = e /\ Under(la, lb)
    BY OneTable
  <2> QED
    BY <2>1
<1> HIDE DEF p
<1>7. At(u, <<e, PDX1(lb)>>) = dd
  BY <1>1, <1>2, <1>4
<1>8. dd # NULL => dd \in Frame /\ s.kind[dd] = "pd0"
  BY <1>5 DEF PathFacts
<1>9. pt = IF dd = NULL THEN NULL ELSE At(s, <<dd, PDX0(lb)>>)
  BY DEF pt_of
<1>10. pt_of(u, e, lb) = IF dd = NULL THEN NULL ELSE At(u, <<dd, PDX0(lb)>>)
  BY <1>7 DEF pt_of
<1>11. pt # NULL => pt \in Frame
  BY <1>5 DEF PathFacts
<1>12. get_page(s, e, lb) = IF pt = NULL THEN NULL ELSE At(s, <<pt, PTX(lb)>>)
  BY DEF get_page
<1> HIDE DEF dd, pt
<1>13. pt_of(u, e, lb) = pt
  BY <1>1, <1>2, <1>4, <1>8, <1>9, <1>10
<1>14. get_page(u, e, lb) = IF pt = NULL THEN NULL ELSE At(u, <<pt, PTX(lb)>>)
  BY <1>13 DEF get_page
<1>15. CASE e = d /\ lb = la
  BY <1>1, <1>3, <1>7, <1>13, <1>14, <1>15 DEF dd, pt, p
<1>16. CASE ~(e = d /\ lb = la)
  <2>1. pt = p => PTX(lb) # PTX(la)
    BY <1>6, <1>16, Unique DEF Under
  <2>2. pt # NULL => At(u, <<pt, PTX(lb)>>) = At(s, <<pt, PTX(lb)>>)
    BY <1>2, <1>4, <1>11, <2>1
  <2> QED
    BY <1>7, <1>12, <1>13, <1>14, <1>16, <2>2 DEF dd, pt
<1> QED
  BY <1>15, <1>16

\* get_pte, and a page put where it found the entry: v has the tables, u the page.
LEMMA PlaceFacts ==
    ASSUME NEW s, Sound(s), NEW d \in Frame, s.kind[d] = "pgdir", NEW la \in La,
           NEW r \in get_pte(s, d, la), r.pt # NULL,
           NEW v, Sound(v), SameEntries(r.s, v),
           \A e \in Frame : s.kind[e] = "pgdir" => v.kind[e] = "pgdir",
           NEW p \in Frame, v.kind[p] = "page"
    PROVE  LET u == Insert(v, p, <<r.pt, PTX(la)>>)
           IN  /\ Sound(u) /\ Maps(s, u, d, la, p) /\ Replaced(v, u, p, get_page(s, d, la))
               /\ Linked(v) => Linked(u)
<1> DEFINE c == <<r.pt, PTX(la)>>
           u == Insert(v, p, c)
           o == get_page(s, d, la)
<1>1. Sound(r.s) /\ Opened(s, r.s, d, la, r.pt) /\ r.s \in Memory
  BY GetPteFacts DEF Sound
<1>2. \A e \in Frame, lb \in La :
         /\ At(v, <<e, PDX1(lb)>>) = At(r.s, <<e, PDX1(lb)>>)
         /\ pt_of(v, e, lb) = pt_of(r.s, e, lb) /\ get_page(v, e, lb) = get_page(r.s, e, lb)
  BY <1>1, SameView
<1>3. pt_of(v, d, la) = r.pt /\ get_page(v, d, la) = o /\ v.kind[d] = "pgdir"
  BY <1>1, <1>2 DEF Opened, Under
<1>4. c \in Slot /\ c[1] = r.pt /\ v.kind[c[1]] = "pt" /\ At(v, c) = o /\ SlotsOf(v, c[1]) # {}
  <2>1. PathFacts(v, d, la)
    BY <1>3, Path
  <2>2. \E e \in Slot : At(v, e) = r.pt
    BY <1>3, <2>1 DEF PathFacts
  <2> QED
    BY <1>3, <2>1, <2>2 DEF PathFacts, SlotsOf
<1> HIDE DEF c, o
<1>5. Points(v, u, c, p) /\ Replaced(v, u, p, o)
  BY <1>4, InsertFacts
<1>6. Sound(u)
  BY <1>4, InsertSound
<1> HIDE DEF u
<1>7. Shows(v, u, d, la, p)
  BY <1>3, <1>5, EntryShows DEF c
<1>8. Maps(s, u, d, la, p)
  <2> SUFFICES ASSUME NEW e \in Frame, s.kind[e] = "pgdir", NEW lb \in La
               PROVE  /\ (At(u, <<e, PDX1(lb)>>) = NULL) <=>
                           (At(s, <<e, PDX1(lb)>>) = NULL /\ ~(e = d /\ PDX1(lb) = PDX1(la)))
                      /\ (pt_of(u, e, lb) = NULL) <=>
                           (pt_of(s, e, lb) = NULL /\ ~(e = d /\ Under(la, lb)))
                      /\ get_page(u, e, lb) = IF e = d /\ lb = la THEN p ELSE get_page(s, e, lb)
    BY DEF Maps
  <2>1. v.kind[e] = "pgdir"
    OBVIOUS
  <2>2. /\ At(u, <<e, PDX1(lb)>>) = At(v, <<e, PDX1(lb)>>)
        /\ pt_of(u, e, lb) = pt_of(v, e, lb)
        /\ get_page(u, e, lb) = IF e = d /\ lb = la THEN p ELSE get_page(v, e, lb)
    BY <1>7, <2>1 DEF Shows
  <2>3. /\ (At(v, <<e, PDX1(lb)>>) = NULL) <=>
             (At(s, <<e, PDX1(lb)>>) = NULL /\ ~(e = d /\ PDX1(lb) = PDX1(la)))
        /\ pt_of(v, e, lb) = IF e = d /\ Under(la, lb) THEN r.pt ELSE pt_of(s, e, lb)
        /\ get_page(v, e, lb) = get_page(s, e, lb)
    BY <1>1, <1>2 DEF Opened
  <2> QED
    BY <2>2, <2>3
<1>9. Linked(v) => Linked(u)
  <2>1. ASSUME NEW g \in Frame, u.kind[g] \in {"pd0", "pt"} PROVE v.kind[g] = u.kind[g]
    <3>1. g # p /\ g # o
      BY <1>5, <2>1, PageTableAssumption DEF Replaced
    <3> QED
      BY <1>5, <3>1 DEF Replaced, Others
  <2> QED
    BY <1>4, <1>5, <2>1, LinkedPoints
<1> QED
  BY <1>5, <1>6, <1>8, <1>9 DEF u, o, c

\* page_insert maps p at la, unmaps what was there, and changes nothing else that a page
\* directory leads to; when it fails it has made tables at most.
LEMMA PageInsertFacts ==
    ASSUME NEW s, Sound(s), NEW d \in Frame, s.kind[d] = "pgdir", NEW la \in La,
           NEW p \in Frame, s.kind[p] = "page", NEW r \in page_insert(s, d, p, la)
    PROVE  LET u == r.s
               o == get_page(s, d, la)
           IN  /\ Sound(u) /\ r.ok \in BOOLEAN /\ (Linked(s) => Linked(u))
               /\ ~r.ok => Grown(s, u) /\ SamePages(s, u)
               /\ r.ok =>
                    /\ Maps(s, u, d, la, p)
                    /\ \A g \in Frame \ {p, o} : /\ u.data[g] = s.data[g]
                                                 /\ IF s.kind[g] = "free" THEN u.kind[g] \in {"free", "pd0", "pt"}
                                                    ELSE u.kind[g] = s.kind[g] /\ u.ref[g] = s.ref[g]
                    /\ u.kind[p] = "page" /\ u.data[p] = s.data[p]
                    /\ u.ref[p] = IF o = p THEN s.ref[p] ELSE s.ref[p] + 1
                    /\ o \notin {NULL, p} =>
                         /\ o \in Frame /\ s.kind[o] = "page" /\ u.ref[o] = s.ref[o] - 1
                         /\ u.kind[o] = IF s.ref[o] = 1 THEN "free" ELSE "page"
<1> DEFINE o == get_page(s, d, la)
<1>1. PICK q \in get_pte(s, d, la) :
        r = IF q.pt = NULL THEN [s |-> q.s, ok |-> FALSE]
            ELSE [s |-> Insert(q.s, p, <<q.pt, PTX(la)>>), ok |-> TRUE]
  BY DEF page_insert
<1>2. Sound(q.s) /\ Grown(s, q.s) /\ SamePages(s, q.s) /\ (Linked(s) => Linked(q.s))
  BY GetPteFacts
<1>3. CASE q.pt = NULL
  BY <1>1, <1>2, <1>3
<1>4. CASE q.pt # NULL
  <2> DEFINE u == Insert(q.s, p, <<q.pt, PTX(la)>>)
  <2>1. r.s = u /\ r.ok = TRUE
    BY <1>1, <1>4
  <2>2. SameEntries(q.s, q.s) /\ q.s.kind[p] = "page" /\ q.s.ref[p] = s.ref[p] /\ q.s.data = s.data
        /\ \A e \in Frame : s.kind[e] = "pgdir" => q.s.kind[e] = "pgdir"
    BY <1>2 DEF SameEntries, Grown
  <2>3. Sound(u) /\ Maps(s, u, d, la, p) /\ Replaced(q.s, u, p, o) /\ (Linked(q.s) => Linked(u))
    BY <1>2, <1>4, <2>2, PlaceFacts
  <2> HIDE DEF u
  <2>4. o # NULL => s.kind[o] = "page" /\ o \in Frame
    BY Path DEF PathFacts
  <2>5. o # NULL => q.s.ref[o] = s.ref[o]
    BY <1>2, <2>4 DEF Grown
  <2>6. ASSUME NEW g \in Frame \ {p, o}
        PROVE  /\ u.data[g] = s.data[g]
               /\ IF s.kind[g] = "free" THEN u.kind[g] \in {"free", "pd0", "pt"}
                  ELSE u.kind[g] = s.kind[g] /\ u.ref[g] = s.ref[g]
    BY <1>2, <2>3 DEF Others, Grown, Replaced
  <2> HIDE DEF o
  <2> QED
    BY <1>2, <2>1, <2>2, <2>3, <2>4, <2>5, <2>6 DEF o, Replaced
<1> QED
  BY <1>3, <1>4

\* The areas and the first page table consist of addresses.
LEMMA Members ==
    /\ boot_pgdir \in Frame
    /\ Idx \subseteq La /\ 0 \in Idx
    /\ \A la \in Idx : PDX1(la) = 0 /\ PDX0(la) = 0 /\ PTX(la) = la
    /\ UserLa \subseteq La
<1>1. boot_pgdir \in Frame
  <2>1. \E f \in Frame : \A g \in Frame : f <= g
    <3>1. PICK f \in Frame : \A g \in Frame : <<g, f>> \notin OpToRel(<, Nat)
      BY NatLessThanWellFounded, WFMin, PageTableAssumption, Zenon
    <3>2. \A g \in Frame : ~(g < f)
      BY <3>1, PageTableAssumption, Zenon DEF OpToRel
    <3> QED
      BY <3>2, PageTableAssumption
  <2> QED
    BY <2>1 DEF boot_pgdir
<1>2. 0 \in Idx
  BY PageTableAssumption DEF Idx
<1>3. ASSUME NEW la \in Idx
      PROVE  la \in La /\ PDX1(la) = 0 /\ PDX0(la) = 0 /\ PTX(la) = la
  <2>1. Address(0, 0, la) = la
    BY PageTableAssumption, SMTT(30) DEF Address, Idx
  <2> QED
    BY <1>2, <2>1, Digits
<1> QED
  BY <1>1, <1>2, <1>3 DEF UserLa

\* A page is mapped at an address that lies in the areas.
LEMMA WithinMaps ==
    ASSUME NEW s, NEW u, NEW d, NEW la \in La, NEW x, Maps(s, u, d, la, x),
           NEW e \in Frame, s.kind[e] = "pgdir", NEW A \in SUBSET La, Within(s, e, A),
           e = d => la \in A
    PROVE  Within(u, e, A)
<1>1. \A lb \in La :
        /\ (At(u, <<e, PDX1(lb)>>) = NULL) <=>
              (At(s, <<e, PDX1(lb)>>) = NULL /\ ~(e = d /\ PDX1(lb) = PDX1(la)))
        /\ (pt_of(u, e, lb) = NULL) <=> (pt_of(s, e, lb) = NULL /\ ~(e = d /\ Under(la, lb)))
        /\ get_page(u, e, lb) = IF e = d /\ lb = la THEN x ELSE get_page(s, e, lb)
  BY DEF Maps
<1>2. ASSUME NEW lb \in La, get_page(u, e, lb) # NULL
      PROVE  lb \in A
  BY <1>1, <1>2 DEF Within
<1>3. ASSUME NEW lb \in La, pt_of(u, e, lb) # NULL
      PROVE  \E lc \in A : Under(lb, lc)
  <2>1. CASE pt_of(s, e, lb) # NULL
    BY <2>1 DEF Within
  <2>2. CASE e = d /\ Under(la, lb)
    BY <2>2 DEF Under
  <2> QED
    BY <1>1, <1>3, <2>1, <2>2
<1>4. ASSUME NEW lb \in La, At(u, <<e, PDX1(lb)>>) # NULL
      PROVE  \E lc \in A : PDX1(lc) = PDX1(lb) /\ (Full(e) => pt_of(u, e, lc) # NULL)
  <2>1. CASE At(s, <<e, PDX1(lb)>>) # NULL
    <3>1. PICK lc \in A : PDX1(lc) = PDX1(lb) /\ (Full(e) => pt_of(s, e, lc) # NULL)
      BY <2>1 DEF Within
    <3> QED
      BY <1>1, <3>1
  <2>2. CASE e = d /\ PDX1(lb) = PDX1(la)
    <3>1. Under(la, la)
      BY DEF Under
    <3> QED
      BY <1>1, <2>2, <3>1
  <2> QED
    BY <1>1, <1>4, <2>1, <2>2
<1> QED
  BY <1>2, <1>3, <1>4 DEF Within

\* Unmapping keeps a space within its areas.
LEMMA WithinShows ==
    ASSUME NEW s, NEW u, NEW d, NEW la \in La, Shows(s, u, d, la, NULL),
           NEW e \in Frame, s.kind[e] = "pgdir", NEW A \in SUBSET La, Within(s, e, A)
    PROVE  Within(u, e, A)
<1>1. \A lb \in La :
        /\ At(u, <<e, PDX1(lb)>>) = At(s, <<e, PDX1(lb)>>)
        /\ pt_of(u, e, lb) = pt_of(s, e, lb)
        /\ get_page(u, e, lb) # NULL => get_page(s, e, lb) # NULL
  BY DEF Shows
<1> QED
  BY <1>1 DEF Within

\* So do steps that change no entry.
LEMMA WithinSame ==
    ASSUME NEW s \in Memory, NEW u, SameEntries(s, u), NEW e \in Frame, NEW A \in SUBSET La,
           Within(s, e, A)
    PROVE  Within(u, e, A)
<1>1. \A lb \in La :
        /\ At(u, <<e, PDX1(lb)>>) = At(s, <<e, PDX1(lb)>>)
        /\ pt_of(u, e, lb) = pt_of(s, e, lb)
        /\ get_page(u, e, lb) = get_page(s, e, lb)
  BY SameView
<1> QED
  BY <1>1 DEF Within

\* A new page at an address of the areas keeps everything clean.
LEMMA CleanMaps ==
    ASSUME NEW s, NEW D, Clean(s, D), NEW d \in D, NEW la \in UserLa,
           NEW u, NEW p, Maps(s, u, d, la, p), NewPage(s, u, p)
    PROVE  Clean(u, D)
<1>1. OnlyDirs(s, D) /\ d \in Frame /\ d # boot_pgdir /\ la \in La
  BY DEF Clean, OnlyDirs, UserLa
<1>2. OnlyDirs(u, D)
  BY <1>1 DEF OnlyDirs, NewPage
<1>3. \A e \in D \cup {boot_pgdir} : e \in Frame /\ s.kind[e] = "pgdir"
  BY <1>1 DEF OnlyDirs
<1>4. Within(u, boot_pgdir, {})
  BY <1>1, <1>3, WithinMaps DEF Clean
<1>5. \A e \in D : Within(u, e, UserLa)
  BY <1>1, <1>3, Members, WithinMaps DEF Clean
<1>6. \A f \in Frame : u.kind[f] = "page" => u.ref[f] = 1 /\ u.data[f] \in Val
  BY DEF Clean, NewPage
<1> QED
  BY <1>2, <1>4, <1>5, <1>6 DEF Clean

\* No entry of boot_pgdir is set when nothing lies in its areas.
LEMMA EmptyDir ==
    ASSUME NEW s, NEW d, Within(s, d, {}), NEW i \in Idx
    PROVE  At(s, <<d, i>>) = NULL
<1>1. Address(i, 0, 0) \in La /\ PDX1(Address(i, 0, 0)) = i
  BY Members, Digits
<1> QED
  BY <1>1 DEF Within

\* So do steps that change no entry, if the page directories are accounted for.
LEMMA CleanSame ==
    ASSUME NEW s \in Memory, NEW D, Clean(s, D), NEW u, SameEntries(s, u),
           NEW E \in SUBSET Frame, OnlyDirs(u, E), \A d \in E \ D : Within(u, d, UserLa),
           \A f \in Frame : u.kind[f] = "page" => u.ref[f] = 1 /\ u.data[f] \in Val
    PROVE  Clean(u, E)
<1>1. Within(u, boot_pgdir, {})
  BY Members, WithinSame DEF Clean
<1>2. \A d \in E \cap D : Within(u, d, UserLa)
  BY Members, WithinSame DEF Clean
<1> QED
  BY <1>1, <1>2 DEF Clean

\* Write.
LEMMA CleanWrite ==
    ASSUME NEW s, Sound(s), NEW D, Clean(s, D), NEW p \in Frame, NEW v \in Val
    PROVE  LET u == [s EXCEPT !.data[p] = v]
           IN  /\ Sound(u) /\ Clean(u, D) /\ SameEntries(s, u) /\ u.kind = s.kind
               /\ u.data[p] = v /\ \A g \in Frame \ {p} : u.data[g] = s.data[g]
<1> DEFINE x == [s.data EXCEPT ![p] = v]
           u == [s EXCEPT !.data = x]
<1>1. s \in Memory
  BY DEF Sound
<1>2. x \in [Frame -> Val \cup {NULL}] /\ x[p] = v /\ \A g \in Frame \ {p} : x[g] = s.data[g]
  BY <1>1, FieldTypes
<1>3. u = [s EXCEPT !.data[p] = v]
  OBVIOUS
<1> HIDE DEF x
<1>4. u \in Memory /\ u.kind = s.kind /\ u.ref = s.ref /\ u.tab = s.tab /\ u.data = x
  BY <1>1, <1>2, WithData
<1> HIDE DEF u
<1>5. SameEntries(s, u) /\ \A e : At(u, e) = At(s, e)
  BY <1>4 DEF SameEntries, At
<1>6. \A f : SlotsOf(u, f) = SlotsOf(s, f)
  BY <1>5 DEF SlotsOf
<1>7. Sound(u)
  <2>1. \A f : Forgotten(u, f) <=> Forgotten(s, f)
    BY <1>5, <1>6 DEF Forgotten, Hollow
  <2> QED
    BY <1>4, <1>5, <1>6, <2>1 DEF Sound, Levels, Counted
<1>8. OnlyDirs(u, D) /\ D \subseteq Frame
  BY <1>4 DEF Clean, OnlyDirs
<1>9. \A f \in Frame : u.kind[f] = "page" => u.ref[f] = 1 /\ u.data[f] \in Val
  BY <1>2, <1>4 DEF Clean
<1>10. Clean(u, D)
  BY <1>1, <1>5, <1>8, <1>9, CleanSame
<1> QED
  BY <1>2, <1>3, <1>4, <1>5, <1>7, <1>10

\* A free page is taken for data.
LEMMA TakenPage ==
    ASSUME NEW s, Sound(s), NEW p \in Free(s), NEW v \in Val \cup {NULL}
    PROVE  LET u == Holding(s, p, v)
           IN  /\ Sound(u) /\ SameEntries(s, u) /\ u.ref = s.ref
               /\ p \in Frame /\ s.kind[p] = "free" /\ u.ref[p] = 0
               /\ u.kind[p] = "page" /\ \A g \in Frame \ {p} : u.kind[g] = s.kind[g]
               /\ u.data[p] = v /\ \A g \in Frame \ {p} : u.data[g] = s.data[g]
<1> DEFINE k == [s.kind EXCEPT ![p] = "page"]
           s1 == [s EXCEPT !.kind = k]
           x == [s1.data EXCEPT ![p] = v]
           u == [s1 EXCEPT !.data = x]
<1>1. s \in Memory /\ p \in Frame /\ s.kind[p] = "free" /\ s.ref[p] = 0
  BY DEF Sound, Free, Counted
<1>2. k \in [Frame -> Kind]
  BY <1>1, FieldTypes DEF Kind
<1>3. Holding(s, p, v) = u
  BY DEF Holding
<1>4. k = [s.kind EXCEPT ![p] = "page"]
  OBVIOUS
<1> HIDE DEF k
<1>5. s1 \in Memory /\ s1.kind = k /\ s1.ref = s.ref /\ s1.tab = s.tab /\ s1.data = s.data
  BY <1>1, <1>2, WithKind
<1> HIDE DEF s1
<1>6. x \in [Frame -> Val \cup {NULL}] /\ x[p] = v /\ \A g \in Frame \ {p} : x[g] = s.data[g]
  BY <1>1, <1>5, FieldTypes
<1> HIDE DEF x
<1>7. u \in Memory /\ u.kind = k /\ u.ref = s.ref /\ u.tab = s.tab /\ u.data = x
  BY <1>5, <1>6, WithData
<1> HIDE DEF u
<1>8. u.kind[p] = "page" /\ \A g \in Frame \ {p} : u.kind[g] = s.kind[g]
  BY <1>1, <1>4, <1>7, FieldTypes
<1>9. Sound(u) /\ SameEntries(s, u)
  BY <1>7, <1>8, TakenSound
<1> QED
  BY <1>1, <1>3, <1>6, <1>7, <1>8, <1>9

\* pgdir_alloc_page maps a new page, or nothing is lost.
LEMMA AllocPage ==
    ASSUME NEW s, Sound(s), NEW d \in Frame, s.kind[d] = "pgdir", NEW la \in La,
           get_page(s, d, la) = NULL, NEW q \in pgdir_alloc_page(s, d, la)
    PROVE  /\ q.ok \in BOOLEAN /\ Sound(q.s)
           /\ ~q.ok => Keeps(s, q.s, Directories(s))
           /\ q.ok => \E p : NewPage(s, q.s, p) /\ Maps(s, q.s, d, la, p)
<1>1. CASE alloc_page(s) = {}
  <2>1. q = [s |-> s, ok |-> FALSE]
    BY <1>1 DEF pgdir_alloc_page
  <2>2. Keeps(s, s, Directories(s))
    BY DEF Keeps
  <2> QED
    BY <2>1, <2>2
<1>2. CASE alloc_page(s) # {}
  <2>1. PICK p \in alloc_page(s), v \in Val :
          \E r \in page_insert(Holding(s, p, v), d, p, la) :
             q = IF r.ok THEN r ELSE [s |-> free_page(r.s, p), ok |-> FALSE]
    BY <1>2 DEF pgdir_alloc_page
  <2> DEFINE t == Holding(s, p, v)
  <2>2. PICK r \in page_insert(t, d, p, la) :
             q = IF r.ok THEN r ELSE [s |-> free_page(r.s, p), ok |-> FALSE]
    BY <2>1
  <2>3. p \in Free(s)
    BY DEF alloc_page
  <2>4. /\ Sound(t) /\ SameEntries(s, t) /\ t.ref = s.ref
        /\ p \in Frame /\ s.kind[p] = "free" /\ t.ref[p] = 0
        /\ t.kind[p] = "page" /\ \A g \in Frame \ {p} : t.kind[g] = s.kind[g]
        /\ t.data[p] = v /\ \A g \in Frame \ {p} : t.data[g] = s.data[g]
    BY <2>3, TakenPage
  <2> HIDE DEF t
  <2>5. \A e \in Frame, lb \in La :
          /\ At(t, <<e, PDX1(lb)>>) = At(s, <<e, PDX1(lb)>>)
          /\ pt_of(t, e, lb) = pt_of(s, e, lb) /\ get_page(t, e, lb) = get_page(s, e, lb)
    BY <2>4, SameView DEF Sound
  <2>6. t.kind[d] = "pgdir" /\ p # NULL
    BY <2>4, PageTableAssumption
  <2>7. get_page(t, d, la) = NULL
    BY <2>5
  <2> DEFINE u == r.s
  <2>8. /\ Sound(u) /\ r.ok \in BOOLEAN
        /\ ~r.ok => Grown(t, u) /\ SamePages(t, u)
        /\ r.ok =>
             /\ Maps(t, u, d, la, p)
             /\ \A g \in Frame \ {p, NULL} :
                  /\ u.data[g] = t.data[g]
                  /\ IF t.kind[g] = "free" THEN u.kind[g] \in {"free", "pd0", "pt"}
                     ELSE u.kind[g] = t.kind[g] /\ u.ref[g] = t.ref[g]
             /\ u.kind[p] = "page" /\ u.data[p] = t.data[p]
             /\ u.ref[p] = IF NULL = p THEN t.ref[p] ELSE t.ref[p] + 1
    BY <2>4, <2>6, <2>7, PageInsertFacts
  <2>9. CASE r.ok
    <3>1. q = r
      BY <2>2, <2>9
    <3>2. NewPage(s, u, p)
      <4>1. u.kind[p] = "page" /\ u.ref[p] = 1 /\ u.data[p] \in Val
        BY <2>4, <2>6, <2>8, <2>9
      <4>2. ASSUME NEW g \in Frame \ {p}
            PROVE  /\ u.data[g] = s.data[g]
                   /\ IF s.kind[g] = "free" THEN u.kind[g] \in {"free", "pd0", "pt"}
                      ELSE u.kind[g] = s.kind[g] /\ u.ref[g] = s.ref[g]
        <5>1. g \in Frame \ {p, NULL}
          BY PageTableAssumption
        <5> QED
          BY <2>4, <2>8, <2>9, <5>1
      <4> QED
        BY <2>4, <4>1, <4>2 DEF NewPage
    <3>3. Maps(s, u, d, la, p)
      BY <2>4, <2>5, <2>8, <2>9 DEF Maps
    <3> QED
      BY <2>8, <2>9, <3>1, <3>2, <3>3
  <2>10. CASE ~r.ok
    <3>1. q.s = free_page(u, p) /\ q.ok = FALSE
      BY <2>2, <2>10
    <3>2. u.kind[p] = "page" /\ u.ref[p] = 0
      BY <2>4, <2>8, <2>10 DEF Grown
    <3>3. SlotsOf(u, p) = {}
      BY <2>4, <2>8, <3>2, SlotsFinite, FS_EmptySet DEF Sound, Counted
    <3>4. \A i \in Idx : At(u, <<p, i>>) = NULL
      BY <2>4, <2>8, <3>2, Ends
    <3> DEFINE x == free_page(u, p)
    <3>5. Sound(x) /\ SameEntries(u, x) /\ Others(u, x, {p})
      BY <2>4, <2>8, <3>3, <3>4, FreedSound
    <3> HIDE DEF x
    <3>6. Keeps(s, x, Directories(s))
      <4> SUFFICES ASSUME NEW e \in Directories(s), NEW lb \in La
                   PROVE  LET page == get_page(s, e, lb)
                          IN  get_page(x, e, lb) = page /\ (page # NULL => x.data[page] = s.data[page])
        BY DEF Keeps
      <4>1. e \in Frame /\ s.kind[e] = "pgdir" /\ e \in Directories(t)
        BY <2>4 DEF Directories
      <4>2. get_page(x, e, lb) = get_page(u, e, lb)
        <5>1. u \in Memory /\ SameEntries(u, x) /\ e \in Frame
          BY <2>8, <3>5, <4>1 DEF Sound
        <5> HIDE DEF u
        <5> QED
          BY <5>1, SameView
      <4>3. get_page(u, e, lb) = get_page(s, e, lb)
        BY <2>5, <2>8, <2>10, <4>1 DEF SamePages
      <4>4. PathFacts(s, e, lb)
        BY <4>1, Path
      <4>5. ASSUME NEW g \in Frame, s.kind[g] = "page" PROVE x.data[g] = s.data[g]
        BY <2>4, <2>8, <2>10, <3>5, <4>5 DEF Others, Grown
      <4> QED
        BY <4>2, <4>3, <4>4, <4>5 DEF PathFacts
    <3> QED
      BY <3>1, <3>5, <3>6 DEF x
  <2> QED
    BY <2>8, <2>9, <2>10
<1> QED
  BY <1>1, <1>2

\* So does the page fault.
LEMMA FaultPage ==
    ASSUME NEW s, Sound(s), NEW d \in Frame, s.kind[d] = "pgdir", NEW la \in La,
           get_page(s, d, la) = NULL, NEW q \in do_pgfault(s, d, la)
    PROVE  /\ q.ok \in BOOLEAN /\ Sound(q.s)
           /\ ~q.ok => Keeps(s, q.s, Directories(s))
           /\ q.ok => \E p : NewPage(s, q.s, p) /\ Maps(s, q.s, d, la, p)
<1>1. PICK r \in get_pte(s, d, la) :
        q \in IF r.pt = NULL THEN {[s |-> r.s, ok |-> FALSE]} ELSE pgdir_alloc_page(r.s, d, la)
  BY DEF do_pgfault
<1> DEFINE t == r.s
<1>2. Sound(t) /\ Grown(s, t) /\ SamePages(s, t) /\ (r.pt # NULL => Opened(s, t, d, la, r.pt))
  BY GetPteFacts
<1> HIDE DEF t
<1>3. CASE r.pt = NULL
  <2>1. q = [s |-> t, ok |-> FALSE]
    BY <1>1, <1>3 DEF t
  <2>2. Keeps(s, t, Directories(s))
    BY <1>2 DEF Keeps, SamePages, Grown
  <2> QED
    BY <1>2, <2>1, <2>2
<1>4. CASE r.pt # NULL
  <2>1. q \in pgdir_alloc_page(t, d, la)
    BY <1>1, <1>4 DEF t
  <2>2. t.kind[d] = "pgdir" /\ get_page(t, d, la) = NULL
    BY <1>2, <1>4 DEF Grown, Opened
  <2>3. /\ q.ok \in BOOLEAN /\ Sound(q.s)
        /\ ~q.ok => Keeps(t, q.s, Directories(t))
        /\ q.ok => \E p : NewPage(t, q.s, p) /\ Maps(t, q.s, d, la, p)
    BY <1>2, <2>1, <2>2, AllocPage
  <2>4. ASSUME NEW p, NewPage(t, q.s, p), Maps(t, q.s, d, la, p)
        PROVE  NewPage(s, q.s, p) /\ Maps(s, q.s, d, la, p)
    <3>1. NewPage(s, q.s, p)
      BY <1>2, <2>4 DEF Grown, NewPage
    <3>2. Maps(s, q.s, d, la, p)
      <4> SUFFICES ASSUME NEW e \in Frame, s.kind[e] = "pgdir", NEW lb \in La
                   PROVE  /\ (At(q.s, <<e, PDX1(lb)>>) = NULL) <=>
                               (At(s, <<e, PDX1(lb)>>) = NULL /\ ~(e = d /\ PDX1(lb) = PDX1(la)))
                          /\ (pt_of(q.s, e, lb) = NULL) <=>
                               (pt_of(s, e, lb) = NULL /\ ~(e = d /\ Under(la, lb)))
                          /\ get_page(q.s, e, lb) = IF e = d /\ lb = la THEN p ELSE get_page(s, e, lb)
        BY DEF Maps
      <4>1. t.kind[e] = "pgdir"
        BY <1>2 DEF Grown
      <4>2. /\ (At(q.s, <<e, PDX1(lb)>>) = NULL) <=>
                 (At(t, <<e, PDX1(lb)>>) = NULL /\ ~(e = d /\ PDX1(lb) = PDX1(la)))
            /\ (pt_of(q.s, e, lb) = NULL) <=>
                 (pt_of(t, e, lb) = NULL /\ ~(e = d /\ Under(la, lb)))
            /\ get_page(q.s, e, lb) = IF e = d /\ lb = la THEN p ELSE get_page(t, e, lb)
        BY <2>4, <4>1 DEF Maps
      <4>3. /\ (At(t, <<e, PDX1(lb)>>) = NULL) <=>
                 (At(s, <<e, PDX1(lb)>>) = NULL /\ ~(e = d /\ PDX1(lb) = PDX1(la)))
            /\ pt_of(t, e, lb) = IF e = d /\ Under(la, lb) THEN r.pt ELSE pt_of(s, e, lb)
            /\ get_page(t, e, lb) = get_page(s, e, lb)
        BY <1>2, <1>4 DEF Opened
      <4> QED
        BY <1>4, <4>2, <4>3
    <3> QED
      BY <3>1, <3>2
  <2>5. ~q.ok => Keeps(s, q.s, Directories(s))
    <3>1. Directories(s) \subseteq Directories(t)
      BY <1>2 DEF Directories, Grown
    <3> QED
      BY <1>2, <2>3, <3>1 DEF Keeps, SamePages, Grown
  <2> QED
    BY <2>3, <2>4, <2>5
<1> QED
  BY <1>3, <1>4

\* setup_pgdir.
LEMMA NewDir ==
    ASSUME NEW s, Sound(s), NEW D, Clean(s, D), NEW f \in Free(s)
    PROVE  LET u == [s EXCEPT !.kind[f] = "pgdir"]
           IN  /\ Sound(u) /\ Clean(u, D \cup {f}) /\ SameEntries(s, u) /\ u.data = s.data
               /\ f \in Frame \ (D \cup {boot_pgdir})
               /\ \A la \in La : get_page(s, f, la) = NULL
<1> DEFINE k == [s.kind EXCEPT ![f] = "pgdir"]
           u == [s EXCEPT !.kind = k]
           E == D \cup {f}
<1>1. s \in Memory /\ f \in Frame /\ s.kind[f] = "free" /\ OnlyDirs(s, D)
  BY DEF Sound, Free, Clean
<1>2. /\ k \in [Frame -> Kind] /\ k[f] = "pgdir" /\ \A g \in Frame \ {f} : k[g] = s.kind[g]
  BY <1>1, FieldTypes DEF Kind
<1>3. [s EXCEPT !.kind[f] = "pgdir"] = u
  OBVIOUS
<1> HIDE DEF k
<1>4. u \in Memory /\ u.kind = k /\ u.ref = s.ref /\ u.tab = s.tab /\ u.data = s.data
  BY <1>1, <1>2, WithKind
<1> HIDE DEF u
<1>5. Sound(u) /\ SameEntries(s, u)
  BY <1>2, <1>4, TakenSound
<1>6. f \in Frame \ (D \cup {boot_pgdir})
  BY <1>1 DEF OnlyDirs
<1>7. OnlyDirs(u, E) /\ E \in SUBSET Frame /\ E \ D = {f}
  BY <1>1, <1>2, <1>4, <1>6 DEF OnlyDirs
<1>8. ASSUME NEW la \in La
      PROVE  /\ At(s, <<f, PDX1(la)>>) = NULL /\ pt_of(s, f, la) = NULL
             /\ get_page(s, f, la) = NULL
  <2>1. At(s, <<f, PDX1(la)>>) = NULL
    BY <1>1, Ends, Indices
  <2> QED
    BY <2>1 DEF pt_of, get_page
<1>9. Within(u, f, UserLa)
  <2>1. Within(s, f, UserLa)
    BY <1>8 DEF Within
  <2> QED
    BY <1>1, <1>5, <2>1, Members, WithinSame
<1>10. \A g \in Frame : u.kind[g] = "page" => u.ref[g] = 1 /\ u.data[g] \in Val
  BY <1>2, <1>4 DEF Clean
<1> HIDE DEF E
<1>11. Clean(u, E)
  BY <1>1, <1>5, <1>7, <1>9, <1>10, CleanSame
<1> QED
  BY <1>3, <1>4, <1>5, <1>6, <1>8, <1>11 DEF E

\* unmap_range.
LEMMA CleanRemove ==
    ASSUME NEW s, Sound(s), NEW D, Clean(s, D), NEW d \in D, NEW la \in La,
           pt_of(s, d, la) # NULL
    PROVE  LET u == page_remove_pte(s, <<pt_of(s, d, la), PTX(la)>>)
           IN  /\ Sound(u) /\ Clean(u, D) /\ Shows(s, u, d, la, NULL)
               /\ Keeps(s, u, D \ {d})
<1> DEFINE c == <<pt_of(s, d, la), PTX(la)>>
           u == page_remove_pte(s, c)
           o == At(s, c)
<1>1. OnlyDirs(s, D) /\ d \in Frame /\ s.kind[d] = "pgdir" /\ s \in Memory
  BY DEF Clean, OnlyDirs, Sound
<1>2. c \in Slot /\ s.kind[c[1]] = "pt" /\ NULL \notin Frame
  <2>1. PathFacts(s, d, la)
    BY <1>1, Path
  <2> QED
    BY <2>1 DEF PathFacts
<1>3. /\ Sound(u) /\ Points(s, u, c, NULL) /\ Others(s, u, {o})
      /\ o # NULL => /\ s.kind[o] = "page"
                     /\ IF s.ref[o] = 1 THEN u.kind[o] = "free"
                        ELSE u.kind[o] = "page" /\ u.ref[o] # 0
  <2> HIDE DEF c
  <2> QED
    BY <1>2, RemoveSound
<1> HIDE DEF u
<1>4. Shows(s, u, d, la, NULL)
  BY <1>1, <1>3, EntryShows
<1>5. o \in Frame \cup {NULL}
  <2> HIDE DEF c
  <2> QED
    BY <1>1, <1>2, EntryIn
<1> HIDE DEF o, c
<1>6. o # NULL => o \in Frame /\ s.kind[o] = "page" /\ u.kind[o] = "free"
  BY <1>3, <1>5 DEF Clean
<1>7. \A g \in Frame : g # o => u.kind[g] = s.kind[g] /\ u.ref[g] = s.ref[g] /\ u.data[g] = s.data[g]
  BY <1>3 DEF Others
<1>8. OnlyDirs(u, D)
  <2>1. \A g \in Frame : (u.kind[g] = "pgdir") <=> (s.kind[g] = "pgdir")
    BY <1>2, <1>6, <1>7
  <2> QED
    BY <1>1, <2>1 DEF OnlyDirs
<1>9. \A g \in Frame : u.kind[g] = "page" => u.ref[g] = 1 /\ u.data[g] \in Val
  BY <1>2, <1>6, <1>7 DEF Clean
<1>10. \A e \in D \cup {boot_pgdir} : e \in Frame /\ s.kind[e] = "pgdir"
  BY <1>1 DEF OnlyDirs
<1>11. Within(u, boot_pgdir, {})
  BY <1>4, <1>10, WithinShows DEF Clean
<1>12. \A e \in D : Within(u, e, UserLa)
  BY <1>4, <1>10, Members, WithinShows DEF Clean
<1>13. Clean(u, D)
  BY <1>8, <1>9, <1>11, <1>12 DEF Clean
<1>14. Keeps(s, u, D \ {d})
  <2> SUFFICES ASSUME NEW e \in D \ {d}, NEW lb \in La
               PROVE  LET page == get_page(s, e, lb)
                      IN  get_page(u, e, lb) = page /\ (page # NULL => u.data[page] = s.data[page])
    BY DEF Keeps
  <2> DEFINE page == get_page(s, e, lb)
  <2>1. e \in Frame /\ s.kind[e] = "pgdir" /\ e # d
    BY <1>10
  <2>2. get_page(u, e, lb) = page
    BY <1>4, <2>1 DEF Shows
  <2>3. page # NULL => page \in Frame /\ s.kind[page] = "page" /\ s.ref[page] = 1
    BY <2>1, Path DEF PathFacts, Clean
  <2>4. page # NULL => page # o
    <3>1. SUFFICES ASSUME page # NULL, page = o PROVE FALSE
      OBVIOUS
    <3>2. get_page(s, d, la) = o
      BY DEF get_page, o, c
    <3> QED
      BY <1>1, <2>1, <2>3, <3>1, <3>2, OnePage
  <2> HIDE DEF page
  <2> QED
    BY <1>7, <2>2, <2>3, <2>4 DEF page
<1> QED
  BY <1>3, <1>4, <1>13, <1>14 DEF u, c

\* Where entries are only cleared, a space loses tables and pages and gets no others.
LEMMA Fewer ==
    ASSUME NEW s \in Memory, NEW u, \A c \in Slot : At(u, c) \in {NULL, At(s, c)},
           NEW e \in Frame, NEW lb \in La
    PROVE  /\ At(u, <<e, PDX1(lb)>>) \in {NULL, At(s, <<e, PDX1(lb)>>)}
           /\ pt_of(u, e, lb) \in {NULL, pt_of(s, e, lb)}
           /\ get_page(u, e, lb) \in {NULL, get_page(s, e, lb)}
<1> DEFINE dd == At(s, <<e, PDX1(lb)>>)
           pt == pt_of(s, e, lb)
<1>1. PDX1(lb) \in Idx /\ PDX0(lb) \in Idx /\ PTX(lb) \in Idx
  BY Indices
<1>2. ASSUME NEW g \in Frame, NEW i \in Idx
      PROVE  At(u, <<g, i>>) \in {NULL, At(s, <<g, i>>)} /\ At(s, <<g, i>>) \in Frame \cup {NULL}
  <2>1. <<g, i>> \in Slot
    BY DEF Slot
  <2> QED
    BY <2>1, EntryIn
<1>3. At(u, <<e, PDX1(lb)>>) \in {NULL, dd} /\ dd \in Frame \cup {NULL}
  BY <1>1, <1>2
<1>4. pt = IF dd = NULL THEN NULL ELSE At(s, <<dd, PDX0(lb)>>)
  BY DEF pt_of
<1>5. pt_of(u, e, lb) = IF At(u, <<e, PDX1(lb)>>) = NULL THEN NULL
                        ELSE At(u, <<At(u, <<e, PDX1(lb)>>), PDX0(lb)>>)
  BY DEF pt_of
<1> HIDE DEF dd, pt
<1>6. pt_of(u, e, lb) \in {NULL, pt} /\ pt \in Frame \cup {NULL}
  <2>1. dd # NULL => /\ At(u, <<dd, PDX0(lb)>>) \in {NULL, At(s, <<dd, PDX0(lb)>>)}
                     /\ At(s, <<dd, PDX0(lb)>>) \in Frame \cup {NULL}
    BY <1>1, <1>2, <1>3
  <2>2. CASE At(u, <<e, PDX1(lb)>>) = NULL
    BY <1>4, <1>5, <2>1, <2>2
  <2>3. CASE At(u, <<e, PDX1(lb)>>) # NULL
    <3>1. At(u, <<e, PDX1(lb)>>) = dd /\ dd # NULL
      BY <1>3, <2>3
    <3> QED
      BY <1>4, <1>5, <2>1, <3>1
  <2> QED
    BY <2>2, <2>3
<1>7. pt # NULL => At(u, <<pt, PTX(lb)>>) \in {NULL, At(s, <<pt, PTX(lb)>>)}
  BY <1>1, <1>2, <1>6
<1>8. get_page(s, e, lb) = IF pt = NULL THEN NULL ELSE At(s, <<pt, PTX(lb)>>)
  BY DEF get_page, pt
<1>9. get_page(u, e, lb) = IF pt_of(u, e, lb) = NULL THEN NULL
                           ELSE At(u, <<pt_of(u, e, lb), PTX(lb)>>)
  BY DEF get_page
<1>10. get_page(u, e, lb) \in {NULL, get_page(s, e, lb)}
  <2>1. CASE pt_of(u, e, lb) = NULL
    BY <1>9, <2>1
  <2>2. CASE pt_of(u, e, lb) # NULL
    <3>1. pt_of(u, e, lb) = pt /\ pt # NULL
      BY <1>6, <2>2
    <3> QED
      BY <1>7, <1>8, <1>9, <3>1
  <2> QED
    BY <2>1, <2>2
<1> QED
  BY <1>3, <1>6, <1>10 DEF dd, pt

\* The tables of the space with page directory d.
InTree(s, d, f) ==
    \/ f = d
    \/ \E la \in La : f = At(s, <<d, PDX1(la)>>)
    \/ \E la \in La : f = pt_of(s, d, la)

\* The table f is gone, with the entries in it and above it.
Dropped(s, u, f) == \A c \in Slot : At(u, c) = IF c[1] = f \/ At(s, c) = f THEN NULL ELSE At(s, c)

\* The loss of a table of one space does not show in the others.
LEMMA Elsewhere ==
    ASSUME NEW s, Sound(s), NEW d \in Frame, s.kind[d] = "pgdir",
           NEW f \in Frame, InTree(s, d, f), NEW u, Dropped(s, u, f),
           NEW e \in Frame, s.kind[e] = "pgdir", e # d, NEW lb \in La
    PROVE  /\ At(u, <<e, PDX1(lb)>>) = At(s, <<e, PDX1(lb)>>)
           /\ pt_of(u, e, lb) = pt_of(s, e, lb) /\ get_page(u, e, lb) = get_page(s, e, lb)
<1> DEFINE dd == At(s, <<e, PDX1(lb)>>)
           pt == pt_of(s, e, lb)
           page == get_page(s, e, lb)
<1>1. PDX1(lb) \in Idx /\ PDX0(lb) \in Idx /\ PTX(lb) \in Idx
  BY Indices
<1>2. PathFacts(s, e, lb) /\ NULL \notin Frame
  BY Path, PageTableAssumption
<1>3. /\ f = d => s.kind[f] = "pgdir"
      /\ \A la \in La : f = At(s, <<d, PDX1(la)>>) => s.kind[f] = "pd0"
      /\ \A la \in La : f = pt_of(s, d, la) => s.kind[f] = "pt"
  <2>1. ASSUME NEW la \in La PROVE PathFacts(s, d, la)
    BY Path
  <2>2. ASSUME NEW la \in La, f = At(s, <<d, PDX1(la)>>) PROVE s.kind[f] = "pd0"
    BY <1>2, <2>1, <2>2 DEF PathFacts
  <2>3. ASSUME NEW la \in La, f = pt_of(s, d, la) PROVE s.kind[f] = "pt"
    BY <1>2, <2>1, <2>3 DEF PathFacts
  <2> QED
    BY <2>2, <2>3
<1>4. dd # NULL => dd \in Frame /\ s.kind[dd] = "pd0" /\ pt = At(s, <<dd, PDX0(lb)>>)
  BY <1>2 DEF PathFacts
<1>5. pt # NULL => /\ pt \in Frame /\ s.kind[pt] = "pt" /\ page = At(s, <<pt, PTX(lb)>>)
                   /\ dd # NULL
  BY <1>2 DEF PathFacts
<1>6. page # NULL => page \in Frame /\ s.kind[page] = "page" /\ pt # NULL
  BY <1>2 DEF PathFacts
<1>7. dd # NULL => dd # f
  <2>1. SUFFICES ASSUME dd # NULL, dd = f PROVE FALSE
    OBVIOUS
  <2>2. PICK la \in La : f = At(s, <<d, PDX1(la)>>)
    BY <1>3, <1>4, <2>1 DEF InTree
  <2> QED
    BY <2>1, <2>2, OneDir
<1>8. pt # NULL => pt # f
  <2>1. SUFFICES ASSUME pt # NULL, pt = f PROVE FALSE
    OBVIOUS
  <2>2. PICK la \in La : f = pt_of(s, d, la)
    BY <1>3, <1>5, <2>1 DEF InTree
  <2> QED
    BY <2>1, <2>2, OneTable
<1>9. page # NULL => page # f
  BY <1>3, <1>6 DEF InTree
<1>10. e # f /\ NULL # f
  BY <1>2, <1>3 DEF InTree
<1>11. ASSUME NEW g \in Frame, g # f, NEW i \in Idx, At(s, <<g, i>>) # f
       PROVE  At(u, <<g, i>>) = At(s, <<g, i>>)
  <2>1. <<g, i>> \in Slot
    BY DEF Slot
  <2> QED
    BY <1>11, <2>1 DEF Dropped
<1>12. At(u, <<e, PDX1(lb)>>) = dd
  BY <1>1, <1>7, <1>10, <1>11
<1>13. pt_of(u, e, lb) = IF dd = NULL THEN NULL ELSE At(u, <<dd, PDX0(lb)>>)
  BY <1>12 DEF pt_of
<1>14. dd = NULL => pt = NULL
  BY <1>2 DEF PathFacts
<1>15. pt = NULL => page = NULL
  BY <1>2 DEF PathFacts
<1> HIDE DEF dd, pt, page
<1>16. dd # NULL => At(u, <<dd, PDX0(lb)>>) = At(s, <<dd, PDX0(lb)>>)
  BY <1>1, <1>4, <1>7, <1>8, <1>10, <1>11
<1>17. pt_of(u, e, lb) = pt
  BY <1>4, <1>13, <1>14, <1>16
<1>18. get_page(u, e, lb) = IF pt = NULL THEN NULL ELSE At(u, <<pt, PTX(lb)>>)
  BY <1>17 DEF get_page
<1>19. pt # NULL => At(u, <<pt, PTX(lb)>>) = At(s, <<pt, PTX(lb)>>)
  BY <1>1, <1>5, <1>8, <1>9, <1>10, <1>11
<1>20. get_page(u, e, lb) = page
  BY <1>5, <1>15, <1>18, <1>19
<1> QED
  BY <1>12, <1>17, <1>20 DEF dd, pt, page

\* The page tables of a space that maps nothing lead nowhere.
LEMMA EmptyTables ==
    ASSUME NEW s, Sound(s), NEW d \in Frame, s.kind[d] = "pgdir",
           \A lb \in La : get_page(s, d, lb) = NULL,
           NEW la \in La, pt_of(s, d, la) # NULL
    PROVE  Hollow(s, pt_of(s, d, la))
<1> SUFFICES ASSUME NEW i \in Idx PROVE At(s, <<pt_of(s, d, la), i>>) = NULL
  BY DEF Hollow
<1> DEFINE lb == Address(PDX1(la), PDX0(la), i)
<1>1. PDX1(la) \in Idx /\ PDX0(la) \in Idx
  BY Indices
<1>2. lb \in La /\ PDX1(lb) = PDX1(la) /\ PDX0(lb) = PDX0(la) /\ PTX(lb) = i
  BY <1>1, Digits
<1> HIDE DEF lb
<1>3. get_page(s, d, lb) = NULL /\ pt_of(s, d, lb) = pt_of(s, d, la)
  BY <1>2 DEF pt_of
<1> QED
  BY <1>2, <1>3 DEF get_page

\* The second-level tables of such a space lead to page tables that lead nowhere.
LEMMA EmptyDirs ==
    ASSUME NEW s, Sound(s), NEW d \in Frame, s.kind[d] = "pgdir",
           \A lb \in La : get_page(s, d, lb) = NULL,
           NEW la \in La, At(s, <<d, PDX1(la)>>) # NULL,
           NEW i \in Idx, At(s, <<At(s, <<d, PDX1(la)>>), i>>) # NULL
    PROVE  LET pt == At(s, <<At(s, <<d, PDX1(la)>>), i>>)
           IN  s.kind[pt] = "pt" /\ Hollow(s, pt) /\ \E lb \in La : pt = pt_of(s, d, lb)
<1> DEFINE lb == Address(PDX1(la), i, 0)
           pt == At(s, <<At(s, <<d, PDX1(la)>>), i>>)
<1>1. lb \in La /\ PDX1(lb) = PDX1(la) /\ PDX0(lb) = i
  BY Indices, Members, Digits
<1> HIDE DEF lb
<1>2. pt_of(s, d, lb) = pt /\ pt # NULL
  BY <1>1 DEF pt_of
<1>3. PathFacts(s, d, lb)
  BY <1>1, Path
<1>4. s.kind[pt] = "pt"
  BY <1>2, <1>3 DEF PathFacts
<1>5. Hollow(s, pt)
  BY <1>1, <1>2, EmptyTables
<1> QED
  BY <1>1, <1>2, <1>4, <1>5

\* The tables under an entry that exit_range frees a table at.
Owned(d, s, c) == c[1] = d \/ \E la \in La : c[1] = At(s, <<d, PDX1(la)>>)

\* exit_range frees a table of a space that maps nothing: where tables may be
\* forgotten, all that the other spaces have stays.
LEMMA CleanFree ==
    ASSUME ~OneTableEach,
           NEW s, Sound(s), NEW D, Clean(s, D), NEW d \in D,
           \A lb \in La : get_page(s, d, lb) = NULL,
           NEW c \in Slot, At(s, c) # NULL, Owned(d, s, c)
    PROVE  LET u == FreeTable(s, c)
           IN  /\ Sound(u) /\ Clean(u, D)
               /\ \A g \in Frame : s.kind[g] = "page" => u.data[g] = s.data[g]
               /\ \A e \in D \ {d}, lb \in La : get_page(u, e, lb) = get_page(s, e, lb)
               /\ \A lb \in La :
                    /\ At(u, <<d, PDX1(lb)>>) \in {NULL, At(s, <<d, PDX1(lb)>>)}
                    /\ pt_of(u, d, lb) \in {NULL, pt_of(s, d, lb)}
               /\ \A lb \in La : get_page(u, d, lb) = NULL
               /\ At(u, c) = NULL
<1> DEFINE u == FreeTable(s, c)
           f == At(s, c)
<1>1. /\ OnlyDirs(s, D) /\ d \in Frame /\ s.kind[d] = "pgdir" /\ s \in Memory
      /\ d # boot_pgdir /\ NULL \notin Frame
  BY PageTableAssumption DEF Clean, OnlyDirs, Sound
<1>2. c[1] \in Frame /\ c[2] \in Idx /\ c = <<c[1], c[2]>> /\ f \in Frame
  BY <1>1, EntryIn
<1>3. /\ InTree(s, d, f) /\ Droppable(s, f) /\ s.kind[f] \in {"pd0", "pt"}
  <2>1. CASE c[1] = d
    <3> DEFINE la == Address(c[2], 0, 0)
    <3>1. la \in La /\ PDX1(la) = c[2]
      BY <1>2, Members, Digits
    <3> HIDE DEF la
    <3>2. f = At(s, <<d, PDX1(la)>>)
      BY <1>2, <2>1, <3>1
    <3>3. s.kind[f] = "pd0"
      BY <1>1, <2>1, Leads
    <3> HIDE DEF f
    <3>4. Droppable(s, f)
      <4> SUFFICES ASSUME NEW i \in Idx, At(s, <<f, i>>) # NULL
                   PROVE  s.kind[At(s, <<f, i>>)] # "page" /\ Hollow(s, At(s, <<f, i>>))
        BY DEF Droppable
      <4>1. At(s, <<d, PDX1(la)>>) # NULL
        BY <1>1, <1>2, <3>2
      <4>2. At(s, <<At(s, <<d, PDX1(la)>>), i>>) # NULL
        BY <3>2
      <4>3. /\ s.kind[At(s, <<At(s, <<d, PDX1(la)>>), i>>)] = "pt"
            /\ Hollow(s, At(s, <<At(s, <<d, PDX1(la)>>), i>>))
        BY <1>1, <3>1, <4>1, <4>2, EmptyDirs
      <4> QED
        BY <3>2, <4>3
    <3> QED
      BY <3>1, <3>2, <3>3, <3>4 DEF InTree
  <2>2. CASE c[1] # d
    <3>1. PICK la \in La : c[1] = At(s, <<d, PDX1(la)>>)
      BY <2>2 DEF Owned
    <3>2. At(s, <<d, PDX1(la)>>) # NULL /\ f = At(s, <<At(s, <<d, PDX1(la)>>), c[2]>>) /\ f # NULL
      BY <1>1, <1>2, <3>1
    <3> HIDE DEF f
    <3>3. s.kind[f] = "pt" /\ Hollow(s, f) /\ \E lb \in La : f = pt_of(s, d, lb)
      BY <1>1, <1>2, <3>2, EmptyDirs
    <3> QED
      BY <3>3 DEF InTree, Droppable, Hollow
  <2> QED
    BY <2>1, <2>2
<1>4. /\ Sound(u) /\ u.kind[f] = "free" /\ Others(s, u, {f})
      /\ \A e \in Slot : At(u, e) = IF e = c \/ e[1] = f THEN NULL ELSE At(s, e)
  BY <1>3, FreeTableSound
<1>5. \A e \in Slot : At(s, e) = f <=> e = c
  BY <1>3, Leads DEF SlotsOf
<1> HIDE DEF u, f
<1>6. Dropped(s, u, f)
  BY <1>4, <1>5 DEF Dropped
<1>7. \A e \in D \cup {boot_pgdir} : e \in Frame /\ s.kind[e] = "pgdir"
  BY <1>1 DEF OnlyDirs
<1>8. ASSUME NEW e \in D \cup {boot_pgdir}, e # d, NEW lb \in La
      PROVE  /\ At(u, <<e, PDX1(lb)>>) = At(s, <<e, PDX1(lb)>>)
             /\ pt_of(u, e, lb) = pt_of(s, e, lb) /\ get_page(u, e, lb) = get_page(s, e, lb)
  BY <1>1, <1>2, <1>3, <1>6, <1>7, <1>8, Elsewhere
<1>9. ASSUME NEW e \in D \cup {boot_pgdir}, e # d, NEW A \in SUBSET La, Within(s, e, A)
      PROVE  Within(u, e, A)
  BY <1>8, <1>9 DEF Within
<1>10. ASSUME NEW lb \in La
       PROVE  /\ At(u, <<d, PDX1(lb)>>) \in {NULL, At(s, <<d, PDX1(lb)>>)}
              /\ pt_of(u, d, lb) \in {NULL, pt_of(s, d, lb)}
              /\ get_page(u, d, lb) = NULL
  <2>1. \A e \in Slot : At(u, e) \in {NULL, At(s, e)}
    BY <1>6 DEF Dropped
  <2>2. /\ At(u, <<d, PDX1(lb)>>) \in {NULL, At(s, <<d, PDX1(lb)>>)}
        /\ pt_of(u, d, lb) \in {NULL, pt_of(s, d, lb)}
        /\ get_page(u, d, lb) \in {NULL, get_page(s, d, lb)}
    BY <1>1, <2>1, Fewer
  <2> QED
    BY <2>2
<1>11. Within(u, d, UserLa)
  <2>1. Within(s, d, UserLa) /\ ~Full(d)
    BY <1>1 DEF Clean, Full
  <2>2. ASSUME NEW la \in La, At(u, <<d, PDX1(la)>>) # NULL
        PROVE  \E lb \in UserLa : PDX1(lb) = PDX1(la) /\ (Full(d) => pt_of(u, d, lb) # NULL)
    <3>1. At(s, <<d, PDX1(la)>>) # NULL
      BY <1>10, <2>2
    <3> QED
      BY <2>1, <3>1 DEF Within
  <2>3. ASSUME NEW la \in La, pt_of(u, d, la) # NULL
        PROVE  \E lb \in UserLa : Under(la, lb)
    <3>1. pt_of(s, d, la) # NULL
      BY <1>10, <2>3
    <3> QED
      BY <2>1, <3>1 DEF Within
  <2> QED
    BY <1>10, <2>2, <2>3 DEF Within
<1>12. Within(u, boot_pgdir, {}) /\ \A e \in D : Within(u, e, UserLa)
  BY <1>1, <1>9, <1>11, Members DEF Clean
<1>13. \A g \in Frame : g # f =>
         u.kind[g] = s.kind[g] /\ u.ref[g] = s.ref[g] /\ u.data[g] = s.data[g]
  BY <1>4 DEF Others
<1>14. OnlyDirs(u, D)
  <2>1. \A g \in Frame : (u.kind[g] = "pgdir") <=> (s.kind[g] = "pgdir")
    BY <1>3, <1>4, <1>13
  <2> QED
    BY <1>1, <2>1 DEF OnlyDirs
<1>15. \A g \in Frame : u.kind[g] = "page" => u.ref[g] = 1 /\ u.data[g] \in Val
  BY <1>4, <1>13 DEF Clean
<1>16. Clean(u, D)
  BY <1>12, <1>14, <1>15 DEF Clean
<1>17. \A g \in Frame : s.kind[g] = "page" => u.data[g] = s.data[g]
  BY <1>3, <1>13
<1> QED
  BY <1>4, <1>8, <1>10, <1>16, <1>17 DEF u

\* put_pgdir.
LEMMA CleanDrop ==
    ASSUME NEW s, Sound(s), NEW D, Clean(s, D), NEW d \in D, Droppable(s, d)
    PROVE  LET u == free_page(s, d)
           IN  /\ Sound(u) /\ Clean(u, D \ {d})
               /\ \A e \in D \ {d}, lb \in La : get_page(u, e, lb) = get_page(s, e, lb)
               /\ \A g \in Frame : s.kind[g] = "page" => u.data[g] = s.data[g]
<1> DEFINE u == free_page(s, d)
           E == D \ {d}
<1>1. /\ OnlyDirs(s, D) /\ d \in Frame /\ s.kind[d] = "pgdir" /\ s \in Memory
      /\ d # boot_pgdir
  BY DEF Clean, OnlyDirs, Sound
<1>2. SlotsOf(s, d) = {}
  BY <1>1, Ends
<1>3. /\ u \in Memory /\ u.kind[d] = "free" /\ u.ref[d] = 0 /\ Others(s, u, {d})
      /\ \A e \in Slot : At(u, e) = IF e[1] = d THEN NULL ELSE At(s, e)
  BY <1>1, FreeFacts
<1> HIDE DEF u
<1>4. Dropped(s, u, d)
  BY <1>2, <1>3 DEF Dropped, SlotsOf
<1>5. Sound(u)
  <2>1. \A e \in Slot : At(u, e) = IF e[1] = d \/ At(s, e) = d THEN NULL ELSE At(s, e)
    BY <1>4 DEF Dropped
  <2> QED
    BY <1>1, <1>3, <2>1, DropSound
<1>6. \A e \in E \cup {boot_pgdir} : e \in Frame /\ s.kind[e] = "pgdir" /\ e # d
  BY <1>1 DEF OnlyDirs
<1>7. ASSUME NEW e \in E \cup {boot_pgdir}, NEW lb \in La
      PROVE  /\ At(u, <<e, PDX1(lb)>>) = At(s, <<e, PDX1(lb)>>)
             /\ pt_of(u, e, lb) = pt_of(s, e, lb) /\ get_page(u, e, lb) = get_page(s, e, lb)
  <2>1. InTree(s, d, d)
    BY DEF InTree
  <2> QED
    BY <1>1, <1>4, <1>6, <2>1, Elsewhere
<1>8. ASSUME NEW e \in E \cup {boot_pgdir}, NEW A \in SUBSET La, Within(s, e, A)
      PROVE  Within(u, e, A)
  BY <1>7, <1>8 DEF Within
<1>9. Within(u, boot_pgdir, {}) /\ \A e \in E : Within(u, e, UserLa)
  BY <1>8, Members DEF Clean
<1>10. OnlyDirs(u, E) /\ E \in SUBSET Frame
  BY <1>1, <1>3 DEF OnlyDirs, Others
<1>11. \A g \in Frame : u.kind[g] = "page" => u.ref[g] = 1 /\ u.data[g] \in Val
  BY <1>3 DEF Clean, Others
<1> HIDE DEF E
<1>12. Clean(u, E)
  BY <1>9, <1>10, <1>11 DEF Clean
<1>13. \A g \in Frame : s.kind[g] = "page" => u.data[g] = s.data[g]
  BY <1>1, <1>3 DEF Others
<1> QED
  BY <1>5, <1>7, <1>12, <1>13 DEF u, E

\* exit_range, on a directory entry whose one page table holds no page any more:
\* both tables go, and what else the page directories lead to stays.
LEMMA CleanTables ==
    ASSUME OneTableEach,
           NEW s, Sound(s), NEW D, Clean(s, D), NEW d \in D, NEW la \in La,
           \A lb \in La : get_page(s, d, lb) = NULL, pt_of(s, d, la) # NULL
    PROVE  LET c1 == <<d, PDX1(la)>>
               c0 == <<At(s, c1), PDX0(la)>>
               u == FreeTable(FreeTable(s, c0), c1)
           IN  /\ At(s, c1) # NULL /\ At(s, c0) # NULL /\ NoneValid(s, At(s, c0))
               /\ Sound(u) /\ Clean(u, D)
               /\ \A g \in Frame : s.kind[g] = "page" => u.data[g] = s.data[g]
               /\ \A e \in D, lb \in La :
                    /\ At(u, <<e, PDX1(lb)>>) = IF e = d /\ PDX1(lb) = PDX1(la) THEN NULL
                                                ELSE At(s, <<e, PDX1(lb)>>)
                    /\ get_page(u, e, lb) = get_page(s, e, lb)
<1> DEFINE c1 == <<d, PDX1(la)>>
           pd0 == At(s, c1)
           c0 == <<pd0, PDX0(la)>>
           pt == At(s, c0)
           t == FreeTable(s, c0)
           u == FreeTable(t, c1)
<1>1. OnlyDirs(s, D) /\ d \in Frame /\ s.kind[d] = "pgdir" /\ s \in Memory
  BY DEF Clean, OnlyDirs, Sound
<1>2. PathFacts(s, d, la)
  BY <1>1, Path
<1>3. /\ pd0 # NULL /\ pt # NULL /\ pt_of(s, d, la) = pt /\ NULL \notin Frame
      /\ pd0 \in Frame /\ pt \in Frame /\ c1 \in Slot /\ c0 \in Slot
      /\ s.kind[pd0] = "pd0" /\ s.kind[pt] = "pt"
  BY <1>2 DEF PathFacts
<1>4. PDX1(la) \in Idx /\ PDX0(la) \in Idx /\ c1[1] = d /\ c0[1] = pd0
  BY Indices
\* No page: the table is empty.
<1>5. ASSUME NEW i \in Idx
      PROVE  At(s, <<pt, i>>) = NULL
  <2> DEFINE lb == Address(PDX1(la), PDX0(la), i)
  <2>1. lb \in La /\ PDX1(lb) = PDX1(la) /\ PDX0(lb) = PDX0(la) /\ PTX(lb) = i
    BY <1>4, Digits
  <2>2. get_page(s, d, lb) = NULL
    BY <2>1
  <2> HIDE DEF lb, pt, pd0
  <2>3. pt_of(s, d, lb) = pt
    BY <1>3, <2>1 DEF pt_of, pd0, pt
  <2> QED
    BY <1>3, <2>1, <2>2, <2>3 DEF get_page
\* No other table under the same entry.
<1>6. ASSUME NEW i \in Idx, i # PDX0(la)
      PROVE  At(s, <<pd0, i>>) = NULL
  <2> DEFINE lb == Address(PDX1(la), i, 0)
  <2>1. lb \in La /\ PDX1(lb) = PDX1(la) /\ PDX0(lb) = i
    BY <1>4, Digits, Members
  <2> HIDE DEF lb, pt, pd0
  <2>2. pt_of(s, d, lb) = At(s, <<pd0, i>>)
    BY <1>3, <2>1 DEF pt_of, pd0
  <2>3. \A lc \in La : pt_of(s, d, lc) # NULL => \E ld \in UserLa : Under(lc, ld)
    BY DEF Clean, Within
  <2>4. SUFFICES ASSUME At(s, <<pd0, i>>) # NULL PROVE FALSE
    OBVIOUS
  <2>5. PICK x \in UserLa : Under(lb, x)
    BY <2>1, <2>2, <2>3, <2>4
  <2>6. PICK y \in UserLa : Under(la, y)
    BY <2>3
  <2> QED
    BY <1>6, <2>1, <2>5, <2>6 DEF OneTableEach, Under, UserLa
<1> HIDE DEF pt
<1>7. /\ Sound(t) /\ Points(s, t, c0, NULL) /\ t.kind[pt] = "free" /\ Others(s, t, {pt})
  <2>1. /\ At(s, c0) # NULL /\ s.kind[At(s, c0)] # "page"
        /\ Hollow(s, At(s, c0)) /\ Droppable(s, At(s, c0))
    BY <1>3, <1>5 DEF pt, Hollow, Droppable
  <2> HIDE DEF c0
  <2> QED
    BY <1>3, <2>1, FreeTableSound DEF pt
<1> HIDE DEF t
<1>8. c1 # c0 /\ pd0 # pt /\ pd0 # d /\ d # pt
  BY <1>1, <1>3, <1>4
<1>9. At(t, c1) = pd0 /\ t.kind[pd0] = "pd0" /\ t.kind[d] = "pgdir"
  BY <1>1, <1>3, <1>7, <1>8 DEF Points, Others
<1>10. ASSUME NEW i \in Idx
       PROVE  At(t, <<pd0, i>>) = NULL
  <2> HIDE DEF pd0
  <2>1. <<pd0, i>> \in Slot
    BY <1>3 DEF Slot
  <2> QED
    BY <1>6, <1>7, <2>1 DEF Points
<1>11. /\ Sound(u) /\ Points(t, u, c1, NULL) /\ u.kind[pd0] = "free" /\ Others(t, u, {pd0})
  <2>1. /\ At(t, c1) # NULL /\ t.kind[At(t, c1)] # "page"
        /\ Hollow(t, At(t, c1)) /\ Droppable(t, At(t, c1))
    BY <1>3, <1>9, <1>10 DEF Hollow, Droppable
  <2> HIDE DEF c1, pd0
  <2> QED
    BY <1>3, <1>7, <1>9, <2>1, FreeTableSound
<1> HIDE DEF u
<1>12. \A x \in Slot : At(u, x) = IF x = c0 \/ x = c1 THEN NULL ELSE At(s, x)
  BY <1>7, <1>11 DEF Points
<1>13. \A g \in Frame : g # pd0 /\ g # pt =>
         u.kind[g] = s.kind[g] /\ u.ref[g] = s.ref[g] /\ u.data[g] = s.data[g]
  BY <1>7, <1>11 DEF Others
<1>14. u.kind[pt] = "free"
  BY <1>3, <1>7, <1>8, <1>11 DEF Others
<1>15. ASSUME NEW e \in D \cup {boot_pgdir}, NEW lb \in La
       PROVE  IF e = d /\ PDX1(lb) = PDX1(la)
              THEN /\ At(u, <<e, PDX1(lb)>>) = NULL
                   /\ pt_of(u, e, lb) = NULL /\ get_page(u, e, lb) = NULL
              ELSE /\ At(u, <<e, PDX1(lb)>>) = At(s, <<e, PDX1(lb)>>)
                   /\ pt_of(u, e, lb) = pt_of(s, e, lb) /\ get_page(u, e, lb) = get_page(s, e, lb)
  <2>1. e \in Frame /\ s.kind[e] = "pgdir"
    BY <1>1 DEF OnlyDirs
  <2>2. PDX1(lb) \in Idx /\ PDX0(lb) \in Idx /\ PTX(lb) \in Idx
    BY Indices
  <2>3. PathFacts(s, e, lb)
    BY <2>1, Path
  <2>4. <<e, PDX1(lb)>> \in Slot /\ <<e, PDX1(lb)>> # c0
    BY <1>3, <2>1, <2>2 DEF Slot
  <2>5. CASE e = d /\ PDX1(lb) = PDX1(la)
    <3>1. At(u, <<e, PDX1(lb)>>) = NULL
      BY <1>12, <2>4, <2>5
    <3> QED
      BY <2>5, <3>1 DEF pt_of, get_page
  <2>6. CASE ~(e = d /\ PDX1(lb) = PDX1(la))
    <3> DEFINE dd == At(s, <<e, PDX1(lb)>>)
               pe == pt_of(s, e, lb)
    <3>1. <<e, PDX1(lb)>> # c1
      BY <2>6
    <3>2. At(u, <<e, PDX1(lb)>>) = dd
      BY <1>12, <2>4, <3>1
    <3>3. dd # NULL => dd \in Frame /\ s.kind[dd] = "pd0" /\ pe = At(s, <<dd, PDX0(lb)>>)
      BY <2>3 DEF PathFacts
    <3>4. dd # NULL => dd # pd0
      BY <1>1, <1>3, <2>1, <2>6, OneDir
    <3>5. pe # NULL => pe \in Frame /\ s.kind[pe] = "pt"
      BY <2>3 DEF PathFacts
    <3>6. pt_of(u, e, lb) = IF dd = NULL THEN NULL ELSE At(u, <<dd, PDX0(lb)>>)
      BY <3>2 DEF pt_of
    <3>7. dd = NULL => pe = NULL
      BY <2>3 DEF PathFacts
    <3> HIDE DEF dd, pe, c0, c1, pd0
    <3>8. c0 = <<pd0, PDX0(la)>> /\ c1 = <<d, PDX1(la)>>
      BY DEF c0, c1
    <3>9. pt_of(u, e, lb) = pe
      <4>1. CASE dd = NULL
        BY <3>6, <3>7, <4>1
      <4>2. CASE dd # NULL
        <5>1. <<dd, PDX0(lb)>> \in Slot /\ <<dd, PDX0(lb)>> # c0 /\ <<dd, PDX0(lb)>> # c1
          BY <1>1, <2>2, <3>3, <3>4, <3>8, <4>2 DEF Slot
        <5> QED
          BY <1>12, <3>3, <3>6, <4>2, <5>1
      <4> QED
        BY <4>1, <4>2
    <3>10. get_page(u, e, lb) = get_page(s, e, lb)
      <4>1. CASE pe = NULL
        BY <3>9, <4>1 DEF get_page, pe
      <4>2. CASE pe # NULL
        <5>1. <<pe, PTX(lb)>> \in Slot /\ <<pe, PTX(lb)>> # c0 /\ <<pe, PTX(lb)>> # c1
          BY <1>1, <1>3, <2>2, <3>5, <3>8, <4>2 DEF Slot
        <5>2. At(u, <<pe, PTX(lb)>>) = At(s, <<pe, PTX(lb)>>)
          BY <1>12, <5>1
        <5> QED
          BY <3>9, <4>2, <5>2 DEF get_page, pe
      <4> QED
        BY <4>1, <4>2
    <3> QED
      BY <2>6, <3>2, <3>9, <3>10 DEF dd, pe
  <2> QED
    BY <2>5, <2>6
<1>16. ASSUME NEW e \in D \cup {boot_pgdir}, NEW A \in SUBSET La, Within(s, e, A)
       PROVE  Within(u, e, A)
  <2>1. ASSUME NEW lb \in La, get_page(u, e, lb) # NULL
        PROVE  lb \in A
    BY <1>15, <1>16, <2>1 DEF Within
  <2>2. ASSUME NEW lb \in La, pt_of(u, e, lb) # NULL
        PROVE  \E lc \in A : Under(lb, lc)
    BY <1>15, <1>16, <2>2 DEF Within
  <2>3. ASSUME NEW lb \in La, At(u, <<e, PDX1(lb)>>) # NULL
        PROVE  \E lc \in A : PDX1(lc) = PDX1(lb) /\ (Full(e) => pt_of(u, e, lc) # NULL)
    <3>1. ~(e = d /\ PDX1(lb) = PDX1(la)) /\ At(s, <<e, PDX1(lb)>>) # NULL
      BY <1>15, <2>3
    <3>2. PICK lc \in A : PDX1(lc) = PDX1(lb) /\ (Full(e) => pt_of(s, e, lc) # NULL)
      BY <1>16, <3>1 DEF Within
    <3>3. pt_of(u, e, lc) = pt_of(s, e, lc)
      BY <1>15, <3>1, <3>2
    <3> QED
      BY <3>2, <3>3
  <2> QED
    BY <2>1, <2>2, <2>3 DEF Within
<1>17. Within(u, boot_pgdir, {}) /\ \A e \in D : Within(u, e, UserLa)
  BY <1>16, Members DEF Clean
<1>18. OnlyDirs(u, D)
  <2>1. \A g \in Frame : (u.kind[g] = "pgdir") <=> (s.kind[g] = "pgdir")
    BY <1>3, <1>11, <1>13, <1>14
  <2> QED
    BY <1>1, <2>1 DEF OnlyDirs
<1>19. \A g \in Frame : u.kind[g] = "page" => u.ref[g] = 1 /\ u.data[g] \in Val
  BY <1>3, <1>11, <1>13, <1>14 DEF Clean
<1>20. Clean(u, D)
  BY <1>17, <1>18, <1>19 DEF Clean
<1>21. \A g \in Frame : s.kind[g] = "page" => u.data[g] = s.data[g]
  BY <1>3, <1>13
<1>22. NoneValid(s, pt)
  BY <1>5 DEF NoneValid, At
<1>23. \A e \in D, lb \in La :
         /\ At(u, <<e, PDX1(lb)>>) = IF e = d /\ PDX1(lb) = PDX1(la) THEN NULL
                                     ELSE At(s, <<e, PDX1(lb)>>)
         /\ get_page(u, e, lb) = get_page(s, e, lb)
  BY <1>15
<1> QED
  BY <1>3, <1>11, <1>20, <1>21, <1>22, <1>23 DEF u, t, pt

----------------------------------------------------------------------------
(***************************************************************************)
(* The actions.                                                            *)
(***************************************************************************)

\* Calls without arguments are calls.
LEMMA OpFacts ==
    ASSUME NEW op \in {"boot", "idle", "dup", "unmap", "exit", "panic"}
    PROVE  Op(op) \in Calls /\ Op(op).op = op
<1>1. TRUE \in BOOLEAN /\ 0 \in Nat
  OBVIOUS
<1> QED
  BY <1>1 DEF Op, Call, Calls

\* alloc_page panics.
LEMMA ShortGood ==
    ASSUME TInv, Short, Sound(m'), UNCHANGED mm
    PROVE  TInv'
<1>1. call' \in Calls /\ call'.op = "panic"
  BY OpFacts DEF Short
<1> QED
  BY <1>1 DEF TInv, Working, Dup, Unmap, Exit

\* The invariant between calls.
LEMMA IdleGood ==
    ASSUME Sound(m'), mm' \subseteq Frame, call' = Idle, Clean(m', mm')
    PROVE  TInv'
<1>1. call' \in Calls /\ call'.op = "idle"
  BY OpFacts DEF Idle
<1>2. ~Working' /\ Dirs' = mm'
  BY <1>1 DEF Working, Dirs
<1> QED
  BY <1>1, <1>2 DEF TInv, Dup, Unmap, Exit

\* The invariant during the self-tests.
LEMMA BootGood ==
    ASSUME Sound(m'), mm' = {}, call'.op = "boot", call' \in Calls, Booting(m')
    PROVE  TInv'
<1>1. ~Working'
  BY DEF Working
<1> QED
  BY <1>1 DEF TInv, Dup, Unmap, Exit

\* The invariant holds initially.
LEMMA InitGood ==
    ASSUME Init
    PROVE  TInv
<1>1. boot_pgdir \in Frame /\ NULL \notin Frame
  BY Members, PageTableAssumption
<1>2. \A i \in Idx : Empty[i] = NULL
  BY DEF Empty
<1>3. /\ m.kind = [f \in Frame |-> IF f = boot_pgdir THEN "pgdir" ELSE "free"]
      /\ m.ref = [f \in Frame |-> 0] /\ m.tab = [f \in Frame |-> Empty]
      /\ m \in Memory
  <2>1. [f \in Frame |-> IF f = boot_pgdir THEN "pgdir" ELSE "free"] \in [Frame -> Kind]
    BY DEF Kind
  <2>2. Empty \in [Idx -> Frame \cup {NULL}]
    BY DEF Empty
  <2> QED
    BY <2>1, <2>2 DEF Init, Memory
<1>4. \A c \in Slot : At(m, c) = NULL
  BY <1>2, <1>3 DEF At, Slot
<1>5. Sound(m) /\ Linked(m)
  BY <1>3, <1>4 DEF Sound, Levels, Counted, Linked
<1>6. \A la \in La : At(m, <<boot_pgdir, PDX1(la)>>) = NULL
  BY <1>1, <1>4, Indices DEF Slot
<1>7. \A la \in La : pt_of(m, boot_pgdir, la) = NULL /\ get_page(m, boot_pgdir, la) = NULL
  BY <1>6 DEF pt_of, get_page
<1>8. Within(m, boot_pgdir, Idx)
  BY <1>6, <1>7 DEF Within
<1>9. OnlyDirs(m, {})
  BY <1>1, <1>3 DEF OnlyDirs
<1>10. Booting(m)
  BY <1>3, <1>5, <1>8, <1>9 DEF Booting
<1>11. call \in Calls /\ call.op = "boot"
  BY OpFacts DEF Init
<1> QED
  BY <1>5, <1>10, <1>11 DEF TInv, Init, Working, Dup, Unmap, Exit

\* page_insert in the self-tests keeps the invariant.
LEMMA BootInsertGood ==
    ASSUME TInv, NEW la \in Idx, BootInsert(la)
    PROVE  TInv'
<1>1. Sound(m) /\ Booting(m) /\ mm = {} /\ call.op = "boot" /\ call \in Calls /\ m \in Memory
  BY DEF TInv, BootInsert, Sound
<1> DEFINE d == boot_pgdir
<1>2. d \in Frame /\ m.kind[d] = "pgdir" /\ la \in La /\ NULL \notin Frame
  BY <1>1, Members, PageTableAssumption DEF Booting, OnlyDirs
<1> HIDE DEF d
<1>3. PICK p \in alloc_page(m) \cup Mapped(d) :
        \E r \in page_insert([m EXCEPT !.kind[p] = "page"], d, p, la) :
          m' = r.s /\ IF r.ok THEN UNCHANGED call ELSE Short
  BY DEF BootInsert, d
<1>4. p \in Frame /\ (p \in Free(m) \/ m.kind[p] = "page")
  <2>1. CASE p \in alloc_page(m)
    BY <2>1 DEF alloc_page, Free
  <2>2. CASE p \in Mapped(d)
    <3>1. PICK lb \in La : p = get_page(m, d, lb) /\ p # NULL
      BY <2>2 DEF Mapped
    <3>2. PathFacts(m, d, lb)
      BY <1>1, <1>2, Path
    <3> QED
      BY <3>1, <3>2 DEF PathFacts
  <2> QED
    BY <2>1, <2>2
<1> DEFINE k == [m.kind EXCEPT ![p] = "page"]
           t == [m EXCEPT !.kind = k]
<1>5. k \in [Frame -> Kind] /\ k[p] = "page" /\ \A g \in Frame \ {p} : k[g] = m.kind[g]
  BY <1>1, <1>4, FieldTypes DEF Kind
<1>6. PICK r \in page_insert(t, d, p, la) : m' = r.s /\ IF r.ok THEN UNCHANGED call ELSE Short
  BY <1>3
<1> HIDE DEF k
<1>7. t \in Memory /\ t.kind = k /\ t.ref = m.ref /\ t.tab = m.tab /\ t.data = m.data
  BY <1>1, <1>5, WithKind
<1> HIDE DEF t
<1>8. /\ Sound(t) /\ SameEntries(m, t)
      /\ t.kind[p] = "page" /\ \A g \in Frame \ {p} : t.kind[g] = m.kind[g]
  <2>1. t.kind[p] = "page" /\ \A g \in Frame \ {p} : t.kind[g] = m.kind[g]
    BY <1>5, <1>7
  <2>2. CASE p \in Free(m)
    BY <1>1, <1>7, <2>1, <2>2, TakenSound
  <2>3. CASE m.kind[p] = "page"
    <3>1. \A e : At(t, e) = At(m, e)
      BY <1>7 DEF At
    <3>2. \A f : SlotsOf(t, f) = SlotsOf(m, f)
      BY <3>1 DEF SlotsOf
    <3>3. \A g \in Frame : t.kind[g] = m.kind[g]
      BY <2>1, <2>3
    <3>4. \A c \in Slot : c[1] \in Frame /\ At(m, c) \in Frame \cup {NULL}
      BY <1>1, EntryIn
    <3>5. Levels(t)
      BY <1>1, <3>1, <3>3, <3>4 DEF Sound, Levels
    <3>6. Counted(t)
      <4>1. \A g : Forgotten(t, g) <=> Forgotten(m, g)
        BY <3>1, <3>2 DEF Forgotten, Hollow
      <4> QED
        BY <1>1, <1>7, <3>2, <3>3, <4>1 DEF Sound, Counted
    <3> QED
      BY <1>7, <2>1, <3>1, <3>5, <3>6 DEF Sound, SameEntries
  <2> QED
    BY <1>4, <2>1, <2>2, <2>3
<1>9. t.kind[d] = "pgdir" /\ p # d
  BY <1>2, <1>4, <1>8 DEF Free
<1>13. Linked(t)
  <2>1. Linked(m)
    BY <1>1 DEF Booting
  <2>2. \A f : SlotsOf(t, f) = SlotsOf(m, f)
    BY <1>8 DEF SameEntries, SlotsOf
  <2> QED
    BY <1>8, <2>1, <2>2 DEF Linked
<1> DEFINE u == r.s
           o == get_page(t, d, la)
<1>10. /\ Sound(u) /\ r.ok \in BOOLEAN /\ (Linked(t) => Linked(u))
       /\ r.ok =>
            /\ Maps(t, u, d, la, p)
            /\ \A g \in Frame \ {p, o} : /\ u.data[g] = t.data[g]
                                         /\ IF t.kind[g] = "free" THEN u.kind[g] \in {"free", "pd0", "pt"}
                                            ELSE u.kind[g] = t.kind[g] /\ u.ref[g] = t.ref[g]
            /\ u.kind[p] = "page" /\ u.data[p] = t.data[p]
            /\ u.ref[p] = IF o = p THEN t.ref[p] ELSE t.ref[p] + 1
            /\ o \notin {NULL, p} =>
                 /\ o \in Frame /\ t.kind[o] = "page" /\ u.ref[o] = t.ref[o] - 1
                 /\ u.kind[o] = IF t.ref[o] = 1 THEN "free" ELSE "page"
  BY <1>2, <1>4, <1>8, <1>9, PageInsertFacts
<1>11. CASE ~r.ok
  BY <1>6, <1>10, <1>11, ShortGood DEF BootInsert
<1>12. CASE r.ok
  <2>1. Within(u, d, Idx)
    <3>1. Within(m, d, Idx)
      BY <1>1 DEF Booting, d
    <3>2. Within(t, d, Idx)
      BY <1>1, <1>2, <1>8, <3>1, Members, WithinSame
    <3> QED
      BY <1>2, <1>9, <1>10, <1>12, <3>2, Members, WithinMaps
  <2>2. o \in Frame \cup {NULL} /\ o = get_page(m, d, la)
        /\ (o # NULL => t.kind[o] = "page" /\ m.kind[o] = "page")
    <3>1. PathFacts(t, d, la) /\ PathFacts(m, d, la)
      BY <1>1, <1>2, <1>8, <1>9, Path
    <3>2. get_page(t, d, la) = get_page(m, d, la)
      BY <1>1, <1>2, <1>8, SameView
    <3> QED
      BY <3>1, <3>2 DEF PathFacts
  <2>0. ASSUME NEW g \in Frame, g # p, g # o
        PROVE  IF t.kind[g] = "free" THEN u.kind[g] \in {"free", "pd0", "pt"}
               ELSE u.kind[g] = t.kind[g] /\ u.ref[g] = t.ref[g]
    <3>1. g \in Frame \ {p, o}
      BY <2>0
    <3> QED
      BY <1>10, <1>12, <3>1
  <2> HIDE DEF o, u
  <2>3. OnlyDirs(u, {})
    <3>1. \A g \in Frame : (m.kind[g] = "pgdir") <=> g = d
      BY <1>1 DEF Booting, OnlyDirs, d
    <3>2. ASSUME NEW g \in Frame
          PROVE  (u.kind[g] = "pgdir") <=> (t.kind[g] = "pgdir")
      <4>1. CASE g = p
        BY <1>8, <1>10, <1>12, <4>1
      <4>2. CASE g # p /\ g = o
        BY <1>2, <1>10, <1>12, <2>2, <4>2
      <4>3. CASE g # p /\ g # o
        BY <2>0, <1>12, <4>3
      <4> QED
        BY <4>1, <4>2, <4>3
    <3>3. \A g \in Frame : (t.kind[g] = "pgdir") <=> (m.kind[g] = "pgdir")
      BY <1>4, <1>8 DEF Free
    <3> QED
      BY <1>2, <3>1, <3>2, <3>3 DEF OnlyDirs, d
  <2>4. ASSUME NEW g \in Frame, u.kind[g] = "page"
        PROVE  u.ref[g] # 0
    <3>1. m.ref[g] \in Nat /\ t.ref[g] = m.ref[g] /\ (m.kind[g] = "page" => m.ref[g] # 0)
      BY <1>1, <1>7, FieldTypes DEF Booting
    <3>2. CASE g = p
      <4>1. CASE o = p
        BY <1>2, <1>4, <1>10, <1>12, <2>2, <3>1, <3>2, <4>1
      <4>2. CASE o # p
        BY <1>10, <1>12, <3>1, <3>2, <4>2
      <4> QED
        BY <4>1, <4>2
    <3>3. CASE g # p /\ g = o
      BY <1>2, <1>10, <1>12, <2>2, <2>4, <3>1, <3>3
    <3>4. CASE g # p /\ g # o
      BY <1>12, <2>0, <2>4, <3>1, <3>4, <1>8
    <3> QED
      BY <3>2, <3>3, <3>4
  <2>5. Booting(u)
    BY <1>10, <1>13, <2>1, <2>3, <2>4 DEF Booting, d
  <2> QED
    BY <1>1, <1>6, <1>10, <1>12, <2>5, BootGood DEF BootInsert, u
<1> QED
  BY <1>10, <1>11, <1>12

\* page_remove in the self-tests keeps it.
LEMMA PageRemoveGood ==
    ASSUME TInv, NEW la \in Idx, page_remove(la)
    PROVE  TInv'
<1>1. /\ Sound(m) /\ Booting(m) /\ mm = {} /\ call.op = "boot" /\ call \in Calls /\ m \in Memory
      /\ pt_of(m, boot_pgdir, la) # NULL
  BY DEF TInv, page_remove, Sound
<1> DEFINE d == boot_pgdir
           c == <<pt_of(m, d, la), PTX(la)>>
           o == At(m, c)
<1>2. d \in Frame /\ m.kind[d] = "pgdir" /\ la \in La /\ NULL \notin Frame
  BY <1>1, Members, PageTableAssumption DEF Booting, OnlyDirs
<1>3. m' = page_remove_pte(m, c) /\ mm' = mm /\ call' = call
  BY DEF page_remove
<1>4. c \in Slot /\ m.kind[c[1]] = "pt"
  <2>1. PathFacts(m, d, la)
    BY <1>1, <1>2, Path
  <2> QED
    BY <1>1, <2>1 DEF PathFacts
<1>5. /\ Sound(m') /\ Points(m, m', c, NULL) /\ Others(m, m', {o})
      /\ o # NULL => /\ m.kind[o] = "page"
                     /\ IF m.ref[o] = 1 THEN m'.kind[o] = "free"
                        ELSE m'.kind[o] = "page" /\ m'.ref[o] # 0
  <2> HIDE DEF c
  <2> QED
    BY <1>1, <1>3, <1>4, RemoveSound
<1>6. Shows(m, m', d, la, NULL)
  BY <1>1, <1>2, <1>5, EntryShows
<1>7. Within(m', d, Idx)
  BY <1>1, <1>2, <1>6, Members, WithinShows DEF Booting
<1>8. \A g \in Frame : g # o => m'.kind[g] = m.kind[g] /\ m'.ref[g] = m.ref[g]
  BY <1>5 DEF Others
<1> HIDE DEF o, c
<1>9. OnlyDirs(m', {})
  <2>1. \A g \in Frame : (m'.kind[g] = "pgdir") <=> (m.kind[g] = "pgdir")
    BY <1>2, <1>5, <1>8
  <2> QED
    BY <1>1, <2>1 DEF Booting, OnlyDirs
<1>10. \A g \in Frame : m'.kind[g] = "page" => m'.ref[g] # 0
  BY <1>1, <1>2, <1>5, <1>8 DEF Booting
<1>12. Linked(m')
  <2>1. Linked(m) /\ \A g \in Frame : m'.kind[g] \in {"pd0", "pt"} => m.kind[g] = m'.kind[g]
    BY <1>1, <1>2, <1>5, <1>8 DEF Booting
  <2> QED
    BY <1>1, <1>4, <1>5, <2>1, LinkedPoints
<1>11. Booting(m')
  BY <1>7, <1>9, <1>10, <1>12 DEF Booting
<1> QED
  BY <1>1, <1>3, <1>5, <1>11, BootGood

\* Areas are within the address space, not empty, and one behind the other.
LEMMA AreaFacts ==
    /\ Len(Areas) \in Nat \ {0} /\ N * N * N \in Nat
    /\ \A k \in 1 .. Len(Areas) :
         /\ Start(k) \in La /\ Start(k) \in Nat
         /\ End(k) \in Nat /\ End(k) <= N * N * N /\ Start(k) < End(k)
    /\ \A j, k \in 1 .. Len(Areas) : j < k => End(j) <= Start(k)
<1>1. /\ Areas \in Seq(La \X (La \cup {N * N * N})) /\ Areas # <<>> /\ N \in Nat
      /\ \A k \in 1 .. Len(Areas) : Areas[k][1] < Areas[k][2]
  BY PageTableAssumption
<1>2. N * N * N \in Nat
  <2>1. \A a, b \in Nat : a * b \in Nat
    BY SMT
  <2> QED
    BY <1>1, <2>1
<1> DEFINE T == La \X (La \cup {N * N * N})
<1>3. Len(Areas) \in Nat \ {0} /\ \A k \in 1 .. Len(Areas) : Areas[k] \in T
  <2> HIDE DEF T
  <2>1. Areas \in Seq(T)
    BY <1>1 DEF T
  <2> QED
    BY <1>1, <2>1
<1> DEFINE top == N * N * N
<1>4. top \in Nat /\ La = 0 .. top - 1 /\ T = La \X (La \cup {top})
  BY <1>2 DEF La
<1>5. \A k \in 1 .. Len(Areas) : Start(k) \in La /\ End(k) \in La \cup {top} /\ Start(k) < End(k)
  BY <1>1, <1>3 DEF Start, End
<1> HIDE DEF top, T
<1>6. \A k \in 1 .. Len(Areas) : Start(k) \in Nat /\ End(k) \in Nat /\ End(k) <= top
  BY <1>4, <1>5
<1>7. \A j, k \in 1 .. Len(Areas) : j < k => End(j) <= Start(k)
  BY PageTableAssumption DEF Start, End
<1> QED
  BY <1>3, <1>4, <1>5, <1>6, <1>7 DEF top

\* The invariant during a call.
LEMMA WorkGood ==
    ASSUME Sound(m'), mm' \subseteq Frame, call' \in Calls, call'.op \in {"dup", "unmap", "exit"},
           call'.d \notin mm', Clean(m', mm' \cup {call'.d}), Dup', Unmap', Exit'
    PROVE  TInv'
<1>1. Dirs' = mm' \cup {call'.d}
  BY DEF Dirs, Working
<1> QED
  BY <1>1 DEF TInv, Working

\* What the invariant says between calls.
LEMMA IdleFacts ==
    ASSUME TInv, call = Idle
    PROVE  Sound(m) /\ m \in Memory /\ Clean(m, mm) /\ OnlyDirs(m, mm)
<1>1. call.op = "idle"
  BY OpFacts DEF Idle
<1>2. Dirs = mm
  BY <1>1 DEF Dirs, Working
<1> QED
  BY <1>1, <1>2 DEF TInv, Sound, Clean

\* setup_pgdir keeps the invariant.
LEMMA SetupGood ==
    ASSUME TInv, setup_pgdir
    PROVE  TInv'
<1>1. call = Idle /\ Sound(m) /\ Clean(m, mm) /\ mm \subseteq Frame
  BY IdleFacts DEF setup_pgdir, TInv
<1>2. CASE \E f \in alloc_page(m) : /\ m' = [m EXCEPT !.kind[f] = "pgdir"]
                                    /\ mm' = mm \cup {f} /\ UNCHANGED call
  <2>1. PICK f \in alloc_page(m) : /\ m' = [m EXCEPT !.kind[f] = "pgdir"]
                                   /\ mm' = mm \cup {f} /\ UNCHANGED call
    BY <1>2
  <2>2. f \in Free(m)
    BY DEF alloc_page
  <2>3. Sound(m') /\ Clean(m', mm \cup {f}) /\ f \in Frame
    BY <1>1, <2>1, <2>2, NewDir
  <2> QED
    BY <1>1, <2>1, <2>3, IdleGood
<1>3. CASE alloc_page(m) = {} /\ Short /\ UNCHANGED <<m, mm>>
  BY <1>1, <1>3, ShortGood
<1> QED
  BY <1>2, <1>3 DEF setup_pgdir

\* The beginning of copy_mm keeps it.
LEMMA CopyMmGood ==
    ASSUME TInv, NEW from \in mm, copy_mm(from)
    PROVE  TInv'
<1>1. call = Idle /\ Sound(m) /\ Clean(m, mm) /\ mm \subseteq Frame /\ mm' = mm
  BY IdleFacts DEF copy_mm, TInv
<1> DEFINE n == Len(Areas)
<1>2. CASE \E f \in alloc_page(m) : /\ m' = [m EXCEPT !.kind[f] = "pgdir"]
                                    /\ call' = Call("dup", f, from, n, Start(n))
  <2>1. PICK f \in alloc_page(m) : /\ m' = [m EXCEPT !.kind[f] = "pgdir"]
                                   /\ call' = Call("dup", f, from, n, Start(n))
    BY <1>2
  <2>2. f \in Free(m)
    BY DEF alloc_page
  <2>3. /\ Sound(m') /\ Clean(m', mm \cup {f}) /\ f \in Frame \ mm /\ SameEntries(m, m')
        /\ \A la \in La : get_page(m, f, la) = NULL
    BY <1>1, <2>1, <2>2, NewDir
  <2>4. \A la \in La : get_page(m', f, la) = NULL
    BY <1>1, <2>3, SameView DEF Sound
  <2>5. n \in Nat \ {0} /\ Start(n) \in La /\ Start(n) \in Nat /\ Start(n) < End(n) /\ End(n) \in Nat
    BY AreaFacts
  <2>6. /\ call' \in Calls /\ call'.op = "dup" /\ call'.d = f /\ call'.from = from
        /\ call'.k = n /\ call'.la = Start(n)
    <3>1. /\ "dup" \in {"dup", "unmap", "exit"} /\ f \in Frame /\ from \in Frame \cup {NULL}
          /\ n \in Nat /\ Start(n) \in Nat
      BY <1>1, <2>3, <2>5
    <3> QED
      BY <2>1, <3>1 DEF Call, Calls
  <2>7. ASSUME NEW la \in La PROVE ~DupSeen(la)'
    <3>1. la \in Nat
      BY AreaFacts DEF La
    <3>2. ~ \E k \in 1 .. Len(Areas) : k > n
      BY <2>5
    <3> QED
      BY <2>5, <2>6, <3>1, <3>2 DEF DupSeen, Past, In
  <2>8. Position'
    BY <2>5, <2>6 DEF Position
  <2>9. Dup'
    BY <1>1, <2>4, <2>5, <2>6, <2>7, <2>8 DEF Dup
  <2>10. Unmap' /\ Exit'
    BY <2>6 DEF Unmap, Exit
  <2> QED
    BY <1>1, <2>3, <2>6, <2>9, <2>10, WorkGood
<1>3. CASE alloc_page(m) = {} /\ Short /\ UNCHANGED m
  BY <1>1, <1>3, ShortGood
<1> QED
  BY <1>2, <1>3 DEF copy_mm

\* A page mapped by load_icode keeps it.
LEMMA LoadPageGood ==
    ASSUME TInv, NEW d \in mm, NEW la \in La, LoadPage(d, la)
    PROVE  TInv'
<1>1. /\ call = Idle /\ Sound(m) /\ Clean(m, mm) /\ OnlyDirs(m, mm) /\ mm \subseteq Frame
      /\ mm' = mm /\ la \in UserLa /\ get_page(m, d, la) = NULL
  BY IdleFacts DEF LoadPage, TInv, UserLa
<1>2. PICK r \in pgdir_alloc_page(m, d, la) : m' = r.s /\ IF r.ok THEN UNCHANGED call ELSE Short
  BY DEF LoadPage
<1>3. d \in Frame /\ m.kind[d] = "pgdir"
  BY <1>1 DEF OnlyDirs
<1>4. /\ r.ok \in BOOLEAN /\ Sound(r.s)
      /\ r.ok => \E p : NewPage(m, r.s, p) /\ Maps(m, r.s, d, la, p)
  BY <1>1, <1>3, AllocPage
<1>5. CASE r.ok
  <2>1. Clean(m', mm)
    BY <1>1, <1>2, <1>4, <1>5, CleanMaps
  <2> QED
    BY <1>1, <1>2, <1>4, <1>5, <2>1, IdleGood
<1>6. CASE ~r.ok
  BY <1>1, <1>2, <1>4, <1>6, ShortGood
<1> QED
  BY <1>4, <1>5, <1>6

\* A page fault keeps it.
LEMMA FaultGood ==
    ASSUME TInv, NEW d \in mm, NEW la \in La, Fault(d, la)
    PROVE  TInv'
<1>1. /\ call = Idle /\ Sound(m) /\ Clean(m, mm) /\ OnlyDirs(m, mm) /\ mm \subseteq Frame
      /\ mm' = mm /\ la \in UserLa /\ get_page(m, d, la) = NULL
  BY IdleFacts DEF Fault, TInv, UserLa
<1>2. PICK r \in do_pgfault(m, d, la) : m' = r.s /\ IF r.ok THEN UNCHANGED call ELSE Short
  BY DEF Fault
<1>3. d \in Frame /\ m.kind[d] = "pgdir"
  BY <1>1 DEF OnlyDirs
<1>4. /\ r.ok \in BOOLEAN /\ Sound(r.s)
      /\ r.ok => \E p : NewPage(m, r.s, p) /\ Maps(m, r.s, d, la, p)
  BY <1>1, <1>3, FaultPage
<1>5. CASE r.ok
  <2>1. Clean(m', mm)
    BY <1>1, <1>2, <1>4, <1>5, CleanMaps
  <2> QED
    BY <1>1, <1>2, <1>4, <1>5, <2>1, IdleGood
<1>6. CASE ~r.ok
  BY <1>1, <1>2, <1>4, <1>6, ShortGood
<1> QED
  BY <1>4, <1>5, <1>6

\* A write of a process keeps it.
LEMMA WriteGood ==
    ASSUME TInv, NEW d \in mm, NEW la \in La, NEW v \in Val, Write(d, la, v)
    PROVE  TInv'
<1>1. /\ call = Idle /\ Sound(m) /\ Clean(m, mm) /\ OnlyDirs(m, mm) /\ mm \subseteq Frame
      /\ mm' = mm /\ call' = call /\ get_page(m, d, la) # NULL
  BY IdleFacts DEF Write, TInv
<1> DEFINE p == get_page(m, d, la)
<1>2. d \in Frame /\ m.kind[d] = "pgdir"
  BY <1>1 DEF OnlyDirs
<1>3. p \in Frame
  BY <1>1, <1>2, Path DEF PathFacts
<1>4. m' = [m EXCEPT !.data[p] = v]
  BY DEF Write
<1> HIDE DEF p
<1>5. Sound(m') /\ Clean(m', mm)
  BY <1>1, <1>3, <1>4, CleanWrite
<1> QED
  BY <1>1, <1>5, IdleGood

\* The beginning of exit_mmap keeps it.
LEMMA ExitMmapGood ==
    ASSUME TInv, NEW d \in mm, exit_mmap(d)
    PROVE  TInv'
<1>1. /\ call = Idle /\ Sound(m) /\ Clean(m, mm) /\ mm \subseteq Frame
      /\ mm' = mm \ {d} /\ m' = m /\ call' = Call("unmap", d, NULL, 1, Start(1))
  BY IdleFacts DEF exit_mmap, TInv
<1>2. /\ Len(Areas) \in Nat \ {0} /\ 1 \in 1 .. Len(Areas)
      /\ Start(1) \in La /\ Start(1) \in Nat /\ Start(1) < End(1) /\ End(1) \in Nat
  BY AreaFacts
<1>3. /\ call' \in Calls /\ call'.op = "unmap" /\ call'.d = d /\ call'.k = 1 /\ call'.la = Start(1)
  <2>1. /\ "unmap" \in {"dup", "unmap", "exit"} /\ d \in Frame /\ NULL \in Frame \cup {NULL}
        /\ 1 \in Nat /\ Start(1) \in Nat
    BY <1>1, <1>2
  <2> QED
    BY <1>1, <2>1 DEF Call, Calls
<1>4. ASSUME NEW la \in La PROVE ~Seen(la)'
  <2>1. la \in Nat
    BY AreaFacts DEF La
  <2>2. ~ \E k \in 1 .. Len(Areas) : k < 1
    BY <1>2
  <2> QED
    BY <1>2, <1>3, <2>1, <2>2 DEF Seen, Past, In
<1>5. Unmap'
  BY <1>2, <1>3, <1>4 DEF Unmap, Position
<1>6. Dup' /\ Exit'
  BY <1>3 DEF Dup, Exit
<1>7. mm = mm' \cup {d}
  BY <1>1
<1> QED
  BY <1>1, <1>3, <1>5, <1>6, <1>7, WorkGood

\* The page that copy_range makes at la.
LEMMA CopyPage ==
    ASSUME NEW s, Sound(s), NEW d \in Frame, s.kind[d] = "pgdir", NEW la \in La,
           get_page(s, d, la) = NULL, NEW r \in get_pte(s, d, la), r.pt # NULL,
           NEW p \in alloc_page(r.s), NEW w \in Val
    PROVE  LET u == Insert(Holding(r.s, p, w), p, <<r.pt, PTX(la)>>)
           IN  Sound(u) /\ NewPage(s, u, p) /\ Maps(s, u, d, la, p) /\ u.data[p] = w
<1> DEFINE t == r.s
           v == Holding(t, p, w)
           u == Insert(v, p, <<r.pt, PTX(la)>>)
<1>1. Sound(t) /\ Grown(s, t) /\ p \in Free(t)
  BY GetPteFacts DEF alloc_page
<1>2. /\ Sound(v) /\ SameEntries(t, v) /\ v.ref = t.ref
      /\ p \in Frame /\ t.kind[p] = "free" /\ v.ref[p] = 0
      /\ v.kind[p] = "page" /\ \A g \in Frame \ {p} : v.kind[g] = t.kind[g]
      /\ v.data[p] = w /\ \A g \in Frame \ {p} : v.data[g] = t.data[g]
  BY <1>1, TakenPage
<1> HIDE DEF v
<1>3. \A e \in Frame : s.kind[e] = "pgdir" => v.kind[e] = "pgdir"
  <2>1. \A e \in Frame : s.kind[e] = "pgdir" => t.kind[e] = "pgdir"
    BY <1>1 DEF Grown
  <2> QED
    BY <1>2, <2>1
<1>4. Sound(u) /\ Maps(s, u, d, la, p) /\ Replaced(v, u, p, NULL)
  BY <1>2, <1>3, PlaceFacts
<1>5. p # NULL /\ s.kind[p] = "free"
  BY <1>1, <1>2, PageTableAssumption DEF Grown
<1> HIDE DEF u
<1>6. u.kind[p] = "page" /\ u.data[p] = w /\ u.ref[p] = 1
  BY <1>2, <1>4, <1>5 DEF Replaced
<1>7. ASSUME NEW g \in Frame \ {p}
      PROVE  /\ u.data[g] = s.data[g]
             /\ IF s.kind[g] = "free" THEN u.kind[g] \in {"free", "pd0", "pt"}
                ELSE u.kind[g] = s.kind[g] /\ u.ref[g] = s.ref[g]
  <2>1. g # NULL
    BY PageTableAssumption
  <2>2. u.kind[g] = t.kind[g] /\ u.ref[g] = t.ref[g] /\ u.data[g] = t.data[g]
    BY <1>2, <1>4, <2>1 DEF Replaced, Others
  <2> QED
    BY <1>1, <2>2 DEF Grown
<1>8. NewPage(s, u, p)
  BY <1>2, <1>5, <1>6, <1>7 DEF NewPage
<1> QED
  BY <1>4, <1>6, <1>8 DEF u, v

\* What copy_range is about to go over.
InStep(x, la) == In(call.k, la) /\ call.la <= la /\ la < x

\* It has gone as far as x.
DupStep(x) ==
    /\ x \in Nat /\ call.la < x /\ DupNext(x)
    /\ Sound(m') /\ Clean(m', Dirs) /\ Keeps(m, m', mm)
    /\ \A la \in La :
         LET page == get_page(m', call.from, la)
             npage == get_page(m', call.d, la)
         IN  IF (DupSeen(la) \/ InStep(x, la)) /\ page # NULL
             THEN npage # NULL /\ m'.data[npage] = m'.data[page]
             ELSE npage = NULL

\* A call that found no free page: nothing that the spaces show has changed.
Halts == Short /\ Sound(m') /\ Keeps(m, m', mm) /\ UNCHANGED mm

\* Progress of copy_range keeps it.
LEMMA DupStepGood ==
    ASSUME TInv, call.op = "dup", NEW x, DupStep(x)
    PROVE  TInv'
<1>0. /\ x \in Nat /\ call.la < x /\ DupNext(x) /\ Sound(m') /\ Clean(m', Dirs)
      /\ \A la \in La :
           LET page == get_page(m', call.from, la)
               npage == get_page(m', call.d, la)
           IN  IF (DupSeen(la) \/ InStep(x, la)) /\ page # NULL
               THEN npage # NULL /\ m'.data[npage] = m'.data[page]
               ELSE npage = NULL
  BY DEF DupStep
<1>1. /\ Position /\ Start(call.k) <= call.la /\ call.from \in mm /\ mm \subseteq Frame
      /\ call \in Calls /\ Working /\ call.d \notin mm /\ Dirs = mm \cup {call.d}
  BY DEF TInv, Dup, Working, Dirs
<1> DEFINE k == call.k
<1>2. /\ k \in 1 .. Len(Areas) /\ Len(Areas) \in Nat /\ k \in Nat /\ call.la \in Nat
      /\ Start(k) \in Nat /\ End(k) \in Nat /\ End(k) <= N * N * N /\ N * N * N \in Nat
  BY <1>1, AreaFacts DEF Position, Calls
<1>3. \A la \in La : la \in Nat
  BY AreaFacts DEF La
<1>4. call.d \in Frame
  BY <1>0, <1>1 DEF Clean, OnlyDirs
<1>5. CASE x < End(k)
  <2>1. call' = [call EXCEPT !.la = x] /\ mm' = mm
    BY <1>0, <1>5 DEF DupNext
  <2>2. /\ call' \in Calls /\ call'.op = "dup" /\ call'.d = call.d /\ call'.from = call.from
        /\ call'.k = k /\ call'.la = x
    <3>1. x \in Nat
      BY <1>0
    <3> QED
      BY <1>1, <2>1, <3>1 DEF Calls
  <2>3. x \in La
    BY <1>0, <1>2, <1>5 DEF La
  <2>4. Position' /\ Start(k) <= x
    BY <1>0, <1>1, <1>2, <1>5, <2>2, <2>3 DEF Position
  <2>5. ASSUME NEW la \in La
        PROVE  DupSeen(la)' <=> DupSeen(la) \/ InStep(x, la)
    <3>1. Past(la)' <=> Past(la) \/ InStep(x, la)
      BY <1>0, <1>2, <1>3, <2>2 DEF Past, In, InStep
    <3>2. (\E j \in 1 .. Len(Areas) : j > call.k /\ In(j, la))'
            <=> \E j \in 1 .. Len(Areas) : j > call.k /\ In(j, la)
      BY <2>2 DEF In
    <3> QED
      BY <3>1, <3>2 DEF DupSeen
  <2>6. Dup'
    BY <1>0, <1>1, <2>1, <2>2, <2>4, <2>5 DEF Dup
  <2>7. Unmap' /\ Exit'
    BY <2>2 DEF Unmap, Exit
  <2> QED
    BY <1>0, <1>1, <2>1, <2>2, <2>6, <2>7, WorkGood
<1>6. CASE x >= End(k) /\ k > 1
  <2>1. call' = [call EXCEPT !.k = k - 1, !.la = Start(k - 1)] /\ mm' = mm
    BY <1>0, <1>2, <1>6 DEF DupNext
  <2>2. /\ k - 1 \in 1 .. Len(Areas) /\ k - 1 \in Nat
        /\ Start(k - 1) \in Nat /\ Start(k - 1) \in La /\ Start(k - 1) < End(k - 1)
    BY <1>2, <1>6, AreaFacts
  <2>3. /\ call' \in Calls /\ call'.op = "dup" /\ call'.d = call.d /\ call'.from = call.from
        /\ call'.k = k - 1 /\ call'.la = Start(k - 1)
    BY <1>1, <2>1, <2>2 DEF Calls
  <2>4. Position'
    BY <2>2, <2>3 DEF Position
  <2>5. ASSUME NEW la \in La
        PROVE  DupSeen(la)' <=> DupSeen(la) \/ InStep(x, la)
    <3>1. ~Past(la)'
      BY <1>3, <2>2, <2>3 DEF Past, In
    <3>2. (\E j \in 1 .. Len(Areas) : j > call.k /\ In(j, la))'
            <=> In(k, la) \/ \E j \in 1 .. Len(Areas) : j > k /\ In(j, la)
      <4>1. \A j \in 1 .. Len(Areas) : j > k - 1 <=> j = k \/ j > k
        BY <1>2
      <4> QED
        BY <1>2, <2>3, <4>1 DEF In
    <3>3. In(k, la) <=> Past(la) \/ InStep(x, la)
      BY <1>0, <1>2, <1>3, <1>6 DEF In, Past, InStep
    <3> QED
      BY <3>1, <3>2, <3>3 DEF DupSeen
  <2>6. Dup'
    BY <1>0, <1>1, <2>1, <2>2, <2>3, <2>4, <2>5 DEF Dup
  <2>7. Unmap' /\ Exit'
    BY <2>3 DEF Unmap, Exit
  <2> QED
    BY <1>0, <1>1, <2>1, <2>3, <2>6, <2>7, WorkGood
<1>7. CASE x >= End(k) /\ ~(k > 1)
  <2>1. call' = Idle /\ mm' = mm \cup {call.d}
    BY <1>0, <1>2, <1>7 DEF DupNext
  <2> QED
    BY <1>0, <1>1, <1>4, <2>1, IdleGood
<1> QED
  BY <1>0, <1>2, <1>5, <1>6, <1>7

\* Every step of copy_range is progress, or finds no free page.
LEMMA CopyRangeSteps ==
    ASSUME TInv, copy_range
    PROVE  call.op = "dup" /\ (Halts \/ \E x : DupStep(x))
<1> DEFINE la == call.la
           from == call.from
           d == call.d
           page == get_page(m, from, la)
<1>1. /\ call.op = "dup" /\ Sound(m) /\ Clean(m, Dirs) /\ mm \subseteq Frame
      /\ Position /\ Start(call.k) <= la /\ from \in mm /\ d \notin mm /\ Dirs = mm \cup {d}
      /\ \A lb \in La :
           LET old == get_page(m, from, lb)
               new == get_page(m, d, lb)
           IN  IF DupSeen(lb) /\ old # NULL THEN new # NULL /\ m.data[new] = m.data[old]
               ELSE new = NULL
  BY DEF copy_range, TInv, Dup, Working, Dirs
<1>2. /\ la \in La /\ la \in Nat /\ In(call.k, la) /\ la \in UserLa /\ call.k \in 1 .. Len(Areas)
  BY <1>1, AreaFacts DEF Position, In, UserLa, InArea, La
<1>3. /\ from \in Frame /\ d \in Frame /\ m.kind[from] = "pgdir" /\ m.kind[d] = "pgdir"
      /\ from # d /\ d \in Dirs
  BY <1>1 DEF Clean, OnlyDirs
<1>4. \A lb \in La : lb \in Nat
  BY AreaFacts DEF La
<1>5. ASSUME NEW x \in Nat, la < x, DupNext(x), m' = m,
             \A lb \in La : la <= lb /\ lb < x => get_page(m, from, lb) = NULL
      PROVE  DupStep(x)
  <2>1. \A lb \in La :
          LET old == get_page(m', from, lb)
              new == get_page(m', d, lb)
          IN  IF (DupSeen(lb) \/ InStep(x, lb)) /\ old # NULL
              THEN new # NULL /\ m'.data[new] = m'.data[old]
              ELSE new = NULL
    BY <1>1, <1>5 DEF InStep
  <2>2. Keeps(m, m', mm)
    BY <1>5 DEF Keeps
  <2> QED
    BY <1>1, <1>5, <2>1, <2>2 DEF DupStep
<1>6. CASE pt_of(m, from, la) = NULL /\ DupNext(NextTable(la)) /\ m' = m
  <2>1. /\ NextTable(la) \in Nat /\ la < NextTable(la)
        /\ \A lb \in La : la <= lb /\ lb < NextTable(la)
             => PDX1(lb) = PDX1(la) /\ PDX0(lb) = PDX0(la)
    BY <1>2, NextTableFacts
  <2>2. ASSUME NEW lb \in La, la <= lb, lb < NextTable(la)
        PROVE  get_page(m, from, lb) = NULL
    <3>1. pt_of(m, from, lb) = NULL
      BY <1>6, <2>1, <2>2 DEF pt_of
    <3> QED
      BY <3>1 DEF get_page
  <2> QED
    BY <1>1, <1>5, <1>6, <2>1, <2>2
<1>7. CASE page = NULL /\ DupNext(la + 1) /\ m' = m
  <2>1. la + 1 \in Nat /\ la < la + 1
    BY <1>2
  <2>2. ASSUME NEW lb \in La, la <= lb, lb < la + 1
        PROVE  get_page(m, from, lb) = NULL
    <3>1. lb = la
      BY <1>2, <1>4, <2>2
    <3> QED
      BY <1>7, <3>1
  <2> QED
    BY <1>1, <1>5, <1>7, <2>1, <2>2
<1>8. CASE page # NULL /\ \E r \in get_pte(m, d, la) : m' = r.s /\ Short /\ UNCHANGED mm
  <2>1. PICK r \in get_pte(m, d, la) : m' = r.s /\ Short /\ UNCHANGED mm
    BY <1>8
  <2>2. Sound(m') /\ SamePages(m, m') /\ m'.data = m.data
    BY <1>1, <1>2, <1>3, <2>1, GetPteFacts DEF Grown
  <2>3. mm \subseteq Directories(m)
    BY <1>1 DEF Directories, Clean, OnlyDirs
  <2>4. Keeps(m, m', mm)
    BY <2>2, <2>3 DEF Keeps, SamePages
  <2> QED
    BY <1>1, <2>1, <2>2, <2>4 DEF Halts
<1>9. CASE /\ page # NULL /\ DupNext(la + 1)
           /\ \E r \in get_pte(m, d, la) : /\ r.pt # NULL
                /\ \E np \in alloc_page(r.s) :
                     m' = Insert(Copied(r.s, page, np), np, <<r.pt, PTX(la)>>)
  <2>1. PICK r \in get_pte(m, d, la) : /\ r.pt # NULL
                /\ \E np \in alloc_page(r.s) :
                     m' = Insert(Copied(r.s, page, np), np, <<r.pt, PTX(la)>>)
    BY <1>9
  <2>2. PICK np \in alloc_page(r.s) : m' = Insert(Copied(r.s, page, np), np, <<r.pt, PTX(la)>>)
    BY <2>1
  <2>3. PathFacts(m, from, la)
    BY <1>1, <1>2, <1>3, Path
  <2>4. page \in Frame /\ m.kind[page] = "page" /\ m.data[page] \in Val
    BY <1>1, <1>9, <2>3 DEF PathFacts, Clean
  <2>5. r.s.data = m.data
    BY <1>1, <1>2, <1>3, GetPteFacts DEF Grown
  <2>6. m' = Insert(Holding(r.s, np, m.data[page]), np, <<r.pt, PTX(la)>>)
    BY <2>2, <2>5 DEF Copied
  <2>7. ~DupSeen(la)
    <3>1. ~ \E k \in 1 .. Len(Areas) : k > call.k /\ In(k, la)
      BY <1>2, AreaFacts DEF In
    <3>2. ~Past(la)
      BY <1>2 DEF Past
    <3> QED
      BY <3>1, <3>2 DEF DupSeen
  <2>8. get_page(m, d, la) = NULL
    BY <1>1, <1>2, <2>7
  <2>9. Sound(m') /\ NewPage(m, m', np) /\ Maps(m, m', d, la, np) /\ m'.data[np] = m.data[page]
    <3> DEFINE w == m.data[page]
               u == Insert(Holding(r.s, np, w), np, <<r.pt, PTX(la)>>)
    <3>1. w \in Val /\ m' = u
      BY <2>4, <2>6
    <3> HIDE DEF w
    <3>2. Sound(u) /\ NewPage(m, u, np) /\ Maps(m, u, d, la, np) /\ u.data[np] = w
      <4>1. /\ Sound(m) /\ d \in Frame /\ m.kind[d] = "pgdir" /\ la \in La
            /\ get_page(m, d, la) = NULL /\ r.pt # NULL /\ w \in Val
        BY <1>1, <1>2, <1>3, <2>1, <2>8, <3>1
      <4> HIDE DEF d, la
      <4> QED
        BY <4>1, CopyPage
    <3> HIDE DEF u
    <3> QED
      BY <3>1, <3>2 DEF w
  <2>10. Clean(m', Dirs)
    BY <1>1, <1>2, <1>3, <2>9, CleanMaps
  <2>11. np # NULL /\ \A f \in Frame : m.kind[f] = "page" => f # np /\ m'.data[f] = m.data[f]
    BY <2>9, PageTableAssumption DEF NewPage
  <2>12. ASSUME NEW lb \in La
         PROVE  LET old == get_page(m', from, lb)
                    new == get_page(m', d, lb)
                IN  IF (DupSeen(lb) \/ InStep(la + 1, lb)) /\ old # NULL
                    THEN new # NULL /\ m'.data[new] = m'.data[old]
                    ELSE new = NULL
    <3>1. get_page(m', from, lb) = get_page(m, from, lb)
      BY <1>3, <2>9 DEF Maps
    <3>2. get_page(m', d, lb) = IF lb = la THEN np ELSE get_page(m, d, lb)
      BY <1>3, <2>9 DEF Maps
    <3>3. InStep(la + 1, lb) <=> lb = la
      BY <1>2, <1>4 DEF InStep
    <3>4. PathFacts(m, from, lb) /\ PathFacts(m, d, lb)
      BY <1>1, <1>3, Path
    <3>5. /\ get_page(m, from, lb) # NULL =>
               m'.data[get_page(m, from, lb)] = m.data[get_page(m, from, lb)]
          /\ get_page(m, d, lb) # NULL =>
               m'.data[get_page(m, d, lb)] = m.data[get_page(m, d, lb)]
      BY <2>11, <3>4 DEF PathFacts
    <3>6. CASE lb = la
      BY <1>9, <2>9, <2>11, <3>1, <3>2, <3>3, <3>5, <3>6
    <3>7. CASE lb # la
      BY <1>1, <3>1, <3>2, <3>3, <3>5, <3>7
    <3> QED
      BY <3>6, <3>7
  <2>13. la + 1 \in Nat /\ la < la + 1
    BY <1>2
  <2>14. Keeps(m, m', mm)
    <3> SUFFICES ASSUME NEW e \in mm, NEW lb \in La
                 PROVE  LET old == get_page(m, e, lb)
                        IN  get_page(m', e, lb) = old /\ (old # NULL => m'.data[old] = m.data[old])
      BY DEF Keeps
    <3>1. e \in Frame /\ m.kind[e] = "pgdir" /\ e # d
      BY <1>1 DEF Clean, OnlyDirs
    <3>2. PathFacts(m, e, lb)
      BY <1>1, <3>1, Path
    <3>3. get_page(m', e, lb) = get_page(m, e, lb)
      BY <2>9, <3>1 DEF Maps
    <3> QED
      BY <2>11, <3>2, <3>3 DEF PathFacts
  <2>15. DupStep(la + 1)
    BY <1>9, <2>9, <2>10, <2>12, <2>13, <2>14 DEF DupStep
  <2> QED
    BY <1>1, <2>15
<1> QED
  BY <1>6, <1>7, <1>8, <1>9 DEF copy_range

\* copy_range keeps the invariant.
LEMMA CopyRangeGood ==
    ASSUME TInv, copy_range
    PROVE  TInv'
<1>1. CASE Halts
  BY <1>1, ShortGood DEF Halts
<1>2. CASE \E x : DupStep(x)
  BY <1>2, CopyRangeSteps, DupStepGood
<1> QED
  BY <1>1, <1>2, CopyRangeSteps

\* unmap_range goes on to an address with everything below unmapped.
LEMMA UnmapNextGood ==
    ASSUME TInv, call.op = "unmap", NEW x \in Nat, call.la < x, call' = UnmapNext(x), mm' = mm,
           Sound(m'), Clean(m', Dirs),
           \A la \in La : Seen(la) \/ InStep(x, la) => get_page(m', call.d, la) = NULL
    PROVE  TInv'
<1> DEFINE k == call.k
           d == call.d
<1>1. /\ Position /\ Start(k) <= call.la /\ mm \subseteq Frame
      /\ call \in Calls /\ d \notin mm /\ Dirs = mm \cup {d}
  BY DEF TInv, Unmap, Working, Dirs
<1>2. /\ k \in 1 .. Len(Areas) /\ Len(Areas) \in Nat \ {0} /\ k \in Nat /\ call.la \in Nat
      /\ Start(k) \in Nat /\ End(k) \in Nat /\ End(k) <= N * N * N /\ N * N * N \in Nat
  BY <1>1, AreaFacts DEF Position, Calls
<1>3. \A la \in La : la \in Nat
  BY AreaFacts DEF La
<1>4. d \in Frame
  BY <1>1 DEF Clean, OnlyDirs
<1>5. CASE x < End(k)
  <2>1. call' = [call EXCEPT !.la = x]
    BY <1>5 DEF UnmapNext
  <2>2. /\ call' \in Calls /\ call'.op = "unmap" /\ call'.d = d /\ call'.k = k /\ call'.la = x
    BY <1>1, <2>1 DEF Calls
  <2>3. x \in La
    BY <1>2, <1>5 DEF La
  <2>4. Position' /\ Start(k) <= x
    BY <1>1, <1>2, <1>5, <2>2, <2>3 DEF Position
  <2>5. ASSUME NEW la \in La, Seen(la)'
        PROVE  Seen(la) \/ InStep(x, la)
    <3>1. Past(la)' => Past(la) \/ InStep(x, la)
      BY <1>2, <1>3, <2>2 DEF Past, In, InStep
    <3>2. (\E j \in 1 .. Len(Areas) : j < call.k /\ In(j, la))'
            => \E j \in 1 .. Len(Areas) : j < call.k /\ In(j, la)
      BY <2>2 DEF In
    <3> QED
      BY <2>5, <3>1, <3>2 DEF Seen
  <2>6. Unmap'
    BY <2>2, <2>4, <2>5 DEF Unmap
  <2>7. Dup' /\ Exit'
    BY <2>2 DEF Dup, Exit
  <2> QED
    BY <1>1, <2>2, <2>6, <2>7, WorkGood
<1>6. ASSUME NEW la \in La, NEW j \in 1 .. Len(Areas), j <= k, In(j, la), x >= End(k)
      PROVE  get_page(m', d, la) = NULL
  <2>1. CASE j < k
    BY <1>6, <2>1 DEF Seen
  <2>2. CASE j = k
    <3>1. Past(la) \/ InStep(x, la)
      BY <1>2, <1>3, <1>6, <2>2 DEF In, Past, InStep
    <3> QED
      BY <3>1 DEF Seen
  <2> QED
    BY <1>2, <1>6, <2>1, <2>2
<1>7. CASE x >= End(k) /\ k < Len(Areas)
  <2>1. call' = [call EXCEPT !.k = k + 1, !.la = Start(k + 1)]
    BY <1>2, <1>7 DEF UnmapNext
  <2>2. /\ k + 1 \in 1 .. Len(Areas) /\ k + 1 \in Nat
        /\ Start(k + 1) \in Nat /\ Start(k + 1) \in La /\ Start(k + 1) < End(k + 1)
    BY <1>2, <1>7, AreaFacts
  <2>3. /\ call' \in Calls /\ call'.op = "unmap" /\ call'.d = d
        /\ call'.k = k + 1 /\ call'.la = Start(k + 1)
    BY <1>1, <2>1, <2>2 DEF Calls
  <2>4. Position'
    BY <2>2, <2>3 DEF Position
  <2>5. ASSUME NEW la \in La, Seen(la)'
        PROVE  get_page(m', d, la) = NULL
    <3>1. ~Past(la)'
      BY <1>3, <2>2, <2>3 DEF Past, In
    <3>2. PICK j \in 1 .. Len(Areas) : j < k + 1 /\ In(j, la)
      BY <2>3, <2>5, <3>1 DEF Seen, In
    <3> QED
      BY <1>2, <1>6, <1>7, <3>2
  <2>6. Unmap'
    BY <2>2, <2>3, <2>4, <2>5 DEF Unmap
  <2>7. Dup' /\ Exit'
    BY <2>3 DEF Dup, Exit
  <2> QED
    BY <1>1, <2>3, <2>6, <2>7, WorkGood
<1>8. CASE x >= End(k) /\ ~(k < Len(Areas))
  <2> DEFINE first == (Start(1) \div N) * N
  <2>1. call' = Call("exit", d, NULL, 1, first)
    BY <1>2, <1>8 DEF UnmapNext
  <2>2. /\ 1 \in 1 .. Len(Areas) /\ Start(1) \in Nat /\ Start(1) \in La
        /\ Start(1) < End(1) /\ End(1) \in Nat /\ End(1) <= N * N * N
    BY <1>2, AreaFacts
  <2>3. first \in Nat /\ first <= Start(1) /\ Start(1) < first + N /\ first % N = 0
    BY <2>2, LastMultiple, PageTableAssumption
  <2> HIDE DEF first
  <2>4. /\ call' \in Calls /\ call'.op = "exit" /\ call'.d = d /\ call'.k = 1
        /\ call'.la = first /\ call'.all = TRUE
    BY <1>4, <2>1, <2>3 DEF Call, Calls
  <2>5. Position'
    BY <1>2, <2>2, <2>3, <2>4 DEF Position, La
  <2>6. ASSUME NEW la \in La
        PROVE  get_page(m', d, la) = NULL
    <3>1. Within(m', d, UserLa)
      BY <1>1 DEF Clean
    <3>2. get_page(m', d, la) # NULL => \E j \in 1 .. Len(Areas) : In(j, la)
      BY <3>1 DEF Within, UserLa, InArea, In
    <3>3. \A j \in 1 .. Len(Areas) : j <= k
      BY <1>2, <1>8
    <3> QED
      BY <1>6, <1>8, <3>2, <3>3
  <2>7. \A la \in La : ~Seen(la)'
    <3> SUFFICES ASSUME NEW la \in La PROVE ~Seen(la)'
      OBVIOUS
    <3>1. ~ \E j \in 1 .. Len(Areas) : j < 1
      BY <1>2
    <3>2. ~Past(la)'
      BY <1>3, <2>2, <2>3, <2>4 DEF Past, In
    <3> QED
      BY <2>4, <3>1, <3>2 DEF Seen
  <2>8. Exit'
    BY <2>3, <2>4, <2>5, <2>6, <2>7 DEF Exit
  <2>9. Dup' /\ Unmap'
    BY <2>4 DEF Dup, Unmap
  <2> QED
    BY <1>1, <2>4, <2>8, <2>9, WorkGood
<1> QED
  BY <1>2, <1>5, <1>7, <1>8

\* unmap_range keeps the invariant.
LEMMA UnmapRangeGood ==
    ASSUME TInv, unmap_range
    PROVE  TInv'
<1> DEFINE la == call.la
           d == call.d
<1>1. /\ call.op = "unmap" /\ Sound(m) /\ Clean(m, Dirs) /\ Position /\ d \in Dirs /\ mm' = mm
      /\ \A lb \in La : Seen(lb) => get_page(m, d, lb) = NULL
  BY DEF unmap_range, TInv, Unmap, Working, Dirs
<1>2. la \in La /\ la \in Nat
  BY <1>1, AreaFacts DEF Position, La
<1>3. d \in Frame /\ m.kind[d] = "pgdir"
  BY <1>1 DEF Clean, OnlyDirs
<1>4. \A lb \in La : lb \in Nat
  BY AreaFacts DEF La
<1>5. CASE pt_of(m, d, la) = NULL /\ call' = UnmapNext(NextTable(la)) /\ m' = m
  <2>1. /\ NextTable(la) \in Nat /\ la < NextTable(la)
        /\ \A lb \in La : la <= lb /\ lb < NextTable(la)
             => PDX1(lb) = PDX1(la) /\ PDX0(lb) = PDX0(la)
    BY <1>2, NextTableFacts
  <2>2. ASSUME NEW lb \in La, InStep(NextTable(la), lb)
        PROVE  get_page(m, d, lb) = NULL
    <3>1. pt_of(m, d, lb) = NULL
      BY <1>5, <2>1, <2>2 DEF pt_of, InStep
    <3> QED
      BY <3>1 DEF get_page
  <2> QED
    BY <1>1, <1>5, <2>1, <2>2, UnmapNextGood
<1>6. CASE /\ pt_of(m, d, la) # NULL /\ call' = UnmapNext(la + 1)
           /\ m' = page_remove_pte(m, <<pt_of(m, d, la), PTX(la)>>)
  <2>1. Sound(m') /\ Clean(m', Dirs) /\ Shows(m, m', d, la, NULL)
    BY <1>1, <1>2, <1>6, CleanRemove
  <2>2. ASSUME NEW lb \in La, Seen(lb) \/ InStep(la + 1, lb)
        PROVE  get_page(m', d, lb) = NULL
    <3>1. get_page(m', d, lb) = IF lb = la THEN NULL ELSE get_page(m, d, lb)
      BY <1>3, <2>1 DEF Shows
    <3>2. InStep(la + 1, lb) => lb = la
      BY <1>2, <1>4 DEF InStep
    <3> QED
      BY <1>1, <2>2, <3>1, <3>2
  <2>3. la + 1 \in Nat /\ la < la + 1
    BY <1>2
  <2> QED
    BY <1>1, <1>6, <2>1, <2>2, <2>3, UnmapNextGood
<1> QED
  BY <1>5, <1>6 DEF unmap_range

\* The tables up to x are gone, the pages of the other spaces are as they were.
ExitStep(x, all, s) ==
    /\ x \in Nat /\ x % N = 0 /\ call.la < x /\ mm' = mm
    /\ ExitNext(s, x, all) /\ all \in BOOLEAN /\ (OneTableEach => all = TRUE)
    /\ Sound(s) /\ Clean(s, Dirs) /\ Keeps(m, s, mm)
    /\ \A la \in La : get_page(s, call.d, la) = NULL
    /\ \A la \in La : Seen(la) \/ InStep(x, la) => Gone(s, call.d, la)

\* exit_range goes on when the page table it is at is gone.
LEMMA ExitStepGood ==
    ASSUME TInv, call.op = "exit", NEW x, NEW all, NEW s, ExitStep(x, all, s)
    PROVE  TInv' /\ Keeps(m, m', mm)
<1>0. /\ x \in Nat /\ x % N = 0 /\ call.la < x /\ mm' = mm
      /\ ExitNext(s, x, all) /\ all \in BOOLEAN /\ (OneTableEach => all = TRUE)
      /\ Sound(s) /\ Clean(s, Dirs) /\ Keeps(m, s, mm)
      /\ \A la \in La : get_page(s, call.d, la) = NULL
      /\ \A la \in La : Seen(la) \/ InStep(x, la) => Gone(s, call.d, la)
  BY DEF ExitStep
<1> DEFINE k == call.k
           d == call.d
<1>1. /\ Position /\ Start(k) < call.la + N /\ mm \subseteq Frame
      /\ call \in Calls /\ d \notin mm /\ Dirs = mm \cup {d} /\ N \in Nat \ {0}
  BY PageTableAssumption DEF TInv, Exit, Working, Dirs
<1>2. /\ k \in 1 .. Len(Areas) /\ Len(Areas) \in Nat \ {0} /\ k \in Nat /\ call.la \in Nat
      /\ Start(k) \in Nat /\ End(k) \in Nat /\ End(k) <= N * N * N /\ N * N * N \in Nat
  BY <1>1, AreaFacts DEF Position, Calls
<1>3. \A la \in La : la \in Nat
  BY AreaFacts DEF La
<1>4. d \in Frame
  BY <1>0, <1>1 DEF Clean, OnlyDirs
<1>5. CASE x < End(k)
  <2>1. m' = s /\ call' = [call EXCEPT !.la = x, !.all = all]
    BY <1>0, <1>5 DEF ExitNext
  <2>2. /\ call' \in Calls /\ call'.op = "exit" /\ call'.d = d /\ call'.k = k /\ call'.la = x
        /\ call'.all = all
    <3>1. x \in Nat /\ all \in BOOLEAN
      BY <1>0
    <3> QED
      BY <1>1, <2>1, <3>1 DEF Calls
  <2>3. x \in La
    BY <1>0, <1>2, <1>5 DEF La
  <2>4. Position' /\ Start(k) < x + N
    BY <1>0, <1>1, <1>2, <1>5, <2>2, <2>3 DEF Position
  <2>5. ASSUME NEW la \in La, Seen(la)'
        PROVE  Seen(la) \/ InStep(x, la)
    <3>1. Past(la)' => Past(la) \/ InStep(x, la)
      BY <1>0, <1>2, <1>3, <2>2 DEF Past, In, InStep
    <3>2. (\E j \in 1 .. Len(Areas) : j < call.k /\ In(j, la))'
            => \E j \in 1 .. Len(Areas) : j < call.k /\ In(j, la)
      BY <2>2 DEF In
    <3> QED
      BY <2>5, <3>1, <3>2 DEF Seen
  <2>6. Exit'
    <3>1. \A la \in La : get_page(m', d, la) = NULL
      BY <1>0, <2>1
    <3>2. \A la \in La : Seen(la)' => Gone(m', d, la)
      BY <1>0, <2>1, <2>5
    <3> QED
      BY <1>0, <2>2, <2>4, <3>1, <3>2 DEF Exit
  <2>7. Dup' /\ Unmap'
    BY <2>2 DEF Dup, Unmap
  <2> QED
    BY <1>0, <1>1, <2>1, <2>2, <2>6, <2>7, WorkGood
<1>6. ASSUME NEW la \in La, NEW j \in 1 .. Len(Areas), j <= k, In(j, la), x >= End(k)
      PROVE  Gone(s, d, la)
  <2>1. CASE j < k
    BY <1>0, <1>6, <2>1 DEF Seen
  <2>2. CASE j = k
    <3>1. Past(la) \/ InStep(x, la)
      BY <1>0, <1>2, <1>3, <1>6, <2>2 DEF In, Past, InStep
    <3> QED
      BY <1>0, <3>1 DEF Seen
  <2> QED
    BY <1>2, <1>6, <2>1, <2>2
<1>7. CASE x >= End(k) /\ k < Len(Areas)
  <2> DEFINE next == (Start(k + 1) \div N) * N
  <2>1. m' = s /\ call' = [call EXCEPT !.k = k + 1, !.la = next, !.all = TRUE]
    BY <1>0, <1>2, <1>7 DEF ExitNext
  <2>2. /\ k + 1 \in 1 .. Len(Areas) /\ k + 1 \in Nat /\ Start(k + 1) \in Nat
        /\ Start(k + 1) \in La /\ Start(k + 1) < End(k + 1) /\ End(k + 1) \in Nat
        /\ End(k + 1) <= N * N * N
    BY <1>2, <1>7, AreaFacts
  <2>3. next \in Nat /\ next <= Start(k + 1) /\ Start(k + 1) < next + N /\ next % N = 0
    BY <2>2, LastMultiple, PageTableAssumption
  <2> HIDE DEF next
  <2>4. /\ call' \in Calls /\ call'.op = "exit" /\ call'.d = d
        /\ call'.k = k + 1 /\ call'.la = next /\ call'.all = TRUE
    BY <1>1, <2>1, <2>2, <2>3 DEF Calls
  <2>5. Position'
    BY <1>2, <2>2, <2>3, <2>4 DEF Position, La
  <2>6. ASSUME NEW la \in La, Seen(la)'
        PROVE  Gone(s, d, la)
    <3>1. ~Past(la)'
      BY <1>3, <2>2, <2>3, <2>4 DEF Past, In
    <3>2. PICK j \in 1 .. Len(Areas) : j < k + 1 /\ In(j, la)
      BY <2>4, <2>6, <3>1 DEF Seen, In
    <3> QED
      BY <1>2, <1>6, <1>7, <3>2
  <2>7. Exit'
    <3>1. \A la \in La : get_page(m', d, la) = NULL
      BY <1>0, <2>1
    <3>2. \A la \in La : Seen(la)' => Gone(m', d, la)
      BY <2>1, <2>6
    <3> QED
      BY <2>3, <2>4, <2>5, <3>1, <3>2 DEF Exit
  <2>8. Dup' /\ Unmap'
    BY <2>4 DEF Dup, Unmap
  <2> QED
    BY <1>0, <1>1, <2>1, <2>4, <2>7, <2>8, WorkGood
<1>8. CASE x >= End(k) /\ ~(k < Len(Areas))
  <2>1. m' = free_page(s, d) /\ call' = Idle
    BY <1>0, <1>2, <1>8 DEF ExitNext
  <2>2. Within(s, d, UserLa)
    BY <1>0, <1>1 DEF Clean
  <2>3. Droppable(s, d)
    <3>1. ASSUME NEW lb \in UserLa PROVE Gone(s, d, lb)
      <4>1. lb \in La /\ \E j \in 1 .. Len(Areas) : In(j, lb)
        BY DEF UserLa, InArea, In
      <4>2. \A j \in 1 .. Len(Areas) : j <= k
        BY <1>2, <1>8
      <4> QED
        BY <1>6, <1>8, <4>1, <4>2
    <3>2. ASSUME NEW la \in La PROVE pt_of(s, d, la) = NULL
      <4>1. SUFFICES ASSUME pt_of(s, d, la) # NULL PROVE FALSE
        OBVIOUS
      <4>2. PICK lb \in UserLa : Under(la, lb)
        BY <2>2, <4>1 DEF Within
      <4>3. pt_of(s, d, lb) = pt_of(s, d, la)
        BY <4>2 DEF Under, pt_of
      <4> QED
        BY <3>1, <4>1, <4>3 DEF Gone
    <3> SUFFICES ASSUME NEW i \in Idx, At(s, <<d, i>>) # NULL
                 PROVE  /\ ~OneTableEach /\ s.kind[At(s, <<d, i>>)] # "page"
                        /\ Hollow(s, At(s, <<d, i>>))
      BY DEF Droppable
    <3>3. Address(i, 0, 0) \in La /\ PDX1(Address(i, 0, 0)) = i
      BY Members, Digits
    <3>4. ~OneTableEach
      <4>1. PICK lb \in UserLa : PDX1(lb) = i
        BY <2>2, <3>3 DEF Within
      <4> QED
        BY <3>1, <4>1 DEF Gone
    <3>5. s.kind[At(s, <<d, i>>)] # "page"
      <4>1. <<d, i>> \in Slot /\ s.kind[d] = "pgdir"
        BY <1>0, <1>1, <1>4 DEF Clean, OnlyDirs, Slot
      <4> QED
        BY <1>0, <4>1, Leads
    <3>6. ASSUME NEW j \in Idx PROVE At(s, <<At(s, <<d, i>>), j>>) = NULL
      <4> DEFINE la == Address(i, j, 0)
      <4>1. la \in La /\ PDX1(la) = i /\ PDX0(la) = j
        BY Members, Digits
      <4> HIDE DEF la
      <4>2. pt_of(s, d, la) = NULL
        BY <3>2, <4>1
      <4> QED
        BY <4>1, <4>2 DEF pt_of
    <3> QED
      BY <3>4, <3>5, <3>6 DEF Hollow
  <2>4. d \in Dirs /\ Dirs \ {d} = mm
    BY <1>1
  <2>5. Sound(m') /\ Clean(m', mm)
    BY <1>0, <2>1, <2>3, <2>4, CleanDrop
  <2>6. /\ \A e \in mm, lb \in La : get_page(m', e, lb) = get_page(s, e, lb)
        /\ \A g \in Frame : s.kind[g] = "page" => m'.data[g] = s.data[g]
    <3>1. /\ \A e \in Dirs \ {d}, lb \in La :
                get_page(free_page(s, d), e, lb) = get_page(s, e, lb)
          /\ \A g \in Frame : s.kind[g] = "page" => free_page(s, d).data[g] = s.data[g]
      <4>1. Sound(s) /\ Clean(s, Dirs) /\ d \in Dirs /\ Droppable(s, d)
        BY <1>0, <2>3, <2>4
      <4> DEFINE v == free_page(s, d)
      <4>2. /\ \A e \in Dirs \ {d}, lb \in La : get_page(v, e, lb) = get_page(s, e, lb)
            /\ \A g \in Frame : s.kind[g] = "page" => v.data[g] = s.data[g]
        <5> HIDE DEF d
        <5> QED
          BY <4>1, CleanDrop
      <4> QED
        BY <4>2
    <3> QED
      BY <2>1, <2>4, <3>1
  <2>7. Keeps(m, m', mm)
    <3> SUFFICES ASSUME NEW e \in mm, NEW lb \in La
                 PROVE  LET page == get_page(m, e, lb)
                        IN  get_page(m', e, lb) = page /\ (page # NULL => m'.data[page] = m.data[page])
      BY DEF Keeps
    <3>1. e \in Frame /\ s.kind[e] = "pgdir" /\ Sound(s) /\ s \in Memory
      BY <1>0, <1>1 DEF Clean, OnlyDirs, Sound
    <3>2. PathFacts(s, e, lb)
      BY <3>1, Path
    <3>3. get_page(m', e, lb) = get_page(s, e, lb)
      BY <2>6
    <3>4. LET page == get_page(m, e, lb)
          IN  get_page(s, e, lb) = page /\ (page # NULL => s.data[page] = m.data[page])
      BY <1>0 DEF Keeps
    <3> QED
      BY <2>6, <3>2, <3>3, <3>4 DEF PathFacts
  <2> QED
    BY <1>0, <1>1, <2>1, <2>5, <2>7, IdleGood
<1> QED
  BY <1>0, <1>2, <1>5, <1>7, <1>8

\* The tables of a space that is being destroyed are freed: where OneTableEach holds
\* one step takes the only page table under an entry, and the table above it.
LEMMA ExitOneTable ==
    ASSUME OneTableEach, TInv, exit_range
    PROVE  call.op = "exit" /\ \E x, all, s : ExitStep(x, all, s)
<1> DEFINE la == call.la
           d == call.d
           k == call.k
           c1 == <<d, PDX1(la)>>
           pd0 == At(m, c1)
           c0 == <<pd0, PDX0(la)>>
           x == NextDir(la)
<1>1. /\ call.op = "exit" /\ Sound(m) /\ Clean(m, Dirs) /\ Position /\ d \in Dirs /\ mm' = mm
      /\ Start(k) < la + N /\ la % N = 0 /\ call.all = TRUE
      /\ \A lb \in La : get_page(m, d, lb) = NULL
      /\ \A lb \in La : Seen(lb) => At(m, <<d, PDX1(lb)>>) = NULL
  BY DEF exit_range, TInv, Exit, Working, Dirs, Gone
<1>2. /\ la \in La /\ la \in Nat /\ k \in 1 .. Len(Areas) /\ la < End(k)
      /\ Start(k) \in La /\ Start(k) \in Nat /\ End(k) \in Nat /\ Start(k) < End(k)
      /\ End(k) <= N * N * N /\ N * N * N \in Nat /\ N \in Nat \ {0}
  BY <1>1, AreaFacts, PageTableAssumption DEF Position, La
<1>3. d \in Frame /\ m.kind[d] = "pgdir"
  BY <1>1 DEF Clean, OnlyDirs
<1>4. /\ x \in Nat /\ la < x /\ x % N = 0
      /\ \A lb \in La : la <= lb /\ lb < x => PDX1(lb) = PDX1(la)
  BY <1>2, NextDirFacts
<1>5. /\ \A lb \in La : la <= lb /\ lb < la + N => PDX1(lb) = PDX1(la) /\ PDX0(lb) = PDX0(la)
      /\ la + N \in La /\ la + N < x => PDX1(la + N) = PDX1(la) /\ PDX0(la + N) # PDX0(la)
  BY <1>1, <1>2, TableStarts
\* An address of the area under the table that the loop is at.
<1>6. PICK b \in UserLa : PDX1(b) = PDX1(la) /\ PDX0(b) = PDX0(la)
  <2>1. CASE Start(k) <= la
    <3>1. la \in UserLa
      BY <1>2, <2>1 DEF UserLa, InArea
    <3> QED
      BY <3>1
  <2>2. CASE la < Start(k)
    <3>1. Start(k) \in UserLa
      BY <1>2 DEF UserLa, InArea
    <3>2. la <= Start(k) /\ Start(k) < la + N
      BY <1>1, <1>2, <2>2
    <3> QED
      BY <1>2, <1>5, <3>1, <3>2
  <2> QED
    BY <1>2, <2>1, <2>2
<1>7. \A lb \in UserLa : PDX1(lb) = PDX1(la) => PDX0(lb) = PDX0(la)
  BY <1>6 DEF OneTableEach, UserLa
<1> HIDE DEF x
<1>8. CASE pd0 = NULL /\ ExitNext(m, x, TRUE)
  <2>1. \A lb \in La : Seen(lb) \/ InStep(x, lb) => Gone(m, d, lb)
    BY <1>1, <1>4, <1>8 DEF InStep, Gone, pt_of
  <2>2. Keeps(m, m, mm)
    BY DEF Keeps
  <2>3. ExitStep(x, TRUE, m)
    BY <1>1, <1>4, <1>8, <2>1, <2>2 DEF ExitStep
  <2> QED
    BY <1>1, <2>3
<1>9. ~(la + N < x /\ la + N < End(k))
  <2>1. SUFFICES ASSUME la + N < x, la + N < End(k) PROVE FALSE
    OBVIOUS
  <2>2. la + N \in La
    BY <1>2, <2>1 DEF La
  <2>3. la + N \in UserLa
    BY <1>1, <1>2, <2>1, <2>2 DEF UserLa, InArea
  <2> QED
    BY <1>5, <1>7, <2>1, <2>2, <2>3
<1>10. ASSUME pd0 # NULL,
              LET pt == At(m, c0)
                  m1 == IF pt # NULL /\ NoneValid(m, pt) THEN FreeTable(m, c0) ELSE m
                  all == call.all /\ pt # NULL
              IN  ExitNext(IF all THEN FreeTable(m1, c1) ELSE m1, x, TRUE)
       PROVE  \E s : ExitStep(x, TRUE, s)
  <2>1. PICK lb \in UserLa : PDX1(lb) = PDX1(la) /\ pt_of(m, d, lb) # NULL
    <3>1. Within(m, d, UserLa)
      <4>1. d # boot_pgdir
        BY <1>1 DEF Clean, OnlyDirs
      <4>2. d \in Dirs
        BY <1>1
      <4> QED
        BY <1>1, <4>2 DEF Clean
    <3> QED
      BY <1>2, <1>10, <3>1 DEF Within, Full
  <2>2. pt_of(m, d, la) # NULL
    <3>1. PDX0(lb) = PDX0(la)
      BY <1>7, <2>1
    <3> QED
      BY <2>1, <3>1 DEF pt_of
  <2> DEFINE u == FreeTable(FreeTable(m, c0), c1)
  <2>3. /\ At(m, c0) # NULL /\ NoneValid(m, At(m, c0))
        /\ Sound(u) /\ Clean(u, Dirs)
        /\ \A g \in Frame : m.kind[g] = "page" => u.data[g] = m.data[g]
        /\ \A e \in Dirs, a \in La :
             /\ At(u, <<e, PDX1(a)>>) = IF e = d /\ PDX1(a) = PDX1(la) THEN NULL
                                         ELSE At(m, <<e, PDX1(a)>>)
             /\ get_page(u, e, a) = get_page(m, e, a)
    <3>1. /\ Sound(m) /\ Clean(m, Dirs) /\ d \in Dirs /\ la \in La
          /\ \A a \in La : get_page(m, d, a) = NULL
      BY <1>1, <1>2
    <3> HIDE DEF d, la
    <3> QED
      BY <2>2, <3>1, CleanTables DEF d, la
  <2>4. ExitNext(u, x, TRUE)
    BY <1>1, <1>10, <2>3
  <2> HIDE DEF u
  <2>5. \A a \in La : get_page(u, d, a) = NULL
    BY <1>1, <2>3
  <2>6. \A a \in La : Seen(a) \/ InStep(x, a) => Gone(u, d, a)
    <3>1. \A a \in La : Seen(a) \/ InStep(x, a) => At(u, <<d, PDX1(a)>>) = NULL
      BY <1>1, <1>4, <2>3 DEF InStep
    <3> QED
      BY <3>1 DEF Gone, pt_of
  <2>7. Keeps(m, u, mm)
    <3> SUFFICES ASSUME NEW e \in mm, NEW a \in La
                 PROVE  LET page == get_page(m, e, a)
                        IN  get_page(u, e, a) = page /\ (page # NULL => u.data[page] = m.data[page])
      BY DEF Keeps
    <3>1. e \in Dirs /\ e \in Frame /\ m.kind[e] = "pgdir"
      BY <1>1 DEF Dirs, Clean, OnlyDirs
    <3>2. PathFacts(m, e, a)
      BY <1>1, <3>1, Path
    <3> QED
      BY <2>3, <3>1, <3>2 DEF PathFacts
  <2>8. ExitStep(x, TRUE, u)
    BY <1>1, <1>4, <2>3, <2>4, <2>5, <2>6, <2>7 DEF ExitStep
  <2> QED
    BY <2>8
<1>11. la + N \in Nat /\ (la + N < x \/ la + N >= x) /\ (la + N < End(k) \/ la + N >= End(k))
  BY <1>2, <1>4
<1> QED
  BY <1>1, <1>8, <1>9, <1>10, <1>11 DEF exit_range, x

\* Where it does not hold a step takes the page table that it is at, and then perhaps
\* the table above it.
LEMMA ExitManyTables ==
    ASSUME ~OneTableEach, TInv, exit_range
    PROVE  call.op = "exit" /\ \E x, all, s : ExitStep(x, all, s)
<1> DEFINE la == call.la
           d == call.d
           k == call.k
           c1 == <<d, PDX1(la)>>
           pd0 == At(m, c1)
           c0 == <<pd0, PDX0(la)>>
           pt == At(m, c0)
           m1 == IF pt # NULL /\ NoneValid(m, pt) THEN FreeTable(m, c0) ELSE m
           all == call.all /\ pt # NULL
           u == IF all THEN FreeTable(m1, c1) ELSE m1
           x == NextDir(la)
<1>1. /\ call.op = "exit" /\ Sound(m) /\ Clean(m, Dirs) /\ Position /\ d \in Dirs /\ mm' = mm
      /\ la % N = 0 /\ call.all \in BOOLEAN /\ d \notin mm /\ Dirs \ {d} = mm
      /\ \A lb \in La : get_page(m, d, lb) = NULL
      /\ \A lb \in La : Seen(lb) => pt_of(m, d, lb) = NULL
  BY DEF exit_range, TInv, Exit, Working, Dirs, Gone, Calls
<1>2. /\ la \in La /\ la \in Nat /\ k \in 1 .. Len(Areas) /\ End(k) \in Nat
      /\ N \in Nat \ {0} /\ la + N \in Nat
  BY <1>1, AreaFacts, PageTableAssumption DEF Position, La
<1>3. d \in Frame /\ m.kind[d] = "pgdir" /\ m \in Memory /\ PDX1(la) \in Idx /\ PDX0(la) \in Idx
  BY <1>1, <1>2, Indices DEF Clean, OnlyDirs, Sound
<1>4. /\ x \in Nat /\ la < x /\ x % N = 0
      /\ \A lb \in La : la <= lb /\ lb < x => PDX1(lb) = PDX1(la)
  BY <1>2, NextDirFacts
<1>5. /\ \A lb \in La : la <= lb /\ lb < la + N => PDX1(lb) = PDX1(la) /\ PDX0(lb) = PDX0(la)
      /\ (la + N) % N = 0
  BY <1>1, <1>2, TableStarts
<1> HIDE DEF x
<1>6. ASSUME NEW s, \A e \in mm, a \in La : get_page(s, e, a) = get_page(m, e, a),
             \A g \in Frame : m.kind[g] = "page" => s.data[g] = m.data[g]
      PROVE  Keeps(m, s, mm)
  <2> SUFFICES ASSUME NEW e \in mm, NEW a \in La
               PROVE  LET page == get_page(m, e, a)
                      IN  get_page(s, e, a) = page /\ (page # NULL => s.data[page] = m.data[page])
    BY DEF Keeps
  <2>1. e \in Frame /\ m.kind[e] = "pgdir"
    BY <1>1 DEF Dirs, Clean, OnlyDirs
  <2>2. PathFacts(m, e, a)
    BY <1>1, <2>1, Path
  <2> QED
    BY <1>6, <2>2 DEF PathFacts
<1>7. CASE pd0 = NULL /\ ExitNext(m, x, TRUE)
  <2>1. \A lb \in La : Seen(lb) \/ InStep(x, lb) => Gone(m, d, lb)
    BY <1>1, <1>4, <1>7 DEF InStep, Gone, pt_of
  <2>2. Keeps(m, m, mm)
    BY DEF Keeps
  <2>3. ExitStep(x, TRUE, m)
    BY <1>1, <1>4, <1>7, <2>1, <2>2 DEF ExitStep
  <2> QED
    BY <1>1, <2>3
\* The page table at la, if there is one, is empty and is freed.
<1>8. ASSUME pd0 # NULL
      PROVE  /\ Sound(m1) /\ Clean(m1, Dirs) /\ Keeps(m, m1, mm)
             /\ \A lb \in La : get_page(m1, d, lb) = NULL /\ pt_of(m1, d, lb) \in {NULL, pt_of(m, d, lb)}
             /\ \A lb \in La : la <= lb /\ lb < la + N => pt_of(m1, d, lb) = NULL
             /\ At(m1, c1) \in {NULL, pd0}
  <2>1. PathFacts(m, d, la) /\ NULL \notin Frame
    BY <1>1, <1>2, <1>3, Path, PageTableAssumption
  <2>2. /\ c1 \in Slot /\ c1[1] = d /\ c0 \in Slot /\ c0[1] = pd0 /\ m.kind[pd0] = "pd0" /\ pd0 # d
        /\ pt = pt_of(m, d, la)
    BY <1>3, <1>8, <2>1 DEF PathFacts
  <2>3. ASSUME NEW lb \in La, la <= lb, lb < la + N
        PROVE  <<d, PDX1(lb)>> = c1 /\ PDX0(lb) = PDX0(la)
    BY <1>5, <2>3
  <2>4. CASE pt = NULL
    <3>1. m1 = m
      BY <2>4
    <3>2. \A lb \in La : la <= lb /\ lb < la + N => pt_of(m, d, lb) = NULL
      BY <1>5, <1>8, <2>4 DEF pt_of
    <3>3. Keeps(m, m, mm)
      BY DEF Keeps
    <3> QED
      BY <1>1, <3>1, <3>2, <3>3
  <2>5. CASE pt # NULL
    <3>1. Hollow(m, pt)
      BY <1>1, <1>2, <1>3, <2>2, <2>5, EmptyTables
    <3>2. NoneValid(m, pt)
      BY <3>1 DEF Hollow, NoneValid, At
    <3>3. m1 = FreeTable(m, c0)
      BY <2>5, <3>2
    <3>4. Owned(d, m, c0)
      BY <1>2, <2>2 DEF Owned
    <3> HIDE DEF m1, c0
    <3>5. /\ Sound(m1) /\ Clean(m1, Dirs)
          /\ \A g \in Frame : m.kind[g] = "page" => m1.data[g] = m.data[g]
          /\ \A e \in Dirs \ {d}, lb \in La : get_page(m1, e, lb) = get_page(m, e, lb)
          /\ \A lb \in La :
               /\ At(m1, <<d, PDX1(lb)>>) \in {NULL, At(m, <<d, PDX1(lb)>>)}
               /\ pt_of(m1, d, lb) \in {NULL, pt_of(m, d, lb)}
               /\ get_page(m1, d, lb) = NULL
          /\ At(m1, c0) = NULL
      <4>1. At(m, c0) # NULL
        BY <2>5
      <4> HIDE DEF d, pt
      <4> QED
        BY <1>1, <2>2, <3>3, <3>4, <4>1, CleanFree
    <3>6. Keeps(m, m1, mm)
      BY <1>1, <1>6, <3>5
    <3>7. At(m1, c1) \in {NULL, pd0}
      BY <1>2, <3>5
    <3>8. ASSUME NEW lb \in La, la <= lb, lb < la + N
          PROVE  pt_of(m1, d, lb) = NULL
      <4>1. pt_of(m1, d, lb) = IF At(m1, c1) = NULL THEN NULL ELSE At(m1, <<At(m1, c1), PDX0(la)>>)
        BY <2>3, <3>8 DEF pt_of
      <4>2. At(m1, <<pd0, PDX0(la)>>) = NULL
        BY <3>5 DEF c0
      <4> QED
        BY <3>7, <4>1, <4>2
    <3> QED
      BY <3>5, <3>6, <3>7, <3>8
  <2> QED
    BY <2>4, <2>5
<1> HIDE DEF m1
<1>9. ASSUME pd0 # NULL, ExitNext(m1, la + N, all) PROVE \E y, a, s : ExitStep(y, a, s)
  <2>1. ASSUME NEW lb \in La, Seen(lb) \/ InStep(la + N, lb)
        PROVE  Gone(m1, d, lb)
    <3>1. pt_of(m1, d, lb) = NULL
      BY <1>1, <1>8, <1>9, <2>1 DEF InStep
    <3> QED
      BY <3>1 DEF Gone
  <2>2. all \in BOOLEAN /\ la < la + N
    BY <1>1, <1>2
  <2>3. ExitStep(la + N, all, m1)
    BY <1>1, <1>2, <1>5, <1>8, <1>9, <2>1, <2>2 DEF ExitStep
  <2> QED
    BY <2>3
<1>10. ASSUME pd0 # NULL, la + N >= x \/ la + N >= End(k), ExitNext(u, x, TRUE)
       PROVE  \E y, a, s : ExitStep(y, a, s)
  <2>1. /\ Sound(u) /\ Clean(u, Dirs) /\ Keeps(m, u, mm)
        /\ \A lb \in La : get_page(u, d, lb) = NULL /\ pt_of(u, d, lb) \in {NULL, pt_of(m1, d, lb)}
    <3>1. CASE ~all
      BY <1>8, <1>10, <3>1
    <3>2. CASE all
      <4>1. u = FreeTable(m1, c1) /\ c1 \in Slot /\ c1[1] = d
        BY <1>3, <3>2 DEF Slot
      <4>2. Owned(d, m1, c1)
        BY <4>1 DEF Owned
      <4>3. At(m1, c1) # NULL
        <5>1. PathFacts(m, d, la) /\ NULL \notin Frame
          BY <1>1, <1>2, <1>3, Path, PageTableAssumption
        <5>2. c0 \in Slot /\ c0[1] = pd0 /\ c1 \in Slot /\ c1[1] = d /\ pd0 # d /\ At(m, c0) # NULL
              /\ m.kind[At(m, c0)] # "page" /\ d # At(m, c0)
              /\ Hollow(m, At(m, c0))
          <6>1. At(m, c0) = pt_of(m, d, la) /\ At(m, c0) # NULL
            BY <1>10, <3>2, <5>1 DEF PathFacts
          <6>2. Hollow(m, At(m, c0))
            BY <1>1, <1>2, <1>3, <6>1, EmptyTables
          <6> QED
            BY <1>3, <1>10, <5>1, <6>1, <6>2 DEF PathFacts
        <5>3. Droppable(m, At(m, c0))
          BY <5>2 DEF Droppable, Hollow
        <5>4. NoneValid(m, pt)
          BY <5>2 DEF Hollow, NoneValid, At
        <5>5. m1 = FreeTable(m, c0)
          BY <3>2, <5>4 DEF m1
        <5> HIDE DEF c0, m1
        <5>6. Points(m, m1, c0, NULL)
          BY <1>1, <5>2, <5>3, <5>5, FreeTableSound
        <5>7. c1 # c0
          BY <5>2
        <5> QED
          BY <1>10, <5>2, <5>6, <5>7 DEF Points
      <4> HIDE DEF c1, u, all
      <4>5. Sound(m1) /\ Clean(m1, Dirs) /\ \A lb \in La : get_page(m1, d, lb) = NULL
        BY <1>8, <1>10
      <4>6. /\ Sound(u) /\ Clean(u, Dirs)
            /\ \A g \in Frame : m1.kind[g] = "page" => u.data[g] = m1.data[g]
            /\ \A e \in Dirs \ {d}, lb \in La : get_page(u, e, lb) = get_page(m1, e, lb)
            /\ \A lb \in La : /\ pt_of(u, d, lb) \in {NULL, pt_of(m1, d, lb)}
                               /\ get_page(u, d, lb) = NULL
        <5> HIDE DEF d
        <5> QED
          <6>1. d \in Dirs
            BY <1>1
          <6> DEFINE v == FreeTable(m1, c1)
          <6>2. /\ Sound(v) /\ Clean(v, Dirs)
                /\ \A g \in Frame : m1.kind[g] = "page" => v.data[g] = m1.data[g]
                /\ \A e \in Dirs \ {d}, lb \in La : get_page(v, e, lb) = get_page(m1, e, lb)
                /\ \A lb \in La : /\ pt_of(v, d, lb) \in {NULL, pt_of(m1, d, lb)}
                                   /\ get_page(v, d, lb) = NULL
            <7>1. /\ ~OneTableEach /\ Sound(m1) /\ Clean(m1, Dirs) /\ c1 \in Slot
                  /\ \A lb \in La : get_page(m1, d, lb) = NULL
              BY <1>1, <4>1, <4>5
            <7>2. /\ Sound(v) /\ Clean(v, Dirs)
                  /\ \A g \in Frame : m1.kind[g] = "page" => v.data[g] = m1.data[g]
              BY <4>2, <4>3, <6>1, <7>1, CleanFree
            <7>3. \A e \in Dirs \ {d}, lb \in La : get_page(v, e, lb) = get_page(m1, e, lb)
              BY <4>2, <4>3, <6>1, <7>1, CleanFree
            <7>4. \A lb \in La : pt_of(v, d, lb) \in {NULL, pt_of(m1, d, lb)}
              BY <4>2, <4>3, <6>1, <7>1, CleanFree
            <7>5. \A lb \in La : get_page(v, d, lb) = NULL
              BY <4>2, <4>3, <6>1, <7>1, CleanFree
            <7> QED
              BY <7>2, <7>3, <7>4, <7>5
          <6>3. u = v
            BY <4>1
          <6> HIDE DEF v
          <6> QED
            BY <6>2, <6>3
      <4>7. Keeps(m, u, mm)
        <5> SUFFICES ASSUME NEW e \in mm, NEW a \in La
                     PROVE  LET page == get_page(m, e, a)
                            IN  /\ get_page(u, e, a) = page
                                /\ page # NULL => u.data[page] = m.data[page]
          BY DEF Keeps
        <5>1. e \in Frame /\ m1.kind[e] = "pgdir" /\ e \in Dirs \ {d}
          BY <1>1, <4>5 DEF Dirs, Clean, OnlyDirs
        <5>2. PathFacts(m1, e, a)
          BY <4>5, <5>1, Path
        <5>3. LET page == get_page(m, e, a)
              IN  get_page(m1, e, a) = page /\ (page # NULL => m1.data[page] = m.data[page])
          BY <1>8, <1>10 DEF Keeps
        <5> QED
          BY <4>6, <5>1, <5>2, <5>3 DEF PathFacts
      <4> QED
        BY <4>6, <4>7
    <3> QED
      BY <3>1, <3>2
  <2> HIDE DEF u
  <2>2. ASSUME NEW lb \in La, Seen(lb) \/ InStep(x, lb)
        PROVE  Gone(u, d, lb)
    <3>1. lb \in Nat
      BY AreaFacts DEF La
    <3>2. InStep(x, lb) => la <= lb /\ lb < la + N
      BY <1>2, <1>4, <1>10, <3>1 DEF InStep, In
    <3>3. pt_of(m1, d, lb) = NULL
      BY <1>1, <1>8, <1>10, <2>2, <3>2
    <3> QED
      BY <2>1, <3>3 DEF Gone
  <2>3. ExitStep(x, TRUE, u)
    BY <1>1, <1>4, <1>10, <2>1, <2>2 DEF ExitStep
  <2> QED
    BY <2>3
<1> QED
  BY <1>1, <1>7, <1>9, <1>10 DEF exit_range, x, m1

\* exit_range keeps the invariant, and the other spaces keep their pages.
LEMMA ExitRangeGood ==
    ASSUME TInv, exit_range
    PROVE  TInv' /\ Keeps(m, m', mm)
  BY ExitOneTable, ExitManyTables, ExitStepGood

\* After the self-tests.
LEMMA BootEndGood ==
    ASSUME TInv, BootEnd
    PROVE  TInv'
<1> DEFINE b == boot_pgdir
           pd0 == At(m, <<b, 0>>)
           pt == At(m, <<pd0, 0>>)
           left == Mapped(b)
           m1 == IF left = {} THEN m ELSE free_page(m, CHOOSE p \in left : TRUE)
           m2 == free_page(m1, pt)
           m3 == free_page(m2, pd0)
<1>1. /\ Sound(m) /\ m \in Memory /\ Booting(m) /\ mm = {} /\ mm' = {} /\ call' = Idle
      /\ pd0 # NULL /\ Cardinality(left) <= 1 /\ m' = SetEntry(m3, <<b, 0>>, NULL)
  BY DEF TInv, BootEnd, Sound
<1>2. /\ b \in Frame /\ 0 \in Idx /\ Idx \subseteq La /\ NULL \notin Frame
      /\ \A la \in Idx : PDX1(la) = 0 /\ PDX0(la) = 0 /\ PTX(la) = la
  BY Members, PageTableAssumption
<1>3. m.kind[b] = "pgdir" /\ \A f \in Frame : m.kind[f] = "pgdir" => f = b
  BY <1>1, <1>2 DEF Booting, OnlyDirs
<1>4. Within(m, b, Idx)
  BY <1>1 DEF Booting
<1> HIDE DEF b
<1>5. pd0 \in Frame /\ m.kind[pd0] = "pd0" /\ pt \in Frame /\ m.kind[pt] = "pt" /\ pt = pt_of(m, b, 0)
  <2>1. PICK lb \in Idx : pt_of(m, b, lb) # NULL
    BY <1>1, <1>2, <1>4 DEF Within, Full, b
  <2>2. pt = pt_of(m, b, 0) /\ pt = pt_of(m, b, lb)
    BY <1>1, <1>2 DEF pt_of
  <2>3. PathFacts(m, b, 0)
    BY <1>1, <1>2, <1>3, Path
  <2> QED
    BY <1>1, <1>2, <2>1, <2>2, <2>3 DEF PathFacts
<1> HIDE DEF pd0
<1>6. ASSUME NEW i \in Idx, At(m, <<b, i>>) # NULL
      PROVE  i = 0
  <2>1. Address(i, 0, 0) \in La /\ PDX1(Address(i, 0, 0)) = i
    BY <1>2, Digits
  <2> QED
    BY <1>2, <1>4, <1>6, <2>1 DEF Within
<1>7. ASSUME NEW f \in Frame, m.kind[f] = "pd0" PROVE f = pd0
  <2>1. PICK c \in Slot : SlotsOf(m, f) = {c}
    BY <1>1, <1>7 DEF Sound, Counted, Booting, Linked, Forgotten
  <2>2. At(m, c) = f /\ f # NULL
    BY <1>2, <2>1 DEF SlotsOf
  <2>3. c[1] \in Frame /\ c[2] \in Idx /\ c = <<c[1], c[2]>>
    BY <1>1, EntryIn
  <2>4. m.kind[c[1]] = "pgdir"
    BY <1>1, <1>7, <2>2 DEF Sound, Levels, Below
  <2>5. c[1] = b
    BY <1>3, <2>3, <2>4
  <2>6. c[2] = 0
    BY <1>6, <2>2, <2>3, <2>5
  <2> QED
    BY <2>2, <2>3, <2>5, <2>6 DEF pd0
<1> HIDE DEF pt
<1>8. ASSUME NEW f \in Frame, m.kind[f] = "pt" PROVE f = pt
  <2>1. PICK c \in Slot : SlotsOf(m, f) = {c}
    BY <1>1, <1>8 DEF Sound, Counted, Booting, Linked, Forgotten
  <2>2. At(m, c) = f /\ f # NULL
    BY <1>2, <2>1 DEF SlotsOf
  <2>3. c[1] \in Frame /\ c[2] \in Idx /\ c = <<c[1], c[2]>>
    BY <1>1, EntryIn
  <2>4. m.kind[c[1]] = "pd0"
    BY <1>1, <1>8, <2>2 DEF Sound, Levels, Below
  <2>5. c[1] = pd0
    BY <1>7, <2>3, <2>4
  <2> DEFINE la == Address(0, c[2], 0)
  <2>6. la \in La /\ PDX1(la) = 0 /\ PDX0(la) = c[2]
    BY <1>2, <2>3, Digits
  <2> HIDE DEF la
  <2>7. pt_of(m, b, la) = f
    <3>1. At(m, <<pd0, c[2]>>) = f
      BY <2>2, <2>3, <2>5
    <3>2. At(m, <<b, 0>>) = pd0 /\ pd0 # NULL
      BY <1>2, <1>5 DEF pd0
    <3> QED
      BY <2>6, <3>1, <3>2 DEF pt_of
  <2>8. PICK lb \in Idx : Under(la, lb)
    BY <1>4, <2>2, <2>6, <2>7 DEF Within
  <2>9. c[2] = 0
    BY <1>2, <2>6, <2>8 DEF Under
  <2> QED
    BY <2>2, <2>3, <2>5, <2>9 DEF pt
<1>9. ASSUME NEW f \in Frame, m.kind[f] = "page" PROVE f \in left
  <2>1. SlotsOf(m, f) # {}
    BY <1>1, <1>9, FS_EmptySet DEF Sound, Counted, Booting
  <2>2. PICK c \in Slot : At(m, c) = f /\ f # NULL
    BY <1>2, <2>1 DEF SlotsOf
  <2>3. c[1] \in Frame /\ c[2] \in Idx /\ c = <<c[1], c[2]>>
    BY <1>1, EntryIn
  <2>4. m.kind[c[1]] = "pt"
    BY <1>1, <1>9, <2>2 DEF Sound, Levels, Below
  <2>5. c[1] = pt
    BY <1>8, <2>3, <2>4
  <2> DEFINE la == c[2]
  <2>6. la \in La /\ PDX1(la) = 0 /\ PDX0(la) = 0 /\ PTX(la) = la
    BY <1>2, <2>3
  <2>7. pt_of(m, b, la) = pt
    BY <1>2, <1>5, <2>6 DEF pt_of
  <2>8. get_page(m, b, la) = f
    BY <1>2, <1>5, <2>2, <2>3, <2>5, <2>6, <2>7 DEF get_page
  <2> QED
    BY <2>2, <2>6, <2>8 DEF Mapped
<1>10. left \subseteq Frame /\ \A f \in left : m.kind[f] = "page"
  <2>1. ASSUME NEW f \in left PROVE f \in Frame /\ m.kind[f] = "page"
    <3>1. PICK la \in La : f = get_page(m, b, la) /\ f # NULL
      BY <2>1 DEF Mapped
    <3>2. PathFacts(m, b, la)
      BY <1>1, <1>2, <1>3, Path
    <3> QED
      BY <3>1, <3>2 DEF PathFacts
  <2> QED
    BY <2>1
<1>11. left = {} \/ \E p : left = {p}
  <2>1. IsFiniteSet(left)
    BY <1>10, FS_Subset, PageTableAssumption
  <2>2. Cardinality(left) = 0 \/ Cardinality(left) = 1
    <3>1. Cardinality(left) \in Nat
      BY <2>1, FS_CardinalityType
    <3> QED
      BY <1>1, <3>1
  <2> QED
    BY <2>1, <2>2, FS_EmptySet, FS_Singleton
<1> HIDE DEF left
<1>12. /\ m1 \in Memory
       /\ \A g \in Frame : /\ m1.kind[g] = IF g \in left THEN "free" ELSE m.kind[g]
                           /\ m1.ref[g] = IF g \in left THEN 0 ELSE m.ref[g]
       /\ \A e \in Slot : At(m1, e) = IF e[1] \in left THEN NULL ELSE At(m, e)
  <2>1. CASE left = {}
    BY <1>1, <2>1
  <2>2. CASE left # {}
    <3>1. PICK p : left = {p}
      BY <1>11, <2>2
    <3>2. p \in Frame /\ m1 = free_page(m, p)
      BY <1>10, <3>1
    <3> HIDE DEF m1
    <3>3. /\ m1 \in Memory
          /\ m1.kind[p] = "free" /\ m1.ref[p] = 0 /\ Others(m, m1, {p})
          /\ \A e \in Slot : At(m1, e) = IF e[1] = p THEN NULL ELSE At(m, e)
      BY <1>1, <3>2, FreeFacts
    <3> QED
      BY <3>1, <3>3 DEF Others
  <2> QED
    BY <2>1, <2>2
<1> HIDE DEF m1
<1>13. /\ m2 \in Memory /\ m2.kind[pt] = "free" /\ m2.ref[pt] = 0 /\ Others(m1, m2, {pt})
       /\ \A e \in Slot : At(m2, e) = IF e[1] = pt THEN NULL ELSE At(m1, e)
  BY <1>5, <1>12, FreeFacts
<1> HIDE DEF m2
<1>14. /\ m3 \in Memory /\ m3.kind[pd0] = "free" /\ m3.ref[pd0] = 0 /\ Others(m2, m3, {pd0})
       /\ \A e \in Slot : At(m3, e) = IF e[1] = pd0 THEN NULL ELSE At(m2, e)
  BY <1>5, <1>13, FreeFacts
<1> HIDE DEF m3
<1>15. /\ m' \in Memory /\ Points(m3, m', <<b, 0>>, NULL)
       /\ m'.kind = m3.kind /\ m'.ref = m3.ref /\ m'.data = m3.data
  <2>1. <<b, 0>> \in Slot /\ NULL \in Frame \cup {NULL}
    BY <1>2 DEF Slot
  <2> QED
    BY <1>1, <1>14, <2>1, SetEntryFacts
<1>16. ASSUME NEW e \in Slot PROVE At(m', e) = NULL
  <2>1. e[1] \in Frame /\ e[2] \in Idx /\ e = <<e[1], e[2]>> /\ At(m, e) \in Frame \cup {NULL}
    BY <1>1, EntryIn
  <2>2. SUFFICES ASSUME At(m', e) # NULL PROVE FALSE
    OBVIOUS
  <2>3. e # <<b, 0>> /\ At(m3, e) # NULL
    BY <1>15, <2>2 DEF Points
  <2>4. e[1] # pd0 /\ e[1] # pt /\ At(m, e) # NULL
    BY <1>12, <1>13, <1>14, <2>3
  <2>5. m.kind[e[1]] \in {"pgdir", "pd0", "pt"}
    BY <1>1, <2>4, Leads
  <2>6. e[1] = b
    BY <1>3, <1>7, <1>8, <2>1, <2>4, <2>5
  <2>7. e[2] = 0
    BY <1>6, <2>1, <2>4, <2>6
  <2> QED
    BY <2>1, <2>3, <2>6, <2>7
<1>17. ASSUME NEW g \in Frame
       PROVE  /\ m'.kind[g] = IF g = b THEN "pgdir" ELSE "free"
              /\ m'.kind[g] = "free" => m'.ref[g] = 0
  <2>1. m.kind[g] \in Kind
    BY <1>1, FieldTypes
  <2>2. m.kind[g] = "free" => m.ref[g] = 0
    BY <1>1 DEF Sound, Counted
  <2>3. CASE g \in left
    BY <1>3, <1>5, <1>10, <1>12, <1>13, <1>14, <1>15, <2>3 DEF Others
  <2>4. CASE g = pt \/ g = pd0
    BY <1>3, <1>5, <1>10, <1>12, <1>13, <1>14, <1>15, <2>4 DEF Others
  <2>5. CASE g \notin left /\ g # pt /\ g # pd0
    <3>1. m'.kind[g] = m.kind[g] /\ m'.ref[g] = m.ref[g]
      BY <1>12, <1>13, <1>14, <1>15, <2>5 DEF Others
    <3> QED
      BY <1>3, <1>7, <1>8, <1>9, <2>1, <2>2, <2>5, <3>1 DEF Kind
  <2> QED
    BY <2>3, <2>4, <2>5
<1>18. Sound(m')
  <2>1. Levels(m')
    BY <1>16 DEF Levels
  <2>2. Counted(m')
    BY <1>17 DEF Counted
  <2> QED
    BY <1>15, <2>1, <2>2 DEF Sound
<1>19. Within(m', b, {})
  <2>1. \A la \in La : At(m', <<b, PDX1(la)>>) = NULL
    BY <1>2, <1>16, Indices DEF Slot
  <2>2. \A la \in La : pt_of(m', b, la) = NULL
    BY <2>1 DEF pt_of
  <2>3. \A la \in La : get_page(m', b, la) = NULL
    BY <2>2 DEF get_page
  <2> QED
    BY <2>1, <2>2, <2>3 DEF Within
<1>20. Clean(m', {})
  <2>1. OnlyDirs(m', {})
    BY <1>2, <1>17 DEF OnlyDirs, b
  <2> QED
    BY <1>17, <1>19, <2>1 DEF Clean, b
<1> QED
  BY <1>1, <1>18, <1>20, IdleGood

\* The invariant is inductive.
LEMMA NextGood ==
    ASSUME TInv, [Next]_vars
    PROVE  TInv'
<1>1. CASE UNCHANGED vars
  BY <1>1 DEF vars, TInv, Working, Dirs, Dup, Unmap, Exit, Position, DupSeen, Seen, Past
<1>2. CASE \E la \in Idx : BootInsert(la) \/ page_remove(la)
  BY <1>2, BootInsertGood, PageRemoveGood
<1>3. CASE BootEnd
  BY <1>3, BootEndGood
<1>4. CASE setup_pgdir
  BY <1>4, SetupGood
<1>5. CASE \E d \in mm : copy_mm(d) \/ exit_mmap(d)
  BY <1>5, CopyMmGood, ExitMmapGood
<1>6. CASE \E d \in mm, la \in La : LoadPage(d, la)
  BY <1>6, LoadPageGood
<1>7. CASE \E d \in mm, la \in La : Fault(d, la)
  BY <1>7, FaultGood
<1>8. CASE \E d \in mm, la \in La, v \in Val : Write(d, la, v)
  BY <1>8, WriteGood
<1>9. CASE copy_range
  BY <1>9, CopyRangeGood
<1>10. CASE unmap_range
  BY <1>10, UnmapRangeGood
<1>11. CASE exit_range
  BY <1>11, ExitRangeGood
<1>12. CASE Panic
  BY <1>1, <1>12 DEF Panic
<1> QED
  BY <1>1, <1>2, <1>3, <1>4, <1>5, <1>6, <1>7, <1>8, <1>9, <1>10, <1>11, <1>12 DEF Next

\* The invariant holds throughout.
THEOREM TablesInvariant == Spec => []TInv
<1>1. Init => TInv
  BY InitGood
<1>2. TInv /\ [Next]_vars => TInv'
  BY NextGood
<1> QED
  BY <1>1, <1>2, PTL DEF Spec

\* The invariant contains that counts are exact,
LEMMA RefGood ==
    ASSUME TInv
    PROVE  RefExact
<1>1. Sound(m)
  BY DEF TInv
<1>2. \A f : Slots(f) = SlotsOf(m, f)
  BY DEF Slots, SlotsOf, Slot
<1>3. ASSUME NEW f \in Frame, m.kind[f] \in {"pd0", "pt"}
      PROVE  m.ref[f] = 1 /\ Cardinality(SlotsOf(m, f)) <= 1
  <2>1. m.ref[f] = 1 /\ (SlotsOf(m, f) = {} \/ \E c \in Slot : SlotsOf(m, f) = {c})
    BY <1>1, <1>3 DEF Sound, Counted, Forgotten
  <2>2. Cardinality(SlotsOf(m, f)) = 0 \/ Cardinality(SlotsOf(m, f)) = 1
    BY <2>1, FS_EmptySet, FS_Singleton
  <2> QED
    BY <2>1, <2>2
<1>4. \A f \in Frame : m.kind[f] \in {"free", "pgdir"} => SlotsOf(m, f) = {}
  BY <1>1, Ends
<1>5. \A f \in Frame : m.kind[f] = "page" => m.ref[f] = Cardinality(SlotsOf(m, f))
  BY <1>1 DEF Sound, Counted
<1> QED
  BY <1>2, <1>3, <1>4, <1>5 DEF RefExact

\* and that every page in use belongs to a space.
LEMMA LeakGood ==
    ASSUME TInv
    PROVE  NoLeak
<1> SUFFICES ASSUME call = Idle, NEW f \in Frame, m.kind[f] # "free"
             PROVE  Reached(f) \/ Lost(f)
  BY DEF NoLeak
<1>1. Sound(m) /\ m \in Memory /\ Clean(m, mm) /\ OnlyDirs(m, mm)
  BY IdleFacts
<1>2. m.kind[f] \in Kind
  BY <1>1, FieldTypes
<1>3. Slots(f) = SlotsOf(m, f)
  BY DEF Slots, SlotsOf, Slot
<1>4. CASE m.kind[f] = "pgdir"
  BY <1>1, <1>4 DEF OnlyDirs, Reached
<1>5. CASE m.kind[f] \in {"pd0", "pt"}
  <2>1. CASE SlotsOf(m, f) # {}
    BY <1>3, <2>1 DEF Reached
  <2>2. CASE SlotsOf(m, f) = {}
    <3>1. Hollow(m, f) /\ ~OneTableEach
      BY <1>1, <1>5, <2>2 DEF Sound, Counted, Forgotten
    <3>2. m.tab[f] \in [Idx -> Frame \cup {NULL}]
      BY <1>1, FieldTypes
    <3>3. \A i \in Idx : m.tab[f][i] = NULL
      BY <3>1 DEF Hollow, At
    <3>4. m.tab[f] = Empty
      BY <3>2, <3>3 DEF Empty
    <3> QED
      BY <1>5, <3>1, <3>4 DEF Lost
  <2> QED
    BY <2>1, <2>2
<1>6. CASE m.kind[f] = "page"
  <2>1. m.ref[f] = 1 /\ m.ref[f] = Cardinality(SlotsOf(m, f))
    BY <1>1, <1>6 DEF Sound, Counted, Clean
  <2>2. SlotsOf(m, f) # {}
    BY <2>1, FS_EmptySet
  <2> QED
    BY <1>3, <2>2 DEF Reached
<1> QED
  BY <1>2, <1>4, <1>5, <1>6 DEF Kind

\* Between any two steps of any call, Page.ref of every page is the number of entries that
\* point to it: page_insert, page_remove_pte, copy_range, unmap_range and exit_range keep the count.
THEOREM RefCorrect == Spec => []RefExact
<1>1. TInv => RefExact
  BY RefGood
<1> QED
  BY <1>1, TablesInvariant, PTL

\* When no call is in progress every frame in use is a table or page of a space that some
\* process has, or of boot_pgdir: exit_mmap returns everything that fork, load and faults took,
\* but for empty tables where OneTableEach does not hold.
THEOREM LeakCorrect == Spec => []NoLeak
<1>1. TInv => NoLeak
  BY LeakGood
<1> QED
  BY <1>1, TablesInvariant, PTL

\* FreeTable frees the table and no frame is in use that was not before.
LEMMA FreeTableFrees ==
    ASSUME NEW s \in Memory, NEW c \in Slot, At(s, c) \in Frame
    PROVE  LET u == FreeTable(s, c)
           IN  /\ u \in Memory /\ u.kind[At(s, c)] = "free"
               /\ \A g \in Frame : s.kind[g] = "free" => u.kind[g] = "free"
               /\ \A e \in Slot : e # c /\ e[1] # At(s, c) => At(u, e) = At(s, e)
<1> DEFINE t == free_page(s, At(s, c))
           u == SetEntry(t, c, NULL)
<1>1. /\ t \in Memory /\ t.kind[At(s, c)] = "free" /\ Others(s, t, {At(s, c)})
      /\ \A e \in Slot : At(t, e) = IF e[1] = At(s, c) THEN NULL ELSE At(s, e)
  BY FreeFacts
<1> HIDE DEF t
<1>2. u \in Memory /\ Points(t, u, c, NULL) /\ u.kind = t.kind
  BY <1>1, SetEntryFacts
<1> QED
  BY <1>1, <1>2 DEF FreeTable, Others, Points, t

\* exit_range frees the page table it is at.
LEMMA TableFreed ==
    ASSUME TInv, exit_range, pt_of(m, call.d, call.la) # NULL
    PROVE  m'.kind[pt_of(m, call.d, call.la)] = "free"
<1> DEFINE la == call.la
           d == call.d
           c1 == <<d, PDX1(la)>>
           pd0 == At(m, c1)
           c0 == <<pd0, PDX0(la)>>
           pt == At(m, c0)
           m1 == IF pt # NULL /\ NoneValid(m, pt) THEN FreeTable(m, c0) ELSE m
           m2 == IF call.all /\ pt # NULL THEN FreeTable(m1, c1) ELSE m1
<1>1. /\ Sound(m) /\ m \in Memory /\ la \in La /\ d \in Frame /\ m.kind[d] = "pgdir"
      /\ \A lb \in La : get_page(m, d, lb) = NULL
  BY DEF exit_range, TInv, Exit, Working, Dirs, Position, Clean, OnlyDirs, Sound
<1>2. PathFacts(m, d, la)
  BY <1>1, Path
<1>3. /\ pd0 \in Frame /\ m.kind[pd0] = "pd0" /\ c0 \in Slot /\ c1 \in Slot
      /\ pt = pt_of(m, d, la) /\ pt \in Frame /\ m.kind[pt] = "pt" /\ pd0 # NULL /\ pt # NULL
  BY <1>2 DEF PathFacts
<1>4. NoneValid(m, pt)
  BY <1>1, <1>3, EmptyTables DEF Hollow, NoneValid, At
<1>5. /\ m1 \in Memory /\ m1.kind[pt] = "free" /\ At(m1, c1) = pd0
  <2>1. m1 = FreeTable(m, c0)
    BY <1>3, <1>4
  <2>2. c1 # c0 /\ c1[1] # At(m, c0)
    BY <1>1, <1>3
  <2> QED
    BY <1>1, <1>3, <2>1, <2>2, FreeTableFrees
<1>6. m2 \in Memory /\ m2.kind[pt] = "free"
  BY <1>3, <1>5, FreeTableFrees
<1>7. \E s \in {m1, m2} : \E x, all : ExitNext(s, x, all)
  BY <1>3 DEF exit_range
<1>8. m' \in {m1, m2, free_page(m1, d), free_page(m2, d)}
  BY <1>7 DEF ExitNext
<1>9. ASSUME NEW s \in Memory, s.kind[pt] = "free"
      PROVE  free_page(s, d).kind[pt] = "free"
  <2>1. Others(s, free_page(s, d), {d}) /\ d # pt
    BY <1>1, <1>3, FreeFacts
  <2> QED
    BY <1>3, <1>9, <2>1 DEF Others
<1> QED
  BY <1>3, <1>5, <1>6, <1>8, <1>9

\* exit_range frees every page table it meets, wherever the areas are: it is empty,
\* since unmap_range has been over all areas before.
THEOREM TablesFreedCorrect == Spec => TablesFreed
<1>1. ASSUME TInv, [Next]_vars, call.op = "exit", pt_of(m, call.d, call.la) # NULL
      PROVE  m'.kind[pt_of(m, call.d, call.la)] = "free" \/ UNCHANGED vars
  <2>1. exit_range \/ UNCHANGED vars
    BY <1>1 DEF Next, BootInsert, page_remove, BootEnd, setup_pgdir, copy_mm, LoadPage, Fault, Write,
                copy_range, exit_mmap, unmap_range, Panic, Idle, Op, Call
  <2> QED
    BY <1>1, <2>1, TableFreed
<1>2. TInv /\ [Next]_vars => [LET pt == pt_of(m, call.d, call.la)
                              IN  call.op = "exit" /\ pt # NULL => m'.kind[pt] = "free"]_vars
  BY <1>1
<1> QED
  BY <1>2, TablesInvariant, PTL DEF Spec, TablesFreed

\* The frames keep what their types say: no reference count below zero, no entry that leads
\* to anything but a frame.
THEOREM TypeCorrect == Spec => []TypeOK
<1>1. TInv => TypeOK
  BY DEF TInv, TypeOK, Sound, Calls
<1> QED
  BY <1>1, TablesInvariant, PTL

----------------------------------------------------------------------------
(***************************************************************************)
(* The refinement: what the spaces show changes as UserMemory says.        *)
(***************************************************************************)

\* What the abstract memory is compared by.
Views == [d \in Frame |-> Shown(d)]
Copying == IF call.op = "dup" THEN call.from ELSE NULL

\* What a page at a in space d shows, in memory s.
Holds(s, d, a) == IF get_page(s, d, a) # NULL THEN s.data[get_page(s, d, a)] ELSE NULL

\* What a space shows is what its pages hold.
LEMMA ShownIs ==
    ASSUME NEW d \in Frame
    PROVE  /\ Shown(d) = [a \in UserLa |-> IF d \in mm THEN Holds(m, d, a) ELSE NULL]
           /\ Shown(d)' = [a \in UserLa |-> IF d \in mm' THEN Holds(m', d, a) ELSE NULL]
<1>1. Shown(d) = [a \in UserLa |-> IF d \in mm THEN Holds(m, d, a) ELSE NULL]
  BY DEF Shown, UserLa, Holds
<1>2. Shown(d)' = [a \in UserLa |-> IF d \in mm' THEN Holds(m', d, a) ELSE NULL]
  BY DEF Shown, UserLa, Holds
<1> QED
  BY <1>1, <1>2

\* The view changes only in the way f says, at the one space d.
LEMMA OneView ==
    ASSUME NEW d \in Frame, NEW f,
           \A e \in Frame : Shown(e)' = IF e = d THEN f ELSE Shown(e)
    PROVE  Views' = [Views EXCEPT ![d] = f]
<1>1. Views' = [e \in Frame |-> Shown(e)']
  BY DEF Views
<1> QED
  BY <1>1 DEF Views

\* Spaces that keep their pages show the same.
LEMMA KeepsHolds ==
    ASSUME NEW s, NEW u, NEW D, Keeps(s, u, D), NEW d \in D, NEW a \in UserLa
    PROVE  Holds(u, d, a) = Holds(s, d, a)
  BY DEF Keeps, Holds, UserLa

\* The same for all spaces at once.
LEMMA SameShown ==
    ASSUME mm' = mm, Keeps(m, m', mm)
    PROVE  Views' = Views /\ \A d \in Frame : Shown(d)' = Shown(d)
<1>1. ASSUME NEW d \in Frame PROVE Shown(d)' = Shown(d)
  BY ShownIs, KeepsHolds
<1>2. Views' = [d \in Frame |-> Shown(d)']
  BY DEF Views
<1> QED
  BY <1>1, <1>2 DEF Views

\* A step in which all spaces keep their pages is none for the abstract memory.
LEMMA Stutters ==
    ASSUME mm' = mm, Keeps(m, m', mm), Copying' = Copying
    PROVE  [Private!UNext]_(Private!uvars)
<1>1. Views' = Views
  BY SameShown
<1> QED
  BY <1>1 DEF Private!uvars, Views, Copying

\* No space exists initially.
LEMMA InitRefines ==
    ASSUME Init
    PROVE  Private!UInit
<1>1. mm = {} /\ call.op = "boot"
  BY OpFacts DEF Init
<1>2. \A d \in Frame : Shown(d) = [a \in UserLa |-> NULL]
  BY <1>1, ShownIs
<1> QED
  BY <1>1, <1>2 DEF Private!UInit, Private!Nothing, UserLa

\* The boot self-tests.
LEMMA BootRefines ==
    ASSUME TInv, call.op = "boot", mm' = {}, call'.op \in {"boot", "idle", "panic"}
    PROVE  [Private!UNext]_(Private!uvars)
<1>1. mm = {} /\ Copying = NULL /\ Copying' = NULL
  BY DEF TInv, Copying
<1>2. Keeps(m, m', mm)
  BY <1>1 DEF Keeps
<1> QED
  BY <1>1, <1>2, Stutters

\* A call that finds no free page at once.
LEMMA HaltRefines ==
    ASSUME TInv, call = Idle, Short, mm' = mm, Keeps(m, m', mm)
    PROVE  [Private!UNext]_(Private!uvars)
<1>1. call.op = "idle" /\ call'.op = "panic"
  BY OpFacts DEF Idle, Short
<1> QED
  BY <1>1, Stutters DEF Copying

\* setup_pgdir is the creation of an empty space.
LEMMA SetupRefines ==
    ASSUME TInv, setup_pgdir
    PROVE  [Private!UNext]_(Private!uvars)
<1>1. call = Idle /\ Sound(m) /\ Clean(m, mm) /\ mm \subseteq Frame /\ m \in Memory /\ call.op = "idle"
  BY IdleFacts, OpFacts DEF setup_pgdir, TInv, Idle
<1>2. CASE \E f \in alloc_page(m) : /\ m' = [m EXCEPT !.kind[f] = "pgdir"]
                                    /\ mm' = mm \cup {f} /\ UNCHANGED call
  <2>1. PICK f \in alloc_page(m) : /\ m' = [m EXCEPT !.kind[f] = "pgdir"]
                                   /\ mm' = mm \cup {f} /\ UNCHANGED call
    BY <1>2
  <2>2. f \in Free(m)
    BY DEF alloc_page
  <2>3. /\ SameEntries(m, m') /\ m'.data = m.data /\ f \in Frame \ mm
        /\ \A la \in La : get_page(m, f, la) = NULL
    BY <1>1, <2>1, <2>2, NewDir
  <2>4. \A d \in Frame, la \in La : get_page(m', d, la) = get_page(m, d, la)
    BY <1>1, <2>3, SameView
  <2>5. \A d \in Frame, a \in UserLa : Holds(m', d, a) = Holds(m, d, a)
    BY <2>3, <2>4 DEF Holds, UserLa
  <2>6. \A a \in UserLa : Holds(m, f, a) = NULL
    BY <2>3 DEF Holds, UserLa
  <2>7. ASSUME NEW d \in Frame PROVE Shown(d)' = Shown(d)
    <3>1. CASE d = f
      BY <2>1, <2>3, <2>5, <2>6, <3>1, ShownIs
    <3>2. CASE d # f
      BY <2>1, <2>5, <3>2, ShownIs
    <3> QED
      BY <3>1, <3>2
  <2>8. Views' = Views
    <3>1. Views' = [d \in Frame |-> Shown(d)']
      BY DEF Views
    <3> QED
      BY <2>7, <3>1 DEF Views
  <2>9. Copying = NULL /\ Copying' = NULL
    BY <1>1, <2>1 DEF Copying
  <2>10. Private!UCreate
    BY <2>1, <2>3, <2>8, <2>9 DEF Private!UCreate, Views, Copying
  <2> QED
    BY <2>10 DEF Private!UNext
<1>3. CASE Short /\ UNCHANGED <<m, mm>>
  <2>1. Keeps(m, m', mm)
    BY <1>3 DEF Keeps
  <2> QED
    BY <1>1, <1>3, <2>1, HaltRefines
<1> QED
  BY <1>2, <1>3 DEF setup_pgdir

\* The beginning of copy_mm is the beginning of a fork.
LEMMA CopyMmRefines ==
    ASSUME TInv, NEW from \in mm, copy_mm(from)
    PROVE  [Private!UNext]_(Private!uvars)
<1>1. /\ call = Idle /\ Sound(m) /\ Clean(m, mm) /\ mm \subseteq Frame /\ m \in Memory
      /\ call.op = "idle" /\ mm' = mm
  BY IdleFacts, OpFacts DEF copy_mm, TInv, Idle
<1> DEFINE n == Len(Areas)
<1>2. CASE \E f \in alloc_page(m) : /\ m' = [m EXCEPT !.kind[f] = "pgdir"]
                                    /\ call' = Call("dup", f, from, n, Start(n))
  <2>1. PICK f \in alloc_page(m) : /\ m' = [m EXCEPT !.kind[f] = "pgdir"]
                                   /\ call' = Call("dup", f, from, n, Start(n))
    BY <1>2
  <2>2. f \in Free(m)
    BY DEF alloc_page
  <2>3. SameEntries(m, m') /\ m'.data = m.data
    BY <1>1, <2>1, <2>2, NewDir
  <2>4. Keeps(m, m', mm)
    BY <1>1, <2>3, SameView DEF Keeps
  <2>5. Views' = Views
    BY <1>1, <2>4, SameShown
  <2>6. Copying = NULL /\ Copying' = from
    BY <1>1, <2>1 DEF Copying, Call
  <2>7. Private!UForkBegins
    BY <1>1, <2>5, <2>6 DEF Private!UForkBegins, Views, Copying
  <2> QED
    BY <2>7 DEF Private!UNext
<1>3. CASE Short /\ UNCHANGED m
  <2>1. Keeps(m, m', mm)
    BY <1>3 DEF Keeps
  <2> QED
    BY <1>1, <1>3, <2>1, HaltRefines
<1> QED
  BY <1>2, <1>3 DEF copy_mm

\* A page is mapped.
LEMMA TouchRefines ==
    ASSUME TInv, call = Idle, UNCHANGED <<mm, call>>, NEW d \in mm, NEW la \in UserLa,
           get_page(m, d, la) = NULL, NEW p, NewPage(m, m', p), Maps(m, m', d, la, p)
    PROVE  [Private!UNext]_(Private!uvars)
<1>1. /\ Sound(m) /\ OnlyDirs(m, mm) /\ mm \subseteq Frame /\ call.op = "idle" /\ call'.op = "idle"
      /\ UserLa \subseteq La
  BY IdleFacts, OpFacts, Members DEF TInv, Idle
<1>2. p \in Frame /\ p # NULL /\ m.kind[p] = "free" /\ m'.data[p] \in Val
  BY PageTableAssumption DEF NewPage
<1>3. ASSUME NEW e \in mm, NEW a \in UserLa
      PROVE  Holds(m', e, a) = IF e = d /\ a = la THEN m'.data[p] ELSE Holds(m, e, a)
  <2>1. e \in Frame /\ m.kind[e] = "pgdir" /\ a \in La
    BY <1>1 DEF OnlyDirs
  <2>2. get_page(m', e, a) = IF e = d /\ a = la THEN p ELSE get_page(m, e, a)
    BY <2>1 DEF Maps
  <2>3. PathFacts(m, e, a)
    BY <1>1, <2>1, Path
  <2>4. get_page(m, e, a) # NULL => m'.data[get_page(m, e, a)] = m.data[get_page(m, e, a)]
    BY <1>2, <2>3 DEF PathFacts, NewPage
  <2> QED
    BY <1>2, <2>2, <2>4 DEF Holds
<1>4. ASSUME NEW e \in Frame
      PROVE  Shown(e)' = IF e = d THEN [Shown(d) EXCEPT ![la] = m'.data[p]] ELSE Shown(e)
  <2>1. CASE e = d
    BY <1>3, <2>1, ShownIs
  <2>2. CASE e # d
    BY <1>3, <2>2, ShownIs
  <2> QED
    BY <2>1, <2>2
<1>5. d \in Frame
  BY <1>1
<1>6. Views' = [Views EXCEPT ![d] = [Views[d] EXCEPT ![la] = m'.data[p]]]
  <2>1. Views[d] = Shown(d)
    BY <1>5 DEF Views
  <2> QED
    BY <1>4, <1>5, <2>1, OneView
<1>7. Views[d] = [a \in UserLa |-> Holds(m, d, a)]
  BY <1>5, ShownIs DEF Views
<1>8. Views[d][la] = NULL /\ Views'[d][la] = m'.data[p]
  <2>1. Views[d][la] = NULL
    BY <1>7 DEF Holds
  <2>2. d \in DOMAIN Views /\ la \in DOMAIN Views[d]
    BY <1>5, <1>7 DEF Views
  <2> QED
    BY <1>6, <2>1, <2>2
<1>9. Copying = NULL /\ Copying' = NULL
  BY <1>1 DEF Copying
<1>10. Private!UTouch
  <2>1. Views' = [Views EXCEPT ![d][la] = Views'[d][la]]
    BY <1>6, <1>8
  <2> QED
    BY <1>2, <1>8, <1>9, <2>1 DEF Private!UTouch, Views, Copying, UserLa
<1> QED
  BY <1>10 DEF Private!UNext

\* A page mapped by load_icode or a fault is the abstract mapping.
LEMMA MapRefines ==
    ASSUME TInv, NEW d \in mm, NEW la \in La, LoadPage(d, la) \/ Fault(d, la)
    PROVE  [Private!UNext]_(Private!uvars)
<1>1. /\ call = Idle /\ Sound(m) /\ OnlyDirs(m, mm) /\ mm \subseteq Frame
      /\ mm' = mm /\ la \in UserLa /\ get_page(m, d, la) = NULL
  BY IdleFacts DEF LoadPage, Fault, TInv, UserLa
<1>2. d \in Frame /\ m.kind[d] = "pgdir" /\ mm \subseteq Directories(m)
  BY <1>1 DEF OnlyDirs, Directories
<1>3. PICK r \in pgdir_alloc_page(m, d, la) \cup do_pgfault(m, d, la) :
        m' = r.s /\ IF r.ok THEN UNCHANGED call ELSE Short
  BY DEF LoadPage, Fault
<1>4. /\ r.ok \in BOOLEAN
      /\ ~r.ok => Keeps(m, r.s, Directories(m))
      /\ r.ok => \E p : NewPage(m, r.s, p) /\ Maps(m, r.s, d, la, p)
  <2>1. CASE r \in pgdir_alloc_page(m, d, la)
    BY <1>1, <1>2, <2>1, AllocPage
  <2>2. CASE r \in do_pgfault(m, d, la)
    BY <1>1, <1>2, <2>2, FaultPage
  <2> QED
    BY <2>1, <2>2
<1>5. CASE r.ok
  <2>1. PICK p : NewPage(m, m', p) /\ Maps(m, m', d, la, p)
    BY <1>3, <1>4, <1>5
  <2>2. UNCHANGED <<mm, call>>
    BY <1>1, <1>3, <1>5
  <2> QED
    BY <1>1, <2>1, <2>2, TouchRefines
<1>6. CASE ~r.ok
  <2>1. Keeps(m, m', mm) /\ Short
    BY <1>2, <1>3, <1>4, <1>6 DEF Keeps
  <2> QED
    BY <1>1, <2>1, HaltRefines
<1> QED
  BY <1>4, <1>5, <1>6

\* A write is a write.
LEMMA WriteRefines ==
    ASSUME TInv, NEW d \in mm, NEW la \in La, NEW v \in Val, Write(d, la, v)
    PROVE  [Private!UNext]_(Private!uvars)
<1>1. /\ call = Idle /\ Sound(m) /\ Clean(m, mm) /\ OnlyDirs(m, mm) /\ mm \subseteq Frame
      /\ mm' = mm /\ call' = call /\ la \in UserLa /\ get_page(m, d, la) # NULL
      /\ call.op = "idle" /\ NULL \notin Val
  BY IdleFacts, OpFacts, PageTableAssumption DEF Write, TInv, UserLa, Idle
<1> DEFINE p == get_page(m, d, la)
<1>2. d \in Frame /\ m.kind[d] = "pgdir"
  BY <1>1 DEF OnlyDirs
<1>3. p \in Frame /\ m.kind[p] = "page" /\ m.ref[p] = 1 /\ m.data[p] \in Val
  <2>1. p \in Frame /\ m.kind[p] = "page"
    BY <1>1, <1>2, Path DEF PathFacts
  <2> HIDE DEF p
  <2> QED
    BY <1>1, <2>1 DEF Clean
<1>4. m' = [m EXCEPT !.data[p] = v]
  BY DEF Write
<1>5. /\ SameEntries(m, m') /\ m'.data[p] = v
      /\ \A g \in Frame \ {p} : m'.data[g] = m.data[g]
  <2> HIDE DEF p
  <2> QED
    BY <1>1, <1>3, <1>4, CleanWrite
<1>6. ASSUME NEW e \in mm, NEW a \in UserLa
      PROVE  Holds(m', e, a) = IF e = d /\ a = la THEN v ELSE Holds(m, e, a)
  <2>1. e \in Frame /\ m.kind[e] = "pgdir" /\ a \in La
    BY <1>1 DEF OnlyDirs, UserLa
  <2>2. get_page(m', e, a) = get_page(m, e, a)
    BY <1>1, <1>5, <2>1, SameView DEF Sound
  <2>3. get_page(m, e, a) # NULL => get_page(m, e, a) \in Frame
    BY <1>1, <2>1, Path DEF PathFacts
  <2>4. get_page(m, e, a) = p => e = d /\ a = la
    <3>1. SUFFICES ASSUME get_page(m, e, a) = p PROVE e = d /\ a = la
      OBVIOUS
    <3> QED
      BY <1>1, <1>2, <1>3, <2>1, <3>1, OnePage
  <2>5. CASE e = d /\ a = la
    BY <1>1, <1>5, <2>2, <2>5 DEF Holds
  <2>6. CASE ~(e = d /\ a = la)
    BY <1>5, <2>2, <2>3, <2>4, <2>6 DEF Holds
  <2> QED
    BY <2>5, <2>6
<1>7. Holds(m, d, la) = m.data[p]
  BY <1>1 DEF Holds
<1> HIDE DEF p
<1>8. Copying = NULL /\ Copying' = NULL
  BY <1>1 DEF Copying
<1>9. Views[d] = [a \in UserLa |-> Holds(m, d, a)] /\ Views[d] = Shown(d)
  BY <1>2, ShownIs DEF Views
<1>10. ASSUME NEW e \in Frame
       PROVE  Shown(e)' = IF e = d THEN [Shown(d) EXCEPT ![la] = v] ELSE Shown(e)
  <2>1. CASE e = d
    BY <1>1, <1>6, <2>1, ShownIs
  <2>2. CASE e # d
    BY <1>1, <1>6, <2>2, ShownIs
  <2> QED
    BY <2>1, <2>2
<1>11. Views' = [Views EXCEPT ![d] = [Views[d] EXCEPT ![la] = v]]
  BY <1>2, <1>9, <1>10, OneView
<1>12. d \in DOMAIN Views /\ la \in DOMAIN Views[d] /\ Views[d][la] = m.data[p]
  BY <1>1, <1>2, <1>7, <1>9 DEF Views
<1>13. Views'[d][la] = v /\ Views' = [Views EXCEPT ![d][la] = v]
  BY <1>11, <1>12
<1>14. CASE v = m.data[p]
  <2>1. Shown(d) = [Shown(d) EXCEPT ![la] = v]
    BY <1>9, <1>12, <1>14
  <2>2. \A e \in Frame : Shown(e)' = Shown(e)
    BY <1>10, <2>1
  <2>3. Views' = Views
    <3>1. Views' = [e \in Frame |-> Shown(e)']
      BY DEF Views
    <3> QED
      BY <2>2, <3>1 DEF Views
  <2> QED
    BY <1>1, <1>8, <2>3 DEF Private!uvars, Views, Copying
<1>15. CASE v # m.data[p]
  <2>1. v \in Val \ {Views[d][la]} /\ Views[d][la] \in Val
    BY <1>3, <1>12, <1>15
  <2>2. Private!UWrite
    BY <1>1, <1>8, <1>13, <2>1 DEF Private!UWrite, Views, Copying, UserLa
  <2> QED
    BY <2>2 DEF Private!UNext
<1> QED
  BY <1>14, <1>15

\* dup_mmap shows nothing before its last page is copied, and then all of it.
LEMMA CopyRangeRefines ==
    ASSUME TInv, copy_range
    PROVE  [Private!UNext]_(Private!uvars)
<1> DEFINE d == call.d
           from == call.from
<1>1. /\ call.op = "dup" /\ (Halts \/ \E x : DupStep(x)) /\ Position /\ Sound(m) /\ Clean(m, Dirs)
      /\ from \in mm /\ d \notin mm /\ mm \subseteq Frame /\ d \in Dirs
      /\ call \in Calls /\ from \in Frame /\ NULL \notin Frame
  BY CopyRangeSteps, PageTableAssumption DEF TInv, Dup, Working, Dirs
<1>2. Copying = from /\ Copying # NULL
  BY <1>1 DEF Copying
<1>3. CASE Halts
  <2>1. mm' = mm /\ Keeps(m, m', mm) /\ call'.op = "panic"
    BY <1>3, OpFacts DEF Halts, Short
  <2>2. Views' = Views /\ Copying' = NULL
    BY <2>1, SameShown DEF Copying
  <2>3. Private!UForkFails
    BY <1>2, <2>1, <2>2 DEF Private!UForkFails, Views, Copying
  <2> QED
    BY <2>3 DEF Private!UNext
<1>4. ASSUME NEW x, DupStep(x)
      PROVE  [Private!UNext]_(Private!uvars)
  <2>1. /\ DupNext(x) /\ Keeps(m, m', mm) /\ x \in Nat
        /\ \A la \in La :
             LET page == get_page(m', from, la)
                 npage == get_page(m', d, la)
             IN  IF (DupSeen(la) \/ InStep(x, la)) /\ page # NULL
                 THEN npage # NULL /\ m'.data[npage] = m'.data[page]
                 ELSE npage = NULL
    BY <1>4 DEF DupStep
  <2>2. CASE mm' = mm /\ call'.op = "dup" /\ call'.from = from
    <3>1. Copying' = Copying
      BY <1>1, <2>2 DEF Copying
    <3> QED
      BY <2>1, <2>2, <3>1, Stutters
  <2>3. CASE x >= End(call.k) /\ ~(call.k > 1) /\ call' = Idle /\ mm' = mm \cup {d}
    <3>1. d \in Frame
      BY <1>1 DEF Clean, OnlyDirs
    <3>2. \A e \in mm, a \in UserLa : Holds(m', e, a) = Holds(m, e, a)
      BY <2>1, KeepsHolds
    <3>3. /\ call.k \in 1 .. Len(Areas) /\ Len(Areas) \in Nat /\ call.la \in Nat
          /\ End(call.k) \in Nat /\ Start(call.k) \in Nat
      BY <1>1, AreaFacts DEF Position, Calls
    <3>4. ASSUME NEW a \in UserLa PROVE Holds(m', d, a) = Holds(m, from, a)
      <4>1. a \in La /\ a \in Nat
        BY AreaFacts DEF UserLa, La
      <4>2. PICK j \in 1 .. Len(Areas) : In(j, a)
        BY DEF UserLa, InArea, In
      <4>3. CASE j > call.k
        <5>1. DupSeen(a)
          BY <4>2, <4>3 DEF DupSeen
        <5> QED
          BY <2>1, <3>2, <4>1, <5>1, <1>1 DEF Holds
      <4>4. CASE j = call.k
        <5>1. Past(a) \/ InStep(x, a)
          BY <2>1, <2>3, <3>3, <4>1, <4>2, <4>4 DEF In, Past, InStep
        <5>2. DupSeen(a) \/ InStep(x, a)
          BY <5>1 DEF DupSeen
        <5> QED
          BY <2>1, <3>2, <4>1, <5>2, <1>1 DEF Holds
      <4> QED
        BY <2>3, <3>3, <4>3, <4>4
    <3>5. ASSUME NEW e \in Frame
          PROVE  Shown(e)' = IF e = d THEN Shown(from) ELSE Shown(e)
      <4>1. CASE e = d
        BY <1>1, <2>3, <3>4, <4>1, ShownIs
      <4>2. CASE e # d
        BY <2>3, <3>2, <4>2, ShownIs
      <4> QED
        BY <4>1, <4>2
    <3>6. Views' = [Views EXCEPT ![d] = Views[from]]
      <4>1. Views[from] = Shown(from)
        BY <1>1 DEF Views
      <4> QED
        BY <3>1, <3>5, <4>1, OneView
    <3>7. Copying' = NULL
      BY <2>3, OpFacts DEF Copying, Idle
    <3>8. Private!UFork
      BY <1>1, <1>2, <2>3, <3>1, <3>6, <3>7 DEF Private!UFork, Views, Copying
    <3> QED
      BY <3>8 DEF Private!UNext
  <2>4. call.k \in Nat /\ End(call.k) \in Nat
    BY <1>1, AreaFacts DEF Position
  <2>5. \/ mm' = mm /\ call' = [call EXCEPT !.la = x]
        \/ mm' = mm /\ call' = [call EXCEPT !.k = call.k - 1, !.la = Start(call.k - 1)]
        \/ x >= End(call.k) /\ ~(call.k > 1) /\ call' = Idle /\ mm' = mm \cup {d}
    BY <2>1, <2>4 DEF DupNext
  <2>6. \/ mm' = mm /\ call'.op = "dup" /\ call'.from = from
        \/ x >= End(call.k) /\ ~(call.k > 1) /\ call' = Idle /\ mm' = mm \cup {d}
    BY <1>1, <2>5 DEF Calls
  <2> QED
    BY <2>2, <2>3, <2>6
<1> QED
  BY <1>1, <1>3, <1>4

\* The beginning of exit_mmap drops the space at once.
LEMMA ExitMmapRefines ==
    ASSUME TInv, NEW d \in mm, exit_mmap(d)
    PROVE  [Private!UNext]_(Private!uvars)
<1>1. /\ call.op = "idle" /\ mm \subseteq Frame /\ mm' = mm \ {d} /\ m' = m
      /\ call' = Call("unmap", d, NULL, 1, Start(1)) /\ d \in Frame
  BY OpFacts DEF exit_mmap, TInv, Idle
<1>2. Copying = NULL /\ Copying' = NULL
  BY <1>1 DEF Copying, Call
<1>3. ASSUME NEW e \in Frame
      PROVE  Shown(e)' = IF e = d THEN Private!Nothing ELSE Shown(e)
  <2>1. CASE e = d
    BY <1>1, <2>1, ShownIs DEF Private!Nothing, UserLa
  <2>2. CASE e # d
    BY <1>1, <2>2, ShownIs
  <2> QED
    BY <2>1, <2>2
<1>4. Views' = [Views EXCEPT ![d] = Private!Nothing]
  BY <1>1, <1>3, OneView
<1>5. Private!UExit
  BY <1>1, <1>2, <1>4 DEF Private!UExit, Views, Copying
<1> QED
  BY <1>5 DEF Private!UNext

\* unmap_range is not visible: the space is gone already.
LEMMA UnmapRangeRefines ==
    ASSUME TInv, unmap_range
    PROVE  [Private!UNext]_(Private!uvars)
<1>1. /\ call.op = "unmap" /\ call \in Calls /\ Sound(m) /\ Clean(m, Dirs) /\ mm' = mm
      /\ call.d \notin mm /\ Dirs = mm \cup {call.d} /\ Position
  BY DEF unmap_range, TInv, Unmap, Working, Dirs
<1>2. call.la \in La
  BY <1>1 DEF Position
<1>3. Keeps(m, m', mm)
  <2>1. CASE m' = m
    BY <2>1 DEF Keeps
  <2>2. CASE /\ pt_of(m, call.d, call.la) # NULL
             /\ m' = page_remove_pte(m, <<pt_of(m, call.d, call.la), PTX(call.la)>>)
    <3>1. Dirs \ {call.d} = mm /\ call.d \in Dirs
      BY <1>1
    <3>2. Keeps(m, m', Dirs \ {call.d})
      BY <1>1, <1>2, <2>2, <3>1, CleanRemove
    <3> QED
      BY <3>1, <3>2
  <2> QED
    BY <2>1, <2>2 DEF unmap_range
<1>4. \A x : UnmapNext(x).op \in {"unmap", "exit"}
  BY <1>1 DEF UnmapNext, Calls, Call
<1>5. call'.op \in {"unmap", "exit"}
  BY <1>4 DEF unmap_range
<1>6. Copying = NULL /\ Copying' = NULL
  BY <1>1, <1>5 DEF Copying
<1> QED
  BY <1>1, <1>3, <1>6, Stutters

\* Nor is exit_range.
LEMMA ExitRangeRefines ==
    ASSUME TInv, exit_range
    PROVE  [Private!UNext]_(Private!uvars)
<1>1. call.op = "exit" /\ call \in Calls /\ mm' = mm /\ Keeps(m, m', mm)
  BY ExitRangeGood DEF TInv, exit_range
<1>2. \A s, x, all : ExitNext(s, x, all) => call'.op \in {"exit", "idle"}
  <2>1. Idle.op = "idle"
    BY OpFacts DEF Idle
  <2> QED
    BY <1>1, <2>1 DEF ExitNext, Calls
<1>3. call'.op \in {"exit", "idle"}
  BY <1>2 DEF exit_range
<1>4. Copying = NULL /\ Copying' = NULL
  BY <1>1, <1>3 DEF Copying
<1> QED
  BY <1>1, <1>4, Stutters

\* Every step is one of the abstract memory, or not visible.
LEMMA NextRefines ==
    ASSUME TInv, [Next]_vars
    PROVE  [Private!UNext]_(Private!uvars)
<1>1. CASE UNCHANGED vars
  <2>1. Keeps(m, m', mm) /\ Copying' = Copying /\ mm' = mm
    BY <1>1 DEF vars, Keeps, Copying
  <2> QED
    BY <2>1, Stutters
<1>2. CASE (\E la \in Idx : BootInsert(la) \/ page_remove(la)) \/ BootEnd
  <2>1. call.op = "boot" /\ mm' = mm /\ mm = {} /\ (call' = call \/ Short \/ call' = Idle)
    BY <1>2 DEF BootInsert, page_remove, BootEnd, TInv
  <2>2. call'.op \in {"boot", "idle", "panic"}
    BY <2>1, OpFacts DEF Short, Idle
  <2> QED
    BY <2>1, <2>2, BootRefines
<1>3. CASE setup_pgdir
  BY <1>3, SetupRefines
<1>4. CASE \E d \in mm : copy_mm(d) \/ exit_mmap(d)
  BY <1>4, CopyMmRefines, ExitMmapRefines
<1>5. CASE \E d \in mm, la \in La : LoadPage(d, la) \/ Fault(d, la)
  BY <1>5, MapRefines
<1>6. CASE \E d \in mm, la \in La, v \in Val : Write(d, la, v)
  BY <1>6, WriteRefines
<1>7. CASE copy_range
  BY <1>7, CopyRangeRefines
<1>8. CASE unmap_range
  BY <1>8, UnmapRangeRefines
<1>9. CASE exit_range
  BY <1>9, ExitRangeRefines
<1>10. CASE Panic
  BY <1>1, <1>10 DEF Panic
<1> QED
  BY <1>1, <1>2, <1>3, <1>4, <1>5, <1>6, <1>7, <1>8, <1>9, <1>10 DEF Next

\* The memory of a process is its own: a write is seen in its space only, fork gives the child
\* a copy of what the parent has at that moment, and no other step of the kernel, in whatever order
\* tables are made, shared and freed, changes what any space shows.
THEOREM PrivateMemoryHolds == Spec => PrivateMemory
<1>1. Init => Private!UInit
  BY InitRefines
<1>2. TInv /\ [Next]_vars => [Private!UNext]_(Private!uvars)
  BY NextRefines
<1> QED
  BY <1>1, <1>2, TablesInvariant, PTL DEF Spec, PrivateMemory, Private!USpec
=============================================================================
