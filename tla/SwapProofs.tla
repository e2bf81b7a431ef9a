------------------------------ MODULE SwapProofs ------------------------------
(***************************************************************************)
(* Proofs about Swap, for any number of frames, pages and slots: the queue *)
(* of the FIFO manager stays in step with the page table, so that an       *)
(* access panics only over a page beyond the device, and demand paging     *)
(* implements the cache of FifoCache.                                      *)
(***************************************************************************)
EXTENDS Swap, SequenceTheorems, FiniteSetTheorems, WellFoundedInduction, TLAPS

\* A valid entry and a frame in the queue belong together, page by page: the
\* queue holds the frames in use, each once, and pra_vaddr leads back to the entry.
Linked(t) ==
    /\ \A f \in Frame : f \notin t.free <=> \E i \in 1 .. Len(t.queue) : t.queue[i] = f
    /\ \A i, j \in 1 .. Len(t.queue) : t.queue[i] = t.queue[j] => i = j
    /\ \A v \in VPage : t.page[v] # NULL =>
          t.page[v] \notin t.free /\ t.pra_vaddr[t.page[v]] = v
    /\ \A f \in Frame \ t.free : t.pra_vaddr[f] \in VPage /\ t.page[t.pra_vaddr[f]] = f

\* A swap entry names the slot of its page, which the device has.
Slotted(t) == \A v \in VPage : t.slot[v] # 0 =>
    t.slot[v] = Entry(v) /\ GoodOffset(t.slot[v]) /\ t.page[v] = NULL

Good(t) == t \in State /\ Linked(t) /\ Slotted(t)

\* The inductive invariant.
IInv == Good(s) /\ panic \in BOOLEAN /\ OnlyOffDevice

----------------------------------------------------------------------------
\* The fields of the state have their types.
LEMMA StateFields ==
    ASSUME NEW t \in State
    PROVE  /\ t.page \in [VPage -> Frame \cup {NULL}] /\ t.slot \in [VPage -> Nat]
           /\ t.data \in [Frame -> Val] /\ t.free \in SUBSET Frame
           /\ t.queue \in Seq(Frame) /\ t.pra_vaddr \in [Frame -> VPage \cup {NULL}]
           /\ t.disk \in [Slot -> Val] /\ t.pgfault_num \in Nat
  BY DEF State

\* A state is given by its fields.
LEMMA StateOfFields ==
    ASSUME NEW t,
           t = [page |-> t.page, slot |-> t.slot, data |-> t.data, free |-> t.free,
                queue |-> t.queue, pra_vaddr |-> t.pra_vaddr, disk |-> t.disk,
                pgfault_num |-> t.pgfault_num],
           t.page \in [VPage -> Frame \cup {NULL}], t.slot \in [VPage -> Nat],
           t.data \in [Frame -> Val], t.free \in SUBSET Frame,
           t.queue \in Seq(Frame), t.pra_vaddr \in [Frame -> VPage \cup {NULL}],
           t.disk \in [Slot -> Val], t.pgfault_num \in Nat
    PROVE  t \in State
  BY DEF State

\* What swap_out does to the fields when it does not panic.
LEMMA SwapOutFields ==
    ASSUME NEW t, Good(t), t.free = {}, ~SwapOutPanics(t)
    PROVE  LET f == Head(t.queue)
               v == t.pra_vaddr[f]
               u == swap_out(t)
           IN  /\ t.queue # <<>> /\ f = t.queue[1] /\ f \in Frame /\ v \in VPage /\ t.page[v] = f
               /\ Entry(v) \in Slot /\ GoodOffset(Entry(v))
               /\ u \in State
               /\ u.page = [t.page EXCEPT ![v] = NULL] /\ u.slot = [t.slot EXCEPT ![v] = Entry(v)]
               /\ u.data = t.data /\ u.free = {f} /\ u.queue = Tail(t.queue)
               /\ u.pra_vaddr = t.pra_vaddr
               /\ u.disk = [t.disk EXCEPT ![Entry(v)] = t.data[f]]
               /\ u.pgfault_num = t.pgfault_num
<1> USE SwapAssumption
<1> DEFINE f == Head(t.queue)
           v == t.pra_vaddr[f]
           u == swap_out(t)
<1>1. /\ t \in State /\ t.queue \in Seq(Frame) /\ t.queue # <<>>
  BY StateFields DEF Good, SwapOutPanics
<1>2. f = t.queue[1] /\ f \in Frame /\ Tail(t.queue) \in Seq(Frame) /\ Len(t.queue) >= 1
  BY <1>1, HeadTailProperties, LenProperties, EmptySeq
<1>3. v \in VPage /\ t.page[v] = f
  BY <1>2 DEF Good, Linked
<1>4. Entry(v) \in Slot /\ GoodOffset(Entry(v)) /\ Entry(v) \in Nat
  <2>1. GoodOffset(Entry(v))
    BY DEF SwapOutPanics
  <2>2. v \in Nat
    BY <1>3
  <2> HIDE DEF v
  <2> QED BY <2>1, <2>2 DEF GoodOffset, Entry, Slot
<1>5. u = [t EXCEPT !.queue = Tail(@), !.disk[Entry(v)] = t.data[f],
                    !.page[v] = NULL, !.slot[v] = Entry(v), !.free = @ \cup {f}]
  BY DEF swap_out
<1> HIDE DEF f, v, u
<1>6. /\ u.page = [t.page EXCEPT ![v] = NULL] /\ u.slot = [t.slot EXCEPT ![v] = Entry(v)]
      /\ u.data = t.data /\ u.free = t.free \cup {f} /\ u.queue = Tail(t.queue)
      /\ u.pra_vaddr = t.pra_vaddr
      /\ u.disk = [t.disk EXCEPT ![Entry(v)] = t.data[f]]
      /\ u.pgfault_num = t.pgfault_num
  BY <1>1, <1>5 DEF State
<1>7. u = [page |-> u.page, slot |-> u.slot, data |-> u.data, free |-> u.free,
           queue |-> u.queue, pra_vaddr |-> u.pra_vaddr, disk |-> u.disk,
           pgfault_num |-> u.pgfault_num]
  BY <1>1, <1>5 DEF State
<1>8. u \in State
  <2>1. u.page \in [VPage -> Frame \cup {NULL}] /\ u.slot \in [VPage -> Nat]
    BY <1>1, <1>3, <1>4, <1>6, StateFields
  <2>2. t.data[f] \in Val
    BY <1>1, <1>2, StateFields
  <2>3. u.disk \in [Slot -> Val] /\ u.data \in [Frame -> Val] /\ u.free \in SUBSET Frame
    BY <1>1, <1>2, <1>4, <1>6, <2>2, StateFields
  <2>4. /\ u.queue \in Seq(Frame) /\ u.pra_vaddr \in [Frame -> VPage \cup {NULL}]
        /\ u.pgfault_num \in Nat
    BY <1>1, <1>2, <1>6, StateFields
  <2> QED BY <1>7, <2>1, <2>3, <2>4, StateOfFields
<1> QED BY <1>1, <1>2, <1>3, <1>4, <1>6, <1>8 DEF f, v, u

\* swap_out keeps queue and page table in step, every page holds what it held, and
\* the oldest page is gone.
LEMMA SwapOutGood ==
    ASSUME NEW t, Good(t), t.free = {}, ~SwapOutPanics(t)
    PROVE  LET u == swap_out(t)
           IN  /\ Good(u)
               /\ u.free # {} /\ u.pgfault_num = t.pgfault_num
               /\ t.queue # <<>> /\ u.queue = Tail(t.queue) /\ u.pra_vaddr = t.pra_vaddr
               /\ \A w \in VPage : Holds(u, w) = Holds(t, w)
               /\ \A w \in VPage : t.page[w] = NULL => u.page[w] = NULL /\ u.slot[w] = t.slot[w]
<1> USE SwapAssumption
<1> DEFINE f == Head(t.queue)
           v == t.pra_vaddr[f]
           u == swap_out(t)
           n == Len(t.queue)
<1>1. /\ t.queue # <<>> /\ f = t.queue[1] /\ f \in Frame /\ v \in VPage /\ t.page[v] = f
      /\ Entry(v) \in Slot /\ GoodOffset(Entry(v))
      /\ u \in State
      /\ u.page = [t.page EXCEPT ![v] = NULL] /\ u.slot = [t.slot EXCEPT ![v] = Entry(v)]
      /\ u.data = t.data /\ u.free = {f} /\ u.queue = Tail(t.queue)
      /\ u.pra_vaddr = t.pra_vaddr
      /\ u.disk = [t.disk EXCEPT ![Entry(v)] = t.data[f]]
      /\ u.pgfault_num = t.pgfault_num
  BY SwapOutFields
<1>2. /\ t.page \in [VPage -> Frame \cup {NULL}] /\ t.slot \in [VPage -> Nat]
      /\ t.disk \in [Slot -> Val] /\ t.queue \in Seq(Frame)
  BY StateFields DEF Good
<1> HIDE DEF f, v, u
<1>3. /\ n \in Nat /\ n >= 1 /\ Len(u.queue) = n - 1
      /\ \A i \in 1 .. n - 1 : u.queue[i] = t.queue[i + 1]
      /\ \A i \in 1 .. n : t.queue[i] \in Frame
  BY <1>1, <1>2, HeadTailProperties, LenProperties, EmptySeq, ElementOfSeq
<1> HIDE DEF n
<1>l. Linked(t) /\ Slotted(t)
  BY DEF Good
<1>4. Linked(u)
  <2>1. ASSUME NEW g \in Frame
        PROVE  g \notin u.free <=> \E i \in 1 .. Len(u.queue) : u.queue[i] = g
    <3>1. ASSUME g # f PROVE \E i \in 1 .. n - 1 : u.queue[i] = g
      <4>1. PICK i \in 1 .. n : t.queue[i] = g
        BY <1>l DEF Linked, n
      <4>2. i # 1
        BY <1>1, <3>1, <4>1
      <4>3. i - 1 \in 1 .. n - 1 /\ u.queue[i - 1] = t.queue[i]
        BY <1>3, <4>2
      <4> QED BY <4>1, <4>3
    <3>2. ASSUME NEW i \in 1 .. n - 1 PROVE u.queue[i] # f
      <4>1. u.queue[i] = t.queue[i + 1] /\ i + 1 \in 1 .. n /\ 1 \in 1 .. n /\ i + 1 # 1
        BY <1>3, <3>2
      <4> QED BY <1>1, <1>l, <4>1 DEF Linked, n
    <3> QED BY <1>1, <1>3, <3>1, <3>2
  <2>2. \A i, j \in 1 .. Len(u.queue) : u.queue[i] = u.queue[j] => i = j
    <3> SUFFICES ASSUME NEW i \in 1 .. n - 1, NEW j \in 1 .. n - 1, u.queue[i] = u.queue[j]
                 PROVE  i = j
      BY <1>3
    <3>1. i + 1 \in 1 .. n /\ j + 1 \in 1 .. n /\ t.queue[i + 1] = t.queue[j + 1]
      BY <1>3
    <3>2. i + 1 = j + 1
      BY <1>l, <3>1 DEF Linked, n
    <3> QED BY <3>2
  <2>3. ASSUME NEW w \in VPage, u.page[w] # NULL
        PROVE  u.page[w] \notin u.free /\ u.pra_vaddr[u.page[w]] = w
    <3>1. w # v /\ u.page[w] = t.page[w]
      BY <1>1, <1>2, <2>3
    <3>2. t.pra_vaddr[t.page[w]] = w /\ t.pra_vaddr[f] = v
      BY <1>l, <2>3, <3>1 DEF Linked, v
    <3> QED BY <1>1, <3>1, <3>2
  <2>4. ASSUME NEW g \in Frame \ u.free
        PROVE  u.pra_vaddr[g] \in VPage /\ u.page[u.pra_vaddr[g]] = g
    <3>1. g # f /\ t.pra_vaddr[g] \in VPage /\ t.page[t.pra_vaddr[g]] = g
      BY <1>1, <1>l DEF Linked
    <3>2. t.pra_vaddr[g] # v
      BY <1>1, <3>1
    <3> QED BY <1>1, <1>2, <3>1, <3>2
  <2> QED BY <2>1, <2>2, <2>3, <2>4 DEF Linked
<1>5. Slotted(u)
  <2> SUFFICES ASSUME NEW w \in VPage, u.slot[w] # 0
               PROVE  u.slot[w] = Entry(w) /\ GoodOffset(u.slot[w]) /\ u.page[w] = NULL
    BY DEF Slotted
  <2>1. CASE w = v
    BY <1>1, <1>2, <2>1
  <2>2. CASE w # v
    BY <1>1, <1>2, <1>l, <2>2 DEF Slotted
  <2> QED BY <2>1, <2>2
<1>6. ASSUME NEW w \in VPage PROVE Holds(u, w) = Holds(t, w)
  <2>1. CASE w = v
    <3>1. u.page[w] = NULL /\ u.slot[w] = Entry(v) /\ u.disk[Entry(v)] = t.data[f]
      BY <1>1, <1>2, <2>1
    <3>2. Entry(v) # 0 /\ t.page[w] = f /\ f # NULL
      BY <1>1, <2>1 DEF GoodOffset
    <3> QED BY <3>1, <3>2 DEF Holds
  <2>2. CASE w # v
    <3>1. u.page[w] = t.page[w] /\ u.slot[w] = t.slot[w] /\ u.data = t.data
      BY <1>1, <1>2, <2>2
    <3>2. ASSUME t.slot[w] # 0 PROVE u.disk[t.slot[w]] = t.disk[t.slot[w]]
      <4>1. t.slot[w] = Entry(w) /\ Entry(w) # Entry(v)
        BY <1>1, <1>l, <2>2, <3>2 DEF Slotted, Entry
      <4> QED BY <1>1, <4>1
    <3> QED BY <3>1, <3>2 DEF Holds
  <2> QED BY <2>1, <2>2
<1>7. ASSUME NEW w \in VPage, t.page[w] = NULL
      PROVE  u.page[w] = NULL /\ u.slot[w] = t.slot[w]
  <2>1. w # v
    BY <1>1, <1>7
  <2> QED BY <1>1, <1>2, <1>7, <2>1
<1>8. Good(u)
  BY <1>1, <1>4, <1>5 DEF Good
<1> QED BY <1>1, <1>6, <1>7, <1>8 DEF u

----------------------------------------------------------------------------
\* A non-empty set of frames has a lowest one.
LEMMA LowestFrame ==
    ASSUME NEW t \in State, t.free # {}
    PROVE  Lowest(t) \in t.free
<1>1. t.free \subseteq Nat
  BY StateFields, SwapAssumption
<1>2. PICK x \in t.free : \A y \in t.free : ~(<<y, x>> \in OpToRel(<, Nat))
  BY <1>1, NatLessThanWellFounded, WFMin, Zenon
<1>3. \A y \in t.free : ~(y < x)
  BY <1>1, <1>2, Zenon DEF OpToRel
<1>4. \A y \in t.free : x <= y
  BY <1>1, <1>3
<1> QED BY <1>4 DEF Lowest

\* The page that do_pgfault maps, once there is a free frame.
Arrived(t, v) ==
    LET f == Lowest(t)
    IN  Mapped(IF t.slot[v] = 0 THEN alloc_page(t) ELSE swap_in(alloc_page(t), v, f), v, f)

\* What the arrival of a page does to the fields.
LEMMA ArrivedFields ==
    ASSUME NEW t, Good(t), t.free # {}, NEW v \in VPage
    PROVE  LET f == Lowest(t)
               x == IF t.slot[v] = 0 THEN t.data[f] ELSE t.disk[t.slot[v]]
               u == Arrived(t, v)
           IN  /\ f \in t.free /\ f \in Frame /\ x \in Val
               /\ u \in State
               /\ u.page = [t.page EXCEPT ![v] = f] /\ u.slot = [t.slot EXCEPT ![v] = 0]
               /\ u.data = [t.data EXCEPT ![f] = x] /\ u.free = t.free \ {f}
               /\ u.queue = Append(t.queue, f)
               /\ u.pra_vaddr = [t.pra_vaddr EXCEPT ![f] = v]
               /\ u.disk = t.disk /\ u.pgfault_num = t.pgfault_num
<1> USE SwapAssumption
<1> DEFINE f == Lowest(t)
           x == IF t.slot[v] = 0 THEN t.data[f] ELSE t.disk[t.slot[v]]
           u == Arrived(t, v)
<1>1. t \in State
  BY DEF Good
<1>2. f \in t.free /\ f \in Frame
  BY <1>1, LowestFrame, StateFields
<1>3. x \in Val
  <2>1. CASE t.slot[v] = 0
    BY <1>1, <1>2, <2>1, StateFields
  <2>2. CASE t.slot[v] # 0
    <3>1. t.slot[v] \in Slot
      BY <1>1, <2>2, StateFields DEF Good, Slotted, GoodOffset, Slot
    <3> QED BY <1>1, <2>2, <3>1, StateFields
  <2> QED BY <2>1, <2>2
<1> HIDE DEF f
<1>4. /\ t.data \in [Frame -> Val] /\ t.page \in [VPage -> Frame \cup {NULL}]
      /\ t.slot \in [VPage -> Nat] /\ t.free \in SUBSET Frame /\ t.queue \in Seq(Frame)
      /\ t.pra_vaddr \in [Frame -> VPage \cup {NULL}]
      /\ t.disk \in [Slot -> Val] /\ t.pgfault_num \in Nat
  BY <1>1, StateFields
<1>5. u = [page |-> [t.page EXCEPT ![v] = f], slot |-> [t.slot EXCEPT ![v] = 0],
           data |-> [t.data EXCEPT ![f] = x], free |-> t.free \ {f},
           queue |-> Append(t.queue, f), pra_vaddr |-> [t.pra_vaddr EXCEPT ![f] = v],
           disk |-> t.disk, pgfault_num |-> t.pgfault_num]
  <2>1. CASE t.slot[v] = 0
    <3>1. [t.data EXCEPT ![f] = x] = t.data
      BY <1>2, <1>4, <2>1
    <3>2. u = Mapped([t EXCEPT !.free = @ \ {f}], v, f)
      BY <2>1 DEF Arrived, alloc_page, f
    <3> HIDE DEF u, x
    <3> QED BY <1>1, <3>1, <3>2 DEF Mapped, map_swappable, State
  <2>2. CASE t.slot[v] # 0
    <3>1. u = Mapped([[t EXCEPT !.free = @ \ {f}] EXCEPT
                        !.data[f] = [t EXCEPT !.free = @ \ {f}].disk[[t EXCEPT !.free = @ \ {f}].slot[v]]], v, f)
      BY <2>2 DEF Arrived, alloc_page, swap_in, f
    <3>2. /\ [t EXCEPT !.free = @ \ {f}].disk = t.disk
          /\ [t EXCEPT !.free = @ \ {f}].slot = t.slot
      BY <1>1 DEF State
    <3>3. u = Mapped([[t EXCEPT !.free = @ \ {f}] EXCEPT !.data[f] = x], v, f)
      BY <2>2, <3>1, <3>2
    <3> HIDE DEF u, x
    <3> QED BY <1>1, <3>3 DEF Mapped, map_swappable, State
  <2> QED BY <2>1, <2>2
<1> HIDE DEF u, x
<1>6. /\ u.page = [t.page EXCEPT ![v] = f] /\ u.slot = [t.slot EXCEPT ![v] = 0]
      /\ u.data = [t.data EXCEPT ![f] = x] /\ u.free = t.free \ {f}
      /\ u.queue = Append(t.queue, f)
      /\ u.pra_vaddr = [t.pra_vaddr EXCEPT ![f] = v]
      /\ u.disk = t.disk /\ u.pgfault_num = t.pgfault_num
  BY <1>5
<1>7. u \in State
  <2>1. Append(t.queue, f) \in Seq(Frame)
    BY <1>2, <1>4, AppendProperties
  <2>2. u.page \in [VPage -> Frame \cup {NULL}] /\ u.slot \in [VPage -> Nat]
    BY <1>2, <1>4, <1>6
  <2>3. u.data \in [Frame -> Val] /\ u.free \in SUBSET Frame
    BY <1>2, <1>3, <1>4, <1>6
  <2>4. u.pra_vaddr \in [Frame -> VPage \cup {NULL}]
    BY <1>2, <1>4, <1>6
  <2>5. u = [page |-> u.page, slot |-> u.slot, data |-> u.data, free |-> u.free,
             queue |-> u.queue, pra_vaddr |-> u.pra_vaddr, disk |-> u.disk,
             pgfault_num |-> u.pgfault_num]
    BY <1>5
  <2> QED BY <1>4, <1>6, <2>1, <2>2, <2>3, <2>4, <2>5, StateOfFields
<1> QED BY <1>2, <1>3, <1>6, <1>7 DEF f, x, u

\* A page that was not mapped arrives: queue and page table stay in step, the page
\* holds what it held if it had a slot, and no other page changes.
LEMMA ArrivedGood ==
    ASSUME NEW t, Good(t), t.free # {}, NEW v \in VPage, t.page[v] = NULL
    PROVE  LET u == Arrived(t, v)
           IN  /\ Good(u)
               /\ u.page[v] \in t.free /\ u.queue = Append(t.queue, u.page[v])
               /\ u.pra_vaddr = [t.pra_vaddr EXCEPT ![u.page[v]] = v]
               /\ \A w \in VPage \ {v} : Holds(u, w) = Holds(t, w)
               /\ t.slot[v] # 0 => Holds(u, v) = Holds(t, v)
               /\ Holds(u, v) \in Val
<1> USE SwapAssumption
<1> DEFINE f == Lowest(t)
           x == IF t.slot[v] = 0 THEN t.data[f] ELSE t.disk[t.slot[v]]
           u == Arrived(t, v)
           n == Len(t.queue)
<1>1. /\ f \in t.free /\ f \in Frame /\ x \in Val
      /\ u \in State
      /\ u.page = [t.page EXCEPT ![v] = f] /\ u.slot = [t.slot EXCEPT ![v] = 0]
      /\ u.data = [t.data EXCEPT ![f] = x] /\ u.free = t.free \ {f}
      /\ u.queue = Append(t.queue, f)
      /\ u.pra_vaddr = [t.pra_vaddr EXCEPT ![f] = v]
      /\ u.disk = t.disk /\ u.pgfault_num = t.pgfault_num
  BY ArrivedFields
<1>2. /\ t.page \in [VPage -> Frame \cup {NULL}] /\ t.slot \in [VPage -> Nat]
      /\ t.data \in [Frame -> Val] /\ t.queue \in Seq(Frame)
      /\ t.pra_vaddr \in [Frame -> VPage \cup {NULL}]
  BY StateFields DEF Good
<1>l. Linked(t) /\ Slotted(t)
  BY DEF Good
<1>x. t.slot[v] # 0 => x = Holds(t, v)
  BY DEF Holds
<1> HIDE DEF f, x, u
<1>3. /\ n \in Nat /\ Len(u.queue) = n + 1
      /\ \A i \in 1 .. n : u.queue[i] = t.queue[i]
      /\ u.queue[n + 1] = f
      /\ \A i \in 1 .. n : t.queue[i] \in Frame
  BY <1>1, <1>2, AppendProperties, LenProperties, ElementOfSeq
<1> HIDE DEF n
<1>n. \A i \in 1 .. n : t.queue[i] # f
  BY <1>1, <1>3, <1>l DEF Linked, n
<1>4. Linked(u)
  <2>1. ASSUME NEW g \in Frame
        PROVE  g \notin u.free <=> \E i \in 1 .. Len(u.queue) : u.queue[i] = g
    <3>1. CASE g = f
      BY <1>1, <1>3, <3>1
    <3>2. CASE g # f
      <4>1. g \notin t.free <=> \E i \in 1 .. n : t.queue[i] = g
        BY <1>l DEF Linked, n
      <4>2. (\E i \in 1 .. n : t.queue[i] = g) <=> (\E i \in 1 .. n + 1 : u.queue[i] = g)
        <5>1. ASSUME NEW i \in 1 .. n, t.queue[i] = g PROVE \E j \in 1 .. n + 1 : u.queue[j] = g
          BY <1>3, <5>1
        <5>2. ASSUME NEW i \in 1 .. n + 1, u.queue[i] = g PROVE \E j \in 1 .. n : t.queue[j] = g
          BY <1>3, <3>2, <5>2
        <5> QED BY <5>1, <5>2
      <4> QED BY <1>1, <1>3, <3>2, <4>1, <4>2
    <3> QED BY <3>1, <3>2
  <2>2. ASSUME NEW i \in 1 .. n + 1, NEW j \in 1 .. n + 1, u.queue[i] = u.queue[j]
        PROVE  i = j
    <3>1. CASE i \in 1 .. n /\ j \in 1 .. n
      BY <1>3, <1>l, <2>2, <3>1 DEF Linked, n
    <3>2. CASE i = n + 1 \/ j = n + 1
      BY <1>3, <1>n, <2>2, <3>2
    <3> QED BY <1>3, <3>1, <3>2
  <2>3. ASSUME NEW w \in VPage, u.page[w] # NULL
        PROVE  u.page[w] \notin u.free /\ u.pra_vaddr[u.page[w]] = w
    <3>1. CASE w = v
      BY <1>1, <1>2, <3>1
    <3>2. CASE w # v
      <4>1. u.page[w] = t.page[w]
        BY <1>1, <1>2, <3>2
      <4>2. t.page[w] \notin t.free /\ t.pra_vaddr[t.page[w]] = w
        BY <1>l, <2>3, <4>1 DEF Linked
      <4> QED BY <1>1, <1>2, <4>1, <4>2
    <3> QED BY <3>1, <3>2
  <2>4. ASSUME NEW g \in Frame \ u.free
        PROVE  u.pra_vaddr[g] \in VPage /\ u.page[u.pra_vaddr[g]] = g
    <3>1. CASE g = f
      BY <1>1, <1>2, <3>1
    <3>2. CASE g # f
      <4>1. t.pra_vaddr[g] \in VPage /\ t.page[t.pra_vaddr[g]] = g
        BY <1>1, <1>l, <3>2 DEF Linked
      <4>2. t.pra_vaddr[g] # v
        BY <4>1
      <4> QED BY <1>1, <1>2, <3>2, <4>1, <4>2
    <3> QED BY <3>1, <3>2
  <2> QED BY <1>3, <2>1, <2>2, <2>3, <2>4 DEF Linked
<1>5. Slotted(u)
  <2> SUFFICES ASSUME NEW w \in VPage, u.slot[w] # 0
               PROVE  u.slot[w] = Entry(w) /\ GoodOffset(u.slot[w]) /\ u.page[w] = NULL
    BY DEF Slotted
  <2>1. w # v /\ u.slot[w] = t.slot[w] /\ u.page[w] = t.page[w]
    BY <1>1, <1>2
  <2> QED BY <1>l, <2>1 DEF Slotted
<1>6. ASSUME NEW w \in VPage \ {v} PROVE Holds(u, w) = Holds(t, w)
  <2>1. u.page[w] = t.page[w] /\ u.slot[w] = t.slot[w] /\ u.disk = t.disk
    BY <1>1, <1>2
  <2>2. ASSUME t.page[w] # NULL PROVE u.data[t.page[w]] = t.data[t.page[w]]
    <3>1. t.page[w] # f
      BY <1>1, <1>l, <2>2 DEF Linked
    <3> QED BY <1>1, <1>2, <2>2, <3>1
  <2> QED BY <2>1, <2>2 DEF Holds
<1>7. u.page[v] = f /\ Holds(u, v) = x
  BY <1>1, <1>2 DEF Holds
<1>8. Good(u)
  BY <1>1, <1>4, <1>5 DEF Good
<1> QED BY <1>1, <1>6, <1>7, <1>8, <1>x DEF u

----------------------------------------------------------------------------
\* The queue is as long as there are frames in use: it has room exactly while a
\* frame is free.
LEMMA QueueLength ==
    ASSUME NEW t, Good(t)
    PROVE  /\ Len(t.queue) = Cardinality(Frame \ t.free)
           /\ Len(t.queue) < Cardinality(Frame) <=> t.free # {}
<1> DEFINE n == Len(t.queue)
           used == Frame \ t.free
<1>1. t.queue \in Seq(Frame) /\ t.free \in SUBSET Frame /\ n \in Nat /\ t.queue \in [1 .. n -> Frame]
  BY StateFields, LenProperties DEF Good
<1>2. t.queue \in Surjection(1 .. n, used) /\ t.queue \in Injection(1 .. n, used)
  <2>1. \A i \in 1 .. n : t.queue[i] \in used
    BY <1>1 DEF Good, Linked
  <2>2. \A f \in used : \E i \in 1 .. n : t.queue[i] = f
    BY DEF Good, Linked
  <2>3. \A i, j \in 1 .. n : t.queue[i] = t.queue[j] => i = j
    BY DEF Good, Linked
  <2>4. t.queue \in [1 .. n -> used]
    BY <1>1, <2>1
  <2> QED BY <2>2, <2>3, <2>4 DEF Surjection, Injection, IsInjective
<1>3. IsFiniteSet(1 .. n) /\ Cardinality(1 .. n) = n
  <2> HIDE DEF n
  <2>1. n \in Int /\ 1 \in Int
    BY <1>1
  <2>2. /\ IsFiniteSet(1 .. n)
        /\ Cardinality(1 .. n) = IF 1 > n THEN 0 ELSE n - 1 + 1
    BY <2>1, FS_Interval
  <2> QED BY <1>1, <2>2
<1>4. Cardinality(used) = n
  BY <1>2, <1>3, FS_Surjection
<1>5. /\ IsFiniteSet(used) /\ Cardinality(used) <= Cardinality(Frame)
      /\ Cardinality(Frame) = Cardinality(used) => Frame = used
  BY FS_Subset, SwapAssumption
<1>6. Frame = used <=> t.free = {}
  BY <1>1
<1>7. Cardinality(Frame) \in Nat /\ Cardinality(used) \in Nat
  BY <1>5, FS_CardinalityType, SwapAssumption
<1>8. Cardinality(used) < Cardinality(Frame) <=> Frame # used
  <2> HIDE DEF used
  <2> QED BY <1>5, <1>7
<1> QED BY <1>4, <1>6, <1>8

\* The pages in the order of their arrival.
LEMMA OrderFields ==
    ASSUME NEW t, Good(t)
    PROVE  /\ Order(t) \in Seq(VPage) /\ Len(Order(t)) = Len(t.queue)
           /\ \A i \in 1 .. Len(t.queue) : Order(t)[i] = t.pra_vaddr[t.queue[i]]
           /\ \A v \in VPage : t.page[v] # NULL <=> \E i \in 1 .. Len(t.queue) : Order(t)[i] = v
<1> DEFINE n == Len(t.queue)
<1>1. /\ t.queue \in Seq(Frame) /\ n \in Nat /\ DOMAIN t.queue = 1 .. n
      /\ t.page \in [VPage -> Frame \cup {NULL}]
      /\ \A i \in 1 .. n : t.queue[i] \in Frame
  BY StateFields, LenProperties, ElementOfSeq DEF Good
<1>2. Order(t) = [i \in 1 .. n |-> t.pra_vaddr[t.queue[i]]]
  BY <1>1 DEF Order
<1>3. \A i \in 1 .. n : t.pra_vaddr[t.queue[i]] \in VPage /\ t.page[t.pra_vaddr[t.queue[i]]] = t.queue[i]
  BY <1>1 DEF Good, Linked
<1>4. Order(t) \in Seq(VPage) /\ Len(Order(t)) = n
  BY <1>1, <1>2, <1>3, LenProperties
<1>5. ASSUME NEW v \in VPage
      PROVE  t.page[v] # NULL <=> \E i \in 1 .. n : Order(t)[i] = v
  <2>1. ASSUME t.page[v] # NULL PROVE \E i \in 1 .. n : Order(t)[i] = v
    <3>1. t.page[v] \in Frame \ t.free /\ t.pra_vaddr[t.page[v]] = v
      BY <1>1, <2>1 DEF Good, Linked
    <3>2. PICK i \in 1 .. n : t.queue[i] = t.page[v]
      BY <3>1 DEF Good, Linked
    <3> QED BY <1>2, <3>1, <3>2
  <2>2. ASSUME NEW i \in 1 .. n, Order(t)[i] = v PROVE t.page[v] # NULL
    BY <1>1, <1>2, <1>3, <2>2, SwapAssumption
  <2> QED BY <2>1, <2>2
<1> QED BY <1>2, <1>4, <1>5

----------------------------------------------------------------------------
\* The counter of faults is independent of everything else.
Counted(t) == [t EXCEPT !.pgfault_num = (@ + 1) % UInt]

\* Counting a fault changes nothing else.
LEMMA CountedGood ==
    ASSUME NEW t, Good(t)
    PROVE  LET c == Counted(t)
           IN  /\ Good(c)
               /\ c.page = t.page /\ c.slot = t.slot /\ c.data = t.data /\ c.free = t.free
               /\ c.queue = t.queue /\ c.pra_vaddr = t.pra_vaddr /\ c.disk = t.disk
               /\ Order(c) = Order(t)
               /\ \A w \in VPage : Holds(c, w) = Holds(t, w)
               /\ SwapOutPanics(c) = SwapOutPanics(t)
<1> DEFINE c == Counted(t)
           m == (t.pgfault_num + 1) % UInt
<1>1. t \in State
  BY DEF Good
<1>2. c = [t EXCEPT !.pgfault_num = m]
  BY DEF Counted
<1>3. m \in Nat
  <2>1. t.pgfault_num \in Nat /\ UInt \in Nat \ {0}
    BY <1>1, StateFields, SwapAssumption
  <2>2. \A k \in Nat, d \in Nat \ {0} : k % d \in Nat
    OBVIOUS
  <2> QED BY <2>1, <2>2
<1> HIDE DEF c, m
<1>4. /\ c \in State
      /\ c.page = t.page /\ c.slot = t.slot /\ c.data = t.data /\ c.free = t.free
      /\ c.queue = t.queue /\ c.pra_vaddr = t.pra_vaddr /\ c.disk = t.disk
  BY <1>1, <1>2, <1>3 DEF State
<1>5. Linked(c) /\ Slotted(c)
  BY <1>4 DEF Good, Linked, Slotted
<1>6. Order(c) = Order(t) /\ \A w \in VPage : Holds(c, w) = Holds(t, w)
  BY <1>4 DEF Order, Holds
<1>7. SwapOutPanics(c) = SwapOutPanics(t)
  BY <1>4 DEF SwapOutPanics
<1> QED BY <1>4, <1>5, <1>6, <1>7 DEF Good, c

\* A fault at a page that is not mapped, with room or after the oldest page has
\* made room: the page arrives last, nothing any page holds is lost.
LEMMA FaultGood ==
    ASSUME NEW t, Good(t), NEW v \in VPage, t.page[v] = NULL, ~FaultPanics(t, v)
    PROVE  LET u == do_pgfault(t, v)
           IN  /\ Good(u)
               /\ u.page[v] \in Frame
               /\ \A w \in VPage \ {v} : Holds(u, w) = Holds(t, w)
               /\ Holds(t, v) # NULL => Holds(u, v) = Holds(t, v)
               /\ Holds(u, v) \in Val
               /\ Order(u) = IF Len(Order(t)) < Cardinality(Frame) THEN Append(Order(t), v)
                             ELSE Append(Tail(Order(t)), v)
<1> DEFINE c == Counted(t)
           r == MadeRoom(c)
           u == do_pgfault(t, v)
<1>1. /\ Good(c) /\ c.page = t.page /\ c.slot = t.slot /\ c.free = t.free
      /\ c.queue = t.queue /\ c.pra_vaddr = t.pra_vaddr
      /\ Order(c) = Order(t)
      /\ \A w \in VPage : Holds(c, w) = Holds(t, w)
      /\ SwapOutPanics(c) = SwapOutPanics(t)
  BY CountedGood
<1>2. c.free = {} => ~SwapOutPanics(c)
  BY <1>1 DEF FaultPanics, AllocPanics
<1>3. u = Arrived(r, v) \/ r.slot[v] # t.slot[v]
  BY DEF do_pgfault, Arrived, Counted
<1> HIDE DEF c, u
<1>4. /\ Good(r) /\ r.free # {} /\ r.pra_vaddr = t.pra_vaddr
      /\ r.page[v] = NULL /\ r.slot[v] = t.slot[v]
      /\ \A w \in VPage : Holds(r, w) = Holds(t, w)
      /\ IF t.free = {} THEN t.queue # <<>> /\ r.queue = Tail(t.queue) ELSE r.queue = t.queue
  <2>1. CASE t.free = {}
    <3>1. r = swap_out(c)
      BY <1>1, <2>1 DEF MadeRoom
    <3> HIDE DEF r
    <3> QED BY <1>1, <1>2, <2>1, <3>1, SwapOutGood
  <2>2. CASE t.free # {}
    BY <1>1, <2>2 DEF MadeRoom
  <2> QED BY <2>1, <2>2
<1> HIDE DEF r
<1>5. u = Arrived(r, v)
  BY <1>3, <1>4
<1>6. /\ Good(u) /\ u.page[v] \in r.free /\ u.queue = Append(r.queue, u.page[v])
      /\ u.pra_vaddr = [r.pra_vaddr EXCEPT ![u.page[v]] = v]
      /\ \A w \in VPage \ {v} : Holds(u, w) = Holds(r, w)
      /\ r.slot[v] # 0 => Holds(u, v) = Holds(r, v)
      /\ Holds(u, v) \in Val
  BY <1>4, <1>5, ArrivedGood
<1>7. Holds(t, v) # NULL => t.slot[v] # 0
  BY DEF Holds
<1>8. u.page[v] \in Frame
  <2>1. r.free \in SUBSET Frame
    BY <1>4, StateFields DEF Good
  <2> QED BY <1>6, <2>1
<1>9. Order(u) = Append(Order(r), v)
  <2> DEFINE n == Len(r.queue)
  <2>1. /\ Order(r) \in Seq(VPage) /\ Len(Order(r)) = n
        /\ \A i \in 1 .. n : Order(r)[i] = r.pra_vaddr[r.queue[i]]
    BY <1>4, OrderFields
  <2>2. /\ Order(u) \in Seq(VPage) /\ Len(Order(u)) = Len(u.queue)
        /\ \A i \in 1 .. Len(u.queue) : Order(u)[i] = u.pra_vaddr[u.queue[i]]
    BY <1>6, OrderFields
  <2>3. /\ r.queue \in Seq(Frame) /\ r.pra_vaddr \in [Frame -> VPage \cup {NULL}] /\ n \in Nat
    BY <1>4, StateFields, LenProperties DEF Good
  <2>4. /\ Len(u.queue) = n + 1 /\ u.queue[n + 1] = u.page[v]
        /\ \A i \in 1 .. n : u.queue[i] = r.queue[i] /\ r.queue[i] \in Frame
    BY <1>6, <1>8, <2>3, AppendProperties, ElementOfSeq
  <2>5. /\ Append(Order(r), v) \in Seq(VPage) /\ Len(Append(Order(r), v)) = n + 1
        /\ \A i \in 1 .. n : Append(Order(r), v)[i] = Order(r)[i]
        /\ Append(Order(r), v)[n + 1] = v
    BY <2>1, AppendProperties
  <2> HIDE DEF n
  <2>6. ASSUME NEW i \in 1 .. n + 1 PROVE Order(u)[i] = Append(Order(r), v)[i]
    <3>1. CASE i = n + 1
      <4>1. n + 1 \in 1 .. n + 1 /\ u.pra_vaddr[u.page[v]] = v
        BY <1>6, <1>8, <2>3
      <4>2. Order(u)[n + 1] = u.pra_vaddr[u.queue[n + 1]]
        BY <2>2, <2>4, <4>1
      <4> QED BY <2>4, <2>5, <3>1, <4>1, <4>2
    <3>2. CASE i \in 1 .. n
      <4>1. r.queue[i] # u.page[v]
        BY <1>4, <1>6, <2>4, <3>2 DEF Good, Linked, n
      <4>2. Order(u)[i] = u.pra_vaddr[u.queue[i]]
        BY <2>2, <2>3, <2>4, <3>2
      <4>3. u.queue[i] = r.queue[i] /\ r.queue[i] \in Frame
        BY <2>4, <3>2
      <4>4. u.pra_vaddr[r.queue[i]] = r.pra_vaddr[r.queue[i]]
        BY <1>6, <2>3, <4>1, <4>3
      <4>5. Append(Order(r), v)[i] = r.pra_vaddr[r.queue[i]]
        BY <2>1, <2>5, <3>2
      <4> QED BY <4>2, <4>3, <4>4, <4>5
    <3>3. i = n + 1 \/ i \in 1 .. n
      <4>1. n \in Nat
        BY <2>3
      <4> QED BY <4>1
    <3> QED BY <3>1, <3>2, <3>3, Zenon
  <2> QED BY <2>2, <2>4, <2>5, <2>6, SeqEqual
<1>10. Order(r) = IF t.free = {} THEN Tail(Order(t)) ELSE Order(t)
  <2>1. CASE t.free # {}
    BY <1>4, <2>1 DEF Order
  <2>2. CASE t.free = {}
    <3> DEFINE n == Len(t.queue)
    <3>1. /\ Order(r) \in Seq(VPage) /\ Len(Order(r)) = Len(r.queue)
          /\ \A i \in 1 .. Len(r.queue) : Order(r)[i] = r.pra_vaddr[r.queue[i]]
      BY <1>4, OrderFields
    <3>2. /\ Order(t) \in Seq(VPage) /\ Len(Order(t)) = n
          /\ \A i \in 1 .. n : Order(t)[i] = t.pra_vaddr[t.queue[i]]
      BY OrderFields
    <3>3. /\ t.queue \in Seq(Frame) /\ t.queue # <<>> /\ n \in Nat /\ n >= 1
          /\ r.queue = Tail(t.queue)
      BY <1>4, <2>2, StateFields, LenProperties, EmptySeq DEF Good
    <3>4. /\ Len(r.queue) = n - 1
          /\ \A i \in 1 .. n - 1 : r.queue[i] = t.queue[i + 1]
      BY <3>3, HeadTailProperties
    <3>5. Order(t) # <<>>
      BY <3>2, <3>3
    <3>6. /\ Tail(Order(t)) \in Seq(VPage) /\ Len(Tail(Order(t))) = n - 1
          /\ \A i \in 1 .. n - 1 : Tail(Order(t))[i] = Order(t)[i + 1]
      BY <3>2, <3>5, HeadTailProperties
    <3> HIDE DEF n
    <3>7. ASSUME NEW i \in 1 .. n - 1 PROVE Order(r)[i] = Tail(Order(t))[i]
      <4>1. i + 1 \in 1 .. n
        BY <3>3
      <4>2. Order(r)[i] = r.pra_vaddr[r.queue[i]] /\ r.queue[i] = t.queue[i + 1]
        BY <3>1, <3>4
      <4>3. Tail(Order(t))[i] = t.pra_vaddr[t.queue[i + 1]]
        BY <3>2, <3>6, <4>1
      <4>4. r.pra_vaddr = t.pra_vaddr
        BY <1>4
      <4> QED BY <4>2, <4>3, <4>4
    <3>8. Order(r) = Tail(Order(t))
      BY <3>1, <3>4, <3>6, <3>7, SeqEqual
    <3> QED BY <2>2, <3>8
  <2> QED BY <2>1, <2>2
<1>11. Len(Order(t)) < Cardinality(Frame) <=> t.free # {}
  BY OrderFields, QueueLength
<1> QED BY <1>4, <1>6, <1>7, <1>8, <1>9, <1>10, <1>11 DEF u

----------------------------------------------------------------------------
\* The effect of an access that does not panic, in the terms of FifoCache.
Accessed(t, u, v) ==
    /\ Good(u) /\ u.page[v] \in Frame
    /\ \A w \in VPage \ {v} : Holds(u, w) = Holds(t, w)
    /\ Holds(u, v) \in Val
    /\ Order(u) = IF t.page[v] # NULL THEN Order(t)
                  ELSE IF Len(Order(t)) < Cardinality(Frame) THEN Append(Order(t), v)
                  ELSE Append(Tail(Order(t)), v)

\* A served fault brings the page in and keeps the contents of all pages.
LEMMA ServedGood ==
    ASSUME NEW t, Good(t), NEW v \in VPage, ~(t.page[v] = NULL /\ FaultPanics(t, v))
    PROVE  LET u == Served(t, v)
           IN  Accessed(t, u, v) /\ (Holds(t, v) # NULL => Holds(u, v) = Holds(t, v))
<1> DEFINE u == Served(t, v)
<1>1. CASE t.page[v] # NULL
  <2>1. u = t
    BY <1>1 DEF Served
  <2>2. t.page[v] \in Frame /\ t.data[t.page[v]] \in Val
    BY <1>1, StateFields DEF Good
  <2>3. Holds(t, v) \in Val
    BY <1>1, <2>2 DEF Holds
  <2> QED BY <1>1, <2>1, <2>2, <2>3 DEF Accessed
<1>2. CASE t.page[v] = NULL
  <2>1. u = do_pgfault(t, v)
    BY <1>2 DEF Served
  <2> HIDE DEF u
  <2> QED BY <1>2, <2>1, FaultGood DEF Accessed, u
<1> QED BY <1>1, <1>2

\* A store changes the contents of its page and nothing else.
LEMMA StoredGood ==
    ASSUME NEW t, Good(t), NEW v \in VPage, t.page[v] \in Frame, NEW x \in Val
    PROVE  LET u == Stored(t, v, x)
           IN  /\ Good(u) /\ u.page = t.page /\ Order(u) = Order(t)
               /\ \A w \in VPage \ {v} : Holds(u, w) = Holds(t, w)
               /\ Holds(u, v) = x
<1> DEFINE u == Stored(t, v, x)
           f == t.page[v]
<1>1. t \in State /\ f \in Frame
  BY DEF Good
<1>2. u = [t EXCEPT !.data[f] = x]
  BY DEF Stored
<1>3. t.data \in [Frame -> Val]
  BY <1>1, StateFields
<1> HIDE DEF u, f
<1>4. /\ u \in State
      /\ u.page = t.page /\ u.slot = t.slot /\ u.data = [t.data EXCEPT ![f] = x] /\ u.free = t.free
      /\ u.queue = t.queue /\ u.pra_vaddr = t.pra_vaddr /\ u.disk = t.disk
  BY <1>1, <1>2, <1>3 DEF State
<1>5. Linked(u) /\ Slotted(u)
  BY <1>4 DEF Good, Linked, Slotted
<1>6. Order(u) = Order(t)
  BY <1>4 DEF Order
<1>7. f # NULL
  BY <1>1, SwapAssumption
<1>8. Holds(u, v) = x
  BY <1>1, <1>3, <1>4, <1>7 DEF Holds, f
<1>9. ASSUME NEW w \in VPage \ {v} PROVE Holds(u, w) = Holds(t, w)
  <2>1. ASSUME t.page[w] # NULL PROVE u.data[t.page[w]] = t.data[t.page[w]]
    <3>1. t.pra_vaddr[t.page[w]] = w /\ t.pra_vaddr[f] = v
      BY <1>7, <2>1 DEF Good, Linked, f
    <3>2. t.page[w] # f
      BY <3>1
    <3>3. t.page[w] \in Frame
      BY <1>1, <2>1, StateFields
    <3> QED BY <1>3, <1>4, <3>2, <3>3
  <2> QED BY <1>4, <2>1 DEF Holds
<1> QED BY <1>4, <1>5, <1>6, <1>8, <1>9 DEF Good, u

\* A fault panics only when the oldest page has to make room and the device does
\* not reach its entry.
LEMMA PanicsOffDevice ==
    ASSUME NEW t, Good(t), NEW v \in VPage, FaultPanics(t, v)
    PROVE  /\ t.free = {} /\ t.queue # <<>>
           /\ Entry(t.pra_vaddr[Head(t.queue)]) >= max_swap_offset
<1> DEFINE f == Head(t.queue)
           w == t.pra_vaddr[f]
<1>1. ~(t.slot[v] # 0 /\ ~GoodOffset(t.slot[v]))
  BY DEF Good, Slotted
<1>2. t.free = {} /\ SwapOutPanics(t)
  BY <1>1 DEF FaultPanics, AllocPanics
<1>3. t.queue \in Seq(Frame) /\ t.queue # <<>>
  <2>1. PICK g \in Frame : TRUE
    BY SwapAssumption
  <2>2. \E i \in 1 .. Len(t.queue) : t.queue[i] = g
    BY <1>2, <2>1 DEF Good, Linked
  <2>3. t.queue \in Seq(Frame)
    BY StateFields DEF Good
  <2> QED BY <2>2, <2>3
<1>4. f \in Frame
  BY <1>3, HeadTailProperties
<1>5. w \in VPage /\ t.page[w] = f
  BY <1>2, <1>4 DEF Good, Linked
<1>6. f # NULL
  BY <1>4, SwapAssumption
<1>7. ~GoodOffset(Entry(w))
  BY <1>2, <1>3, <1>5, <1>6 DEF SwapOutPanics
<1>8. w \in Nat /\ max_swap_offset \in Nat
  BY <1>5, SwapAssumption
<1> HIDE DEF w
<1>9. Entry(w) >= max_swap_offset
  BY <1>7, <1>8 DEF GoodOffset, Entry
<1> QED BY <1>2, <1>3, <1>9 DEF w

----------------------------------------------------------------------------
\* At boot every frame is free and the queue is empty.
LEMMA InitGood ==
    ASSUME NEW d \in [Frame -> Val]
    PROVE  LET t == InitState(d)
           IN  /\ Good(t) /\ Order(t) = <<>>
               /\ \A v \in VPage : Holds(t, v) = NULL
<1> USE SwapAssumption
<1> DEFINE t == InitState(d)
<1>1. /\ t.page = [v \in VPage |-> NULL] /\ t.slot = [v \in VPage |-> 0]
      /\ t.data = d /\ t.free = Frame /\ t.queue = <<>>
      /\ t.pra_vaddr = [f \in Frame |-> NULL]
      /\ t.disk = [o \in Slot |-> CHOOSE x \in Val : TRUE] /\ t.pgfault_num = 0
      /\ t = [page |-> t.page, slot |-> t.slot, data |-> t.data, free |-> t.free,
              queue |-> t.queue, pra_vaddr |-> t.pra_vaddr, disk |-> t.disk,
              pgfault_num |-> t.pgfault_num]
  BY DEF InitState
<1>2. (CHOOSE x \in Val : TRUE) \in Val
  <2>1. PICK f \in Frame : TRUE
    OBVIOUS
  <2>2. d[f] \in Val
    BY <2>1
  <2> QED BY <2>2
<1> HIDE DEF t
<1>3. t.queue \in Seq(Frame) /\ Len(t.queue) = 0
  BY <1>1, EmptySeq
<1>4. t.disk \in [Slot -> Val]
  BY <1>1, <1>2
<1>5. t \in State
  <2>1. t.page \in [VPage -> Frame \cup {NULL}] /\ t.slot \in [VPage -> Nat]
    BY <1>1
  <2>2. t.pra_vaddr \in [Frame -> VPage \cup {NULL}] /\ t.pgfault_num \in Nat
    BY <1>1
  <2>3. t.data \in [Frame -> Val] /\ t.free \in SUBSET Frame
    BY <1>1
  <2>4. t = [page |-> t.page, slot |-> t.slot, data |-> t.data, free |-> t.free,
             queue |-> t.queue, pra_vaddr |-> t.pra_vaddr, disk |-> t.disk,
             pgfault_num |-> t.pgfault_num]
    BY <1>1
  <2> QED BY <1>3, <1>4, <2>1, <2>2, <2>3, <2>4, StateOfFields
<1>6. Linked(t) /\ Slotted(t)
  BY <1>1, <1>3 DEF Linked, Slotted
<1>7. Order(t) = <<>>
  <2>1. Good(t)
    BY <1>5, <1>6 DEF Good
  <2>2. Order(t) \in Seq(VPage) /\ Len(Order(t)) = 0
    BY <1>3, <2>1, OrderFields
  <2> QED BY <2>2, EmptySeq
<1>8. \A v \in VPage : Holds(t, v) = NULL
  BY <1>1 DEF Holds
<1> QED BY <1>5, <1>6, <1>7, <1>8 DEF Good, t

\* Init establishes the invariant.
LEMMA InitIInv == Init => IInv
<1> SUFFICES ASSUME Init PROVE IInv
  OBVIOUS
<1>1. PICK d \in [Frame -> Val] : s = InitState(d)
  BY DEF Init
<1>2. Good(s)
  BY <1>1, InitGood
<1> QED BY <1>2 DEF Init, IInv, OnlyOffDevice

\* A load and a store that do not panic, in the terms of FifoCache.
LEMMA LoadStep ==
    ASSUME IInv, NEW v \in VPage, Load(v)
    PROVE  /\ Accessed(s, s', v) /\ ~panic'
           /\ Holds(s, v) # NULL => Holds(s', v) = Holds(s, v)
<1>1. s' = Served(s, v) /\ ~(s.page[v] = NULL /\ FaultPanics(s, v)) /\ ~panic'
  BY DEF Load, Fails
<1> QED BY <1>1, ServedGood DEF IInv

\* A store of a process, with its fault, is the abstract store.
LEMMA StoreStep ==
    ASSUME IInv, NEW v \in VPage, NEW x \in Val, Store(v, x)
    PROVE  Accessed(s, s', v) /\ Holds(s', v) = x /\ ~panic'
<1> DEFINE u == Served(s, v)
<1>1. s' = Stored(u, v, x) /\ ~(s.page[v] = NULL /\ FaultPanics(s, v)) /\ ~panic'
  BY DEF Store, Fails
<1>2. Accessed(s, u, v)
  BY <1>1, ServedGood DEF IInv
<1> HIDE DEF u
<1>3. /\ Good(s') /\ s'.page = u.page /\ Order(s') = Order(u)
      /\ \A w \in VPage \ {v} : Holds(s', w) = Holds(u, w)
      /\ Holds(s', v) = x
  BY <1>1, <1>2, StoredGood DEF Accessed
<1> QED BY <1>1, <1>2, <1>3 DEF Accessed

\* Every step keeps the invariant.
LEMMA NextIInv == IInv /\ [Next]_vars => IInv'
<1> SUFFICES ASSUME IInv, [Next]_vars PROVE IInv'
  OBVIOUS
<1>1. ASSUME NEW v \in VPage, Load(v) PROVE IInv'
  <2>1. Good(s') /\ panic' = FALSE
    BY <1>1, LoadStep DEF Accessed, Load
  <2> QED BY <2>1 DEF IInv, OnlyOffDevice
<1>2. ASSUME NEW v \in VPage, NEW x \in Val, Store(v, x) PROVE IInv'
  <2>1. Good(s') /\ panic' = FALSE
    BY <1>2, StoreStep DEF Accessed, Store
  <2> QED BY <2>1 DEF IInv, OnlyOffDevice
<1>3. ASSUME NEW v \in VPage, AccessPanics(v) PROVE IInv'
  <2>1. FaultPanics(s, v) /\ s' = s /\ panic' = TRUE
    BY <1>3 DEF AccessPanics, Fails
  <2>2. /\ s.free = {} /\ s.queue # <<>>
        /\ Entry(s.pra_vaddr[Head(s.queue)]) >= max_swap_offset
    BY <2>1, PanicsOffDevice DEF IInv
  <2> QED BY <2>1, <2>2 DEF IInv, OnlyOffDevice
<1>4. CASE UNCHANGED vars
  BY <1>4 DEF IInv, OnlyOffDevice, vars
<1> QED BY <1>1, <1>2, <1>3, <1>4 DEF Next, Panicked

\* The queue of the FIFO manager and the page table stay in step, and a swap entry
\* names a slot of the device that is its page's own.
THEOREM QueueInStep == Spec => []IInv
  BY InitIInv, NextIInv, PTL DEF Spec

\* An access panics only when the oldest resident page has to make room and its
\* entry is beyond the device (swap_out, swap_in, alloc_pages).
THEOREM OnlyOffDeviceCorrect == Spec => []OnlyOffDevice
<1>1. IInv => OnlyOffDevice
  BY DEF IInv
<1> QED BY <1>1, QueueInStep, PTL

----------------------------------------------------------------------------
\* A page is resident in the cache when its entry is valid.
LEMMA ResidentMapped ==
    ASSUME Good(s), NEW v \in VPage
    PROVE  Cache!Resident(v) <=> s.page[v] # NULL
  BY OrderFields DEF Cache!Resident

\* Every step is a step of the cache.
LEMMA StepRefines ==
    ASSUME IInv, IInv', [Next]_vars
    PROVE  [Cache!CNext]_(Cache!cvars)
<1> DEFINE mem(t) == [w \in VPage |-> Holds(t, w)]
<1>1. ASSUME NEW v \in VPage, Accessed(s, s', v)
      PROVE  /\ s.page[v] # NULL => Cache!Hit(v)
             /\ s.page[v] = NULL => Cache!Miss(v)
             /\ mem(s') = [mem(s) EXCEPT ![v] = Holds(s', v)]
  <2>1. Cache!Resident(v) <=> s.page[v] # NULL
    BY ResidentMapped DEF IInv
  <2>2. mem(s') = [mem(s) EXCEPT ![v] = Holds(s', v)]
    BY <1>1 DEF Accessed
  <2>3. ASSUME s.page[v] # NULL PROVE Cache!Hit(v)
    BY <1>1, <2>1, <2>3 DEF Cache!Hit, Accessed
  <2>4. ASSUME s.page[v] = NULL PROVE Cache!Miss(v)
    BY <1>1, <2>1, <2>4 DEF Cache!Miss, Accessed
  <2> QED BY <2>2, <2>3, <2>4
<1>2. ASSUME NEW v \in VPage, Load(v) PROVE Cache!CNext
  <2>1. Accessed(s, s', v) /\ (Holds(s, v) # NULL => Holds(s', v) = Holds(s, v))
    BY <1>2, LoadStep
  <2>2. last' = <<"R", v, s.page[v] = NULL>>
    BY <1>2 DEF Load
  <2>3. \/ mem(s') = mem(s)
        \/ mem(s)[v] = NULL /\ \E x \in Val : mem(s') = [mem(s) EXCEPT ![v] = x]
    <3>1. CASE Holds(s, v) = NULL
      BY <1>1, <2>1, <3>1 DEF Accessed
    <3>2. CASE Holds(s, v) # NULL
      BY <1>1, <2>1, <3>2
    <3> QED BY <3>1, <3>2
  <2>4. CASE s.page[v] # NULL
    <3>1. Cache!Hit(v) /\ last' = <<"R", v, FALSE>>
      BY <1>1, <2>1, <2>2, <2>4
    <3>2. Cache!Read(v, FALSE)
      BY <2>3, <3>1 DEF Cache!Read
    <3> QED BY <3>1, <3>2 DEF Cache!CNext
  <2>5. CASE s.page[v] = NULL
    <3>1. Cache!Miss(v) /\ last' = <<"R", v, TRUE>>
      BY <1>1, <2>1, <2>2, <2>5
    <3>2. Cache!Read(v, TRUE)
      BY <2>3, <3>1 DEF Cache!Read
    <3> QED BY <3>1, <3>2 DEF Cache!CNext
  <2> QED BY <2>4, <2>5
<1>3. ASSUME NEW v \in VPage, NEW x \in Val, Store(v, x) PROVE Cache!CNext
  <2>1. Accessed(s, s', v) /\ Holds(s', v) = x
    BY <1>3, StoreStep
  <2>2. last' = <<"W", v, s.page[v] = NULL>>
    BY <1>3 DEF Store
  <2>3. mem(s') = [mem(s) EXCEPT ![v] = x]
    BY <1>1, <2>1
  <2>4. CASE s.page[v] # NULL
    <3>1. Cache!Hit(v) /\ last' = <<"W", v, FALSE>>
      BY <1>1, <2>1, <2>2, <2>4
    <3>2. Cache!Write(v, FALSE)
      BY <2>3, <3>1 DEF Cache!Write
    <3> QED BY <3>1, <3>2 DEF Cache!CNext
  <2>5. CASE s.page[v] = NULL
    <3>1. Cache!Miss(v) /\ last' = <<"W", v, TRUE>>
      BY <1>1, <2>1, <2>2, <2>5
    <3>2. Cache!Write(v, TRUE)
      BY <2>3, <3>1 DEF Cache!Write
    <3> QED BY <3>1, <3>2 DEF Cache!CNext
  <2> QED BY <2>4, <2>5
<1>4. ASSUME s' = s, last' = last PROVE UNCHANGED Cache!cvars
  BY <1>4 DEF Cache!cvars
<1> QED BY <1>2, <1>3, <1>4 DEF Next, AccessPanics, Panicked, vars

\* Demand paging with frames, swap slots and a queue implements a cache that loses
\* no contents and replaces first in, first out.
THEOREM PagingRefines == Spec => FifoPaging
<1>1. Init => Cache!CInit
  <2> SUFFICES ASSUME Init PROVE Cache!CInit
    OBVIOUS
  <2>1. PICK d \in [Frame -> Val] : s = InitState(d)
    BY DEF Init
  <2>2. Order(s) = <<>> /\ \A v \in VPage : Holds(s, v) = NULL
    BY <2>1, InitGood
  <2> QED BY <2>2 DEF Init, Cache!CInit
<1>2. IInv /\ IInv' /\ [Next]_vars => [Cache!CNext]_(Cache!cvars)
  BY StepRefines
<1> QED BY <1>1, <1>2, QueueInStep, PTL DEF Spec, FifoPaging, Cache!CSpec
=============================================================================
