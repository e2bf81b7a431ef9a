------------------------------ MODULE FifoCache ------------------------------
(***************************************************************************)
(* What demand paging promises: a read finds what was written last, at     *)
(* most Size pages are resident, and the page that has been resident       *)
(* longest makes room.  Swap implements this with frames and swap slots.   *)
(***************************************************************************)
EXTENDS Naturals, Sequences

CONSTANTS
    VPage,   \* virtual pages
    Size,    \* pages that fit
    Val,     \* what a page may hold
    NULL

VARIABLES
    order,   \* resident pages, oldest arrival first
    mem,     \* what a page holds, NULL before the first access
    last     \* the last access: its kind, page, and whether it missed

cvars == <<order, mem, last>>

Resident(v) == \E i \in 1 .. Len(order) : order[i] = v

CInit == order = <<>> /\ mem = [v \in VPage |-> NULL] /\ last = NULL

\* The first read of a page may show anything.
Read(v, miss) ==
    /\ last' = <<"R", v, miss>>
    /\ \/ mem' = mem
       \/ mem[v] = NULL /\ \E x \in Val : mem' = [mem EXCEPT ![v] = x]

Write(v, miss) ==
    /\ last' = <<"W", v, miss>>
    /\ \E x \in Val : mem' = [mem EXCEPT ![v] = x]

Hit(v) == Resident(v) /\ UNCHANGED order

Miss(v) ==
    /\ ~Resident(v)
    /\ order' = IF Len(order) < Size THEN Append(order, v) ELSE Append(Tail(order), v)

CNext == \E v \in VPage :
    \/ Hit(v) /\ (Read(v, FALSE) \/ Write(v, FALSE))
    \/ Miss(v) /\ (Read(v, TRUE) \/ Write(v, TRUE))

CSpec == CInit /\ [][CNext]_cvars
=============================================================================
