------------------------------- MODULE PidAlloc -------------------------------
(***************************************************************************)
(* What the kernel promises about process identifiers: an allocation hands *)
(* out the first identifier, counting cyclically upward from the one       *)
(* handed out before, that no listed process has.  A freed identifier is   *)
(* therefore reused as late as possible.  GetPid implements this.          *)
(***************************************************************************)
EXTENDS Integers, FiniteSets

CONSTANT MAX_PID   \* identifiers are 1 .. MAX_PID - 1

Pid == 1 .. MAX_PID - 1

VARIABLES
    used,   \* the identifiers of the processes in proc_list
    prev    \* the identifier handed out last, MAX_PID at boot

avars == <<used, prev>>

\* The identifiers strictly after a and strictly before b, cyclically.
Between(a, b) ==
    IF a < b THEN a + 1 .. b - 1 ELSE (a + 1 .. MAX_PID - 1) \cup (1 .. b - 1)

AInit == used = {} /\ prev = MAX_PID

\* A fork takes the next identifier that is not in use.
Alloc == \E p \in Pid \ used :
    /\ Between(prev, p) \subseteq used
    /\ used' = used \cup {p}
    /\ prev' = p

\* A reaped process gives its identifier back.
Free == \E p \in used :
    /\ used' = used \ {p}
    /\ UNCHANGED prev

ANext == Alloc \/ Free

ASpec == AInit /\ [][ANext]_avars
=============================================================================
