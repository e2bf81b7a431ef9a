------------------------------ MODULE UserMemory ------------------------------
(***************************************************************************)
(* What the memory of user processes promises: every address space holds   *)
(* its own values, fork copies them all at once, exit drops them all at    *)
(* once, and nothing else a process does is seen in another space.         *)
(* PageTable implements this with page tables and reference counts.        *)
(***************************************************************************)
CONSTANTS
    Space,   \* names of address spaces
    Addr,    \* user pages
    Val,     \* what a page may hold
    NULL

VARIABLES
    alive,   \* spaces in use
    view,    \* view[d][a]: what page a of d holds, NULL when nothing is mapped
    copying  \* the space that is being copied, or NULL

uvars == <<alive, view, copying>>

Nothing == [a \in Addr |-> NULL]

UInit == alive = {} /\ view = [d \in Space |-> Nothing] /\ copying = NULL

\* A new space is empty.
UCreate == \E d \in Space \ alive :
    /\ copying = NULL
    /\ alive' = alive \cup {d}
    /\ UNCHANGED <<view, copying>>

\* fork: begun on a living space, it ends with a copy of all of it, or of nothing.
UForkBegins ==
    /\ copying = NULL /\ copying' \in alive
    /\ UNCHANGED <<alive, view>>

UFork == \E d \in Space \ alive :
    /\ copying # NULL
    /\ alive' = alive \cup {d}
    /\ view' = [view EXCEPT ![d] = view[copying]]
    /\ copying' = NULL

UForkFails ==
    /\ copying # NULL /\ copying' = NULL
    /\ UNCHANGED <<alive, view>>

\* The first touch of a page shows whatever its frame held.
UTouch == \E d \in alive, a \in Addr :
    /\ copying = NULL
    /\ view[d][a] = NULL
    /\ view'[d][a] \in Val
    /\ view' = [view EXCEPT ![d][a] = view'[d][a]]
    /\ UNCHANGED <<alive, copying>>

UWrite == \E d \in alive, a \in Addr :
    /\ copying = NULL
    /\ view[d][a] \in Val
    /\ view'[d][a] \in Val \ {view[d][a]}
    /\ view' = [view EXCEPT ![d][a] = view'[d][a]]
    /\ UNCHANGED <<alive, copying>>

UExit == \E d \in alive :
    /\ copying = NULL
    /\ alive' = alive \ {d}
    /\ view' = [view EXCEPT ![d] = Nothing]
    /\ UNCHANGED copying

UNext == UCreate \/ UForkBegins \/ UFork \/ UForkFails \/ UTouch \/ UWrite \/ UExit

USpec == UInit /\ [][UNext]_uvars
=============================================================================
