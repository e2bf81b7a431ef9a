------------------------------- MODULE PhysMem -------------------------------
(***************************************************************************)
(* What a physical page allocator of the kernel promises: a set of free    *)
(* pages, first fit by address.  alloc_pages(n) returns the lowest run of  *)
(* n free pages, and NULL only when there is none; free_pages gives a run  *)
(* back.  DefaultPmm implements this with a linked list of blocks.         *)
(***************************************************************************)
EXTENDS Integers

CONSTANTS
    NPage,   \* pages managed: 0 .. NPage - 1
    NULL

VARIABLES
    free,    \* free pages
    ret      \* what the last alloc_pages returned

pvars == <<free, ret>>

Page == 0 .. NPage - 1
Run(b, k) == b .. b + k - 1

PInit == free = Page /\ ret = NULL

\* b is the lowest page at which k free pages start.
FirstFit(b, k) ==
    /\ Run(b, k) \subseteq free
    /\ \A c \in Page : Run(c, k) \subseteq free => b <= c

PAlloc == \E k \in 1 .. NPage, b \in Page :
    /\ FirstFit(b, k)
    /\ free' = free \ Run(b, k)
    /\ ret' = b

PAllocFails == \E k \in 1 .. NPage :
    /\ \A c \in Page : ~(Run(c, k) \subseteq free)
    /\ ret' = NULL
    /\ UNCHANGED free

PFree == \E b \in Page, k \in 1 .. NPage :
    /\ Run(b, k) \subseteq Page \ free
    /\ free' = free \cup Run(b, k)
    /\ UNCHANGED ret

PNext == PAlloc \/ PAllocFails \/ PFree

PSpec == PInit /\ [][PNext]_pvars
=============================================================================
