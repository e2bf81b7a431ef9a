------------------------------- MODULE MCSwap -------------------------------
(* Instances of Swap for TLC. *)
EXTENDS Swap

\* The memory and the device as they are at boot, where check_swap passes.
Boot == INSTANCE Swap WITH
    VPage <- 1 .. 5, Frame <- 1 .. 4, Val <- {"a", "b", "c", "d", "e", "none"},
    max_swap_offset <- 7, UInt <- 2 ^ 16
ASSUME CheckSwap == Boot!check_swap
=============================================================================
