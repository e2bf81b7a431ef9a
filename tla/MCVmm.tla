-------------------------------- MODULE MCVmm --------------------------------
(* Instance of Vmm for TLC. *)
EXTENDS Vmm, TLC

Symm == Permutations(Mm)

\* The self test that vmm_init runs before there is any address space passes.
ASSUME CheckVmm == check_vma_struct
=============================================================================
