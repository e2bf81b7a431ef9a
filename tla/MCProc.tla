-------------------------------- MODULE MCProc --------------------------------
(***************************************************************************)
(* Small instances of Proc.  Pids are interchangeable: get_pid is          *)
(* abstracted to any unused pid, so user pids form a symmetry set in the   *)
(* safety run.  The liveness run does not use it.                          *)
(***************************************************************************)
EXTENDS Proc, TLC

CONSTANTS p1, p2, p3

TwoUsers == {p1, p2}
ThreeUsers == {p1, p2, p3}
UserSymmetry == Permutations(UserPid)
NoFailures == {}
AllFailures == {"proc", "mm", "icode"}
=============================================================================
