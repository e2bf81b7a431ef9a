----------------------------- MODULE MCPrograms -----------------------------
(* Instances of Programs for TLC. *)
EXTENDS Programs

CONSTANTS p1, p2, p3

ThreePids == {p1, p2, p3}
Programs == {"exit", "forktest", "spin", "waitkill", "badarg", "forktree", "yield", "faultread", "any"}
=============================================================================
