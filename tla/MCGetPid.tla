------------------------------ MODULE MCGetPid ------------------------------
(***************************************************************************)
(* get_pid with few identifiers, so that last_pid wraps, the list fills up *)
(* to MAX_PROCESS and scans start over.                                    *)
(***************************************************************************)
EXTENDS GetPid
=============================================================================
