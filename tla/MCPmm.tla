-------------------------------- MODULE MCPmm --------------------------------
(***************************************************************************)
(* default_pmm_manager on a handful of pages: enough for several blocks,   *)
(* for splits, and for merges on either and on both sides.                 *)
(***************************************************************************)
EXTENDS DefaultPmm
=============================================================================
