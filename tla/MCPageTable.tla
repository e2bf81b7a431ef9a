----------------------------- MODULE MCPageTable -----------------------------
(* Instances of PageTable for TLC: two entries per table. *)
EXTENDS PageTable

\* testbss in small: text in the first page table, bss in the next one, under the same
\* entry of the page directory.
TextBss == <<<<0, 1>>, <<2, 3>>>>
=============================================================================
