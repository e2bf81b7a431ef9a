------------------------------- MODULE Library -------------------------------
(***************************************************************************)
(* The services of the kernel that are called one at a time and share no   *)
(* state: the memory and string functions of string.c, formatting by       *)
(* printfmt.c, and the heap of kmalloc.c.  A behaviour is a sequence of    *)
(* calls of one of the three.                                              *)
(***************************************************************************)
EXTENDS CString, PrintFmt, Kmalloc

VARIABLE part   \* what is called

libvars == <<mem, fmtvars, vars, part>>

LibInit ==
    /\ MemInit
    /\ FmtInit
    /\ Init
    /\ part \in {"string", "format", "heap"}
    /\ part # "format" => dir = <<>> /\ fmt = <<"%">> /\ size = 0

LibNext ==
    \/ part = "string" /\ MemNext /\ UNCHANGED <<fmtvars, vars, part>>
    \/ part = "format" /\ FmtNext /\ UNCHANGED <<mem, vars, part>>
    \/ part = "heap" /\ Next /\ UNCHANGED <<mem, fmtvars, part>>

LibSpec == LibInit /\ [][LibNext]_libvars

----------------------------------------------------------------------------
\* Whatever the bytes of memory, every function that copies, fills, compares or scans
\* it computes what its comment says (string.c), and writes nothing else.
MemoryExact == part = "string" => MemoryCorrect

\* Whatever the text, strtol reads the longest number in it and stops behind it, for
\* every base, sign and prefix, but for the prefix 0X.
StrtolExact == part = "string" => StrtolCorrect
=============================================================================
