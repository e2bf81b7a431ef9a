----------------------------- MODULE MCLoadIcode -----------------------------
(* Instances of LoadIcode for TLC: pages of three bytes. *)
EXTENDS LoadIcode

Segments == {s \in [load : {TRUE}, va : 3 .. 8, filesz : 0 .. 4, memsz : 0 .. 5] :
                s.filesz <= s.memsz \/ s.filesz = s.memsz + 1}

\* A segment anywhere, of any size, and one that is in its way, above it, or not loaded;
\* and segments that meet the stack.
Seg(load, va, filesz, memsz) == [load |-> load, va |-> va, filesz |-> filesz, memsz |-> memsz]
Second == {Seg(TRUE, 6, 1, 5), Seg(TRUE, 3, 2, 4), Seg(TRUE, 10, 4, 5), Seg(FALSE, 3, 1, 1)}
OneOrTwo ==
    {<<s>> : s \in Segments} \cup {<<s, t>> : s \in Segments, t \in Second}
        \cup {<<Seg(TRUE, 16, 2, 5)>>, <<Seg(TRUE, 22, 1, 2)>>}
=============================================================================
