------------------------------ MODULE LoadIcode ------------------------------
(***************************************************************************)
(* do_execve and load_icode of kern/process/proc.c: the old address space  *)
(* goes, a new one is built from the program headers, page by page, and    *)
(* what was built is taken down when a step fails.                         *)
(*                                                                         *)
(* Memory is bytes by user address.  A byte is NULL where no page is       *)
(* mapped, Junk on a page that was just allocated, Zero, or <<k, j>>: byte *)
(* j of segment k in the binary.  Allocations may fail.                    *)
(***************************************************************************)
EXTENDS VmaList, SequencesExt

CONSTANTS
    Binaries,      \* program headers: sequences of [load, va, filesz, memsz]
    STACKPAGES,    \* pages of the stack area
    STACKMAPPED,   \* pages of it that are allocated at once
    MayFail        \* memory may run out

ASSUME LoadAssumption ==
    /\ STACKPAGES \in Nat \ {0} /\ STACKMAPPED \in 0 .. STACKPAGES /\ MayFail \in BOOLEAN
    /\ Binaries \subseteq Seq([load : BOOLEAN, va : Addr, filesz : Nat, memsz : Nat])
    /\ \A b \in Binaries : \A k \in 1 .. Len(b) : b[k].va + b[k].memsz < Top

VARIABLES
    phs,     \* the program headers, ELF_MAGIC in place or not
    magic,
    k,       \* ph
    at,      \* start, la and from of the segment being loaded
    areas,   \* mmap_list of the new mm
    mem,     \* user memory of the new mm
    held,    \* what load_icode has allocated: "mm", "pgdir"
    old,     \* mm_count of the old mm, 0 when there is none
    ret,     \* NULL, "ok" or an error code
    pc

vars == <<phs, magic, k, at, areas, mem, held, old, ret, pc>>

Zero == <<0, 0>>
Junk == <<0, 1>>

PageOf(a) == {b \in Addr : RoundDown(b) = RoundDown(a)}
Ph == phs[k]
FileEnd == Ph.va + Ph.filesz
MemEnd == Ph.va + Ph.memsz

Init ==
    /\ phs \in Binaries /\ magic \in BOOLEAN /\ old \in 0 .. 2
    /\ k = 1 /\ at = [start |-> 0, la |-> 0, from |-> 0]
    /\ areas = <<>> /\ mem = [a \in Addr |-> NULL]
    /\ held = {} /\ ret = NULL /\ pc = "execve"

Go(next) == pc' = next

\* do_execve: the name is checked, then the old mm is given up; it is released with
\* its last user (mm_count_dec), which also makes current->mm NULL.
do_execve ==
    /\ pc = "execve"
    /\ \/ ret' = "E_INVAL" /\ Go("returned") /\ UNCHANGED old
       \/ old' = (IF old = 0 THEN 0 ELSE old - 1) /\ Go("create") /\ UNCHANGED ret
    /\ UNCHANGED <<phs, magic, k, at, areas, mem, held>>

\* Mutant: the areas are left when a segment cannot be loaded.
CleanupNoExit(label) ==
    /\ held' = {} /\ areas' = <<>>
    /\ UNCHANGED mem

\* From a label of load_icode on: exit_mmap unmaps the pages of the areas,
\* put_pgdir and mm_destroy give back the rest.
Cleanup(label) ==
    /\ mem' = IF label = "mmap"
              THEN [a \in Addr |-> IF Scan(areas, a) # NULL THEN NULL ELSE mem[a]]
              ELSE mem
    /\ held' = held \ (IF label = "mm" THEN {"mm"} ELSE {"mm", "pgdir"})
    /\ areas' = <<>>

Fail(label, code) ==
    /\ Cleanup(label)
    /\ ret' = code /\ Go("do_exit")
    /\ UNCHANGED <<phs, magic, k, at, old>>

\* mm_create and setup_pgdir, each may fail; then the test of e_magic.
Create ==
    /\ pc = "create"
    /\ \/ /\ MayFail
          /\ ret' = "E_NO_MEM" /\ Go("do_exit")
          /\ UNCHANGED <<phs, magic, k, at, areas, mem, held, old>>
       \/ held' = {"mm"} /\ Go("pgdir") /\ UNCHANGED <<phs, magic, k, at, areas, mem, old, ret>>

SetupPgdir ==
    /\ pc = "pgdir"
    /\ \/ MayFail /\ Fail("mm", "E_NO_MEM")
       \/ /\ held' = held \cup {"pgdir"} /\ Go("elf")
          /\ UNCHANGED <<phs, magic, k, at, areas, mem, old, ret>>

CheckMagic ==
    /\ pc = "elf"
    /\ \/ ~magic /\ Fail("pgdir", "E_INVAL_ELF")
       \/ magic /\ Go("header") /\ UNCHANGED <<phs, magic, k, at, areas, mem, held, old, ret>>

\* mm_map as Vmm has it, on an empty cache: refused, out of memory, an
\* assertion, or the area is there.
Area(addr, len) == [start |-> RoundDown(addr), end |-> RoundUp((addr + len) % Top), flags |-> {}]
MapFails(v) == ~UserAccess(v.start, v.end) \/ Refused(areas, NULL, v.start, v.end)
MapPanics(v) == ~MapFails(v) /\ ~InsertAsserts(areas, v)
MapDone(v) == ~MapFails(v) /\ InsertAsserts(areas, v) /\ areas' = Inserted(areas, v)

Panic == Go("panic") /\ UNCHANGED <<phs, magic, k, at, areas, mem, held, old, ret>>

\* The next program header.
Header ==
    /\ pc = "header" /\ k <= Len(phs)
    /\ LET v == Area(Ph.va, Ph.memsz)
       IN  \/ ~Ph.load /\ k' = k + 1 /\ UNCHANGED <<phs, magic, at, areas, mem, held, old, ret, pc>>
           \/ Ph.load /\ Ph.filesz > Ph.memsz /\ Fail("mmap", "E_INVAL_ELF")
           \/ Ph.load /\ Ph.filesz <= Ph.memsz /\ MapFails(v) /\ Fail("mmap", "E_INVAL")
           \/ Ph.load /\ Ph.filesz <= Ph.memsz /\ ~MapFails(v) /\ MayFail /\ Fail("mmap", "E_NO_MEM")
           \/ Ph.load /\ Ph.filesz <= Ph.memsz /\ MapPanics(v) /\ Panic
           \/ /\ Ph.load /\ Ph.filesz <= Ph.memsz /\ MapDone(v)
              /\ at' = [start |-> Ph.va, la |-> RoundDown(Ph.va), from |-> 0]
              /\ Go("file")
              /\ UNCHANGED <<phs, magic, k, mem, held, old, ret>>

\* The bytes that one iteration fills: from start to the end of the page or of
\* the part.
Size(start, la, end) ==
    LET off == start - la
        upto == la + PGSIZE
    IN  IF end < upto THEN PGSIZE - off - (upto - end) ELSE PGSIZE - off

\* A page at la is allocated, n bytes from start on are what fill says.
PageFilled(n, fill) ==
    mem' = [a \in Addr |-> IF at.start <= a /\ a < at.start + n THEN fill[a]
                           ELSE IF a \in PageOf(at.la) THEN Junk ELSE mem[a]]

FileByte(a) == <<k, at.from + (a - at.start)>>

Advance(n) == at' = [start |-> at.start + n, la |-> at.la + PGSIZE, from |-> at.from + n]

CopyPage ==
    /\ pc = "file" /\ at.start < FileEnd
    /\ \/ MayFail /\ Fail("mmap", "E_NO_MEM")
       \/ LET n == Size(at.start, at.la, FileEnd)
          IN  /\ PageFilled(n, [a \in Addr |-> FileByte(a)])
              /\ Advance(n)
              /\ UNCHANGED <<phs, magic, k, areas, held, old, ret, pc>>

NextHeader == k' = k + 1 /\ Go("header")

\* The assertion behind the zeroing of a partial page.
TailAsserts(start, end) ==
    (end < at.la /\ start = end) \/ (end >= at.la /\ start = at.la)

\* Mutant: the rest of the last file page is not cleared.
ZeroedNone(n) == UNCHANGED mem

\* n bytes of the page that is already there.
Zeroed(n) == mem' = [a \in Addr |-> IF at.start <= a /\ a < at.start + n THEN Zero ELSE mem[a]]

\* What is left of the page behind offset off, or of the segment.
RestOfPage(off) == IF MemEnd < at.la THEN PGSIZE - off - (at.la - MemEnd) ELSE PGSIZE - off

\* The file part is done: the rest of its last page belongs to the bss.
BssHead ==
    /\ pc = "file" /\ at.start >= FileEnd
    /\ \/ /\ at.start < at.la /\ at.start = MemEnd
          /\ NextHeader
          /\ UNCHANGED <<phs, magic, at, areas, mem, held, old, ret>>
       \/ LET n == RestOfPage(at.start + PGSIZE - at.la)
          IN  /\ at.start < at.la /\ at.start # MemEnd
              /\ Zeroed(n)
              /\ at' = [at EXCEPT !.start = @ + n]
              /\ Go(IF TailAsserts(at.start + n, MemEnd) THEN "bss" ELSE "bad_tail")
              /\ UNCHANGED <<phs, magic, k, areas, held, old, ret>>
       \/ /\ at.start >= at.la
          /\ Go("bss")
          /\ UNCHANGED <<phs, magic, k, at, areas, mem, held, old, ret>>

BssPage ==
    /\ pc = "bss" /\ at.start < MemEnd
    /\ \/ MayFail /\ Fail("mmap", "E_NO_MEM")
       \/ LET n == Size(at.start, at.la, MemEnd)
          IN  /\ PageFilled(n, [a \in Addr |-> Zero])
              /\ Advance(n)
              /\ UNCHANGED <<phs, magic, k, areas, held, old, ret, pc>>

BssEnd ==
    /\ pc = "bss" /\ at.start >= MemEnd
    /\ NextHeader
    /\ UNCHANGED <<phs, magic, at, areas, mem, held, old, ret>>

\* The user stack; its upper pages are allocated at once, which is asserted.
Stack ==
    /\ pc = "header" /\ k > Len(phs)
    /\ LET v == Area(USERTOP - STACKPAGES * PGSIZE, STACKPAGES * PGSIZE)
       IN  \/ MapFails(v) /\ Fail("mmap", "E_INVAL")
           \/ ~MapFails(v) /\ MayFail /\ Fail("mmap", "E_NO_MEM")
           \/ MapPanics(v) /\ Panic
           \/ MapDone(v) /\ MayFail /\ Go("panic")
              /\ UNCHANGED <<phs, magic, k, at, mem, held, old, ret>>
           \/ /\ MapDone(v)
              /\ mem' = [a \in Addr |-> IF USERTOP - STACKMAPPED * PGSIZE <= a /\ a < USERTOP
                                        THEN Junk ELSE mem[a]]
              /\ ret' = "ok" /\ Go("returned")
              /\ UNCHANGED <<phs, magic, k, at, held, old>>

Ended == pc \in {"returned", "do_exit", "panic", "bad_tail"} /\ UNCHANGED vars

Next ==
    \/ do_execve \/ Create \/ SetupPgdir \/ CheckMagic
    \/ Header \/ CopyPage \/ BssHead \/ BssPage \/ BssEnd
    \/ Stack
    \/ Ended

Spec == Init /\ [][Next]_vars

----------------------------------------------------------------------------
\* Type invariant of what load_icode builds, and of the count of the old mm.
TypeOK ==
    /\ areas \in Seq(Vma)
    /\ held \subseteq {"mm", "pgdir"} /\ old \in 0 .. 2
    /\ at.start \in Nat /\ at.la \in Nat /\ at.from \in Nat

\* What byte a of user memory should be after the segments before n are loaded.
Image(n, a) ==
    LET owner == {j \in 1 .. n - 1 : phs[j].load /\ phs[j].va <= a /\ a < phs[j].va + phs[j].memsz}
        j == CHOOSE i \in owner : TRUE
    IN  IF a - phs[j].va < phs[j].filesz THEN <<j, a - phs[j].va>> ELSE Zero
Owned(n, a) ==
    \E j \in 1 .. n - 1 : phs[j].load /\ phs[j].va <= a /\ a < phs[j].va + phs[j].memsz

\* However segments and their file parts lie on the pages, every byte of a loaded
\* segment is the byte of the binary, or zero behind its file part: no segment
\* overwrites another and no byte of the bss is left as the page had it, and the
\* assertion about the partial page in front of the bss holds.
ImageExact ==
    /\ pc \in {"header", "returned"} => \A a \in Addr : Owned(k, a) => mem[a] = Image(k, a)
    /\ pc # "bad_tail"

\* A failed execve leaves nothing behind: no page, no area, no page directory.
FailsCleanly ==
    pc = "do_exit" => held = {} /\ areas = <<>> /\ \A a \in Addr : mem[a] = NULL

=============================================================================
