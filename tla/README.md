# A TLA+ model of nkucore

nkucore is a teaching kernel (ucore, RISC-V, one hart). This directory holds TLA+
models of its core, the TLC instances that check them, and proofs checked by TLAPS.
The definitions are translated from the source files named below; `PROJECT.json` maps each
definition to its lines.

## 1. Inventory

| Component | Source | State | Operations | Modules |
|---|---|---|---|---|
| Process management | `kern/process/proc.c` | `proc_list`, `hash_list`, `nr_process`, family pointers, `state`, `flags`, `wait_state` per process | `do_fork`, `do_exit`, `do_wait`, `do_kill`, `do_yield`, `do_execve`, `load_icode`, `get_pid`, kernel threads | `Proc`, `ProcessTree`, `GetPid`, `PidAlloc`, `LoadIcode` |
| Scheduler | `kern/schedule/sched.c` | `current`, `need_resched` | `schedule`, `wakeup_proc` | `Proc` |
| Traps, system calls, clock | `kern/trap`, `kern/syscall`, `kern/driver/clock.c` | `ticks` | dispatch, end of `trap()`, timer, page faults | `Proc`, `Vmm`, `Swap` |
| Physical page allocator | `kern/mm/default_pmm.c`, `libs/list.h` | free list, `property`, `PG_property`, `nr_free` | `init_memmap`, `alloc_pages`, `free_pages` | `DefaultPmm`, `PhysMem` |
| Page tables | `kern/mm/pmm.c` | page table entries, `Page.ref` | `get_pte`, `page_insert`, `page_remove`, `copy_range`, `unmap_range`, `exit_range`, `pgdir_alloc_page` | `PageTable`, `UserMemory` |
| Virtual memory areas | `kern/mm/vmm.c` | `mmap_list`, `mmap_cache` | `insert_vma_struct`, `find_vma`, `mm_map`, `dup_mmap`, `exit_mmap`, `mm_destroy`, `do_pgfault`, `user_mem_check` | `VmaList`, `Vmm` |
| Kernel heap | `kern/mm/kmalloc.c` | SLOB free list, `bigblocks` | `kmalloc`, `kfree`, `ksize` | `Kmalloc` |
| Swapping | `kern/mm/swap.c`, `swap_fifo.c`, `kern/fs`, `kern/driver/ide.c` | FIFO queue, `pra_vaddr`, swap slots | `swap_out`, `swap_in`, `do_pgfault` | `Swap`, `FifoCache` |
| Library | `libs/string.c`, `libs/printfmt.c` | none | all functions | `CString`, `PrintFmt`, `Library` |
| User programs | `user/`, `user/libs` | their variables | system calls | `Programs` |
| Console, monitor, debugging | `kern/driver`, `kern/debug` | – | – | no: section 7 |
| Boot | `kern/init`, `kern/libs` | – | – | no: section 7 |

How they interact. User programs enter the kernel by traps; `trap()` dispatches to the system
calls, which call `proc.c`. Processes share the process table and meet only there: `do_exit`
wakes the parent and gives children to `initproc`, `do_kill` marks others, `do_wait` sleeps and
reaps. The scheduler walks `proc_list`. `do_fork` takes a pid from `get_pid`, a
kernel stack from the page allocator and a copied address space from `dup_mmap`, which calls
`copy_range` for each area; `do_exit` ends in `exit_mmap`, which calls `unmap_range` and
`exit_range`. `do_execve` builds areas and pages anew. Areas and process structures live on the kernel heap,
heap and page tables on the page allocator, and the page allocator calls `swap_out` when
it has nothing left.

What is hard. There is one hart and the kernel is not preempted, so control changes hands only
inside `schedule()`; but it does so in the middle of `do_wait` and at the end of every trap, and
facts established before (a flag, a look at the children) are used after. The sibling lists are
unlinked at head, middle and tail by different processes. `get_pid` trusts an interval
computed by earlier calls, `find_vma` a cached area, `swap_out` the address noted when a page came in,
`kfree` a rover left by the last call. Page tables are freed by looking at what earlier calls have
cleared. Cleanup paths run when one allocation of several has failed. The lists of free pages and
of free heap blocks are edited by loops that have to be right for every order of frees.
The full list, line by line, is `hazards` in `PROJECT.json`.

What makes each part correct:

* processes: the tables agree; the family tree has no dangling pointer and `do_wait` meets every
  child; no wakeup is lost and somebody can always run; killed processes stop; pids are unique and
  found in bounded time;
* scheduler: every runnable process runs;
* page allocator: no page is handed out twice, a block that exists is found, lists stay merged;
* page tables: reference counts are the numbers of entries; nothing leaks; memory is private;
* areas: sorted and disjoint, fork copies, checks of user addresses are exact;
* heap: free and used blocks partition the memory taken from the page allocator;
* swapping: no contents are lost, first in first out, no panic before the device is used up;
* `load_icode`: the image is that of the binary, or nothing is left behind;
* library: the functions compute what their comments and names say.

## 2. Modules

| Module | Content |
|---|---|
| `PidAlloc` | Abstract: cyclic next-fit allocation of identifiers. |
| `GetPid` | `get_pid`, one action per path through its loop, with the `set_links`/`remove_links` of its callers. Implements `PidAlloc`. |
| `ProcessTree` | Abstract: what fork, exit, wait and kill promise, as a tree of processes. |
| `Proc` | The process life cycle: processes, system calls, traps, timer, scheduler. Implements `ProcessTree`. |
| `Programs` | The programs of `user/` as clients of `Proc`. |
| `PhysMem` | Abstract: a set of free pages, first fit by address. |
| `DefaultPmm` | The block list with its `next` and `prev` pointers, one loop iteration per step. Implements `PhysMem`. |
| `UserMemory` | Abstract: private memory per address space; fork copies it at once, exit drops it at once. |
| `PageTable` | Three-level tables and reference counts, one loop iteration per step. Implements `UserMemory`. |
| `VmaList` | Operators on the sorted list of areas, used by `Vmm` and `LoadIcode`. |
| `Vmm` | Address spaces: areas, cache, fork, destruction, page faults, checks of user addresses. |
| `LoadIcode` | `do_execve` and `load_icode`, byte by byte of a small user memory. |
| `Kmalloc` | The SLOB heap and big blocks. |
| `FifoCache` | Abstract: a first-in first-out cache that keeps what was written. |
| `Swap` | Demand paging with frames, swap slots and the FIFO queue. Implements `FifoCache`. |
| `CString`, `PrintFmt` | `string.c`, `printfmt.c`. |
| `Library` | `CString`, `PrintFmt` and `Kmalloc`, of which a behaviour calls one. |
| `MC*` | The instances TLC checks. |
| `GetPidProofs`, `ProcProofs`, `LoadIcodeProofs`, `PmmProofs`, `PageTableProofs`, `VmmProofs`, `KmallocProofs`, `SwapProofs` | Theorems about `GetPid`, `Proc` with `Programs`, `LoadIcode`, `DefaultPmm`, `PageTable`, `Vmm`, `Kmalloc` and `Swap`. |

Definitions marked `Mutant` are wrong variants of the one that follows. No specification uses
them; they are there to show that a property notices a plausible mistake in the code it is about.

### `Proc`

A step is a step of the process in `current`. `pc[p]` says where `p` continues: `user`, `trap_end`
(the tail of `trap()`), `do_wait`, `wait_woken` (behind the `schedule()` in `do_wait`), `do_exit`,
`reparent` (the loop of `do_exit`), `dead` (its last `schedule()`), and the places of the kernel
threads. `in_schedule` is set by a call of `schedule()`; the only step then is `Schedule`,
which scans the list as the code does and switches.

| Action | Code |
|---|---|
| `SysFork`, `SysForkRefused`, `SysForkNoStack`, `SysForkNoMm` | `do_fork` and its failure paths |
| `DoExit`, `ReparentChild`, `ReparentDone`, `InitExit` | `do_exit` |
| `SysWait`, `WaitReap`, `WaitSleep`, `WaitWoken`, `WaitNoChild` | `do_wait` |
| `SysKill`, `SysYield`, `SysExit`, `OtherTrap`, `FatalTrap`, `TrapEnd`, `Tick` | system calls, `trap()`, timer |
| `IdleLoop`, `InitMain`, `InitMainFails`, `InitLoop`, `InitEnd`, `Exec`, `ExecFails` | kernel threads |
| `Schedule`, `Halted` | `schedule`, `panic` |

Abstractions. A process is named by its pid, and any unused pid may be handed out; `GetPid` is about
which. A kernel stack is a unit of `nfree`; an address space is membership in `mm`. Failures of
`alloc_proc`, `copy_mm` and `load_icode` are enabled by `Failures`: they follow the contracts of
`kmalloc` and `alloc_page` (NULL when memory is short). `kfree` and
`alloc_proc` are taken together: the fields `alloc_proc` clears are cleared when the `proc_struct`
is freed. `SYS_exec` from user mode has no stub in `user/libs` and is left out, as are exit codes
and `runs`, which nothing in the kernel decides on.

### `Programs`

The composition of `Proc` with its users. `prog` is the program under test, a list of calls with the
result it wants and where it goes on otherwise; `ip`, `mem` and `exit_code` are the place, the
variables and the exit code of each process. `UserCall` makes the call at `ip` by the action of `Proc` it
stands for, `Kernel` is a step of the kernel that also delivers results: what `do_wait` returned, the
exit code of the child it reaped, `-E_KILLED` for a killed process. The program `any` makes any
call at any time. A loop of the sources is unrolled to the bounds `NYield`, `MaxChild` and `DEPTH`.

### `GetPid`

`CallFast` is a call that stays in the interval; `CallScan` enters the loop; `ScanCollide`,
`ScanRepeat` (`goto repeat`), `ScanOther`, `ScanEnd` are its iterations. `prev` is a history
variable, the pid handed out before, and is what `PidAlloc` counts from.

### `DefaultPmm`

Pages are indices, the list head is -1. `AllocScan`/`AllocTake`/`AllocFails` are the loop of
`default_alloc_pages`, `FreeCall`/`FreeBefore`/`FreeAfter`/`FreeScan`/`FreeLoopEnd`/`Merge` are
`default_free_pages`. `held`, what the clients have, is a history variable. `Clients` restricts them:
`any` not at all; `keep_top` never takes the topmost page; `ascending` takes single pages and frees them
above all free ones. The restrictions are needed because of finding 2 in section 6; both
describe real use (`basic_check` is ascending, and memory is seldom used up to its last page). A call that fails the assertion of
`default_free_pages`, that no page freed is the head of a free block, stops the machine and is not taken.

### `PageTable`

An address is a page number, split into three indices below `N`. `m` is what the frames hold: `kind`, the
entries of a table (`tab`), the reference count and, for a data page, one value. The module begins as
`pmm_init` does: `BootInsert` and `page_remove` are the calls by which `check_pgdir` and
`check_boot_pgdir` map, remap and unmap pages in `boot_pgdir`; `BootEnd` is their end. After that
address spaces are made (`setup_pgdir`), get pages (`LoadPage` for `load_icode`, `Fault` for
`do_pgfault`), are written, copied (`copy_mm`, then one `copy_range` step per page or skipped table)
and destroyed (`exit_mmap`, then `unmap_range` over all areas, then `exit_range` over all areas).
`call` is the operation in progress. At exhaustion, with swapping on and `check_mm_struct` NULL, an
allocation panics; before `swap_init`, in the self-tests, it returns NULL. Permissions are left to `Vmm`, page
replacement to `Swap`.

### `VmaList` and `Vmm`

Addresses are bytes of a small memory, pages have `PGSIZE` of them. `VmaList` has `find_vma` with its
cache, `insert_vma_struct` with its overlap assertions and the tests of `mm_map`. In `Vmm`,
`MapSegment` and `MapStack` are what `load_icode` does with areas, `copy_mm` begins `dup_mmap`, whose
iterations are `DupStep` (one area, from the last to the first) and `DupFails`; `UserMemCheck` and `do_pgfault` are
calls that change the cache or the page table. `mm_map` rounds a segment to pages, while the loops of `load_icode` allocate the
pages that have a byte of it (`SegPages`): a segment of size 0 that is not at a page boundary has an area and no page. The mark
`"EMPTY"` in the flags of such an area is history. `pte` is the permissions of each mapped page. `check_vma_struct` is
an operator that runs the self-test; TLC evaluates it when it starts.

### `LoadIcode`

`pc` follows the labels of `load_icode`: one step for the checks in front, one per program header, one per
page of the file part (`CopyPage`), the partial page of the bss (`BssHead`), its further
pages (`BssPage`), the stack, and `Cleanup` for the three labels of the error path. `mem` maps a user address to a byte of
the binary, zero, junk or nothing. Headers with `p_filesz > p_memsz`, overlapping segments, headers that are not
loaded and segments that meet the stack are among the inputs.

### `Kmalloc`

Memory is counted in units. `h` is the free list: `next` and `units` per free block and `slobfree`; the header of a
small block stays in `units`. A call is one step. `slob_alloc` and `slob_free` search along the list by position; a big block has
a descriptor that is itself a small block. `panic` is the assertion in `slob_alloc`.

### `Swap`

One area, whose page table exists, on the frames that `check_swap` leaves free. An access is
one step together with the fault it may cause, since the faults of a process do not overlap and
nothing else runs in the handler. `free`, `queue`, `pra_vaddr`, the table (`page`, `slot`), the disk
and the counter of faults are the fields of `s`. The disk offset is the page number plus one, as
`swap_out` computes it. `last` is a history variable. `check_swap`, the self-test of the boot, is evaluated by TLC when
it starts, on an instance as large as the original.

### `CString`, `PrintFmt`

`CString` computes with a memory of `L` bytes and a zero behind; each function is a recursive operator over that memory, and the properties
compare it with a definition by values and positions. Calls are those the comments of the functions
allow (no overlap for `strcpy` and `memcpy`). `PrintFmt` is `vprintfmt` as a state machine, one step per
character of text or flag or conversion, writing through `sprintputch`. `int` and `long` have
`IntMod` and `LongMod` values. `Library` puts both and `Kmalloc` in one run: no two of them share state.

## 3. Runs

| Run | Instance | Shows |
|---|---|---|
| `get_pid` | `MAX_PID` 7, `MAX_PROCESS` 5 | pids are distinct, the cached interval is exact, every call returns, `PidAlloc` is implemented |
| `proc_safety` | 3 user processes, 4 stacks, all failures | tables agree, family links, children reachable, no orphans, no lost wakeup, somebody runnable, `init_main`'s assertions, stacks; `ProcessTree` is implemented |
| `user_programs` | 8 programs of `user/` and `any`, 3 pids, fair | the programs' assertions hold, they end as `grade.sh` expects, round robin, reaping by init, killed processes stop |
| `pmm` | 5 pages, two kinds of clients | list sorted, linked, merged, exact; no page handed out twice; calls return; first fit implemented |
| `page_tables` | 9 frames, tables of 2, 2 areas as in `testbss`, 2 spaces | counts exact, nothing lost but empty tables, every table met is freed, private memory, calls end |
| `vm_areas` | 2 spaces, 4 pages of 2 bytes, 3 areas | lists sorted, `user_mem_check` exact, fork copies, permitted accesses served, self-test passes |
| `fifo_paging` | 5 pages, 3 frames, 6 slots, 2 values | `FifoCache` implemented, panics only beyond the device, self-test passes |
| `load_program` | pages of 3 bytes, 1 or 2 segments, failures | the image is exact or nothing is left |
| `library` | memory of 4 bytes; `int` of 4 bits, `long` of 6; 4 pages of 7 units, 6 sizes, 3 live blocks | `string.c` and `printfmt.c` against definitions; free list and blocks partition the memory, with room for what was asked, but for the rounding of `find_order` |
| `pmm_double_alloc` | 4 pages, any client | violation, finding 2 |
| `kill_then_wait` | 2 user processes, fair | violation, finding 1 |
| `exit_loses_tables` | 9 frames, tables of 2, 2 areas as in `testbss`, 1 space | violation, finding 3 |

### Bounds, and why they are enough

* `get_pid`: six pids for at most four listed processes let the search wrap in the middle of a
  scan and at the start of a call, with holes on both sides of the interval.
* `proc_safety`: three user processes are the least with which a child can be unlinked from head, middle
  and tail of a sibling list, and with which parent, child and grandchild exist next to `initproc`.
  `MAX_PROCESS` 5 is met, so the limit of `do_fork` is reached. Four stacks run out when one has been lost.
  User pids are interchangeable, so symmetry is used; no property of this run is a liveness property.
  `TICK_NUM` 2 is the least that has a tick that does not end a time slice.
* `user_programs`: three pids are as many as a program of the suite has processes at a time, once its loops are cut to
  two children and one level; loops only repeat what two rounds already do. `any` has two processes at a time.
* `pmm`: five pages allow merges with neither, either and both neighbours and a split between.
* `page_tables`: tables of two entries give eight pages. The second area begins in the page table of the first and goes on in the next one, under the
  same entry of the page directory: this is `user/testbss.c` in small, text and data at `0x800020`, then a bss of 4 MB over two more page tables. So
  `exit_range` meets tables it has freed, loses others, and `unmap_range` and `copy_range` skip holes at each level. Nine frames hold one
  whole space with all its tables, or two smaller ones, so fork meets exhaustion at different points. The proofs are for any areas.
* `vm_areas`: three areas have a first, a middle and a last (the areas of all spaces are counted while one is loaded; fork doubles them);
  lengths from zero to five bytes over pages of two start and end at every position, the two pages of the stack have a guard page, and addresses run over the top of user memory.
* `fifo_paging`: two pages more than frames, so that a page that was evicted can evict others before it returns.
  The last page has no slot: the panic happens.
* `load_program`: pages of three bytes have a first, a middle and a last byte; starts, file ends and memory ends
  fall on every one, in the same page and up to three pages apart.
* `library` has three independent parts (`part`): a behaviour calls the functions of one of `string.c`, `printfmt.c` and `kmalloc.c`.
  Blank, sign, two digits of which one is no octal digit, the letter of the prefix in both cases and a byte
  above 127; every overlap within four bytes. All combinations of up to three flag characters that do
  not end in a known conversion, and the known ones with every mix of flags, widths and length modifiers.
  Pages of seven units hold up to three of the small blocks; sizes are the least block, exact units, the last small size, the sizes at which
  slob and big blocks meet, and one that needs several pages and is no power of two.

Deadlock is checked in every run: a panicked or finished system stutters by an action of its own.
The two self-tests (`check_vma_struct`, `check_swap`) are ASSUMEs of `MCVmm` and `MCSwap`.

### Fairness

* `WF(KernelStep)` (`Kernel` in `Programs`): code in the kernel runs to its next
  `schedule()` or return; nothing in it blocks.
* `SF(Tick)`: the timer is periodic and a pending interrupt is taken as soon as interrupts are enabled, so a
  process cannot avoid it for ever by making system calls.
* In `Programs`, `SF(UserCall /\ current = p)` for each process: a process that gets the CPU again and again makes its next call,
  time slices being far longer than a call. The program `any` is not fair: it may loop without calls.
* `WF(Scan)` in `GetPid`, `WF(Step)` in `DefaultPmm`, and weak fairness of the three loops in
  `PageTable`: they run with interrupts disabled or at least without being preempted.

## 4. Proofs

`GetPidProofs`, for every `MAX_PID > MAX_PROCESS >= 2` (the `static_assert` of `get_pid`):
`PidsDistinct`, `SearchExact`, that a returned pid is valid and unused, and that `GetPid` implements `PidAlloc`. The
inductive invariant adds to `PidsDistinct` the ranges of the two static variables (`TypeOK`) and
`SearchExact`: entries compared so far lie outside the interval (the fast path is safe
because all have been), and every pid passed over is in use (which makes the pid the *next* free one). `SkipOne` needs that
a full turn of `last_pid` is impossible, which is the pigeonhole lemma `SomePidFree`.

`ProcProofs`, for any finite set of pids, any limits and any set of failing allocations
(`ProcAssumption`, `PidsSuffice`): `TypeOK`, `TableAgrees`, `FamilyLinks`, `ChildrenListed`,
`NoOrphans`, `NoLostWakeup`, `StacksBounded`, `SomeoneRunnable`, `InitAsserts`, and the action property `LifeCycle` (what the states of one process may
follow each other with; no run checks it, as `ImplementsProcessTree`, which one does, says more).
The inductive invariant `IInv` is the conjunction of

* `TypeOK`, `TableAgrees`, `FamilyLinks`, `NoOrphans`;
* `Control`: how `pc`, `state`, `wait_state` and the CPU go together. Needed everywhere: it says
  that only the current process can be in the loop of `do_exit`, and that a sleeper is in `do_wait`;
* `Kinship`: nobody is its own parent, `initproc` stays with `idleproc`, pointers of processes that do
  not exist are clear, and no older-sibling pointer leads to the head of a list. The last
  replaces, for a head whose `yptr` is stale, what `FamilyLinks` cannot say;
* `Reached`: every set closed under `optr` that contains `cptr[p]` contains all children of `p`. This is
  reachability without induction over paths; with `FamilyLinks` it gives `ChildrenListed`, and with
  the empty set it shows that no child is left when `do_exit`'s loop ends;
* `Sleepers`: `NoLostWakeup` in terms of parent pointers alone.

Steps are grouped: `QuietSteps` leave family, lists and states alone; `DoExitStep`, `SysKillStep`,
`WaitSleepStep`, `ReparentDoneStep` change states; `ForkedStep`, `ReparentChildStep`, `WaitReapStep` change
the family, and for these `Reached` is shown by exhibiting, for a closed set of the new state, a
closed set of the old one.

`SomeoneRunnable` and `InitAsserts` need more: that the family is a tree. `Tree` says so without paths, as two facts about
sets: a set of processes always has a member whose parent is outside it (`Rises`) and one that has no child in it (`Sinks`).
`do_fork` adds a leaf, `do_exit` moves children below `initproc`, `do_wait` removes a leaf, and each time the member of the old set
serves for the new one. If nobody could run, `initproc` would sleep; `Sinks`, for the set of sleepers, gives one
without a sleeping child, whose children are zombies; it waits for one of them, and by `NoLostWakeup` does not sleep.
At the end of `init_main` `initproc` has no child, so by `Rises` nobody else exists.

`ProcessTreeRefinement` shows that `Proc` implements `ProcessTree`. A process in the loop of `do_exit` is seen as having no children any more (`NewParent`),
so `DoExit` is the whole of `TExit`, an iteration of the loop is invisible unless it wakes `initproc` (`TInherit`), and its end is invisible because, by `Reached`
with the empty set, nobody is left. `do_wait` takes and sleeps on the right children because its walk meets exactly those (`WaitedIsWanted`).
`ProgramsRunOnProc` shows that `Programs` implements `Proc`, which makes all of this hold while the programs of `user/` run.

`ProgramsCorrect` proves `ProgramsPass` for any lengths of the programs' loops (`ProgramsAssumption`), provided that `load_icode` does not fail: if it
does, `do_execve` ends the process without the program, with a code that is none of the program's. `StepKinds` first says what a step of `Proc` is to a program
(`ProgramStep`: a call, a return from `do_wait`, an orphan reaped by `initproc`, a process that obeys a kill, ...), using `IInv` for the kernel's share.
The invariant `PInv` then has a part for every program (`Running`: who waits does so by the call at its `ip`, who dies does so by its exit call or marked) and one per program:

* `SimplePasses` (`yield`, `forktree`, `faultread`): nobody waits and nobody is marked;
* `OnePasses` (`exit`, `badarg`, `spin`): from its second call to the one that reaps it the main process has one child, the `pid` it remembers, and of these only the child of `spin` is ever marked;
* `TestPasses` (`forktest`): how many processes there are at each call of the main process, so that the `max_child` calls of `wait` find a child and the last one finds none;
* `KillPasses` (`waitkill`): the second child finds the root and the first child alive when it kills them (`RootFound`, `FirstFound`), because the first loops, the root waits for it (`RootWaits`), and
  nobody else kills; and the root is marked before the first child is (`RootFirst`). `waitpid` does come back to the root in the kernel, when the child dies, but `trap()` then sees the mark, and
  the `panic` behind the call is never reached.

`LoadIcodeProofs`, for any page size, user range and program headers that end below `Top` (`VmaAssumption`, `LoadAssumption`): `ImageExact`, `FailsCleanly` and type correctness. The
inductive invariant `LInv` is about the states between two iterations of the loops:

* `Position`: where `start` and `la` are. Either nothing has been copied, or the page below `la` was filled last and `start` is its end or the end of a
  part. Without it `start` could be two pages behind `la`, and the size computed for the rest of a page (`RestOfPage`) would be wrong;
* `LoadedExact`: of each segment what is below `DoneTo` is as in the binary. A new page turns the rest of it into junk, which must not be below `DoneTo` of any segment:
* `SegmentsApart`: each segment placed has an area that holds it, rounded to pages, and no two areas share a page. This is what the assertions of
  `insert_vma_struct` are good for; with it there is only one image to be exact about (`OwnerUnique`);
* `Covered`: every page is in an area. `exit_mmap` goes over areas, so this is why the error path leaves no page behind;
* `NoneYet`: before the first header there is nothing, and behind the error path nothing again.

The file and the bss loop share their lemmas: `Window` says which bytes an iteration fills, `PageStep` and `HeadStep` that `Position` and `LoadedExact` are kept.

`PmmProofs`, for any number of pages (`ListInvariant`, from which `ListExact`, `HandsOutFree` and the refinement of `PhysMem` follow).
The inductive invariant `Good` is about the states between two iterations of the loops:

* `Ascends`: `next` of a node is the least block above it, or the head. This is the list without an order of visits: the lemmas on
  `list_add` and `list_del` say which set it then ascends through. `Mirrors` is the same for `prev`;
* `Covers`: the blocks flagged in `PG_property` make up the free pages and do not overlap; `Apart`: none touch but at the block being freed;
* `Allocating`: blocks passed are too small, so the first that fits is the lowest, and the end of the list means NULL;
* `KeepTop` and `Ascending`: what the missing `break` (finding 2) leaves of `prev` under the two disciplines of the clients. With the first the loop
  never adds at the tail, and the list is mirrored all along. With the second it does, and `prev` of the last block is the block itself; it is
  harmless because blocks of such clients are never deleted through that pointer.

`HandsOutFree` and the refinement are proved for `"any" \notin Clients`; with `any` they are false, which is what `pmm_double_alloc` shows.

`PageTableProofs`, for any frames, size of tables, areas and bounds (`PageTableAssumption`): `RefExact`, `NoLeak`, `TablesFreed`, type correctness, and that
`PageTable` implements `UserMemory`. Areas may lie anywhere, also under one entry of the page directory but in different page tables, where
`exit_range` loses tables (finding 3). The inductive invariant `TInv` consists of

* `Sound`: entries lead from page directories to second-level tables, from those to page tables, from those to pages (`Levels`), a page is
  counted once per entry and a table has at most one entry above it (`Counted`). The last is why freeing a table in `exit_range` cannot
  take it from another space, and why `get_pte` in one space shows nothing in another (`OneTable`, `OnePage`). A table without an entry above
  it is lost (`Forgotten`): it is empty, and there is one only if `OneTableEach` does not hold;
* `Clean`: outside the self-tests every page is mapped once, the page directories are those of the spaces and `boot_pgdir`, and a space
  has pages in its areas only, and tables only above something in its areas (`Within`). Without the last, `exit_range`, which goes over
  areas, would leave tables behind;
* `Booting`: the self-tests use the first page table of `boot_pgdir`, where a page may be mapped twice;
* `Dup`, `Unmap`, `Exit`: how far the call in progress has come. A child has exactly the pages of its parent copied so far; areas
  done map nothing; then, the page tables of areas done are gone, and with `OneTableEach` their directories too.

That a lost table is empty is the point: `unmap_range` has cleared all page tables before `exit_range` begins, so whatever `exit_range` then
takes away by mistake leads to no page (`Hollow`), and a lost frame is never handed out again. A space therefore loses memory at exit but never shares it,
and `RefExact` and `PrivateMemory` hold without any condition on the areas; `NoLeak` says that between calls a frame in use is reached or is
such an empty table; `TablesFreed` that the page tables an exit does meet are always freed. `ExitRangeSteps` is proved by cases on `OneTableEach`: with it (`ExitOneTable`) a directory is freed with its only page
table, without it (`ExitManyTables`) the tables below a directory freed too early become `Forgotten`.

The count of entries per frame under one changed entry is `Recount`; `TableFacts`, `PageInsertFacts`, `RemoveFacts`, `CleanTables` say what each
operation does to memory and that it stays `Sound`, and every action is put together from these. For the refinement `Keeps` says that
a step leaves pages and contents of a set of spaces alone; then it is invisible (`Stutters`). Visible are only the creation of a space, a new page,
a write, the beginning of `copy_mm` and of `exit_mmap`, and the last step of `copy_range`, for which `Dup` says that the copy is complete; the parent
cannot have written in between, since the kernel does not leave the call.

`VmmProofs`, for any spaces, pages and lengths (`VmmAssumption`, `NullAssumption`): `Sorted`, `ForkCopies`, `UserMemCheckExact`, `AllowedAccessServed`. The
inductive invariant `VInv` says that areas ascend and are apart, that the cache of a space is one of its areas, that pages lie inside areas and have exactly
the permissions the area gives (`PageOK`; all pages of an area that is not the stack and not marked `"EMPTY"` are there), that spaces not in use are empty, and that a
`dup_mmap` in progress has copied the areas behind the one it is at (`Copying`). `find_vma` then answers as a search of the list would,
whatever is cached. `user_mem_check` is a loop, in the model a recursive function; that its equation has a solution, and that the solution is the check
of every byte, is shown downward from `Top` by the greatest address at which it would fail, which needs the well-foundedness of the naturals and no
induction scheme.

`KmallocProofs`, for any number of pages, any unit of at least two bytes, any page of at least two units and any sizes (`KmallocAssumption`; in the code
16 bytes and 256 units): `HeapExact` and `LargeEnough`. The two lower bounds keep the arena, one unit long, from being taken or joined. The inductive
invariant `KInv` consists of

* `Slob`: `Heap`, the arena is the lowest block and free; `Circular`, `next` of a free block is the least free block above it, or the arena if there is
  none (`Leads`); `Apart`, blocks do not overlap, and `Loose`, free ones do not touch;
* `BigBlocks`: each big block has a descriptor of two units and a run of pages of its own;
* that the blocks, free or not, are the units of just the pages that are neither free nor of a big block. With `Apart` this makes `HeapExact`: every unit has one
  owner;
* `Live`: the addresses in use are the first units of big blocks and the units behind the headers of small ones, which tells `kfree` what it is given (`Kinds`).

A search begins wherever `slobfree` points. `WalkCovers` shows that it meets every free block within as many steps as there are blocks: a step that
meets no new block closes the set of those met under `next`, and by `OneCircle` such a set is all of them. So the first fit exists
if any block fits, and `PlaceFound` shows that the loop of `slob_free` stops at the last free block below the one freed. `slob_free` is then
`Inserted` followed by up to two joins (`FreeIsLower`), of which each keeps the heap and removes one pair that touches; `Take` is `Unlinked` or `Cut`. What is left
is arithmetic: a descriptor is two units, `SLOB_UNITS` rounds up to at most a page (`UnitsHold`), and `find_order` loses less than `1 << order` bytes (`OrderHolds`).

`SwapProofs`, for any pages, frames, slots and values (`SwapAssumption`): `OnlyOffDevice` and `FifoPaging`, that
`Swap` implements `FifoCache`. The inductive invariant `IInv` is about one state `t` of memory:

* `Linked(t)`: the queue lists exactly the frames in use, each once, and a valid entry and the `pra_vaddr` of its
  frame point to each other. Without it `swap_out` could meet an invalid entry, or free a page that is in use;
* `Slotted(t)`: a swap entry is that of its own page and within the device. Without it two pages could share a slot, and
  `swap_in` could refuse what `swap_out` wrote.

A fault is `Counted`, then `swap_out` if no frame is free, then `Arrived`. Each part has a lemma on the fields it changes
and one that it keeps `Good` (`SwapOutGood`, `ArrivedGood`); `FaultGood` combines them and says what becomes of the
contents and of the order of arrival. That the queue has room exactly while a frame is free is a matter of
counting (`QueueLength`): the queue is a bijection onto the frames in use.

Only model-checked, and why:

* the liveness properties (`GetPidReturns`, `CallReturns`, `CallsEnd`, `ProgramsEnd`, `RunnableRuns`, `InitReaps`, `KilledStops`):
  liveness under fairness is beyond this prover;
* `MemoryExact`, `StrtolExact`, `FormatExact`: `CString` and `PrintFmt` are recursive operators over data.

## 5. What the properties rest on

A property holds for the operations as they are called. Where the code relies on its callers, so
does the model, and says so: `kmalloc` is not called with size 0; `strcpy` and `memcpy` do not get
overlapping ranges; user processes in `Proc` make any system call, but only through the stubs of `user/libs`;
the allocator's clients are those of section 2.

## 6. Findings

1. `kill_then_wait`: a process marked by `do_kill` while it is preempted at the end of
   `trap()`, behind the test of `PF_EXITING`, can go on to call wait and sleep there with the
   flag set. It stays until the child it waits for ends; another kill answers `-E_KILLED`. What does hold is
   `KilledStops`: it no longer executes.
2. `pmm_double_alloc`: the loop of `default_free_pages` misses a `break` after adding at the tail, so
   the block is added to itself and its `prev` is wrong; a later `list_del` does not remove it, and it
   can be handed out twice.
3. `exit_loses_tables`: `exit_range` judges a level 0 directory by the page tables in the range of one call, that is, of one area. It goes when all of
   these were there, although its comment (`pmm.c:329`) says "only when all pde0s in it are already invalid". With the layout of `user/testbss.c`
   (text in the first page table, data and bss from there over two more, all under one directory entry) the call for the text frees the directory, and
   the page tables of the rest of the bss are never freed. (`testbss` itself ends in a panic over its wild write; any other program so laid out exits.) `page_tables` and the proofs show
   that the damage stops there: empty tables are lost, counts stay exact and memory private.

Also seen while modelling, and stated by the definitions of the modules:

* `do_kill` accepts pid 1, and `initproc` then panics in `do_exit` while user processes exist.
* The two cleanup labels of `do_fork` are swapped: when `setup_kstack` fails `put_kstack` panics on a
  stack that is not there; when `copy_mm` fails the stack is lost (`StacksBounded` is therefore an inequality).
* `do_wait(0)` takes the youngest zombie first, so an older zombie of `initproc` waits for as long as younger ones keep coming.
* `exit_range` leaves a level 0 directory behind when one of the page tables in the range of the call was never made.
* `mm_map` looks for an area only at the start of the range: one that begins in a gap and reaches into an area passes its test
  and panics in `insert_vma_struct`. `Vmm` has this as the panic `overlap`.
* `__kmalloc` and `slob_alloc` count the header twice: sizes in between fail an assertion (`panic` in `Kmalloc`).
* `find_order` halves with rounding down, so a big block may be too small; `LargeEnough` states by how much.
* `do_pgfault` maps a page of an area that is readable but not writable with `PTE_U` alone. The access faults again, and the
  valid entry is then taken for a swap entry, whose offset fails an assertion. It takes an area without pages: the stack is writable, and `load_icode` maps the
  pages of all other segments, except of one of size 0 that does not begin at a page boundary. There a fetch is not served either, and would fault for ever.
  The comment of `do_pgfault` (`vmm.c:410-414`) has the process continue. `AllowedAccessServed` is about the other areas.
* With the flag `-`, "flag to pad on the right" (`printfmt.c:148`), numbers are padded on the left, with minus signs. `NumbersExact` is
  about the other flags.
* `printfmt.c:7` says that widths and padding are for numbers only; `%s` pads. `OthersExact` is about `%s` without a width, and `%e`, `%c`, `%%`.
* `strtol` takes the prefix `0x` but not `0X` (`string.c:199`). `StrtolExact` leaves that case out.
* A permitted instruction fetch is never served by `do_pgfault`: it is right only because `load_icode` maps all pages of text
  and fork copies them (`AllowedAccessServed`).

## 7. Not modelled

* `libs/riscv.h`: macros over control registers of the hardware, and the assembly of the boot and of
  trap entry and exit. What they must do (save and restore a process) is the switch in `Schedule`.
* `kern/debug`, `kern/driver/console.c` and the other drivers but `ide.c` and `clock.c`: input and output through SBI calls, the kernel
  monitor, its line editor and the stab tables. No state the rest depends on, and `__panic` asks for shutdown first.
* `kern/init` and `page_init`: straight-line start-up, whose results are the initial states of the modules.
* The self-tests `default_check`, which replaces the list head under the allocator, and `check_pgfault`, a single fault of those
  `do_pgfault` makes.
* The TLB: a changed entry is seen at once, as after `tlb_invalidate`.
* `hash32`, `rand`: no property beyond their formula.
* User programs that only print or make one fault (`hello`, `pgdir`, `testbss`, `divzero`, `softint`, `badsegment`,
  `faultreadkernel`); `faultread` stands for them.

## 8. Plan

* `Proc` composed with `PageTable`, so that `copy_mm` and `exit_mmap` are steps of processes.
