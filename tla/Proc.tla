--------------------------------- MODULE Proc ---------------------------------
(***************************************************************************)
(* The process life cycle of the kernel: kern/process/proc.c,              *)
(* kern/schedule/sched.c, kern/syscall/syscall.c and the parts of          *)
(* kern/trap/trap.c that decide when a process is preempted or killed.     *)
(*                                                                         *)
(* There is one hart and the kernel is not preemptible: a trap handler     *)
(* runs with interrupts disabled, and a timer interrupt that hits a kernel *)
(* thread only sets need_resched.  Processes interleave where schedule()   *)
(* is called.  pc[p] is the place where p continues when it next runs, so  *)
(* a step is always a step of the current process; in_schedule says that   *)
(* the current process has called schedule() and the switch is pending.    *)
(*                                                                         *)
(* A process is named by its pid; GetPid justifies that pids identify      *)
(* processes.  Address spaces and stacks are abstracted to who owns one.   *)
(***************************************************************************)
EXTENDS Integers, Sequences, FiniteSets, SequencesExt

CONSTANTS
    UserPid,      \* pids get_pid can hand out after boot
    idleproc,     \* the boot thread, pid 0
    initproc,     \* the init_main thread, pid 1
    NULL,
    MAX_PROCESS,  \* limit on nr_process
    TICK_NUM,     \* timer interrupts per time slice
    NKStack,      \* kernel stacks the free memory has room for after boot
    Failures      \* allocations that may fail: "proc" (alloc_proc),
                  \* "mm" (copy_mm), "icode" (load_icode)

ASSUME ProcAssumption ==
    /\ idleproc # initproc
    /\ {idleproc, initproc} \cap UserPid = {}
    /\ NULL \notin UserPid \cup {idleproc, initproc}
    /\ MAX_PROCESS \in Nat /\ TICK_NUM \in Nat \ {0} /\ NKStack \in Nat
    /\ Failures \subseteq {"proc", "mm", "icode"}

\* MAX_PID > MAX_PROCESS: get_pid always finds an unused pid.
ASSUME PidsSuffice ==
    IsFiniteSet(UserPid) /\ MAX_PROCESS <= Cardinality(UserPid) + 2

Process == UserPid \cup {idleproc, initproc}
Ptr == Process \cup {NULL}

\* do_wait's argument 0 asks for any child; 0 is the pid of idleproc.
ANY == idleproc

VARIABLES
    state,         \* enum proc_state; "UNINIT" when there is no such process
    wait_state,    \* "NONE" or "WT_CHILD", which includes WT_INTERRUPTED
    exiting,       \* flags & PF_EXITING
    need_resched,
    parent, cptr, optr, yptr,   \* family pointers
    proc_list,     \* process list, head first; idleproc is not in it
    hash_list,     \* processes find_proc can find
    nr_process,
    mm,            \* processes that own an address space
    nfree,         \* kernel stacks that can still be allocated
    current,
    in_schedule,
    pc,            \* where each process continues
    wpid,          \* argument of the do_wait each process is in
    ticks,         \* timer ticks, modulo TICK_NUM
    panic          \* "none", or why the kernel has stopped

family == <<parent, cptr, optr, yptr>>
table  == <<proc_list, hash_list, nr_process, nfree>>
status == <<state, wait_state, exiting>>
cpu    == <<current, in_schedule, need_resched, ticks>>
vars   == <<family, table, status, cpu, mm, pc, wpid, panic>>

Init ==
    LET none == [p \in Process |-> NULL] IN
    /\ state = [p \in Process |-> IF p \in UserPid THEN "UNINIT" ELSE "RUNNABLE"]
    /\ wait_state = [p \in Process |-> "NONE"]
    /\ exiting = [p \in Process |-> FALSE]
    /\ need_resched = [p \in Process |-> p = idleproc]
    /\ parent = [none EXCEPT ![initproc] = idleproc]
    /\ cptr = [none EXCEPT ![idleproc] = initproc]
    /\ optr = none
    /\ yptr = none
    /\ proc_list = <<initproc>>
    /\ hash_list = {initproc}
    /\ nr_process = 2
    /\ mm = {}
    /\ nfree = NKStack
    /\ current = idleproc
    /\ in_schedule = FALSE
    /\ pc = [p \in Process |-> IF p = idleproc THEN "idle"
                              ELSE IF p = initproc THEN "init_main" ELSE "none"]
    /\ wpid = [p \in Process |-> ANY]
    /\ ticks = 0
    /\ panic = "none"

----------------------------------------------------------------------------
(***************************************************************************)
(* Helpers.                                                                *)
(***************************************************************************)

\* The current process executes at place where.
At(where) == panic = "none" /\ ~in_schedule /\ pc[current] = where

GoTo(where) == pc' = [pc EXCEPT ![current] = where]

\* The processes reached from c along optr: the least set closed under it.
Chain(c) ==
    {q \in Process : \A S \in SUBSET Process :
        /\ c # NULL => c \in S
        /\ \A s \in S : optr[s] # NULL => optr[s] \in S
        => q \in S}

\* find_proc: idleproc, pid 0, is never found.
find_proc(p) == p \in hash_list

\* wakeup_proc, as the values it gives to state and wait_state.
WokenState(st, p) == [st EXCEPT ![p] = "RUNNABLE"]
WokenWait(st, ws, p) == IF st[p] = "RUNNABLE" THEN ws ELSE [ws EXCEPT ![p] = "NONE"]

\* Mutant: the new process does not remember its older sibling.
SetLinksNoOlder(c, p) ==
    /\ optr' = [optr EXCEPT ![c] = NULL]
    /\ yptr' = [q \in Process |-> IF q = c THEN NULL
                                 ELSE IF q = cptr[p] THEN c ELSE yptr[q]]
    /\ cptr' = [cptr EXCEPT ![p] = c]
    /\ proc_list' = <<c>> \o proc_list
    /\ nr_process' = nr_process + 1

\* set_links: c becomes the youngest child of p and the head of the list.
set_links(c, p) ==
    /\ optr' = [optr EXCEPT ![c] = cptr[p]]
    /\ yptr' = [q \in Process |-> IF q = c THEN NULL
                                 ELSE IF q = cptr[p] THEN c ELSE yptr[q]]
    /\ cptr' = [cptr EXCEPT ![p] = c]
    /\ proc_list' = <<c>> \o proc_list
    /\ nr_process' = nr_process + 1

\* The list without process z.
Unlisted(z) == RemoveAt(proc_list, CHOOSE i \in DOMAIN proc_list : proc_list[i] = z)

\* Mutant: nr_process is not counted down.
RemoveLinksNoCount(z) ==
    /\ proc_list' = Unlisted(z)
    /\ nr_process' = nr_process
    /\ yptr' = [q \in Process |-> IF q = z THEN NULL
                                 ELSE IF q = optr[z] THEN yptr[z] ELSE yptr[q]]
    /\ optr' = [q \in Process |-> IF q = z THEN NULL
                                 ELSE IF q = yptr[z] THEN optr[z] ELSE optr[q]]
    /\ cptr' = IF yptr[z] = NULL THEN [cptr EXCEPT ![parent[z]] = optr[z]] ELSE cptr

\* Mutant: the older sibling keeps pointing to the process that goes.
RemoveLinksNoOlder(z) ==
    /\ proc_list' = Unlisted(z)
    /\ nr_process' = nr_process - 1
    /\ yptr' = [yptr EXCEPT ![z] = NULL]
    /\ optr' = [q \in Process |-> IF q = z THEN NULL
                                 ELSE IF q = yptr[z] THEN optr[z] ELSE optr[q]]
    /\ cptr' = IF yptr[z] = NULL THEN [cptr EXCEPT ![parent[z]] = optr[z]] ELSE cptr

\* remove_links: z leaves the list and its siblings are joined.  Its own
\* pointers die with its proc_struct; they are cleared here.
remove_links(z) ==
    /\ proc_list' = Unlisted(z)
    /\ nr_process' = nr_process - 1
    /\ yptr' = [q \in Process |-> IF q = z THEN NULL
                                 ELSE IF q = optr[z] THEN yptr[z] ELSE yptr[q]]
    /\ optr' = [q \in Process |-> IF q = z THEN NULL
                                 ELSE IF q = yptr[z] THEN optr[z] ELSE optr[q]]
    /\ cptr' = IF yptr[z] = NULL THEN [cptr EXCEPT ![parent[z]] = optr[z]] ELSE cptr

put_kstack == nfree' = nfree + 1

\* panic: nothing happens any more.
Die(why) ==
    /\ panic' = why
    /\ UNCHANGED <<family, table, status, cpu, mm, pc, wpid>>

----------------------------------------------------------------------------
(***************************************************************************)
(* do_fork.                                                                *)
(***************************************************************************)

\* The new process c gets a pid and its links, and is made runnable; it
\* will start at place start.
Forked(c, start) ==
    /\ state[c] = "UNINIT"
    /\ parent' = [parent EXCEPT ![c] = current]
    /\ set_links(c, current)
    /\ hash_list' = hash_list \cup {c}
    /\ nfree' = nfree - 1
    /\ state' = WokenState(state, c)
    /\ wait_state' = WokenWait(state, wait_state, c)
    /\ mm' = IF current \in mm THEN mm \cup {c} ELSE mm
    /\ pc' = [pc EXCEPT ![c] = start,
                        ![current] = IF @ = "user" THEN "trap_end" ELSE "do_wait"]
    /\ UNCHANGED <<exiting, cpu, wpid, panic>>

CanFork == nr_process < MAX_PROCESS

SysFork == At("user") /\ CanFork /\ nfree > 0 /\ \E c \in UserPid : Forked(c, "user")

\* nr_process is at its limit (-E_NO_FREE_PROC), or alloc_proc fails (-E_NO_MEM).
SysForkRefused ==
    /\ At("user")
    /\ ~CanFork \/ "proc" \in Failures
    /\ GoTo("trap_end")
    /\ UNCHANGED <<family, table, status, cpu, mm, wpid, panic>>

\* setup_kstack fails: put_kstack is called on the stack that is not there.
SysForkNoStack == At("user") /\ CanFork /\ nfree = 0 /\ Die("put_kstack")

\* Mutant: the stack is freed twice.
SysForkNoMmTwice ==
    /\ At("user")
    /\ CanFork
    /\ "mm" \in Failures
    /\ nfree > 0
    /\ nfree' = nfree + 1
    /\ GoTo("trap_end")
    /\ UNCHANGED <<family, proc_list, hash_list, nr_process, status, cpu, mm, wpid, panic>>

\* copy_mm fails: only the proc_struct is freed, the stack is not.
SysForkNoMm ==
    /\ At("user")
    /\ CanFork
    /\ "mm" \in Failures
    /\ nfree > 0
    /\ nfree' = nfree - 1
    /\ GoTo("trap_end")
    /\ UNCHANGED <<family, proc_list, hash_list, nr_process, status, cpu, mm, wpid, panic>>

----------------------------------------------------------------------------
(***************************************************************************)
(* do_exit: the address space goes at once, the parent is woken, then the  *)
(* children are handed to initproc one by one and the CPU is given up.     *)
(***************************************************************************)

\* Mutant: the parent is not woken.
DoExitNoWakeup ==
    /\ At("do_exit")
    /\ current # initproc
    /\ mm' = mm \ {current}
    /\ state' = [state EXCEPT ![current] = "ZOMBIE"]
    /\ GoTo("reparent")
    /\ UNCHANGED <<family, table, wait_state, exiting, cpu, wpid, panic>>

DoExit ==
    LET p == parent[current] IN
    /\ At("do_exit")
    /\ current # initproc
    /\ mm' = mm \ {current}
    /\ state' = LET dead == [state EXCEPT ![current] = "ZOMBIE"] IN
                IF wait_state[p] = "WT_CHILD" THEN WokenState(dead, p) ELSE dead
    /\ wait_state' = IF wait_state[p] = "WT_CHILD"
                       THEN WokenWait(state, wait_state, p) ELSE wait_state
    /\ GoTo("reparent")
    /\ UNCHANGED <<family, table, exiting, cpu, wpid, panic>>

\* Mutant: initproc is not told about the zombies it inherits.
ReparentNoWakeup ==
    LET c == cptr[current] IN
    /\ At("reparent")
    /\ c # NULL
    /\ parent' = [parent EXCEPT ![c] = initproc]
    /\ optr' = [optr EXCEPT ![c] = cptr[initproc]]
    /\ yptr' = [q \in Process |-> IF q = c THEN NULL
                                 ELSE IF q = cptr[initproc] THEN c ELSE yptr[q]]
    /\ cptr' = [cptr EXCEPT ![current] = optr[c], ![initproc] = c]
    /\ UNCHANGED <<table, status, cpu, mm, pc, wpid, panic>>

\* One turn of the while loop: the youngest child goes to initproc, which is
\* woken if it waits and the child is a zombie.
ReparentChild ==
    LET c == cptr[current]
        wake == state[c] = "ZOMBIE" /\ wait_state[initproc] = "WT_CHILD" IN
    /\ At("reparent")
    /\ c # NULL
    /\ parent' = [parent EXCEPT ![c] = initproc]
    /\ optr' = [optr EXCEPT ![c] = cptr[initproc]]
    /\ yptr' = [q \in Process |-> IF q = c THEN NULL
                                 ELSE IF q = cptr[initproc] THEN c ELSE yptr[q]]
    /\ cptr' = [cptr EXCEPT ![current] = optr[c], ![initproc] = c]
    /\ state' = IF wake THEN WokenState(state, initproc) ELSE state
    /\ wait_state' = IF wake THEN WokenWait(state, wait_state, initproc) ELSE wait_state
    /\ UNCHANGED <<table, exiting, cpu, mm, pc, wpid, panic>>

\* Mutant: the children that are left stay with the dead process.
ReparentEarly ==
    /\ At("reparent")
    /\ in_schedule' = TRUE
    /\ GoTo("dead")
    /\ UNCHANGED <<family, table, status, current, need_resched, ticks, mm, wpid, panic>>

\* cptr is NULL: the loop is over and schedule() is called for the last time.
ReparentDone ==
    /\ At("reparent")
    /\ cptr[current] = NULL
    /\ in_schedule' = TRUE
    /\ GoTo("dead")
    /\ UNCHANGED <<family, table, status, current, need_resched, ticks, mm, wpid, panic>>

InitExit == At("do_exit") /\ current = initproc /\ Die("initproc exit")

----------------------------------------------------------------------------
(***************************************************************************)
(* do_wait.                                                                *)
(***************************************************************************)

\* Mutant: the process asked for may be anybody's child.
WaitedAnybody(p) ==
    IF wpid[p] = ANY THEN Chain(cptr[p])
                     ELSE {q \in {wpid[p]} : find_proc(q)}

\* The children that the current do_wait is about.
Waited(p) ==
    IF wpid[p] = ANY THEN Chain(cptr[p])
                     ELSE {q \in {wpid[p]} : find_proc(q) /\ parent[q] = p}

\* The zombie do_wait takes: the first one along the list.
Found(z) ==
    /\ z \in Waited(current)
    /\ state[z] = "ZOMBIE"
    /\ \A q \in Waited(current) : state[q] = "ZOMBIE" => q \in Chain(z)

SysWait == \E w \in UserPid \cup {initproc, ANY} :
    /\ At("user")
    /\ wpid' = [wpid EXCEPT ![current] = w]
    /\ GoTo("do_wait")
    /\ UNCHANGED <<family, table, status, cpu, mm, panic>>

\* Label found: unhash_proc, remove_links, put_kstack, kfree.  The fields of
\* the freed proc_struct are reset here; alloc_proc clears them on reuse.
\* The init_main loop follows a successful do_wait by schedule().
WaitReap == \E z \in Process :
    /\ At("do_wait")
    /\ Found(z)
    /\ hash_list' = hash_list \ {z}
    /\ remove_links(z)
    /\ put_kstack
    /\ parent' = [parent EXCEPT ![z] = NULL]
    /\ state' = [state EXCEPT ![z] = "UNINIT"]
    /\ exiting' = [exiting EXCEPT ![z] = FALSE]
    /\ need_resched' = [need_resched EXCEPT ![z] = FALSE]
    /\ wpid' = [wpid EXCEPT ![z] = ANY, ![current] = ANY]
    /\ pc' = [pc EXCEPT ![z] = "none",
                        ![current] = IF current = initproc THEN "init_loop" ELSE "trap_end"]
    /\ in_schedule' = (current = initproc)
    /\ UNCHANGED <<wait_state, current, ticks, mm, panic>>

WaitSleep ==
    /\ At("do_wait")
    /\ Waited(current) # {}
    /\ \A q \in Waited(current) : state[q] # "ZOMBIE"
    /\ state' = [state EXCEPT ![current] = "SLEEPING"]
    /\ wait_state' = [wait_state EXCEPT ![current] = "WT_CHILD"]
    /\ in_schedule' = TRUE
    /\ GoTo("wait_woken")
    /\ UNCHANGED <<family, table, exiting, current, need_resched, ticks, mm, wpid, panic>>

\* schedule() has returned into do_wait: killed, or goto repeat.
WaitWoken ==
    /\ At("wait_woken")
    /\ GoTo(IF exiting[current] THEN "do_exit" ELSE "do_wait")
    /\ UNCHANGED <<family, table, status, cpu, mm, wpid, panic>>

\* Mutant: do_wait gives up when no child is a zombie yet.
WaitNoZombie ==
    /\ At("do_wait")
    /\ \A q \in Waited(current) : state[q] # "ZOMBIE"
    /\ wpid' = [wpid EXCEPT ![current] = ANY]
    /\ GoTo(IF current = initproc THEN "init_end" ELSE "trap_end")
    /\ UNCHANGED <<family, table, status, cpu, mm, panic>>

\* -E_BAD_PROC: there is no such child.
WaitNoChild ==
    /\ At("do_wait")
    /\ Waited(current) = {}
    /\ wpid' = [wpid EXCEPT ![current] = ANY]
    /\ GoTo(IF current = initproc THEN "init_end" ELSE "trap_end")
    /\ UNCHANGED <<family, table, status, cpu, mm, panic>>

----------------------------------------------------------------------------
(***************************************************************************)
(* The other system calls and traps.                                       *)
(***************************************************************************)

SysExit ==
    /\ At("user")
    /\ GoTo("do_exit")
    /\ UNCHANGED <<family, table, status, cpu, mm, wpid, panic>>

SysYield ==
    /\ At("user")
    /\ need_resched' = [need_resched EXCEPT ![current] = TRUE]
    /\ GoTo("trap_end")
    /\ UNCHANGED <<family, table, status, current, in_schedule, ticks, mm, wpid, panic>>

\* Mutant: the target is woken whether it sleeps or not.
SysKillAlwaysWakes == \E q \in Process :
    /\ At("user")
    /\ IF find_proc(q) /\ ~exiting[q]
         THEN /\ exiting' = [exiting EXCEPT ![q] = TRUE]
              /\ state' = WokenState(state, q)
              /\ wait_state' = WokenWait(state, wait_state, q)
         ELSE UNCHANGED status
    /\ GoTo("trap_end")
    /\ UNCHANGED <<family, table, cpu, mm, wpid, panic>>

\* do_kill: -E_INVAL without such a process, -E_KILLED when it is marked
\* already; else it is marked, and woken if it sleeps in do_wait.
SysKill == \E q \in Process :
    /\ At("user")
    /\ IF find_proc(q) /\ ~exiting[q]
         THEN /\ exiting' = [exiting EXCEPT ![q] = TRUE]
              /\ state' = IF wait_state[q] = "WT_CHILD" THEN WokenState(state, q) ELSE state
              /\ wait_state' = IF wait_state[q] = "WT_CHILD"
                                 THEN WokenWait(state, wait_state, q) ELSE wait_state
         ELSE UNCHANGED status
    /\ GoTo("trap_end")
    /\ UNCHANGED <<family, table, cpu, mm, wpid, panic>>

\* A trap that changes nothing here: getpid, putc, pgdir, a do_wait with a bad
\* code_store, a page fault that is repaired, an exception that is reported.
OtherTrap ==
    /\ At("user")
    /\ GoTo("trap_end")
    /\ UNCHANGED <<family, table, status, cpu, mm, wpid, panic>>

\* A trap the kernel gives up on: an unrepairable page fault, a misaligned
\* atomic, an undefined system call.
FatalTrap == At("user") /\ Die("trap")

\* Mutant: the flag PF_EXITING is not looked at.
TrapEndNoExit ==
    /\ At("trap_end")
    /\ GoTo("user")
    /\ in_schedule' = need_resched[current]
    /\ UNCHANGED <<family, table, status, current, need_resched, ticks, mm, wpid, panic>>

\* The end of trap() for a trap from user mode.
TrapEnd ==
    /\ At("trap_end")
    /\ GoTo(IF exiting[current] THEN "do_exit" ELSE "user")
    /\ in_schedule' = (~exiting[current] /\ need_resched[current])
    /\ UNCHANGED <<family, table, status, current, need_resched, ticks, mm, wpid, panic>>

\* Interrupts are on in user mode and in the three kernel threads.
IntrOn ==
    /\ panic = "none"
    /\ ~in_schedule
    /\ pc[current] = "user" \/ current \in {idleproc, initproc} \/ pc[current] = "exec"

\* The timer interrupt; in user mode the end of trap() follows.
Tick ==
    /\ IntrOn
    /\ ticks' = (ticks + 1) % TICK_NUM
    /\ need_resched' = [need_resched EXCEPT ![current] = @ \/ ticks' = 0]
    /\ pc' = [pc EXCEPT ![current] = IF @ = "user" THEN "trap_end" ELSE @]
    /\ UNCHANGED <<family, table, status, current, in_schedule, mm, wpid, panic>>

----------------------------------------------------------------------------
(***************************************************************************)
(* Kernel threads and the scheduler.                                       *)
(***************************************************************************)

IdleLoop ==
    /\ At("idle")
    /\ need_resched[current]
    /\ in_schedule' = TRUE
    /\ UNCHANGED <<family, table, status, current, need_resched, ticks, mm, pc, wpid, panic>>

\* init_main creates the user_main thread and enters its do_wait loop.
InitMain == At("init_main") /\ CanFork /\ nfree > 0 /\ \E c \in UserPid : Forked(c, "exec")

\* kernel_thread returns an error, or put_kstack panics in it as above.
InitMainFails == \E why \in {"create user_main failed", "put_kstack"} :
    /\ At("init_main")
    /\ IF why = "put_kstack" THEN CanFork /\ nfree = 0
                             ELSE ~CanFork \/ "proc" \in Failures
    /\ Die(why)

InitLoop ==
    /\ At("init_loop")
    /\ GoTo("do_wait")
    /\ UNCHANGED <<family, table, status, cpu, mm, wpid, panic>>

\* init_main has passed its assertions (see InitAsserts) and returns.
InitEnd ==
    /\ At("init_end")
    /\ GoTo("do_exit")
    /\ UNCHANGED <<family, table, status, cpu, mm, wpid, panic>>

\* user_main: kernel_execve loads the program and leaves for user mode.
Exec ==
    /\ At("exec")
    /\ mm' = mm \cup {current}
    /\ GoTo("user")
    /\ UNCHANGED <<family, table, status, cpu, wpid, panic>>

ExecFails ==
    /\ At("exec")
    /\ "icode" \in Failures
    /\ GoTo("do_exit")
    /\ UNCHANGED <<family, table, status, cpu, mm, wpid, panic>>

\* Mutant: the scan always starts at the head of the list.
CandidateFromHead(k) == proc_list[k]

\* The scan of schedule(): the k-th process after the current one, cyclically;
\* from the head of the list when idleproc calls.
Candidate(k) ==
    LET n == Len(proc_list)
        last == IF current = idleproc THEN 0
                ELSE CHOOSE i \in 1 .. n : proc_list[i] = current
    IN  proc_list[((last + k - 1) % n) + 1]

Picks(p) ==
    LET n == Len(proc_list) IN
    IF \E k \in 1 .. n : state[proc_list[k]] = "RUNNABLE"
      THEN \E k \in 1 .. n : /\ p = Candidate(k)
                             /\ state[p] = "RUNNABLE"
                             /\ \A j \in 1 .. k - 1 : state[Candidate(j)] # "RUNNABLE"
      ELSE p = idleproc

Schedule == \E p \in Process :
    /\ panic = "none"
    /\ in_schedule
    /\ Picks(p)
    /\ current' = p
    /\ need_resched' = [need_resched EXCEPT ![current] = FALSE]
    /\ in_schedule' = FALSE
    /\ UNCHANGED <<family, table, status, ticks, mm, pc, wpid, panic>>

\* After a panic the machine stays in the kernel monitor.
Halted == panic # "none" /\ UNCHANGED vars

----------------------------------------------------------------------------

\* What user programs may do.
UserStep ==
    \/ SysFork \/ SysForkRefused \/ SysForkNoStack \/ SysForkNoMm
    \/ SysExit \/ SysWait \/ SysYield \/ SysKill
    \/ OtherTrap \/ FatalTrap

\* What the kernel does on its own.
KernelStep ==
    \/ DoExit \/ ReparentChild \/ ReparentDone \/ InitExit
    \/ WaitReap \/ WaitSleep \/ WaitWoken \/ WaitNoChild
    \/ TrapEnd \/ IdleLoop
    \/ InitMain \/ InitMainFails \/ InitLoop \/ InitEnd
    \/ Exec \/ ExecFails
    \/ Schedule

Next == UserStep \/ KernelStep \/ Tick \/ Halted

Spec == Init /\ [][Next]_vars

\* Kernel code runs to its next schedule() or return without blocking.  The
\* timer is periodic and a pending interrupt is taken as soon as interrupts
\* are enabled, even if the process keeps making system calls: strong fairness.
FairSpec == Spec /\ WF_vars(KernelStep) /\ SF_vars(Tick)

----------------------------------------------------------------------------
\* What ProcessTree sees: a process in the loop of do_exit has no children any more.
Life == [p \in Process |-> CASE state[p] = "UNINIT" -> "none" [] state[p] = "ZOMBIE" -> "dead"
                             [] OTHER -> "alive"]
NewParent == [q \in Process |->
    IF pc[current] = "reparent" /\ parent[q] = current THEN initproc ELSE parent[q]]
Waiting == [p \in Process |-> IF state[p] = "SLEEPING" THEN wpid[p] ELSE NULL]
Marked == {p \in Process : exiting[p]}

Contract == INSTANCE ProcessTree WITH
    life <- Life, parent <- NewParent, killed <- Marked, waiting <- Waiting, memory <- mm

----------------------------------------------------------------------------
(***************************************************************************)
(* Properties.                                                             *)
(***************************************************************************)

Place == {"none", "idle", "init_main", "init_loop", "init_end", "exec", "user",
          "trap_end", "do_wait", "wait_woken", "do_exit", "reparent", "dead"}

\* Type invariant of the process table and the CPU.
TypeOK ==
    /\ state \in [Process -> {"UNINIT", "SLEEPING", "RUNNABLE", "ZOMBIE"}]
    /\ wait_state \in [Process -> {"NONE", "WT_CHILD"}]
    /\ exiting \in [Process -> BOOLEAN]
    /\ need_resched \in [Process -> BOOLEAN]
    /\ parent \in [Process -> Ptr]
    /\ cptr \in [Process -> Ptr]
    /\ optr \in [Process -> Ptr]
    /\ yptr \in [Process -> Ptr]
    /\ proc_list \in Seq(Process)
    /\ hash_list \subseteq Process
    /\ nr_process \in Nat
    /\ mm \subseteq Process
    /\ nfree \in Nat
    /\ current \in Process
    /\ in_schedule \in BOOLEAN
    /\ pc \in [Process -> Place]
    /\ wpid \in [Process -> Process]
    /\ ticks \in 0 .. TICK_NUM - 1
    /\ panic \in {"none", "put_kstack", "initproc exit", "trap",
                  "create user_main failed"}

Live == {p \in Process \ {idleproc} : state[p] # "UNINIT"}

\* The list schedule() walks, the hash find_proc searches, the counter
\* do_fork checks and the set of existing processes agree.
TableAgrees ==
    /\ IsInjective(proc_list)
    /\ ToSet(proc_list) = Live
    /\ hash_list = Live
    /\ nr_process = Len(proc_list) + 1

\* The child at the head of the children of an exiting process: its yptr
\* still names the sibling that the loop of do_exit has moved to initproc.
Stale == IF pc[current] = "reparent" THEN {cptr[current]} ELSE {}

\* set_links, remove_links and the reparenting loop of do_exit keep each
\* process's children doubly linked: cptr is the youngest child, optr and
\* yptr are inverse to each other and stay among the children of one parent.
FamilyLinks ==
    /\ \A p \in Process : cptr[p] # NULL =>
          parent[cptr[p]] = p /\ (cptr[p] \notin Stale => yptr[cptr[p]] = NULL)
    /\ \A q \in Process : optr[q] # NULL =>
          yptr[optr[q]] = q /\ parent[optr[q]] = parent[q]
    /\ \A q \in Process \ Stale : yptr[q] # NULL => optr[yptr[q]] = q
    /\ \A q \in Process \ Stale : parent[q] # NULL /\ yptr[q] = NULL =>
          cptr[parent[q]] = q
    /\ \A q \in Process : parent[q] # NULL <=> q \in Live

\* Walking cptr and optr, as do_wait(0) and do_exit do, meets exactly the
\* processes whose parent is p: no child is lost and none is met twice.
ChildrenListed == \A p \in Process : Chain(cptr[p]) = {q \in Process : parent[q] = p}

\* Every process has a parent that can still reap it: do_exit leaves no child
\* behind, so no pointer to a freed proc_struct survives.
NoOrphans == \A q \in Live :
    \/ state[parent[q]] \in {"RUNNABLE", "SLEEPING"}
    \/ parent[q] = current /\ pc[current] = "reparent"

\* No wakeup is lost: a process sleeps only in do_wait, only while it has a
\* child to wait for, and never when such a child is already a zombie.  It
\* also makes the assertion and the warning of wakeup_proc unreachable.
NoLostWakeup == \A p \in Process :
    /\ state[p] = "SLEEPING" <=> wait_state[p] = "WT_CHILD"
    /\ state[p] = "SLEEPING" =>
          /\ pc[p] = "wait_woken"
          /\ Waited(p) # {}
          /\ \A q \in Waited(p) : state[q] # "ZOMBIE"

\* The system never falls asleep as a whole: while it is up some listed
\* process is runnable, so schedule() never has to fall back on idleproc
\* (which nothing could then interrupt: only processes wake processes).
SomeoneRunnable == panic = "none" => \E p \in ToSet(proc_list) : state[p] = "RUNNABLE"

\* The assertions at the end of init_main.
InitAsserts == pc[initproc] = "init_end" =>
    /\ cptr[initproc] = NULL /\ yptr[initproc] = NULL /\ optr[initproc] = NULL
    /\ nr_process = 2
    /\ proc_list = <<initproc>>

\* Even when allocations fail no kernel stack is freed twice.
StacksBounded == nfree + Cardinality(Live \ {initproc}) <= NKStack

\* What may happen to the state of a process in one step: a zombie is only
\* ever reaped, by its own parent; nothing else removes a process; and a
\* sleeper is woken only by a kill or for a zombie among its children.
LifeCycleStep == \A p \in Process :
    /\ state[p] = "ZOMBIE" =>
          state'[p] = "ZOMBIE" \/ (state'[p] = "UNINIT" /\ parent[p] = current)
    /\ state[p] \in {"RUNNABLE", "SLEEPING"} => state'[p] # "UNINIT"
    /\ state[p] = "SLEEPING" /\ state'[p] = "RUNNABLE" =>
          \/ exiting'[p]
          \/ \E q \in Process : parent'[q] = p /\ state'[q] = "ZOMBIE"

\* Every step is such a step: do_exit, do_wait, do_kill and wakeup_proc change
\* the state of a process in no other way.
LifeCycle == [][LifeCycleStep]_vars

\* fork, exit, wait and kill implement the process tree of ProcessTree: the family
\* pointers are one parent function, the loop of do_exit that moves the children
\* one by one is never seen half done, and no sleep outlasts what was slept for.
ImplementsProcessTree == Contract!TSpec

\* Round robin: a runnable process gets the CPU, whatever the others do.
RunnableRuns == \A p \in UserPid \cup {initproc} :
    state[p] = "RUNNABLE" ~> current = p \/ panic # "none"

\* init_main reaps: while it has zombie children its do_wait keeps succeeding.
InitReaps ==
    (\E z \in UserPid : state[z] = "ZOMBIE" /\ parent[z] = initproc)
        ~> pc[initproc] = "init_loop" \/ panic # "none"

\* A process marked by do_kill stops executing: it dies, or it sleeps.
KilledStops == \A p \in UserPid :
    exiting[p] ~> state[p] # "RUNNABLE" \/ panic # "none"

\* "SYS_kill : kill process --> do_kill --> ... --> do_exit" (proc.c, header
\* comment): a killed process reaches do_exit.
KilledDies == \A p \in UserPid :
    exiting[p] ~> state[p] \in {"ZOMBIE", "UNINIT"} \/ panic # "none"
=============================================================================
