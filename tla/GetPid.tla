-------------------------------- MODULE GetPid --------------------------------
(***************************************************************************)
(* get_pid of kern/process/proc.c, one action per path through its loop,   *)
(* together with the two operations that change the list it scans:         *)
(* do_fork links the new process (hash_proc, set_links) and do_wait        *)
(* unlinks a reaped one (unhash_proc, remove_links).                       *)
(*                                                                         *)
(* get_pid keeps an interval (last_pid, next_safe) it believes free, so    *)
(* that most calls need no scan.  That belief survives forks and exits of  *)
(* other processes between two calls, and it is rebuilt by a scan that     *)
(* changes last_pid under its own feet.                                    *)
(***************************************************************************)
EXTENDS Integers, Sequences, FiniteSets, SequencesExt

CONSTANTS
    MAX_PID,
    MAX_PROCESS

\* The static_assert of get_pid, and room for idleproc and initproc.
ASSUME GetPidAssumption ==
    /\ MAX_PID \in Nat
    /\ MAX_PROCESS \in Nat
    /\ MAX_PROCESS >= 2
    /\ MAX_PID > MAX_PROCESS

Pid == 1 .. MAX_PID - 1

VARIABLES
    proc_list,   \* pids of the listed processes, head first
    last_pid,    \* static last_pid
    next_safe,   \* static next_safe
    le,          \* index of the list entry the scan looks at
    pc,          \* "out" of get_pid, in its "scan", or "return"ing
    prev         \* history: last_pid when get_pid was last outside

vars == <<proc_list, last_pid, next_safe, le, pc, prev>>

used == ToSet(proc_list)

Init ==
    /\ proc_list = <<>>
    /\ last_pid = MAX_PID
    /\ next_safe = MAX_PID
    /\ le = 1
    /\ pc = "out"
    /\ prev = MAX_PID

----------------------------------------------------------------------------

\* Mutant: the limit is taken from the identifiers, not from the processes.
CanForkByPid == pc = "out" /\ Len(proc_list) + 1 <= MAX_PID

\* do_fork gets to get_pid: nr_process, which counts idleproc, is below the limit.
CanFork == pc = "out" /\ Len(proc_list) + 1 < MAX_PROCESS

\* Mutant: next_safe, the first pid known to be taken, is handed out too.
CallFastTaken ==
    /\ CanFork
    /\ last_pid + 1 < MAX_PID
    /\ last_pid + 1 <= next_safe
    /\ last_pid' = last_pid + 1
    /\ pc' = "return"
    /\ UNCHANGED <<proc_list, next_safe, le, prev>>

\* last_pid is advanced into the interval known to be free: no scan.
CallFast ==
    /\ CanFork
    /\ last_pid + 1 < MAX_PID
    /\ last_pid + 1 < next_safe
    /\ last_pid' = last_pid + 1
    /\ pc' = "return"
    /\ UNCHANGED <<proc_list, next_safe, le, prev>>

\* last_pid wraps, or runs into next_safe: label inside.
CallScan ==
    /\ CanFork
    /\ last_pid + 1 >= MAX_PID \/ last_pid + 1 >= next_safe
    /\ last_pid' = IF last_pid + 1 >= MAX_PID THEN 1 ELSE last_pid + 1
    /\ next_safe' = MAX_PID
    /\ le' = 1
    /\ pc' = "scan"
    /\ UNCHANGED <<proc_list, prev>>

Scanning == pc = "scan" /\ le <= Len(proc_list)

\* The entry has last_pid, and the next identifier is still below next_safe.
ScanCollide ==
    /\ Scanning
    /\ proc_list[le] = last_pid
    /\ last_pid + 1 < next_safe
    /\ last_pid' = last_pid + 1
    /\ le' = le + 1
    /\ UNCHANGED <<proc_list, next_safe, pc, prev>>

\* Mutant: the scan goes on instead of starting over.
ScanRepeatContinues ==
    /\ Scanning
    /\ proc_list[le] = last_pid
    /\ last_pid + 1 >= next_safe
    /\ last_pid' = IF last_pid + 1 >= MAX_PID THEN 1 ELSE last_pid + 1
    /\ next_safe' = MAX_PID
    /\ le' = le + 1
    /\ UNCHANGED <<proc_list, pc, prev>>

\* Mutant: every new pass starts at pid 1.
ScanRepeatFromOne ==
    /\ Scanning
    /\ proc_list[le] = last_pid
    /\ last_pid + 1 >= next_safe
    /\ last_pid' = 1
    /\ next_safe' = MAX_PID
    /\ le' = 1
    /\ UNCHANGED <<proc_list, pc, prev>>

\* The entry has last_pid and the interval is used up: goto repeat.
ScanRepeat ==
    /\ Scanning
    /\ proc_list[le] = last_pid
    /\ last_pid + 1 >= next_safe
    /\ last_pid' = IF last_pid + 1 >= MAX_PID THEN 1 ELSE last_pid + 1
    /\ next_safe' = MAX_PID
    /\ le' = 1
    /\ UNCHANGED <<proc_list, pc, prev>>

\* The entry has another pid, which may bound the interval from above.
ScanOther ==
    /\ Scanning
    /\ proc_list[le] # last_pid
    /\ next_safe' = IF proc_list[le] > last_pid /\ next_safe > proc_list[le]
                      THEN proc_list[le] ELSE next_safe
    /\ le' = le + 1
    /\ UNCHANGED <<proc_list, last_pid, pc, prev>>

\* The whole list has been seen.
ScanEnd ==
    /\ pc = "scan"
    /\ le > Len(proc_list)
    /\ pc' = "return"
    /\ UNCHANGED <<proc_list, last_pid, next_safe, le, prev>>

\* do_fork uses the result: set_links puts the new process at the head.
Link ==
    /\ pc = "return"
    /\ proc_list' = <<last_pid>> \o proc_list
    /\ prev' = last_pid
    /\ pc' = "out"
    /\ le' = 1
    /\ UNCHANGED <<last_pid, next_safe>>

\* do_wait reaps some process: remove_links.  Interrupts are off in get_pid,
\* so this happens only between two calls.
Unlink == \E i \in 1 .. Len(proc_list) :
    /\ pc = "out"
    /\ proc_list' = RemoveAt(proc_list, i)
    /\ UNCHANGED <<last_pid, next_safe, le, pc, prev>>

Scan == ScanCollide \/ ScanRepeat \/ ScanOther \/ ScanEnd

Next == CallFast \/ CallScan \/ Scan \/ Link \/ Unlink

\* get_pid runs with interrupts disabled and nothing in it blocks.
Spec == Init /\ [][Next]_vars /\ WF_vars(Scan)

----------------------------------------------------------------------------

Abstract == INSTANCE PidAlloc

\* The entries whose pids the interval has been compared with.
Seen == IF pc = "scan" THEN 1 .. le - 1 ELSE DOMAIN proc_list

\* Type invariant, with the ranges of the two static variables of get_pid:
\* the interval is never empty once a call is under way.
TypeOK ==
    /\ proc_list \in Seq(Pid)
    /\ last_pid \in 1 .. MAX_PID
    /\ next_safe \in 1 .. MAX_PID
    /\ le \in 1 .. Len(proc_list) + 1
    /\ pc \in {"out", "scan", "return"}
    /\ prev \in 1 .. MAX_PID
    /\ last_pid = MAX_PID => pc = "out" /\ next_safe = MAX_PID
    /\ last_pid < MAX_PID => last_pid < next_safe
    /\ pc = "out" => prev = last_pid /\ le = 1
    /\ Len(proc_list) + 1 <= MAX_PROCESS
    /\ pc # "out" => Len(proc_list) + 1 < MAX_PROCESS

\* No two listed processes have the same pid: find_proc, and with it do_wait
\* and do_kill, reach the process that was meant.
PidsDistinct == IsInjective(proc_list)

\* The belief behind the fast path: every entry compared so far has a pid
\* outside the open interval (last_pid, next_safe), and while the answer is
\* being computed a pid other than last_pid itself.
IntervalFree == \A i \in Seen :
    /\ ~(last_pid < proc_list[i] /\ proc_list[i] < next_safe)
    /\ pc # "out" => proc_list[i] # last_pid

\* Whatever get_pid has stepped over since the last call is really in use.
SkippedUsed == pc # "out" => Abstract!Between(prev, last_pid) \subseteq used

\* The interval get_pid trusts and the pids it has passed over agree with the
\* processes listed, whatever was linked and unlinked since they were computed.
SearchExact == IntervalFree /\ SkippedUsed

\* get_pid comes back: its goto repeat loop ends, since MAX_PID > MAX_PROCESS
\* leaves a free pid for it to find.
GetPidReturns == pc = "scan" ~> pc = "return"

\* get_pid, do_fork's links and do_wait's unlinks implement the next-fit
\* identifier allocator of PidAlloc.
ImplementsPidAlloc == Abstract!ASpec

=============================================================================
