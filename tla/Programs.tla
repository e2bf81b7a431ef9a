------------------------------ MODULE Programs ------------------------------
(***************************************************************************)
(* The programs of user/ on the kernel of Proc: the composition in which a *)
(* process makes the system calls of its program and sees their results.   *)
(* A program is a list of calls.  The result of a call is compared with    *)
(* what the program wants; it goes on with the next call, or, when the     *)
(* result is another one, with the call at index else; index 0 stands for  *)
(* panic() and a failed assert(), which exit with -E_PANIC.  Printing is   *)
(* left out: putc only adds traps, and the timer adds those as well.       *)
(***************************************************************************)
EXTENDS Proc

CONSTANTS
    Suite,       \* the programs that are run
    NYield,      \* length of the runs of yield() in the programs
    MaxChild,    \* max_child of forktest
    DEPTH,       \* DEPTH of forktree
    AnyUsers     \* bound on the processes of the program that does anything

VARIABLES
    prog,        \* the program in the kernel image
    ip,          \* index of the next call of each process
    mem,         \* the variables of each process that hold a pid
    exit_code    \* of each process

uservars == <<prog, ip, mem, exit_code>>
allvars == <<vars, uservars>>

----------------------------------------------------------------------------
Var == {"pid", "pid2", "parent"}

\* The wrappers of user/libs/ulib.c and syscall.c, with the wanted result.
fork(v, child, want, else) == [op |-> "fork", var |-> v, child |-> child, want |-> want, else |-> else]
waitpid(v, store, want, code) ==
    [op |-> "wait", var |-> v, store |-> store, want |-> want, code |-> code, else |-> 0]
kill(v, else) == [op |-> "kill", var |-> v, want |-> "zero", else |-> else]
getpid == [op |-> "getpid", var |-> "parent"]
exit(code) == [op |-> "exit", code |-> code]
yield == <<[op |-> "yield"]>>
loop == <<[op |-> "loop"]>>
yields == [i \in 1 .. NYield |-> [op |-> "yield"]]
Times(n, call) == [i \in 1 .. n |-> call]

\* user/exit.c
ExitProgram ==
    <<fork("pid", 6, "pid", 0), waitpid("pid", "user", "zero", "magic"),
      waitpid("pid", "user", "nonzero", "any"), waitpid("any", "none", "nonzero", "any"), exit("0")>>
    \o yields \o <<exit("magic")>>

\* user/forktest.c
ForkTest ==
    Times(MaxChild, fork("pid", 2 * MaxChild + 3, "pid", 0))
    \o Times(MaxChild, waitpid("any", "none", "zero", "any"))
    \o <<waitpid("any", "none", "nonzero", "any"), exit("0"), exit("0")>>

\* user/spin.c
Spin ==
    <<fork("pid", NYield + 5, "any", 0)>> \o yields
    \o <<kill("pid", 0), waitpid("pid", "none", "zero", "any"), exit("0")>> \o loop

\* user/waitkill.c
WaitKill ==
    <<getpid, fork("pid", 7, "pid", 0), fork("pid2", 8, "pid", 5),
      waitpid("pid", "none", "never", "any"), kill("pid", 0), exit("E_PANIC")>>
    \o loop
    \o yields \o <<kill("parent", 2 * NYield + 11)>>
    \o yields \o <<kill("pid", 2 * NYield + 11), exit("0"), exit("-1")>>

\* user/badarg.c: a pid that is nobody's, and an address of the kernel.
BadArg ==
    <<fork("pid", 6, "pid", 0), waitpid("nobody", "none", "nonzero", "any"),
      waitpid("pid", "kernel", "nonzero", "any"), waitpid("pid", "user", "zero", "beaf"), exit("0")>>
    \o yields \o <<exit("beaf")>>

\* user/forktree.c: the calls for strings of length d are those from 4 * d on, so
\* that the child of a fork starts at the next multiple of 4.
ForkTree == [i \in 1 .. 4 * DEPTH + 1 |->
    LET d == i \div 4 IN
    CASE i % 4 = (IF d = DEPTH THEN 1 ELSE 3)                 -> exit("0")
      [] i % 4 = (IF d = DEPTH THEN 0 ELSE 2) /\ d > 0        -> [op |-> "yield"]
      [] OTHER -> fork("pid", 4 * d + 4, "any", 0)]

\* user/yield.c, and user/faultread.c, whose only access is to address 0.
YieldProgram == yields \o <<exit("0")>>
FaultRead == <<[op |-> "fault"], exit("E_PANIC")>>

Code == [exit |-> ExitProgram, forktest |-> ForkTest, spin |-> Spin, waitkill |-> WaitKill,
         badarg |-> BadArg, forktree |-> ForkTree, yield |-> YieldProgram, faultread |-> FaultRead]

ASSUME ProgramsAssumption ==
    /\ NYield \in Nat /\ MaxChild \in Nat /\ DEPTH \in Nat \ {0}
    /\ Suite \subseteq DOMAIN Code \cup {"any"}

Panic == exit("E_PANIC")
Call(p) == IF ip[p] = 0 THEN Panic ELSE Code[prog][ip[p]]

----------------------------------------------------------------------------
PInit ==
    /\ Init
    /\ prog \in Suite
    /\ ip = [p \in UserPid |-> 1]
    /\ mem = [p \in UserPid |-> [v \in Var |-> NULL]]
    /\ exit_code = [p \in UserPid |-> "0"]

\* The process a variable names; nobody is one that is no child, any is pid 0.
Pid(p, v) == CASE v = "any" -> ANY [] v = "nobody" -> initproc [] OTHER -> mem[p][v]

\* Where p goes on after the current call has returned r.
After(p, r, code) ==
    LET c == Call(p)
        ok == CASE c.want = "any"     -> TRUE
                [] c.want = "zero"    -> r = "0" /\ (c.code = "any" \/ code = c.code)
                [] c.want = "nonzero" -> r # "0"
                [] c.want = "pid"     -> r = "pid"
                [] c.want = "never"   -> FALSE
    IN  IF ok THEN ip[p] + 1 ELSE c.else

\* The same for kill, which stores nothing.
AfterKill(p, r) == IF r = "0" THEN ip[p] + 1 ELSE Call(p).else

\* The child has a copy of the parent's memory, with result 0 of fork.  The
\* programs stay below MAX_PROCESS: one that did not would stop here.
ForkCall ==
    /\ Call(current).op = "fork"
    /\ \E c \in UserPid :
          /\ SysFork /\ c \in hash_list' \ hash_list
          /\ ip' = [ip EXCEPT ![current] = After(current, "pid", "any"), ![c] = Call(current).child]
          /\ mem' = [mem EXCEPT ![current][Call(current).var] = c, ![c] = mem[current]]
          /\ exit_code' = [exit_code EXCEPT ![c] = "0"]

\* waitpid: do_wait refuses a code_store that is no address of the process.
WaitCall ==
    /\ Call(current).op = "wait"
    /\ IF Call(current).store = "kernel"
       THEN /\ OtherTrap
            /\ ip' = [ip EXCEPT ![current] = After(current, "error", "any")]
       ELSE /\ SysWait /\ wpid'[current] = Pid(current, Call(current).var)
            /\ UNCHANGED ip
    /\ UNCHANGED <<mem, exit_code>>

KillCall ==
    LET q == Pid(current, Call(current).var)
        ok == find_proc(q) /\ ~exiting[q]
    IN  /\ Call(current).op = "kill"
        /\ SysKill
        /\ exiting' = IF ok THEN [exiting EXCEPT ![q] = TRUE] ELSE exiting
        /\ ip' = [ip EXCEPT ![current] = AfterKill(current, IF ok THEN "0" ELSE "error")]
        /\ UNCHANGED <<mem, exit_code>>

YieldCall ==
    /\ Call(current).op = "yield" /\ SysYield
    /\ ip' = [ip EXCEPT ![current] = @ + 1]
    /\ UNCHANGED <<mem, exit_code>>

GetPidCall ==
    /\ Call(current).op = "getpid" /\ OtherTrap
    /\ ip' = [ip EXCEPT ![current] = @ + 1]
    /\ mem' = [mem EXCEPT ![current].parent = current]
    /\ UNCHANGED exit_code

ExitCall ==
    /\ Call(current).op = "exit" /\ SysExit
    /\ exit_code' = [exit_code EXCEPT ![current] = Call(current).code]
    /\ UNCHANGED <<ip, mem>>

Fault == Call(current).op = "fault" /\ FatalTrap /\ UNCHANGED <<ip, mem, exit_code>>

UserCall ==
    /\ prog # "any" /\ current \in UserPid /\ At("user")
    /\ ForkCall \/ WaitCall \/ KillCall \/ YieldCall \/ GetPidCall \/ ExitCall \/ Fault
    /\ UNCHANGED prog

\* The program "any" makes any call at any time, or none.
AnyCall ==
    /\ prog = "any"
    /\ \/ SysFork /\ Cardinality(Live \cap UserPid) < AnyUsers
       \/ SysExit \/ SysWait \/ SysYield \/ SysKill \/ OtherTrap \/ FatalTrap
    /\ UNCHANGED uservars

\* A step of the kernel.  When do_wait returns the caller sees the result and
\* the exit code of the child; a process that is killed exits with -E_KILLED.
Kernel ==
    /\ KernelStep
    /\ LET reaped == hash_list \ hash_list'
           code == IF reaped = {} THEN "any" ELSE exit_code[CHOOSE z \in reaped : TRUE]
           result == IF reaped = {} THEN "error" ELSE "0"
       IN  ip' = IF prog # "any" /\ current \in UserPid /\ pc[current] = "do_wait" /\ pc'[current] = "trap_end"
                 THEN [ip EXCEPT ![current] = After(current, result, code)]
                 ELSE [p \in UserPid |-> IF p \in hash_list' \ hash_list THEN 1 ELSE ip[p]]
    /\ exit_code' = IF prog # "any" /\ pc[current] \in {"trap_end", "wait_woken"} /\ pc'[current] = "do_exit"
                         /\ current \in UserPid
                    THEN [exit_code EXCEPT ![current] = "E_KILLED"] ELSE exit_code
    /\ UNCHANGED <<prog, mem>>

PNext == UserCall \/ AnyCall \/ Kernel \/ ((Tick \/ Halted) /\ UNCHANGED uservars)

PSpec == PInit /\ [][PNext]_allvars

\* Besides the fairness of FairSpec: a process that gets the CPU again and again
\* makes its next call, time slices being far longer than a call.
PFairSpec ==
    /\ PSpec
    /\ WF_allvars(Kernel)
    /\ SF_allvars(Tick /\ UNCHANGED uservars)
    /\ \A p \in UserPid : SF_allvars(UserCall /\ current = p)

----------------------------------------------------------------------------
\* The exit codes the processes of a program may end with.
Expected == [exit |-> {"0", "magic"}, forktest |-> {"0"}, spin |-> {"0", "E_KILLED"},
             waitkill |-> {"0", "E_KILLED"}, badarg |-> {"0", "beaf"}, forktree |-> {"0"},
             yield |-> {"0"}, faultread |-> {}, any |-> {"0"}]

\* No assertion of a program fails and no panic() of one is reached, in every
\* interleaving that ticks, yields and sleeps can produce: exit codes reach
\* the parent, every child is reaped exactly once, and in waitkill the
\* parent never comes back from waitpid although its child dies.
ProgramsPass == \A p \in UserPid : state[p] = "ZOMBIE" => exit_code[p] \in Expected[prog]

\* Every program ends and with it the system: all processes are reaped, the one
\* that loops for ever included, and init_main ends (tools/grade.sh looks
\* for its message); faultread ends in a panic of the kernel.
ProgramsEnd == prog # "any" => <>(panic = IF prog = "faultread" THEN "trap" ELSE "initproc exit")
=============================================================================
