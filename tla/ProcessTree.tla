----------------------------- MODULE ProcessTree -----------------------------
(***************************************************************************)
(* What fork, exit, wait and kill promise: a process has one parent; when  *)
(* it exits its memory is gone and its children are initproc's, all at     *)
(* once; a dead child stays until its parent takes it; a parent sleeps     *)
(* only while no child it asked for is dead, and does not sleep through a  *)
(* child's death or its own being killed.  There are no lists, no flags    *)
(* and no scheduler.  Proc implements this.                                *)
(***************************************************************************)
CONSTANTS
    Process, idleproc, initproc,
    ANY,        \* asks for any child
    NULL

VARIABLES
    life,       \* "none", "alive" or "dead"
    parent,
    killed,     \* processes marked by kill
    waiting,    \* what a sleeping process has asked for, or NULL
    memory      \* processes that have an address space

tvars == <<life, parent, killed, waiting, memory>>

TInit ==
    /\ life = [p \in Process |-> IF p \in {idleproc, initproc} THEN "alive" ELSE "none"]
    /\ parent = [p \in Process |-> IF p = initproc THEN idleproc ELSE NULL]
    /\ killed = {} /\ memory = {}
    /\ waiting = [p \in Process |-> NULL]

\* The children of p that a request w is about.
Asked(p, w) == {q \in Process : parent[q] = p /\ w \in {ANY, q}}

Awake(p) == life[p] = "alive" /\ waiting[p] = NULL

\* A process makes another one, which has a copy of its memory.
TFork == \E p, c \in Process :
    /\ Awake(p) /\ life[c] = "none"
    /\ life' = [life EXCEPT ![c] = "alive"]
    /\ parent' = [parent EXCEPT ![c] = p]
    /\ memory' = IF p \in memory THEN memory \cup {c} ELSE memory
    /\ UNCHANGED <<killed, waiting>>

\* A kernel thread starts a program.
TExec == \E p \in Process :
    /\ Awake(p)
    /\ memory' = memory \cup {p}
    /\ UNCHANGED <<life, parent, killed, waiting>>

\* The parent is woken; the children get a new one.
TExit == \E p \in Process \ {initproc, idleproc} :
    /\ Awake(p)
    /\ life' = [life EXCEPT ![p] = "dead"]
    /\ parent' = [q \in Process |-> IF parent[q] = p THEN initproc ELSE parent[q]]
    /\ memory' = memory \ {p}
    /\ waiting' = [waiting EXCEPT ![parent[p]] = NULL]
    /\ UNCHANGED killed

\* initproc is woken for a dead process among the children it was given.
TInherit == \E z \in Process :
    /\ life[z] = "dead" /\ parent[z] = initproc
    /\ waiting' = [waiting EXCEPT ![initproc] = NULL]
    /\ UNCHANGED <<life, parent, killed, memory>>

\* A parent takes a dead child: nothing of it is left.
TReap == \E p, z \in Process :
    /\ Awake(p) /\ life[z] = "dead" /\ parent[z] = p
    /\ life' = [life EXCEPT ![z] = "none"]
    /\ parent' = [parent EXCEPT ![z] = NULL]
    /\ killed' = killed \ {z}
    /\ UNCHANGED <<waiting, memory>>

TSleep == \E p, w \in Process :
    /\ Awake(p) /\ Asked(p, w) # {}
    /\ \A q \in Asked(p, w) : life[q] # "dead"
    /\ waiting' = [waiting EXCEPT ![p] = w]
    /\ UNCHANGED <<life, parent, killed, memory>>

TKill == \E q \in Process \ {idleproc} :
    /\ life[q] # "none"
    /\ killed' = killed \cup {q}
    /\ waiting' = [waiting EXCEPT ![q] = NULL]
    /\ UNCHANGED <<life, parent, memory>>

TNext == TFork \/ TExec \/ TExit \/ TInherit \/ TReap \/ TSleep \/ TKill

TSpec == TInit /\ [][TNext]_tvars
=============================================================================
