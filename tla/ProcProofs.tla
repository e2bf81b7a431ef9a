------------------------------ MODULE ProcProofs ------------------------------
(***************************************************************************)
(* Proofs about Proc, for any number of processes, pids, kernel stacks and *)
(* ticks per time slice, and any set of allocations that may fail; and,    *)
(* from "The programs of user/ pass" on, about Programs, for any length of *)
(* their runs of yield, any number of children and any depth of the tree.  *)
(***************************************************************************)
EXTENDS Programs, SequenceTheorems, FiniteSetTheorems, TLAPS

\* How the places where processes continue, their states and the CPU go
\* together.  The places of initproc and idleproc are theirs alone; a process
\* is in the reparenting loop only while it has the CPU; and a process that
\* executes is runnable, unless it is on its way out.
Control ==
    /\ pc[idleproc] = "idle" /\ state[idleproc] = "RUNNABLE"
    /\ \A p \in Process : pc[p] = "idle" => p = idleproc
    /\ pc[initproc] \in {"init_main", "init_loop", "init_end", "do_wait", "wait_woken", "do_exit"}
    /\ \A p \in Process : pc[p] \in {"init_main", "init_loop", "init_end"} => p = initproc
    /\ \A p \in Process : pc[p] = "reparent" => p = current /\ ~in_schedule
    /\ \A p \in Process : state[p] = "ZOMBIE" <=> pc[p] \in {"reparent", "dead"}
    /\ \A p \in Process : state[p] = "UNINIT" <=> pc[p] = "none"
    /\ \A p \in Process : state[p] = "SLEEPING" => pc[p] = "wait_woken"
    /\ \A p \in Process : state[p] = "SLEEPING" <=> wait_state[p] = "WT_CHILD"
    /\ ~in_schedule /\ pc[current] # "reparent" => state[current] = "RUNNABLE"

\* Every set that contains the youngest child of p and, with a process, its older
\* sibling, contains all the children of p.
Reached == \A p \in Process : \A S \in SUBSET Process :
    /\ cptr[p] # NULL => cptr[p] \in S
    /\ \A s \in S : optr[s] # NULL => optr[s] \in S
    => \A q \in Process : parent[q] = p => q \in S

\* initproc stays the child of idleproc, nobody is its own parent, pointers of
\* processes that do not exist are clear, and nobody's older sibling is the
\* youngest child of somebody: what FamilyLinks does not say of a stale yptr.
Kinship ==
    /\ parent[initproc] = idleproc
    /\ \A q \in Process : parent[q] # q
    /\ \A q \in Process : parent[q] = NULL => optr[q] = NULL /\ yptr[q] = NULL
    /\ \A p, q \in Process : optr[q] # NULL => optr[q] # cptr[p]

\* The children that a do_wait of p is about, from the parent pointers alone.
Wanted(p) == {q \in Process : parent[q] = p /\ wpid[p] \in {ANY, q}}

\* NoLostWakeup, told with Wanted.
Sleepers == \A p \in Process : state[p] = "SLEEPING" =>
    Wanted(p) # {} /\ \A q \in Wanted(p) : state[q] # "ZOMBIE"

\* The inductive invariant.
IInv ==
    /\ TypeOK /\ TableAgrees /\ Control
    /\ FamilyLinks /\ Kinship /\ Reached /\ NoOrphans /\ Sleepers

----------------------------------------------------------------------------
(***************************************************************************)
(* The process list seen as a sequence: list_add at the head and list_del. *)
(***************************************************************************)

\* What removing one entry does to a sequence.
LEMMA RemoveAtFacts ==
    ASSUME NEW S, NEW s \in Seq(S), NEW i \in 1 .. Len(s)
    PROVE  /\ RemoveAt(s, i) \in Seq(S)
           /\ Len(RemoveAt(s, i)) = Len(s) - 1
           /\ \A j \in 1 .. Len(s) - 1 :
                RemoveAt(s, i)[j] = IF j < i THEN s[j] ELSE s[j + 1]
<1> DEFINE a == SubSeq(s, 1, i - 1)
           b == SubSeq(s, i + 1, Len(s))
<1>1. /\ a \in Seq(S) /\ Len(a) = i - 1
      /\ \A j \in 1 .. i - 1 : a[j] = s[j]
  OBVIOUS
<1>2. /\ b \in Seq(S) /\ Len(b) = Len(s) - i
      /\ \A j \in 1 .. Len(s) - i : b[j] = s[i + j]
  OBVIOUS
<1>3. RemoveAt(s, i) = a \o b
  BY DEF RemoveAt
<1> HIDE DEF a, b
<1>4. /\ a \o b \in Seq(S) /\ Len(a \o b) = Len(s) - 1
      /\ \A j \in 1 .. Len(s) - 1 :
           (a \o b)[j] = IF j <= Len(a) THEN a[j] ELSE b[j - Len(a)]
  <2>1. /\ a \o b \in Seq(S) /\ Len(a \o b) = Len(a) + Len(b)
        /\ \A j \in 1 .. Len(a) + Len(b) :
             (a \o b)[j] = IF j <= Len(a) THEN a[j] ELSE b[j - Len(a)]
    BY <1>1, <1>2, ConcatProperties
  <2> QED BY <1>1, <1>2, <2>1
<1>5. ASSUME NEW j \in 1 .. Len(s) - 1
      PROVE  (a \o b)[j] = IF j < i THEN s[j] ELSE s[j + 1]
  <2>1. CASE j < i
    BY <1>1, <1>4, <2>1
  <2>2. CASE ~(j < i)
    <3>1. j - (i - 1) \in 1 .. Len(s) - i /\ i + (j - (i - 1)) = j + 1
      BY <2>2
    <3> QED BY <1>1, <1>2, <1>4, <2>2, <3>1
  <2> QED BY <2>1, <2>2
<1> QED BY <1>3, <1>4, <1>5

\* What putting an entry at the head does to a sequence.
LEMMA ConsFacts ==
    ASSUME NEW S, NEW s \in Seq(S), NEW x \in S
    PROVE  /\ <<x>> \o s \in Seq(S)
           /\ Len(<<x>> \o s) = Len(s) + 1
           /\ (<<x>> \o s)[1] = x
           /\ \A j \in 1 .. Len(s) : (<<x>> \o s)[j + 1] = s[j]
           /\ \A j \in 2 .. Len(s) + 1 : (<<x>> \o s)[j] = s[j - 1]
  OBVIOUS

\* list_add at the head of a list of distinct entries: the new entry joins the
\* set of entries, and if it is new the entries stay distinct.
LEMMA ConsSet ==
    ASSUME NEW S, NEW s \in Seq(S), NEW x \in S
    PROVE  /\ ToSet(<<x>> \o s) = ToSet(s) \cup {x}
           /\ IsInjective(s) /\ x \notin ToSet(s) => IsInjective(<<x>> \o s)
<1> DEFINE t == <<x>> \o s
<1>1. /\ t \in Seq(S) /\ Len(t) = Len(s) + 1 /\ t[1] = x
      /\ \A j \in 1 .. Len(s) : t[j + 1] = s[j]
      /\ \A j \in 2 .. Len(s) + 1 : t[j] = s[j - 1]
  BY ConsFacts
<1> HIDE DEF t
<1>2. DOMAIN t = 1 .. Len(s) + 1 /\ DOMAIN s = 1 .. Len(s) /\ Len(s) \in Nat
  BY <1>1
<1>3. ASSUME NEW y PROVE y \in ToSet(t) <=> y \in ToSet(s) \cup {x}
  <2>1. ASSUME y \in ToSet(t) PROVE y \in ToSet(s) \cup {x}
    <3>1. PICK j \in 1 .. Len(s) + 1 : t[j] = y
      BY <1>2, <2>1 DEF ToSet
    <3>2. CASE j = 1
      BY <1>1, <3>1, <3>2
    <3>3. CASE j # 1
      <4>1. j - 1 \in 1 .. Len(s) /\ s[j - 1] = y
        BY <1>1, <1>2, <3>1, <3>3
      <4> QED BY <1>2, <4>1 DEF ToSet
    <3> QED BY <3>2, <3>3
  <2>2. ASSUME y \in ToSet(s) PROVE y \in ToSet(t)
    <3>1. PICK j \in 1 .. Len(s) : s[j] = y
      BY <1>2, <2>2 DEF ToSet
    <3>2. j + 1 \in 1 .. Len(s) + 1 /\ t[j + 1] = y
      BY <1>1, <1>2, <3>1
    <3> QED BY <1>2, <3>2 DEF ToSet
  <2>3. x \in ToSet(t)
    <3>1. 1 \in DOMAIN t
      BY <1>2
    <3> QED BY <1>1, <3>1 DEF ToSet
  <2> QED BY <2>1, <2>2, <2>3
<1>4. ASSUME IsInjective(s), x \notin ToSet(s) PROVE IsInjective(t)
  <2>1. \A j \in 1 .. Len(s) : s[j] # x
    BY <1>2, <1>4 DEF ToSet
  <2>2. ASSUME NEW i \in 1 .. Len(s) + 1, NEW j \in 1 .. Len(s) + 1, t[i] = t[j]
        PROVE  i = j
    <3>1. i # 1 => i - 1 \in 1 .. Len(s) /\ t[i] = s[i - 1]
      BY <1>1, <1>2
    <3>2. j # 1 => j - 1 \in 1 .. Len(s) /\ t[j] = s[j - 1]
      BY <1>1, <1>2
    <3>3. i # 1 /\ j # 1 => i - 1 = j - 1
      BY <1>2, <1>4, <2>2, <3>1, <3>2 DEF IsInjective
    <3> QED BY <1>1, <2>1, <2>2, <3>1, <3>2, <3>3
  <2> QED BY <1>2, <2>2 DEF IsInjective
<1> QED BY <1>3, <1>4 DEF t

\* list_del on a list of distinct entries: exactly one entry goes, and the rest
\* stay distinct.
LEMMA RemoveAtSet ==
    ASSUME NEW S, NEW s \in Seq(S), NEW i \in 1 .. Len(s), IsInjective(s)
    PROVE  /\ ToSet(RemoveAt(s, i)) = ToSet(s) \ {s[i]}
           /\ IsInjective(RemoveAt(s, i))
<1> DEFINE t == RemoveAt(s, i)
<1>1. /\ t \in Seq(S) /\ Len(t) = Len(s) - 1
      /\ \A j \in 1 .. Len(s) - 1 : t[j] = IF j < i THEN s[j] ELSE s[j + 1]
  BY RemoveAtFacts
<1> HIDE DEF t
<1>2. DOMAIN t = 1 .. Len(s) - 1 /\ DOMAIN s = 1 .. Len(s) /\ Len(s) \in Nat
  BY <1>1
<1> DEFINE from(j) == IF j < i THEN j ELSE j + 1
<1>3. ASSUME NEW j \in 1 .. Len(s) - 1
      PROVE  from(j) \in 1 .. Len(s) /\ from(j) # i /\ t[j] = s[from(j)]
  BY <1>1, <1>2
<1>4. \A a, b \in 1 .. Len(s) : s[a] = s[b] => a = b
  BY <1>2 DEF IsInjective
<1>5. ASSUME NEW y PROVE y \in ToSet(t) <=> y \in ToSet(s) \ {s[i]}
  <2>1. ASSUME y \in ToSet(t) PROVE y \in ToSet(s) \ {s[i]}
    <3>1. PICK j \in 1 .. Len(s) - 1 : t[j] = y
      BY <1>2, <2>1 DEF ToSet
    <3>2. from(j) \in 1 .. Len(s) /\ from(j) # i /\ s[from(j)] = y
      BY <1>3, <3>1
    <3>3. s[from(j)] # s[i]
      BY <1>4, <3>2
    <3> QED BY <1>2, <3>2, <3>3 DEF ToSet
  <2>2. ASSUME y \in ToSet(s), y # s[i] PROVE y \in ToSet(t)
    <3>1. PICK j \in 1 .. Len(s) : s[j] = y
      BY <1>2, <2>2 DEF ToSet
    <3>2. j # i
      BY <2>2, <3>1
    <3> DEFINE k == IF j < i THEN j ELSE j - 1
    <3>3. k \in 1 .. Len(s) - 1 /\ from(k) = j
      BY <1>2, <3>2
    <3>4. t[k] = y
      BY <1>3, <3>1, <3>3
    <3> QED BY <1>2, <3>3, <3>4 DEF ToSet
  <2> QED BY <2>1, <2>2
<1>6. ASSUME NEW a \in 1 .. Len(s) - 1, NEW b \in 1 .. Len(s) - 1, t[a] = t[b]
      PROVE  a = b
  <2>1. from(a) = from(b)
    BY <1>3, <1>4, <1>6
  <2> QED BY <1>2, <2>1
<1> QED BY <1>2, <1>5, <1>6 DEF t, IsInjective

----------------------------------------------------------------------------
(***************************************************************************)
(* Consequences of the invariant.                                          *)
(***************************************************************************)

\* Walking cptr and optr meets exactly the children.
LEMMA ChainIsChildren ==
    ASSUME TypeOK, FamilyLinks, Reached, NEW p \in Process
    PROVE  Chain(cptr[p]) = {q \in Process : parent[q] = p}
<1> USE ProcAssumption
<1> DEFINE K == {q \in Process : parent[q] = p}
<1>1. K \in SUBSET Process
  OBVIOUS
<1>2. /\ cptr[p] # NULL => cptr[p] \in K
      /\ \A s \in K : optr[s] # NULL => optr[s] \in K
  <2>1. \A s \in Process : cptr[s] \in Ptr /\ optr[s] \in Ptr
    BY DEF TypeOK
  <2>2. cptr[p] # NULL => parent[cptr[p]] = p
    BY DEF FamilyLinks
  <2>3. \A s \in Process : optr[s] # NULL => parent[optr[s]] = parent[s]
    BY DEF FamilyLinks
  <2> QED BY <2>1, <2>2, <2>3 DEF Ptr
<1>3. Chain(cptr[p]) \subseteq K
  BY <1>1, <1>2 DEF Chain
<1>4. ASSUME NEW q \in K, NEW S \in SUBSET Process,
             cptr[p] # NULL => cptr[p] \in S,
             \A s \in S : optr[s] # NULL => optr[s] \in S
      PROVE  q \in S
  BY <1>4 DEF Reached
<1>5. K \subseteq Chain(cptr[p])
  BY <1>4 DEF Chain
<1> QED BY <1>3, <1>5

\* do_wait looks at exactly the children it was asked about.
LEMMA WaitedIsWanted ==
    ASSUME TypeOK, TableAgrees, FamilyLinks, Reached, NEW p \in Process
    PROVE  Waited(p) = Wanted(p)
<1> USE ProcAssumption
<1>1. CASE wpid[p] = ANY
  BY <1>1, ChainIsChildren DEF Waited, Wanted
<1>2. CASE wpid[p] # ANY
  <2>1. wpid[p] \in Process /\ NULL \notin Process
    BY DEF TypeOK, Process
  <2>2. \A q \in Process : parent[q] = p => find_proc(q)
    BY <2>1 DEF FamilyLinks, TableAgrees, find_proc
  <2> QED BY <1>2, <2>1, <2>2 DEF Waited, Wanted
<1> QED BY <1>1, <1>2

\* Only a process in the loop of do_exit is both dead and a parent.
LEMMA DeadHaveNoChildren ==
    ASSUME IInv, NEW z \in Process, NEW q \in Process,
           state[z] \in {"ZOMBIE", "UNINIT"}, pc[z] # "reparent"
    PROVE  parent[q] # z
  BY ProcAssumption DEF IInv, FamilyLinks, NoOrphans, Process

\* The boot state satisfies the invariant.
LEMMA InitIInv == Init => IInv
<1> SUFFICES ASSUME Init PROVE IInv
  OBVIOUS
<1> USE ProcAssumption DEF Process, Ptr
<1>1. TypeOK
  <2>1. /\ parent \in [Process -> Ptr] /\ cptr \in [Process -> Ptr]
        /\ optr \in [Process -> Ptr] /\ yptr \in [Process -> Ptr]
    BY DEF Init
  <2>2. proc_list \in Seq(Process)
    BY DEF Init
  <2>3. pc \in [Process -> Place]
    BY DEF Init, Place
  <2>4. ticks \in 0 .. TICK_NUM - 1
    BY DEF Init
  <2>5. /\ state \in [Process -> {"UNINIT", "SLEEPING", "RUNNABLE", "ZOMBIE"}]
        /\ wait_state \in [Process -> {"NONE", "WT_CHILD"}]
        /\ exiting \in [Process -> BOOLEAN]
        /\ wpid \in [Process -> Process]
    BY DEF Init, ANY
  <2>6. need_resched \in [Process -> BOOLEAN] /\ in_schedule \in BOOLEAN
    BY DEF Init
  <2>7. /\ hash_list \subseteq Process /\ nr_process \in Nat /\ mm \subseteq Process
        /\ nfree \in Nat /\ current \in Process
        /\ panic \in {"none", "put_kstack", "initproc exit", "trap",
                      "create user_main failed"}
    BY DEF Init
  <2> QED BY <2>1, <2>2, <2>3, <2>4, <2>5, <2>6, <2>7 DEF TypeOK
<1>2. Live = {initproc}
  BY DEF Init, Live
<1>3. TableAgrees
  <2>1. ToSet(<<initproc>>) = {initproc} /\ IsInjective(<<initproc>>)
    BY DEF ToSet, IsInjective
  <2> QED BY <1>2, <2>1 DEF Init, TableAgrees
<1>4. Control
  BY DEF Init, Control
<1>5. Stale = {}
  BY DEF Init, Stale
<1>6. FamilyLinks
  BY <1>2, <1>5 DEF Init, FamilyLinks
<1>7. Kinship
  BY DEF Init, Kinship
<1>8. Reached
  BY DEF Init, Reached
<1>9. NoOrphans
  BY <1>2 DEF Init, NoOrphans
<1>10. Sleepers
  BY DEF Init, Sleepers
<1> QED BY <1>1, <1>3, <1>4, <1>6, <1>7, <1>8, <1>9, <1>10 DEF IInv
----------------------------------------------------------------------------
(***************************************************************************)
(* Steps that leave the family, the lists and the states alone.            *)
(***************************************************************************)

\* What is left alone by a step that touches neither the family, the lists
\* nor the state of a process, and neither enters nor leaves do_exit's loop.
Quiet ==
    /\ UNCHANGED <<parent, cptr, optr, yptr, proc_list, hash_list, nr_process,
                   state, wait_state>>
    /\ \A p \in Process : pc'[p] = "reparent" <=> pc[p] = "reparent"
    /\ \A p \in Process : state[p] = "SLEEPING" => wpid'[p] = wpid[p]

\* Such a step keeps the invariant when it keeps its parts about the CPU.
LEMMA QuietKeeps ==
    ASSUME IInv, TypeOK', Control', Quiet
    PROVE  IInv'
<1> USE ProcAssumption
<1>1. current \in Process /\ current' \in Process
  BY DEF IInv, TypeOK
<1>2. pc[current] = "reparent" <=> pc'[current'] = "reparent"
  BY <1>1 DEF IInv, Control, Quiet
<1>3. pc[current] = "reparent" => current' = current
  BY <1>1 DEF IInv, Control, Quiet
<1>4. Stale' = Stale
  BY <1>2, <1>3 DEF Stale, Quiet
<1>5. Live' = Live
  BY DEF Live, Quiet
<1>6. TableAgrees'
  BY <1>5 DEF IInv, TableAgrees, Quiet
<1>7. FamilyLinks'
  BY <1>4, <1>5 DEF IInv, FamilyLinks, Quiet
<1>8. Kinship'
  BY DEF IInv, Kinship, Quiet
<1>9. Reached'
  BY DEF IInv, Reached, Quiet
<1>10. NoOrphans'
  <2> SUFFICES ASSUME NEW q \in Live
               PROVE  \/ state[parent[q]] \in {"RUNNABLE", "SLEEPING"}
                      \/ parent[q] = current' /\ pc'[current'] = "reparent"
    BY <1>5 DEF NoOrphans, Quiet
  <2> QED BY <1>2, <1>3 DEF IInv, NoOrphans
<1>11. Sleepers'
  <2> SUFFICES ASSUME NEW p \in Process, state[p] = "SLEEPING"
               PROVE  Wanted(p)' # {} /\ \A q \in Wanted(p)' : state[q] # "ZOMBIE"
    BY DEF Sleepers, Quiet
  <2>1. Wanted(p)' = Wanted(p)
    BY DEF Wanted, Quiet
  <2> QED BY <2>1 DEF IInv, Sleepers
<1> QED BY <1>6, <1>7, <1>8, <1>9, <1>10, <1>11 DEF IInv

\* Every step of the current process that only moves it from one place to the
\* next, and every switch of the scheduler, keeps the invariant.
LEMMA QuietSteps ==
    ASSUME IInv,
           \/ SysForkRefused \/ SysForkNoStack \/ SysForkNoMm \/ SysExit \/ SysWait
           \/ SysYield \/ OtherTrap \/ FatalTrap \/ InitExit \/ WaitWoken \/ WaitNoChild
           \/ TrapEnd \/ IdleLoop \/ InitMainFails \/ InitLoop \/ InitEnd \/ Exec
           \/ ExecFails \/ Schedule \/ Tick \/ UNCHANGED vars
    PROVE  IInv'
<1> USE ProcAssumption
<1>a. TypeOK /\ Control
  BY DEF IInv
<1>b. current \in Process /\ idleproc \in Process /\ initproc \in Process
  BY DEF IInv, TypeOK, Process
<1>1. CASE SysForkRefused
  <2>1. TypeOK'
    BY <1>1, <1>a, <1>b DEF TypeOK, Place, SysForkRefused, At, GoTo, family, table, status, cpu
  <2>2. Control'
    BY <1>1, <1>a, <1>b DEF TypeOK, Control, SysForkRefused, At, GoTo, family, table, status, cpu
  <2>3. Quiet
    BY <1>1, <1>a, <1>b DEF TypeOK, Control, Quiet, SysForkRefused, At, GoTo, family, table, status, cpu
  <2> QED BY <2>1, <2>2, <2>3, QuietKeeps
<1>2. CASE SysForkNoMm
  <2>1. TypeOK'
    BY <1>2, <1>a, <1>b DEF TypeOK, Place, SysForkNoMm, At, GoTo, family, table, status, cpu
  <2>2. Control'
    BY <1>2, <1>a, <1>b DEF TypeOK, Control, SysForkNoMm, At, GoTo, family, table, status, cpu
  <2>3. Quiet
    BY <1>2, <1>a, <1>b DEF TypeOK, Control, Quiet, SysForkNoMm, At, GoTo, family, table, status, cpu
  <2> QED BY <2>1, <2>2, <2>3, QuietKeeps
<1>3. CASE SysExit
  <2>1. TypeOK'
    BY <1>3, <1>a, <1>b DEF TypeOK, Place, SysExit, At, GoTo, family, table, status, cpu
  <2>2. Control'
    BY <1>3, <1>a, <1>b DEF TypeOK, Control, SysExit, At, GoTo, family, table, status, cpu
  <2>3. Quiet
    BY <1>3, <1>a, <1>b DEF TypeOK, Control, Quiet, SysExit, At, GoTo, family, table, status, cpu
  <2> QED BY <2>1, <2>2, <2>3, QuietKeeps
<1>4. CASE SysWait
  <2>1. TypeOK'
    BY <1>4, <1>a, <1>b DEF TypeOK, Place, SysWait, At, GoTo, ANY, Process, family, table, status, cpu
  <2>2. Control'
    BY <1>4, <1>a, <1>b DEF TypeOK, Control, SysWait, At, GoTo, family, table, status, cpu
  <2>3. Quiet
    BY <1>4, <1>a, <1>b DEF TypeOK, Control, Quiet, SysWait, At, GoTo, family, table, status, cpu
  <2> QED BY <2>1, <2>2, <2>3, QuietKeeps
<1>5. CASE SysYield
  <2>1. TypeOK'
    BY <1>5, <1>a, <1>b DEF TypeOK, Place, SysYield, At, GoTo, family, table, status, cpu
  <2>2. Control'
    BY <1>5, <1>a, <1>b DEF TypeOK, Control, SysYield, At, GoTo, family, table, status, cpu
  <2>3. Quiet
    BY <1>5, <1>a, <1>b DEF TypeOK, Control, Quiet, SysYield, At, GoTo, family, table, status, cpu
  <2> QED BY <2>1, <2>2, <2>3, QuietKeeps
<1>6. CASE OtherTrap
  <2>1. TypeOK'
    BY <1>6, <1>a, <1>b DEF TypeOK, Place, OtherTrap, At, GoTo, family, table, status, cpu
  <2>2. Control'
    BY <1>6, <1>a, <1>b DEF TypeOK, Control, OtherTrap, At, GoTo, family, table, status, cpu
  <2>3. Quiet
    BY <1>6, <1>a, <1>b DEF TypeOK, Control, Quiet, OtherTrap, At, GoTo, family, table, status, cpu
  <2> QED BY <2>1, <2>2, <2>3, QuietKeeps
<1>7. CASE WaitWoken
  <2>1. TypeOK'
    BY <1>7, <1>a, <1>b DEF TypeOK, Place, WaitWoken, At, GoTo, family, table, status, cpu
  <2>2. Control'
    BY <1>7, <1>a, <1>b DEF TypeOK, Control, WaitWoken, At, GoTo, family, table, status, cpu
  <2>3. Quiet
    BY <1>7, <1>a, <1>b DEF TypeOK, Control, Quiet, WaitWoken, At, GoTo, family, table, status, cpu
  <2> QED BY <2>1, <2>2, <2>3, QuietKeeps
<1>8. CASE WaitNoChild
  <2>1. TypeOK'
    BY <1>8, <1>a, <1>b DEF TypeOK, Place, WaitNoChild, At, GoTo, ANY, Process, family, table, status, cpu
  <2>2. Control'
    BY <1>8, <1>a, <1>b DEF TypeOK, Control, WaitNoChild, At, GoTo, family, table, status, cpu
  <2>3. Quiet
    BY <1>8, <1>a, <1>b DEF TypeOK, Control, Quiet, WaitNoChild, At, GoTo, family, table, status, cpu
  <2> QED BY <2>1, <2>2, <2>3, QuietKeeps
<1>9. CASE TrapEnd
  <2>1. TypeOK'
    BY <1>9, <1>a, <1>b DEF TypeOK, Place, TrapEnd, At, GoTo, family, table, status, cpu
  <2>2. Control'
    BY <1>9, <1>a, <1>b DEF TypeOK, Control, TrapEnd, At, GoTo, family, table, status, cpu
  <2>3. Quiet
    BY <1>9, <1>a, <1>b DEF TypeOK, Control, Quiet, TrapEnd, At, GoTo, family, table, status, cpu
  <2> QED BY <2>1, <2>2, <2>3, QuietKeeps
<1>10. CASE IdleLoop
  <2>1. TypeOK'
    BY <1>10, <1>a, <1>b DEF TypeOK, Place, IdleLoop, At, family, table, status, cpu
  <2>2. Control'
    BY <1>10, <1>a, <1>b DEF TypeOK, Control, IdleLoop, At, family, table, status, cpu
  <2>3. Quiet
    BY <1>10, <1>a, <1>b DEF TypeOK, Control, Quiet, IdleLoop, At, family, table, status, cpu
  <2> QED BY <2>1, <2>2, <2>3, QuietKeeps
<1>11. CASE InitLoop
  <2>1. TypeOK'
    BY <1>11, <1>a, <1>b DEF TypeOK, Place, InitLoop, At, GoTo, family, table, status, cpu
  <2>2. Control'
    BY <1>11, <1>a, <1>b DEF TypeOK, Control, InitLoop, At, GoTo, family, table, status, cpu
  <2>3. Quiet
    BY <1>11, <1>a, <1>b DEF TypeOK, Control, Quiet, InitLoop, At, GoTo, family, table, status, cpu
  <2> QED BY <2>1, <2>2, <2>3, QuietKeeps
<1>12. CASE InitEnd
  <2>1. TypeOK'
    BY <1>12, <1>a, <1>b DEF TypeOK, Place, InitEnd, At, GoTo, family, table, status, cpu
  <2>2. Control'
    BY <1>12, <1>a, <1>b DEF TypeOK, Control, InitEnd, At, GoTo, family, table, status, cpu
  <2>3. Quiet
    BY <1>12, <1>a, <1>b DEF TypeOK, Control, Quiet, InitEnd, At, GoTo, family, table, status, cpu
  <2> QED BY <2>1, <2>2, <2>3, QuietKeeps
<1>13. CASE Exec
  <2>1. TypeOK'
    BY <1>13, <1>a, <1>b DEF TypeOK, Place, Exec, At, GoTo, family, table, status, cpu
  <2>2. Control'
    BY <1>13, <1>a, <1>b DEF TypeOK, Control, Exec, At, GoTo, family, table, status, cpu
  <2>3. Quiet
    BY <1>13, <1>a, <1>b DEF TypeOK, Control, Quiet, Exec, At, GoTo, family, table, status, cpu
  <2> QED BY <2>1, <2>2, <2>3, QuietKeeps
<1>14. CASE ExecFails
  <2>1. TypeOK'
    BY <1>14, <1>a, <1>b DEF TypeOK, Place, ExecFails, At, GoTo, family, table, status, cpu
  <2>2. Control'
    BY <1>14, <1>a, <1>b DEF TypeOK, Control, ExecFails, At, GoTo, family, table, status, cpu
  <2>3. Quiet
    BY <1>14, <1>a, <1>b DEF TypeOK, Control, Quiet, ExecFails, At, GoTo, family, table, status, cpu
  <2> QED BY <2>1, <2>2, <2>3, QuietKeeps
<1>15. CASE Tick
  <2>1. TypeOK'
    BY <1>15, <1>a, <1>b DEF TypeOK, Place, Tick, IntrOn, family, table, status, cpu
  <2>2. Control'
    BY <1>15, <1>a, <1>b DEF TypeOK, Control, Tick, IntrOn, family, table, status, cpu
  <2>3. Quiet
    BY <1>15, <1>a, <1>b DEF TypeOK, Control, Quiet, Tick, IntrOn, family, table, status, cpu
  <2> QED BY <2>1, <2>2, <2>3, QuietKeeps
<1>16. CASE SysForkNoStack \/ FatalTrap \/ InitExit \/ InitMainFails
  <2>0. /\ UNCHANGED <<parent, cptr, optr, yptr, proc_list, hash_list, nr_process, nfree>>
        /\ UNCHANGED <<state, wait_state, exiting, current, in_schedule, need_resched>>
        /\ UNCHANGED <<ticks, mm, pc, wpid>>
        /\ panic' \in {"put_kstack", "initproc exit", "trap", "create user_main failed"}
    BY <1>16 DEF SysForkNoStack, FatalTrap, InitExit, InitMainFails, Die, family, table, status, cpu
  <2>1. TypeOK'
    BY <1>a, <2>0 DEF TypeOK
  <2>2. Control' /\ Quiet
    BY <1>a, <2>0 DEF Control, Quiet
  <2> QED BY <2>1, <2>2, QuietKeeps
<1>17. CASE Schedule
  <2>0. /\ UNCHANGED <<parent, cptr, optr, yptr, proc_list, hash_list, nr_process, nfree>>
        /\ UNCHANGED <<state, wait_state, exiting, ticks, mm, pc, wpid, panic>>
        /\ current' \in Process /\ in_schedule' = FALSE
        /\ need_resched' \in [Process -> BOOLEAN]
    BY <1>17, <1>a, <1>b DEF TypeOK, Schedule, family, table, status, cpu
  <2>1. TypeOK'
    BY <1>a, <2>0 DEF TypeOK
  <2>2. state[current'] = "RUNNABLE"
    BY <1>17, <1>a DEF Control, Schedule, Picks
  <2>3. Control'
    BY <1>17, <1>a, <2>2 DEF Control, Schedule, family, table, status, cpu
  <2>4. Quiet
    BY <1>17, <1>a DEF Quiet, Schedule, family, table, status, cpu
  <2> QED BY <2>1, <2>3, <2>4, QuietKeeps
<1>18. CASE UNCHANGED vars
  <2>0. /\ UNCHANGED <<parent, cptr, optr, yptr, proc_list, hash_list, nr_process, nfree>>
        /\ UNCHANGED <<state, wait_state, exiting, current, in_schedule, need_resched>>
        /\ UNCHANGED <<ticks, mm, pc, wpid, panic>>
    BY <1>18 DEF vars, family, table, status, cpu
  <2>1. TypeOK'
    BY <1>a, <2>0 DEF TypeOK
  <2>2. Control' /\ Quiet
    BY <1>a, <2>0 DEF Control, Quiet
  <2> QED BY <2>1, <2>2, QuietKeeps
<1> QED BY <1>1, <1>2, <1>3, <1>4, <1>5, <1>6, <1>7, <1>8, <1>9, <1>10, <1>11,
       <1>12, <1>13, <1>14, <1>15, <1>16, <1>17, <1>18
----------------------------------------------------------------------------
(***************************************************************************)
(* Steps that change the state of processes but neither family nor lists.  *)
(***************************************************************************)

\* Every process has a parent, which is a process.
LEMMA ParentExists ==
    ASSUME TypeOK, FamilyLinks, NEW q \in Live
    PROVE  parent[q] \in Process
<1>1. q \in Process
  BY DEF Live
<1>2. parent[q] \in Ptr
  BY <1>1 DEF TypeOK
<1>3. parent[q] # NULL
  BY <1>1 DEF FamilyLinks
<1> QED BY <1>2, <1>3 DEF Ptr

\* The parts of the invariant that depend only on the family and the lists.
LEMMA FamilyKeeps ==
    ASSUME IInv, TypeOK', Control',
           UNCHANGED <<parent, cptr, optr, yptr, proc_list, hash_list, nr_process>>,
           Live' = Live, Stale \cap Process \subseteq Stale',
           NoOrphans', Sleepers'
    PROVE  IInv'
<1> USE ProcAssumption
<1>1. TableAgrees'
  BY DEF IInv, TableAgrees
<1>2. FamilyLinks'
  <2>1. \A p \in Process : cptr[p] # NULL => cptr[p] \in Process
    BY DEF IInv, TypeOK, Ptr
  <2> QED BY <2>1 DEF IInv, FamilyLinks
<1>3. Kinship'
  BY DEF IInv, Kinship
<1>4. Reached'
  BY DEF IInv, Reached
<1> QED BY <1>1, <1>2, <1>3, <1>4 DEF IInv

\* do_exit makes its caller a zombie and wakes the parent that waits for it.
LEMMA DoExitStep == ASSUME IInv, DoExit PROVE IInv'
<1> USE ProcAssumption
<1> DEFINE p == parent[current]
<1>a. TypeOK /\ Control
  BY DEF IInv
<1>b. /\ current \in Process /\ current # initproc /\ current # idleproc
      /\ pc[current] = "do_exit" /\ state[current] = "RUNNABLE"
      /\ NULL \notin Process /\ initproc \in Process /\ idleproc \in Process
      /\ ~in_schedule
  BY <1>a DEF TypeOK, Control, DoExit, At, Process
<1>c. p \in Process /\ p # current
  <2>1. current \in Live
    BY <1>b DEF Live
  <2>2. p \in Process
    BY <2>1, ParentExists DEF IInv
  <2> QED BY <1>b, <2>2 DEF IInv, Kinship
<1> DEFINE woken == wait_state[p] = "WT_CHILD"
<1>d. woken <=> state[p] = "SLEEPING"
  BY <1>a, <1>c DEF Control
<1>1. /\ UNCHANGED <<parent, cptr, optr, yptr, proc_list, hash_list, nr_process, nfree>>
      /\ UNCHANGED <<exiting, current, in_schedule, need_resched, ticks, wpid, panic>>
      /\ mm' = mm \ {current}
      /\ pc' = [pc EXCEPT ![current] = "reparent"]
  BY DEF DoExit, GoTo, family, table, cpu
<1>2. state' = [q \in Process |-> IF q = current THEN "ZOMBIE"
                                 ELSE IF q = p /\ woken THEN "RUNNABLE" ELSE state[q]]
  BY <1>a, <1>b, <1>c DEF DoExit, WokenState, TypeOK
<1>3. wait_state' = [q \in Process |-> IF q = p /\ woken THEN "NONE" ELSE wait_state[q]]
  BY <1>a, <1>b, <1>c, <1>d DEF DoExit, WokenWait, TypeOK
<1> HIDE DEF p, woken
<1>4. TypeOK'
  BY <1>1, <1>2, <1>3, <1>a, <1>b DEF TypeOK, Place
<1>5. Control'
  BY <1>1, <1>2, <1>3, <1>a, <1>b, <1>c, <1>d DEF Control, TypeOK
<1>6. Live' = Live
  BY <1>2, <1>a, <1>b, <1>d DEF Live
<1>7. Stale = {}
  BY <1>b DEF Stale
<1>8. NoOrphans'
  <2> SUFFICES ASSUME NEW q \in Live
               PROVE  \/ state'[parent[q]] \in {"RUNNABLE", "SLEEPING"}
                      \/ parent[q] = current /\ pc'[current] = "reparent"
    BY <1>1, <1>6 DEF NoOrphans
  <2>1. pc'[current] = "reparent" /\ parent[q] \in Process
    BY <1>1, <1>a, <1>b, ParentExists DEF IInv, TypeOK
  <2>2. state[parent[q]] \in {"RUNNABLE", "SLEEPING"}
    BY <1>b DEF IInv, NoOrphans
  <2> QED BY <1>2, <2>1, <2>2
<1>9. Sleepers'
  <2> SUFFICES ASSUME NEW r \in Process, state'[r] = "SLEEPING"
               PROVE  Wanted(r)' # {} /\ \A q \in Wanted(r)' : state'[q] # "ZOMBIE"
    BY DEF Sleepers
  <2>1. Wanted(r)' = Wanted(r)
    BY <1>1 DEF Wanted
  <2>2. state[r] = "SLEEPING" /\ r # p
    BY <1>2, <1>c, <1>d
  <2>3. current \notin Wanted(r)
    BY <2>2 DEF Wanted, p
  <2>4. \A q \in Wanted(r) : q \in Process /\ state'[q] = "ZOMBIE" => state[q] = "ZOMBIE"
    BY <1>2, <2>3 DEF Wanted
  <2> QED BY <2>1, <2>2, <2>4 DEF IInv, Sleepers, Wanted
<1> QED BY <1>1, <1>4, <1>5, <1>6, <1>7, <1>8, <1>9, FamilyKeeps

\* The loop of do_exit ends only when no child is left.
LEMMA ReparentDoneStep == ASSUME IInv, ReparentDone PROVE IInv'
<1> USE ProcAssumption
<1>a. TypeOK /\ Control
  BY DEF IInv
<1>b. /\ current \in Process /\ current # initproc /\ current # idleproc
      /\ pc[current] = "reparent" /\ state[current] = "ZOMBIE" /\ cptr[current] = NULL
      /\ NULL \notin Process /\ initproc \in Process /\ idleproc \in Process
  BY <1>a DEF TypeOK, Control, ReparentDone, At, Process
<1>1. /\ UNCHANGED <<parent, cptr, optr, yptr, proc_list, hash_list, nr_process, nfree>>
      /\ UNCHANGED <<state, wait_state, exiting, current, need_resched, ticks, mm, wpid, panic>>
      /\ in_schedule' = TRUE
      /\ pc' = [pc EXCEPT ![current] = "dead"]
  BY DEF ReparentDone, GoTo, family, table, status
<1>2. \A q \in Process : parent[q] # current
  <2>1. {} \in SUBSET Process
    OBVIOUS
  <2> QED BY <1>b, <2>1 DEF IInv, Reached
<1>3. TypeOK'
  BY <1>1, <1>a, <1>b DEF TypeOK, Place
<1>4. Control'
  <2>1. \A p \in Process : pc'[p] = IF p = current THEN "dead" ELSE pc[p]
    BY <1>1, <1>a DEF TypeOK
  <2>2. /\ pc'[idleproc] = "idle" /\ state'[idleproc] = "RUNNABLE"
        /\ pc'[initproc] \in {"init_main", "init_loop", "init_end", "do_wait", "wait_woken", "do_exit"}
    BY <1>1, <1>a, <1>b, <2>1 DEF Control
  <2>3. \A p \in Process :
           /\ pc'[p] = "idle" => p = idleproc
           /\ pc'[p] \in {"init_main", "init_loop", "init_end"} => p = initproc
           /\ pc'[p] # "reparent"
    BY <1>a, <2>1 DEF Control
  <2>4. \A p \in Process :
           /\ state'[p] = "ZOMBIE" <=> pc'[p] \in {"reparent", "dead"}
           /\ state'[p] = "UNINIT" <=> pc'[p] = "none"
           /\ state'[p] = "SLEEPING" => pc'[p] = "wait_woken"
           /\ state'[p] = "SLEEPING" <=> wait_state'[p] = "WT_CHILD"
    BY <1>1, <1>a, <1>b, <2>1 DEF Control
  <2> QED BY <1>1, <2>2, <2>3, <2>4 DEF Control
<1>5. Live' = Live
  BY <1>1 DEF Live
<1>6. Stale \cap Process = {}
  BY <1>b DEF Stale
<1>7. NoOrphans'
  BY <1>1, <1>2, <1>5 DEF IInv, NoOrphans, Live
<1>8. Sleepers'
  BY <1>1 DEF IInv, Sleepers, Wanted
<1> QED BY <1>1, <1>3, <1>4, <1>5, <1>6, <1>7, <1>8, FamilyKeeps

\* do_kill marks a process and wakes it if it sleeps.
LEMMA SysKillStep == ASSUME IInv, SysKill PROVE IInv'
<1> USE ProcAssumption
<1>a. TypeOK /\ Control
  BY DEF IInv
<1>b. /\ current \in Process /\ pc[current] = "user" /\ state[current] = "RUNNABLE"
      /\ current # initproc /\ current # idleproc /\ ~in_schedule
      /\ initproc \in Process /\ idleproc \in Process
  BY <1>a DEF TypeOK, Control, SysKill, At, Process
<1>1. /\ UNCHANGED <<parent, cptr, optr, yptr, proc_list, hash_list, nr_process, nfree>>
      /\ UNCHANGED <<current, in_schedule, need_resched, ticks, mm, wpid, panic>>
      /\ pc' = [pc EXCEPT ![current] = "trap_end"]
  BY DEF SysKill, GoTo, family, table, cpu
<1>2. CASE UNCHANGED <<state, wait_state, exiting>>
  <2>1. TypeOK'
    BY <1>1, <1>2, <1>a, <1>b DEF TypeOK, Place
  <2>2. Control' /\ Quiet
    BY <1>1, <1>2, <1>a, <1>b DEF Control, TypeOK, Quiet
  <2> QED BY <2>1, <2>2, QuietKeeps
<1>3. CASE ~UNCHANGED <<state, wait_state, exiting>>
  <2>1. PICK q \in Process :
          /\ exiting' = [exiting EXCEPT ![q] = TRUE]
          /\ state' = IF wait_state[q] = "WT_CHILD" THEN WokenState(state, q) ELSE state
          /\ wait_state' = IF wait_state[q] = "WT_CHILD"
                             THEN WokenWait(state, wait_state, q) ELSE wait_state
    BY <1>3 DEF SysKill, status
  <2>2. /\ exiting' \in [Process -> BOOLEAN]
        /\ state' = [r \in Process |-> IF r = q /\ state[q] = "SLEEPING"
                                        THEN "RUNNABLE" ELSE state[r]]
        /\ wait_state' = [r \in Process |-> IF r = q /\ state[q] = "SLEEPING"
                                        THEN "NONE" ELSE wait_state[r]]
    BY <1>a, <2>1 DEF TypeOK, Control, WokenState, WokenWait
  <2>3. TypeOK'
    BY <1>1, <1>a, <1>b, <2>2 DEF TypeOK, Place
  <2>4. Control'
    BY <1>1, <1>a, <1>b, <2>2 DEF Control, TypeOK
  <2>5. Live' = Live
    BY <2>2 DEF Live
  <2>6. Stale = {}
    BY <1>b DEF Stale
  <2>7. NoOrphans'
    <3> SUFFICES ASSUME NEW x \in Live
                 PROVE  state'[parent[x]] \in {"RUNNABLE", "SLEEPING"}
      BY <1>1, <2>5 DEF NoOrphans
    <3>1. parent[x] \in Process /\ state[parent[x]] \in {"RUNNABLE", "SLEEPING"}
      BY <1>b, ParentExists DEF IInv, NoOrphans
    <3> QED BY <2>2, <3>1
  <2>8. Sleepers'
    <3> SUFFICES ASSUME NEW r \in Process, state'[r] = "SLEEPING"
                 PROVE  Wanted(r)' # {} /\ \A x \in Wanted(r)' : state'[x] # "ZOMBIE"
      BY DEF Sleepers
    <3>1. Wanted(r)' = Wanted(r)
      BY <1>1 DEF Wanted
    <3>2. state[r] = "SLEEPING"
      BY <2>2
    <3>3. \A x \in Process : state'[x] = "ZOMBIE" => state[x] = "ZOMBIE"
      BY <2>2
    <3> QED BY <3>1, <3>2, <3>3 DEF IInv, Sleepers, Wanted
  <2> QED BY <1>1, <2>3, <2>4, <2>5, <2>6, <2>7, <2>8, FamilyKeeps
<1> QED BY <1>2, <1>3

\* do_wait puts its caller to sleep only when it has looked at all children
\* and found no zombie.
LEMMA WaitSleepStep == ASSUME IInv, WaitSleep PROVE IInv'
<1> USE ProcAssumption
<1>a. TypeOK /\ Control
  BY DEF IInv
<1>b. /\ current \in Process /\ pc[current] = "do_wait" /\ state[current] = "RUNNABLE"
      /\ current # idleproc /\ ~in_schedule
      /\ initproc \in Process /\ idleproc \in Process
  BY <1>a DEF TypeOK, Control, WaitSleep, At, Process
<1>1. /\ UNCHANGED <<parent, cptr, optr, yptr, proc_list, hash_list, nr_process, nfree>>
      /\ UNCHANGED <<exiting, current, need_resched, ticks, mm, wpid, panic>>
      /\ in_schedule' = TRUE
      /\ pc' = [pc EXCEPT ![current] = "wait_woken"]
      /\ state' = [state EXCEPT ![current] = "SLEEPING"]
      /\ wait_state' = [wait_state EXCEPT ![current] = "WT_CHILD"]
  BY DEF WaitSleep, GoTo, family, table
<1>2. TypeOK'
  BY <1>1, <1>a, <1>b DEF TypeOK, Place
<1>3. Control'
  BY <1>1, <1>a, <1>b DEF Control, TypeOK
<1>4. Live' = Live
  BY <1>1, <1>a, <1>b DEF Live, TypeOK
<1>5. Stale = {}
  BY <1>b DEF Stale
<1>6. NoOrphans'
  <2> SUFFICES ASSUME NEW x \in Live
               PROVE  state'[parent[x]] \in {"RUNNABLE", "SLEEPING"}
    BY <1>1, <1>4 DEF NoOrphans
  <2>1. parent[x] \in Process /\ state[parent[x]] \in {"RUNNABLE", "SLEEPING"}
    BY <1>b, ParentExists DEF IInv, NoOrphans
  <2> QED BY <1>1, <1>a, <2>1 DEF TypeOK
<1>7. Sleepers'
  <2> SUFFICES ASSUME NEW r \in Process, state'[r] = "SLEEPING"
               PROVE  Wanted(r)' # {} /\ \A x \in Wanted(r)' : state'[x] # "ZOMBIE"
    BY DEF Sleepers
  <2>1. Wanted(r)' = Wanted(r)
    BY <1>1 DEF Wanted
  <2>2. \A x \in Process : state'[x] = "ZOMBIE" => state[x] = "ZOMBIE"
    BY <1>1, <1>a DEF TypeOK
  <2>3. CASE r = current
    <3>1. Waited(current) = Wanted(current)
      BY <1>b, WaitedIsWanted DEF IInv
    <3> QED BY <2>1, <2>2, <2>3, <3>1 DEF WaitSleep, Wanted
  <2>4. CASE r # current
    <3>1. state[r] = "SLEEPING"
      BY <1>1, <1>a, <2>4 DEF TypeOK
    <3> QED BY <2>1, <2>2, <3>1 DEF IInv, Sleepers, Wanted
  <2> QED BY <2>3, <2>4
<1> QED BY <1>1, <1>2, <1>3, <1>4, <1>5, <1>6, <1>7, FamilyKeeps
----------------------------------------------------------------------------
(***************************************************************************)
(* Steps that change the family: do_fork, the loop of do_exit, do_wait.    *)
(***************************************************************************)

\* do_fork links the new process in as the youngest child of its caller.
LEMMA ForkedStep ==
    ASSUME IInv, NEW c \in UserPid, NEW start \in {"user", "exec"},
           Forked(c, start), nfree > 0,
           At("user") \/ At("init_main")
    PROVE  IInv'
<1> USE ProcAssumption
<1> DEFINE h == cptr[current]
           next == IF pc[current] = "user" THEN "trap_end" ELSE "do_wait"
<1>a. TypeOK /\ Control
  BY DEF IInv
<1>b. /\ current \in Process /\ state[current] = "RUNNABLE" /\ ~in_schedule
      /\ pc[current] \in {"user", "init_main"}
      /\ current # idleproc /\ (pc[current] = "user" <=> current # initproc)
      /\ initproc \in Process /\ idleproc \in Process /\ NULL \notin Process
      /\ c \in Process /\ c # idleproc /\ c # initproc
      /\ state[c] = "UNINIT" /\ c # current
  BY <1>a DEF TypeOK, Control, At, Process, Forked
<1>c. /\ parent[c] = NULL /\ optr[c] = NULL /\ yptr[c] = NULL /\ c \notin Live
  BY <1>b DEF IInv, FamilyLinks, Kinship, Live
<1>d. \A q \in Process : parent[q] # c
  BY <1>a, <1>b, DeadHaveNoChildren DEF Control
<1>e. \A q \in Process : /\ parent[q] \in Ptr /\ cptr[q] \in Ptr
                         /\ optr[q] \in Ptr /\ yptr[q] \in Ptr
  BY <1>a DEF TypeOK
<1>f. \A q \in Process : optr[q] # c /\ yptr[q] # c /\ cptr[q] # c
  <2>1. Stale = {}
    BY <1>b DEF Stale
  <2> QED BY <1>b, <1>c, <1>e, <2>1 DEF IInv, FamilyLinks, Kinship, Ptr
<1>g. /\ h \in Ptr /\ h # c
      /\ h # NULL => h \in Process /\ parent[h] = current /\ yptr[h] = NULL
  <2>1. Stale = {}
    BY <1>b DEF Stale
  <2> QED BY <1>b, <1>e, <1>f, <2>1 DEF IInv, FamilyLinks, Ptr
<1>1. /\ UNCHANGED <<exiting, current, in_schedule, need_resched, ticks, wpid, panic>>
      /\ parent' = [parent EXCEPT ![c] = current]
      /\ cptr' = [cptr EXCEPT ![current] = c]
      /\ optr' = [optr EXCEPT ![c] = h]
      /\ yptr' = [q \in Process |-> IF q = c THEN NULL ELSE IF q = h THEN c ELSE yptr[q]]
      /\ proc_list' = <<c>> \o proc_list
      /\ nr_process' = nr_process + 1
      /\ hash_list' = hash_list \cup {c}
      /\ nfree' = nfree - 1
      /\ mm' \in {mm, mm \cup {c}}
  BY DEF Forked, set_links, cpu
<1>2. /\ state' = [state EXCEPT ![c] = "RUNNABLE"]
      /\ wait_state' = [wait_state EXCEPT ![c] = "NONE"]
      /\ pc' = [q \in Process |-> IF q = c THEN start ELSE IF q = current THEN next ELSE pc[q]]
  BY <1>a, <1>b DEF Forked, WokenState, WokenWait, TypeOK
<1>2a. next \in {"trap_end", "do_wait"} /\ (next = "trap_end" <=> current # initproc)
  BY <1>b
<1> HIDE DEF h, next
<1>p. \A q \in Process : /\ parent'[q] = IF q = c THEN current ELSE parent[q]
                         /\ cptr'[q] = IF q = current THEN c ELSE cptr[q]
                         /\ optr'[q] = IF q = c THEN h ELSE optr[q]
                         /\ yptr'[q] = IF q = c THEN NULL ELSE IF q = h THEN c ELSE yptr[q]
  BY <1>1, <1>a DEF TypeOK
<1>3. Live' = Live \cup {c}
  BY <1>2, <1>a, <1>b DEF Live, TypeOK
<1>4. Stale = {} /\ Stale' = {}
  BY <1>1, <1>2, <1>2a, <1>b DEF Stale
<1>5. TypeOK'
  <2>1. proc_list' \in Seq(Process)
    BY <1>1, <1>a, <1>b, ConsFacts DEF TypeOK
  <2>2. /\ parent' \in [Process -> Ptr] /\ cptr' \in [Process -> Ptr]
        /\ optr' \in [Process -> Ptr] /\ yptr' \in [Process -> Ptr]
    BY <1>1, <1>a, <1>b, <1>e, <1>g DEF TypeOK, Ptr
  <2>3. pc' \in [Process -> Place]
    BY <1>2, <1>2a, <1>a DEF TypeOK, Place
  <2>4. /\ state' \in [Process -> {"UNINIT", "SLEEPING", "RUNNABLE", "ZOMBIE"}]
        /\ wait_state' \in [Process -> {"NONE", "WT_CHILD"}]
    BY <1>2, <1>a DEF TypeOK
  <2>5. nr_process' \in Nat /\ nfree' \in Nat
    <3>1. nr_process \in Nat /\ nfree \in Nat
      BY <1>a DEF TypeOK
    <3> QED BY <1>1, <3>1
  <2>6. hash_list' \subseteq Process /\ mm' \subseteq Process
    BY <1>1, <1>a, <1>b DEF TypeOK
  <2> QED BY <1>1, <1>a, <2>1, <2>2, <2>3, <2>4, <2>5, <2>6 DEF TypeOK
<1>6. TableAgrees'
  <2>1. proc_list \in Seq(Process)
    BY <1>a DEF TypeOK
  <2>2. /\ ToSet(proc_list') = ToSet(proc_list) \cup {c}
        /\ IsInjective(proc_list) /\ c \notin ToSet(proc_list) => IsInjective(proc_list')
        /\ Len(proc_list') = Len(proc_list) + 1
    BY <1>1, <1>b, <2>1, ConsSet, ConsFacts
  <2> QED BY <1>1, <1>3, <1>c, <2>1, <2>2 DEF IInv, TableAgrees
<1>7. Control'
  BY <1>1, <1>2, <1>2a, <1>a, <1>b DEF Control, TypeOK
<1>8. FamilyLinks'
  <2>1. ASSUME NEW p \in Process, cptr'[p] # NULL
        PROVE  parent'[cptr'[p]] = p /\ yptr'[cptr'[p]] = NULL
    <3>1. CASE p = current
      BY <1>p, <1>b, <3>1
    <3>2. CASE p # current
      <4>1. /\ cptr'[p] = cptr[p] /\ cptr[p] \in Process /\ cptr[p] # c
            /\ parent[cptr[p]] = p /\ yptr[cptr[p]] = NULL
        BY <1>p, <1>4, <1>e, <1>f, <2>1, <3>2 DEF IInv, FamilyLinks, Ptr
      <4> QED BY <1>p, <1>b, <1>g, <3>2, <4>1
    <3> QED BY <3>1, <3>2
  <2>2. ASSUME NEW q \in Process, optr'[q] # NULL
        PROVE  yptr'[optr'[q]] = q /\ parent'[optr'[q]] = parent'[q]
    <3>1. CASE q = c
      BY <1>p, <1>g, <2>2, <3>1
    <3>2. CASE q # c
      <4>1. /\ optr'[q] = optr[q] /\ optr[q] \in Process /\ optr[q] # c
            /\ yptr[optr[q]] = q /\ parent[optr[q]] = parent[q]
        BY <1>p, <1>e, <1>f, <2>2, <3>2 DEF IInv, FamilyLinks, Ptr
      <4> QED BY <1>p, <1>b, <1>g, <3>2, <4>1
    <3> QED BY <3>1, <3>2
  <2>3. ASSUME NEW q \in Process, yptr'[q] # NULL
        PROVE  optr'[yptr'[q]] = q
    <3>1. CASE q = h
      BY <1>p, <1>b, <1>g, <2>3, <3>1
    <3>2. CASE q # h
      <4>1. /\ yptr'[q] = yptr[q] /\ yptr[q] \in Process /\ yptr[q] # c
            /\ optr[yptr[q]] = q
        BY <1>p, <1>4, <1>e, <1>f, <2>3, <3>2 DEF IInv, FamilyLinks, Ptr
      <4> QED BY <1>p, <4>1
    <3> QED BY <3>1, <3>2
  <2>4. ASSUME NEW q \in Process, parent'[q] # NULL, yptr'[q] = NULL
        PROVE  cptr'[parent'[q]] = q
    <3>1. CASE q = c
      BY <1>p, <1>b, <3>1
    <3>2. CASE q # c
      <4>1. q # h /\ yptr[q] = NULL /\ parent'[q] = parent[q] /\ parent[q] \in Process
        BY <1>p, <1>b, <1>e, <2>4, <3>2 DEF Ptr
      <4>2. cptr[parent[q]] = q
        BY <1>4, <2>4, <4>1 DEF IInv, FamilyLinks
      <4> QED BY <1>p, <4>1, <4>2 DEF h
    <3> QED BY <3>1, <3>2
  <2>5. ASSUME NEW q \in Process PROVE parent'[q] # NULL <=> q \in Live'
    <3>1. parent[q] # NULL <=> q \in Live
      BY DEF IInv, FamilyLinks
    <3> QED BY <1>p, <1>3, <1>b, <3>1
  <2> QED BY <1>4, <2>1, <2>2, <2>3, <2>4, <2>5 DEF FamilyLinks
<1>9. Kinship'
  <2>1. ASSUME NEW p \in Process, NEW q \in Process, optr'[q] # NULL
        PROVE  optr'[q] # cptr'[p]
    <3>1. CASE q = c
      <4>1. optr'[q] = h /\ h # NULL /\ parent[h] = current
        BY <1>p, <1>g, <2>1, <3>1
      <4>2. p # current /\ cptr[p] # NULL => parent[cptr[p]] = p
        BY DEF IInv, FamilyLinks
      <4> QED BY <1>p, <1>g, <4>1, <4>2
    <3>2. CASE q # c
      BY <1>p, <1>f, <2>1, <3>2 DEF IInv, Kinship
    <3> QED BY <3>1, <3>2
  <2>2. ASSUME NEW q \in Process, parent'[q] = NULL
        PROVE  optr'[q] = NULL /\ yptr'[q] = NULL
    BY <1>p, <1>b, <1>g, <2>2 DEF IInv, Kinship
  <2>3. parent'[initproc] = idleproc /\ \A q \in Process : parent'[q] # q
    BY <1>p, <1>b DEF IInv, Kinship
  <2> QED BY <2>1, <2>2, <2>3 DEF Kinship
<1>10. Reached'
  <2> SUFFICES ASSUME NEW p \in Process, NEW S \in SUBSET Process,
                      cptr'[p] # NULL => cptr'[p] \in S,
                      \A s \in S : optr'[s] # NULL => optr'[s] \in S,
                      NEW q \in Process, parent'[q] = p
               PROVE  q \in S
    BY DEF Reached
  <2> DEFINE T == S \ {c}
  <2>1. T \in SUBSET Process
    OBVIOUS
  <2>2. \A s \in T : optr[s] # NULL => optr[s] \in T
    BY <1>p, <1>f
  <2>3. p = current => c \in S /\ (h # NULL => h \in S)
    <3>1. p = current => c \in S
      BY <1>p, <1>b
    <3> QED BY <1>p, <1>b, <3>1
  <2>4. cptr[p] # NULL => cptr[p] \in T
    <3>1. CASE p = current
      BY <1>g, <2>3, <3>1 DEF h
    <3>2. CASE p # current
      BY <1>p, <1>f, <3>2
    <3> QED BY <3>1, <3>2
  <2>5. \A x \in Process : parent[x] = p => x \in T
    BY <2>1, <2>2, <2>4 DEF IInv, Reached
  <2>6. CASE q = c
    BY <1>p, <2>3, <2>6
  <2>7. CASE q # c
    BY <1>p, <2>5, <2>7
  <2> QED BY <2>6, <2>7
<1>11. NoOrphans'
  <2> SUFFICES ASSUME NEW q \in Live'
               PROVE  state'[parent'[q]] \in {"RUNNABLE", "SLEEPING"}
    BY DEF NoOrphans
  <2>1. CASE q = c
    BY <1>1, <1>2, <1>a, <1>b, <2>1 DEF TypeOK
  <2>2. CASE q # c
    <3>1. q \in Live /\ parent'[q] = parent[q]
      BY <1>1, <1>3, <1>a, <2>2 DEF TypeOK, Live
    <3>2. parent[q] \in Process /\ state[parent[q]] \in {"RUNNABLE", "SLEEPING"}
      BY <1>b, <3>1, ParentExists DEF IInv, NoOrphans
    <3> QED BY <1>2, <1>a, <3>1, <3>2 DEF TypeOK
  <2> QED BY <2>1, <2>2
<1>12. Sleepers'
  <2> SUFFICES ASSUME NEW r \in Process, state'[r] = "SLEEPING"
               PROVE  Wanted(r)' # {} /\ \A x \in Wanted(r)' : state'[x] # "ZOMBIE"
    BY DEF Sleepers
  <2>1. state[r] = "SLEEPING" /\ r # c /\ r # current
    BY <1>2, <1>a, <1>b DEF TypeOK
  <2>2. Wanted(r)' = Wanted(r)
    BY <1>1, <1>a, <1>b, <1>c, <2>1 DEF Wanted, TypeOK
  <2>3. \A x \in Process : state'[x] = "ZOMBIE" => state[x] = "ZOMBIE"
    BY <1>2, <1>a DEF TypeOK
  <2> QED BY <2>1, <2>2, <2>3 DEF IInv, Sleepers, Wanted
<1> QED BY <1>5, <1>6, <1>7, <1>8, <1>9, <1>10, <1>11, <1>12 DEF IInv

\* One turn of the loop of do_exit moves the youngest child of its caller to
\* the head of the children of initproc.
LEMMA ReparentChildStep == ASSUME IInv, ReparentChild PROVE IInv'
<1> USE ProcAssumption
<1> DEFINE c == cptr[current]
           h == cptr[initproc]
           o == optr[c]
           wake == state[c] = "ZOMBIE" /\ state[initproc] = "SLEEPING"
<1>a. TypeOK /\ Control
  BY DEF IInv
<1>b. /\ current \in Process /\ current # initproc /\ current # idleproc
      /\ pc[current] = "reparent" /\ state[current] = "ZOMBIE" /\ ~in_schedule
      /\ initproc \in Process /\ idleproc \in Process /\ NULL \notin Process
      /\ state[initproc] \in {"RUNNABLE", "SLEEPING"}
  BY <1>a DEF TypeOK, Control, ReparentChild, At, Process
<1>c. Stale = {c}
  BY <1>b DEF Stale
<1>e. \A q \in Process : /\ parent[q] \in Ptr /\ cptr[q] \in Ptr
                         /\ optr[q] \in Ptr /\ yptr[q] \in Ptr
  BY <1>a DEF TypeOK
<1>f. /\ c \in Process /\ c # NULL /\ parent[c] = current /\ c # current /\ c # initproc
      /\ \A q \in Process : optr[q] # c
  <2>1. c # NULL /\ c \in Process
    BY <1>b, <1>e DEF ReparentChild, Ptr
  <2>2. parent[c] = current
    BY <1>b, <2>1 DEF IInv, FamilyLinks
  <2> QED BY <1>b, <2>1, <2>2 DEF IInv, Kinship
<1>g. /\ h \in Ptr /\ h # c
      /\ h # NULL => h \in Process /\ parent[h] = initproc /\ yptr[h] = NULL
  BY <1>b, <1>c, <1>e, <1>f DEF IInv, FamilyLinks, Ptr
<1>h. /\ o \in Ptr /\ o # c
      /\ o # NULL => o \in Process /\ parent[o] = current /\ yptr[o] = c
  BY <1>b, <1>e, <1>f DEF IInv, FamilyLinks, Ptr
<1>1. /\ UNCHANGED <<proc_list, hash_list, nr_process, nfree, exiting, current>>
      /\ UNCHANGED <<in_schedule, need_resched, ticks, mm, pc, wpid, panic>>
      /\ parent' = [parent EXCEPT ![c] = initproc]
      /\ cptr' = [cptr EXCEPT ![current] = o, ![initproc] = c]
      /\ optr' = [optr EXCEPT ![c] = h]
      /\ yptr' = [q \in Process |-> IF q = c THEN NULL ELSE IF q = h THEN c ELSE yptr[q]]
  BY DEF ReparentChild, table, cpu
<1>2. /\ state' = [q \in Process |-> IF q = initproc /\ wake THEN "RUNNABLE" ELSE state[q]]
      /\ wait_state' = [q \in Process |-> IF q = initproc /\ wake THEN "NONE"
                                          ELSE wait_state[q]]
  BY <1>a, <1>b, <1>f DEF ReparentChild, WokenState, WokenWait, TypeOK, Control
<1>3. \A q \in Process :
         /\ parent'[q] = IF q = c THEN initproc ELSE parent[q]
         /\ cptr'[q] = IF q = initproc THEN c ELSE IF q = current THEN o ELSE cptr[q]
         /\ optr'[q] = IF q = c THEN h ELSE optr[q]
         /\ yptr'[q] = IF q = c THEN NULL ELSE IF q = h THEN c ELSE yptr[q]
  BY <1>1, <1>a, <1>b DEF TypeOK
<1>4. Live' = Live
  BY <1>2, <1>b DEF Live
<1>5. Stale' = {o}
  BY <1>1, <1>3, <1>b DEF Stale
<1> HIDE DEF c, h, o, wake
<1>6. TypeOK'
  <2>1. /\ parent' \in [Process -> Ptr] /\ cptr' \in [Process -> Ptr]
        /\ optr' \in [Process -> Ptr] /\ yptr' \in [Process -> Ptr]
    BY <1>1, <1>a, <1>b, <1>e, <1>f, <1>g, <1>h DEF TypeOK, Ptr
  <2>2. /\ state' \in [Process -> {"UNINIT", "SLEEPING", "RUNNABLE", "ZOMBIE"}]
        /\ wait_state' \in [Process -> {"NONE", "WT_CHILD"}]
    BY <1>2, <1>a DEF TypeOK
  <2> QED BY <1>1, <1>a, <2>1, <2>2 DEF TypeOK
<1>7. TableAgrees'
  BY <1>1, <1>4 DEF IInv, TableAgrees
<1>8. Control'
  BY <1>1, <1>2, <1>a, <1>b DEF Control, wake
<1>9. FamilyLinks'
  <2>1. ASSUME NEW p \in Process, cptr'[p] # NULL
        PROVE  /\ parent'[cptr'[p]] = p
               /\ cptr'[p] \notin Stale' => yptr'[cptr'[p]] = NULL
    <3>1. CASE p = initproc
      BY <1>3, <1>b, <1>f, <3>1
    <3>2. CASE p = current
      BY <1>3, <1>5, <1>b, <1>h, <2>1, <3>2
    <3>3. CASE p # initproc /\ p # current
      <4>1. /\ cptr'[p] = cptr[p] /\ cptr[p] \in Process /\ parent[cptr[p]] = p
            /\ cptr[p] # c /\ yptr[cptr[p]] = NULL
        BY <1>3, <1>c, <1>e, <1>f, <2>1, <3>3 DEF IInv, FamilyLinks, Ptr
      <4> QED BY <1>3, <1>b, <1>g, <3>3, <4>1
    <3> QED BY <3>1, <3>2, <3>3
  <2>2. ASSUME NEW q \in Process, optr'[q] # NULL
        PROVE  yptr'[optr'[q]] = q /\ parent'[optr'[q]] = parent'[q]
    <3>1. CASE q = c
      BY <1>3, <1>g, <2>2, <3>1
    <3>2. CASE q # c
      <4>1. /\ optr'[q] = optr[q] /\ optr[q] \in Process /\ optr[q] # c
            /\ yptr[optr[q]] = q /\ parent[optr[q]] = parent[q]
        BY <1>3, <1>e, <1>f, <2>2, <3>2 DEF IInv, FamilyLinks, Ptr
      <4> QED BY <1>3, <1>b, <1>g, <3>2, <4>1
    <3> QED BY <3>1, <3>2
  <2>3. ASSUME NEW q \in Process \ Stale', yptr'[q] # NULL
        PROVE  optr'[yptr'[q]] = q
    <3>1. CASE q = h
      BY <1>3, <1>f, <2>3, <3>1
    <3>2. CASE q # h
      <4>1. q # c /\ yptr'[q] = yptr[q] /\ yptr[q] \in Process
        BY <1>3, <1>e, <2>3, <3>2 DEF Ptr
      <4>2. optr[yptr[q]] = q
        BY <1>c, <2>3, <4>1 DEF IInv, FamilyLinks
      <4>3. yptr[q] # c
        BY <1>5, <2>3, <4>2 DEF o
      <4> QED BY <1>3, <4>1, <4>2, <4>3
    <3> QED BY <3>1, <3>2
  <2>4. ASSUME NEW q \in Process \ Stale', parent'[q] # NULL, yptr'[q] = NULL
        PROVE  cptr'[parent'[q]] = q
    <3>1. CASE q = c
      BY <1>3, <1>b, <3>1
    <3>2. CASE q # c
      <4>1. q # h /\ yptr[q] = NULL /\ parent'[q] = parent[q] /\ parent[q] \in Process
        BY <1>3, <1>e, <1>f, <2>4, <3>2 DEF Ptr
      <4>2. cptr[parent[q]] = q
        BY <1>c, <2>4, <3>2, <4>1 DEF IInv, FamilyLinks
      <4>3. parent[q] # initproc /\ parent[q] # current
        BY <3>2, <4>1, <4>2 DEF h, c
      <4> QED BY <1>3, <4>1, <4>2, <4>3
    <3> QED BY <3>1, <3>2
  <2>5. ASSUME NEW q \in Process PROVE parent'[q] # NULL <=> q \in Live'
    <3>1. parent[q] # NULL <=> q \in Live
      BY DEF IInv, FamilyLinks
    <3> QED BY <1>3, <1>4, <1>b, <1>f, <3>1
  <2> QED BY <2>1, <2>2, <2>3, <2>4, <2>5 DEF FamilyLinks
<1>10. Kinship'
  <2>1. ASSUME NEW p \in Process, NEW q \in Process, optr'[q] # NULL
        PROVE  optr'[q] # cptr'[p]
    <3>1. cptr[p] # NULL => parent[cptr[p]] = p
      BY DEF IInv, FamilyLinks
    <3>2. CASE q = c
      BY <1>3, <1>b, <1>g, <1>h, <2>1, <3>1, <3>2
    <3>3. CASE q # c
      <4>1. /\ optr'[q] = optr[q] /\ optr[q] # c /\ optr[q] # NULL
            /\ yptr[optr[q]] = q /\ optr[q] # cptr[p]
        BY <1>3, <1>f, <2>1, <3>3 DEF IInv, Kinship, FamilyLinks
      <4>2. optr[q] # o
        BY <1>h, <3>3, <4>1
      <4> QED BY <1>3, <4>1, <4>2
    <3> QED BY <3>2, <3>3
  <2>2. ASSUME NEW q \in Process, parent'[q] = NULL
        PROVE  optr'[q] = NULL /\ yptr'[q] = NULL
    BY <1>3, <1>b, <1>g, <2>2 DEF IInv, Kinship
  <2>3. parent'[initproc] = idleproc /\ \A q \in Process : parent'[q] # q
    BY <1>3, <1>b, <1>f DEF IInv, Kinship
  <2> QED BY <2>1, <2>2, <2>3 DEF Kinship
<1>11. Reached'
  <2> SUFFICES ASSUME NEW p \in Process, NEW S \in SUBSET Process,
                      cptr'[p] # NULL => cptr'[p] \in S,
                      \A s \in S : optr'[s] # NULL => optr'[s] \in S,
                      NEW q \in Process, parent'[q] = p
               PROVE  q \in S
    BY DEF Reached
  <2>1. CASE p = current
    <3> DEFINE T == S \cup {c}
    <3>1. T \in SUBSET Process
      BY <1>f
    <3>2. o # NULL => o \in S
      BY <1>3, <1>b, <2>1
    <3>3. \A s \in T : optr[s] # NULL => optr[s] \in T
      BY <1>3, <3>2 DEF o
    <3>4. cptr[p] # NULL => cptr[p] \in T
      BY <2>1 DEF c
    <3>5. \A x \in Process : parent[x] = p => x \in T
      BY <3>1, <3>3, <3>4 DEF IInv, Reached
    <3> QED BY <1>3, <1>b, <2>1, <3>5
  <2>2. CASE p # current
    <3> DEFINE T == S \ {c}
    <3>1. T \in SUBSET Process
      OBVIOUS
    <3>2. \A s \in T : optr[s] # NULL => optr[s] \in T
      BY <1>3, <1>f
    <3>3. p = initproc => c \in S /\ (h # NULL => h \in S)
      <4>1. p = initproc => c \in S
        BY <1>3, <1>f
      <4> QED BY <1>3, <1>f, <4>1
    <3>4. cptr[p] # NULL => cptr[p] \in T
      <4>1. CASE p = initproc
        BY <1>g, <3>3, <4>1 DEF h
      <4>2. CASE p # initproc
        <5>1. cptr[p] # NULL => parent[cptr[p]] = p
          BY DEF IInv, FamilyLinks
        <5> QED BY <1>3, <1>f, <2>2, <4>2, <5>1
      <4> QED BY <4>1, <4>2
    <3>5. \A x \in Process : parent[x] = p => x \in T
      BY <3>1, <3>2, <3>4 DEF IInv, Reached
    <3>6. CASE q = c
      BY <1>3, <3>3, <3>6
    <3>7. CASE q # c
      BY <1>3, <3>5, <3>7
    <3> QED BY <3>6, <3>7
  <2> QED BY <2>1, <2>2
<1>12. NoOrphans'
  <2> SUFFICES ASSUME NEW q \in Live
               PROVE  \/ state'[parent'[q]] \in {"RUNNABLE", "SLEEPING"}
                      \/ parent'[q] = current /\ pc[current] = "reparent"
    BY <1>1, <1>4 DEF NoOrphans
  <2>1. q \in Process /\ parent[q] \in Process
    BY ParentExists DEF IInv, Live
  <2>2. CASE q = c
    BY <1>2, <1>3, <1>b, <2>1, <2>2
  <2>3. CASE q # c
    <3>1. state[parent[q]] \in {"RUNNABLE", "SLEEPING"} \/ parent[q] = current
      BY DEF IInv, NoOrphans
    <3> QED BY <1>2, <1>3, <1>b, <2>1, <2>3, <3>1
  <2> QED BY <2>2, <2>3
<1>13. Sleepers'
  <2> SUFFICES ASSUME NEW r \in Process, state'[r] = "SLEEPING"
               PROVE  Wanted(r)' # {} /\ \A x \in Wanted(r)' : state'[x] # "ZOMBIE"
    BY DEF Sleepers
  <2>1. state[r] = "SLEEPING" /\ r # current /\ (r = initproc => ~wake)
    BY <1>2, <1>b
  <2>2. Wanted(r) \subseteq Wanted(r)' /\ Wanted(r)' \subseteq Wanted(r) \cup {c}
    BY <1>1, <1>3, <1>f, <2>1 DEF Wanted
  <2>3. c \in Wanted(r)' => r = initproc
    BY <1>3, <1>f DEF Wanted
  <2>4. \A x \in Process : state'[x] = "ZOMBIE" => state[x] = "ZOMBIE"
    BY <1>2
  <2>5. \A x \in Wanted(r)' : x \in Process
    BY DEF Wanted
  <2>6. Wanted(r) # {} /\ \A x \in Wanted(r) : state[x] # "ZOMBIE"
    BY <2>1 DEF IInv, Sleepers
  <2>7. r = initproc => state[c] # "ZOMBIE"
    BY <2>1 DEF wake
  <2> QED BY <2>2, <2>3, <2>4, <2>5, <2>6, <2>7
<1> QED BY <1>6, <1>7, <1>8, <1>9, <1>10, <1>11, <1>12, <1>13 DEF IInv

\* do_wait unlinks a dead child and joins its siblings.
LEMMA WaitReapStep == ASSUME IInv, WaitReap PROVE IInv'
<1> USE ProcAssumption
<1>a. TypeOK /\ Control
  BY DEF IInv
<1>b. /\ current \in Process /\ current # idleproc
      /\ pc[current] = "do_wait" /\ state[current] = "RUNNABLE" /\ ~in_schedule
      /\ initproc \in Process /\ idleproc \in Process /\ NULL \notin Process
  BY <1>a DEF TypeOK, Control, WaitReap, At, Process
<1> DEFINE next == IF current = initproc THEN "init_loop" ELSE "trap_end"
<1>z. PICK z \in Process :
         /\ Found(z)
         /\ hash_list' = hash_list \ {z}
         /\ remove_links(z)
         /\ put_kstack
         /\ parent' = [parent EXCEPT ![z] = NULL]
         /\ state' = [state EXCEPT ![z] = "UNINIT"]
         /\ exiting' = [exiting EXCEPT ![z] = FALSE]
         /\ need_resched' = [need_resched EXCEPT ![z] = FALSE]
         /\ wpid' = [wpid EXCEPT ![z] = ANY, ![current] = ANY]
         /\ pc' = [pc EXCEPT ![z] = "none", ![current] = next]
  BY DEF WaitReap
<1> DEFINE o == optr[z]
           y == yptr[z]
<1>c. Stale = {}
  BY <1>b DEF Stale
<1>d. /\ parent[z] = current /\ state[z] = "ZOMBIE" /\ z # current
      /\ z # initproc /\ z # idleproc /\ z \in Live
  <2>1. Waited(current) = Wanted(current)
    BY <1>b, WaitedIsWanted DEF IInv
  <2>2. parent[z] = current /\ state[z] = "ZOMBIE"
    BY <1>z, <2>1 DEF Found, Wanted
  <2> QED BY <1>a, <1>b, <2>2 DEF Control, Live
<1>e. \A q \in Process : /\ parent[q] \in Ptr /\ cptr[q] \in Ptr
                         /\ optr[q] \in Ptr /\ yptr[q] \in Ptr
  BY <1>a DEF TypeOK
<1>f. \A q \in Process : parent[q] # z
  BY <1>a, <1>b, <1>d, DeadHaveNoChildren DEF Control
<1>g. /\ o \in Ptr
      /\ o # NULL => o \in Process /\ parent[o] = current /\ yptr[o] = z
  BY <1>d, <1>e DEF IInv, FamilyLinks, Ptr
<1>h. /\ y \in Ptr
      /\ y # NULL => y \in Process /\ parent[y] = current /\ optr[y] = z
      /\ y = NULL => cptr[current] = z
  <2>1. y # NULL => y \in Process /\ optr[y] = z
    BY <1>c, <1>e DEF IInv, FamilyLinks, Ptr
  <2>2. y # NULL => parent[y] = current
    BY <1>b, <1>d, <2>1 DEF IInv, FamilyLinks
  <2>3. y = NULL => cptr[current] = z
    BY <1>b, <1>c, <1>d DEF IInv, FamilyLinks
  <2> QED BY <1>e, <2>1, <2>2, <2>3
<1>i. /\ \A q \in Process : optr[q] = z => q = y
      /\ \A q \in Process : yptr[q] = z => q = o
      /\ \A p \in Process : cptr[p] = z => p = current /\ y = NULL
      /\ o # z /\ y # z
  <2>1. \A q \in Process : optr[q] = z => q = y
    BY <1>b DEF IInv, FamilyLinks
  <2>2. \A q \in Process : yptr[q] = z => q = o
    BY <1>b, <1>c DEF IInv, FamilyLinks
  <2>3. \A p \in Process : cptr[p] = z => p = current /\ y = NULL
    BY <1>b, <1>c, <1>d DEF IInv, FamilyLinks
  <2>4. y # z
    <3>1. ASSUME y = z PROVE FALSE
      <4> DEFINE T == Process \ {z}
      <4>1. o = z
        BY <1>h, <1>b, <3>1
      <4>2. \A s \in T : optr[s] # NULL => optr[s] \in T
        BY <1>e, <2>1, <3>1 DEF Ptr
      <4>3. cptr[current] # NULL => cptr[current] \in T
        BY <1>b, <1>e, <2>3, <3>1 DEF Ptr
      <4>4. z \in T
        BY <1>b, <1>d, <4>2, <4>3 DEF IInv, Reached
      <4> QED BY <4>4
    <3> QED BY <3>1
  <2>5. o # z
    BY <2>1, <2>4
  <2> QED BY <2>1, <2>2, <2>3, <2>4, <2>5
<1>1. /\ UNCHANGED <<wait_state, current, ticks, mm, panic>>
      /\ in_schedule' = (current = initproc)
      /\ nr_process' = nr_process - 1 /\ nfree' = nfree + 1
      /\ proc_list' = Unlisted(z)
  BY <1>z DEF WaitReap, remove_links, put_kstack
<1>2. \A q \in Process :
         /\ parent'[q] = IF q = z THEN NULL ELSE parent[q]
         /\ cptr'[q] = IF y = NULL /\ q = current THEN o ELSE cptr[q]
         /\ optr'[q] = IF q = z THEN NULL ELSE IF q = y THEN o ELSE optr[q]
         /\ yptr'[q] = IF q = z THEN NULL ELSE IF q = o THEN y ELSE yptr[q]
  BY <1>z, <1>a, <1>d DEF remove_links, TypeOK
<1>3. /\ state' = [state EXCEPT ![z] = "UNINIT"]
      /\ pc' = [q \in Process |-> IF q = current THEN next
                                 ELSE IF q = z THEN "none" ELSE pc[q]]
      /\ wpid' = [q \in Process |-> IF q \in {z, current} THEN ANY ELSE wpid[q]]
  BY <1>z, <1>a, <1>b DEF TypeOK
<1>3a. next \in {"init_loop", "trap_end"} /\ (next = "init_loop" <=> current = initproc)
  OBVIOUS
<1>4. Live' = Live \ {z}
  BY <1>3, <1>a, <1>d DEF Live, TypeOK
<1>5. Stale' = {}
  BY <1>1, <1>3, <1>3a, <1>b DEF Stale
<1>6. /\ parent' \in [Process -> Ptr] /\ cptr' \in [Process -> Ptr]
      /\ optr' \in [Process -> Ptr] /\ yptr' \in [Process -> Ptr]
  BY <1>z, <1>a, <1>e, <1>g, <1>h DEF remove_links, TypeOK, Ptr
<1>6a. PICK i \in 1 .. Len(proc_list) :
          /\ proc_list[i] = z
          /\ proc_list' = RemoveAt(proc_list, i)
  <2>1. proc_list \in Seq(Process) /\ ToSet(proc_list) = Live
    BY <1>a DEF IInv, TypeOK, TableAgrees
  <2>2. DOMAIN proc_list = 1 .. Len(proc_list)
    BY <2>1
  <2>3. \E i \in DOMAIN proc_list : proc_list[i] = z
    BY <1>d, <2>1 DEF ToSet
  <2> QED BY <1>1, <2>2, <2>3 DEF Unlisted
<1>6b. /\ proc_list' \in Seq(Process) /\ Len(proc_list') = Len(proc_list) - 1
       /\ ToSet(proc_list') = Live \ {z} /\ IsInjective(proc_list')
  <2>1. proc_list \in Seq(Process) /\ IsInjective(proc_list) /\ ToSet(proc_list) = Live
    BY <1>a DEF IInv, TypeOK, TableAgrees
  <2> QED BY <1>6a, <2>1, RemoveAtFacts, RemoveAtSet
<1> HIDE DEF o, y, next
<1>7. TypeOK'
  <2>1. nr_process' \in Nat /\ nfree' \in Nat
    <3>1. proc_list \in Seq(Process) /\ nfree \in Nat
      BY <1>a DEF TypeOK
    <3>2. nr_process = Len(proc_list) + 1
      BY DEF IInv, TableAgrees
    <3> QED BY <1>1, <3>1, <3>2
  <2>2. pc' \in [Process -> Place]
    BY <1>3, <1>3a, <1>a DEF TypeOK, Place
  <2>3. /\ state' \in [Process -> {"UNINIT", "SLEEPING", "RUNNABLE", "ZOMBIE"}]
        /\ wpid' \in [Process -> Process]
    BY <1>3, <1>a, <1>b DEF TypeOK, ANY
  <2>4. exiting' \in [Process -> BOOLEAN] /\ need_resched' \in [Process -> BOOLEAN]
    BY <1>z, <1>a DEF TypeOK
  <2>5. hash_list' \subseteq Process /\ in_schedule' \in BOOLEAN
    BY <1>z, <1>1, <1>a DEF TypeOK
  <2> QED BY <1>1, <1>6, <1>6b, <1>a, <2>1, <2>2, <2>3, <2>4, <2>5 DEF TypeOK
<1>8. TableAgrees'
  <2>1. proc_list \in Seq(Process) /\ nr_process = Len(proc_list) + 1 /\ hash_list = Live
    BY <1>a DEF IInv, TableAgrees, TypeOK
  <2> QED BY <1>z, <1>1, <1>4, <1>6b, <2>1 DEF TableAgrees
<1>9. Control'
  BY <1>1, <1>3, <1>3a, <1>a, <1>b, <1>d DEF Control, TypeOK
<1>10. FamilyLinks'
  <2>1. ASSUME NEW p \in Process, cptr'[p] # NULL
        PROVE  parent'[cptr'[p]] = p /\ yptr'[cptr'[p]] = NULL
    <3>1. CASE y = NULL /\ p = current
      BY <1>2, <1>g, <1>i, <2>1, <3>1
    <3>2. CASE ~(y = NULL /\ p = current)
      <4>1. cptr'[p] = cptr[p] /\ cptr[p] \in Process /\ cptr[p] # z
        BY <1>2, <1>e, <1>i, <2>1, <3>2 DEF Ptr
      <4>2. parent[cptr[p]] = p /\ yptr[cptr[p]] = NULL
        BY <1>c, <2>1, <4>1 DEF IInv, FamilyLinks
      <4>3. cptr[p] # o
        BY <1>b, <1>g, <4>1, <4>2
      <4> QED BY <1>2, <4>1, <4>2, <4>3
    <3> QED BY <3>1, <3>2
  <2>2. ASSUME NEW q \in Process, optr'[q] # NULL
        PROVE  yptr'[optr'[q]] = q /\ parent'[optr'[q]] = parent'[q]
    <3>1. CASE q = y
      BY <1>2, <1>b, <1>g, <1>h, <1>i, <2>2, <3>1
    <3>2. CASE q # y
      <4>1. q # z /\ optr'[q] = optr[q] /\ optr[q] \in Process /\ optr[q] # z
        BY <1>2, <1>e, <1>i, <2>2, <3>2 DEF Ptr
      <4>2. yptr[optr[q]] = q /\ parent[optr[q]] = parent[q]
        BY <2>2, <4>1 DEF IInv, FamilyLinks
      <4>3. optr[q] # o
        BY <1>b, <1>g, <4>1, <4>2
      <4> QED BY <1>2, <4>1, <4>2, <4>3
    <3> QED BY <3>1, <3>2
  <2>3. ASSUME NEW q \in Process, yptr'[q] # NULL
        PROVE  optr'[yptr'[q]] = q
    <3>1. CASE q = o
      BY <1>2, <1>b, <1>g, <1>h, <1>i, <2>3, <3>1
    <3>2. CASE q # o
      <4>1. q # z /\ yptr'[q] = yptr[q] /\ yptr[q] \in Process /\ yptr[q] # z
        BY <1>2, <1>e, <1>i, <2>3, <3>2 DEF Ptr
      <4>2. optr[yptr[q]] = q
        BY <1>c, <2>3, <4>1 DEF IInv, FamilyLinks
      <4>3. yptr[q] # y
        BY <1>b, <1>h, <4>1, <4>2
      <4> QED BY <1>2, <4>1, <4>2, <4>3
    <3> QED BY <3>1, <3>2
  <2>4. ASSUME NEW q \in Process, parent'[q] # NULL, yptr'[q] = NULL
        PROVE  cptr'[parent'[q]] = q
    <3>1. q # z /\ parent'[q] = parent[q] /\ parent[q] \in Process
      BY <1>2, <1>e, <2>4 DEF Ptr
    <3>2. CASE q = o
      BY <1>2, <1>b, <1>g, <2>4, <3>1, <3>2
    <3>3. CASE q # o
      <4>1. cptr[parent[q]] = q
        BY <1>2, <1>c, <2>4, <3>1, <3>3 DEF IInv, FamilyLinks
      <4>2. ~(y = NULL /\ parent[q] = current)
        BY <1>h, <3>1, <4>1
      <4> QED BY <1>2, <3>1, <4>1, <4>2
    <3> QED BY <3>2, <3>3
  <2>5. ASSUME NEW q \in Process PROVE parent'[q] # NULL <=> q \in Live'
    <3>1. parent[q] # NULL <=> q \in Live
      BY DEF IInv, FamilyLinks
    <3> QED BY <1>2, <1>4, <3>1
  <2> QED BY <1>5, <2>1, <2>2, <2>3, <2>4, <2>5 DEF FamilyLinks
<1>11. Kinship'
  <2>1. ASSUME NEW q \in Process, parent'[q] = NULL
        PROVE  optr'[q] = NULL /\ yptr'[q] = NULL
    <3>1. CASE q = z
      BY <1>2, <3>1
    <3>2. CASE q # z
      <4>1. parent[q] = NULL /\ q # y /\ q # o
        BY <1>2, <1>b, <1>g, <1>h, <2>1, <3>2
      <4> QED BY <1>2, <3>2, <4>1 DEF IInv, Kinship
    <3> QED BY <3>1, <3>2
  <2>2. ASSUME NEW p \in Process, NEW q \in Process, optr'[q] # NULL
        PROVE  optr'[q] # cptr'[p]
    <3>1. /\ optr'[q] \in Process /\ yptr'[optr'[q]] = q
          /\ cptr'[p] # NULL => yptr'[cptr'[p]] = NULL
      BY <1>5, <1>6, <1>10, <2>2 DEF FamilyLinks, Ptr
    <3> QED BY <1>b, <2>2, <3>1
  <2>3. parent'[initproc] = idleproc /\ \A q \in Process : parent'[q] # q
    BY <1>2, <1>b, <1>d DEF IInv, Kinship
  <2> QED BY <2>1, <2>2, <2>3 DEF Kinship
<1>12. Reached'
  <2> SUFFICES ASSUME NEW p \in Process, NEW S \in SUBSET Process,
                      cptr'[p] # NULL => cptr'[p] \in S,
                      \A s \in S : optr'[s] # NULL => optr'[s] \in S,
                      NEW q \in Process, parent'[q] = p
               PROVE  q \in S
    BY DEF Reached
  <2>1. q # z /\ parent[q] = p
    BY <1>2, <1>b
  <2>2. CASE o = NULL \/ o \in S
    <3> DEFINE T == S \cup {z}
    <3>1. T \in SUBSET Process
      OBVIOUS
    <3>2. \A s \in T : optr[s] # NULL => optr[s] \in T
      <4> SUFFICES ASSUME NEW s \in T, optr[s] # NULL PROVE optr[s] \in T
        OBVIOUS
      <4>1. CASE s = z
        BY <2>2, <4>1 DEF o
      <4>2. CASE s # z /\ s = y
        BY <1>h, <4>2, <1>b
      <4>3. CASE s # z /\ s # y
        BY <1>2, <4>3
      <4> QED BY <4>1, <4>2, <4>3
    <3>3. cptr[p] # NULL => cptr[p] \in T
      BY <1>2, <1>h
    <3>4. q \in T
      BY <2>1, <3>1, <3>2, <3>3 DEF IInv, Reached
    <3> QED BY <2>1, <3>4
  <2>3. CASE o # NULL /\ o \notin S
    <3> DEFINE T == S \ {z}
    <3>1. T \in SUBSET Process
      OBVIOUS
    <3>2. y \notin S
      BY <1>2, <1>i, <2>3
    <3>3. \A s \in T : optr[s] # NULL => optr[s] \in T
      BY <1>2, <1>i, <3>2
    <3>4. cptr[p] # NULL => cptr[p] \in T
      BY <1>2, <1>i, <2>3
    <3>5. q \in T
      BY <2>1, <3>1, <3>3, <3>4 DEF IInv, Reached
    <3> QED BY <3>5
  <2> QED BY <2>2, <2>3
<1>13. NoOrphans'
  <2> SUFFICES ASSUME NEW q \in Live'
               PROVE  state'[parent'[q]] \in {"RUNNABLE", "SLEEPING"}
    BY DEF NoOrphans
  <2>1. q \in Live /\ q \in Process /\ q # z
    BY <1>4 DEF Live
  <2>2. parent[q] \in Process /\ state[parent[q]] \in {"RUNNABLE", "SLEEPING"}
    BY <1>b, <2>1, ParentExists DEF IInv, NoOrphans
  <2> QED BY <1>2, <1>3, <1>a, <1>f, <2>1, <2>2 DEF TypeOK
<1>14. Sleepers'
  <2> SUFFICES ASSUME NEW r \in Process, state'[r] = "SLEEPING"
               PROVE  Wanted(r)' # {} /\ \A x \in Wanted(r)' : state'[x] # "ZOMBIE"
    BY DEF Sleepers
  <2>1. state[r] = "SLEEPING" /\ r # z /\ r # current
    BY <1>3, <1>a, <1>b, <1>d DEF TypeOK
  <2>2. wpid'[r] = wpid[r]
    BY <1>3, <2>1
  <2>3. Wanted(r)' = Wanted(r)
    BY <1>2, <1>b, <1>d, <2>1, <2>2 DEF Wanted
  <2>4. \A x \in Process : state'[x] = "ZOMBIE" => state[x] = "ZOMBIE"
    BY <1>3, <1>a DEF TypeOK
  <2> QED BY <2>1, <2>3, <2>4 DEF IInv, Sleepers, Wanted
<1> QED BY <1>7, <1>8, <1>9, <1>10, <1>11, <1>12, <1>13, <1>14 DEF IInv
----------------------------------------------------------------------------
(***************************************************************************)
(* The theorems.                                                           *)
(***************************************************************************)

\* Every step keeps the invariant.
LEMMA StepIInv == IInv /\ [Next]_vars => IInv'
<1> SUFFICES ASSUME IInv, [Next]_vars PROVE IInv'
  OBVIOUS
<1>1. CASE UserStep
  <2>1. CASE SysFork
    <3>1. PICK c \in UserPid : Forked(c, "user")
      BY <2>1 DEF SysFork
    <3>2. nfree > 0 /\ At("user")
      BY <2>1 DEF SysFork
    <3> QED BY <3>1, <3>2, ForkedStep
  <2>2. CASE SysKill
    BY <2>2, SysKillStep
  <2> QED BY <1>1, <2>1, <2>2, QuietSteps DEF UserStep
<1>2. CASE KernelStep
  <2>1. CASE InitMain
    <3>1. PICK c \in UserPid : Forked(c, "exec")
      BY <2>1 DEF InitMain
    <3>2. nfree > 0 /\ At("init_main")
      BY <2>1 DEF InitMain
    <3> QED BY <3>1, <3>2, ForkedStep
  <2> QED BY <1>2, <2>1, DoExitStep, ReparentChildStep, ReparentDoneStep,
             WaitReapStep, WaitSleepStep, QuietSteps DEF KernelStep
<1>3. CASE Tick
  BY <1>3, QuietSteps
<1>4. CASE Halted \/ UNCHANGED vars
  BY <1>4, QuietSteps DEF Halted
<1> QED BY <1>1, <1>2, <1>3, <1>4 DEF Next

\* The invariant holds in every reachable state of the process life cycle.
THEOREM InvariantCorrect == Spec => []IInv
<1> QED BY InitIInv, StepIInv, PTL DEF Spec

\* The fields of proc.c's table and of the CPU keep their types.
THEOREM TypeCorrect == Spec => []TypeOK
<1>1. IInv => TypeOK
  BY DEF IInv
<1> QED BY <1>1, InvariantCorrect, PTL

\* set_links, remove_links, hash_proc and unhash_proc keep the list, the hash,
\* the counter and the set of existing processes in agreement.
THEOREM TableCorrect == Spec => []TableAgrees
<1>1. IInv => TableAgrees
  BY DEF IInv
<1> QED BY <1>1, InvariantCorrect, PTL

\* do_fork, do_exit and do_wait keep the children of each process doubly linked.
THEOREM FamilyCorrect == Spec => []FamilyLinks
<1>1. IInv => FamilyLinks
  BY DEF IInv
<1> QED BY <1>1, InvariantCorrect, PTL

\* The walks of do_wait(0) and do_exit meet exactly the children of a process.
THEOREM ChildrenCorrect == Spec => []ChildrenListed
<1>1. IInv => ChildrenListed
  BY ChainIsChildren DEF IInv, ChildrenListed
<1> QED BY <1>1, InvariantCorrect, PTL

\* do_exit leaves no child behind with a dead parent.
THEOREM OrphansCorrect == Spec => []NoOrphans
<1>1. IInv => NoOrphans
  BY DEF IInv
<1> QED BY <1>1, InvariantCorrect, PTL

\* No wakeup of a process that sleeps in do_wait is lost.
THEOREM WakeupCorrect == Spec => []NoLostWakeup
<1>1. IInv => NoLostWakeup
  <2> SUFFICES ASSUME IInv, NEW p \in Process
               PROVE  /\ state[p] = "SLEEPING" <=> wait_state[p] = "WT_CHILD"
                      /\ state[p] = "SLEEPING" =>
                            /\ pc[p] = "wait_woken"
                            /\ Waited(p) # {}
                            /\ \A q \in Waited(p) : state[q] # "ZOMBIE"
    BY DEF NoLostWakeup
  <2>1. Waited(p) = Wanted(p)
    BY WaitedIsWanted DEF IInv
  <2> QED BY <2>1 DEF IInv, Control, Sleepers
<1> QED BY <1>1, InvariantCorrect, PTL

\* A zombie is reaped by its own parent only, nothing else removes a process,
\* and a sleeper is woken only by do_kill or for a zombie child.
THEOREM LifeCycleCorrect == Spec => LifeCycle
<1> USE ProcAssumption
<1>1. IInv /\ [Next]_vars => [LifeCycleStep]_vars
  <2> SUFFICES ASSUME IInv, Next PROVE LifeCycleStep \/ UNCHANGED vars
    OBVIOUS
  <2>a. TypeOK /\ Control /\ current \in Process
    BY DEF IInv, TypeOK
  <2>1. CASE UNCHANGED state
    BY <2>1, <2>a DEF LifeCycleStep, TypeOK
  <2>2. CASE \E c \in UserPid : state[c] = "UNINIT" /\ state' = WokenState(state, c)
    <3>1. PICK c \in UserPid : state[c] = "UNINIT" /\ state' = [state EXCEPT ![c] = "RUNNABLE"]
      BY <2>2 DEF WokenState
    <3>2. \A q \in Process : state[q] # "UNINIT" => state'[q] = state[q]
      BY <2>a, <3>1 DEF TypeOK
    <3> QED BY <3>2 DEF LifeCycleStep
  <2>3. CASE DoExit
    <3> DEFINE p == parent[current]
    <3>1. /\ state[current] = "RUNNABLE" /\ current # idleproc
          /\ parent' = parent
      BY <2>3, <2>a DEF DoExit, At, Control, family
    <3>2. p \in Process /\ p # current
      <4>1. current \in Live
        BY <2>a, <3>1 DEF Live
      <4> QED BY <2>a, <4>1, ParentExists DEF IInv, Kinship
    <3>3. \A q \in Process : state'[q] = IF q = current THEN "ZOMBIE"
              ELSE IF q = p /\ state[p] = "SLEEPING" THEN "RUNNABLE" ELSE state[q]
      BY <2>3, <2>a, <3>1, <3>2 DEF DoExit, WokenState, TypeOK, Control
    <3> QED BY <2>a, <3>1, <3>2, <3>3 DEF LifeCycleStep
  <2>4. CASE ReparentChild
    <3> DEFINE c == cptr[current]
    <3>1. c \in Process
      BY <2>4, <2>a DEF ReparentChild, TypeOK, Ptr
    <3>2. /\ parent'[c] = initproc
          /\ \A q \in Process : state'[q] = IF /\ q = initproc /\ state[c] = "ZOMBIE"
                                               /\ state[initproc] = "SLEEPING"
                                             THEN "RUNNABLE" ELSE state[q]
      BY <2>4, <2>a, <3>1 DEF ReparentChild, WokenState, TypeOK, Control, Process
    <3> QED BY <3>1, <3>2 DEF LifeCycleStep
  <2>5. CASE WaitReap
    <3>1. PICK z \in Process : Found(z) /\ state' = [state EXCEPT ![z] = "UNINIT"]
      BY <2>5 DEF WaitReap
    <3>2. Waited(current) = Wanted(current)
      BY <2>a, WaitedIsWanted DEF IInv
    <3>3. state[z] = "ZOMBIE" /\ parent[z] = current
      BY <3>1, <3>2 DEF Found, Wanted
    <3> QED BY <2>a, <3>1, <3>3 DEF LifeCycleStep, TypeOK
  <2>6. CASE WaitSleep
    <3>1. state[current] = "RUNNABLE" /\ state' = [state EXCEPT ![current] = "SLEEPING"]
      BY <2>6, <2>a DEF WaitSleep, At, Control
    <3>2. \A q \in Process : state'[q] = IF q = current THEN "SLEEPING" ELSE state[q]
      BY <2>a, <3>1 DEF TypeOK
    <3> QED BY <3>1, <3>2 DEF LifeCycleStep
  <2>7. CASE SysKill
    <3>1. CASE state' # state
      <4>1. PICK q \in Process : /\ exiting' = [exiting EXCEPT ![q] = TRUE]
                                 /\ wait_state[q] = "WT_CHILD"
                                 /\ state' = [state EXCEPT ![q] = "RUNNABLE"]
        BY <2>7, <3>1 DEF SysKill, WokenState, status
      <4>2. state[q] = "SLEEPING" /\ exiting'[q] = TRUE
        BY <2>a, <4>1 DEF Control, TypeOK
      <4>3. \A r \in Process : state'[r] = IF r = q THEN "RUNNABLE" ELSE state[r]
        BY <2>a, <4>1 DEF TypeOK
      <4> QED BY <4>2, <4>3 DEF LifeCycleStep
    <3>2. CASE state' = state
      BY <2>1, <3>2
    <3> QED BY <3>1, <3>2
  <2>8. CASE SysFork \/ InitMain
    BY <2>2, <2>8 DEF SysFork, InitMain, Forked
  <2>9. CASE ~(DoExit \/ ReparentChild \/ WaitReap \/ WaitSleep \/ SysKill \/ SysFork \/ InitMain)
    <3>1. UNCHANGED state
      BY <2>9 DEF Next, UserStep, KernelStep, SysForkRefused, SysForkNoStack, SysForkNoMm,
            SysExit, SysWait, SysYield, OtherTrap, FatalTrap, InitExit, WaitWoken,
            WaitNoChild, TrapEnd, IdleLoop, InitMainFails, InitLoop, InitEnd, Exec,
            ExecFails, Schedule, Tick, Halted, ReparentDone, Die, status, vars
    <3> QED BY <2>1, <3>1
  <2> QED BY <2>3, <2>4, <2>5, <2>6, <2>7, <2>8, <2>9
<1> QED BY <1>1, InvariantCorrect, PTL DEF Spec, LifeCycle

\* Every existing process but initproc, whose stack is from boot, owns a stack.
Owners == Live \ {initproc}

\* How one step moves kernel stacks: do_fork takes one for the new process, or
\* loses it when copy_mm fails, and do_wait gives the one of the zombie back.
LEMMA StackStep ==
    ASSUME IInv, [Next]_vars
    PROVE  \/ nfree' = nfree /\ Owners' = Owners
           \/ nfree > 0 /\ nfree' = nfree - 1 /\ Owners' = Owners
           \/ /\ nfree > 0 /\ nfree' = nfree - 1
              /\ \E c \in UserPid : c \notin Owners /\ Owners' = Owners \cup {c}
           \/ nfree' = nfree + 1 /\ \E z \in Owners : Owners' = Owners \ {z}
<1> USE ProcAssumption
<1>a. TypeOK /\ Control /\ current \in Process
  BY DEF IInv, TypeOK
<1>1. ASSUME \A q \in Process : state'[q] = "UNINIT" <=> state[q] = "UNINIT"
      PROVE  Owners' = Owners
  BY <1>1 DEF Owners, Live
<1>2. ASSUME NEW c \in UserPid, state[c] = "UNINIT", state' = WokenState(state, c)
      PROVE  c \notin Owners /\ Owners' = Owners \cup {c}
  <2>1. c \in Process /\ c # idleproc /\ c # initproc
    BY DEF Process
  <2>2. \A q \in Process : state'[q] = IF q = c THEN "RUNNABLE" ELSE state[q]
    BY <1>2, <1>a, <2>1 DEF TypeOK, WokenState
  <2> QED BY <1>2, <2>1, <2>2 DEF Owners, Live
<1>3. CASE SysFork
  BY <1>2, <1>3 DEF SysFork, Forked
<1>4. CASE InitMain
  BY <1>2, <1>4 DEF InitMain, Forked
<1>5. CASE WaitReap
  <2>1. PICK z \in Process : Found(z) /\ state' = [state EXCEPT ![z] = "UNINIT"]
    BY <1>5 DEF WaitReap
  <2>2. state[z] = "ZOMBIE" /\ nfree' = nfree + 1
    BY <1>5, <2>1 DEF Found, WaitReap, put_kstack
  <2>3. z # idleproc /\ z # initproc
    BY <1>a, <2>2 DEF Control
  <2>4. z \in Owners /\ Owners' = Owners \ {z}
    BY <1>a, <2>1, <2>2, <2>3 DEF Owners, Live, TypeOK
  <2> QED BY <2>2, <2>4
<1>6. CASE DoExit \/ WaitSleep
  <2>1. state[current] = "RUNNABLE" /\ nfree' = nfree
    BY <1>6, <1>a DEF DoExit, WaitSleep, At, Control, table
  <2>2. \A q \in Process : \/ state'[q] = state[q]
                           \/ q = current /\ state'[q] \in {"ZOMBIE", "SLEEPING"}
                           \/ state[q] = "SLEEPING" /\ state'[q] = "RUNNABLE"
    <3>1. CASE WaitSleep
      BY <1>a, <3>1 DEF WaitSleep, TypeOK
    <3>2. CASE DoExit
      <4>1. current \in Live
        BY <1>a, <2>1, <3>2 DEF DoExit, At, Control, Live
      <4>2. parent[current] \in Process /\ parent[current] # current
        BY <1>a, <4>1, ParentExists DEF IInv, Kinship
      <4>3. wait_state[parent[current]] = "WT_CHILD" => state[parent[current]] = "SLEEPING"
        BY <1>a, <4>2 DEF Control
      <4> QED BY <1>a, <2>1, <3>2, <4>2, <4>3 DEF DoExit, WokenState, TypeOK
    <3> QED BY <1>6, <3>1, <3>2
  <2>3. \A q \in Process : state'[q] = "UNINIT" <=> state[q] = "UNINIT"
    BY <2>1, <2>2
  <2> QED BY <1>1, <2>1, <2>3
<1>7. CASE ReparentChild
  <2>1. nfree' = nfree /\ initproc \in Process /\ state[initproc] # "UNINIT"
    BY <1>7, <1>a DEF ReparentChild, Control, table, Process
  <2>2. \A q \in Process : state'[q] = state[q] \/ (q = initproc /\ state'[q] = "RUNNABLE")
    BY <1>7, <1>a DEF ReparentChild, WokenState, TypeOK
  <2> QED BY <1>1, <2>1, <2>2
<1>8. CASE SysKill
  <2>1. nfree' = nfree
    BY <1>8 DEF SysKill, table
  <2>2. CASE state' = state
    BY <1>1, <2>1, <2>2
  <2>3. CASE state' # state
    <3>1. PICK q \in Process : /\ wait_state[q] = "WT_CHILD"
                               /\ state' = [state EXCEPT ![q] = "RUNNABLE"]
      BY <1>8, <2>3 DEF SysKill, WokenState, status
    <3>2. state[q] = "SLEEPING"
      BY <1>a, <3>1 DEF Control
    <3>3. \A r \in Process : state'[r] = "UNINIT" <=> state[r] = "UNINIT"
      BY <1>a, <3>1, <3>2 DEF TypeOK
    <3> QED BY <1>1, <2>1, <3>3
  <2> QED BY <2>2, <2>3
<1>9. CASE SysForkNoMm
  <2>1. nfree > 0 /\ nfree' = nfree - 1 /\ state' = state
    BY <1>9 DEF SysForkNoMm, status
  <2> QED BY <1>1, <2>1
<1>10. CASE ~( \/ SysFork \/ InitMain \/ WaitReap \/ DoExit \/ WaitSleep
               \/ ReparentChild \/ SysKill \/ SysForkNoMm )
  <2>1. state' = state /\ nfree' = nfree
    BY <1>10 DEF Next, UserStep, KernelStep, SysForkRefused, SysForkNoStack, SysExit,
          SysWait, SysYield, OtherTrap, FatalTrap, InitExit, WaitWoken, WaitNoChild,
          TrapEnd, IdleLoop, InitMainFails, InitLoop, InitEnd, Exec, ExecFails, Schedule,
          Tick, Halted, ReparentDone, Die, status, table, vars
  <2> QED BY <1>1, <2>1
<1> QED BY <1>3, <1>4, <1>5, <1>6, <1>7, <1>8, <1>9, <1>10

\* Whatever allocation fails, setup_kstack and put_kstack never make the free
\* and the owned kernel stacks more than the stacks there were at boot.
THEOREM StacksCorrect == Spec => []StacksBounded
<1> USE ProcAssumption
<1>f. IsFiniteSet(Owners)
  <2>1. IsFiniteSet(UserPid \cup {idleproc})
    BY PidsSuffice, FS_AddElement
  <2> QED BY <2>1, FS_Subset DEF Owners, Live, Process
<1>1. Init => StacksBounded
  <2> SUFFICES ASSUME Init PROVE StacksBounded
    OBVIOUS
  <2>1. Live \ {initproc} = {}
    BY DEF Init, Live, Process
  <2> QED BY <2>1, FS_EmptySet DEF Init, StacksBounded
<1>2. IInv /\ StacksBounded /\ [Next]_vars => StacksBounded'
  <2> SUFFICES ASSUME IInv, StacksBounded, [Next]_vars
               PROVE  nfree' + Cardinality(Owners') <= NKStack
    BY DEF StacksBounded, Owners
  <2>1. Cardinality(Owners) \in Nat /\ nfree \in Nat /\ nfree + Cardinality(Owners) <= NKStack
    BY <1>f, FS_CardinalityType DEF IInv, TypeOK, StacksBounded, Owners
  <2>2. CASE nfree' \in {nfree, nfree - 1} /\ Owners' = Owners
    BY <2>1, <2>2
  <2>3. ASSUME NEW c \in UserPid, nfree' = nfree - 1,
               c \notin Owners, Owners' = Owners \cup {c}
        PROVE  nfree' + Cardinality(Owners') <= NKStack
    <3>1. Cardinality(Owners \cup {c}) = Cardinality(Owners) + 1
      BY <1>f, <2>3, FS_AddElement
    <3> QED BY <2>1, <2>3, <3>1
  <2>4. ASSUME NEW z \in Owners, nfree' = nfree + 1, Owners' = Owners \ {z}
        PROVE  nfree' + Cardinality(Owners') <= NKStack
    <3>1. Cardinality(Owners \ {z}) = Cardinality(Owners) - 1
      BY <1>f, <2>4, FS_RemoveElement
    <3> QED BY <2>1, <2>4, <3>1
  <2> QED BY <2>2, <2>3, <2>4, StackStep
<1> QED BY <1>1, <1>2, InvariantCorrect, PTL DEF Spec

----------------------------------------------------------------------------
(***************************************************************************)
(* The family is a tree, told without paths: a set of processes always has *)
(* a member whose parent is outside it, and one with no child inside it.   *)
(***************************************************************************)

Rises == \A S \in SUBSET Process : S # {} => \E p \in S : parent[p] \notin S
Sinks == \A S \in SUBSET Process : S # {} => \E p \in S : \A q \in S : parent[q] # p

\* initproc is the only child of idleproc, so it has no siblings.
OnlyInit ==
    /\ \A q \in Process : parent[q] = idleproc => q = initproc
    /\ optr[initproc] = NULL /\ yptr[initproc] = NULL

\* At the end of init_main no child is left and nobody else gets the CPU.
InitAlone == pc[initproc] = "init_end" =>
    current = initproc /\ ~in_schedule /\ cptr[initproc] = NULL

\* init_main waits for any child.
InitWaits == wpid[initproc] = ANY

Tree == Rises /\ Sinks /\ OnlyInit /\ InitAlone /\ InitWaits

\* A process that gets a parent but has no children yet is a new leaf.
LEMMA LeafAdded ==
    ASSUME TypeOK, Rises, Sinks, NEW c \in Process, NEW p \in Process, p # c,
           \A q \in Process : parent[q] # c, parent' = [parent EXCEPT ![c] = p]
    PROVE  Rises' /\ Sinks'
<1>1. \A q \in Process : parent'[q] = IF q = c THEN p ELSE parent[q]
  BY DEF TypeOK
<1>2. ASSUME NEW S \in SUBSET Process, S # {}
      PROVE  /\ \E q \in S : parent'[q] \notin S
             /\ \E q \in S : \A r \in S : parent'[r] # q
  <2> DEFINE T == S \ {c}
  <2>1. CASE T = {}
    <3>1. S = {c}
      BY <1>2, <2>1
    <3> QED BY <1>1, <3>1
  <2>2. CASE T # {}
    <3>1. \E q \in T : parent[q] \notin T
      BY <2>2 DEF Rises
    <3>2. \E q \in S : parent'[q] \notin S
      BY <1>1, <3>1
    <3>3. \E q \in S : \A r \in S : parent'[r] # q
      <4>1. CASE c \in S
        BY <1>1, <4>1
      <4>2. CASE c \notin S
        <5>1. PICK q \in S : \A r \in S : parent[r] # q
          BY <1>2 DEF Sinks
        <5> QED BY <1>1, <4>2, <5>1
      <4> QED BY <4>1, <4>2
    <3> QED BY <3>2, <3>3
  <2> QED BY <2>1, <2>2
<1> QED BY <1>2 DEF Rises, Sinks

\* A process handed to initproc takes its descendants along; initproc is not one.
LEMMA Adopted ==
    ASSUME TypeOK, Rises, Sinks, OnlyInit, NEW c \in Process, c \notin {initproc, idleproc},
           parent[initproc] = idleproc, parent[idleproc] = NULL,
           parent' = [parent EXCEPT ![c] = initproc]
    PROVE  Rises' /\ Sinks'
<1> USE ProcAssumption
<1>1. \A q \in Process : parent'[q] = IF q = c THEN initproc ELSE parent[q]
  BY DEF TypeOK
<1>2. initproc \in Process /\ idleproc \in Process /\ NULL \notin Process
  BY DEF Process
<1>3. ASSUME NEW S \in SUBSET Process, S # {}
      PROVE  \E q \in S : parent'[q] \notin S
  <2>1. CASE idleproc \in S
    BY <1>1, <1>2, <2>1
  <2>2. CASE idleproc \notin S /\ initproc \in S
    BY <1>1, <1>2, <2>2
  <2>3. CASE idleproc \notin S /\ initproc \notin S
    <3>1. PICK q \in S : parent[q] \notin S
      BY <1>3 DEF Rises
    <3> QED BY <1>1, <2>3, <3>1
  <2> QED BY <2>1, <2>2, <2>3
<1>4. ASSUME NEW S \in SUBSET Process, S # {}
      PROVE  \E q \in S : \A r \in S : parent'[r] # q
  <2> DEFINE T == S \ {initproc, idleproc}
  <2>1. CASE T = {}
    <3>1. \A r \in S : parent'[r] = parent[r]
      BY <1>1, <2>1
    <3> QED BY <1>4, <3>1 DEF Sinks
  <2>2. CASE T # {}
    <3>1. PICK q \in T : \A r \in T : parent[r] # q
      BY <2>2 DEF Sinks
    <3>2. \A r \in S : parent'[r] # q
      BY <1>1, <1>2, <3>1
    <3> QED BY <3>1, <3>2
  <2> QED BY <2>1, <2>2
<1> QED BY <1>3, <1>4 DEF Rises, Sinks

\* A process without children that loses its parent leaves a tree behind.
LEMMA LeafRemoved ==
    ASSUME TypeOK, Rises, Sinks, NEW z \in Process, parent' = [parent EXCEPT ![z] = NULL]
    PROVE  Rises' /\ Sinks'
<1> USE ProcAssumption
<1>1. /\ \A q \in Process : parent'[q] = IF q = z THEN NULL ELSE parent[q]
      /\ NULL \notin Process
  BY DEF TypeOK, Process
<1>2. Rises'
  BY <1>1 DEF Rises
<1>3. Sinks'
  BY <1>1 DEF Sinks
<1> QED BY <1>2, <1>3

\* The family is a tree initially,
LEMMA InitTree == Init => Tree
<1> SUFFICES ASSUME Init PROVE Tree
  OBVIOUS
<1> USE ProcAssumption DEF Process
<1>1. \A q \in Process : parent[q] = IF q = initproc THEN idleproc ELSE NULL
  BY DEF Init
<1>2. Rises
  BY <1>1 DEF Rises
<1>3. Sinks
  <2> SUFFICES ASSUME NEW S \in SUBSET Process, S # {}
               PROVE  \E p \in S : \A q \in S : parent[q] # p
    BY DEF Sinks
  <2>1. CASE initproc \in S
    BY <1>1, <2>1
  <2>2. CASE initproc \notin S
    BY <1>1, <2>2
  <2> QED BY <2>1, <2>2
<1>4. OnlyInit /\ InitAlone /\ InitWaits
  BY <1>1 DEF Init, OnlyInit, InitAlone, InitWaits
<1> QED BY <1>2, <1>3, <1>4 DEF Tree

\* do_fork hangs the new process into the tree as a leaf.
LEMMA ForkedTree ==
    ASSUME IInv, Rises, Sinks, OnlyInit, NEW c \in UserPid, NEW start,
           Forked(c, start), At("user") \/ At("init_main")
    PROVE  Rises' /\ Sinks' /\ OnlyInit'
<1> USE ProcAssumption
<1>a. TypeOK /\ Control
  BY DEF IInv
<1>b. /\ current \in Process /\ current # idleproc /\ initproc \in Process
      /\ c \in Process /\ c # initproc /\ c # current /\ state[c] = "UNINIT"
  BY <1>a DEF TypeOK, Control, At, Process, Forked
<1>1. \A q \in Process : parent[q] # c
  BY <1>a, <1>b, DeadHaveNoChildren DEF Control
<1>2. parent' = [parent EXCEPT ![c] = current]
  BY DEF Forked
<1>3. Rises' /\ Sinks'
  BY <1>a, <1>b, <1>1, <1>2, LeafAdded
<1>4. /\ optr'[initproc] = optr[initproc]
      /\ cptr[current] # initproc => yptr'[initproc] = yptr[initproc]
  BY <1>a, <1>b DEF Forked, set_links, TypeOK
<1>5. cptr[current] # initproc
  BY <1>b DEF IInv, FamilyLinks, Kinship, Process
<1>6. \A q \in Process : parent'[q] = IF q = c THEN current ELSE parent[q]
  BY <1>2, <1>a DEF TypeOK
<1>7. OnlyInit'
  BY <1>b, <1>4, <1>5, <1>6 DEF OnlyInit
<1> QED BY <1>3, <1>7

\* The loop of do_exit hands over a subtree.
LEMMA ReparentTree ==
    ASSUME IInv, Rises, Sinks, OnlyInit, ReparentChild
    PROVE  Rises' /\ Sinks' /\ OnlyInit'
<1> USE ProcAssumption
<1> DEFINE c == cptr[current]
<1>a. TypeOK /\ Control /\ Kinship /\ FamilyLinks
  BY DEF IInv
<1>b. /\ current \in Process /\ current # initproc /\ current # idleproc
      /\ initproc \in Process /\ idleproc \in Process /\ NULL \notin Process
  BY <1>a DEF TypeOK, Control, ReparentChild, At, Process
<1>c. parent[initproc] = idleproc /\ parent[idleproc] = NULL
  BY <1>a, <1>b DEF Kinship, FamilyLinks, Live
<1>d. c \in Process /\ parent[c] = current
  <2>1. c # NULL
    BY DEF ReparentChild
  <2>2. c \in Ptr
    BY <1>a, <1>b DEF TypeOK
  <2>3. parent[c] = current
    BY <1>a, <1>b, <2>1 DEF FamilyLinks
  <2> QED BY <2>1, <2>2, <2>3 DEF Ptr
<1>e. c # initproc /\ c # idleproc
  BY <1>b, <1>c, <1>d
<1>1. /\ parent' = [parent EXCEPT ![c] = initproc]
      /\ optr'[initproc] = optr[initproc]
      /\ cptr[initproc] # initproc => yptr'[initproc] = yptr[initproc]
  BY <1>a, <1>b, <1>e DEF ReparentChild, TypeOK
<1>2. cptr[initproc] # initproc
  BY <1>a, <1>b, <1>c DEF FamilyLinks
<1> HIDE DEF c
<1>3. Rises' /\ Sinks'
  BY <1>a, <1>c, <1>d, <1>e, <1>1, Adopted
<1>4. \A q \in Process : parent'[q] = IF q = c THEN initproc ELSE parent[q]
  BY <1>1, <1>a DEF TypeOK
<1>5. OnlyInit'
  BY <1>b, <1>1, <1>2, <1>4 DEF OnlyInit
<1> QED BY <1>3, <1>5

\* do_wait takes a leaf away.
LEMMA ReapTree ==
    ASSUME IInv, Rises, Sinks, OnlyInit, WaitReap
    PROVE  Rises' /\ Sinks' /\ OnlyInit'
<1> USE ProcAssumption
<1>a. TypeOK /\ Control /\ FamilyLinks
  BY DEF IInv
<1>b. /\ current \in Process /\ pc[current] = "do_wait"
      /\ initproc \in Process /\ idleproc \in Process /\ NULL \notin Process
  BY <1>a DEF TypeOK, Control, WaitReap, At, Process
<1>c. Stale = {}
  BY <1>b DEF Stale
<1>z. PICK z \in Process :
         Found(z) /\ remove_links(z) /\ parent' = [parent EXCEPT ![z] = NULL]
  BY DEF WaitReap
<1>d. z # initproc
  BY <1>z, <1>a DEF Found, Control
<1>1. Rises' /\ Sinks'
  BY <1>z, <1>a, LeafRemoved
<1>2. yptr[z] # initproc
  BY <1>a, <1>b, <1>c DEF FamilyLinks, OnlyInit
<1>3. optr[z] # initproc
  BY <1>a, <1>b DEF FamilyLinks, OnlyInit
<1>4. optr'[initproc] = optr[initproc] /\ yptr'[initproc] = yptr[initproc]
  BY <1>z, <1>b, <1>d, <1>2, <1>3 DEF remove_links
<1>5. \A q \in Process : parent'[q] = IF q = z THEN NULL ELSE parent[q]
  BY <1>z, <1>a DEF TypeOK
<1>6. OnlyInit'
  BY <1>b, <1>4, <1>5 DEF OnlyInit
<1> QED BY <1>1, <1>6

\* When do_wait(0) of init_main fails there is no child, and until init_main has
\* checked its assertions no other process gets the CPU.
LEMMA StepInitAlone ==
    ASSUME IInv, InitAlone, InitWaits, [Next]_vars
    PROVE  InitAlone' /\ InitWaits'
<1> USE ProcAssumption
<1>a. TypeOK /\ Control
  BY DEF IInv
<1>b. current \in Process /\ initproc \in Process /\ idleproc \in Process
  BY <1>a DEF TypeOK, Process
<1>1. CASE pc[initproc] = "init_end"
  <2>1. current = initproc /\ ~in_schedule /\ cptr[initproc] = NULL
    BY <1>1 DEF InitAlone
  <2>2. InitEnd \/ Tick \/ UNCHANGED vars
    BY <1>1, <2>1 DEF Next, UserStep, KernelStep, SysFork, SysForkRefused, SysForkNoStack,
          SysForkNoMm, SysExit, SysWait, SysYield, SysKill, OtherTrap, FatalTrap, DoExit,
          ReparentChild, ReparentDone, InitExit, WaitReap, WaitSleep, WaitWoken,
          WaitNoChild, TrapEnd, IdleLoop, InitMain, InitMainFails, InitLoop, Exec,
          ExecFails, Schedule, Halted, At
  <2>3. UNCHANGED <<current, in_schedule, cptr, wpid>>
    BY <2>2 DEF InitEnd, Tick, vars, family, cpu
  <2> QED BY <2>1, <2>3 DEF InitAlone, InitWaits
<1>2. CASE pc[initproc] # "init_end" /\ WaitNoChild
  <2>1. \A p \in Process : pc'[p] = IF p # current THEN pc[p]
              ELSE IF current = initproc THEN "init_end" ELSE "trap_end"
    BY <1>2, <1>a DEF WaitNoChild, GoTo, TypeOK
  <2>2. wpid'[initproc] = ANY
    BY <1>2, <1>a, <1>b DEF WaitNoChild, TypeOK, InitWaits, ANY
  <2>3. ASSUME current = initproc PROVE cptr[initproc] = NULL
    <3>1. Waited(initproc) = {q \in Process : parent[q] = initproc}
      BY <1>b, WaitedIsWanted DEF IInv, Wanted, InitWaits
    <3>2. \A q \in Process : parent[q] # initproc
      BY <1>2, <2>3, <3>1 DEF WaitNoChild
    <3>3. cptr[initproc] \in Process \cup {NULL}
      BY <1>a, <1>b DEF TypeOK, Ptr
    <3>4. cptr[initproc] # NULL => parent[cptr[initproc]] = initproc
      BY <1>b DEF IInv, FamilyLinks
    <3> QED BY <3>2, <3>3, <3>4
  <2>4. UNCHANGED <<current, in_schedule, cptr>> /\ ~in_schedule
    BY <1>2 DEF WaitNoChild, At, family, cpu
  <2> QED BY <1>2, <1>b, <2>1, <2>2, <2>3, <2>4 DEF InitAlone, InitWaits
<1>3. CASE pc[initproc] # "init_end" /\ ~WaitNoChild
  <2>1. \A p \in Process : pc'[p] = "init_end" => pc[p] = "init_end"
    <3>1. CASE SysFork \/ InitMain
      <4>1. PICK c \in UserPid, start \in {"user", "exec"} : Forked(c, start)
        BY <3>1 DEF SysFork, InitMain
      <4> QED BY <1>a, <4>1 DEF Forked, TypeOK
    <3>2. CASE UserStep /\ ~SysFork
      <4>1. \/ UNCHANGED pc
            \/ \E where \in {"trap_end", "do_exit", "do_wait"} : GoTo(where)
        BY <3>2 DEF UserStep, SysForkRefused, SysForkNoStack, SysForkNoMm, SysExit,
              SysWait, SysYield, SysKill, OtherTrap, FatalTrap, Die
      <4> QED BY <1>a, <4>1 DEF GoTo, TypeOK
    <3>3. CASE WaitReap
      <4>1. PICK z \in Process, where \in {"init_loop", "trap_end"} :
               pc' = [pc EXCEPT ![z] = "none", ![current] = where]
        BY <3>3 DEF WaitReap
      <4> QED BY <1>a, <4>1 DEF TypeOK
    <3>4. CASE KernelStep /\ ~(InitMain \/ WaitReap)
      <4>1. \/ UNCHANGED pc
            \/ \E where \in {"reparent", "dead", "do_exit", "wait_woken", "do_wait", "user"} :
                   GoTo(where)
        BY <3>4, <1>3 DEF KernelStep, DoExit, ReparentChild, ReparentDone, InitExit,
              WaitSleep, WaitWoken, TrapEnd, IdleLoop, InitMainFails, InitLoop, InitEnd,
              Exec, ExecFails, Schedule, Die
      <4> QED BY <1>a, <4>1 DEF GoTo, TypeOK
    <3>5. CASE Tick \/ Halted \/ UNCHANGED vars
      BY <3>5, <1>a DEF Tick, Halted, vars, TypeOK
    <3> QED BY <3>1, <3>2, <3>3, <3>4, <3>5 DEF Next
  <2>2. wpid'[initproc] = ANY
    <3>1. CASE SysWait
      <4>1. current # initproc
        BY <3>1, <1>a DEF SysWait, At, Control
      <4>2. PICK w : wpid' = [wpid EXCEPT ![current] = w]
        BY <3>1 DEF SysWait
      <4> QED BY <1>a, <1>b, <4>1, <4>2 DEF TypeOK, InitWaits
    <3>2. CASE WaitReap
      <4>1. PICK z \in Process : wpid' = [wpid EXCEPT ![z] = ANY, ![current] = ANY]
        BY <3>2 DEF WaitReap
      <4> QED BY <1>a, <1>b, <4>1 DEF TypeOK, InitWaits
    <3>3. CASE ~SysWait /\ ~WaitReap
      <4>1. UNCHANGED wpid
        BY <3>3, <1>3 DEF Next, UserStep, KernelStep, SysFork, SysForkRefused,
              SysForkNoStack, SysForkNoMm, SysExit, SysYield, SysKill, OtherTrap,
              FatalTrap, DoExit, ReparentChild, ReparentDone, InitExit, WaitSleep,
              WaitWoken, TrapEnd, IdleLoop, InitMain, InitMainFails, InitLoop, InitEnd,
              Exec, ExecFails, Schedule, Tick, Halted, Forked, Die, vars
      <4> QED BY <4>1 DEF InitWaits
    <3> QED BY <3>1, <3>2, <3>3
  <2> QED BY <1>3, <1>b, <2>1, <2>2 DEF InitAlone, InitWaits
<1> QED BY <1>1, <1>2, <1>3

\* and every step leaves it one.
LEMMA StepTree == IInv /\ Tree /\ [Next]_vars => Tree'
<1> SUFFICES ASSUME IInv, Tree, [Next]_vars PROVE Tree'
  OBVIOUS
<1>1. InitAlone' /\ InitWaits'
  BY StepInitAlone DEF Tree
<1>2. Rises' /\ Sinks' /\ OnlyInit'
  <2>1. CASE SysFork
    <3>1. PICK c \in UserPid : Forked(c, "user")
      BY <2>1 DEF SysFork
    <3> QED BY <2>1, <3>1, ForkedTree DEF Tree, SysFork
  <2>2. CASE InitMain
    <3>1. PICK c \in UserPid : Forked(c, "exec")
      BY <2>2 DEF InitMain
    <3> QED BY <2>2, <3>1, ForkedTree DEF Tree, InitMain
  <2>3. CASE ReparentChild
    BY <2>3, ReparentTree DEF Tree
  <2>4. CASE WaitReap
    BY <2>4, ReapTree DEF Tree
  <2>5. CASE ~(SysFork \/ InitMain \/ ReparentChild \/ WaitReap)
    <3>1. UNCHANGED <<parent, optr, yptr>>
      BY <2>5 DEF Next, UserStep, KernelStep, SysForkRefused, SysForkNoStack, SysForkNoMm,
            SysExit, SysWait, SysYield, SysKill, OtherTrap, FatalTrap, DoExit,
            ReparentDone, InitExit, WaitSleep, WaitWoken, WaitNoChild, TrapEnd, IdleLoop,
            InitMainFails, InitLoop, InitEnd, Exec, ExecFails, Schedule, Tick, Halted,
            Die, family, vars
    <3> QED BY <3>1 DEF Tree, Rises, Sinks, OnlyInit
  <2> QED BY <2>1, <2>2, <2>3, <2>4, <2>5
<1> QED BY <1>1, <1>2 DEF Tree

\* The family of do_fork, do_exit and do_wait is a tree whose root is idleproc
\* and in which initproc is the only child of the root.
THEOREM TreeCorrect == Spec => []Tree
<1> QED BY InitTree, StepTree, InvariantCorrect, PTL DEF Spec

\* schedule() always finds a runnable process in the list: if all slept or were
\* dead, initproc would sleep, and of the sleepers one has only dead children,
\* for one of which it would have been woken.
THEOREM RunnableCorrect == Spec => []SomeoneRunnable
<1> USE ProcAssumption
<1>1. IInv /\ Tree => SomeoneRunnable
  <2> SUFFICES ASSUME IInv, Tree, \A p \in Live : state[p] # "RUNNABLE" PROVE FALSE
    BY DEF IInv, TableAgrees, SomeoneRunnable
  <2> DEFINE S == {p \in Process : state[p] = "SLEEPING"}
  <2>1. initproc \in S
    <3>1. initproc \in Process /\ state[initproc] \notin {"ZOMBIE", "UNINIT"}
      BY DEF IInv, Control, Process
    <3>2. initproc \in Live
      BY <3>1 DEF Live
    <3> QED BY <3>1, <3>2 DEF IInv, TypeOK
  <2>2. PICK p \in S : \A q \in S : parent[q] # p
    <3>1. S \in SUBSET Process /\ S # {}
      BY <2>1
    <3> QED BY <3>1 DEF Tree, Sinks
  <2>3. PICK q \in Wanted(p) : state[q] # "ZOMBIE"
    BY DEF IInv, Sleepers
  <2>4. q \in Process /\ parent[q] = p /\ p # NULL
    BY DEF Wanted, Process
  <2>5. q \in Live
    BY <2>4 DEF IInv, FamilyLinks
  <2>6. state[q] = "SLEEPING"
    BY <2>3, <2>4, <2>5 DEF IInv, TypeOK, Live
  <2> QED BY <2>2, <2>4, <2>6
<1> QED BY <1>1, InvariantCorrect, TreeCorrect, PTL

\* The assertions at the end of init_main hold: when its do_wait finds no child,
\* initproc is the only process, alone in the list, and nr_process is 2.
THEOREM InitAssertsCorrect == Spec => []InitAsserts
<1> USE ProcAssumption
<1>1. IInv /\ Tree => InitAsserts
  <2> SUFFICES ASSUME IInv, Tree, pc[initproc] = "init_end"
               PROVE  /\ cptr[initproc] = NULL /\ yptr[initproc] = NULL
                      /\ optr[initproc] = NULL
                      /\ nr_process = 2 /\ proc_list = <<initproc>>
    BY DEF InitAsserts
  <2>1. cptr[initproc] = NULL /\ current = initproc
    BY DEF Tree, InitAlone
  <2>2. yptr[initproc] = NULL /\ optr[initproc] = NULL
    BY DEF Tree, OnlyInit
  <2>3. \A q \in Process : parent[q] # initproc
    <3>1. initproc \in Process /\ {} \in SUBSET Process
      BY DEF Process
    <3> QED BY <2>1, <3>1 DEF IInv, Reached
  <2>4. Live = {initproc}
    <3> DEFINE S == Live \ {initproc}
    <3>1. initproc \in Live
      BY DEF IInv, Control, Live, Process
    <3>2. ASSUME S # {} PROVE FALSE
      <4>1. S \in SUBSET Process
        BY DEF Live
      <4>2. PICK q \in S : parent[q] \notin S
        BY <3>2, <4>1 DEF Tree, Rises
      <4>3. q \in Live /\ q \in Process /\ parent[q] \in Process
        BY ParentExists DEF IInv, Live
      <4>4. parent[q] # initproc /\ parent[q] # idleproc
        BY <2>3, <4>3 DEF Tree, OnlyInit
      <4>5. parent[q] # current
        BY <2>1, <4>4
      <4>6. state[parent[q]] \in {"RUNNABLE", "SLEEPING"}
        BY <4>3, <4>5 DEF IInv, NoOrphans
      <4> QED BY <4>2, <4>3, <4>4, <4>6 DEF Live
    <3> QED BY <3>1, <3>2
  <2>5. /\ proc_list \in Seq(Process) /\ IsInjective(proc_list)
        /\ ToSet(proc_list) = {initproc} /\ nr_process = Len(proc_list) + 1
    BY <2>4 DEF IInv, TypeOK, TableAgrees
  <2>6. Len(proc_list) = 1 /\ proc_list[1] = initproc
    <3>1. DOMAIN proc_list = 1 .. Len(proc_list) /\ Len(proc_list) \in Nat
      BY <2>5
    <3>2. \A i \in 1 .. Len(proc_list) : proc_list[i] = initproc
      BY <2>5, <3>1 DEF ToSet
    <3>3. \E i \in 1 .. Len(proc_list) : TRUE
      BY <2>5, <3>1 DEF ToSet
    <3>4. \A i, j \in 1 .. Len(proc_list) : i = j
      BY <2>5, <3>1, <3>2 DEF IsInjective
    <3>5. Len(proc_list) = 1
      BY <3>1, <3>3, <3>4
    <3> QED BY <3>2, <3>5
  <2>7. proc_list = <<initproc>>
    BY <2>5, <2>6
  <2> QED BY <2>1, <2>2, <2>5, <2>6, <2>7
<1> QED BY <1>1, InvariantCorrect, TreeCorrect, PTL

----------------------------------------------------------------------------
(***************************************************************************)
(* Proc implements ProcessTree.                                            *)
(***************************************************************************)

\* The state functions by which Proc is seen as a process tree.
LEMMA Seen ==
    ASSUME IInv
    PROVE  /\ \A p \in Process :
                 /\ Life[p] = "none" <=> state[p] = "UNINIT"
                 /\ Life[p] = "dead" <=> state[p] = "ZOMBIE"
                 /\ Life[p] = "alive" <=> state[p] \in {"RUNNABLE", "SLEEPING"}
                 /\ Waiting[p] = NULL <=> state[p] # "SLEEPING"
           /\ pc[current] # "reparent" => NewParent = parent
           /\ ~in_schedule /\ pc[current] # "reparent" => Contract!Awake(current)
<1> USE ProcAssumption
<1>1. TypeOK /\ Control /\ current \in Process
  BY DEF IInv, TypeOK
<1>2. ASSUME NEW p \in Process
      PROVE  /\ Life[p] = "none" <=> state[p] = "UNINIT"
             /\ Life[p] = "dead" <=> state[p] = "ZOMBIE"
             /\ Life[p] = "alive" <=> state[p] \in {"RUNNABLE", "SLEEPING"}
  BY <1>1 DEF Life, TypeOK
<1>3. ASSUME NEW p \in Process
      PROVE  Waiting[p] = NULL <=> state[p] # "SLEEPING"
  <2>1. wpid[p] # NULL
    BY <1>1 DEF TypeOK, Process
  <2> QED BY <2>1 DEF Waiting
<1>4. ASSUME pc[current] # "reparent" PROVE NewParent = parent
  BY <1>1, <1>4 DEF NewParent, TypeOK
<1>5. ASSUME ~in_schedule, pc[current] # "reparent" PROVE Contract!Awake(current)
  <2>1. state[current] = "RUNNABLE"
    BY <1>1, <1>5 DEF Control
  <2> QED BY <1>1, <1>2, <1>3, <2>1 DEF Contract!Awake
<1> QED BY <1>2, <1>3, <1>4, <1>5

\* A step that leaves states, parents, marks and address spaces alone is not seen.
LEMMA Unseen ==
    ASSUME IInv, IInv', UNCHANGED <<state, parent, exiting, mm>>,
           pc[current] # "reparent", pc'[current'] # "reparent",
           \A p \in Process : state[p] = "SLEEPING" => wpid'[p] = wpid[p]
    PROVE  UNCHANGED <<Life, NewParent, Marked, Waiting, mm>>
<1>1. Life' = Life /\ Marked' = Marked
  BY DEF Life, Marked
<1>2. NewParent = parent
  BY Seen
<1>3. NewParent' = parent'
  BY DEF NewParent, IInv, TypeOK
<1>4. Waiting' = Waiting
  BY DEF Waiting
<1> QED BY <1>1, <1>2, <1>3, <1>4

\* do_fork is TFork.
LEMMA ForkSeen ==
    ASSUME IInv, IInv', NEW c \in UserPid, NEW start \in {"user", "exec"}, Forked(c, start),
           At("user") \/ At("init_main")
    PROVE  Contract!TFork
<1> USE ProcAssumption
<1>1. TypeOK /\ Control /\ current \in Process /\ c \in Process
  BY DEF IInv, TypeOK, Process
<1>2. /\ state[c] = "UNINIT" /\ parent' = [parent EXCEPT ![c] = current]
      /\ state' = [state EXCEPT ![c] = "RUNNABLE"]
      /\ mm' = IF current \in mm THEN mm \cup {c} ELSE mm
      /\ exiting' = exiting /\ wpid' = wpid /\ current' = current
  BY DEF Forked, WokenState, cpu
<1>3. ~in_schedule /\ pc[current] \in {"user", "init_main"} /\ c # current
  BY <1>1, <1>2 DEF At, Control
<1>4. pc'[current] # "reparent"
  BY <1>1, <1>3 DEF Forked, TypeOK
<1>5. NewParent = parent /\ NewParent' = parent'
  <2>1. NewParent' = parent'
    BY <1>2, <1>4 DEF NewParent, IInv, TypeOK
  <2> QED BY <1>3, <2>1, Seen
<1>6. Life' = [Life EXCEPT ![c] = "alive"]
  BY <1>1, <1>2 DEF Life, TypeOK
<1>7. Waiting' = Waiting /\ Marked' = Marked
  BY <1>1, <1>2 DEF Waiting, Marked, TypeOK
<1>8. Contract!Awake(current) /\ Life[c] = "none"
  BY <1>1, <1>2, <1>3, Seen
<1> QED BY <1>1, <1>2, <1>5, <1>6, <1>7, <1>8, Zenon DEF Contract!TFork

\* do_exit up to the loop is TExit.
LEMMA ExitSeen ==
    ASSUME IInv, IInv', DoExit
    PROVE  Contract!TExit
<1> USE ProcAssumption
<1> DEFINE p == parent[current]
<1>1. TypeOK /\ Control /\ current \in Process
  BY DEF IInv, TypeOK
<1>2. /\ ~in_schedule /\ pc[current] = "do_exit" /\ current \notin {initproc, idleproc}
      /\ state[current] = "RUNNABLE"
  BY <1>1 DEF DoExit, At, Control
<1>3. /\ mm' = mm \ {current} /\ parent' = parent /\ exiting' = exiting
      /\ current' = current /\ wpid' = wpid
      /\ pc'[current] = "reparent"
  BY <1>1 DEF DoExit, GoTo, family, cpu, TypeOK
<1>4. p \in Process /\ p # current
  <2>1. current \in Live
    BY <1>1, <1>2 DEF Live
  <2> QED BY <2>1, ParentExists, <1>1 DEF IInv, Kinship
<1>5. \A q \in Process : state'[q] = IF q = current THEN "ZOMBIE"
                                     ELSE IF q = p /\ state[p] = "SLEEPING" THEN "RUNNABLE" ELSE state[q]
  BY <1>1, <1>2, <1>4 DEF DoExit, WokenState, Control, TypeOK
<1> HIDE DEF p
<1>6. Life' = [Life EXCEPT ![current] = "dead"]
  <2>1. \A q \in Process : Life'[q] = IF q = current THEN "dead" ELSE Life[q]
    BY <1>1, <1>4, <1>5 DEF Life, TypeOK
  <2> QED BY <2>1 DEF Life
<1>7. Waiting' = [Waiting EXCEPT ![p] = NULL]
  <2>1. \A q \in Process : Waiting'[q] = IF q = p THEN NULL ELSE Waiting[q]
    BY <1>1, <1>2, <1>3, <1>4, <1>5 DEF Waiting, TypeOK
  <2> QED BY <2>1 DEF Waiting
<1>8. NewParent = parent
  BY <1>2, Seen
<1>9. NewParent' = [q \in Process |-> IF NewParent[q] = current THEN initproc ELSE NewParent[q]]
  BY <1>3, <1>8 DEF NewParent
<1>10. Marked' = Marked
  BY <1>3 DEF Marked
<1>11. Contract!Awake(current)
  BY <1>2, Seen
<1>12. NewParent[current] = p
  BY <1>8 DEF p
<1> QED BY <1>1, <1>2, <1>3, <1>6, <1>7, <1>9, <1>10, <1>11, <1>12, Zenon DEF Contract!TExit

\* An iteration of the loop of do_exit shows nothing, or that initproc is woken.
LEMMA ReparentSeen ==
    ASSUME IInv, IInv', ReparentChild
    PROVE  Contract!TInherit \/ UNCHANGED <<Life, NewParent, Marked, Waiting, mm>>
<1> USE ProcAssumption
<1> DEFINE c == cptr[current]
           wake == state[c] = "ZOMBIE" /\ wait_state[initproc] = "WT_CHILD"
<1>1. TypeOK /\ Control /\ current \in Process /\ initproc \in Process
  BY DEF IInv, TypeOK, Process
<1>2. pc[current] = "reparent" /\ c # NULL
  BY DEF ReparentChild, At
<1>3. c \in Process /\ parent[c] = current /\ c # initproc
  <2>1. c \in Process
    BY <1>1, <1>2 DEF TypeOK, Ptr
  <2>2. parent[c] = current
    BY <1>1, <1>2 DEF IInv, FamilyLinks
  <2>3. current # idleproc
    BY <1>1, <1>2 DEF Control
  <2> QED BY <2>1, <2>2, <2>3 DEF IInv, Kinship
<1>4. /\ parent' = [parent EXCEPT ![c] = initproc]
      /\ state' = IF wake THEN [state EXCEPT ![initproc] = "RUNNABLE"] ELSE state
      /\ exiting' = exiting /\ current' = current /\ mm' = mm /\ pc' = pc /\ wpid' = wpid
  BY DEF ReparentChild, WokenState, cpu
<1>5. NewParent' = NewParent /\ NewParent[c] = initproc
  BY <1>1, <1>2, <1>3, <1>4 DEF NewParent, TypeOK
<1> HIDE DEF c
<1>6. state[initproc] = "SLEEPING" <=> wait_state[initproc] = "WT_CHILD"
  BY <1>1 DEF Control
<1>7. Marked' = Marked
  BY <1>4 DEF Marked
<1>8. CASE wake
  <2>1. Life' = Life
    BY <1>1, <1>4, <1>6, <1>8 DEF Life, TypeOK
  <2>2. Waiting' = [Waiting EXCEPT ![initproc] = NULL]
    BY <1>1, <1>4, <1>6, <1>8 DEF Waiting, TypeOK
  <2>3. Life[c] = "dead"
    BY <1>3, <1>8, Seen
  <2> QED BY <1>3, <1>4, <1>5, <1>7, <2>1, <2>2, <2>3, Zenon DEF Contract!TInherit
<1>9. CASE ~wake
  <2>1. Life' = Life /\ Waiting' = Waiting
    BY <1>4, <1>9 DEF Life, Waiting
  <2> QED BY <1>4, <1>5, <1>7, <2>1
<1> QED BY <1>8, <1>9

\* The end of that loop is not seen: no child is left.
LEMMA ReparentDoneSeen ==
    ASSUME IInv, IInv', ReparentDone
    PROVE  UNCHANGED <<Life, NewParent, Marked, Waiting, mm>>
<1>1. TypeOK /\ current \in Process
  BY DEF IInv, TypeOK
<1>2. /\ cptr[current] = NULL /\ parent' = parent /\ state' = state /\ exiting' = exiting
      /\ current' = current /\ mm' = mm /\ wpid' = wpid /\ pc'[current] = "dead"
  BY <1>1 DEF ReparentDone, At, GoTo, family, status, TypeOK
<1>3. \A q \in Process : parent[q] # current
  <2>1. {} \in SUBSET Process
    OBVIOUS
  <2> QED BY <1>1, <1>2, <2>1 DEF IInv, Reached
<1>4. NewParent' = NewParent
  BY <1>2, <1>3 DEF NewParent
<1>5. Life' = Life /\ Marked' = Marked /\ Waiting' = Waiting
  BY <1>2 DEF Life, Marked, Waiting
<1> QED BY <1>2, <1>4, <1>5

\* do_wait that finds a zombie is TReap.
LEMMA ReapSeen ==
    ASSUME IInv, IInv', WaitReap
    PROVE  Contract!TReap
<1> USE ProcAssumption
<1>1. TypeOK /\ Control /\ current \in Process
  BY DEF IInv, TypeOK
<1>2. PICK z \in Process :
        /\ Found(z)
        /\ parent' = [parent EXCEPT ![z] = NULL] /\ state' = [state EXCEPT ![z] = "UNINIT"]
        /\ exiting' = [exiting EXCEPT ![z] = FALSE]
        /\ wpid' = [wpid EXCEPT ![z] = ANY, ![current] = ANY]
        /\ pc' = [pc EXCEPT ![z] = "none",
                            ![current] = IF current = initproc THEN "init_loop" ELSE "trap_end"]
        /\ current' = current /\ mm' = mm
  BY DEF WaitReap
<1>3. ~in_schedule /\ pc[current] = "do_wait" /\ state[current] = "RUNNABLE"
  BY <1>1 DEF WaitReap, At, Control
<1>4. state[z] = "ZOMBIE" /\ parent[z] = current /\ z # current
  <2>1. z \in Wanted(current)
    BY <1>1, <1>2, WaitedIsWanted DEF Found, IInv
  <2> QED BY <1>2, <1>3, <2>1 DEF Found, Wanted
<1>5. pc'[current] # "reparent"
  BY <1>1, <1>2 DEF TypeOK
<1>6. NewParent = parent /\ NewParent' = parent'
  <2>1. NewParent' = parent'
    BY <1>2, <1>5 DEF NewParent, IInv, TypeOK
  <2> QED BY <1>3, <2>1, Seen
<1>7. Life' = [Life EXCEPT ![z] = "none"]
  BY <1>1, <1>2 DEF Life, TypeOK
<1>8. Waiting' = Waiting
  <2>1. \A q \in Process : state'[q] = "SLEEPING" <=> state[q] = "SLEEPING"
    BY <1>1, <1>2, <1>4 DEF TypeOK
  <2>2. \A q \in Process : state[q] = "SLEEPING" => wpid'[q] = wpid[q]
    BY <1>1, <1>2, <1>3, <1>4 DEF TypeOK
  <2> QED BY <2>1, <2>2 DEF Waiting
<1>9. Marked' = Marked \ {z}
  BY <1>1, <1>2 DEF Marked, TypeOK
<1>10. Contract!Awake(current) /\ Life[z] = "dead" /\ NewParent[z] = current
  BY <1>3, <1>4, <1>6, Seen
<1> QED BY <1>1, <1>2, <1>6, <1>7, <1>8, <1>9, <1>10, Zenon DEF Contract!TReap

\* do_wait that finds none is TSleep.
LEMMA SleepSeen ==
    ASSUME IInv, IInv', WaitSleep
    PROVE  Contract!TSleep
<1> USE ProcAssumption
<1>1. TypeOK /\ Control /\ current \in Process
  BY DEF IInv, TypeOK
<1>2. /\ Waited(current) # {} /\ \A q \in Waited(current) : state[q] # "ZOMBIE"
      /\ state' = [state EXCEPT ![current] = "SLEEPING"]
      /\ parent' = parent /\ exiting' = exiting /\ current' = current /\ mm' = mm /\ wpid' = wpid
      /\ pc'[current] # "reparent"
  BY <1>1 DEF WaitSleep, GoTo, family, TypeOK
<1>3. ~in_schedule /\ pc[current] = "do_wait" /\ state[current] = "RUNNABLE"
  BY <1>1 DEF WaitSleep, At, Control
<1>4. NewParent = parent /\ NewParent' = parent'
  <2>1. NewParent' = parent'
    BY <1>2 DEF NewParent, IInv, TypeOK
  <2> QED BY <1>3, <2>1, Seen
<1> DEFINE w == wpid[current]
<1>5. Contract!Asked(current, w) = Waited(current) /\ w \in Process
  <2>1. Contract!Asked(current, w) = Wanted(current)
    BY <1>4 DEF Contract!Asked, Wanted
  <2> QED BY <1>1, <2>1, WaitedIsWanted DEF IInv, TypeOK
<1>6. Contract!Asked(current, w) # {} /\ \A q \in Contract!Asked(current, w) : Life[q] # "dead"
  <2>1. \A q \in Contract!Asked(current, w) : q \in Process
    BY DEF Contract!Asked
  <2> QED BY <1>2, <1>5, <2>1, Seen
<1>7. Life' = Life /\ Marked' = Marked
  BY <1>1, <1>2, <1>3 DEF Life, Marked, TypeOK
<1>8. Waiting' = [Waiting EXCEPT ![current] = w]
  BY <1>1, <1>2 DEF Waiting, TypeOK
<1>9. Contract!Awake(current)
  BY <1>3, Seen
<1> HIDE DEF w
<1> QED BY <1>1, <1>2, <1>4, <1>5, <1>6, <1>7, <1>8, <1>9, Zenon DEF Contract!TSleep

\* do_kill is TKill, or refuses.
LEMMA KillSeen ==
    ASSUME IInv, IInv', SysKill
    PROVE  Contract!TKill \/ UNCHANGED <<Life, NewParent, Marked, Waiting, mm>>
<1> USE ProcAssumption
<1>1. TypeOK /\ Control /\ current \in Process
  BY DEF IInv, TypeOK
<1>2. PICK q \in Process :
        IF find_proc(q) /\ ~exiting[q]
        THEN /\ exiting' = [exiting EXCEPT ![q] = TRUE]
             /\ state' = IF wait_state[q] = "WT_CHILD" THEN [state EXCEPT ![q] = "RUNNABLE"] ELSE state
        ELSE UNCHANGED <<state, exiting>>
  BY DEF SysKill, WokenState, status
<1>3. /\ pc[current] = "user" /\ parent' = parent /\ current' = current /\ mm' = mm /\ wpid' = wpid
      /\ pc'[current] # "reparent"
  BY <1>1 DEF SysKill, At, GoTo, family, cpu, TypeOK
<1>4. NewParent' = NewParent
  <2>1. NewParent' = parent'
    BY <1>3 DEF NewParent, IInv, TypeOK
  <2> QED BY <1>3, <2>1, Seen
<1>5. CASE find_proc(q) /\ ~exiting[q]
  <2>1. q # idleproc /\ Life[q] # "none"
    BY <1>5, Seen DEF find_proc, IInv, TableAgrees, Live
  <2>2. wait_state[q] = "WT_CHILD" <=> state[q] = "SLEEPING"
    BY <1>1 DEF Control
  <2>3. Life' = Life
    BY <1>1, <1>2, <1>5, <2>2 DEF Life, TypeOK
  <2>4. Waiting' = [Waiting EXCEPT ![q] = NULL]
    BY <1>1, <1>2, <1>3, <1>5, <2>2 DEF Waiting, TypeOK
  <2>5. Marked' = Marked \cup {q}
    <3>1. exiting \in [Process -> BOOLEAN] /\ exiting' = [exiting EXCEPT ![q] = TRUE]
      BY <1>1, <1>2, <1>5 DEF TypeOK
    <3>2. \A p \in Process : exiting'[p] <=> p = q \/ exiting[p]
      BY <3>1, Zenon
    <3> QED BY <3>2 DEF Marked
  <2> QED BY <1>3, <1>4, <2>1, <2>3, <2>4, <2>5, Zenon DEF Contract!TKill
<1>6. CASE ~(find_proc(q) /\ ~exiting[q])
  <2>1. Life' = Life /\ Waiting' = Waiting /\ Marked' = Marked
    BY <1>2, <1>3, <1>6 DEF Life, Waiting, Marked
  <2> QED BY <1>3, <1>4, <2>1
<1> QED BY <1>5, <1>6

\* user_main gets its memory.
LEMMA ExecSeen ==
    ASSUME IInv, IInv', Exec
    PROVE  Contract!TExec
<1>1. TypeOK /\ Control /\ current \in Process
  BY DEF IInv, TypeOK
<1>2. /\ ~in_schedule /\ pc[current] = "exec" /\ mm' = mm \cup {current} /\ pc'[current] = "user"
      /\ UNCHANGED <<state, parent, exiting, current, wpid>>
  BY <1>1 DEF Exec, At, GoTo, family, status, cpu, TypeOK
<1>3. NewParent' = NewParent
  <2>1. NewParent' = parent'
    BY <1>2 DEF NewParent, IInv, TypeOK
  <2> QED BY <1>2, <2>1, Seen
<1>4. Life' = Life /\ Waiting' = Waiting /\ Marked' = Marked
  BY <1>2 DEF Life, Waiting, Marked
<1>5. Contract!Awake(current)
  BY <1>2, Seen
<1> QED BY <1>1, <1>2, <1>3, <1>4, <1>5, Zenon DEF Contract!TExec

\* The rest of the kernel is not seen.
LEMMA RestUnseen ==
    ASSUME IInv, IInv',
           \/ SysForkRefused \/ SysForkNoStack \/ SysForkNoMm \/ SysExit \/ SysWait
           \/ SysYield \/ OtherTrap \/ FatalTrap \/ InitExit \/ WaitWoken \/ WaitNoChild
           \/ TrapEnd \/ IdleLoop \/ InitMainFails \/ InitLoop \/ InitEnd
           \/ ExecFails \/ Schedule \/ Tick
    PROVE  UNCHANGED <<Life, NewParent, Marked, Waiting, mm>>
<1> USE ProcAssumption
<1>1. TypeOK /\ Control /\ current \in Process
  BY DEF IInv, TypeOK
<1>2. UNCHANGED <<state, parent, exiting, mm>>
  BY DEF SysForkRefused, SysForkNoStack, SysForkNoMm, SysExit, SysWait, SysYield, OtherTrap,
         FatalTrap, InitExit, WaitWoken, WaitNoChild, TrapEnd, IdleLoop, InitMainFails, InitLoop,
         InitEnd, ExecFails, Schedule, Tick, Die, family, status
<1>3. CASE Schedule
  <2>1. wpid' = wpid /\ pc' = pc /\ in_schedule
    BY <1>3 DEF Schedule
  <2>2. current' \in Process
    BY DEF IInv, TypeOK
  <2>3. pc[current] # "reparent" /\ pc'[current'] # "reparent"
    BY <1>1, <2>1, <2>2 DEF Control
  <2> QED BY <1>2, <2>1, <2>3, Unseen
<1>4. CASE ~Schedule
  <2>1. current' = current /\ pc[current] # "reparent"
    BY <1>1, <1>4 DEF SysForkRefused, SysForkNoStack, SysForkNoMm, SysExit, SysWait, SysYield, OtherTrap,
           FatalTrap, InitExit, WaitWoken, WaitNoChild, TrapEnd, IdleLoop, InitMainFails, InitLoop,
           InitEnd, ExecFails, Tick, IntrOn, Die, At, cpu, Control
  <2>2. pc'[current] # "reparent"
    BY <1>1, <1>4, <2>1 DEF SysForkRefused, SysForkNoStack, SysForkNoMm, SysExit, SysWait, SysYield, OtherTrap,
           FatalTrap, InitExit, WaitWoken, WaitNoChild, TrapEnd, IdleLoop, InitMainFails, InitLoop,
           InitEnd, ExecFails, Tick, Die, GoTo, TypeOK
  <2>3. \A p \in Process : p # current => wpid'[p] = wpid[p]
    BY <1>1, <1>4 DEF SysForkRefused, SysForkNoStack, SysForkNoMm, SysExit, SysWait, SysYield, OtherTrap,
           FatalTrap, InitExit, WaitWoken, WaitNoChild, TrapEnd, IdleLoop, InitMainFails, InitLoop,
           InitEnd, ExecFails, Tick, Die, TypeOK
  <2>4. state[current] = "SLEEPING" => in_schedule
    BY <1>1, <2>1 DEF Control
  <2>5. state[current] = "SLEEPING" => wpid' = wpid
    BY <1>1, <1>4, <2>4 DEF SysForkRefused, SysForkNoStack, SysForkNoMm, SysExit, SysWait, SysYield, OtherTrap,
           FatalTrap, InitExit, WaitWoken, WaitNoChild, TrapEnd, IdleLoop, InitMainFails, InitLoop,
           InitEnd, ExecFails, Tick, Die, At
  <2> QED BY <1>2, <2>1, <2>2, <2>3, <2>5, Unseen
<1> QED BY <1>3, <1>4

\* The family pointers, the state and the sleeping of processes implement a tree
\* of processes in which exit is one step, whatever runs in between, and a sleep
\* ends at the latest when a child dies or the sleeper is killed.
THEOREM ProcessTreeRefinement == Spec => ImplementsProcessTree
<1> USE ProcAssumption
<1>1. Init => Contract!TInit
  <2> SUFFICES ASSUME Init PROVE Contract!TInit
    OBVIOUS
  <2>1. Life = [p \in Process |-> IF p \in {idleproc, initproc} THEN "alive" ELSE "none"]
    BY DEF Init, Life, Process
  <2>2. NewParent = [p \in Process |-> IF p = initproc THEN idleproc ELSE NULL]
    BY DEF Init, NewParent, Process
  <2>3. Marked = {} /\ mm = {} /\ Waiting = [p \in Process |-> NULL]
    BY DEF Init, Marked, Waiting, Process
  <2> QED BY <2>1, <2>2, <2>3 DEF Contract!TInit
<1>2. IInv /\ IInv' /\ [Next]_vars => [Contract!TNext]_<<Life, NewParent, Marked, Waiting, mm>>
  <2> SUFFICES ASSUME IInv, IInv', [Next]_vars
               PROVE  Contract!TNext \/ UNCHANGED <<Life, NewParent, Marked, Waiting, mm>>
    OBVIOUS
  <2>1. CASE SysFork \/ InitMain
    <3>1. /\ At("user") \/ At("init_main")
          /\ \E c \in UserPid, start \in {"user", "exec"} : Forked(c, start)
      BY <2>1 DEF SysFork, InitMain
    <3> QED BY <3>1, ForkSeen DEF Contract!TNext
  <2>2. CASE DoExit
    BY <2>2, ExitSeen DEF Contract!TNext
  <2>3. CASE ReparentChild
    BY <2>3, ReparentSeen DEF Contract!TNext
  <2>4. CASE ReparentDone
    BY <2>4, ReparentDoneSeen
  <2>5. CASE WaitReap
    BY <2>5, ReapSeen DEF Contract!TNext
  <2>6. CASE WaitSleep
    BY <2>6, SleepSeen DEF Contract!TNext
  <2>7. CASE SysKill
    BY <2>7, KillSeen DEF Contract!TNext
  <2>8. CASE Exec
    BY <2>8, ExecSeen DEF Contract!TNext
  <2>9. CASE Halted \/ UNCHANGED vars
    <3>1. UNCHANGED vars
      BY <2>9 DEF Halted
    <3> QED BY <3>1 DEF vars, family, status, cpu, Life, NewParent, Marked, Waiting
  <2>10. CASE \/ SysForkRefused \/ SysForkNoStack \/ SysForkNoMm \/ SysExit \/ SysWait
              \/ SysYield \/ OtherTrap \/ FatalTrap \/ InitExit \/ WaitWoken \/ WaitNoChild
              \/ TrapEnd \/ IdleLoop \/ InitMainFails \/ InitLoop \/ InitEnd
              \/ ExecFails \/ Schedule \/ Tick
    BY <2>10, RestUnseen
  <2> QED BY <2>1, <2>2, <2>3, <2>4, <2>5, <2>6, <2>7, <2>8, <2>9, <2>10
          DEF Next, UserStep, KernelStep
<1> QED BY <1>1, <1>2, InvariantCorrect, PTL
        DEF Spec, ImplementsProcessTree, Contract!TSpec, Contract!tvars

----------------------------------------------------------------------------
(***************************************************************************)
(* Programs runs on Proc.                                                  *)
(***************************************************************************)

\* A call of a program is a step of Proc.
LEMMA UserCallStep == ASSUME UserCall PROVE UserStep
BY DEF UserCall, ForkCall, WaitCall, KillCall, YieldCall, GetPidCall, ExitCall, Fault, UserStep

\* Programs together with the kernel never leave what Proc allows: every theorem about
\* Proc above holds while the programs of user/ run.
THEOREM ProgramsRunOnProc == PSpec => Spec
<1>1. PInit => Init
  BY DEF PInit
<1>2. [PNext]_allvars => [Next]_vars
  <2> SUFFICES ASSUME [PNext]_allvars PROVE [Next]_vars
    OBVIOUS
  <2>1. CASE UserCall
    BY <2>1, UserCallStep DEF Next
  <2>2. CASE AnyCall
    BY <2>2 DEF AnyCall, Next, UserStep
  <2>3. CASE Kernel
    BY <2>3 DEF Kernel, Next
  <2>4. CASE Tick \/ Halted
    BY <2>4 DEF Next
  <2>5. CASE UNCHANGED allvars
    BY <2>5 DEF allvars
  <2> QED BY <2>1, <2>2, <2>3, <2>4, <2>5 DEF PNext
<1> QED BY <1>1, <1>2, PTL DEF PSpec, Spec
----------------------------------------------------------------------------
(***************************************************************************)
(* The programs of user/ pass.                                             *)
(***************************************************************************)

\* The user processes: those ready to make a call, those in do_wait, and those
\* in do_exit or dead.
Users   == Live \cap UserPid
Ready   == {p \in Users : pc[p] \in {"user", "exec"}}
InWait  == {p \in Users : pc[p] \in {"do_wait", "wait_woken"}}
Dying   == {p \in Users : pc[p] \in {"do_exit", "reparent", "dead"}}

\* What holds whatever the program: init_main has not created it yet, do_wait was
\* called by the call it returns to, and a process dies of its exit call or of a kill.
Running ==
    /\ ip = [p \in UserPid |-> ip[p]] /\ exit_code = [p \in UserPid |-> exit_code[p]]
    /\ mem \in [UserPid -> [Var -> Ptr]]
    /\ pc[initproc] = "init_main" => Users = {} /\ \A p \in UserPid : exit_code[p] = "0"
    /\ \A p \in InWait :
          /\ Call(p).op = "wait" /\ Call(p).store # "kernel"
          /\ wpid[p] = Pid(p, Call(p).var)
    /\ \A p \in Dying :
          \/ exiting[p] /\ exit_code[p] = "E_KILLED"
          \/ Call(p).op = "exit" /\ exit_code[p] = Call(p).code
    /\ \A p \in UserPid \ Users : ~exiting[p]

\* yield, forktree and faultread: no process needs another one.
Simple == {"yield", "forktree", "faultread"}
SimpleLast == CASE prog = "yield" -> NYield + 1
                [] prog = "forktree" -> 4 * DEPTH + 1
                [] OTHER -> 1
SimplePasses ==
    /\ \A p \in Users : ip[p] \in 1 .. SimpleLast
    /\ \A p \in UserPid : ~exiting[p]

\* exit, badarg and spin: the main process has one child from its second call to
\* the one at OneLast, which reaps it.  The child of spin is killed just before.
OneChild == {"exit", "badarg", "spin"}
MainEnd == IF prog = "spin" THEN NYield + 4 ELSE 5
OneLast == CASE prog = "exit" -> 2 [] prog = "badarg" -> 4 [] OTHER -> NYield + 3
OneEnd  == IF prog = "spin" THEN NYield + 5 ELSE NYield + 6
OnePasses ==
    /\ \A p \in Users : ip[p] \in 1 .. OneEnd
    /\ \A p \in Users : ip[p] <= MainEnd =>
          /\ parent[p] = initproc
          /\ \A q \in Users : ip[q] <= MainEnd => q = p
    /\ \A p \in Users : ip[p] \in 2 .. OneLast =>
          /\ mem[p]["pid"] \in Users
          /\ ip[mem[p]["pid"]] > MainEnd /\ parent[mem[p]["pid"]] = p
    /\ \A c \in Users : ip[c] > MainEnd =>
          \E p \in Users : ip[p] \in 2 .. OneLast /\ mem[p]["pid"] = c
    /\ \A c \in UserPid : exiting[c] =>
          /\ prog = "spin" /\ c \in Users /\ ip[c] > MainEnd
          /\ \A p \in Users : ip[p] <= MainEnd => ip[p] = OneLast

\* forktest: the main process has as many children as it has forked and not yet
\* reaped.
TestPasses ==
    /\ \A p \in Users : ip[p] \in 1 .. 2 * MaxChild + 3
    /\ \A p, q \in Users : ip[p] # 2 * MaxChild + 3 /\ ip[q] # 2 * MaxChild + 3 => p = q
    /\ \A p \in Users : ip[p] # 2 * MaxChild + 3 =>
          /\ parent[p] = initproc
          /\ Cardinality(Users) =
                IF ip[p] <= MaxChild + 1 THEN ip[p]
                ELSE IF ip[p] <= 2 * MaxChild + 1 THEN 2 * MaxChild + 2 - ip[p] ELSE 1
    /\ \A c \in Users : ip[c] = 2 * MaxChild + 3 =>
          parent[c] \in Users /\ ip[parent[c]] # 2 * MaxChild + 3
    /\ \A p \in UserPid : ~exiting[p]

\* waitkill: the root starts at call 1, its first child at 7, the second at 8; the second kills
\* the root before call ToldRoot and the first child before call ToldChild.
ToldRoot  == NYield + 9
ToldChild == 2 * NYield + 10
IsRoot(p)   == ip[p] <= 4
IsSecond(p) == ip[p] >= 8
KillRoles ==
    /\ \A p \in Users : ip[p] \in 0 .. 4 \cup {7} \cup 8 .. ToldChild
    /\ \A p, q \in Users :
          \/ IsRoot(p) /\ IsRoot(q)
          \/ ip[p] = 7 /\ ip[q] = 7
          \/ IsSecond(p) /\ IsSecond(q)
          => p = q
    /\ \A r \in Users : IsRoot(r) =>
          /\ parent[r] = initproc
          /\ ip[r] \in {1, 2} => Users = {r}
          /\ ip[r] = 3 => \A p \in Users : ~IsSecond(p)
          /\ ip[r] \in 2 .. 4 => mem[r]["parent"] = r
          /\ ip[r] = 0 => exiting[r] /\ r \notin Ready
          /\ r \in Dying => exit_code[r] = "E_KILLED"
\* While it lives the root is the parent of the first child, for which it waits.
RootWaits == \A r \in Users \ Dying : ip[r] \in {3, 4} =>
    mem[r]["pid"] \in Users /\ ip[mem[r]["pid"]] = 7 /\ parent[mem[r]["pid"]] = r
\* The second child finds those that it kills.
RootFound == \A p \in Users : IsSecond(p) /\ ip[p] < ToldRoot =>
    mem[p]["parent"] \in Users /\ ip[mem[p]["parent"]] = 4 /\ ~exiting[mem[p]["parent"]]
FirstFound == \A p \in Users : IsSecond(p) /\ ip[p] < ToldChild =>
    mem[p]["pid"] \in Users /\ ip[mem[p]["pid"]] = 7 /\ ~exiting[mem[p]["pid"]]
\* The root is marked before the child for which it waits is.
RootFirst ==
    /\ \A p, r \in Users : IsRoot(r) /\ (exiting[p] \/ ip[p] >= ToldRoot) => exiting[r]
    /\ \A p \in Users : exiting[p] => ip[p] \in {0, 4, 7}
KillPasses == KillRoles /\ RootWaits /\ RootFound /\ FirstFound /\ RootFirst

\* The inductive invariant of the programs.
PInv ==
    /\ prog \in Suite
    /\ prog = "any" => \A p \in UserPid : exit_code[p] = "0"
    /\ prog # "any" => Running
    /\ prog \in Simple => SimplePasses
    /\ prog \in OneChild => OnePasses
    /\ prog = "forktest" => TestPasses
    /\ prog = "waitkill" => KillPasses

----------------------------------------------------------------------------
(***************************************************************************)
(* The steps of a program, as the user processes see them.                 *)
(***************************************************************************)

Moves(U, W, D) == Users' = U /\ InWait' = W /\ Dying' = D

\* init_main creates the main process c.
Starts(c) ==
    /\ Users = {} /\ c \in UserPid /\ exit_code[c] = "0"
    /\ Moves({c}, {}, {})
    /\ parent' = [parent EXCEPT ![c] = initproc]
    /\ ip' = [p \in UserPid |-> IF p = c THEN 1 ELSE ip[p]]
    /\ UNCHANGED <<mem, exit_code, exiting>>

\* The calls of p: fork, a wait that goes to do_wait, those that only return,
\* kill and exit.
Forks(p, c) ==
    /\ p \in Ready /\ Call(p).op = "fork" /\ c \in UserPid \ Users
    /\ Moves(Users \cup {c}, InWait, Dying)
    /\ parent' = [parent EXCEPT ![c] = p]
    /\ ip' = [ip EXCEPT ![p] = After(p, "pid", "any"), ![c] = Call(p).child]
    /\ mem' = [mem EXCEPT ![p][Call(p).var] = c, ![c] = mem[p]]
    /\ exit_code' = [exit_code EXCEPT ![c] = "0"]
    /\ UNCHANGED exiting
Waits(p) ==
    /\ p \in Ready /\ Call(p).op = "wait" /\ Call(p).store # "kernel"
    /\ Moves(Users, InWait \cup {p}, Dying)
    /\ wpid'[p] = Pid(p, Call(p).var)
    /\ UNCHANGED <<parent, ip, mem, exit_code, exiting>>
Calls(p) ==
    /\ p \in Ready
    /\ \/ /\ Call(p).op = "wait" /\ Call(p).store = "kernel"
          /\ ip' = [ip EXCEPT ![p] = After(p, "error", "any")] /\ mem' = mem
       \/ Call(p).op = "yield" /\ ip' = [ip EXCEPT ![p] = @ + 1] /\ mem' = mem
       \/ /\ Call(p).op = "getpid"
          /\ ip' = [ip EXCEPT ![p] = @ + 1] /\ mem' = [mem EXCEPT ![p].parent = p]
    /\ Moves(Users, InWait, Dying)
    /\ UNCHANGED <<parent, exit_code, exiting>>
Kills(p) ==
    LET q == Pid(p, Call(p).var)
        ok == q \in Live /\ ~exiting[q]
    IN  /\ p \in Ready /\ Call(p).op = "kill"
        /\ Moves(Users, InWait, Dying)
        /\ exiting' = IF ok THEN [exiting EXCEPT ![q] = TRUE] ELSE exiting
        /\ ip' = [ip EXCEPT ![p] = AfterKill(p, IF ok THEN "0" ELSE "error")]
        /\ UNCHANGED <<parent, mem, exit_code>>
Exits(p) ==
    /\ p \in Ready /\ Call(p).op = "exit"
    /\ Moves(Users, InWait, Dying \cup {p})
    /\ exit_code' = [exit_code EXCEPT ![p] = Call(p).code]
    /\ UNCHANGED <<parent, ip, mem, exiting>>

\* z goes for good: its parent, or initproc, has found it dead.
Leaves(z, W) ==
    /\ z \in Dying /\ \A q \in Process : parent[q] # z
    /\ Moves(Users \ {z}, W, Dying \ {z})
    /\ parent' = [parent EXCEPT ![z] = NULL] /\ exiting' = [exiting EXCEPT ![z] = FALSE]
    /\ UNCHANGED <<mem, exit_code>>
Returns(p, z) ==
    /\ p \in InWait /\ parent[z] = p /\ wpid[p] \in {ANY, z}
    /\ Leaves(z, InWait \ {p})
    /\ ip' = [ip EXCEPT ![p] = After(p, "0", exit_code[z])]
InitReapsIt(z) == parent[z] = initproc /\ Leaves(z, InWait) /\ ip' = ip

\* do_wait of p finds no child.
NoneLeft(p) ==
    /\ p \in InWait /\ \A q \in Users : parent[q] = p => wpid[p] \notin {ANY, q}
    /\ Moves(Users, InWait \ {p}, Dying)
    /\ ip' = [ip EXCEPT ![p] = After(p, "error", "any")]
    /\ UNCHANGED <<parent, mem, exit_code, exiting>>

\* initproc takes over c from p, which dies; p sees that it is marked.
Adopts(p, c) ==
    /\ p \in Dying /\ c \in Users /\ parent[c] = p
    /\ Moves(Users, InWait, Dying)
    /\ parent' = [parent EXCEPT ![c] = initproc]
    /\ UNCHANGED <<ip, mem, exit_code, exiting>>
Obeys(p) ==
    /\ p \in Users \ Dying /\ exiting[p]
    /\ Moves(Users, InWait \ {p}, Dying \cup {p})
    /\ exit_code' = [exit_code EXCEPT ![p] = "E_KILLED"]
    /\ UNCHANGED <<parent, ip, mem, exiting>>

\* The rest: nothing of this changes.
Rests == Moves(Users, InWait, Dying) /\ UNCHANGED <<parent, ip, mem, exit_code, exiting>>

ProgramStep ==
    \/ \E c \in UserPid : Starts(c) \/ InitReapsIt(c)
    \/ \E p \in Users, c \in UserPid : Forks(p, c) \/ Returns(p, c) \/ Adopts(p, c)
    \/ \E p \in Users : Waits(p) \/ Calls(p) \/ Kills(p) \/ Exits(p) \/ NoneLeft(p) \/ Obeys(p)
    \/ Rests

\* What holds of every step: a process that stays in do_wait keeps its argument, one
\* gets ready for a call only when it is not marked, and init_main does not begin again.
Steady ==
    /\ \A q \in InWait \cap InWait' : wpid'[q] = wpid[q]
    /\ \A q \in Ready' \cap Users : q \in Ready \/ (q \notin InWait /\ ~exiting[q])
    /\ pc'[initproc] = "init_main" => pc[initproc] = "init_main" /\ UNCHANGED <<Users, exit_code>>

\* The current process goes on at w.
LEMMA GoesTo ==
    ASSUME IInv, IInv', hash_list' = hash_list, NEW w \in Place \ {"init_main"}, GoTo(w)
    PROVE  /\ Users' = Users
           /\ InWait' = IF w \in {"do_wait", "wait_woken"} THEN InWait \cup (Users \cap {current})
                                                           ELSE InWait \ {current}
           /\ Dying' = IF w \in {"do_exit", "reparent", "dead"} THEN Dying \cup (Users \cap {current})
                                                                ELSE Dying \ {current}
           /\ Ready' = IF w \in {"user", "exec"} THEN Ready \cup (Users \cap {current})
                                                 ELSE Ready \ {current}
           /\ pc'[initproc] = "init_main" => pc[initproc] = "init_main" /\ current # initproc
<1> USE ProcAssumption
<1>1. TypeOK /\ Control /\ current \in Process /\ initproc \in Process
  BY DEF IInv, TypeOK, Process
<1>2. Users' = Users
  BY DEF Users, IInv, TableAgrees
<1>3. \A p \in Process : pc'[p] = IF p = current THEN w ELSE pc[p]
  BY <1>1 DEF GoTo, TypeOK
<1>4. Users \subseteq Process
  BY DEF Users, Live
<1>5. InWait' = IF w \in {"do_wait", "wait_woken"} THEN InWait \cup (Users \cap {current})
                                                  ELSE InWait \ {current}
  BY <1>2, <1>3, <1>4 DEF InWait
<1>6. Dying' = IF w \in {"do_exit", "reparent", "dead"} THEN Dying \cup (Users \cap {current})
                                                       ELSE Dying \ {current}
  BY <1>2, <1>3, <1>4 DEF Dying
<1>7. Ready' = IF w \in {"user", "exec"} THEN Ready \cup (Users \cap {current})
                                        ELSE Ready \ {current}
  BY <1>2, <1>3, <1>4 DEF Ready
<1> QED BY <1>1, <1>2, <1>3, <1>5, <1>6, <1>7

\* Whose turn it is, from the place.
LEMMA Turn ==
    ASSUME IInv
    PROVE  /\ current \in Process
           /\ pc[current] \in {"user", "exec", "trap_end", "reparent", "dead"} => current \in Users
           /\ pc[current] \in {"do_wait", "wait_woken", "do_exit"} => current \in Users \/ current = initproc
           /\ Users \subseteq UserPid /\ Users = hash_list \cap UserPid
<1> USE ProcAssumption
<1>1. TypeOK /\ Control /\ current \in Process
  BY DEF IInv, TypeOK
<1>2. Users \subseteq UserPid /\ Users = hash_list \cap UserPid
  BY DEF Users, IInv, TableAgrees
<1>3. pc[current] # "none" => state[current] # "UNINIT"
  BY <1>1 DEF Control
<1>4. pc[current] \notin {"none", "idle"} => current \in Live
  BY <1>1, <1>3 DEF Live, Control
<1>5. current = initproc => pc[current] \in {"init_main", "init_loop", "init_end", "do_wait", "wait_woken", "do_exit"}
  BY <1>1 DEF Control
<1>6. current = idleproc => pc[current] = "idle"
  BY <1>1 DEF Control
<1> QED BY <1>1, <1>2, <1>4, <1>5, <1>6 DEF Users, Process

\* A step of the kernel in which no process appears or goes, and no user process
\* leaves do_wait or obeys a kill, leaves the programs alone.
LEMMA KernelKeeps ==
    ASSUME Running, prog # "any", Kernel, hash_list' = hash_list,
           ~(current \in UserPid /\ pc[current] = "do_wait" /\ pc'[current] = "trap_end"),
           ~(current \in UserPid /\ pc[current] \in {"trap_end", "wait_woken"} /\ pc'[current] = "do_exit")
    PROVE  UNCHANGED <<ip, mem, exit_code>>
<1>1. ip' = [p \in UserPid |-> IF p \in hash_list' \ hash_list THEN 1 ELSE ip[p]]
  BY DEF Kernel
<1>2. ip' = ip
  BY <1>1 DEF Running
<1>3. exit_code' = exit_code /\ mem' = mem
  BY DEF Kernel
<1> QED BY <1>2, <1>3

\* A step without any effect on the places.
LEMMA SamePlaces ==
    ASSUME IInv, IInv', Running, UNCHANGED <<hash_list, pc, parent, ip, mem, exit_code, exiting, wpid>>
    PROVE  Rests /\ Steady
<1>1. Users' = Users
  BY DEF Users, IInv, TableAgrees
<1>2. InWait' = InWait /\ Dying' = Dying /\ Ready' = Ready
  BY <1>1 DEF InWait, Dying, Ready
<1> QED BY <1>1, <1>2 DEF Rests, Steady, Moves

\* The kernel's steps that move the current process and are of no concern to a program.
LEMMA QuietKernel ==
    ASSUME IInv, IInv', Running, prog # "any", "icode" \notin Failures, Kernel,
           \/ DoExit \/ ReparentDone \/ InitExit \/ WaitSleep \/ IdleLoop \/ InitMainFails
           \/ InitLoop \/ InitEnd \/ Exec \/ ExecFails \/ Schedule
    PROVE  Rests /\ Steady
<1> USE ProcAssumption
<1>a. TypeOK /\ Control /\ initproc \in Process
  BY DEF IInv, Process
<1>1. CASE InitExit \/ InitMainFails \/ IdleLoop \/ Schedule
  <2>1. UNCHANGED <<hash_list, pc, parent, exiting, wpid>>
    BY <1>1 DEF InitExit, InitMainFails, IdleLoop, Schedule, Die, family, table, status
  <2>2. ~(pc[current] = "do_wait" /\ pc'[current] = "trap_end")
        /\ ~(pc[current] \in {"trap_end", "wait_woken"} /\ pc'[current] = "do_exit")
    BY <2>1
  <2> QED BY <2>1, <2>2, KernelKeeps, SamePlaces
<1>2. CASE DoExit \/ ReparentDone
  <2>1. UNCHANGED <<hash_list, parent, exiting, wpid>>
    BY <1>2 DEF DoExit, ReparentDone, family, table, status
  <2>2. PICK w \in {"reparent", "dead"} : GoTo(w)
    BY <1>2 DEF DoExit, ReparentDone
  <2>3. pc[current] \in {"do_exit", "reparent"} /\ current # initproc
    BY <1>2, <1>a DEF DoExit, ReparentDone, At, Control
  <2>4. pc'[current] = w
    BY <2>2, <1>a, Turn DEF GoTo, TypeOK
  <2>5. UNCHANGED <<ip, mem, exit_code>>
    BY <2>1, <2>2, <2>3, <2>4, KernelKeeps
  <2>6. current \in Dying /\ current \notin InWait /\ current \notin Ready
    BY <2>3, Turn DEF Dying, InWait, Ready
  <2>7. w \in Place \ {"init_main"}
    BY <2>2 DEF Place
  <2>8. Users' = Users /\ InWait' = InWait /\ Dying' = Dying /\ Ready' = Ready
        /\ (pc'[initproc] = "init_main" => pc[initproc] = "init_main")
    BY <2>1, <2>2, <2>6, <2>7, GoesTo
  <2> QED BY <2>1, <2>5, <2>8 DEF Rests, Steady, Moves
<1>3. CASE WaitSleep
  <2>1. UNCHANGED <<hash_list, parent, exiting, wpid>> /\ GoTo("wait_woken") /\ pc[current] = "do_wait"
    BY <1>3 DEF WaitSleep, At, family, table
  <2>2. pc'[current] = "wait_woken"
    BY <2>1, <1>a, Turn DEF GoTo, TypeOK
  <2>3. UNCHANGED <<ip, mem, exit_code>>
    BY <2>1, <2>2, KernelKeeps
  <2>4. current \in Users => current \in InWait /\ current \notin Dying /\ current \notin Ready
    BY <2>1 DEF Dying, InWait, Ready
  <2>5. Users' = Users /\ InWait' = InWait /\ Dying' = Dying /\ Ready' = Ready
        /\ (pc'[initproc] = "init_main" => pc[initproc] = "init_main")
    <3>1. "wait_woken" \in Place \ {"init_main"}
      BY DEF Place
    <3>2. current \notin Users => current \notin Dying /\ current \notin Ready
      BY DEF Dying, Ready
    <3> QED BY <2>1, <2>4, <3>1, <3>2, GoesTo
  <2> QED BY <2>1, <2>3, <2>5 DEF Rests, Steady, Moves
<1>4. CASE InitLoop \/ InitEnd
  <2>1. UNCHANGED <<hash_list, parent, exiting, wpid>>
    BY <1>4 DEF InitLoop, InitEnd, family, table, status
  <2>2. PICK w \in {"do_wait", "do_exit"} : GoTo(w)
    BY <1>4 DEF InitLoop, InitEnd
  <2>3. pc[current] \in {"init_loop", "init_end"} /\ current = initproc
    BY <1>4, <1>a, Turn DEF InitLoop, InitEnd, At, Control
  <2>4. current \notin Users /\ current \notin Dying /\ current \notin InWait /\ current \notin Ready
    BY <2>3 DEF Users, Dying, InWait, Ready
  <2>5. UNCHANGED <<ip, mem, exit_code>>
    BY <2>1, <2>3, KernelKeeps
  <2>6. Users' = Users /\ InWait' = InWait /\ Dying' = Dying /\ Ready' = Ready
        /\ (pc'[initproc] = "init_main" => pc[initproc] = "init_main")
    <3>1. w \in Place \ {"init_main"}
      BY <2>2 DEF Place
    <3> QED BY <2>1, <2>2, <2>4, <3>1, GoesTo
  <2> QED BY <2>1, <2>5, <2>6 DEF Rests, Steady, Moves
<1>5. CASE Exec
  <2>1. UNCHANGED <<hash_list, parent, exiting, wpid>> /\ GoTo("user") /\ pc[current] = "exec"
    BY <1>5 DEF Exec, At, family, table, status
  <2>2. current \in Users /\ current \in Ready /\ current \notin Dying /\ current \notin InWait
    BY <2>1, Turn DEF Ready, Dying, InWait
  <2>3. UNCHANGED <<ip, mem, exit_code>>
    BY <2>1, KernelKeeps
  <2>4. Users' = Users /\ InWait' = InWait /\ Dying' = Dying /\ Ready' = Ready
        /\ (pc'[initproc] = "init_main" => pc[initproc] = "init_main")
    <3>1. "user" \in Place \ {"init_main"}
      BY DEF Place
    <3> QED BY <2>1, <2>2, <3>1, GoesTo
  <2> QED BY <2>1, <2>3, <2>4 DEF Rests, Steady, Moves
<1>6. CASE ExecFails
  BY <1>6 DEF ExecFails
<1> QED BY <1>1, <1>2, <1>3, <1>4, <1>5, <1>6

\* A process that is marked obeys at the end of a trap, or when it comes back from
\* its sleep in do_wait.
LEMMA ObeyKernel ==
    ASSUME IInv, IInv', Running, prog # "any", Kernel, WaitWoken \/ TrapEnd
    PROVE  ProgramStep /\ Steady
<1> USE ProcAssumption
<1>a. TypeOK /\ Control /\ initproc \in Process /\ current \in Process
  BY DEF IInv, Process, TypeOK
<1>1. UNCHANGED <<hash_list, parent, exiting, wpid>>
  BY DEF WaitWoken, TrapEnd, family, table, status
<1>2. PICK w \in {"do_exit", "do_wait", "user"} :
        /\ GoTo(w)
        /\ w = "do_exit" => exiting[current]
        /\ w = "user" => ~exiting[current] /\ pc[current] = "trap_end"
        /\ w = "do_wait" => pc[current] = "wait_woken"
  BY DEF WaitWoken, TrapEnd, At
<1>3. pc[current] \in {"trap_end", "wait_woken"} /\ pc'[current] = w
  BY <1>2, <1>a DEF WaitWoken, TrapEnd, At, GoTo, TypeOK
<1>4. w \in Place \ {"init_main"}
  BY <1>2 DEF Place
<1>5. /\ Users' = Users
      /\ InWait' = IF w = "do_wait" THEN InWait \cup (Users \cap {current}) ELSE InWait \ {current}
      /\ Dying' = IF w = "do_exit" THEN Dying \cup (Users \cap {current}) ELSE Dying \ {current}
      /\ Ready' = IF w = "user" THEN Ready \cup (Users \cap {current}) ELSE Ready \ {current}
      /\ pc'[initproc] = "init_main" => pc[initproc] = "init_main" /\ current # initproc
  BY <1>1, <1>2, <1>4, GoesTo
<1>6. current \in Users \/ current = initproc
  BY <1>3, Turn
<1>7. Users \subseteq UserPid /\ Dying \subseteq Users /\ InWait \subseteq Users
  BY Turn DEF Dying, InWait
<1>8. current \notin Dying /\ (pc[current] = "trap_end" => current \notin InWait)
  BY <1>3 DEF Dying, InWait
<1>9. CASE w = "do_exit" /\ current \in Users
  <2>1. mem' = mem /\ ip' = ip /\ exit_code' = [exit_code EXCEPT ![current] = "E_KILLED"]
    <3>1. exit_code' = [exit_code EXCEPT ![current] = "E_KILLED"] /\ mem' = mem
      BY <1>3, <1>9, <1>7 DEF Kernel
    <3>2. ip' = [p \in UserPid |-> IF p \in hash_list' \ hash_list THEN 1 ELSE ip[p]]
      BY <1>3, <1>9 DEF Kernel
    <3> QED BY <1>1, <3>1, <3>2 DEF Running
  <2>2. Obeys(current)
    BY <1>1, <1>2, <1>5, <1>8, <1>9, <2>1 DEF Obeys, Moves
  <2>3. Steady
    <3>1. pc[initproc] # "init_main"
      BY <1>9 DEF Running
    <3> QED BY <1>1, <1>5, <1>9, <3>1 DEF Steady
  <2> QED BY <1>9, <2>2, <2>3 DEF ProgramStep
<1>10. CASE ~(w = "do_exit" /\ current \in Users)
  <2>1. UNCHANGED <<ip, mem, exit_code>>
    <3>1. ~(current \in UserPid /\ pc[current] \in {"trap_end", "wait_woken"} /\ pc'[current] = "do_exit")
      BY <1>3, <1>6, <1>10
    <3>2. ~(current \in UserPid /\ pc[current] = "do_wait" /\ pc'[current] = "trap_end")
      BY <1>3
    <3> QED BY <1>1, <3>1, <3>2, KernelKeeps
  <2>2. w = "do_wait" /\ current \in Users => current \in InWait
    BY <1>2 DEF InWait
  <2>3. InWait' = InWait /\ Dying' = Dying
    BY <1>2, <1>3, <1>5, <1>6, <1>7, <1>8, <1>10, <2>2
  <2>4. Rests
    BY <1>1, <1>5, <2>1, <2>3 DEF Rests, Moves
  <2>5. Steady
    BY <1>1, <1>2, <1>5, <1>8, <2>1 DEF Steady
  <2> QED BY <2>4, <2>5 DEF ProgramStep
<1> QED BY <1>9, <1>10

\* do_wait finds no child.
LEMMA NoneKernel ==
    ASSUME IInv, IInv', Running, prog # "any", Kernel, WaitNoChild
    PROVE  ProgramStep /\ Steady
<1> USE ProcAssumption
<1>a. TypeOK /\ Control /\ initproc \in Process /\ current \in Process
  BY DEF IInv, Process, TypeOK
<1>1. UNCHANGED <<hash_list, parent, exiting>> /\ pc[current] = "do_wait"
      /\ wpid' = [wpid EXCEPT ![current] = ANY]
      /\ GoTo(IF current = initproc THEN "init_end" ELSE "trap_end")
  BY DEF WaitNoChild, At, family, table, status
<1>2. pc'[current] = IF current = initproc THEN "init_end" ELSE "trap_end"
  BY <1>1, <1>a DEF GoTo, TypeOK
<1>3. /\ Users' = Users /\ InWait' = InWait \ {current} /\ Dying' = Dying \ {current}
      /\ Ready' = Ready \ {current}
      /\ pc'[initproc] = "init_main" => pc[initproc] = "init_main" /\ current # initproc
  <2>1. CASE current = initproc
    <3>1. GoTo("init_end") /\ "init_end" \in Place \ {"init_main"}
      BY <1>1, <2>1 DEF Place
    <3> QED BY <1>1, <3>1, GoesTo
  <2>2. CASE current # initproc
    <3>1. GoTo("trap_end") /\ "trap_end" \in Place \ {"init_main"}
      BY <1>1, <2>2 DEF Place
    <3> QED BY <1>1, <3>1, GoesTo
  <2> QED BY <2>1, <2>2
<1>4. current \notin Dying /\ Users \subseteq UserPid
  BY <1>1, Turn DEF Dying
<1>5. \A q \in InWait : q # current => wpid'[q] = wpid[q]
  <2>1. InWait \subseteq Process
    BY DEF InWait, Users, Live
  <2> QED BY <1>1, <1>a, <2>1 DEF TypeOK
<1>6. CASE current = initproc
  <2>1. UNCHANGED <<ip, mem, exit_code>>
    BY <1>1, <1>2, <1>6, KernelKeeps
  <2>2. current \notin InWait
    BY <1>4, <1>6 DEF InWait
  <2>3. Rests
    BY <1>1, <1>3, <1>4, <2>1, <2>2 DEF Rests, Moves
  <2>4. Steady
    BY <1>3, <1>5, <2>1 DEF Steady
  <2> QED BY <2>3, <2>4 DEF ProgramStep
<1>7. CASE current # initproc
  <2>1. current \in Users /\ current \in InWait
    BY <1>1, <1>7, Turn DEF InWait
  <2>2. ip' = [ip EXCEPT ![current] = After(current, "error", "any")]
        /\ mem' = mem /\ exit_code' = exit_code
    <3>1. hash_list \ hash_list' = {}
      BY <1>1
    <3>2. prog # "any" /\ current \in UserPid /\ pc[current] = "do_wait" /\ pc'[current] = "trap_end"
      BY <1>1, <1>2, <1>4, <1>7, <2>1
    <3> QED BY <3>1, <3>2 DEF Kernel
  <2>3. \A q \in Users : parent[q] = current => wpid[current] \notin {ANY, q}
    <3>1. Waited(current) = {} /\ Waited(current) = Wanted(current)
      BY <1>a, WaitedIsWanted DEF WaitNoChild, IInv
    <3> QED BY <3>1 DEF Wanted, Users, Live
  <2>4. NoneLeft(current)
    BY <1>1, <1>3, <1>4, <2>1, <2>2, <2>3 DEF NoneLeft, Moves
  <2>5. Steady
    <3>1. pc[initproc] # "init_main"
      BY <2>1 DEF Running
    <3> QED BY <1>3, <1>5, <3>1 DEF Steady
  <2> QED BY <2>1, <2>4, <2>5 DEF ProgramStep
<1> QED BY <1>6, <1>7

\* do_wait finds z.
LEMMA ReapKernel ==
    ASSUME IInv, IInv', Running, prog # "any", Kernel, WaitReap
    PROVE  ProgramStep /\ Steady
<1> USE ProcAssumption
<1>a. TypeOK /\ Control /\ initproc \in Process /\ current \in Process
  BY DEF IInv, Process, TypeOK
<1>1. PICK z \in Process :
        /\ pc[current] = "do_wait"
        /\ Found(z) /\ hash_list' = hash_list \ {z}
        /\ parent' = [parent EXCEPT ![z] = NULL] /\ exiting' = [exiting EXCEPT ![z] = FALSE]
        /\ wpid' = [wpid EXCEPT ![z] = ANY, ![current] = ANY]
        /\ pc' = [pc EXCEPT ![z] = "none",
                            ![current] = IF current = initproc THEN "init_loop" ELSE "trap_end"]
  BY DEF WaitReap, At
<1>2. state[z] = "ZOMBIE" /\ parent[z] = current /\ wpid[current] \in {ANY, z} /\ z # current
  <2>1. z \in Wanted(current)
    BY <1>1, <1>a, WaitedIsWanted DEF Found, IInv
  <2> QED BY <1>1, <2>1 DEF Found, Wanted, IInv, Kinship
<1>3. pc[z] \in {"reparent", "dead"} /\ z \in Users /\ z \in Dying /\ z \notin InWait /\ z \notin Ready
  <2>1. pc[z] \in {"reparent", "dead"} /\ z \notin {initproc, idleproc}
    BY <1>2, <1>a DEF Control
  <2> QED BY <1>2, <2>1 DEF Users, Live, Dying, InWait, Ready, Process
<1>4. \A q \in Process : parent[q] # z
  <2>1. pc[z] # "reparent"
    BY <1>a, <1>2 DEF Control
  <2> QED BY <1>2, <2>1, DeadHaveNoChildren
<1>5. Users' = Users \ {z}
  BY <1>1, Turn DEF IInv, TableAgrees, Users
<1>6. \A p \in Process : pc'[p] = IF p = current THEN IF current = initproc THEN "init_loop" ELSE "trap_end"
                                  ELSE IF p = z THEN "none" ELSE pc[p]
  BY <1>1, <1>2, <1>a DEF TypeOK
<1>7. Users \subseteq Process /\ Users \subseteq UserPid
  BY DEF Users, Live
<1>8. InWait' = InWait \ {current} /\ Dying' = Dying \ {z} /\ Ready' = Ready
  <2>1. \A p \in Users \ {z, current} : pc'[p] = pc[p]
    BY <1>6, <1>7
  <2>2. pc'[current] \notin {"do_wait", "wait_woken", "do_exit", "reparent", "dead", "user", "exec"}
    BY <1>6, <1>a
  <2>3. current \notin Dying /\ current \notin Ready
    BY <1>1 DEF Dying, Ready
  <2> QED BY <1>3, <1>5, <2>1, <2>2, <2>3 DEF InWait, Dying, Ready
<1>9. \A q \in InWait : q # current => wpid'[q] = wpid[q]
  BY <1>1, <1>3, <1>7, <1>a DEF TypeOK, InWait
<1>10. mem' = mem /\ exit_code' = exit_code
  BY <1>1 DEF Kernel
<1>11. hash_list \ hash_list' = {z} /\ hash_list' \ hash_list = {}
  BY <1>1, <1>3, Turn
<1>12. pc'[initproc] # "init_main"
  <2>1. pc[initproc] # "init_main"
    BY <1>3 DEF Running
  <2> QED BY <1>6, <1>a, <2>1
<1>13. Leaves(z, InWait \ {current})
  BY <1>1, <1>3, <1>4, <1>5, <1>8, <1>10 DEF Leaves, Moves
<1>14. Steady
  BY <1>8, <1>9, <1>12 DEF Steady
<1>15. CASE current = initproc
  <2>1. ip' = ip
    <3>1. ip' = [p \in UserPid |-> IF p \in hash_list' \ hash_list THEN 1 ELSE ip[p]]
      BY <1>15 DEF Kernel
    <3> QED BY <1>11, <3>1 DEF Running
  <2>2. current \notin InWait
    BY <1>7, <1>15 DEF InWait
  <2>3. InitReapsIt(z)
    BY <1>2, <1>13, <1>15, <2>1, <2>2 DEF InitReapsIt
  <2> QED BY <1>3, <1>7, <1>14, <2>3 DEF ProgramStep
<1>16. CASE current # initproc
  <2>1. current \in Users /\ current \in InWait
    BY <1>1, <1>16, Turn DEF InWait
  <2>2. ip' = [ip EXCEPT ![current] = After(current, "0", exit_code[z])]
    <3>1. prog # "any" /\ current \in UserPid /\ pc[current] = "do_wait" /\ pc'[current] = "trap_end"
      BY <1>1, <1>6, <1>7, <1>16, <1>a, <2>1
    <3>2. (CHOOSE x \in {z} : TRUE) = z
      OBVIOUS
    <3> QED BY <1>11, <3>1, <3>2 DEF Kernel
  <2>3. Returns(current, z)
    BY <1>2, <1>13, <2>1, <2>2 DEF Returns
  <2> QED BY <1>3, <1>7, <1>14, <2>1, <2>3 DEF ProgramStep
<1> QED BY <1>15, <1>16

\* initproc inherits a child of a process that dies.
LEMMA AdoptKernel ==
    ASSUME IInv, IInv', Running, prog # "any", Kernel, ReparentChild
    PROVE  ProgramStep /\ Steady
<1> USE ProcAssumption
<1>a. TypeOK /\ Control /\ initproc \in Process /\ current \in Process
  BY DEF IInv, Process, TypeOK
<1>1. /\ pc[current] = "reparent" /\ cptr[current] # NULL
      /\ parent' = [parent EXCEPT ![cptr[current]] = initproc]
      /\ UNCHANGED <<hash_list, pc, exiting, wpid>>
  BY DEF ReparentChild, At, table
<1>2. current \in Users /\ current \in Dying /\ current \in UserPid
  BY <1>1, Turn DEF Dying
<1>3. /\ cptr[current] \in Process /\ parent[cptr[current]] = current
      /\ cptr[current] \in Live
  <2>1. cptr[current] \in Process
    BY <1>1, <1>a DEF TypeOK, Ptr, Process
  <2>2. parent[cptr[current]] = current
    BY <1>1, <1>a DEF IInv, FamilyLinks
  <2>3. parent[cptr[current]] # NULL
    BY <1>a, <2>2 DEF Process
  <2> QED BY <2>1, <2>2, <2>3 DEF IInv, FamilyLinks
<1>4. cptr[current] \in Users /\ cptr[current] \in UserPid
  <2>1. parent[initproc] = idleproc
    BY DEF IInv, Kinship
  <2>2. cptr[current] # initproc
    BY <1>2, <1>3, <2>1
  <2> QED BY <1>3, <2>2 DEF Users, Live, Process
<1>5. UNCHANGED <<ip, mem, exit_code>>
  BY <1>1, KernelKeeps
<1>6. Users' = Users
  BY <1>1 DEF Users, IInv, TableAgrees
<1>7. InWait' = InWait /\ Dying' = Dying /\ Ready' = Ready
  BY <1>1, <1>6 DEF InWait, Dying, Ready
<1>8. Adopts(current, cptr[current])
  BY <1>1, <1>2, <1>3, <1>4, <1>5, <1>6, <1>7 DEF Adopts, Moves
<1>9. Steady
  BY <1>1, <1>5, <1>6, <1>7 DEF Steady
<1> QED BY <1>2, <1>4, <1>8, <1>9 DEF ProgramStep

\* The places after do_fork has made c.
LEMMA ForkedPlaces ==
    ASSUME IInv, IInv', NEW c \in UserPid, NEW start \in {"user", "exec"}, Forked(c, start),
           pc[current] \in {"user", "init_main"}
    PROVE  /\ c \notin Users /\ c # current
           /\ Moves(Users \cup {c}, InWait, Dying)
           /\ Ready' \subseteq Ready \cup {c}
           /\ hash_list' \ hash_list = {c} /\ hash_list \ hash_list' = {}
           /\ parent' = [parent EXCEPT ![c] = current]
           /\ UNCHANGED <<exiting, wpid, current>>
           /\ pc'[initproc] # "init_main" \/ (pc[initproc] = "init_main" /\ current # initproc)
<1> USE ProcAssumption
<1>a. TypeOK /\ Control /\ initproc \in Process /\ current \in Process /\ c \in Process
  BY DEF IInv, Process, TypeOK
<1>1. /\ state[c] = "UNINIT" /\ hash_list' = hash_list \cup {c}
      /\ parent' = [parent EXCEPT ![c] = current]
      /\ pc' = [pc EXCEPT ![c] = start,
                          ![current] = IF @ = "user" THEN "trap_end" ELSE "do_wait"]
      /\ UNCHANGED <<exiting, wpid, current>>
  BY DEF Forked, cpu
<1>2. pc[c] = "none" /\ c # current /\ c \notin Live /\ c # initproc
  BY <1>1, <1>a DEF Control, Live
<1>3. \A p \in Process : pc'[p] = IF p = current THEN IF pc[p] = "user" THEN "trap_end" ELSE "do_wait"
                                  ELSE IF p = c THEN start ELSE pc[p]
  BY <1>1, <1>2, <1>a DEF TypeOK
<1>4. c \notin Users /\ Users' = Users \cup {c} /\ c \notin hash_list
  BY <1>1, <1>2, Turn DEF Users, IInv, TableAgrees
<1>5. current \in Users => pc[current] = "user"
  BY <1>a DEF Users, Control
<1>6. Users \subseteq Process
  BY DEF Users, Live
<1>7. current \notin InWait /\ current \notin Dying
  BY DEF InWait, Dying
<1>8. \A p \in Users \ {current} : pc'[p] = pc[p]
  BY <1>3, <1>4, <1>6
<1>9. pc'[c] = start /\ (current \in Users => pc'[current] = "trap_end")
  BY <1>3, <1>2, <1>5, <1>a
<1>10. InWait' = InWait /\ Dying' = Dying /\ Ready' \subseteq Ready \cup {c}
  BY <1>4, <1>7, <1>8, <1>9 DEF InWait, Dying, Ready
<1>11. pc'[initproc] # "init_main" \/ (pc[initproc] = "init_main" /\ current # initproc)
  BY <1>2, <1>3, <1>a
<1> QED BY <1>1, <1>2, <1>4, <1>10, <1>11 DEF Moves

\* init_main creates the main process.
LEMMA StartKernel ==
    ASSUME IInv, IInv', Running, prog # "any", Kernel, InitMain
    PROVE  ProgramStep /\ Steady
<1> USE ProcAssumption
<1>1. PICK c \in UserPid : Forked(c, "exec")
  BY DEF InitMain
<1>2. pc[current] = "init_main" /\ current = initproc /\ initproc \in Process
  BY DEF InitMain, At, IInv, Control, TypeOK, Process
<1>3. /\ c \notin Users /\ c # current
      /\ Moves(Users \cup {c}, InWait, Dying)
      /\ Ready' \subseteq Ready \cup {c}
      /\ hash_list' \ hash_list = {c}
      /\ parent' = [parent EXCEPT ![c] = current]
      /\ UNCHANGED <<exiting, wpid, current>>
      /\ pc'[initproc] # "init_main"
  BY <1>1, <1>2, ForkedPlaces
<1>4. Users = {} /\ exit_code[c] = "0"
  BY <1>2 DEF Running
<1>5. InWait = {} /\ Dying = {}
  BY <1>4 DEF InWait, Dying
<1>6. ip' = [p \in UserPid |-> IF p = c THEN 1 ELSE ip[p]]
  <2>1. ip' = [p \in UserPid |-> IF p \in hash_list' \ hash_list THEN 1 ELSE ip[p]]
    BY <1>2 DEF Kernel
  <2> QED BY <1>3, <2>1
<1>7. mem' = mem /\ exit_code' = exit_code
  BY <1>2 DEF Kernel
<1>8. Starts(c)
  BY <1>2, <1>3, <1>4, <1>5, <1>6, <1>7 DEF Starts, Moves
<1>9. Steady
  BY <1>3, <1>4, <1>5 DEF Steady
<1> QED BY <1>8, <1>9 DEF ProgramStep

\* The timer, the monitor after a panic and steps of others.
LEMMA TickKind ==
    ASSUME IInv, IInv', Running, UNCHANGED uservars, Tick \/ Halted \/ UNCHANGED vars
    PROVE  ProgramStep /\ Steady
<1> USE ProcAssumption
<1>a. TypeOK /\ Control /\ initproc \in Process /\ current \in Process
  BY DEF IInv, Process, TypeOK
<1>1. UNCHANGED <<hash_list, parent, exiting, wpid, ip, mem, exit_code>>
  BY DEF Tick, Halted, vars, family, table, status, uservars
<1>2. CASE pc' = pc
  BY <1>1, <1>2, SamePlaces DEF ProgramStep
<1>3. CASE pc' # pc
  <2>1. pc[current] = "user" /\ GoTo("trap_end")
    <3>1. pc' = [pc EXCEPT ![current] = IF @ = "user" THEN "trap_end" ELSE @]
      BY <1>3 DEF Tick, Halted, vars
    <3>2. pc[current] = "user"
      BY <1>3, <1>a, <3>1 DEF TypeOK
    <3> QED BY <3>1, <3>2 DEF GoTo
  <2>2. "trap_end" \in Place \ {"init_main"}
    BY DEF Place
  <2>3. current \notin InWait /\ current \notin Dying
    BY <2>1 DEF InWait, Dying
  <2>4. /\ Users' = Users /\ InWait' = InWait /\ Dying' = Dying /\ Ready' \subseteq Ready
        /\ pc'[initproc] = "init_main" => pc[initproc] = "init_main"
    BY <1>1, <2>1, <2>2, <2>3, GoesTo
  <2>5. Rests /\ Steady
    BY <1>1, <2>4 DEF Rests, Steady, Moves
  <2> QED BY <2>5 DEF ProgramStep
<1> QED BY <1>2, <1>3

\* What the calls have in common: the current process is ready.
LEMMA Caller ==
    ASSUME IInv, Running, UserCall
    PROVE  /\ current \in Ready /\ current \in Users /\ current \in UserPid
           /\ current \notin InWait /\ current \notin Dying
           /\ pc[current] = "user" /\ pc[initproc] # "init_main"
<1>1. pc[current] = "user"
  BY DEF UserCall, At
<1>2. current \in Users /\ current \in UserPid
  BY <1>1, Turn
<1> QED BY <1>1, <1>2 DEF Ready, InWait, Dying, Running

\* A call that ends the trap, or goes on in do_wait or do_exit.
LEMMA CallGoes ==
    ASSUME IInv, IInv', Running, UserCall, hash_list' = hash_list,
           NEW w \in {"trap_end", "do_wait", "do_exit"}, GoTo(w)
    PROVE  /\ Users' = Users
           /\ InWait' = IF w = "do_wait" THEN InWait \cup {current} ELSE InWait
           /\ Dying' = IF w = "do_exit" THEN Dying \cup {current} ELSE Dying
           /\ Ready' \subseteq Ready
           /\ pc'[initproc] # "init_main"
<1>1. w \in Place \ {"init_main"}
  BY DEF Place
<1> QED BY <1>1, Caller, GoesTo

\* Every call of a program is one of the steps above.
LEMMA CallKinds ==
    ASSUME IInv, IInv', Running, UserCall
    PROVE  ProgramStep /\ Steady
<1> USE ProcAssumption
<1>a. /\ current \in Ready /\ current \in Users /\ current \in UserPid
      /\ current \notin InWait /\ current \notin Dying
      /\ pc[current] = "user" /\ pc[initproc] # "init_main"
  BY Caller
<1>b. TypeOK /\ current \in Process /\ Users \subseteq Process /\ InWait \subseteq Process
  BY DEF IInv, TypeOK, Users, Live, InWait
<1>1. CASE ForkCall
  <2>1. PICK c \in UserPid :
          /\ SysFork /\ c \in hash_list' \ hash_list
          /\ ip' = [ip EXCEPT ![current] = After(current, "pid", "any"), ![c] = Call(current).child]
          /\ mem' = [mem EXCEPT ![current][Call(current).var] = c, ![c] = mem[current]]
          /\ exit_code' = [exit_code EXCEPT ![c] = "0"]
    BY <1>1 DEF ForkCall
  <2>2. PICK d \in UserPid : Forked(d, "user")
    BY <2>1 DEF SysFork
  <2>3. /\ d \notin Users
        /\ Moves(Users \cup {d}, InWait, Dying)
        /\ Ready' \subseteq Ready \cup {d}
        /\ hash_list' \ hash_list = {d}
        /\ parent' = [parent EXCEPT ![d] = current]
        /\ UNCHANGED <<exiting, wpid>>
        /\ pc'[initproc] # "init_main"
    BY <2>2, <1>a, ForkedPlaces
  <2>4. d = c
    BY <2>1, <2>3
  <2>5. Forks(current, c)
    BY <1>1, <1>a, <2>1, <2>3, <2>4 DEF Forks, ForkCall
  <2>6. Steady
    BY <2>3 DEF Steady
  <2> QED BY <1>a, <2>5, <2>6 DEF ProgramStep
<1>2. CASE WaitCall /\ Call(current).store = "kernel"
  <2>1. /\ OtherTrap /\ Call(current).op = "wait"
        /\ ip' = [ip EXCEPT ![current] = After(current, "error", "any")]
        /\ UNCHANGED <<mem, exit_code>>
    BY <1>2 DEF WaitCall
  <2>2. GoTo("trap_end") /\ UNCHANGED <<hash_list, parent, exiting, wpid>>
    BY <2>1 DEF OtherTrap, family, table, status
  <2>3. /\ Users' = Users /\ InWait' = InWait /\ Dying' = Dying
        /\ Ready' \subseteq Ready /\ pc'[initproc] # "init_main"
    BY <2>2, CallGoes
  <2>4. Calls(current)
    BY <1>2, <1>a, <2>1, <2>2, <2>3 DEF Calls, Moves
  <2>5. Steady
    BY <2>2, <2>3 DEF Steady
  <2> QED BY <1>a, <2>4, <2>5 DEF ProgramStep
<1>3. CASE WaitCall /\ Call(current).store # "kernel"
  <2>1. /\ SysWait /\ Call(current).op = "wait" /\ wpid'[current] = Pid(current, Call(current).var)
        /\ UNCHANGED <<ip, mem, exit_code>>
    BY <1>3 DEF WaitCall
  <2>2. GoTo("do_wait") /\ UNCHANGED <<hash_list, parent, exiting>>
        /\ \E w \in Process : wpid' = [wpid EXCEPT ![current] = w]
    BY <2>1 DEF SysWait, family, table, status, ANY, Process
  <2>3. /\ Users' = Users /\ InWait' = InWait \cup {current} /\ Dying' = Dying
        /\ Ready' \subseteq Ready /\ pc'[initproc] # "init_main"
    BY <2>2, CallGoes
  <2>4. Waits(current)
    BY <1>3, <1>a, <2>1, <2>2, <2>3 DEF Waits, Moves
  <2>5. \A q \in InWait : wpid'[q] = wpid[q]
    BY <1>a, <1>b, <2>2 DEF TypeOK
  <2>6. Steady
    BY <2>3, <2>5 DEF Steady
  <2> QED BY <1>a, <2>4, <2>6 DEF ProgramStep
<1>4. CASE KillCall
  <2> DEFINE q == Pid(current, Call(current).var)
             ok == find_proc(q) /\ ~exiting[q]
  <2>1. /\ SysKill /\ Call(current).op = "kill"
        /\ exiting' = IF ok THEN [exiting EXCEPT ![q] = TRUE] ELSE exiting
        /\ ip' = [ip EXCEPT ![current] = AfterKill(current, IF ok THEN "0" ELSE "error")]
        /\ UNCHANGED <<mem, exit_code>>
    BY <1>4 DEF KillCall
  <2>2. GoTo("trap_end") /\ UNCHANGED <<hash_list, parent, wpid>>
    BY <2>1 DEF SysKill, family, table
  <2>3. /\ Users' = Users /\ InWait' = InWait /\ Dying' = Dying
        /\ Ready' \subseteq Ready /\ pc'[initproc] # "init_main"
    BY <2>2, CallGoes
  <2>4. ok <=> q \in Live /\ ~exiting[q]
    BY DEF find_proc, IInv, TableAgrees
  <2>5. Kills(current)
    BY <1>a, <2>1, <2>2, <2>3, <2>4 DEF Kills, Moves
  <2>6. Steady
    BY <2>2, <2>3 DEF Steady
  <2> QED BY <1>a, <2>5, <2>6 DEF ProgramStep
<1>5. CASE YieldCall \/ GetPidCall
  <2>1. GoTo("trap_end") /\ UNCHANGED <<hash_list, parent, exiting, wpid, exit_code>>
    BY <1>5 DEF YieldCall, GetPidCall, SysYield, OtherTrap, family, table, status
  <2>2. /\ Users' = Users /\ InWait' = InWait /\ Dying' = Dying
        /\ Ready' \subseteq Ready /\ pc'[initproc] # "init_main"
    BY <2>1, CallGoes
  <2>3. Calls(current)
    BY <1>5, <1>a, <2>1, <2>2 DEF Calls, Moves, YieldCall, GetPidCall
  <2>4. Steady
    BY <2>1, <2>2 DEF Steady
  <2> QED BY <1>a, <2>3, <2>4 DEF ProgramStep
<1>6. CASE ExitCall
  <2>1. GoTo("do_exit") /\ UNCHANGED <<hash_list, parent, exiting, wpid, ip, mem>>
    BY <1>6 DEF ExitCall, SysExit, family, table, status
  <2>2. /\ Users' = Users /\ InWait' = InWait /\ Dying' = Dying \cup {current}
        /\ Ready' \subseteq Ready /\ pc'[initproc] # "init_main"
    BY <2>1, CallGoes
  <2>3. Exits(current)
    BY <1>6, <1>a, <2>1, <2>2 DEF Exits, Moves, ExitCall
  <2>4. Steady
    BY <2>1, <2>2 DEF Steady
  <2> QED BY <1>a, <2>3, <2>4 DEF ProgramStep
<1>7. CASE Fault
  <2>1. UNCHANGED <<hash_list, pc, parent, ip, mem, exit_code, exiting, wpid>>
    BY <1>7 DEF Fault, FatalTrap, Die, family, table, status
  <2> QED BY <2>1, SamePlaces DEF ProgramStep
<1> QED BY <1>1, <1>2, <1>3, <1>4, <1>5, <1>6, <1>7 DEF UserCall

\* Every step is one of them.
LEMMA StepKinds ==
    ASSUME IInv, IInv', Running, prog # "any", "icode" \notin Failures, [PNext]_allvars
    PROVE  ProgramStep /\ Steady /\ prog' = prog
<1>1. CASE UserCall
  BY <1>1, CallKinds DEF UserCall
<1>2. CASE AnyCall
  BY <1>2 DEF AnyCall
<1>3. CASE Kernel
  <2>1. prog' = prog
    BY <1>3 DEF Kernel
  <2>2. CASE ReparentChild
    BY <1>3, <2>1, <2>2, AdoptKernel
  <2>3. CASE WaitReap
    BY <1>3, <2>1, <2>3, ReapKernel
  <2>4. CASE WaitNoChild
    BY <1>3, <2>1, <2>4, NoneKernel
  <2>5. CASE WaitWoken \/ TrapEnd
    BY <1>3, <2>1, <2>5, ObeyKernel
  <2>6. CASE InitMain
    BY <1>3, <2>1, <2>6, StartKernel
  <2>7. CASE \/ DoExit \/ ReparentDone \/ InitExit \/ WaitSleep \/ IdleLoop \/ InitMainFails
             \/ InitLoop \/ InitEnd \/ Exec \/ ExecFails \/ Schedule
    BY <1>3, <2>1, <2>7, QuietKernel DEF ProgramStep
  <2>8. KernelStep
    BY <1>3 DEF Kernel
  <2> QED BY <2>2, <2>3, <2>4, <2>5, <2>6, <2>7, <2>8 DEF KernelStep
<1>4. CASE (Tick \/ Halted) /\ UNCHANGED uservars
  BY <1>4, TickKind DEF uservars
<1>5. CASE UNCHANGED allvars
  BY <1>5, TickKind DEF allvars, uservars
<1> QED BY <1>1, <1>2, <1>3, <1>4, <1>5 DEF PNext

\* The groups of user processes.
LEMMA Apart ==
    /\ Ready \subseteq Users /\ InWait \subseteq Users /\ Dying \subseteq Users
    /\ Users \subseteq UserPid /\ UserPid \subseteq Process
    /\ \A p \in Ready : p \notin InWait /\ p \notin Dying
    /\ \A p \in InWait : p \notin Dying
BY DEF Ready, InWait, Dying, Users, Process

\* What the steps leave to a process in do_wait and to one that dies.
LEMMA StepFrame ==
    ASSUME IInv, Running, ProgramStep
    PROVE  /\ ip' = [p \in UserPid |-> ip'[p]] /\ exit_code' = [p \in UserPid |-> exit_code'[p]]
           /\ \A q \in InWait' : Waits(q) \/ (q \in InWait /\ ip'[q] = ip[q] /\ mem'[q] = mem[q])
           /\ \A q \in Dying' :
                 \/ Exits(q) \/ Obeys(q)
                 \/ /\ q \in Dying /\ ip'[q] = ip[q] /\ exit_code'[q] = exit_code[q]
                    /\ exiting[q] => exiting'[q]
           /\ \A q \in UserPid \ Users' : ~exiting'[q]
<1>a. /\ ip = [p \in UserPid |-> ip[p]] /\ exit_code = [p \in UserPid |-> exit_code[p]]
      /\ mem = [p \in UserPid |-> mem[p]] /\ \A q \in UserPid \ Users : ~exiting[q]
  BY DEF Running
<1>b. exiting \in [Process -> BOOLEAN]
  BY DEF IInv, TypeOK
<1>1. ASSUME NEW c \in UserPid, Starts(c)
      PROVE  /\ ip' = [p \in UserPid |-> ip'[p]] /\ exit_code' = exit_code
             /\ InWait' = {} /\ Dying' = {} /\ Users = {} /\ exiting' = exiting
  BY <1>1 DEF Starts, Moves
<1>2. ASSUME NEW z \in UserPid, NEW W, Leaves(z, W)
      PROVE  /\ exit_code' = exit_code /\ InWait' = W /\ Dying' = Dying \ {z} /\ Users' = Users \ {z}
             /\ mem' = mem /\ \A q \in Process : exiting'[q] = IF q = z THEN FALSE ELSE exiting[q]
  BY <1>2, <1>b, Apart DEF Leaves, Moves
<1>3. ASSUME NEW z \in UserPid, InitReapsIt(z)
      PROVE  ip' = ip /\ Leaves(z, InWait)
  BY <1>3 DEF InitReapsIt
<1>4. ASSUME NEW p \in Users, NEW z \in UserPid, Returns(p, z)
      PROVE  /\ p \in InWait /\ p \notin Dying /\ Leaves(z, InWait \ {p})
             /\ ip' = [q \in UserPid |-> ip'[q]] /\ \A q \in UserPid \ {p} : ip'[q] = ip[q]
  BY <1>4, <1>a, Apart DEF Returns
<1>5. ASSUME NEW p \in Users, NEW c \in UserPid, Forks(p, c)
      PROVE  /\ p \in Ready /\ c \notin Users
             /\ ip' = [q \in UserPid |-> ip'[q]] /\ exit_code' = [q \in UserPid |-> exit_code'[q]]
             /\ \A q \in UserPid \ {p, c} : ip'[q] = ip[q] /\ exit_code'[q] = exit_code[q] /\ mem'[q] = mem[q]
             /\ InWait' = InWait /\ Dying' = Dying /\ Users' = Users \cup {c} /\ exiting' = exiting
  BY <1>5, <1>a DEF Forks, Moves
<1>6. ASSUME NEW p \in Users, Calls(p)
      PROVE  /\ p \in Ready
             /\ ip' = [q \in UserPid |-> ip'[q]] /\ exit_code' = exit_code /\ exiting' = exiting
             /\ \A q \in UserPid \ {p} : ip'[q] = ip[q] /\ mem'[q] = mem[q]
             /\ InWait' = InWait /\ Dying' = Dying /\ Users' = Users
  BY <1>6, <1>a DEF Calls, Moves
<1>7. ASSUME NEW p \in Users, Kills(p)
      PROVE  /\ p \in Ready
             /\ ip' = [q \in UserPid |-> ip'[q]] /\ exit_code' = exit_code /\ mem' = mem
             /\ \A q \in UserPid \ {p} : ip'[q] = ip[q]
             /\ InWait' = InWait /\ Dying' = Dying /\ Users' = Users
             /\ \A q \in UserPid : exiting[q] => exiting'[q]
             /\ \A q \in UserPid : exiting'[q] => exiting[q] \/ q \in Users
  <2>1. \A q \in UserPid : exiting[q] => exiting'[q]
    BY <1>7, <1>b, Apart, Zenon DEF Kills
  <2>2. \A q \in UserPid : exiting'[q] => exiting[q] \/ q \in Users
    <3> SUFFICES ASSUME NEW q \in UserPid, exiting'[q], ~exiting[q] PROVE q \in Users
      OBVIOUS
    <3> DEFINE r == Pid(p, Call(p).var)
    <3>1. r \in Live /\ ~exiting[r] /\ exiting' = [exiting EXCEPT ![r] = TRUE]
      BY <1>7, Zenon DEF Kills
    <3>2. q = r
      BY <1>b, <3>1, Apart
    <3> QED BY <3>1, <3>2 DEF Users
  <2> QED BY <1>7, <1>a, <2>1, <2>2 DEF Kills, Moves
<1>8. ASSUME NEW p \in Users, Exits(p) \/ Obeys(p)
      PROVE  /\ ip' = ip /\ exit_code' = [q \in UserPid |-> exit_code'[q]]
             /\ exiting' = exiting /\ mem' = mem
             /\ \A q \in UserPid \ {p} : exit_code'[q] = exit_code[q]
             /\ InWait' \subseteq InWait /\ Dying' = Dying \cup {p} /\ Users' = Users
  BY <1>8, <1>a, Apart DEF Exits, Obeys, Moves
<1>9. ASSUME NEW p \in Users, NoneLeft(p)
      PROVE  /\ p \in InWait /\ p \notin Dying
             /\ ip' = [q \in UserPid |-> ip'[q]] /\ exit_code' = exit_code
             /\ exiting' = exiting /\ mem' = mem
             /\ \A q \in UserPid \ {p} : ip'[q] = ip[q]
             /\ InWait' = InWait \ {p} /\ Dying' = Dying /\ Users' = Users
  BY <1>9, <1>a, Apart DEF NoneLeft, Moves
<1>10. ASSUME NEW p \in Users, Waits(p)
       PROVE  /\ InWait' = InWait \cup {p} /\ Dying' = Dying /\ Users' = Users
              /\ UNCHANGED <<ip, mem, exit_code, exiting>>
  BY <1>10 DEF Waits, Moves
<1>11. ASSUME Rests \/ \E p \in Users, c \in UserPid : Adopts(p, c)
       PROVE  /\ InWait' = InWait /\ Dying' = Dying /\ Users' = Users
              /\ UNCHANGED <<ip, mem, exit_code, exiting>>
  BY <1>11 DEF Rests, Adopts, Moves
<1> QED
  <2>1. CASE \E c \in UserPid : Starts(c)
    BY <2>1, <1>1, <1>a, Zenon
  <2>2. CASE \E z \in UserPid : InitReapsIt(z)
    <3>1. PICK z \in UserPid : InitReapsIt(z)
      BY <2>2
    <3>2. /\ ip' = ip /\ exit_code' = exit_code /\ InWait' = InWait /\ Dying' = Dying \ {z}
          /\ Users' = Users \ {z} /\ mem' = mem
          /\ \A q \in Process : exiting'[q] = IF q = z THEN FALSE ELSE exiting[q]
      BY <1>2, <1>3, <3>1
    <3> QED BY <1>a, <3>2, Apart
  <2>3. CASE \E p \in Users, z \in UserPid : Returns(p, z)
    <3>1. PICK p \in Users, z \in UserPid : Returns(p, z)
      BY <2>3
    <3>2. /\ exit_code' = exit_code /\ InWait' = InWait \ {p} /\ Dying' = Dying \ {z}
          /\ Users' = Users \ {z} /\ mem' = mem
          /\ \A q \in Process : exiting'[q] = IF q = z THEN FALSE ELSE exiting[q]
      BY <1>2, <1>4, <3>1
    <3>3. /\ p \in InWait /\ p \notin Dying
          /\ ip' = [q \in UserPid |-> ip'[q]] /\ \A q \in UserPid \ {p} : ip'[q] = ip[q]
      BY <1>4, <3>1
    <3> QED BY <1>a, <3>2, <3>3, Apart
  <2>4. CASE \E p \in Users, c \in UserPid : Forks(p, c)
    <3>1. PICK p \in Users, c \in UserPid : Forks(p, c)
      BY <2>4
    <3> QED BY <1>a, <1>5, <3>1, Apart
  <2>5. CASE \E p \in Users : Calls(p)
    BY <1>a, <1>6, <2>5, Apart
  <2>6. CASE \E p \in Users : Kills(p)
    BY <1>a, <1>7, <2>6, Apart
  <2>7. CASE \E p \in Users : Exits(p) \/ Obeys(p)
    <3>1. PICK p \in Users : Exits(p) \/ Obeys(p)
      BY <2>7
    <3> QED BY <1>a, <1>8, <3>1, Apart
  <2>8. CASE \E p \in Users : NoneLeft(p)
    BY <1>a, <1>9, <2>8, Apart
  <2>9. CASE \E p \in Users : Waits(p)
    BY <1>a, <1>10, <2>9, Apart
  <2>10. CASE Rests \/ \E p \in Users, c \in UserPid : Adopts(p, c)
    BY <1>a, <1>11, <2>10, Apart
  <2> QED BY <2>1, <2>2, <2>3, <2>4, <2>5, <2>6, <2>7, <2>8, <2>9, <2>10 DEF ProgramStep

\* Every step keeps what holds whatever the program.
LEMMA RunningStep ==
    ASSUME IInv, Running, ProgramStep, Steady, prog' = prog
    PROVE  Running'
<1>1. /\ ip' = [p \in UserPid |-> ip'[p]] /\ exit_code' = [p \in UserPid |-> exit_code'[p]]
      /\ \A q \in UserPid \ Users' : ~exiting'[q]
  BY StepFrame
<1>2. mem' \in [UserPid -> [Var -> Ptr]]
  <2>a. mem \in [UserPid -> [Var -> Ptr]] /\ UserPid \subseteq Ptr
    BY DEF Running, Ptr, Process
  <2>1. ASSUME NEW p \in Users, NEW c \in UserPid, Forks(p, c)
        PROVE  mem' \in [UserPid -> [Var -> Ptr]]
    <3>1. mem' = [mem EXCEPT ![p] = [mem[p] EXCEPT ![Call(p).var] = c], ![c] = mem[p]]
      BY <2>1 DEF Forks
    <3>2. mem[p] \in [Var -> Ptr] /\ c \in Ptr
      BY <2>a, Apart
    <3>3. [mem[p] EXCEPT ![Call(p).var] = c] \in [Var -> Ptr]
      BY <3>2
    <3> QED BY <2>a, <3>1, <3>2, <3>3
  <2>2. ASSUME NEW p \in Users, Calls(p)
        PROVE  mem' \in [UserPid -> [Var -> Ptr]]
    <3>1. mem' = mem \/ mem' = [mem EXCEPT ![p] = [mem[p] EXCEPT !["parent"] = p]]
      BY <2>2 DEF Calls
    <3>2. mem[p] \in [Var -> Ptr] /\ p \in Ptr
      BY <2>a, Apart
    <3>3. [mem[p] EXCEPT !["parent"] = p] \in [Var -> Ptr]
      BY <3>2
    <3> QED BY <2>a, <3>1, <3>2, <3>3
  <2>3. CASE ~(\E p \in Users, c \in UserPid : Forks(p, c)) /\ ~(\E p \in Users : Calls(p))
    <3>1. mem' = mem
      BY <2>3 DEF ProgramStep, Starts, InitReapsIt, Returns, Adopts, Waits, Kills, Exits, NoneLeft, Obeys,
                  Rests, Leaves
    <3> QED BY <2>a, <3>1
  <2> QED BY <2>1, <2>2, <2>3
<1>3. pc'[initproc] = "init_main" => Users' = {} /\ \A p \in UserPid : exit_code'[p] = "0"
  BY DEF Steady, Running
<1>4. ASSUME NEW q \in InWait'
      PROVE  Call(q)'.op = "wait" /\ Call(q)'.store # "kernel" /\ wpid'[q] = Pid(q, Call(q).var)'
  <2>1. CASE Waits(q)
    <3>1. ip' = ip /\ mem' = mem /\ Call(q).op = "wait" /\ Call(q).store # "kernel"
          /\ wpid'[q] = Pid(q, Call(q).var)
      BY <2>1 DEF Waits
    <3>2. Call(q)' = Call(q)
      BY <3>1 DEF Call
    <3> QED BY <3>1, <3>2 DEF Pid
  <2>2. CASE q \in InWait /\ ip'[q] = ip[q] /\ mem'[q] = mem[q]
    <3>1. Call(q)' = Call(q)
      BY <2>2 DEF Call
    <3>2. Pid(q, Call(q).var)' = Pid(q, Call(q).var)
      BY <2>2, <3>1 DEF Pid
    <3>3. wpid'[q] = wpid[q]
      BY <2>2, <1>4 DEF Steady
    <3> QED BY <2>2, <3>1, <3>2, <3>3 DEF Running
  <2> QED BY <1>4, <2>1, <2>2, StepFrame
<1>5. ASSUME NEW q \in Dying'
      PROVE  \/ exiting'[q] /\ exit_code'[q] = "E_KILLED"
             \/ Call(q)'.op = "exit" /\ exit_code'[q] = Call(q)'.code
  <2>a. exit_code = [p \in UserPid |-> exit_code[p]]
    BY DEF Running
  <2>1. CASE Exits(q)
    <3>1. ip' = ip /\ Call(q).op = "exit" /\ exit_code'[q] = Call(q).code
      BY <2>1, <2>a, Apart DEF Exits
    <3>2. Call(q)' = Call(q)
      BY <3>1 DEF Call
    <3> QED BY <3>1, <3>2
  <2>2. CASE Obeys(q)
    BY <2>2, <2>a, Apart DEF Obeys
  <2>3. CASE q \in Dying /\ ip'[q] = ip[q] /\ exit_code'[q] = exit_code[q] /\ (exiting[q] => exiting'[q])
    <3>1. Call(q)' = Call(q)
      BY <2>3 DEF Call
    <3> QED BY <2>3, <3>1 DEF Running
  <2> QED BY <1>5, <2>1, <2>2, <2>3, StepFrame
<1> QED BY <1>1, <1>2, <1>3, <1>4, <1>5 DEF Running

----------------------------------------------------------------------------
(***************************************************************************)
(* The programs, call by call.                                             *)
(***************************************************************************)

\* yields is a list of NYield calls of yield.
LEMMA Yields ==
    /\ yields = [i \in 1 .. NYield |-> [op |-> "yield"]] /\ yields \in Seq({[op |-> "yield"]})
    /\ Len(yields) = NYield /\ NYield \in Nat
BY ProgramsAssumption DEF yields

\* yield, forktree and faultread: what each call is, and where it goes on.
LEMMA SimpleCode ==
    ASSUME prog \in Simple, NEW i \in 1 .. SimpleLast, NEW c, c = Code[prog][i]
    PROVE  /\ c.op \in {"fork", "yield", "exit", "fault"}
           /\ c.op = "fork" => c.want = "any" /\ c.child \in 1 .. SimpleLast /\ i < SimpleLast
           /\ c.op = "yield" => i < SimpleLast
           /\ c.op = "exit" => c.code = "0" /\ prog # "faultread"
<1>1. CASE prog = "yield"
  <2>1. Code[prog] = yields \o <<exit("0")>>
    BY <1>1 DEF Code, YieldProgram
  <2>2. c = IF i <= NYield THEN [op |-> "yield"] ELSE exit("0")
    BY <1>1, <2>1, Yields DEF SimpleLast
  <2> QED BY <1>1, <2>2, Yields DEF SimpleLast, exit
<1>2. CASE prog = "forktree"
  <2> DEFINE d == i \div 4
  <2>1. /\ i \in 1 .. 4 * DEPTH + 1 /\ DEPTH \in Nat \ {0} /\ SimpleLast = 4 * DEPTH + 1
    BY <1>2, ProgramsAssumption DEF SimpleLast
  <2>2. c = CASE i % 4 = (IF d = DEPTH THEN 1 ELSE 3)          -> exit("0")
              [] i % 4 = (IF d = DEPTH THEN 0 ELSE 2) /\ d > 0 -> [op |-> "yield"]
              [] OTHER -> fork("pid", 4 * d + 4, "any", 0)
    BY <1>2, <2>1 DEF Code, ForkTree
  <2>3. d \in Nat /\ i % 4 \in 0 .. 3 /\ i = 4 * d + (i % 4)
    BY <2>1
  <2>4. d < DEPTH \/ (d = DEPTH /\ i % 4 \in {0, 1})
    BY <2>1, <2>3
  <2>5. \/ c = exit("0")
        \/ c = [op |-> "yield"] /\ i < SimpleLast
        \/ c = fork("pid", 4 * d + 4, "any", 0) /\ d < DEPTH
    <3> HIDE DEF d
    <3>1. CASE i % 4 = (IF d = DEPTH THEN 1 ELSE 3)
      BY <2>2, <3>1
    <3>2. CASE i % 4 # (IF d = DEPTH THEN 1 ELSE 3) /\ i % 4 = (IF d = DEPTH THEN 0 ELSE 2) /\ d > 0
      BY <2>1, <2>2, <2>3, <2>4, <3>2
    <3>3. CASE i % 4 # (IF d = DEPTH THEN 1 ELSE 3) /\ ~(i % 4 = (IF d = DEPTH THEN 0 ELSE 2) /\ d > 0)
      <4>1. c = fork("pid", 4 * d + 4, "any", 0)
        BY <2>2, <3>3
      <4> QED BY <2>1, <2>3, <2>4, <3>3, <4>1
    <3> QED BY <3>1, <3>2, <3>3
  <2>6. d < DEPTH => 4 * d + 4 \in 1 .. SimpleLast /\ i < SimpleLast
    BY <2>1, <2>3
  <2> HIDE DEF d
  <2> QED BY <1>2, <2>5, <2>6 DEF exit, fork
<1>3. CASE prog = "faultread"
  <2>1. c = [op |-> "fault"]
    BY <1>3 DEF Code, FaultRead, SimpleLast
  <2> QED BY <2>1
<1> QED BY <1>1, <1>2, <1>3 DEF Simple

\* exit, badarg and spin: what each call is, and where it goes on.
LEMMA OneCode ==
    ASSUME prog \in OneChild, NEW i \in 1 .. OneEnd, NEW c, c = Code[prog][i]
    PROVE  /\ i = 1 => c.op = "fork" /\ c.want \in {"pid", "any"} /\ c.var = "pid" /\ c.child \in MainEnd + 1 .. OneEnd
           /\ i \in 2 .. MainEnd - 1 => c.op \in {"wait", "yield", "kill"}
           /\ i = MainEnd => c.op = "exit" /\ c.code = "0"
           /\ i > MainEnd => c.op \in {"yield", "exit", "loop"}
           /\ i > MainEnd /\ c.op = "yield" => i < OneEnd
           /\ i > MainEnd /\ c.op = "exit" => c.code \in Expected[prog] /\ c.code = Code[prog][OneLast].code
           /\ c.op = "kill" => prog = "spin" /\ i = OneLast - 1 /\ c.var = "pid"
           /\ i = OneLast => /\ c.op = "wait" /\ c.var = "pid" /\ c.store # "kernel" /\ c.want = "zero"
                             /\ prog = "spin" <=> c.code = "any"
           /\ c.op = "wait" /\ i # OneLast =>
                 /\ c.want = "nonzero"
                 /\ i > OneLast \/ c.store = "kernel" \/ c.var = "nobody"
           /\ MainEnd \in Nat /\ OneEnd \in Nat /\ OneLast \in 2 .. MainEnd - 1 /\ MainEnd < OneEnd
<1>0. NYield \in Nat
  BY ProgramsAssumption
<1>1. CASE prog = "exit"
  <2> DEFINE a == <<fork("pid", 6, "pid", 0), waitpid("pid", "user", "zero", "magic"),
                    waitpid("pid", "user", "nonzero", "any"), waitpid("any", "none", "nonzero", "any"),
                    exit("0")>>
  <2>1. Code[prog] = a \o yields \o <<exit("magic")>>
    BY <1>1 DEF Code, ExitProgram
  <2>2. \A j \in 1 .. NYield + 6 : Code[prog][j] =
          IF j <= 5 THEN a[j] ELSE IF j = NYield + 6 THEN exit("magic") ELSE [op |-> "yield"]
    BY <2>1, Yields
  <2>3. c = IF i <= 5 THEN a[i] ELSE IF i = NYield + 6 THEN exit("magic") ELSE [op |-> "yield"]
    BY <1>1, <2>2 DEF OneEnd
  <2>4. Code[prog][OneLast] = a[2]
    BY <1>0, <1>1, <2>2 DEF OneLast
  <2> HIDE DEF a
  <2> QED BY <1>0, <1>1, <2>3, <2>4 DEF a, MainEnd, OneLast, OneEnd, Expected, fork, waitpid, exit
<1>2. CASE prog = "badarg"
  <2> DEFINE a == <<fork("pid", 6, "pid", 0), waitpid("nobody", "none", "nonzero", "any"),
                    waitpid("pid", "kernel", "nonzero", "any"), waitpid("pid", "user", "zero", "beaf"),
                    exit("0")>>
  <2>1. Code[prog] = a \o yields \o <<exit("beaf")>>
    BY <1>2 DEF Code, BadArg
  <2>2. \A j \in 1 .. NYield + 6 : Code[prog][j] =
          IF j <= 5 THEN a[j] ELSE IF j = NYield + 6 THEN exit("beaf") ELSE [op |-> "yield"]
    BY <2>1, Yields
  <2>3. c = IF i <= 5 THEN a[i] ELSE IF i = NYield + 6 THEN exit("beaf") ELSE [op |-> "yield"]
    BY <1>2, <2>2 DEF OneEnd
  <2>4. Code[prog][OneLast] = a[4]
    BY <1>0, <1>2, <2>2 DEF OneLast
  <2> HIDE DEF a
  <2> QED BY <1>0, <1>2, <2>3, <2>4 DEF a, MainEnd, OneLast, OneEnd, Expected, fork, waitpid, exit
<1>3. CASE prog = "spin"
  <2> DEFINE a == <<kill("pid", 0), waitpid("pid", "none", "zero", "any"), exit("0")>>
  <2>1. Code[prog] = <<fork("pid", NYield + 5, "any", 0)>> \o yields \o a \o <<[op |-> "loop"]>>
    BY <1>3 DEF Code, Spin, loop
  <2>2. \A j \in 1 .. NYield + 5 : Code[prog][j] =
          IF j = 1 THEN fork("pid", NYield + 5, "any", 0)
          ELSE IF j <= NYield + 1 THEN [op |-> "yield"]
          ELSE IF j = NYield + 2 THEN kill("pid", 0)
          ELSE IF j = NYield + 3 THEN waitpid("pid", "none", "zero", "any")
          ELSE IF j = NYield + 4 THEN exit("0") ELSE [op |-> "loop"]
    BY <2>1, Yields
  <2>3. c = IF i = 1 THEN fork("pid", NYield + 5, "any", 0)
            ELSE IF i <= NYield + 1 THEN [op |-> "yield"]
            ELSE IF i = NYield + 2 THEN kill("pid", 0)
            ELSE IF i = NYield + 3 THEN waitpid("pid", "none", "zero", "any")
            ELSE IF i = NYield + 4 THEN exit("0") ELSE [op |-> "loop"]
    BY <1>3, <2>2 DEF OneEnd
  <2> QED BY <1>0, <1>3, <2>3 DEF MainEnd, OneLast, OneEnd, Expected, fork, kill, waitpid, exit
<1> QED BY <1>1, <1>2, <1>3 DEF OneChild

\* forktest.
LEMMA TestCode ==
    ASSUME prog = "forktest", NEW i \in 1 .. 2 * MaxChild + 3, NEW c, c = Code[prog][i]
    PROVE  /\ i <= MaxChild => c.op = "fork" /\ c.want = "pid" /\ c.var = "pid" /\ c.child = 2 * MaxChild + 3
           /\ i \in MaxChild + 1 .. 2 * MaxChild + 1 =>
                 /\ c.op = "wait" /\ c.var = "any" /\ c.store # "kernel"
                 /\ c.want = (IF i <= 2 * MaxChild THEN "zero" ELSE "nonzero") /\ c.code = "any"
           /\ i > 2 * MaxChild + 1 => c.op = "exit" /\ c.code = "0"
<1>0. MaxChild \in Nat
  BY ProgramsAssumption
<1> DEFINE a == Times(MaxChild, fork("pid", 2 * MaxChild + 3, "pid", 0))
           b == Times(MaxChild, waitpid("any", "none", "zero", "any"))
           d == <<waitpid("any", "none", "nonzero", "any"), exit("0"), exit("0")>>
<1>1. Code[prog] = a \o b \o d
  BY DEF Code, ForkTest
<1>2. /\ a = [j \in 1 .. MaxChild |-> fork("pid", 2 * MaxChild + 3, "pid", 0)] /\ Len(a) = MaxChild
      /\ b = [j \in 1 .. MaxChild |-> waitpid("any", "none", "zero", "any")] /\ Len(b) = MaxChild
      /\ a \in Seq({fork("pid", 2 * MaxChild + 3, "pid", 0)})
      /\ b \in Seq({waitpid("any", "none", "zero", "any")})
  BY <1>0 DEF Times
<1> HIDE DEF a, b
<1>3. c = IF i <= MaxChild THEN fork("pid", 2 * MaxChild + 3, "pid", 0)
          ELSE IF i <= 2 * MaxChild THEN waitpid("any", "none", "zero", "any")
          ELSE IF i = 2 * MaxChild + 1 THEN waitpid("any", "none", "nonzero", "any")
          ELSE exit("0")
  BY <1>0, <1>1, <1>2
<1> QED BY <1>0, <1>3 DEF fork, waitpid, exit

\* waitkill.
LEMMA KillCode ==
    ASSUME prog = "waitkill", NEW i \in 1 .. ToldChild, NEW c, c = Code[prog][i]
    PROVE  /\ i = 1 => c.op = "getpid"
           /\ i = 2 => c.op = "fork" /\ c.want = "pid" /\ c.var = "pid" /\ c.child = 7
           /\ i = 3 => c.op = "fork" /\ c.want = "pid" /\ c.var = "pid2" /\ c.child = 8
           /\ i = 4 => c.op = "wait" /\ c.var = "pid" /\ c.want = "never" /\ c.store # "kernel" /\ c.else = 0
           /\ i = 7 => c.op = "loop"
           /\ i \in 8 .. ToldChild - 1 => c.op \in {"yield", "kill"}
           /\ i >= 8 /\ c.op = "kill" =>
                 \/ i = ToldRoot - 1 /\ c.var = "parent"
                 \/ i = ToldChild - 1 /\ c.var = "pid"
           /\ i \in {ToldRoot - 1, ToldChild - 1} => c.op = "kill"
           /\ i = ToldChild => c.op = "exit" /\ c.code = "0"
           /\ NYield \in Nat /\ 8 < ToldRoot /\ ToldRoot < ToldChild
<1>0. NYield \in Nat
  BY ProgramsAssumption
<1> DEFINE a == <<getpid, fork("pid", 7, "pid", 0), fork("pid2", 8, "pid", 5),
                  waitpid("pid", "none", "never", "any"), kill("pid", 0), exit("E_PANIC")>>
           k == 2 * NYield + 11
<1>1. Code[prog] = a \o <<[op |-> "loop"]>> \o yields \o <<kill("parent", k)>>
                     \o yields \o <<kill("pid", k), exit("0"), exit("-1")>>
  BY DEF Code, WaitKill, loop
<1> HIDE DEF k
<1>2. c = IF i <= 6 THEN a[i] ELSE IF i = 7 THEN [op |-> "loop"]
          ELSE IF i <= NYield + 7 THEN [op |-> "yield"]
          ELSE IF i = NYield + 8 THEN kill("parent", k)
          ELSE IF i <= 2 * NYield + 8 THEN [op |-> "yield"]
          ELSE IF i = 2 * NYield + 9 THEN kill("pid", k)
          ELSE IF i = 2 * NYield + 10 THEN exit("0") ELSE exit("-1")
  BY <1>0, <1>1, Yields DEF ToldChild
<1> HIDE DEF a
<1> QED BY <1>0, <1>2 DEF a, ToldRoot, ToldChild, fork, kill, waitpid, exit, getpid

----------------------------------------------------------------------------
(***************************************************************************)
(* Each program keeps its invariant.                                       *)
(***************************************************************************)

\* Where a process goes on, by the result that it wants.
LEMMA Afters ==
    ASSUME NEW p, NEW r, NEW code
    PROVE  /\ Call(p).want = "any" => After(p, r, code) = ip[p] + 1
           /\ Call(p).want = "pid" /\ r = "pid" => After(p, r, code) = ip[p] + 1
           /\ Call(p).want = "zero" /\ r = "0" /\ Call(p).code \in {"any", code} => After(p, r, code) = ip[p] + 1
           /\ Call(p).want = "nonzero" /\ r = "error" => After(p, r, code) = ip[p] + 1
           /\ Call(p).want = "never" => After(p, r, code) = Call(p).else
           /\ AfterKill(p, "0") = ip[p] + 1
<1>1. Call(p).want = "any" => After(p, r, code) = ip[p] + 1
  BY DEF After
<1>2. Call(p).want = "pid" /\ r = "pid" => After(p, r, code) = ip[p] + 1
  BY DEF After
<1>3. Call(p).want = "zero" /\ r = "0" /\ Call(p).code \in {"any", code} => After(p, r, code) = ip[p] + 1
  BY DEF After
<1>4. Call(p).want = "nonzero" /\ r = "error" => After(p, r, code) = ip[p] + 1
  BY DEF After
<1>5. Call(p).want = "never" => After(p, r, code) = Call(p).else
  BY DEF After
<1> QED BY <1>1, <1>2, <1>3, <1>4, <1>5 DEF AfterKill

\* yield, forktree and faultread.
LEMMA SimpleCall ==
    ASSUME prog \in Simple, SimplePasses, NEW p \in Users
    PROVE  /\ ip[p] \in 1 .. SimpleLast /\ SimpleLast \in Nat
           /\ Call(p).op \in {"fork", "yield", "exit", "fault"}
           /\ Call(p).op = "fork" => Call(p).want = "any" /\ Call(p).child \in 1 .. SimpleLast /\ ip[p] < SimpleLast
           /\ Call(p).op = "yield" => ip[p] < SimpleLast
           /\ Call(p).op = "exit" => Call(p).code = "0" /\ prog # "faultread"
<1>1. ip[p] \in 1 .. SimpleLast /\ SimpleLast \in Nat
  BY ProgramsAssumption DEF SimplePasses, SimpleLast
<1>2. Call(p) = Code[prog][ip[p]]
  BY <1>1 DEF Call
<1> QED BY <1>1, <1>2, SimpleCode

LEMMA SimpleStep ==
    ASSUME IInv, Running, prog \in Simple, SimplePasses, ProgramStep, prog' = prog
    PROVE  SimplePasses'
<1>a. /\ SimpleLast' = SimpleLast /\ 1 \in 1 .. SimpleLast
      /\ ip = [p \in UserPid |-> ip[p]] /\ Users \subseteq UserPid
  BY ProgramsAssumption, Apart DEF SimpleLast, Running
<1>b. /\ \A p \in Users : ip[p] \in 1 .. SimpleLast
      /\ \A p \in UserPid : ~exiting[p]
      /\ exiting \in [Process -> BOOLEAN] /\ UserPid \subseteq Process
  BY Apart DEF SimplePasses, IInv, TypeOK
<1>c. ASSUME NEW p \in InWait PROVE FALSE
  BY <1>c, SimpleCall, Apart DEF Running
<1>1. ASSUME NEW c \in UserPid, Starts(c) PROVE SimplePasses'
  BY <1>1, <1>a, <1>b DEF Starts, Moves, SimplePasses
<1>2. ASSUME NEW z \in UserPid, InitReapsIt(z) PROVE SimplePasses'
  <2>1. \A q \in UserPid : ~exiting'[q]
    BY <1>2, <1>b DEF InitReapsIt, Leaves
  <2> QED BY <1>2, <2>1, <1>a, <1>b DEF InitReapsIt, Leaves, Moves, SimplePasses
<1>3. ASSUME NEW p \in Users, NEW c \in UserPid, Forks(p, c) PROVE SimplePasses'
  <2>1. After(p, "pid", "any") = ip[p] + 1 /\ Call(p).child \in 1 .. SimpleLast /\ ip[p] + 1 \in 1 .. SimpleLast
    BY <1>3, SimpleCall, Afters DEF Forks
  <2> QED BY <1>3, <2>1, <1>a, <1>b DEF Forks, Moves, SimplePasses
<1>4. ASSUME NEW p \in Users, Calls(p) PROVE SimplePasses'
  <2>1. ip' = [ip EXCEPT ![p] = @ + 1] /\ ip[p] + 1 \in 1 .. SimpleLast
    BY <1>4, SimpleCall DEF Calls
  <2> QED BY <1>4, <2>1, <1>a, <1>b DEF Calls, Moves, SimplePasses
<1>5. CASE \E p \in Users : Waits(p) \/ Kills(p)
  BY <1>5, SimpleCall DEF Waits, Kills
<1>6. CASE \/ \E p \in Users, c \in UserPid : Returns(p, c)
           \/ \E p \in Users : NoneLeft(p)
  BY <1>6, <1>c DEF Returns, NoneLeft
<1>7. CASE \E p \in Users : Obeys(p)
  BY <1>7, <1>a, <1>b DEF Obeys
<1>8. CASE \/ \E p \in Users, c \in UserPid : Adopts(p, c)
           \/ \E p \in Users : Exits(p)
           \/ Rests
  BY <1>8, <1>a, <1>b DEF Adopts, Exits, Rests, Moves, SimplePasses
<1> QED BY <1>1, <1>2, <1>3, <1>4, <1>5, <1>6, <1>7, <1>8 DEF ProgramStep

\* exit, badarg and spin: the next call of each process.
LEMMA OneCall ==
    ASSUME prog \in OneChild, OnePasses, NEW p \in Users
    PROVE  /\ ip[p] \in 1 .. OneEnd
           /\ ip[p] = 1 => Call(p).op = "fork" /\ Call(p).want \in {"pid", "any"} /\ Call(p).var = "pid"
                           /\ Call(p).child \in MainEnd + 1 .. OneEnd
           /\ ip[p] \in 2 .. MainEnd - 1 => Call(p).op \in {"wait", "yield", "kill"}
           /\ ip[p] = MainEnd => Call(p).op = "exit" /\ Call(p).code = "0"
           /\ ip[p] > MainEnd => Call(p).op \in {"yield", "exit", "loop"}
           /\ ip[p] > MainEnd /\ Call(p).op = "yield" => ip[p] < OneEnd
           /\ ip[p] > MainEnd /\ Call(p).op = "exit" =>
                 Call(p).code \in Expected[prog] /\ Call(p).code = Code[prog][OneLast].code
           /\ Call(p).op = "kill" => prog = "spin" /\ ip[p] = OneLast - 1 /\ Call(p).var = "pid"
           /\ ip[p] = OneLast => /\ Call(p).op = "wait" /\ Call(p).var = "pid" /\ Call(p).store # "kernel"
                                 /\ Call(p).want = "zero" /\ Call(p).code = Code[prog][OneLast].code
                                 /\ prog = "spin" <=> Call(p).code = "any"
           /\ Call(p).op = "wait" /\ ip[p] # OneLast =>
                 /\ Call(p).want = "nonzero"
                 /\ ip[p] > OneLast \/ Call(p).store = "kernel" \/ Call(p).var = "nobody"
           /\ MainEnd \in Nat /\ OneEnd \in Nat /\ OneLast \in 2 .. MainEnd - 1 /\ MainEnd < OneEnd
<1> DEFINE i == ip[p]
           c == Call(p)
<1>1. i \in 1 .. OneEnd
  BY DEF OnePasses
<1>2. c = Code[prog][i]
  BY <1>1 DEF Call
<1> HIDE DEF i, c
<1>3. i = OneLast => c.code = Code[prog][OneLast].code
  BY <1>2
<1>4. /\ i = 1 => c.op = "fork" /\ c.want \in {"pid", "any"} /\ c.var = "pid" /\ c.child \in MainEnd + 1 .. OneEnd
      /\ i \in 2 .. MainEnd - 1 => c.op \in {"wait", "yield", "kill"}
      /\ i = MainEnd => c.op = "exit" /\ c.code = "0"
      /\ i > MainEnd => c.op \in {"yield", "exit", "loop"}
      /\ i > MainEnd /\ c.op = "yield" => i < OneEnd
      /\ i > MainEnd /\ c.op = "exit" => c.code \in Expected[prog] /\ c.code = Code[prog][OneLast].code
      /\ c.op = "kill" => prog = "spin" /\ i = OneLast - 1 /\ c.var = "pid"
      /\ i = OneLast => /\ c.op = "wait" /\ c.var = "pid" /\ c.store # "kernel" /\ c.want = "zero"
                        /\ prog = "spin" <=> c.code = "any"
      /\ c.op = "wait" /\ i # OneLast =>
            /\ c.want = "nonzero"
            /\ i > OneLast \/ c.store = "kernel" \/ c.var = "nobody"
      /\ MainEnd \in Nat /\ OneEnd \in Nat /\ OneLast \in 2 .. MainEnd - 1 /\ MainEnd < OneEnd
  BY <1>1, <1>2, OneCode
<1> QED BY <1>1, <1>3, <1>4 DEF i, c

\* Which call it is says where the process is.
LEMMA OnePlaces ==
    ASSUME prog \in OneChild, OnePasses, NEW p \in Users
    PROVE  /\ Call(p).op = "exit" => ip[p] >= MainEnd
           /\ Call(p).op = "fork" => ip[p] = 1
           /\ Call(p).op \in {"wait", "kill"} => ip[p] \in 2 .. MainEnd - 1
           /\ Call(p).op # "getpid"
<1>1. MainEnd \in Nat /\ OneEnd \in Nat /\ MainEnd < OneEnd /\ ip[p] \in 1 .. OneEnd
  BY OneCall
<1>2. CASE ip[p] = 1
  <2>1. Call(p).op = "fork"
    BY <1>2, OneCall
  <2> QED BY <1>2, <2>1
<1>3. CASE ip[p] \in 2 .. MainEnd - 1
  <2>1. Call(p).op \in {"wait", "yield", "kill"}
    BY <1>3, OneCall
  <2> QED BY <1>3, <2>1
<1>4. CASE ip[p] = MainEnd
  <2>1. Call(p).op = "exit"
    BY <1>4, OneCall
  <2> QED BY <1>1, <1>4, <2>1
<1>5. CASE ip[p] > MainEnd
  <2>1. Call(p).op \in {"yield", "exit", "loop"}
    BY <1>5, OneCall
  <2> QED BY <1>1, <1>5, <2>1
<1> QED BY <1>1, <1>2, <1>3, <1>4, <1>5

\* A step that leaves the family alone.
LEMMA OneKeeps ==
    ASSUME prog \in OneChild, OnePasses, Users' = Users, UNCHANGED <<prog, parent, ip, mem, exiting>>
    PROVE  OnePasses'
BY DEF OnePasses, MainEnd, OneLast, OneEnd

\* A call that only goes on, neither fork nor the wait that reaps, nor the end.
LEMMA OneAdvances ==
    ASSUME prog \in OneChild, OnePasses, Running, NEW p \in Users, ip' = [ip EXCEPT ![p] = ip[p] + 1],
           ip[p] \notin {1, OneLast, MainEnd, OneEnd}, Users' = Users,
           UNCHANGED <<prog, parent, mem, exiting>>
    PROVE  OnePasses'
<1>1. MainEnd' = MainEnd /\ OneLast' = OneLast /\ OneEnd' = OneEnd
  BY DEF MainEnd, OneLast, OneEnd
<1>2. MainEnd \in Nat /\ OneEnd \in Nat /\ OneLast \in 2 .. MainEnd - 1 /\ MainEnd < OneEnd
  BY OneCall
<1>3. \A q \in Users : ip'[q] = IF q = p THEN ip[p] + 1 ELSE ip[q]
  BY Apart DEF Running
<1>4. \A q \in Users : ip[q] \in 1 .. OneEnd
  BY DEF OnePasses
<1>5. \A q \in Users :
        /\ ip'[q] \in 1 .. OneEnd /\ (ip'[q] <= MainEnd <=> ip[q] <= MainEnd)
        /\ (ip'[q] \in 2 .. OneLast <=> ip[q] \in 2 .. OneLast)
        /\ (ip'[q] > MainEnd <=> ip[q] > MainEnd)
        /\ (ip[q] = OneLast => ip'[q] = OneLast)
  BY <1>2, <1>3, <1>4
<1>6. \A c \in UserPid : exiting'[c] =>
        /\ prog' = "spin" /\ c \in Users' /\ ip'[c] > MainEnd'
        /\ \A q \in Users' : ip'[q] <= MainEnd' => ip'[q] = OneLast'
  BY <1>1, <1>5 DEF OnePasses
<1>7. \A c \in Users' : ip'[c] > MainEnd' =>
         \E q \in Users' : ip'[q] \in 2 .. OneLast' /\ mem'[q]["pid"] = c
  BY <1>1, <1>5 DEF OnePasses
<1>8. \A q \in Users' : ip'[q] \in 2 .. OneLast' =>
          /\ mem'[q]["pid"] \in Users'
          /\ ip'[mem'[q]["pid"]] > MainEnd' /\ parent'[mem'[q]["pid"]] = q
  BY <1>1, <1>5 DEF OnePasses
<1>9. \A q \in Users' : ip'[q] <= MainEnd' =>
          /\ parent'[q] = initproc
          /\ \A r \in Users' : ip'[r] <= MainEnd' => r = q
  BY <1>1, <1>5 DEF OnePasses
<1> QED BY <1>1, <1>5, <1>6, <1>7, <1>8, <1>9 DEF OnePasses

\* Who is who: the main process is the child of initproc, and the other one its own.
LEMMA OneFamily ==
    ASSUME IInv, prog \in OneChild, OnePasses, NEW z \in Users
    PROVE  /\ ip[z] <= MainEnd <=> parent[z] = initproc
           /\ ip[z] > MainEnd => /\ parent[z] \in Users /\ ip[parent[z]] \in 2 .. OneLast
                                 /\ mem[parent[z]]["pid"] = z
<1>1. initproc \notin Users
  BY ProcAssumption DEF Users
<1>2. ip[z] \in 1 .. OneEnd /\ OneEnd \in Nat /\ MainEnd \in Nat
  BY OneCall
<1>3. ip[z] <= MainEnd => parent[z] = initproc
  BY DEF OnePasses
<1>4. ASSUME ip[z] > MainEnd
      PROVE  parent[z] \in Users /\ ip[parent[z]] \in 2 .. OneLast /\ mem[parent[z]]["pid"] = z
  BY <1>4 DEF OnePasses
<1> QED BY <1>1, <1>2, <1>3, <1>4

LEMMA OneForks ==
    ASSUME IInv, Running, prog \in OneChild, OnePasses, prog' = prog,
           NEW p \in Users, NEW c \in UserPid, Forks(p, c)
    PROVE  OnePasses'
<1>a. MainEnd' = MainEnd /\ OneLast' = OneLast /\ OneEnd' = OneEnd
  BY DEF MainEnd, OneLast, OneEnd
<1>b. MainEnd \in Nat /\ OneEnd \in Nat /\ OneLast \in 2 .. MainEnd - 1 /\ MainEnd < OneEnd
  BY OneCall
<1>1. ip[p] = 1 /\ Call(p).op = "fork"
  BY <1>b, OneCall DEF Forks
<1>2. /\ Call(p).want \in {"pid", "any"} /\ Call(p).var = "pid" /\ Call(p).child \in MainEnd + 1 .. OneEnd
      /\ c \notin Users /\ p # c
  BY <1>1, OneCall DEF Forks
<1>3. \A q \in Users : q = p
  <2> SUFFICES ASSUME NEW q \in Users PROVE q = p
    OBVIOUS
  <2>1. CASE ip[q] <= MainEnd
    BY <1>1, <1>b, <2>1 DEF OnePasses
  <2>2. CASE ip[q] > MainEnd
    <3>1. PICK m \in Users : ip[m] \in 2 .. OneLast
      BY <2>2 DEF OnePasses
    <3>2. m = p
      BY <1>1, <1>b, <3>1 DEF OnePasses
    <3> QED BY <1>1, <3>1, <3>2
  <2>3. ip[q] \in 1 .. OneEnd
    BY OneCall
  <2> QED BY <1>b, <2>1, <2>2, <2>3
<1>4. /\ Users' = {p, c} /\ ip'[p] = 2 /\ ip'[c] = Call(p).child
  <2>1. After(p, "pid", "any") = 2
    BY <1>1, <1>2, Afters
  <2> QED BY <1>2, <1>3, <2>1, Apart DEF Forks, Moves, Running
<1>5. parent'[p] = initproc /\ parent'[c] = p /\ mem'[p]["pid"] = c
  <2>1. parent[p] = initproc
    BY <1>1, <1>b DEF OnePasses
  <2>2. parent \in [Process -> Ptr] /\ p \in Process /\ c \in Process
    BY Apart DEF IInv, TypeOK
  <2>3. mem \in [UserPid -> [Var -> Ptr]] /\ p \in UserPid
    BY Apart DEF Running
  <2>4. mem'[p]["pid"] = c
    <3>1. mem' = [mem EXCEPT ![p] = [mem[p] EXCEPT !["pid"] = c], ![c] = mem[p]]
      BY <1>2 DEF Forks
    <3>2. mem[p] \in [Var -> Ptr] /\ "pid" \in Var
      BY <2>3 DEF Var
    <3>3. mem'[p] = [mem[p] EXCEPT !["pid"] = c]
      BY <1>2, <2>3, <3>1
    <3> QED BY <3>2, <3>3
  <2> QED BY <1>2, <2>1, <2>2, <2>4 DEF Forks
<1>6. \A q \in UserPid : ~exiting'[q]
  <2>1. exiting' = exiting
    BY DEF Forks
  <2> QED BY <1>1, <1>3, <1>b, <2>1 DEF OnePasses
<1> QED BY <1>a, <1>b, <1>1, <1>2, <1>4, <1>5, <1>6 DEF OnePasses

\* The child is reaped by the call at OneLast, with the exit code it wants.
LEMMA OneReturns ==
    ASSUME IInv, Running, prog \in OneChild, OnePasses, prog' = prog,
           NEW p \in Users, NEW z \in UserPid, Returns(p, z)
    PROVE  OnePasses'
<1>a. MainEnd' = MainEnd /\ OneLast' = OneLast /\ OneEnd' = OneEnd
  BY DEF MainEnd, OneLast, OneEnd
<1>b. MainEnd \in Nat /\ OneEnd \in Nat /\ OneLast \in 2 .. MainEnd - 1 /\ MainEnd < OneEnd
  BY OneCall
<1>c. /\ p \in InWait /\ z \in Dying /\ z \in Users /\ p \in UserPid /\ z # p
      /\ parent[z] = p /\ wpid[p] \in {ANY, z} /\ p # initproc
  BY ProcAssumption, Apart DEF Returns, Leaves
<1>1. ip[z] > MainEnd /\ ip[p] \in 2 .. OneLast /\ mem[p]["pid"] = z
  BY <1>b, <1>c, OneFamily, OneCall
<1>2. ip[p] = OneLast
  <2>1. Call(p).op = "wait" /\ Call(p).store # "kernel" /\ wpid[p] = Pid(p, Call(p).var)
    BY <1>c DEF Running
  <2>2. ASSUME Call(p).var = "nobody" PROVE FALSE
    <3>1. wpid[p] = initproc
      BY <2>1, <2>2 DEF Pid
    <3> QED BY <1>c, <3>1, ProcAssumption DEF ANY
  <2> QED BY <1>1, <1>b, <2>1, <2>2, OneCall
<1>3. ip'[p] = OneLast + 1
  <2>1. Call(p).want = "zero" /\ Call(p).code = Code[prog][OneLast].code /\ (prog = "spin" <=> Call(p).code = "any")
    BY <1>2, OneCall
  <2>2. Call(p).code \in {"any", exit_code[z]}
    <3>1. CASE prog = "spin"
      BY <2>1, <3>1
    <3>2. CASE prog # "spin"
      <4>1. ~exiting[z]
        BY <1>c, <3>2 DEF OnePasses
      <4>2. Call(z).op = "exit" /\ exit_code[z] = Call(z).code
        BY <1>c, <4>1 DEF Running
      <4>3. Call(z).code = Code[prog][OneLast].code
        BY <1>1, <1>c, <4>2, OneCall
      <4> QED BY <2>1, <4>2, <4>3
    <3> QED BY <3>1, <3>2
  <2>3. After(p, "0", exit_code[z]) = ip[p] + 1
    BY <2>1, <2>2, Afters
  <2> QED BY <1>2, <1>c, <2>3 DEF Returns, Running
<1>4. \A q \in Users \ {z} : q = p
  <2> SUFFICES ASSUME NEW q \in Users, q # z PROVE q = p
    OBVIOUS
  <2>1. ip[q] \in 1 .. OneEnd
    BY OneCall
  <2>2. CASE ip[q] <= MainEnd
    BY <1>1, <1>b, <2>2 DEF OnePasses
  <2>3. CASE ip[q] > MainEnd
    <3>1. PICK m \in Users : ip[m] \in 2 .. OneLast /\ mem[m]["pid"] = q
      BY <2>3 DEF OnePasses
    <3>2. m = p
      BY <1>1, <1>b, <3>1 DEF OnePasses
    <3> QED BY <1>1, <3>1, <3>2
  <2> QED BY <1>b, <2>1, <2>2, <2>3
<1>5. Users' = {p}
  BY <1>4, <1>c DEF Returns, Leaves, Moves
<1>6. parent'[p] = initproc
  <2>1. parent[p] = initproc
    BY <1>1, <1>b DEF OnePasses
  <2> QED BY <1>c, <2>1, Apart DEF Returns, Leaves, IInv, TypeOK
<1>7. \A q \in UserPid : ~exiting'[q]
  <2>1. \A q \in UserPid : exiting[q] => q = z
    <3> SUFFICES ASSUME NEW q \in UserPid, exiting[q] PROVE q = z
      OBVIOUS
    <3>1. q \in Users /\ ip[q] > MainEnd
      BY DEF OnePasses
    <3> QED BY <3>1, <1>1, <1>2, <1>4, <1>b
  <2>2. \A q \in UserPid : exiting'[q] = IF q = z THEN FALSE ELSE exiting[q]
    BY Apart DEF Returns, Leaves, IInv, TypeOK
  <2> QED BY <2>1, <2>2
<1> QED BY <1>a, <1>b, <1>3, <1>5, <1>6, <1>7 DEF OnePasses

LEMMA OneStep ==
    ASSUME IInv, Running, prog \in OneChild, OnePasses, ProgramStep, prog' = prog
    PROVE  OnePasses'
<1>a. /\ MainEnd' = MainEnd /\ OneLast' = OneLast /\ OneEnd' = OneEnd
      /\ \A p \in Users : ip[p] \in 1 .. OneEnd
      /\ ip = [p \in UserPid |-> ip[p]] /\ Users \subseteq UserPid /\ UserPid \subseteq Process
      /\ parent \in [Process -> Ptr] /\ exiting \in [Process -> BOOLEAN]
  BY Apart DEF MainEnd, OneLast, OneEnd, OnePasses, Running, IInv, TypeOK
<1>b. MainEnd \in Nat /\ OneEnd \in Nat /\ OneLast \in 2 .. MainEnd - 1 /\ MainEnd < OneEnd
  BY ProgramsAssumption DEF OneChild, MainEnd, OneLast, OneEnd
<1>1. ASSUME NEW c \in UserPid, Starts(c) PROVE OnePasses'
  <2>1. /\ Users' = {c} /\ ip'[c] = 1 /\ parent'[c] = initproc /\ exiting' = exiting
        /\ Users = {}
    BY <1>1, <1>a DEF Starts, Moves
  <2>2. \A q \in UserPid : ~exiting'[q]
    BY <2>1 DEF OnePasses
  <2> QED BY <1>a, <1>b, <2>1, <2>2 DEF OnePasses
<1>2. ASSUME NEW z \in UserPid, InitReapsIt(z) PROVE OnePasses'
  <2>1. z \in Users /\ z \in Dying /\ parent[z] = initproc /\ Users' = Users \ {z} /\ ip' = ip
    BY <1>2, Apart DEF InitReapsIt, Leaves, Moves
  <2>2. ip[z] <= MainEnd
    BY <2>1, OneFamily
  <2>3. ~exiting[z]
    BY <2>1, <2>2, <1>a, <1>b DEF OnePasses
  <2>4. Call(z).op = "exit"
    BY <2>1, <2>3 DEF Running
  <2>5. ip[z] = MainEnd
    <3>1. ip[z] >= MainEnd /\ ip[z] \in Nat
      BY <2>1, <2>4, <1>a, <1>b, OnePlaces
    <3> QED BY <2>2, <3>1, <1>b
  <2>6. \A q \in Users : q = z
    <3> SUFFICES ASSUME NEW q \in Users PROVE q = z
      OBVIOUS
    <3>1. CASE ip[q] <= MainEnd
      BY <2>1, <2>2, <3>1 DEF OnePasses
    <3>2. CASE ip[q] > MainEnd
      <4>1. PICK m \in Users : ip[m] \in 2 .. OneLast
        BY <3>2 DEF OnePasses
      <4>2. m = z
        BY <1>b, <2>1, <2>2, <4>1 DEF OnePasses
      <4> QED BY <1>b, <2>5, <4>1, <4>2
    <3> QED BY <3>1, <3>2, <1>a, <1>b
  <2>7. Users' = {}
    BY <2>1, <2>6
  <2>8. \A q \in UserPid : ~exiting'[q]
    <3>1. \A q \in UserPid : exiting[q] => q \in Users
      BY DEF OnePasses
    <3>2. \A q \in UserPid : exiting'[q] = IF q = z THEN FALSE ELSE exiting[q]
      BY <1>2, <1>a DEF InitReapsIt, Leaves
    <3> QED BY <2>6, <3>1, <3>2
  <2> QED BY <2>7, <2>8 DEF OnePasses
<1>3. ASSUME NEW p \in Users, Calls(p) PROVE OnePasses'
  <2>1. Call(p).op \in {"wait", "yield"} /\ (Call(p).op = "wait" => Call(p).store = "kernel")
    BY <1>3, OnePlaces DEF Calls
  <2>2. ip[p] \notin {1, OneLast, MainEnd, OneEnd}
    BY <1>a, <1>b, <2>1, OneCall
  <2>3. ip' = [ip EXCEPT ![p] = ip[p] + 1]
    <3>1. Call(p).op = "wait" => After(p, "error", "any") = ip[p] + 1
      BY <2>2, OneCall, Afters
    <3> QED BY <1>3, <2>1, <3>1 DEF Calls
  <2>4. mem' = mem /\ Users' = Users /\ parent' = parent /\ exiting' = exiting
    BY <1>3, <2>1 DEF Calls, Moves
  <2> QED BY <2>2, <2>3, <2>4, OneAdvances
<1>4. ASSUME NEW p \in Users, NoneLeft(p) PROVE OnePasses'
  <2>1. p \in InWait /\ Call(p).op = "wait" /\ Call(p).store # "kernel" /\ wpid[p] = Pid(p, Call(p).var)
    BY <1>4 DEF NoneLeft, Running
  <2>2. ip[p] # OneLast
    <3> SUFFICES ASSUME ip[p] = OneLast PROVE FALSE
      OBVIOUS
    <3>1. wpid[p] = mem[p]["pid"]
      BY <2>1, OneCall DEF Pid
    <3>2. mem[p]["pid"] \in Users /\ parent[mem[p]["pid"]] = p
      BY <1>b DEF OnePasses
    <3> QED BY <1>4, <3>1, <3>2 DEF NoneLeft
  <2>3. ip[p] \notin {1, OneLast, MainEnd, OneEnd}
    BY <1>a, <1>b, <2>1, <2>2, OneCall
  <2>4. After(p, "error", "any") = ip[p] + 1
    BY <2>1, <2>2, OneCall, Afters
  <2>5. ip' = [ip EXCEPT ![p] = ip[p] + 1] /\ UNCHANGED <<parent, mem, exiting>> /\ Users' = Users
    BY <1>4, <2>4 DEF NoneLeft, Moves
  <2> QED BY <2>3, <2>5, OneAdvances
<1>5. ASSUME NEW p \in Users, Kills(p) PROVE OnePasses'
  <2> DEFINE q == mem[p]["pid"]
  <2>1. prog = "spin" /\ ip[p] = OneLast - 1 /\ Call(p).var = "pid" /\ OneLast - 1 \in 2 .. OneLast
    <3>1. Call(p).op = "kill"
      BY <1>5 DEF Kills
    <3>2. prog = "spin" /\ ip[p] = OneLast - 1 /\ Call(p).var = "pid"
      BY <3>1, OneCall
    <3> QED BY <3>2, ProgramsAssumption DEF OneLast
  <2>2. q \in Users /\ ip[q] > MainEnd /\ parent[q] = p /\ q # p
    BY <1>b, <2>1 DEF OnePasses
  <2>3. \A x \in UserPid : ~exiting[x]
    BY <1>b, <2>1 DEF OnePasses
  <2>4. Pid(p, Call(p).var) = q
    BY <2>1 DEF Pid
  <2>5. q \in Live /\ ~exiting[q]
    BY <2>2, <2>3, <1>a DEF Users
  <2>6. exiting' = [exiting EXCEPT ![q] = TRUE]
        /\ ip' = [ip EXCEPT ![p] = OneLast]
    <3>1. AfterKill(p, "0") = OneLast
      BY <2>1, <1>b DEF AfterKill
    <3> QED BY <1>5, <2>4, <2>5, <3>1 DEF Kills
  <2>7. Users' = Users /\ parent' = parent /\ mem' = mem
    BY <1>5 DEF Kills, Moves
  <2>8. \A x \in Users : ip'[x] = IF x = p THEN OneLast ELSE ip[x]
    BY <2>6, <1>a
  <2>9. \A x \in UserPid : exiting'[x] => x = q
    BY <2>3, <2>6, <1>a
  <2>10. \A x \in Users : /\ ip'[x] \in 1 .. OneEnd
                          /\ (ip'[x] <= MainEnd <=> ip[x] <= MainEnd)
                          /\ (ip'[x] > MainEnd <=> ip[x] > MainEnd)
                          /\ (ip'[x] \in 2 .. OneLast <=> ip[x] \in 2 .. OneLast)
    BY <1>a, <1>b, <2>1, <2>8
  <2>11. \A x \in Users : ip'[x] <= MainEnd => ip'[x] = OneLast
    BY <1>b, <2>1, <2>8, <2>10 DEF OnePasses
  <2> HIDE DEF q
  <2>12. \A x \in UserPid : exiting'[x] =>
           /\ prog' = "spin" /\ x \in Users' /\ ip'[x] > MainEnd'
           /\ \A y \in Users' : ip'[y] <= MainEnd' => ip'[y] = OneLast'
    BY <1>a, <2>1, <2>2, <2>7, <2>9, <2>10, <2>11
  <2>13. \A c \in Users' : ip'[c] > MainEnd' =>
           \E x \in Users' : ip'[x] \in 2 .. OneLast' /\ mem'[x]["pid"] = c
    BY <1>a, <2>7, <2>10 DEF OnePasses
  <2>14. \A x \in Users' : ip'[x] \in 2 .. OneLast' =>
            /\ mem'[x]["pid"] \in Users'
            /\ ip'[mem'[x]["pid"]] > MainEnd' /\ parent'[mem'[x]["pid"]] = x
    BY <1>a, <2>7, <2>10 DEF OnePasses
  <2>15. \A x \in Users' : ip'[x] <= MainEnd' =>
            /\ parent'[x] = initproc
            /\ \A y \in Users' : ip'[y] <= MainEnd' => y = x
    BY <1>a, <2>7, <2>10 DEF OnePasses
  <2> QED BY <1>a, <2>7, <2>10, <2>12, <2>13, <2>14, <2>15 DEF OnePasses
<1>6. ASSUME NEW p \in Users, NEW c \in UserPid, Adopts(p, c) PROVE FALSE
  <2>1. p \in Dying /\ c \in Users /\ parent[c] = p /\ p # initproc
    BY <1>6, <1>a, ProcAssumption DEF Adopts
  <2>2. ip[c] > MainEnd /\ ip[p] \in 2 .. OneLast
    <3>1. ip[c] \in 1 .. OneEnd /\ ~(ip[c] <= MainEnd)
      BY <2>1, <1>a, OneFamily
    <3>2. ip[c] > MainEnd
      BY <1>b, <3>1
    <3> QED BY <2>1, <3>2, OneFamily
  <2>3. ~exiting[p]
    BY <1>a, <1>b, <2>2 DEF OnePasses
  <2>4. Call(p).op = "exit"
    BY <2>1, <2>3 DEF Running
  <2> QED BY <2>2, <2>4, <1>b, OneCall
<1>7. CASE (\E p \in Users : Waits(p) \/ Exits(p) \/ Obeys(p)) \/ Rests
  <2>1. Users' = Users /\ UNCHANGED <<parent, ip, mem, exiting>>
    BY <1>7 DEF Waits, Exits, Obeys, Rests, Moves
  <2> QED BY <2>1, OneKeeps
<1> QED BY <1>1, <1>2, <1>3, <1>4, <1>5, <1>6, <1>7, OneForks, OneReturns DEF ProgramStep

\* Whoever dies does so with an exit code of the program.
LEMMA OneCodes ==
    ASSUME Running, prog \in OneChild, OnePasses, NEW p \in Dying
    PROVE  exit_code[p] \in Expected[prog]
<1>1. p \in Users /\ p \in UserPid /\ ip[p] \in 1 .. OneEnd
  BY Apart DEF OnePasses
<1>2. CASE exiting[p] /\ exit_code[p] = "E_KILLED"
  BY <1>1, <1>2 DEF OnePasses, Expected
<1>3. CASE Call(p).op = "exit" /\ exit_code[p] = Call(p).code
  <2>1. MainEnd \in Nat /\ OneEnd \in Nat /\ OneLast \in 2 .. MainEnd - 1 /\ MainEnd < OneEnd
    BY <1>1, OneCall
  <2>2. ip[p] >= MainEnd
    BY <1>1, <1>3, <2>1, OneCall
  <2>3. "0" \in Expected[prog]
    BY DEF Expected, OneChild
  <2> QED BY <1>1, <1>3, <2>1, <2>2, <2>3, OneCall
<1> QED BY <1>2, <1>3 DEF Running

\* forktest: the next call of each process.
LEMMA TestCall ==
    ASSUME prog = "forktest", TestPasses, NEW p \in Users
    PROVE  /\ MaxChild \in Nat /\ ip[p] \in 1 .. 2 * MaxChild + 3
           /\ ip[p] <= MaxChild =>
                 /\ Call(p).op = "fork" /\ Call(p).want = "pid" /\ Call(p).var = "pid"
                 /\ Call(p).child = 2 * MaxChild + 3
           /\ ip[p] \in MaxChild + 1 .. 2 * MaxChild + 1 =>
                 /\ Call(p).op = "wait" /\ Call(p).var = "any" /\ Call(p).store # "kernel"
                 /\ Call(p).want = (IF ip[p] <= 2 * MaxChild THEN "zero" ELSE "nonzero") /\ Call(p).code = "any"
           /\ ip[p] > 2 * MaxChild + 1 => Call(p).op = "exit" /\ Call(p).code = "0"
           /\ Call(p).op \in {"fork", "wait", "exit"}
           /\ Call(p).op = "wait" => Call(p).store # "kernel"
<1> DEFINE i == ip[p]
           c == Call(p)
<1>1. i \in 1 .. 2 * MaxChild + 3 /\ MaxChild \in Nat
  BY ProgramsAssumption DEF TestPasses
<1>2. c = Code[prog][i]
  BY <1>1 DEF Call
<1> HIDE DEF i, c
<1>3. /\ i <= MaxChild => c.op = "fork" /\ c.want = "pid" /\ c.var = "pid" /\ c.child = 2 * MaxChild + 3
      /\ i \in MaxChild + 1 .. 2 * MaxChild + 1 =>
            /\ c.op = "wait" /\ c.var = "any" /\ c.store # "kernel"
            /\ c.want = (IF i <= 2 * MaxChild THEN "zero" ELSE "nonzero") /\ c.code = "any"
      /\ i > 2 * MaxChild + 1 => c.op = "exit" /\ c.code = "0"
  BY <1>1, <1>2, TestCode
<1>4. i <= MaxChild \/ i \in MaxChild + 1 .. 2 * MaxChild + 1 \/ i > 2 * MaxChild + 1
  BY <1>1
<1> QED BY <1>1, <1>3, <1>4 DEF i, c

\* The processes of forktest are finitely many: two of them at least when there is a child.
LEMMA UsersCounted ==
    /\ IsFiniteSet(Users) /\ Cardinality(Users) \in Nat
    /\ \A p \in Users : Cardinality(Users \ {p}) = Cardinality(Users) - 1
    /\ \A p \in Users, q \in Users : p # q => Cardinality(Users) >= 2
    /\ \A p \in Users : Cardinality(Users) >= 2 => \E q \in Users : q # p
    /\ \A c \in UserPid \ Users : Cardinality(Users \cup {c}) = Cardinality(Users) + 1
<1>1. IsFiniteSet(Users)
  BY PidsSuffice, FS_Subset DEF Users
<1>2. Cardinality(Users) \in Nat
  BY <1>1, FS_CardinalityType
<1>3. ASSUME NEW p \in Users
      PROVE  IsFiniteSet(Users \ {p}) /\ Cardinality(Users \ {p}) = Cardinality(Users) - 1
  BY <1>1, FS_RemoveElement
<1>4. ASSUME NEW p \in Users, NEW q \in Users, p # q
      PROVE  Cardinality(Users) >= 2
  <2>1. Cardinality(Users \ {p}) # 0 /\ Cardinality(Users \ {p}) \in Nat
    BY <1>3, <1>4, FS_EmptySet, FS_CardinalityType
  <2> QED BY <1>2, <1>3, <2>1
<1>5. ASSUME NEW p \in Users, Cardinality(Users) >= 2
      PROVE  \E q \in Users : q # p
  <2>1. Users \ {p} # {}
    BY <1>2, <1>3, <1>5, FS_EmptySet
  <2> QED BY <2>1
<1>6. ASSUME NEW c \in UserPid \ Users
      PROVE  Cardinality(Users \cup {c}) = Cardinality(Users) + 1
  BY <1>1, <1>6, FS_AddElement
<1> QED BY <1>1, <1>2, <1>3, <1>4, <1>5, <1>6

\* The step that changes the number of children, or ends them.
LEMMA TestMoves ==
    ASSUME prog = "forktest", TestPasses, prog' = prog, Running, NEW p \in Users, NEW q \in UserPid,
           q # p, ip[p] # 2 * MaxChild + 3, Users' \in {Users \cup {q}, Users \ {q}},
           \A x \in Users \ {p, q} : ip'[x] = ip[x] /\ parent'[x] = parent[x],
           parent'[p] = parent[p],
           q \in Users' => ip'[q] = 2 * MaxChild + 3 /\ parent'[q] = p,
           ip'[p] = ip[p] + 1, ip[p] + 1 # 2 * MaxChild + 3,
           Cardinality(Users') = IF ip[p] + 1 <= MaxChild + 1 THEN ip[p] + 1
                                 ELSE IF ip[p] + 1 <= 2 * MaxChild + 1 THEN 2 * MaxChild + 2 - (ip[p] + 1) ELSE 1,
           \A x \in UserPid : ~exiting'[x]
    PROVE  TestPasses'
<1>a. MaxChild \in Nat /\ \A x \in Users : ip[x] \in 1 .. 2 * MaxChild + 3
  BY ProgramsAssumption DEF TestPasses
<1>b. p \in Users' /\ \A x \in Users' : x \in Users \/ x = q
  OBVIOUS
<1>c. \A x \in Users : ip[x] # 2 * MaxChild + 3 => x = p
  BY DEF TestPasses
<1>1. \A x \in Users' : ip'[x] \in 1 .. 2 * MaxChild + 3
  BY <1>a, <1>b
<1>2. \A x \in Users' : ip'[x] # 2 * MaxChild + 3 => x = p
  BY <1>b, <1>c
<1>3. \A x \in Users' : ip'[x] = 2 * MaxChild + 3 => parent'[x] = p
  <2> SUFFICES ASSUME NEW x \in Users', ip'[x] = 2 * MaxChild + 3, x # q PROVE parent'[x] = p
    BY <1>b
  <2>1. x # p /\ x \in Users
    BY <1>b, <1>a
  <2>2. ip[x] = 2 * MaxChild + 3 /\ parent'[x] = parent[x]
    BY <2>1
  <2> QED BY <1>c, <2>1, <2>2 DEF TestPasses
<1>4. parent'[p] = initproc
  BY DEF TestPasses
<1> QED BY <1>b, <1>1, <1>2, <1>3, <1>4 DEF TestPasses

\* Who is who in forktest.
LEMMA TestFamily ==
    ASSUME IInv, prog = "forktest", TestPasses, NEW z \in Users
    PROVE  /\ parent[z] = initproc <=> ip[z] # 2 * MaxChild + 3
           /\ parent[z] # initproc => parent[z] \in Users /\ ip[parent[z]] # 2 * MaxChild + 3
<1>1. initproc \notin Users
  BY ProcAssumption DEF Users
<1> QED BY <1>1 DEF TestPasses

\* How many processes there are, by where the main process is.
LEMMA TestCount ==
    ASSUME TestPasses, NEW p \in Users, ip[p] # 2 * MaxChild + 3
    PROVE  /\ ip[p] <= MaxChild + 1 => Cardinality(Users) = ip[p]
           /\ ip[p] \in MaxChild + 1 .. 2 * MaxChild + 1 => Cardinality(Users) = 2 * MaxChild + 2 - ip[p]
           /\ ip[p] = 2 * MaxChild + 2 => Cardinality(Users) = 1
<1> DEFINE i == ip[p]
           n == Cardinality(Users)
<1>1. i \in 1 .. 2 * MaxChild + 3 /\ MaxChild \in Nat
  BY ProgramsAssumption DEF TestPasses
<1>2. n = IF i <= MaxChild + 1 THEN i ELSE IF i <= 2 * MaxChild + 1 THEN 2 * MaxChild + 2 - i ELSE 1
  BY DEF TestPasses
<1> HIDE DEF i, n
<1>3. /\ i <= MaxChild + 1 => n = i
      /\ i \in MaxChild + 1 .. 2 * MaxChild + 1 => n = 2 * MaxChild + 2 - i
      /\ i = 2 * MaxChild + 2 => n = 1
  BY <1>1, <1>2
<1> QED BY <1>3 DEF i, n

LEMMA TestForks ==
    ASSUME IInv, Running, prog = "forktest", TestPasses, prog' = prog,
           NEW p \in Users, NEW c \in UserPid, Forks(p, c)
    PROVE  TestPasses'
<1>1. Call(p).op = "fork" /\ c \notin Users /\ p # c
  BY DEF Forks
<1>2. MaxChild \in Nat /\ ip[p] \in 1 .. MaxChild
  BY <1>1, TestCall
<1>3. Call(p).child = 2 * MaxChild + 3 /\ After(p, "pid", "any") = ip[p] + 1
  BY <1>2, TestCall, Afters
<1>4. /\ ip'[p] = ip[p] + 1 /\ ip'[c] = 2 * MaxChild + 3
      /\ \A x \in Users \ {p, c} : ip'[x] = ip[x]
  BY <1>1, <1>3, Apart DEF Forks, Running
<1>5. parent'[c] = p /\ \A x \in Users \ {c} : parent'[x] = parent[x]
  BY <1>1, Apart DEF Forks, IInv, TypeOK
<1>6. Users' = Users \cup {c} /\ \A x \in UserPid : ~exiting'[x]
  BY DEF Forks, Moves, TestPasses
<1>7. Cardinality(Users') = ip[p] + 1
  <2>1. Cardinality(Users) = ip[p]
    <3>1. ip[p] # 2 * MaxChild + 3 /\ ip[p] <= MaxChild + 1
      BY <1>2
    <3> QED BY <3>1, TestCount
  <2> QED BY <1>1, <1>6, <2>1, UsersCounted
<1>8. ip[p] # 2 * MaxChild + 3 /\ ip[p] + 1 # 2 * MaxChild + 3 /\ ip[p] + 1 <= MaxChild + 1
  BY <1>2
<1> QED BY <1>1, <1>4, <1>5, <1>6, <1>7, <1>8, TestMoves

LEMMA TestReturns ==
    ASSUME IInv, Running, prog = "forktest", TestPasses, prog' = prog,
           NEW p \in Users, NEW z \in UserPid, Returns(p, z)
    PROVE  TestPasses'
<1>1. /\ p \in InWait /\ z \in Users /\ p # z /\ parent[z] = p
      /\ Users' = Users \ {z} /\ parent' = [parent EXCEPT ![z] = NULL] /\ exiting' = [exiting EXCEPT ![z] = FALSE]
      /\ ip' = [ip EXCEPT ![p] = After(p, "0", exit_code[z])]
  BY Apart DEF Returns, Leaves, Moves
<1>2. MaxChild \in Nat /\ ip[p] \in MaxChild + 1 .. 2 * MaxChild + 1
  <2>1. Call(p).op = "wait"
    BY <1>1 DEF Running
  <2> QED BY <2>1, TestCall
<1>3. /\ ip[p] # 2 * MaxChild + 3 /\ Cardinality(Users) = 2 * MaxChild + 2 - ip[p]
      /\ ip[p] <= 2 * MaxChild /\ ip[p] + 1 # 2 * MaxChild + 3
  <2>1. ip[p] # 2 * MaxChild + 3
    BY <1>2
  <2>2. Cardinality(Users) = 2 * MaxChild + 2 - ip[p]
    BY <1>2, <2>1, TestCount
  <2>3. Cardinality(Users) >= 2
    BY <1>1, UsersCounted
  <2> QED BY <1>2, <2>1, <2>2, <2>3
<1>4. After(p, "0", exit_code[z]) = ip[p] + 1
  <2>1. Call(p).want = "zero" /\ Call(p).code = "any"
    BY <1>2, <1>3, TestCall
  <2> QED BY <2>1, Afters
<1>5. ip'[p] = ip[p] + 1 /\ \A x \in Users \ {p, z} : ip'[x] = ip[x]
  BY <1>1, <1>4, Apart DEF Running
<1>6. \A x \in Users \ {z} : parent'[x] = parent[x]
  BY <1>1, Apart DEF IInv, TypeOK
<1>7. \A x \in UserPid : ~exiting'[x]
  BY <1>1, Apart DEF TestPasses, IInv, TypeOK
<1>8. Cardinality(Users') = 2 * MaxChild + 2 - (ip[p] + 1)
  BY <1>1, <1>2, <1>3, UsersCounted
<1>9. Cardinality(Users') = IF ip[p] + 1 <= MaxChild + 1 THEN ip[p] + 1
                            ELSE IF ip[p] + 1 <= 2 * MaxChild + 1 THEN 2 * MaxChild + 2 - (ip[p] + 1) ELSE 1
  BY <1>2, <1>3, <1>8
<1> QED BY <1>1, <1>3, <1>5, <1>6, <1>7, <1>9, TestMoves

LEMMA TestStep ==
    ASSUME IInv, Running, prog = "forktest", TestPasses, ProgramStep, prog' = prog
    PROVE  TestPasses'
<1>a. /\ MaxChild \in Nat /\ \A p \in Users : ip[p] \in 1 .. 2 * MaxChild + 3
      /\ \A p \in UserPid : ~exiting[p]
      /\ ip = [p \in UserPid |-> ip[p]] /\ Users \subseteq UserPid /\ UserPid \subseteq Process
      /\ parent \in [Process -> Ptr] /\ exiting \in [Process -> BOOLEAN]
  BY ProgramsAssumption, Apart DEF TestPasses, Running, IInv, TypeOK
<1>b. \A p \in Dying : ip[p] > 2 * MaxChild + 1
  <2> SUFFICES ASSUME NEW p \in Dying PROVE ip[p] > 2 * MaxChild + 1
    OBVIOUS
  <2>1. p \in Users /\ ~exiting[p]
    BY <1>a, Apart
  <2>2. Call(p).op = "exit"
    BY <2>1 DEF Running
  <2>3. ~(ip[p] <= MaxChild) /\ ~(ip[p] \in MaxChild + 1 .. 2 * MaxChild + 1)
    BY <2>1, <2>2, TestCall
  <2> QED BY <1>a, <2>1, <2>3
<1>1. ASSUME NEW c \in UserPid, Starts(c) PROVE TestPasses'
  <2>1. /\ Users' = {c} /\ ip'[c] = 1 /\ parent'[c] = initproc /\ exiting' = exiting
    BY <1>1, <1>a DEF Starts, Moves
  <2>2. Cardinality({c}) = 1
    BY FS_Singleton
  <2> QED BY <1>a, <2>1, <2>2 DEF TestPasses
<1>2. ASSUME NEW z \in UserPid, InitReapsIt(z) PROVE TestPasses'
  <2>1. z \in Dying /\ z \in Users /\ parent[z] = initproc /\ Users' = Users \ {z}
        /\ exiting' = [exiting EXCEPT ![z] = FALSE]
    BY <1>2, Apart DEF InitReapsIt, Leaves, Moves
  <2>2. ip[z] # 2 * MaxChild + 3
    BY <2>1, TestFamily
  <2>3. Cardinality(Users) = 1
    <3>1. ip[z] = 2 * MaxChild + 2
      BY <1>a, <1>b, <2>1, <2>2
    <3> QED BY <2>1, <2>2, <3>1, TestCount
  <2>4. \A q \in Users : q = z
    BY <2>1, <2>3, UsersCounted
  <2>5. Users' = {} /\ \A q \in UserPid : ~exiting'[q]
    BY <1>a, <2>1, <2>4
  <2> QED BY <2>5 DEF TestPasses
<1>3. ASSUME NEW p \in Users, NoneLeft(p) PROVE TestPasses'
  <2>1. /\ p \in InWait /\ \A q \in Users : parent[q] = p => wpid[p] \notin {ANY, q}
        /\ Users' = Users /\ ip' = [ip EXCEPT ![p] = After(p, "error", "any")]
        /\ UNCHANGED <<parent, exiting>>
    BY <1>3 DEF NoneLeft, Moves
  <2>2. Call(p).op = "wait" /\ wpid[p] = Pid(p, Call(p).var)
    BY <2>1 DEF Running
  <2>3. ip[p] \in MaxChild + 1 .. 2 * MaxChild + 1
    BY <2>2, TestCall
  <2>4. wpid[p] = ANY
    <3>1. Call(p).var = "any"
      BY <2>3, TestCall
    <3> QED BY <2>2, <3>1 DEF Pid
  <2>5. ip[p] # 2 * MaxChild + 3 /\ Cardinality(Users) = 2 * MaxChild + 2 - ip[p]
    <3>1. ip[p] # 2 * MaxChild + 3
      BY <1>a, <2>3
    <3> QED BY <2>3, <3>1, TestCount
  <2>6. \A q \in Users : q = p
    <3> SUFFICES ASSUME NEW q \in Users, q # p PROVE FALSE
      OBVIOUS
    <3>1. ip[q] = 2 * MaxChild + 3
      BY <2>5 DEF TestPasses
    <3>2. parent[q] = p
      BY <2>5, <3>1 DEF TestPasses
    <3> QED BY <2>1, <2>4, <3>2
  <2>7. ip[p] = 2 * MaxChild + 1
    <3>1. ~(Cardinality(Users) >= 2)
      BY <2>6, UsersCounted
    <3> QED BY <1>a, <2>3, <2>5, <3>1, UsersCounted
  <2>8. ip'[p] = 2 * MaxChild + 2
    <3>1. Call(p).want = "nonzero"
      BY <1>a, <2>3, <2>7, TestCall
    <3>2. After(p, "error", "any") = ip[p] + 1
      BY <3>1, Afters
    <3> QED BY <1>a, <2>1, <2>7, <3>2
  <2>9. Cardinality(Users) = 1
    BY <1>a, <2>5, <2>7
  <2> QED BY <1>a, <2>1, <2>5, <2>6, <2>8, <2>9 DEF TestPasses
<1>4. ASSUME NEW p \in Users, NEW c \in UserPid, Adopts(p, c) PROVE FALSE
  <2>1. p \in Dying /\ c \in Users /\ parent[c] = p /\ p # initproc
    BY <1>4, <1>a, ProcAssumption DEF Adopts
  <2>2. ip[p] # 2 * MaxChild + 3 /\ c # p
    BY <2>1, <1>a, TestFamily DEF IInv, Kinship
  <2>3. Cardinality(Users) = 1
    <3>1. ip[p] = 2 * MaxChild + 2
      BY <1>a, <1>b, <2>1, <2>2
    <3> QED BY <2>2, <3>1, TestCount
  <2> QED BY <2>1, <2>2, <2>3, UsersCounted
<1>5. CASE \E p \in Users : Calls(p) \/ Kills(p)
  BY <1>5, TestCall DEF Calls, Kills
<1>6. CASE \E p \in Users : Obeys(p)
  BY <1>6, <1>a DEF Obeys
<1>7. CASE (\E p \in Users : Waits(p) \/ Exits(p)) \/ Rests
  <2>1. Users' = Users /\ UNCHANGED <<parent, ip, exiting>>
    BY <1>7 DEF Waits, Exits, Rests, Moves
  <2> QED BY <2>1 DEF TestPasses
<1> QED BY <1>1, <1>2, <1>3, <1>4, <1>5, <1>6, <1>7, TestForks, TestReturns DEF ProgramStep

\* waitkill: the next call of each process.
LEMMA KillCalls ==
    ASSUME prog = "waitkill", KillRoles, NEW p \in Users
    PROVE  /\ ip[p] \in 0 .. 4 \cup {7} \cup 8 .. ToldChild
           /\ ip[p] = 2 => Call(p).want = "pid" /\ Call(p).var = "pid" /\ Call(p).child = 7
           /\ ip[p] = 3 => Call(p).want = "pid" /\ Call(p).var = "pid2" /\ Call(p).child = 8
           /\ ip[p] = 4 => Call(p).var = "pid" /\ Call(p).want = "never" /\ Call(p).else = 0
           /\ Call(p).op = "getpid" => ip[p] = 1
           /\ Call(p).op = "fork" => ip[p] \in {2, 3}
           /\ Call(p).op = "wait" => ip[p] = 4 /\ Call(p).store # "kernel"
           /\ Call(p).op = "exit" => ip[p] \in {0, ToldChild}
           /\ Call(p).op = "yield" => ip[p] \in 8 .. ToldChild - 1 /\ ip[p] \notin {ToldRoot - 1, ToldChild - 1}
           /\ Call(p).op = "kill" => \/ ip[p] = ToldRoot - 1 /\ Call(p).var = "parent"
                                     \/ ip[p] = ToldChild - 1 /\ Call(p).var = "pid"
           /\ ip[p] = ToldChild => Call(p).code = "0"
           /\ ToldRoot \in Nat /\ ToldChild \in Nat /\ 8 < ToldRoot /\ ToldRoot < ToldChild
<1> DEFINE i == ip[p]
           c == Call(p)
<1>0. ToldRoot \in Nat /\ ToldChild \in Nat /\ 8 < ToldRoot /\ ToldRoot < ToldChild
  BY ProgramsAssumption DEF ToldRoot, ToldChild
<1>1. i \in 0 .. 4 \cup {7} \cup 8 .. ToldChild
  BY DEF KillRoles
<1>2. CASE i = 0
  <2>1. c.op = "exit"
    BY <1>2 DEF Call, Panic, exit
  <2> QED BY <1>0, <1>2, <2>1
<1>3. CASE i # 0
  <2>1. c = Code[prog][i] /\ i \in 1 .. ToldChild
    BY <1>0, <1>1, <1>3 DEF Call
  <2> HIDE DEF i, c
  <2>2. /\ i = 1 => c.op = "getpid"
        /\ i = 2 => c.op = "fork" /\ c.want = "pid" /\ c.var = "pid" /\ c.child = 7
        /\ i = 3 => c.op = "fork" /\ c.want = "pid" /\ c.var = "pid2" /\ c.child = 8
        /\ i = 4 => c.op = "wait" /\ c.var = "pid" /\ c.want = "never" /\ c.store # "kernel" /\ c.else = 0
        /\ i = 7 => c.op = "loop"
        /\ i \in 8 .. ToldChild - 1 => c.op \in {"yield", "kill"}
        /\ i >= 8 /\ c.op = "kill" =>
              \/ i = ToldRoot - 1 /\ c.var = "parent"
              \/ i = ToldChild - 1 /\ c.var = "pid"
        /\ i \in {ToldRoot - 1, ToldChild - 1} => c.op = "kill"
        /\ i = ToldChild => c.op = "exit" /\ c.code = "0"
    BY <2>1, KillCode
  <2>3. /\ i = 2 => c.want = "pid" /\ c.var = "pid" /\ c.child = 7
        /\ i = 3 => c.want = "pid" /\ c.var = "pid2" /\ c.child = 8
        /\ i = 4 => c.var = "pid" /\ c.want = "never" /\ c.else = 0
        /\ i = ToldChild => c.code = "0"
    BY <2>2
  <2>4. /\ c.op = "getpid" => i = 1
        /\ c.op = "fork" => i \in {2, 3}
        /\ c.op = "wait" => i = 4 /\ c.store # "kernel"
        /\ c.op = "exit" => i \in {0, ToldChild}
        /\ c.op = "yield" => i \in 8 .. ToldChild - 1 /\ i \notin {ToldRoot - 1, ToldChild - 1}
        /\ c.op = "kill" => \/ i = ToldRoot - 1 /\ c.var = "parent"
                            \/ i = ToldChild - 1 /\ c.var = "pid"
    <3>1. CASE i \in 1 .. 4
      BY <1>0, <2>2, <3>1
    <3>2. CASE i = 7
      BY <1>0, <2>2, <3>2
    <3>3. CASE i \in 8 .. ToldChild - 1
      BY <1>0, <2>2, <3>3
    <3>4. CASE i = ToldChild
      BY <1>0, <2>2, <3>4
    <3> QED BY <1>0, <1>1, <1>3, <3>1, <3>2, <3>3, <3>4 DEF i
  <2> QED BY <1>0, <1>1, <2>3, <2>4 DEF i, c
<1> QED BY <1>2, <1>3

\* Who dies without having been marked has made all its calls.
LEMMA KillDying ==
    ASSUME prog = "waitkill", KillRoles, Running, NEW z \in Dying, ~exiting[z]
    PROVE  ip[z] = ToldChild /\ exit_code[z] = "0"
<1>1. z \in Users
  BY Apart
<1>2. Call(z).op = "exit" /\ exit_code[z] = Call(z).code
  BY DEF Running
<1>3. ip[z] # 0
  BY <1>1 DEF KillRoles, IsRoot
<1> QED BY <1>1, <1>2, <1>3, KillCalls

\* A step in which nobody appears, goes or makes a call with a result.
LEMMA KillKeeps ==
    ASSUME prog = "waitkill", KillPasses, Steady, Users' = Users, UNCHANGED <<prog, ip, mem, exiting>>,
           Dying \subseteq Dying',
           \A r \in Users : IsRoot(r) /\ r \in Dying' => exit_code'[r] = "E_KILLED",
           \A r \in Users : parent'[r] = parent[r] \/ (parent'[r] = initproc /\ parent[r] \in Dying)
    PROVE  KillPasses'
<1>1. KillRoles'
  <2>1. \A r \in Users : ip[r] = 0 => exiting[r] /\ r \notin Ready'
    BY DEF KillPasses, KillRoles, Steady, IsRoot
  <2>2. \A r \in Users : IsRoot(r) => parent'[r] = initproc
    BY DEF KillPasses, KillRoles
  <2> QED BY <2>1, <2>2 DEF KillPasses, KillRoles, IsRoot, IsSecond, ToldChild
<1>2. RootWaits'
  <2> SUFFICES ASSUME NEW r \in Users \ Dying', ip[r] \in {3, 4}
               PROVE  mem[r]["pid"] \in Users /\ ip[mem[r]["pid"]] = 7 /\ parent'[mem[r]["pid"]] = r
    BY DEF RootWaits
  <2>1. mem[r]["pid"] \in Users /\ ip[mem[r]["pid"]] = 7 /\ parent[mem[r]["pid"]] = r
    BY DEF KillPasses, RootWaits
  <2> QED BY <2>1
<1>3. RootFound' /\ FirstFound' /\ RootFirst'
  BY DEF KillPasses, RootFound, FirstFound, RootFirst, IsRoot, IsSecond, ToldRoot, ToldChild
<1> QED BY <1>1, <1>2, <1>3 DEF KillPasses

\* Each process has its role to itself.
LEMMA KillApart ==
    ASSUME prog = "waitkill", KillPasses
    PROVE  /\ \A p \in Users : IsRoot(p) \/ ip[p] = 7 \/ IsSecond(p)
           /\ \A p \in Users : ip[p] \in Nat
           /\ \A p, q \in Users : IsRoot(p) /\ IsRoot(q) => p = q
           /\ \A p, q \in Users : ip[p] = 7 /\ ip[q] = 7 => p = q
           /\ \A p, q \in Users : IsSecond(p) /\ IsSecond(q) => p = q
           /\ ToldRoot \in Nat /\ ToldChild \in Nat /\ 8 < ToldRoot /\ ToldRoot < ToldChild
<1>1. ToldRoot \in Nat /\ ToldChild \in Nat /\ 8 < ToldRoot /\ ToldRoot < ToldChild
  BY ProgramsAssumption DEF ToldRoot, ToldChild
<1>2. \A p \in Users : ip[p] \in 0 .. 4 \cup {7} \cup 8 .. ToldChild
  BY DEF KillPasses, KillRoles
<1>3. \A p \in Users : ip[p] \in Nat /\ (IsRoot(p) \/ ip[p] = 7 \/ IsSecond(p))
  BY <1>1, <1>2 DEF IsRoot, IsSecond
<1>4. \A p, q \in Users :
        /\ IsRoot(p) /\ IsRoot(q) => p = q
        /\ ip[p] = 7 /\ ip[q] = 7 => p = q
        /\ IsSecond(p) /\ IsSecond(q) => p = q
  BY DEF KillPasses, KillRoles
<1> QED BY <1>1, <1>3, <1>4

LEMMA KillStarts ==
    ASSUME IInv, Running, prog = "waitkill", KillPasses, NEW c \in UserPid, Starts(c)
    PROVE  KillPasses'
<1>1. /\ Users' = {c} /\ ip'[c] = 1 /\ parent'[c] = initproc /\ ~exiting'[c] /\ Dying' = {}
  BY Apart DEF Starts, Moves, Running, IInv, TypeOK
<1>2. KillRoles'
  BY <1>1 DEF KillRoles, IsRoot, IsSecond
<1>3. RootWaits' /\ RootFound' /\ FirstFound' /\ RootFirst'
  BY <1>1, KillApart DEF RootWaits, RootFound, FirstFound, RootFirst, IsSecond, ToldRoot
<1> QED BY <1>2, <1>3 DEF KillPasses

LEMMA KillForks ==
    ASSUME IInv, Running, prog = "waitkill", KillPasses, NEW p \in Users, NEW c \in UserPid, Forks(p, c)
    PROVE  KillPasses'
<1>0. ToldRoot' = ToldRoot /\ ToldChild' = ToldChild
  BY DEF ToldRoot, ToldChild
<1>1. /\ Call(p).op = "fork" /\ c \notin Users /\ p # c /\ p \notin Dying /\ c \notin Dying /\ ~exiting[c]
      /\ p \in UserPid /\ Users \subseteq UserPid /\ UserPid \subseteq Process
      /\ Users' = Users \cup {c} /\ Dying' = Dying /\ exiting' = exiting
  BY Apart DEF Forks, Moves, Running
<1>2. /\ ip[p] \in {2, 3} /\ Call(p).want = "pid" /\ Call(p).child = (IF ip[p] = 2 THEN 7 ELSE 8)
      /\ Call(p).var = (IF ip[p] = 2 THEN "pid" ELSE "pid2")
  BY <1>1, KillCalls DEF KillPasses
<1>3. After(p, "pid", "any") = ip[p] + 1
  BY <1>2, Afters
<1>4. /\ ip'[p] = ip[p] + 1 /\ ip'[c] = (IF ip[p] = 2 THEN 7 ELSE 8)
      /\ \A x \in Users \ {p} : ip'[x] = ip[x]
  BY <1>1, <1>2, <1>3 DEF Forks, Running
<1>5. parent'[c] = p /\ \A x \in Users : parent'[x] = parent[x]
  BY <1>1 DEF Forks, IInv, TypeOK
<1>6. /\ mem'[c] = mem[p] /\ \A x \in Users \ {p} : mem'[x] = mem[x]
      /\ mem'[p]["parent"] = mem[p]["parent"]
      /\ mem'[p]["pid"] = IF ip[p] = 2 THEN c ELSE mem[p]["pid"]
  <2>1. mem' = [mem EXCEPT ![p] = [mem[p] EXCEPT ![Call(p).var] = c], ![c] = mem[p]]
    BY DEF Forks
  <2>2. mem \in [UserPid -> [Var -> Ptr]] /\ mem[p] \in [Var -> Ptr]
    BY <1>1 DEF Running
  <2>3. mem'[p] = [mem[p] EXCEPT ![Call(p).var] = c] /\ mem'[c] = mem[p] /\ \A x \in Users \ {p} : mem'[x] = mem[x]
    BY <1>1, <2>1, <2>2
  <2> QED BY <1>2, <2>2, <2>3 DEF Var
<1>7. /\ IsRoot(p) /\ parent[p] = initproc /\ mem[p]["parent"] = p /\ ~exiting[p]
  BY <1>2 DEF KillPasses, KillRoles, IsRoot, RootFirst
<1>8. CASE ip[p] = 2
  <2>1. Users = {p}
    BY <1>7, <1>8 DEF KillPasses, KillRoles
  <2>2. Users' = {p, c} /\ ip'[p] = 3 /\ ip'[c] = 7
    BY <1>1, <1>4, <1>8, <2>1
  <2>3. KillRoles'
    BY <1>1, <1>5, <1>6, <1>7, <2>2 DEF KillRoles, IsRoot, IsSecond
  <2>4. RootWaits'
    BY <1>1, <1>5, <1>6, <1>8, <2>2 DEF RootWaits
  <2>5. RootFound' /\ FirstFound'
    BY <2>2 DEF RootFound, FirstFound, IsSecond
  <2>6. RootFirst'
    BY <1>0, <1>1, <1>7, <2>2, KillApart DEF RootFirst
  <2> QED BY <2>3, <2>4, <2>5, <2>6 DEF KillPasses
<1>9. CASE ip[p] = 3
  <2> DEFINE d == mem[p]["pid"]
  <2>1. d \in Users /\ ip[d] = 7 /\ parent[d] = p
    BY <1>1, <1>9 DEF KillPasses, RootWaits
  <2>2. \A x \in Users : ~IsSecond(x)
    BY <1>7, <1>9 DEF KillPasses, KillRoles
  <2>3. Users = {p, d}
    BY <1>7, <2>1, <2>2, KillApart
  <2> HIDE DEF d
  <2>4. /\ Users' = {p, d, c} /\ ip'[p] = 4 /\ ip'[d] = 7 /\ ip'[c] = 8
        /\ p # d /\ d # c /\ parent'[p] = initproc /\ parent'[d] = p
    BY <1>1, <1>4, <1>5, <1>7, <1>9, <2>1, <2>3
  <2>5. ~exiting[d]
    BY <1>7, <2>1 DEF KillPasses, RootFirst
  <2>6. mem'[p]["pid"] = d /\ mem'[c]["pid"] = d /\ mem'[c]["parent"] = p /\ mem'[p]["parent"] = p
    BY <1>6, <1>7, <1>9 DEF d
  <2>7. KillRoles'
    BY <1>0, <1>1, <2>4, <2>6, KillApart DEF KillRoles, IsRoot, IsSecond
  <2>8. RootWaits'
    BY <2>4, <2>6 DEF RootWaits
  <2>9. RootFound' /\ FirstFound'
    BY <1>1, <1>7, <2>4, <2>5, <2>6 DEF RootFound, FirstFound, IsSecond
  <2>10. RootFirst'
    BY <1>0, <1>1, <1>7, <2>4, <2>5, KillApart DEF RootFirst
  <2> QED BY <2>7, <2>8, <2>9, <2>10 DEF KillPasses
<1> QED BY <1>2, <1>8, <1>9

LEMMA KillAdvances ==
    ASSUME IInv, Running, prog = "waitkill", KillPasses, Steady, NEW p \in Users, Calls(p)
    PROVE  KillPasses'
<1>0. ToldRoot' = ToldRoot /\ ToldChild' = ToldChild
  BY DEF ToldRoot, ToldChild
<1>1. /\ p \in UserPid /\ p \notin Dying /\ Users \subseteq UserPid
      /\ Users' = Users /\ Dying' = Dying /\ exiting' = exiting /\ parent' = parent
  BY Apart DEF Calls, Moves
<1>2. CASE Call(p).op = "getpid"
  <2>1. ip[p] = 1
    BY <1>2, KillCalls DEF KillPasses
  <2>2. IsRoot(p) /\ Users = {p} /\ parent[p] = initproc /\ ~exiting[p]
    BY <2>1 DEF KillPasses, KillRoles, IsRoot, RootFirst
  <2>3. ip'[p] = 2 /\ mem'[p]["parent"] = p
    <3>1. ip' = [ip EXCEPT ![p] = ip[p] + 1] /\ mem' = [mem EXCEPT ![p] = [mem[p] EXCEPT !["parent"] = p]]
      BY <1>2 DEF Calls
    <3>2. mem \in [UserPid -> [Var -> Ptr]] /\ mem[p] \in [Var -> Ptr] /\ "parent" \in Var
      BY <1>1 DEF Running, Var
    <3>3. mem'[p] = [mem[p] EXCEPT !["parent"] = p]
      BY <1>1, <3>1, <3>2
    <3> QED BY <1>1, <2>1, <3>1, <3>2, <3>3 DEF Running
  <2>4. KillRoles'
    BY <1>1, <2>2, <2>3 DEF KillRoles, IsRoot, IsSecond
  <2>5. RootWaits' /\ RootFound' /\ FirstFound' /\ RootFirst'
    BY <1>0, <1>1, <2>2, <2>3, KillApart DEF RootWaits, RootFound, FirstFound, RootFirst, IsSecond
  <2> QED BY <2>4, <2>5 DEF KillPasses
<1>3. CASE Call(p).op = "yield"
  <2>1. /\ ip[p] \in 8 .. ToldChild - 1 /\ ip[p] \notin {ToldRoot - 1, ToldChild - 1}
    BY <1>3, KillCalls DEF KillPasses
  <2>2. mem' = mem /\ \A x \in Users : ip'[x] = IF x = p THEN ip[p] + 1 ELSE ip[x]
    BY <1>1, <1>3 DEF Calls, Running
  <2>3. /\ IsSecond(p) /\ ~IsRoot(p) /\ ip[p] # 7
        /\ ip[p] + 1 \in 9 .. ToldChild - 1
        /\ ip[p] + 1 >= ToldRoot => ip[p] >= ToldRoot
        /\ ip[p] + 1 < ToldRoot => ip[p] < ToldRoot
    BY <2>1, KillApart DEF IsSecond, IsRoot
  <2>4. \A x \in Users :
          /\ ip[x] \in Nat /\ ip'[x] \in Nat
          /\ ip'[x] <= 7 \/ ip[x] <= 7 => ip'[x] = ip[x]
          /\ ip'[x] >= 8 <=> ip[x] >= 8
          /\ ip'[x] < ToldRoot <=> ip[x] < ToldRoot
          /\ ip'[x] < ToldChild <=> ip[x] < ToldChild
          /\ ip'[x] >= ToldRoot <=> ip[x] >= ToldRoot
    BY <2>1, <2>2, <2>3, KillApart
  <2>5. \A x \in Users : (IsRoot(x)' <=> IsRoot(x)) /\ (IsSecond(x)' <=> IsSecond(x))
    BY <2>4 DEF IsRoot, IsSecond
  <2>6. exit_code' = exit_code
    BY DEF Calls
  <2>7. KillRoles'
    <3>1. \A x \in Users : ip'[x] \in 0 .. 4 \cup {7} \cup 8 .. ToldChild
      BY <2>2, <2>3, KillApart DEF KillPasses, KillRoles
    <3>2. \A x, y \in Users :
            \/ IsRoot(x)' /\ IsRoot(y)'
            \/ ip'[x] = 7 /\ ip'[y] = 7
            \/ IsSecond(x)' /\ IsSecond(y)'
            => x = y
      BY <2>4, <2>5, KillApart
    <3>3. ASSUME NEW r \in Users, IsRoot(r)'
          PROVE  /\ parent'[r] = initproc
                 /\ ip'[r] \in {1, 2} => Users' = {r}
                 /\ ip'[r] = 3 => \A x \in Users' : ~IsSecond(x)'
                 /\ ip'[r] \in 2 .. 4 => mem'[r]["parent"] = r
                 /\ ip'[r] = 0 => exiting'[r]
                 /\ r \in Dying' => exit_code'[r] = "E_KILLED"
      BY <1>1, <2>2, <2>3, <2>5, <2>6, <3>3 DEF KillPasses, KillRoles
    <3>4. ASSUME NEW r \in Users, IsRoot(r)', ip'[r] = 0 PROVE r \notin Ready'
      <4>1. r # p /\ ip[r] = 0 /\ exiting[r] /\ r \notin Ready
        BY <2>2, <2>3, <2>5, <3>4 DEF KillPasses, KillRoles
      <4> QED BY <4>1, <1>1, <3>4 DEF Steady
    <3> QED BY <1>0, <1>1, <3>1, <3>2, <3>3, <3>4 DEF KillRoles
  <2>8. RootWaits'
    BY <1>1, <2>2, <2>4 DEF KillPasses, RootWaits
  <2>9. RootFound'
    BY <1>0, <1>1, <2>2, <2>4, <2>5 DEF KillPasses, RootFound
  <2>10. FirstFound'
    BY <1>0, <1>1, <2>2, <2>4, <2>5 DEF KillPasses, FirstFound
  <2>11. RootFirst'
    BY <1>0, <1>1, <2>4, <2>5 DEF KillPasses, RootFirst
  <2> QED BY <2>7, <2>8, <2>9, <2>10, <2>11 DEF KillPasses
<1> QED BY <1>2, <1>3, KillCalls DEF Calls, KillPasses

LEMMA KillMarks ==
    ASSUME IInv, Running, prog = "waitkill", KillPasses, Steady, NEW p \in Users, Kills(p)
    PROVE  KillPasses'
<1> DEFINE q == Pid(p, Call(p).var)
           root == ip[p] = ToldRoot - 1
<1>0. ToldRoot' = ToldRoot /\ ToldChild' = ToldChild
  BY DEF ToldRoot, ToldChild
<1>1. /\ p \in UserPid /\ Users \subseteq UserPid /\ Users \subseteq Live /\ UserPid \subseteq Process
      /\ Users' = Users /\ Dying' = Dying /\ mem' = mem /\ parent' = parent /\ exit_code' = exit_code
  BY Apart DEF Kills, Moves, Users
<1>2. /\ ip[p] \in {ToldRoot - 1, ToldChild - 1}
      /\ Call(p).var = (IF root THEN "parent" ELSE "pid")
  <2>1. Call(p).op = "kill"
    BY DEF Kills
  <2>2. \/ ip[p] = ToldRoot - 1 /\ Call(p).var = "parent"
        \/ ip[p] = ToldChild - 1 /\ Call(p).var = "pid"
    BY <2>1, KillCalls DEF KillPasses
  <2> QED BY <2>2, KillApart
<1>3. /\ IsSecond(p) /\ ~IsRoot(p) /\ ip[p] # 7 /\ ip[p] < ToldChild /\ (root <=> ip[p] < ToldRoot)
      /\ ip[p] + 1 \in 8 .. ToldChild
  BY <1>2, KillApart DEF IsSecond, IsRoot
<1>4. q = IF root THEN mem[p]["parent"] ELSE mem[p]["pid"]
  BY <1>2 DEF Pid
<1>5. q \in Users /\ ip[q] = (IF root THEN 4 ELSE 7) /\ ~exiting[q]
  BY <1>3, <1>4 DEF KillPasses, RootFound, FirstFound
<1> HIDE DEF q
<1>6. /\ \A x \in Users : exiting'[x] = (exiting[x] \/ x = q)
      /\ \A x \in Users : ip'[x] = IF x = p THEN ip[p] + 1 ELSE ip[x]
  <2>1. q \in Live /\ ~exiting[q]
    BY <1>1, <1>5
  <2>2. exiting' = [exiting EXCEPT ![q] = TRUE] /\ ip' = [ip EXCEPT ![p] = AfterKill(p, "0")]
    BY <2>1 DEF Kills, q
  <2>3. exiting \in [Process -> BOOLEAN] /\ ip = [x \in UserPid |-> ip[x]]
    BY DEF IInv, TypeOK, Running
  <2>4. AfterKill(p, "0") = ip[p] + 1
    BY Afters
  <2>5. \A x \in Users : exiting'[x] = IF x = q THEN TRUE ELSE exiting[x]
    BY <1>1, <1>5, <2>2, <2>3
  <2>6. \A x \in Users : ip'[x] = IF x = p THEN ip[p] + 1 ELSE ip[x]
    BY <1>1, <2>2, <2>3, <2>4
  <2>7. \A x \in Users : exiting[x] \in BOOLEAN
    BY <1>1, <2>3
  <2> QED BY <2>5, <2>6, <2>7
<1>7. \A x \in Users :
        /\ x # p => ip'[x] = ip[x]
        /\ ip[x] \in Nat /\ ip'[x] \in Nat
        /\ ip'[x] <= 7 \/ ip[x] <= 7 => ip'[x] = ip[x] /\ x # p
  BY <1>3, <1>6, KillApart DEF IsSecond
<1>8. \A x \in Users : (IsRoot(x)' <=> IsRoot(x)) /\ (IsSecond(x)' <=> IsSecond(x))
  BY <1>3, <1>6 DEF IsRoot, IsSecond
<1>9. KillRoles'
  <2>1. \A x \in Users : ip'[x] \in 0 .. 4 \cup {7} \cup 8 .. ToldChild
    BY <1>3, <1>6 DEF KillPasses, KillRoles
  <2>2. \A x, y \in Users :
          \/ IsRoot(x)' /\ IsRoot(y)'
          \/ ip'[x] = 7 /\ ip'[y] = 7
          \/ IsSecond(x)' /\ IsSecond(y)'
          => x = y
    BY <1>7, <1>8, KillApart
  <2>3. ASSUME NEW r \in Users, IsRoot(r)'
        PROVE  /\ parent'[r] = initproc
               /\ ip'[r] \in {1, 2} => Users' = {r}
               /\ ip'[r] = 3 => \A x \in Users' : ~IsSecond(x)'
               /\ ip'[r] \in 2 .. 4 => mem'[r]["parent"] = r
               /\ ip'[r] = 0 => exiting'[r]
               /\ r \in Dying' => exit_code'[r] = "E_KILLED"
    <3>1. IsRoot(r) /\ r # p /\ ip'[r] = ip[r]
      BY <1>3, <1>7, <1>8, <2>3
    <3>2. exiting[r] => exiting'[r]
      BY <1>6
    <3> QED BY <1>1, <1>8, <3>1, <3>2 DEF KillPasses, KillRoles
  <2>4. ASSUME NEW r \in Users, IsRoot(r)', ip'[r] = 0 PROVE r \notin Ready'
    <3>1. ip[r] = 0 /\ exiting[r] /\ r \notin Ready
      BY <1>7, <1>8, <2>4 DEF KillPasses, KillRoles
    <3> QED BY <3>1, <1>1, <2>4 DEF Steady
  <2> QED BY <1>0, <1>1, <2>1, <2>2, <2>3, <2>4 DEF KillRoles
<1>10. RootWaits'
  <2> SUFFICES ASSUME NEW r \in Users \ Dying, ip'[r] \in {3, 4}
               PROVE  mem[r]["pid"] \in Users /\ ip'[mem[r]["pid"]] = 7 /\ parent[mem[r]["pid"]] = r
    BY <1>1 DEF RootWaits
  <2>1. ip[r] \in {3, 4}
    BY <1>7
  <2>2. mem[r]["pid"] \in Users /\ ip[mem[r]["pid"]] = 7 /\ parent[mem[r]["pid"]] = r
    BY <2>1 DEF KillPasses, RootWaits
  <2> QED BY <1>7, <2>2
<1>11. RootFound'
  <2> SUFFICES ASSUME NEW x \in Users, IsSecond(x)', ip'[x] < ToldRoot PROVE FALSE
    BY <1>0, <1>1 DEF RootFound
  <2>1. x = p
    BY <1>3, <1>8, KillApart
  <2> QED BY <1>2, <1>6, <2>1, KillApart
<1>12. FirstFound'
  <2> SUFFICES ASSUME NEW x \in Users, IsSecond(x)', ip'[x] < ToldChild
               PROVE  mem[x]["pid"] \in Users /\ ip'[mem[x]["pid"]] = 7 /\ ~exiting'[mem[x]["pid"]]
    BY <1>0, <1>1 DEF FirstFound
  <2>1. x = p
    BY <1>3, <1>8, KillApart
  <2>2. root
    BY <1>2, <1>6, <2>1, KillApart
  <2>3. mem[p]["pid"] \in Users /\ ip[mem[p]["pid"]] = 7 /\ ~exiting[mem[p]["pid"]]
    BY <1>3 DEF KillPasses, FirstFound
  <2>4. mem[p]["pid"] # q
    BY <1>5, <2>2, <2>3
  <2> DEFINE d == mem[p]["pid"]
  <2> HIDE DEF d
  <2>5. d \in Users /\ ip[d] = 7 /\ ~exiting[d] /\ d # q
    BY <2>3, <2>4 DEF d
  <2>6. ip'[d] = 7
    BY <1>3, <1>6, <2>5
  <2>7. ~exiting'[d]
    <3>1. \A y \in Users : exiting'[y] = (exiting[y] \/ y = q)
      BY <1>6
    <3> QED BY <2>5, <3>1, Zenon
  <2> QED BY <1>1, <2>1, <2>5, <2>6, <2>7 DEF d
<1>13. RootFirst'
  <2>1. ASSUME NEW x \in Users, NEW r \in Users, IsRoot(r)', exiting'[x] \/ ip'[x] >= ToldRoot
        PROVE  exiting'[r]
    <3>1. IsRoot(r)
      BY <1>8, <2>1
    <3>2. CASE root
      <4>1. r = q
        BY <1>5, <3>1, <3>2, KillApart DEF IsRoot
      <4> QED BY <1>6, <4>1
    <3>3. CASE ~root
      <4>1. ip[p] >= ToldRoot
        BY <1>3, <3>3, KillApart
      <4>2. exiting[r]
        BY <3>1, <4>1 DEF KillPasses, RootFirst
      <4> QED BY <1>6, <4>2
    <3> QED BY <3>2, <3>3
  <2>2. ASSUME NEW x \in Users, exiting'[x] PROVE ip'[x] \in {0, 4, 7}
    <3>1. exiting[x] \/ x = q
      BY <1>6, <2>2
    <3>2. ip[x] \in {0, 4, 7}
      BY <1>5, <3>1 DEF KillPasses, RootFirst
    <3> QED BY <1>7, <3>2
  <2> QED BY <1>0, <1>1, <2>1, <2>2 DEF RootFirst
<1> QED BY <1>9, <1>10, <1>11, <1>12, <1>13 DEF KillPasses

\* The wait of the root does come back, but only once the kill that reached its child
\* has found the root as well: the kernel ends it before the failed assert does.
LEMMA KillReturns ==
    ASSUME IInv, Running, prog = "waitkill", KillPasses, Steady,
           NEW p \in Users, NEW z \in UserPid, Returns(p, z)
    PROVE  KillPasses'
<1>0. ToldRoot' = ToldRoot /\ ToldChild' = ToldChild
  BY DEF ToldRoot, ToldChild
<1>1. /\ p \in InWait /\ p \in UserPid /\ p \notin Dying /\ z \in Users /\ z \in Dying /\ p # z
      /\ parent[z] = p /\ wpid[p] \in {ANY, z}
      /\ Users \subseteq UserPid /\ UserPid \subseteq Process
      /\ Users' = Users \ {z} /\ Dying' = Dying \ {z} /\ mem' = mem /\ exit_code' = exit_code
  BY Apart DEF Returns, Leaves, Moves
<1>2. Call(p).op = "wait" /\ wpid[p] = Pid(p, Call(p).var)
  BY <1>1 DEF Running
<1>3. ip[p] = 4 /\ Call(p).var = "pid" /\ Call(p).want = "never" /\ Call(p).else = 0 /\ IsRoot(p)
  BY <1>2, KillCalls DEF KillPasses, IsRoot
<1>4. mem[p]["pid"] \in Users /\ ip[mem[p]["pid"]] = 7
  BY <1>1, <1>3 DEF KillPasses, RootWaits
<1>5. z = mem[p]["pid"]
  <2>1. wpid[p] = mem[p]["pid"]
    BY <1>2, <1>3 DEF Pid
  <2>2. ANY \notin UserPid
    BY ProcAssumption DEF ANY
  <2> QED BY <1>1, <1>4, <2>1, <2>2
<1>6. exiting[z] /\ exiting[p]
  <2>1. exiting[z]
    <3> SUFFICES ASSUME ~exiting[z] PROVE FALSE
      OBVIOUS
    <3>1. ip[z] = ToldChild
      BY <1>1, KillDying DEF KillPasses
    <3> QED BY <1>4, <1>5, <3>1, KillApart
  <2> QED BY <1>1, <1>3, <2>1 DEF KillPasses, RootFirst
<1>7. /\ \A x \in Users \ {z} : ip'[x] = IF x = p THEN 0 ELSE ip[x]
      /\ \A x \in Users \ {z} : parent'[x] = parent[x] /\ exiting'[x] = exiting[x]
  <2>1. After(p, "0", exit_code[z]) = 0
    BY <1>3, Afters
  <2>2. \A x \in Users \ {z} : ip'[x] = IF x = p THEN 0 ELSE ip[x]
    BY <1>1, <2>1 DEF Returns, Running
  <2> QED BY <1>1, <2>2 DEF Returns, Leaves, IInv, TypeOK
<1>8. p \notin Ready'
  <2>1. p \notin Ready
    BY <1>1, Apart
  <2> QED BY <1>1, <1>6, <2>1 DEF Steady
<1>9. \A x \in Users : IsSecond(x) => ip[x] >= ToldChild
  <2> SUFFICES ASSUME NEW x \in Users, IsSecond(x), ip[x] < ToldChild PROVE FALSE
    BY KillApart
  <2>1. mem[x]["pid"] \in Users /\ ip[mem[x]["pid"]] = 7 /\ ~exiting[mem[x]["pid"]]
    BY DEF KillPasses, FirstFound
  <2>2. mem[x]["pid"] = z
    BY <1>4, <1>5, <2>1, KillApart
  <2> QED BY <1>6, <2>1, <2>2
<1>10. \A x \in Users \ {z} : (IsRoot(x)' <=> IsRoot(x)) /\ (IsSecond(x)' <=> IsSecond(x)) /\ (ip'[x] = 7 <=> ip[x] = 7)
  BY <1>3, <1>7 DEF IsRoot, IsSecond
<1>11. KillRoles'
  <2>1. \A x \in Users' : ip'[x] \in 0 .. 4 \cup {7} \cup 8 .. ToldChild
    BY <1>1, <1>7 DEF KillPasses, KillRoles
  <2>2. \A x, y \in Users' :
          \/ IsRoot(x)' /\ IsRoot(y)'
          \/ ip'[x] = 7 /\ ip'[y] = 7
          \/ IsSecond(x)' /\ IsSecond(y)'
          => x = y
    BY <1>1, <1>10, KillApart
  <2>3. ASSUME NEW r \in Users', IsRoot(r)'
        PROVE  r = p /\ ip'[r] = 0 /\ parent'[r] = initproc
    <3>1. r = p
      BY <1>1, <1>3, <1>10, <2>3, KillApart
    <3>2. parent[p] = initproc
      BY <1>3 DEF KillPasses, KillRoles
    <3> QED BY <1>1, <1>7, <3>1, <3>2
  <2>4. exiting'[p]
    BY <1>1, <1>6, <1>7
  <2>5. p \notin Dying'
    BY <1>1
  <2> QED BY <1>0, <1>8, <2>1, <2>2, <2>3, <2>4, <2>5 DEF KillRoles
<1>12. RootWaits'
  <2> SUFFICES ASSUME NEW r \in Users', ip'[r] \in {3, 4} PROVE FALSE
    BY DEF RootWaits
  <2>1. r = p
    BY <1>1, <1>3, <1>7, KillApart DEF IsRoot
  <2> QED BY <1>1, <1>7, <2>1
<1>13. RootFound' /\ FirstFound'
  BY <1>0, <1>1, <1>3, <1>7, <1>9, <1>10, KillApart DEF RootFound, FirstFound, IsSecond
<1>14. RootFirst'
  <2>1. ASSUME NEW r \in Users', IsRoot(r)' PROVE exiting'[r]
    BY <1>1, <1>3, <1>6, <1>7, <1>10, <2>1, KillApart
  <2>2. ASSUME NEW x \in Users', exiting'[x] PROVE ip'[x] \in {0, 4, 7}
    BY <1>1, <1>7, <2>2 DEF KillPasses, RootFirst
  <2> QED BY <2>1, <2>2 DEF RootFirst
<1> QED BY <1>11, <1>12, <1>13, <1>14 DEF KillPasses

\* Initproc reaps an orphan.  The first child is none, nor is the root while one still
\* looks for it.
LEMMA KillReaps ==
    ASSUME IInv, Running, prog = "waitkill", KillPasses, Steady, NEW z \in UserPid, InitReapsIt(z)
    PROVE  KillPasses'
<1>0. ToldRoot' = ToldRoot /\ ToldChild' = ToldChild
  BY DEF ToldRoot, ToldChild
<1>1. /\ z \in Users /\ z \in Dying /\ parent[z] = initproc /\ initproc \notin UserPid
      /\ Users \subseteq UserPid /\ UserPid \subseteq Process
      /\ Users' = Users \ {z} /\ Dying' = Dying \ {z} /\ mem' = mem /\ exit_code' = exit_code /\ ip' = ip
  BY Apart, ProcAssumption DEF InitReapsIt, Leaves, Moves
<1>2. \A x \in Users \ {z} : parent'[x] = parent[x] /\ exiting'[x] = exiting[x]
  BY <1>1 DEF InitReapsIt, Leaves, IInv, TypeOK
<1>3. ip[z] # ToldChild => exiting[z]
  BY <1>1, KillDying DEF KillPasses
<1>4. KillRoles'
  <2>1. ASSUME NEW r \in Users', IsRoot(r) PROVE ip[r] = 0 => exiting'[r] /\ r \notin Ready'
    <3>1. ip[r] = 0 => exiting[r] /\ r \notin Ready
      BY <1>1, <2>1 DEF KillPasses, KillRoles
    <3> QED BY <1>1, <1>2, <2>1, <3>1 DEF Steady
  <2>2. ASSUME NEW r \in Users', IsRoot(r), ip[r] \in {1, 2} PROVE Users' = {r}
    <3>1. Users = {r}
      BY <1>1, <2>2 DEF KillPasses, KillRoles
    <3> QED BY <1>1, <2>2, <3>1
  <2>3. /\ \A p \in Users' : ip[p] \in 0 .. 4 \cup {7} \cup 8 .. ToldChild
        /\ \A p, q \in Users' :
             \/ IsRoot(p) /\ IsRoot(q)
             \/ ip[p] = 7 /\ ip[q] = 7
             \/ IsSecond(p) /\ IsSecond(q)
             => p = q
    BY <1>1 DEF KillPasses, KillRoles
  <2>4. ASSUME NEW r \in Users', IsRoot(r)
        PROVE  /\ parent'[r] = initproc
               /\ ip[r] = 3 => \A p \in Users' : ~IsSecond(p)
               /\ ip[r] \in 2 .. 4 => mem[r]["parent"] = r
               /\ r \in Dying' => exit_code[r] = "E_KILLED"
    BY <1>1, <1>2, <2>4 DEF KillPasses, KillRoles
  <2> QED BY <1>0, <1>1, <2>1, <2>2, <2>3, <2>4 DEF KillRoles, IsRoot, IsSecond
<1>5. RootWaits'
  <2> SUFFICES ASSUME NEW r \in Users' \ Dying', ip[r] \in {3, 4}
               PROVE  mem[r]["pid"] \in Users' /\ ip[mem[r]["pid"]] = 7 /\ parent'[mem[r]["pid"]] = r
    BY <1>1 DEF RootWaits
  <2>1. mem[r]["pid"] \in Users /\ ip[mem[r]["pid"]] = 7 /\ parent[mem[r]["pid"]] = r
    BY <1>1 DEF KillPasses, RootWaits
  <2>2. mem[r]["pid"] # z
    BY <1>1, <2>1
  <2> QED BY <1>1, <1>2, <2>1, <2>2
<1>6. RootFound'
  <2> SUFFICES ASSUME NEW p \in Users', ip[p] >= 8, ip[p] < ToldRoot
               PROVE  mem[p]["parent"] \in Users' /\ ip[mem[p]["parent"]] = 4 /\ ~exiting'[mem[p]["parent"]]
    BY <1>0, <1>1 DEF RootFound, IsSecond
  <2>1. mem[p]["parent"] \in Users /\ ip[mem[p]["parent"]] = 4 /\ ~exiting[mem[p]["parent"]]
    BY <1>1 DEF KillPasses, RootFound, IsSecond
  <2>2. mem[p]["parent"] # z
    BY <1>3, <2>1, KillApart
  <2> QED BY <1>1, <1>2, <2>1, <2>2
<1>7. FirstFound'
  <2> SUFFICES ASSUME NEW p \in Users', ip[p] >= 8, ip[p] < ToldChild
               PROVE  mem[p]["pid"] \in Users' /\ ip[mem[p]["pid"]] = 7 /\ ~exiting'[mem[p]["pid"]]
    BY <1>0, <1>1 DEF FirstFound, IsSecond
  <2>1. mem[p]["pid"] \in Users /\ ip[mem[p]["pid"]] = 7 /\ ~exiting[mem[p]["pid"]]
    BY <1>1 DEF KillPasses, FirstFound, IsSecond
  <2>2. mem[p]["pid"] # z
    BY <1>3, <2>1, KillApart
  <2> QED BY <1>1, <1>2, <2>1, <2>2
<1>8. RootFirst'
  <2>1. \A p, r \in Users' : IsRoot(r) /\ (exiting'[p] \/ ip[p] >= ToldRoot) => exiting'[r]
    BY <1>1, <1>2 DEF KillPasses, RootFirst
  <2>2. \A p \in Users' : exiting'[p] => ip[p] \in {0, 4, 7}
    BY <1>1, <1>2 DEF KillPasses, RootFirst
  <2> QED BY <1>0, <1>1, <2>1, <2>2 DEF RootFirst, IsRoot
<1> QED BY <1>4, <1>5, <1>6, <1>7, <1>8 DEF KillPasses

\* The steps that move nobody to another call.
LEMMA KillRests ==
    ASSUME IInv, Running, prog = "waitkill", KillPasses, prog' = prog, Steady,
           \/ \E p \in Users : Waits(p) \/ Exits(p) \/ Obeys(p)
           \/ \E p \in Users, c \in UserPid : Adopts(p, c)
           \/ Rests
    PROVE  KillPasses'
<1>1. Users' = Users /\ UNCHANGED <<prog, ip, mem, exiting>> /\ Dying \subseteq Dying'
  BY DEF Waits, Exits, Obeys, Adopts, Rests, Moves
<1>2. \A r \in Users : parent'[r] = parent[r] \/ (parent'[r] = initproc /\ parent[r] \in Dying)
  <2>1. ASSUME NEW p \in Users, NEW c \in UserPid, Adopts(p, c)
        PROVE  \A r \in Users : parent'[r] = parent[r] \/ (parent'[r] = initproc /\ parent[r] \in Dying)
    BY <2>1, Apart DEF Adopts, IInv, TypeOK
  <2>2. CASE (\E p \in Users : Waits(p) \/ Exits(p) \/ Obeys(p)) \/ Rests
    BY <2>2 DEF Waits, Exits, Obeys, Rests
  <2> QED BY <2>1, <2>2
<1>3. \A r \in Users : IsRoot(r) /\ r \in Dying => exit_code[r] = "E_KILLED"
  BY DEF KillPasses, KillRoles
<1>4. ASSUME NEW r \in Users, IsRoot(r), r \in Dying' PROVE exit_code'[r] = "E_KILLED"
  <2>1. ASSUME NEW p \in Users, Exits(p) PROVE exit_code'[r] = "E_KILLED"
    <3>1. Call(p).op = "exit" /\ p \in Ready
      BY <2>1 DEF Exits
    <3>2. ~IsRoot(p)
      <4>1. ip[p] \in {0, ToldChild}
        BY <3>1, KillCalls DEF KillPasses
      <4> QED BY <3>1, <4>1, KillApart DEF KillPasses, KillRoles, IsRoot
    <3>3. r # p /\ r \in Dying
      BY <1>4, <2>1, <3>2 DEF Exits, Moves
    <3> QED BY <1>3, <1>4, <2>1, <3>3, Apart DEF Exits, Running
  <2>2. ASSUME NEW p \in Users, Obeys(p) PROVE exit_code'[r] = "E_KILLED"
    BY <1>3, <1>4, <2>2, Apart DEF Obeys, Moves, Running
  <2>3. CASE \/ \E p \in Users : Waits(p)
             \/ \E p \in Users, c \in UserPid : Adopts(p, c)
             \/ Rests
    BY <1>3, <1>4, <2>3 DEF Waits, Adopts, Rests, Moves
  <2> QED BY <2>1, <2>2, <2>3
<1> QED BY <1>1, <1>2, <1>4, KillKeeps

LEMMA KillStep ==
    ASSUME IInv, Running, prog = "waitkill", KillPasses, ProgramStep, Steady, prog' = prog
    PROVE  KillPasses'
<1>1. ASSUME NEW p \in Users, NoneLeft(p) PROVE FALSE
  <2>1. p \in InWait /\ p \notin Dying
    BY <1>1, Apart DEF NoneLeft
  <2>2. Call(p).op = "wait" /\ wpid[p] = Pid(p, Call(p).var)
    BY <2>1 DEF Running
  <2>3. ip[p] = 4 /\ Call(p).var = "pid"
    BY <2>2, KillCalls DEF KillPasses
  <2>4. mem[p]["pid"] \in Users /\ parent[mem[p]["pid"]] = p
    BY <2>1, <2>3 DEF KillPasses, RootWaits
  <2>5. wpid[p] = mem[p]["pid"]
    BY <2>2, <2>3 DEF Pid
  <2> QED BY <1>1, <2>4, <2>5 DEF NoneLeft
<1> QED BY <1>1, KillStarts, KillForks, KillAdvances, KillMarks, KillReturns, KillReaps, KillRests DEF ProgramStep

----------------------------------------------------------------------------
\* The programs begin with nobody there.
LEMMA ProgramsBegin == PInit => PInv
<1> SUFFICES ASSUME PInit PROVE PInv
  OBVIOUS
<1> USE ProcAssumption
<1>1. prog \in Suite /\ \A p \in UserPid : exit_code[p] = "0"
  BY DEF PInit
<1>2. Users = {} /\ Dying = {} /\ InWait = {} /\ Ready = {}
  <2>1. hash_list = {initproc} /\ hash_list \cap UserPid = {}
    BY DEF PInit, Init
  <2>2. Users = {}
    <3>1. IInv
      BY InitIInv DEF PInit
    <3> QED BY <2>1, <3>1, Turn
  <2> QED BY <2>2 DEF Dying, InWait, Ready
<1>3. \A p \in UserPid : ~exiting[p]
  BY DEF PInit, Init, Process
<1>4. Running
  <2>1. ip = [p \in UserPid |-> ip[p]] /\ exit_code = [p \in UserPid |-> exit_code[p]]
    BY DEF PInit
  <2>2. mem \in [UserPid -> [Var -> Ptr]]
    BY DEF PInit, Ptr
  <2> QED BY <1>1, <1>2, <1>3, <2>1, <2>2 DEF Running
<1>5. SimplePasses
  BY <1>2, <1>3 DEF SimplePasses
<1>6. OnePasses
  BY <1>2, <1>3 DEF OnePasses
<1>7. TestPasses
  BY <1>2, <1>3 DEF TestPasses
<1>8. KillPasses
  BY <1>2 DEF KillPasses, KillRoles, RootWaits, RootFound, FirstFound, RootFirst
<1> QED BY <1>1, <1>4, <1>5, <1>6, <1>7, <1>8 DEF PInv

\* And every step keeps what each of them needs.
LEMMA ProgramsGoOn ==
    ASSUME "icode" \notin Failures, IInv, IInv', PInv, [PNext]_allvars
    PROVE  PInv'
<1>1. prog' = prog
  BY DEF PNext, UserCall, AnyCall, Kernel, uservars, allvars
<1>2. CASE prog = "any"
  <2>1. exit_code' = exit_code
    BY <1>2 DEF PNext, UserCall, AnyCall, Kernel, uservars, allvars
  <2>2. prog' \notin Simple /\ prog' \notin OneChild
    BY <1>1, <1>2 DEF Simple, OneChild
  <2> QED BY <1>1, <1>2, <2>1, <2>2 DEF PInv
<1>3. CASE prog # "any"
  <2>1. Running
    BY <1>3 DEF PInv
  <2>2. ProgramStep /\ Steady
    BY <1>3, <2>1, StepKinds
  <2>3. Running'
    BY <1>1, <2>1, <2>2, RunningStep
  <2>4. prog \in Simple => SimplePasses'
    BY <1>1, <2>1, <2>2, SimpleStep DEF PInv
  <2>5. prog \in OneChild => OnePasses'
    BY <1>1, <2>1, <2>2, OneStep DEF PInv
  <2>6. prog = "forktest" => TestPasses'
    BY <1>1, <2>1, <2>2, TestStep DEF PInv
  <2>7. prog = "waitkill" => KillPasses'
    BY <1>1, <2>1, <2>2, KillStep DEF PInv
  <2>8. (prog' \in Simple => prog \in Simple) /\ (prog' \in OneChild => prog \in OneChild)
    BY <1>1 DEF Simple, OneChild
  <2> QED BY <1>1, <1>3, <2>3, <2>4, <2>5, <2>6, <2>7, <2>8 DEF PInv
<1> QED BY <1>2, <1>3

\* Who is dead has one of the exit codes of its program.
LEMMA CodesExpected == IInv /\ PInv => ProgramsPass
<1> SUFFICES ASSUME IInv, PInv, NEW p \in UserPid, state[p] = "ZOMBIE"
             PROVE  exit_code[p] \in Expected[prog]
  BY DEF ProgramsPass
<1>1. CASE prog = "any"
  BY <1>1 DEF PInv, Expected
<1>2. CASE prog # "any"
  <2>1. p \in Dying /\ p \in Users
    <3>1. p \in Process /\ pc[p] \in {"reparent", "dead"} /\ p \in Live
      BY DEF IInv, Control, Process, Live
    <3> QED BY <3>1 DEF Dying, Users
  <2>2. Running /\ \/ exiting[p] /\ exit_code[p] = "E_KILLED"
                   \/ Call(p).op = "exit" /\ exit_code[p] = Call(p).code
    BY <1>2, <2>1 DEF PInv, Running
  <2>3. CASE prog \in Simple
    <3>1. ~exiting[p]
      BY <2>3 DEF PInv, SimplePasses
    <3>2. exit_code[p] = "0" /\ prog # "faultread"
      BY <2>1, <2>2, <2>3, <3>1, SimpleCall DEF PInv
    <3> QED BY <2>3, <3>2 DEF Simple, Expected
  <2>4. CASE prog \in OneChild
    BY <2>1, <2>2, <2>4, OneCodes DEF PInv
  <2>5. CASE prog = "forktest"
    <3>1. ~exiting[p] /\ TestPasses
      BY <2>5 DEF PInv, TestPasses
    <3>2. Call(p).op = "exit" /\ exit_code[p] = Call(p).code
      BY <2>2, <3>1
    <3>3. ip[p] > 2 * MaxChild + 1 => Call(p).code = "0"
      BY <2>1, <2>5, <3>1, TestCall
    <3>4. ip[p] > 2 * MaxChild + 1
      <4>1. MaxChild \in Nat /\ ip[p] \in 1 .. 2 * MaxChild + 3
        BY <2>1, <2>5, <3>1, TestCall
      <4>2. CASE ip[p] <= MaxChild
        BY <2>1, <2>5, <3>1, <3>2, <4>2, TestCall
      <4>3. CASE ip[p] \in MaxChild + 1 .. 2 * MaxChild + 1
        BY <2>1, <2>5, <3>1, <3>2, <4>3, TestCall
      <4> QED BY <4>1, <4>2, <4>3
    <3> QED BY <2>5, <3>2, <3>3, <3>4 DEF Expected
  <2>6. CASE prog = "waitkill"
    <3>1. KillPasses
      BY <2>6 DEF PInv
    <3>2. CASE exiting[p]
      <4>1. ip[p] \in {0, 4, 7}
        BY <2>1, <3>1, <3>2 DEF KillPasses, RootFirst
      <4>2. exit_code[p] = "E_KILLED"
        <5>1. CASE IsRoot(p)
          BY <2>1, <3>1, <5>1 DEF KillPasses, KillRoles
        <5>2. CASE ip[p] = 7
          <6>1. Call(p).op # "exit"
            BY <2>1, <2>6, <3>1, <5>2, KillCalls, KillApart DEF KillPasses
          <6> QED BY <2>2, <6>1
        <5> QED BY <4>1, <5>1, <5>2 DEF IsRoot
      <4> QED BY <2>6, <4>2 DEF Expected
    <3>3. CASE ~exiting[p]
      <4>1. exit_code[p] = "0"
        BY <2>1, <2>2, <2>6, <3>1, <3>3, KillDying DEF KillPasses
      <4> QED BY <2>6, <4>1 DEF Expected
    <3> QED BY <3>2, <3>3
  <2>7. prog \in DOMAIN Code
    BY <1>2, ProgramsAssumption DEF PInv
  <2>8. prog \in Simple \cup OneChild \cup {"forktest", "waitkill"}
    BY <2>7 DEF Code, Simple, OneChild
  <2> QED BY <2>3, <2>4, <2>5, <2>6, <2>8
<1> QED BY <1>1, <1>2

\* When load_icode does not fail, no assertion of the programs of user/ fails and no panic()
\* of one is reached: whoever is dead has an exit code that its program is meant to end
\* with, however many yields, children and levels the programs are compiled with.
THEOREM ProgramsCorrect == "icode" \notin Failures => (PSpec => []ProgramsPass)
<1> SUFFICES ASSUME "icode" \notin Failures PROVE PSpec => []ProgramsPass
  OBVIOUS
<1>1. PSpec => []IInv
  BY ProgramsRunOnProc, InvariantCorrect, PTL
<1>2. IInv /\ IInv' /\ PInv /\ [PNext]_allvars => PInv'
  BY ProgramsGoOn
<1>3. PSpec => []PInv
  BY ProgramsBegin, <1>1, <1>2, PTL DEF PSpec
<1> QED BY <1>1, <1>3, CodesExpected, PTL
=============================================================================
