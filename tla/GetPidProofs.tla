----------------------------- MODULE GetPidProofs -----------------------------
(***************************************************************************)
(* Proofs about GetPid for every MAX_PID > MAX_PROCESS >= 2: the inductive *)
(* invariant IInv, the uniqueness of pids, and the refinement of PidAlloc. *)
(***************************************************************************)
EXTENDS GetPid, SequenceTheorems, FiniteSetTheorems, TLAPS

\* The inductive invariant: the ranges of the static variables, distinct pids,
\* the free interval behind the fast path, and the record of skipped pids.
IInv == TypeOK /\ PidsDistinct /\ IntervalFree /\ SkippedUsed

----------------------------------------------------------------------------
(***************************************************************************)
(* The process list seen as a sequence: list_add at the head and list_del. *)
(***************************************************************************)

\* What removing one entry does to a sequence.
LEMMA RemoveAtFacts ==
    ASSUME NEW S, NEW s \in Seq(S), NEW i \in 1 .. Len(s)
    PROVE  /\ RemoveAt(s, i) \in Seq(S)
           /\ Len(RemoveAt(s, i)) = Len(s) - 1
           /\ \A j \in 1 .. Len(s) - 1 :
                RemoveAt(s, i)[j] = IF j < i THEN s[j] ELSE s[j + 1]
<1> DEFINE a == SubSeq(s, 1, i - 1)
           b == SubSeq(s, i + 1, Len(s))
<1>1. /\ a \in Seq(S) /\ Len(a) = i - 1
      /\ \A j \in 1 .. i - 1 : a[j] = s[j]
  OBVIOUS
<1>2. /\ b \in Seq(S) /\ Len(b) = Len(s) - i
      /\ \A j \in 1 .. Len(s) - i : b[j] = s[i + j]
  OBVIOUS
<1>3. RemoveAt(s, i) = a \o b
  BY DEF RemoveAt
<1> HIDE DEF a, b
<1>4. /\ a \o b \in Seq(S) /\ Len(a \o b) = Len(s) - 1
      /\ \A j \in 1 .. Len(s) - 1 :
           (a \o b)[j] = IF j <= Len(a) THEN a[j] ELSE b[j - Len(a)]
  <2>1. /\ a \o b \in Seq(S) /\ Len(a \o b) = Len(a) + Len(b)
        /\ \A j \in 1 .. Len(a) + Len(b) :
             (a \o b)[j] = IF j <= Len(a) THEN a[j] ELSE b[j - Len(a)]
    BY <1>1, <1>2, ConcatProperties
  <2> QED BY <1>1, <1>2, <2>1
<1>5. ASSUME NEW j \in 1 .. Len(s) - 1
      PROVE  (a \o b)[j] = IF j < i THEN s[j] ELSE s[j + 1]
  <2>1. CASE j < i
    BY <1>1, <1>4, <2>1
  <2>2. CASE ~(j < i)
    <3>1. j - (i - 1) \in 1 .. Len(s) - i /\ i + (j - (i - 1)) = j + 1
      BY <2>2
    <3> QED BY <1>1, <1>2, <1>4, <2>2, <3>1
  <2> QED BY <2>1, <2>2
<1> QED BY <1>3, <1>4, <1>5

\* What putting an entry at the head does to a sequence.
LEMMA ConsFacts ==
    ASSUME NEW S, NEW s \in Seq(S), NEW x \in S
    PROVE  /\ <<x>> \o s \in Seq(S)
           /\ Len(<<x>> \o s) = Len(s) + 1
           /\ (<<x>> \o s)[1] = x
           /\ \A j \in 1 .. Len(s) : (<<x>> \o s)[j + 1] = s[j]
           /\ \A j \in 2 .. Len(s) + 1 : (<<x>> \o s)[j] = s[j - 1]
  OBVIOUS

\* list_add at the head of a list of distinct entries: the new entry joins the
\* set of entries, and if it is new the entries stay distinct.
LEMMA ConsSet ==
    ASSUME NEW S, NEW s \in Seq(S), NEW x \in S
    PROVE  /\ ToSet(<<x>> \o s) = ToSet(s) \cup {x}
           /\ IsInjective(s) /\ x \notin ToSet(s) => IsInjective(<<x>> \o s)
<1> DEFINE t == <<x>> \o s
<1>1. /\ t \in Seq(S) /\ Len(t) = Len(s) + 1 /\ t[1] = x
      /\ \A j \in 1 .. Len(s) : t[j + 1] = s[j]
      /\ \A j \in 2 .. Len(s) + 1 : t[j] = s[j - 1]
  BY ConsFacts
<1> HIDE DEF t
<1>2. DOMAIN t = 1 .. Len(s) + 1 /\ DOMAIN s = 1 .. Len(s) /\ Len(s) \in Nat
  BY <1>1
<1>3. ASSUME NEW y PROVE y \in ToSet(t) <=> y \in ToSet(s) \cup {x}
  <2>1. ASSUME y \in ToSet(t) PROVE y \in ToSet(s) \cup {x}
    <3>1. PICK j \in 1 .. Len(s) + 1 : t[j] = y
      BY <1>2, <2>1 DEF ToSet
    <3>2. CASE j = 1
      BY <1>1, <3>1, <3>2
    <3>3. CASE j # 1
      <4>1. j - 1 \in 1 .. Len(s) /\ s[j - 1] = y
        BY <1>1, <1>2, <3>1, <3>3
      <4> QED BY <1>2, <4>1 DEF ToSet
    <3> QED BY <3>2, <3>3
  <2>2. ASSUME y \in ToSet(s) PROVE y \in ToSet(t)
    <3>1. PICK j \in 1 .. Len(s) : s[j] = y
      BY <1>2, <2>2 DEF ToSet
    <3>2. j + 1 \in 1 .. Len(s) + 1 /\ t[j + 1] = y
      BY <1>1, <1>2, <3>1
    <3> QED BY <1>2, <3>2 DEF ToSet
  <2>3. x \in ToSet(t)
    <3>1. 1 \in DOMAIN t
      BY <1>2
    <3> QED BY <1>1, <3>1 DEF ToSet
  <2> QED BY <2>1, <2>2, <2>3
<1>4. ASSUME IsInjective(s), x \notin ToSet(s) PROVE IsInjective(t)
  <2>1. \A j \in 1 .. Len(s) : s[j] # x
    BY <1>2, <1>4 DEF ToSet
  <2>2. ASSUME NEW i \in 1 .. Len(s) + 1, NEW j \in 1 .. Len(s) + 1, t[i] = t[j]
        PROVE  i = j
    <3>1. i # 1 => i - 1 \in 1 .. Len(s) /\ t[i] = s[i - 1]
      BY <1>1, <1>2
    <3>2. j # 1 => j - 1 \in 1 .. Len(s) /\ t[j] = s[j - 1]
      BY <1>1, <1>2
    <3>3. i # 1 /\ j # 1 => i - 1 = j - 1
      BY <1>2, <1>4, <2>2, <3>1, <3>2 DEF IsInjective
    <3> QED BY <1>1, <2>1, <2>2, <3>1, <3>2, <3>3
  <2> QED BY <1>2, <2>2 DEF IsInjective
<1> QED BY <1>3, <1>4 DEF t

\* list_del on a list of distinct entries: exactly one entry goes, and the rest
\* stay distinct.
LEMMA RemoveAtSet ==
    ASSUME NEW S, NEW s \in Seq(S), NEW i \in 1 .. Len(s), IsInjective(s)
    PROVE  /\ ToSet(RemoveAt(s, i)) = ToSet(s) \ {s[i]}
           /\ IsInjective(RemoveAt(s, i))
<1> DEFINE t == RemoveAt(s, i)
<1>1. /\ t \in Seq(S) /\ Len(t) = Len(s) - 1
      /\ \A j \in 1 .. Len(s) - 1 : t[j] = IF j < i THEN s[j] ELSE s[j + 1]
  BY RemoveAtFacts
<1> HIDE DEF t
<1>2. DOMAIN t = 1 .. Len(s) - 1 /\ DOMAIN s = 1 .. Len(s) /\ Len(s) \in Nat
  BY <1>1
<1> DEFINE from(j) == IF j < i THEN j ELSE j + 1
<1>3. ASSUME NEW j \in 1 .. Len(s) - 1
      PROVE  from(j) \in 1 .. Len(s) /\ from(j) # i /\ t[j] = s[from(j)]
  BY <1>1, <1>2
<1>4. \A a, b \in 1 .. Len(s) : s[a] = s[b] => a = b
  BY <1>2 DEF IsInjective
<1>5. ASSUME NEW y PROVE y \in ToSet(t) <=> y \in ToSet(s) \ {s[i]}
  <2>1. ASSUME y \in ToSet(t) PROVE y \in ToSet(s) \ {s[i]}
    <3>1. PICK j \in 1 .. Len(s) - 1 : t[j] = y
      BY <1>2, <2>1 DEF ToSet
    <3>2. from(j) \in 1 .. Len(s) /\ from(j) # i /\ s[from(j)] = y
      BY <1>3, <3>1
    <3>3. s[from(j)] # s[i]
      BY <1>4, <3>2
    <3> QED BY <1>2, <3>2, <3>3 DEF ToSet
  <2>2. ASSUME y \in ToSet(s), y # s[i] PROVE y \in ToSet(t)
    <3>1. PICK j \in 1 .. Len(s) : s[j] = y
      BY <1>2, <2>2 DEF ToSet
    <3>2. j # i
      BY <2>2, <3>1
    <3> DEFINE k == IF j < i THEN j ELSE j - 1
    <3>3. k \in 1 .. Len(s) - 1 /\ from(k) = j
      BY <1>2, <3>2
    <3>4. t[k] = y
      BY <1>3, <3>1, <3>3
    <3> QED BY <1>2, <3>3, <3>4 DEF ToSet
  <2> QED BY <2>1, <2>2
<1>6. ASSUME NEW a \in 1 .. Len(s) - 1, NEW b \in 1 .. Len(s) - 1, t[a] = t[b]
      PROVE  a = b
  <2>1. from(a) = from(b)
    BY <1>3, <1>4, <1>6
  <2> QED BY <1>2, <2>1
<1> QED BY <1>2, <1>5, <1>6 DEF t, IsInjective

----------------------------------------------------------------------------

\* A list shorter than the number of pids does not use them all.
LEMMA SomePidFree ==
    ASSUME NEW s \in Seq(Pid), Len(s) + 1 < MAX_PID
    PROVE  ~(Pid \subseteq ToSet(s))
<1> SUFFICES ASSUME Pid \subseteq ToSet(s) PROVE FALSE
  OBVIOUS
<1> DEFINE f == [p \in Pid |-> CHOOSE i \in DOMAIN s : s[i] = p]
<1>1. \A p \in Pid : f[p] \in 1 .. Len(s) /\ s[f[p]] = p
  BY DEF ToSet
<1>2. f \in [Pid -> 1 .. Len(s)]
  BY <1>1
<1>3. IsFiniteSet(Pid) /\ Cardinality(Pid) = MAX_PID - 1
  BY FS_Interval, GetPidAssumption DEF Pid
<1>4. IsFiniteSet(1 .. Len(s)) /\ Cardinality(1 .. Len(s)) = Len(s)
  <2>1. ASSUME NEW m \in Nat
        PROVE  IsFiniteSet(1 .. m) /\ Cardinality(1 .. m) = m
    <3>1. /\ IsFiniteSet(1 .. m)
          /\ Cardinality(1 .. m) = IF 1 > m THEN 0 ELSE m - 1 + 1
      BY FS_Interval
    <3> QED BY <3>1
  <2>2. Len(s) \in Nat
    OBVIOUS
  <2> QED BY <2>1, <2>2
<1>5. Cardinality(1 .. Len(s)) < Cardinality(Pid)
  BY <1>3, <1>4, GetPidAssumption
<1> HIDE DEF f
<1>6. \E x, y \in Pid : x # y /\ f[x] = f[y]
  BY <1>2, <1>3, <1>4, <1>5, FS_PigeonHole
<1> QED BY <1>1, <1>6

\* The state at boot satisfies the invariant.
LEMMA InitIInv == Init => IInv
<1> SUFFICES ASSUME Init PROVE IInv
  OBVIOUS
<1>1. proc_list \in Seq(Pid) /\ Len(proc_list) = 0 /\ DOMAIN proc_list = {}
  BY DEF Init
<1>2. TypeOK
  BY <1>1, GetPidAssumption DEF Init, TypeOK
<1>3. PidsDistinct /\ IntervalFree /\ SkippedUsed
  BY <1>1 DEF Init, PidsDistinct, IsInjective, IntervalFree, Seen, SkippedUsed
<1> QED BY <1>2, <1>3 DEF IInv

\* Stepping over a pid that is in use: the record of skipped pids grows by it.
LEMMA SkipOne ==
    ASSUME IInv, Scanning, proc_list[le] = last_pid,
           NEW p, p = IF last_pid + 1 >= MAX_PID THEN 1 ELSE last_pid + 1
    PROVE  Abstract!Between(prev, p) \subseteq used
<1>1. /\ last_pid \in 1 .. MAX_PID - 1 /\ prev \in 1 .. MAX_PID
      /\ MAX_PID \in Nat /\ MAX_PID >= 3
  BY GetPidAssumption DEF IInv, TypeOK, Scanning
<1>2. le \in DOMAIN proc_list
  BY DEF IInv, TypeOK, Scanning
<1>3. last_pid \in used
  BY <1>2 DEF used, ToSet
<1>4. Abstract!Between(prev, last_pid) \subseteq used
  BY DEF IInv, SkippedUsed, Scanning
<1>5. CASE prev = last_pid
  <2>1. Pid \subseteq Abstract!Between(prev, last_pid) \cup {last_pid}
    BY <1>1, <1>5 DEF Abstract!Between, Pid
  <2>2. Pid \subseteq used
    BY <1>3, <1>4, <2>1
  <2>3. proc_list \in Seq(Pid) /\ Len(proc_list) + 1 < MAX_PID
    BY GetPidAssumption DEF IInv, TypeOK, Scanning
  <2> QED BY <2>2, <2>3, SomePidFree DEF used
<1>6. CASE prev # last_pid
  <2>1. Abstract!Between(prev, p) \subseteq Abstract!Between(prev, last_pid) \cup {last_pid}
    BY <1>1, <1>6 DEF Abstract!Between
  <2> QED BY <1>3, <1>4, <2>1
<1> QED BY <1>5, <1>6

\* Every step of get_pid, of linking and of unlinking keeps the invariant.
LEMMA StepIInv == IInv /\ [Next]_vars => IInv'
<1> SUFFICES ASSUME IInv, [Next]_vars PROVE IInv'
  OBVIOUS
<1> USE GetPidAssumption
<1>t. /\ proc_list \in Seq(Pid) /\ Len(proc_list) \in Nat
      /\ DOMAIN proc_list = 1 .. Len(proc_list)
      /\ \A i \in 1 .. Len(proc_list) : proc_list[i] \in 1 .. MAX_PID - 1
  BY DEF IInv, TypeOK, Pid
<1>1. CASE CallFast
  <2>1. TypeOK'
    BY <1>1, <1>t DEF IInv, TypeOK, CallFast, CanFork
  <2>2. PidsDistinct'
    BY <1>1 DEF IInv, PidsDistinct, CallFast
  <2>3. IntervalFree'
    BY <1>1, <1>t DEF IInv, TypeOK, IntervalFree, Seen, CallFast, CanFork
  <2>4. SkippedUsed'
    <3>1. prev = last_pid /\ last_pid \in 1 .. MAX_PID /\ last_pid' = last_pid + 1
          /\ prev' = prev
      BY <1>1 DEF IInv, TypeOK, CallFast, CanFork
    <3>2. Abstract!Between(prev, last_pid + 1) = {}
      BY <3>1 DEF Abstract!Between
    <3> QED BY <3>1, <3>2 DEF SkippedUsed
  <2> QED BY <2>1, <2>2, <2>3, <2>4 DEF IInv
<1>2. CASE CallScan
  <2>1. TypeOK'
    BY <1>2, <1>t DEF IInv, TypeOK, CallScan, CanFork
  <2>2. PidsDistinct'
    BY <1>2 DEF IInv, PidsDistinct, CallScan
  <2>3. IntervalFree'
    BY <1>2, <1>t DEF IntervalFree, Seen, CallScan
  <2>4. SkippedUsed'
    <3>1. /\ prev = last_pid /\ last_pid \in 1 .. MAX_PID
          /\ last_pid' = IF last_pid + 1 >= MAX_PID THEN 1 ELSE last_pid + 1
          /\ prev' = prev
      BY <1>2 DEF IInv, TypeOK, CallScan, CanFork
    <3>2. Abstract!Between(prev, last_pid') = {}
      BY <3>1 DEF Abstract!Between
    <3> QED BY <3>1, <3>2 DEF SkippedUsed
  <2> QED BY <2>1, <2>2, <2>3, <2>4 DEF IInv
<1>3. CASE ScanCollide
  <2>1. TypeOK'
    BY <1>3, <1>t DEF IInv, TypeOK, ScanCollide, Scanning
  <2>2. PidsDistinct'
    BY <1>3 DEF IInv, PidsDistinct, ScanCollide
  <2>3. IntervalFree'
    BY <1>3, <1>t DEF IInv, TypeOK, IntervalFree, Seen, ScanCollide, Scanning
  <2>4. SkippedUsed'
    <3>1. last_pid + 1 < MAX_PID
      BY <1>3 DEF IInv, TypeOK, ScanCollide, Scanning
    <3>2. Abstract!Between(prev, last_pid + 1) \subseteq used
      BY <1>3, <3>1, SkipOne DEF ScanCollide
    <3>3. prev' = prev /\ last_pid' = last_pid + 1 /\ used' = used
      BY <1>3 DEF ScanCollide, used
    <3> QED BY <3>2, <3>3 DEF SkippedUsed, Abstract!Between
  <2> QED BY <2>1, <2>2, <2>3, <2>4 DEF IInv
<1>4. CASE ScanRepeat
  <2>1. TypeOK'
    BY <1>4, <1>t DEF IInv, TypeOK, ScanRepeat, Scanning
  <2>2. PidsDistinct'
    BY <1>4 DEF IInv, PidsDistinct, ScanRepeat
  <2>3. IntervalFree'
    BY <1>4, <1>t DEF IntervalFree, Seen, ScanRepeat, Scanning
  <2>4. SkippedUsed'
    <3>1. Abstract!Between(prev, last_pid') \subseteq used
      BY <1>4, SkipOne DEF ScanRepeat
    <3>2. prev' = prev /\ used' = used
      BY <1>4 DEF ScanRepeat, used
    <3> QED BY <3>1, <3>2 DEF SkippedUsed, Abstract!Between
  <2> QED BY <2>1, <2>2, <2>3, <2>4 DEF IInv
<1>5. CASE ScanOther
  <2>1. TypeOK'
    BY <1>5, <1>t DEF IInv, TypeOK, ScanOther, Scanning
  <2>2. PidsDistinct'
    BY <1>5 DEF IInv, PidsDistinct, ScanOther
  <2>3. IntervalFree'
    BY <1>5, <1>t DEF IInv, TypeOK, IntervalFree, Seen, ScanOther, Scanning
  <2>4. SkippedUsed'
    BY <1>5 DEF IInv, SkippedUsed, ScanOther, Scanning, used, Abstract!Between
  <2> QED BY <2>1, <2>2, <2>3, <2>4 DEF IInv
<1>6. CASE ScanEnd
  <2>1. TypeOK'
    BY <1>6, <1>t DEF IInv, TypeOK, ScanEnd
  <2>2. PidsDistinct'
    BY <1>6 DEF IInv, PidsDistinct, ScanEnd
  <2>3. IntervalFree'
    BY <1>6, <1>t DEF IInv, TypeOK, IntervalFree, Seen, ScanEnd
  <2>4. SkippedUsed'
    BY <1>6 DEF IInv, SkippedUsed, ScanEnd, used, Abstract!Between
  <2> QED BY <2>1, <2>2, <2>3, <2>4 DEF IInv
<1>7. CASE Link
  <2> DEFINE t == <<last_pid>> \o proc_list
  <2>1. last_pid \in Pid /\ proc_list' = t /\ pc = "return"
    BY <1>7 DEF IInv, TypeOK, Link, Pid
  <2>2. /\ t \in Seq(Pid) /\ Len(t) = Len(proc_list) + 1 /\ t[1] = last_pid
        /\ \A j \in 2 .. Len(proc_list) + 1 : t[j] = proc_list[j - 1]
    BY <1>t, <2>1, ConsFacts
  <2>3. last_pid \notin ToSet(proc_list)
    BY <1>t, <2>1 DEF IInv, IntervalFree, Seen, ToSet
  <2>4. IsInjective(t)
    BY <1>t, <2>1, <2>3, ConsSet DEF IInv, PidsDistinct
  <2> HIDE DEF t
  <2>5. TypeOK'
    BY <1>7, <1>t, <2>1, <2>2 DEF IInv, TypeOK, Link
  <2>6. PidsDistinct'
    BY <2>1, <2>4 DEF PidsDistinct
  <2>7. IntervalFree'
    <3> SUFFICES ASSUME NEW j \in 1 .. Len(proc_list) + 1
                 PROVE  ~(last_pid < t[j] /\ t[j] < next_safe)
      BY <1>7, <2>1, <2>2 DEF IntervalFree, Seen, Link
    <3>1. CASE j = 1
      BY <1>t, <2>1, <2>2, <3>1 DEF Pid
    <3>2. CASE j # 1
      <4>1. j - 1 \in 1 .. Len(proc_list) /\ t[j] = proc_list[j - 1]
        BY <1>t, <2>2, <3>2
      <4> QED BY <1>t, <2>1, <4>1 DEF IInv, IntervalFree, Seen
    <3> QED BY <3>1, <3>2
  <2>8. SkippedUsed'
    BY <1>7 DEF SkippedUsed, Link
  <2> QED BY <2>5, <2>6, <2>7, <2>8 DEF IInv
<1>8. CASE Unlink
  <2>1. PICK i \in 1 .. Len(proc_list) : proc_list' = RemoveAt(proc_list, i)
    BY <1>8 DEF Unlink
  <2> DEFINE t == RemoveAt(proc_list, i)
  <2>2. /\ t \in Seq(Pid) /\ Len(t) = Len(proc_list) - 1
        /\ \A j \in 1 .. Len(proc_list) - 1 :
             t[j] = IF j < i THEN proc_list[j] ELSE proc_list[j + 1]
    BY <1>t, RemoveAtFacts
  <2>3. IsInjective(t)
    BY <1>t, RemoveAtSet DEF IInv, PidsDistinct
  <2>4. proc_list' = t /\ pc = "out" /\ UNCHANGED <<last_pid, next_safe, le, pc, prev>>
    BY <1>8, <2>1 DEF Unlink
  <2> HIDE DEF t
  <2>5. TypeOK'
    BY <1>t, <2>2, <2>4 DEF IInv, TypeOK
  <2>6. PidsDistinct'
    BY <2>3, <2>4 DEF PidsDistinct
  <2>7. IntervalFree'
    <3> SUFFICES ASSUME NEW j \in 1 .. Len(proc_list) - 1
                 PROVE  ~(last_pid < t[j] /\ t[j] < next_safe)
      BY <2>2, <2>4 DEF IntervalFree, Seen
    <3>1. PICK k \in 1 .. Len(proc_list) : t[j] = proc_list[k]
      BY <1>t, <2>2
    <3> QED BY <1>t, <2>4, <3>1 DEF IInv, IntervalFree, Seen
  <2>8. SkippedUsed'
    BY <2>4 DEF SkippedUsed
  <2> QED BY <2>5, <2>6, <2>7, <2>8 DEF IInv
<1>9. CASE UNCHANGED vars
  BY <1>9 DEF IInv, TypeOK, PidsDistinct, IntervalFree, Seen, SkippedUsed, used,
              Abstract!Between, vars
<1> QED BY <1>1, <1>2, <1>3, <1>4, <1>5, <1>6, <1>7, <1>8, <1>9 DEF Next, Scan

\* The ranges of get_pid's variables, its interval of free pids and the pids it
\* has skipped are as stated in every reachable state.
THEOREM InvariantCorrect == Spec => []IInv
  BY InitIInv, StepIInv, PTL DEF Spec

\* No two listed processes ever have the same pid, whatever forks and reaps come
\* between two calls of get_pid.
THEOREM PidsDistinctCorrect == Spec => []PidsDistinct
<1>1. IInv => PidsDistinct
  BY DEF IInv
<1> QED BY <1>1, InvariantCorrect, PTL

\* The interval and the pids passed over stay exact, for the type correct states of
\* get_pid's static variables.
THEOREM SearchCorrect == Spec => []SearchExact
<1>1. IInv => SearchExact
  BY DEF IInv, SearchExact
<1> QED BY <1>1, InvariantCorrect, PTL

\* When get_pid returns, the pid is valid and no listed process has it.
THEOREM ReturnsUnusedPid ==
    Spec => [](pc = "return" => last_pid \in Pid /\ last_pid \notin used)
<1>1. IInv => (pc = "return" => last_pid \in Pid /\ last_pid \notin used)
  <2> SUFFICES ASSUME IInv, pc = "return" PROVE last_pid \in Pid /\ last_pid \notin used
    OBVIOUS
  <2>1. last_pid \in Pid
    BY GetPidAssumption DEF IInv, TypeOK, Pid
  <2>2. last_pid \notin used
    BY DEF IInv, IntervalFree, Seen, used, ToSet
  <2> QED BY <2>1, <2>2
<1> QED BY <1>1, InvariantCorrect, PTL

\* get_pid implements the next-fit allocator: linking the new process is an
\* Alloc step, unlinking a reaped one a Free step, all else stutters.
THEOREM Refinement == Spec => ImplementsPidAlloc
<1>1. Init => Abstract!AInit
  BY DEF Init, Abstract!AInit, used, ToSet
<1>2. IInv /\ [Next]_vars => [Abstract!ANext]_<<used, prev>>
  <2> SUFFICES ASSUME IInv, [Next]_vars PROVE [Abstract!ANext]_<<used, prev>>
    OBVIOUS
  <2>t. proc_list \in Seq(Pid) /\ IsInjective(proc_list)
    BY DEF IInv, TypeOK, PidsDistinct
  <2>1. CASE Link
    <3>1. pc = "return" /\ prev' = last_pid /\ proc_list' = <<last_pid>> \o proc_list
      BY <2>1 DEF Link
    <3>2. last_pid \in Pid
      BY <3>1, GetPidAssumption DEF IInv, TypeOK, Pid
    <3>3. last_pid \notin used
      BY <3>1 DEF IInv, IntervalFree, Seen, used, ToSet
    <3>4. used' = used \cup {last_pid}
      BY <2>t, <3>1, <3>2, ConsSet DEF used
    <3>5. Abstract!Between(prev, last_pid) \subseteq used
      BY <3>1 DEF IInv, SkippedUsed
    <3>6. Abstract!Alloc
      BY <3>1, <3>2, <3>3, <3>4, <3>5 DEF Abstract!Alloc, Pid, Abstract!Pid
    <3> QED BY <3>6 DEF Abstract!ANext
  <2>2. CASE Unlink
    <3>1. PICK i \in 1 .. Len(proc_list) :
            proc_list' = RemoveAt(proc_list, i) /\ prev' = prev
      BY <2>2 DEF Unlink
    <3>2. used' = used \ {proc_list[i]}
      BY <2>t, <3>1, RemoveAtSet DEF used
    <3>3. proc_list[i] \in used
      BY <2>t DEF used, ToSet
    <3>4. Abstract!Free
      BY <3>1, <3>2, <3>3 DEF Abstract!Free
    <3> QED BY <3>4 DEF Abstract!ANext
  <2>3. CASE CallFast \/ CallScan \/ Scan \/ UNCHANGED vars
    BY <2>3 DEF CallFast, CallScan, Scan, ScanCollide, ScanRepeat, ScanOther, ScanEnd,
                vars, used
  <2> QED BY <2>1, <2>2, <2>3 DEF Next
<1> QED BY <1>1, <1>2, InvariantCorrect, PTL
        DEF Spec, ImplementsPidAlloc, Abstract!ASpec, Abstract!avars
=============================================================================
