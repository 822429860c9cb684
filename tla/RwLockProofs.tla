---------------------------- MODULE RwLockProofs ----------------------------
(***************************************************************************)
(* Proofs about RwLock for any finite set of threads: type correctness,    *)
(* mutual exclusion, exactness of the two counters, the yielding of        *)
(* readers, and that the lock implements RwLockSpec.                       *)
(***************************************************************************)
EXTENDS RwLock, FiniteSetTheorems, TLAPS

\* The invariant that is inductive.  Exclusion and CountersExact need each
\* other (a writer gets in because the exact count is 0), and a CAS that
\* succeeds must not have compared with the -1 of a writer.
LockInv ==
    /\ TypeOK
    /\ \A p, q \in Writers : p = q
    /\ Writers # {} => Admitted = {}
    /\ state = IF Writers # {} THEN -1 ELSE Cardinality(Admitted)
    /\ asked_write = Cardinality(Queued)
    /\ \A p \in Proc : pc[p] \in {"r_asked", "r_cas"} => seen[p] >= 0

\* A part of the finite set of threads is finite and has a natural number of
\* members, none exactly when it is empty.
LEMMA PartsFinite ==
    ASSUME NEW S \in SUBSET Proc
    PROVE  /\ IsFiniteSet(S)
           /\ Cardinality(S) \in Nat
           /\ Cardinality(S) = 0 <=> S = {}
BY ProcFinite, FS_Subset, FS_CardinalityType, FS_EmptySet

\* One thread joining or leaving a set of threads changes its size by one.
LEMMA OneMoreOneLess ==
    ASSUME NEW S \in SUBSET Proc, NEW p \in Proc
    PROVE  /\ p \notin S => Cardinality(S \cup {p}) = Cardinality(S) + 1
           /\ p \in S => Cardinality(S \ {p}) = Cardinality(S) - 1
BY PartsFinite, FS_AddElement, FS_RemoveElement

\* The three sets of threads that the counters describe are sets of threads.
LEMMA Parts ==
    /\ Writers \in SUBSET Proc /\ Queued \in SUBSET Proc /\ Admitted \in SUBSET Proc
    /\ Writers' \in SUBSET Proc /\ Queued' \in SUBSET Proc /\ Admitted' \in SUBSET Proc
BY DEF Writers, Queued, Admitted

\* The lock starts free.
LEMMA InitLockInv == Init => LockInv
<1> SUFFICES ASSUME Init PROVE LockInv
    OBVIOUS
<1>1. TypeOK
    BY DEF Init, TypeOK, PC
<1>2. Writers = {} /\ Admitted = {} /\ Queued = {}
    BY DEF Init, Writers, Admitted, Queued
<1>3. Cardinality(Admitted) = 0 /\ Cardinality(Queued) = 0
    BY <1>2, FS_EmptySet
<1> QED
    BY <1>1, <1>2, <1>3 DEF Init, LockInv

\* Every step of every thread keeps the invariant.
LEMMA NextLockInv == LockInv /\ [Next]_vars => LockInv'
<1> SUFFICES ASSUME LockInv, [Next]_vars PROVE LockInv'
    OBVIOUS
<1> USE DEF Goto, PC
<1>1. CASE UNCHANGED vars
  <2>1. Writers' = Writers /\ Admitted' = Admitted /\ Queued' = Queued
    BY <1>1 DEF vars, Writers, Admitted, Queued
  <2> QED
    BY <1>1, <2>1 DEF vars, LockInv, TypeOK
<1>2. ASSUME NEW p \in Proc, ReadCall(p) \/ ReadLoad(p) \/ ReadAsked(p) \/ ReadRecheck(p)
      PROVE  LockInv'
  <2>1. Writers' = Writers /\ Admitted' = Admitted /\ Queued' = Queued
    BY <1>2 DEF ReadCall, ReadLoad, ReadAsked, ReadRecheck, LockInv, TypeOK,
                Writers, Admitted, Queued
  <2>2. TypeOK'
    BY <1>2 DEF ReadCall, ReadLoad, ReadAsked, ReadRecheck, LockInv, TypeOK
  <2>3. \A q \in Proc : pc'[q] \in {"r_asked", "r_cas"} => seen'[q] >= 0
    BY <1>2 DEF ReadCall, ReadLoad, ReadAsked, ReadRecheck, LockInv, TypeOK
  <2>4. state' = state /\ asked_write' = asked_write
    BY <1>2 DEF ReadCall, ReadLoad, ReadAsked, ReadRecheck
  <2> QED
    BY <2>1, <2>2, <2>3, <2>4 DEF LockInv
<1>3. ASSUME NEW p \in Proc, ReadCas(p)
      PROVE  LockInv'
  <2>1. CASE state # seen[p]
    <3>1. Writers' = Writers /\ Admitted' = Admitted /\ Queued' = Queued
      BY <1>3, <2>1 DEF ReadCas, LockInv, TypeOK, Writers, Admitted, Queued
    <3> QED
      BY <1>3, <2>1, <3>1 DEF ReadCas, LockInv, TypeOK
  <2>2. CASE state = seen[p]
    <3>1. state >= 0 /\ Writers = {}
      BY <1>3, <2>2 DEF ReadCas, LockInv
    <3>2. Writers' = {} /\ Queued' = Queued /\ Admitted' = Admitted \cup {p} /\ p \notin Admitted
      BY <1>3, <2>2, <3>1 DEF ReadCas, LockInv, TypeOK, Writers, Admitted, Queued
    <3>3. Cardinality(Admitted') = Cardinality(Admitted) + 1
      BY <3>2, Parts, OneMoreOneLess
    <3>4. state' = state + 1 /\ asked_write' = asked_write
      BY <1>3, <2>2 DEF ReadCas
    <3>5. TypeOK'
      BY <1>3, <2>2, <3>1 DEF ReadCas, LockInv, TypeOK
    <3>6. \A q \in Proc : pc'[q] \in {"r_asked", "r_cas"} => seen'[q] >= 0
      BY <1>3, <2>2 DEF ReadCas, LockInv, TypeOK
    <3> QED
      BY <3>1, <3>2, <3>3, <3>4, <3>5, <3>6 DEF LockInv
  <2> QED
    BY <2>1, <2>2
<1>4. ASSUME NEW p \in Proc, ReadUndo(p) \/ DropRead(p)
      PROVE  LockInv'
  <2>1. p \in Admitted /\ Writers = {}
    BY <1>4 DEF ReadUndo, DropRead, Admitted, LockInv
  <2>2. Writers' = {} /\ Queued' = Queued /\ Admitted' = Admitted \ {p}
    BY <1>4, <2>1 DEF ReadUndo, DropRead, LockInv, TypeOK, Writers, Admitted, Queued
  <2>3. Cardinality(Admitted') = Cardinality(Admitted) - 1 /\ Cardinality(Admitted') \in Nat
    BY <2>1, <2>2, Parts, PartsFinite, OneMoreOneLess
  <2>4. state' = Cardinality(Admitted') /\ asked_write' = asked_write
    BY <1>4, <2>1, <2>3 DEF ReadUndo, DropRead, LockInv
  <2>5. TypeOK'
    BY <1>4, <2>3, <2>4 DEF ReadUndo, DropRead, LockInv, TypeOK
  <2>6. \A q \in Proc : pc'[q] \in {"r_asked", "r_cas"} => seen'[q] >= 0
    BY <1>4 DEF ReadUndo, DropRead, LockInv, TypeOK
  <2> QED
    BY <2>2, <2>4, <2>5, <2>6 DEF LockInv
<1>5. ASSUME NEW p \in Proc, WriteAsk(p)
      PROVE  LockInv'
  <2>1. Writers' = Writers /\ Admitted' = Admitted /\ Queued' = Queued \cup {p} /\ p \notin Queued
    BY <1>5 DEF WriteAsk, LockInv, TypeOK, Writers, Admitted, Queued
  <2>2. Cardinality(Queued') = Cardinality(Queued) + 1
    BY <2>1, Parts, OneMoreOneLess
  <2> QED
    BY <1>5, <2>1, <2>2 DEF WriteAsk, LockInv, TypeOK
<1>6. ASSUME NEW p \in Proc, WriteCas(p)
      PROVE  LockInv'
  <2>1. Writers = {} /\ Admitted = {}
    BY <1>6, Parts, PartsFinite DEF WriteCas, LockInv
  <2>2. Writers' = {p} /\ Admitted' = {} /\ Queued' = Queued
    BY <1>6, <2>1 DEF WriteCas, LockInv, TypeOK, Writers, Admitted, Queued
  <2> QED
    BY <1>6, <2>2 DEF WriteCas, LockInv, TypeOK
<1>7. ASSUME NEW p \in Proc, WriteLeave(p)
      PROVE  LockInv'
  <2>1. Writers' = Writers /\ Admitted' = Admitted /\ Queued' = Queued \ {p} /\ p \in Queued
    BY <1>7 DEF WriteLeave, LockInv, TypeOK, Writers, Admitted, Queued
  <2>2. Cardinality(Queued') = Cardinality(Queued) - 1 /\ Cardinality(Queued') \in Nat
    BY <2>1, Parts, PartsFinite, OneMoreOneLess
  <2> QED
    BY <1>7, <2>1, <2>2 DEF WriteLeave, LockInv, TypeOK
<1>8. ASSUME NEW p \in Proc, Downgrade(p)
      PROVE  LockInv'
  <2>1. p \in Writers /\ Admitted = {}
    BY <1>8 DEF Downgrade, Writers, LockInv
  <2>2. Writers' = {} /\ Admitted' = {p} /\ Queued' = Queued
    BY <1>8, <2>1 DEF Downgrade, LockInv, TypeOK, Writers, Admitted, Queued
  <2>3. Cardinality(Admitted') = 1
    BY <2>2, FS_Singleton
  <2> QED
    BY <1>8, <2>2, <2>3 DEF Downgrade, LockInv, TypeOK
<1>9. ASSUME NEW p \in Proc, DropWrite(p)
      PROVE  LockInv'
  <2>1. p \in Writers /\ Admitted = {}
    BY <1>9 DEF DropWrite, Writers, LockInv
  <2>2. Writers' = {} /\ Admitted' = {} /\ Queued' = Queued
    BY <1>9, <2>1 DEF DropWrite, LockInv, TypeOK, Writers, Admitted, Queued
  <2>3. Cardinality(Admitted') = 0
    BY <2>2, FS_EmptySet
  <2> QED
    BY <1>9, <2>2, <2>3 DEF DropWrite, LockInv, TypeOK
<1> QED
    BY <1>1, <1>2, <1>3, <1>4, <1>5, <1>6, <1>7, <1>8, <1>9 DEF Next, Step

\* The inductive invariant holds in every reachable state.
THEOREM LockInvariant == Spec => []LockInv
<1> QED
    BY InitLockInv, NextLockInv, PTL DEF Spec

\* Type correctness of the lock's words and of the threads' program counters.
THEOREM TypeCorrect == Spec => []TypeOK
<1>1. LockInv => TypeOK
    BY DEF LockInv
<1> QED
    BY <1>1, LockInvariant, PTL

\* For any number of threads: at most one write guard exists, and while it
\* exists there is no read guard.
THEOREM MutualExclusion == Spec => []Exclusion
<1>1. LockInv => Exclusion
  <2> SUFFICES ASSUME LockInv PROVE Exclusion
    OBVIOUS
  <2>1. Writers = {} \/ \E p \in Proc : Writers = {p}
    BY DEF LockInv, Writers
  <2>2. Cardinality(Writers) <= 1
    BY <2>1, FS_EmptySet, FS_Singleton
  <2>3. Readers \subseteq Admitted
    BY DEF Readers, Admitted
  <2> QED
    BY <2>2, <2>3 DEF LockInv, Exclusion
<1> QED
    BY <1>1, LockInvariant, PTL

\* For any number of threads the two counters are exact.
THEOREM CountersAreExact == Spec => []CountersExact
<1>1. LockInv => CountersExact
    BY DEF LockInv, CountersExact
<1> QED
    BY <1>1, LockInvariant, PTL

\* For any number of threads, read() hands out a guard only while no writer is
\* queued.
THEOREM ReadersDoYield == Spec => ReadersYield
<1>1. LockInv /\ [Next]_vars =>
        [\A p \in Proc : (pc[p] # "writing" /\ p \notin Readers /\ p \in Readers')
                            => Queued = {}]_vars
  <2> SUFFICES ASSUME LockInv, Next, NEW p \in Proc,
                      pc[p] # "writing", p \notin Readers, p \in Readers'
               PROVE  Queued = {}
    BY DEF vars
  <2>1. ReadRecheck(p) /\ asked_write = 0
    BY DEF Next, Step, ReadCall, WriteAsk, Downgrade, ReadLoad, ReadAsked, ReadCas,
           ReadRecheck, ReadUndo, WriteCas, WriteLeave, DropRead, DropWrite, Goto,
           Readers, LockInv, TypeOK
  <2> QED
    BY <2>1, Parts, PartsFinite DEF LockInv
<1> QED
    BY <1>1, LockInvariant, PTL DEF Spec, ReadersYield

\* The lock implements its abstract specification: every step of a thread is a
\* step of RwLockSpec or leaves the owners and the queue alone.
THEOREM Implements == Spec => Refinement
<1>1. Init => Abs!AbsInit
    BY DEF Init, Abs!AbsInit, Readers, Writers, Queued
<1>2. LockInv /\ [Next]_vars => [Abs!AbsNext]_(Abs!absVars)
  <2> SUFFICES ASSUME LockInv, [Next]_vars
               PROVE  Abs!AbsNext \/ UNCHANGED Abs!absVars
    OBVIOUS
  <2> USE DEF Goto, Readers, Writers, Queued, TypeOK
  <2>1. CASE UNCHANGED vars
    BY <2>1 DEF vars, Abs!absVars
  <2>2. ASSUME NEW p \in Proc,
               ReadCall(p) \/ ReadLoad(p) \/ ReadAsked(p) \/ ReadCas(p) \/ ReadUndo(p)
        PROVE  UNCHANGED Abs!absVars
    BY <2>2 DEF ReadCall, ReadLoad, ReadAsked, ReadCas, ReadUndo, LockInv, Abs!absVars
  <2>3. ASSUME NEW p \in Proc, ReadRecheck(p)
        PROVE  Abs!AcquireRead(p) \/ UNCHANGED Abs!absVars
    <3>1. CASE asked_write = 0
      <4>1. Queued = {}
        BY <3>1, Parts, PartsFinite DEF LockInv
      <4>2. p \in Admitted /\ Writers = {}
        BY <2>3 DEF ReadRecheck, Admitted, LockInv
      <4> QED
        BY <2>3, <3>1, <4>1, <4>2 DEF ReadRecheck, LockInv, Abs!AcquireRead
    <3>2. CASE asked_write # 0
      BY <2>3, <3>2 DEF ReadRecheck, LockInv, Abs!absVars
    <3> QED
      BY <3>1, <3>2
  <2>4. ASSUME NEW p \in Proc, WriteAsk(p) PROVE Abs!AskWrite(p)
    BY <2>4 DEF WriteAsk, LockInv, Abs!AskWrite
  <2>5. ASSUME NEW p \in Proc, WriteCas(p) PROVE Abs!AcquireWrite(p)
    <3>1. Writers = {} /\ Admitted = {}
      BY <2>5, Parts, PartsFinite DEF WriteCas, LockInv
    <3>2. Readers = {}
      BY <3>1 DEF Admitted
    <3> QED
      BY <2>5, <3>1, <3>2 DEF WriteCas, LockInv, Abs!AcquireWrite
  <2>6. ASSUME NEW p \in Proc, WriteLeave(p) PROVE Abs!LeaveQueue(p)
    BY <2>6 DEF WriteLeave, LockInv, Abs!LeaveQueue
  <2>7. ASSUME NEW p \in Proc, Downgrade(p) \/ DropWrite(p)
        PROVE  Abs!DowngradeTo(p) \/ Abs!ReleaseWrite(p)
    <3>1. Writers = {p} /\ Admitted = {}
      BY <2>7 DEF Downgrade, DropWrite, LockInv
    <3>2. Readers = {}
      BY <3>1 DEF Admitted
    <3> QED
      BY <2>7, <3>1, <3>2 DEF Downgrade, DropWrite, LockInv, Abs!DowngradeTo, Abs!ReleaseWrite
  <2>8. ASSUME NEW p \in Proc, DropRead(p) PROVE Abs!ReleaseRead(p)
    BY <2>8 DEF DropRead, LockInv, Abs!ReleaseRead
  <2> QED
    BY <2>1, <2>2, <2>3, <2>4, <2>5, <2>6, <2>7, <2>8 DEF Next, Step, Abs!AbsNext
<1> QED
    BY <1>1, <1>2, LockInvariant, PTL DEF Spec, Refinement, Abs!AbsSpec
=============================================================================
