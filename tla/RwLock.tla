------------------------------- MODULE RwLock -------------------------------
(***************************************************************************)
(* The writer-preferring spin lock of os/src/sync/rw.rs, one action per    *)
(* atomic operation on its two counters.  `state' counts the readers that  *)
(* have been admitted (or is -1 while a writer owns the lock) and          *)
(* `asked_write' the writers inside write().  The atomics are taken as     *)
(* sequentially consistent.                                                *)
(***************************************************************************)
EXTENDS Integers, FiniteSets

CONSTANT Proc           \* the contending kernel threads

ASSUME ProcFinite == IsFiniteSet(Proc)

VARIABLES state,        \* AtomicIsize: number of readers, or -1
          asked_write,  \* AtomicIsize: number of announced writers
          pc,           \* where each thread is in read(), write() or a guard
          seen          \* the value of `state' a reader loaded last

vars == <<state, asked_write, pc, seen>>

PC == {"idle", "r_load", "r_asked", "r_cas", "r_recheck", "r_undo", "reading",
       "w_try", "w_leave", "writing"}

TypeOK ==
    /\ state \in Nat \cup {-1}
    /\ asked_write \in Nat
    /\ pc \in [Proc -> PC]
    /\ seen \in [Proc -> Nat \cup {-1}]

Init ==
    /\ state = 0
    /\ asked_write = 0
    /\ pc = [p \in Proc |-> "idle"]
    /\ seen = [p \in Proc |-> 0]

Goto(p, from, to) == pc[p] = from /\ pc' = [pc EXCEPT ![p] = to]

-----------------------------------------------------------------------------
(* Wrong variants of single steps, used to see that the properties notice.  *)

\* fetch_add in place of compare_exchange.
ReadCasFetchAdd(p) ==
    /\ Goto(p, "r_cas", "r_recheck")
    /\ state' = state + 1
    /\ UNCHANGED <<asked_write, seen>>

\* The second look at asked_write is missing.
ReadRecheckBlind(p) ==
    /\ Goto(p, "r_recheck", "reading")
    /\ UNCHANGED <<state, asked_write, seen>>

\* A reader that stepped back forgets to give its count back.
ReadUndoLeak(p) ==
    /\ Goto(p, "r_undo", "r_load")
    /\ UNCHANGED <<state, asked_write, seen>>

\* A writer does not wait for a single remaining reader.
WriteCasImpatient(p) ==
    /\ state \in {0, 1}
    /\ Goto(p, "w_try", "w_leave")
    /\ state' = -1
    /\ UNCHANGED <<asked_write, seen>>

-----------------------------------------------------------------------------
(* read(): load state, load asked_write, CAS, then look at asked_write again *)

ReadCall(p) ==
    /\ Goto(p, "idle", "r_load")
    /\ UNCHANGED <<state, asked_write, seen>>

ReadLoad(p) ==
    /\ state >= 0                       \* otherwise spin_loop() and load again
    /\ Goto(p, "r_load", "r_asked")
    /\ seen' = [seen EXCEPT ![p] = state]
    /\ UNCHANGED <<state, asked_write>>

ReadAsked(p) ==
    /\ Goto(p, "r_asked", IF asked_write = 0 THEN "r_cas" ELSE "r_load")
    /\ UNCHANGED <<state, asked_write, seen>>

ReadCas(p) ==
    /\ \/ /\ state = seen[p]
          /\ Goto(p, "r_cas", "r_recheck")
          /\ state' = state + 1
       \/ /\ state # seen[p]
          /\ Goto(p, "r_cas", "r_load")
          /\ UNCHANGED state
    /\ UNCHANGED <<asked_write, seen>>

ReadRecheck(p) ==
    /\ Goto(p, "r_recheck", IF asked_write = 0 THEN "reading" ELSE "r_undo")
    /\ UNCHANGED <<state, asked_write, seen>>

ReadUndo(p) ==
    /\ Goto(p, "r_undo", "r_load")
    /\ state' = state - 1
    /\ UNCHANGED <<asked_write, seen>>

DropRead(p) ==
    /\ Goto(p, "reading", "idle")
    /\ state' = state - 1
    /\ UNCHANGED <<asked_write, seen>>

-----------------------------------------------------------------------------
(* write(): announce, CAS 0 -> -1 until it succeeds, withdraw the announcement *)

WriteAsk(p) ==
    /\ Goto(p, "idle", "w_try")
    /\ asked_write' = asked_write + 1
    /\ UNCHANGED <<state, seen>>

WriteCas(p) ==
    /\ state = 0                        \* a failed load or CAS loops
    /\ Goto(p, "w_try", "w_leave")
    /\ state' = -1
    /\ UNCHANGED <<asked_write, seen>>

WriteLeave(p) ==
    /\ Goto(p, "w_leave", "writing")
    /\ asked_write' = asked_write - 1
    /\ UNCHANGED <<state, seen>>

Downgrade(p) ==
    /\ Goto(p, "writing", "reading")
    /\ state' = 1                       \* swap(1)
    /\ UNCHANGED <<asked_write, seen>>

DropWrite(p) ==
    /\ Goto(p, "writing", "idle")
    /\ state' = 0
    /\ UNCHANGED <<asked_write, seen>>

-----------------------------------------------------------------------------

Step(p) ==
    \/ ReadLoad(p) \/ ReadAsked(p) \/ ReadCas(p) \/ ReadRecheck(p) \/ ReadUndo(p)
    \/ WriteCas(p) \/ WriteLeave(p)
    \/ DropRead(p) \/ DropWrite(p)

Next == \E p \in Proc : ReadCall(p) \/ WriteAsk(p) \/ Downgrade(p) \/ Step(p)

\* A thread inside read() or write() keeps running, and a guard is dropped in
\* the end (it is a scoped value); nobody has to call read() or write().
Fairness == \A p \in Proc : WF_vars(Step(p))

Spec == Init /\ [][Next]_vars

FairSpec == Spec /\ Fairness

-----------------------------------------------------------------------------

Readers  == {p \in Proc : pc[p] = "reading"}
Writers  == {p \in Proc : pc[p] \in {"w_leave", "writing"}}
Queued   == {p \in Proc : pc[p] \in {"w_try", "w_leave"}}
Admitted == {p \in Proc : pc[p] \in {"r_recheck", "r_undo", "reading"}}

\* Readers share and a writer is alone: the data behind the lock is never
\* reachable through a RwLockWriteGuard and through any other guard at once.
Exclusion ==
    /\ Cardinality(Writers) <= 1
    /\ Writers # {} => Readers = {}

\* Both counters say exactly what the threads are doing: `state' is -1 while a
\* writer owns the lock and the number of admitted readers otherwise, so the
\* plain store(0) of the write guard's drop and the swap(1) of downgrade never
\* overwrite somebody else's count.
CountersExact ==
    /\ state = IF Writers # {} THEN -1 ELSE Cardinality(Admitted)
    /\ Writers # {} => Admitted = {}
    /\ asked_write = Cardinality(Queued)

\* A thread that gets a read guard out of read() (rather than by downgrading)
\* gets it at a moment when no writer is queued, whatever it had seen earlier.
ReadersYield ==
    [][\A p \in Proc : (pc[p] # "writing" /\ p \notin Readers /\ p \in Readers')
                          => Queued = {}]_vars

\* Writers do not starve behind readers: once a writer is queued, some queued
\* writer gets the lock although readers keep arriving.
WriterGetsIn == (Queued # {}) ~> (Writers # {})

\* The lock implements the promise of RwLockSpec.
Abs == INSTANCE RwLockSpec WITH readers <- Readers, writers <- Writers, queued <- Queued
Refinement == Abs!AbsSpec
=============================================================================
