----------------------------- MODULE RwLockSpec -----------------------------
(***************************************************************************)
(* What the kernel's reader-writer lock promises its callers, as the head  *)
(* of os/src/sync/rw.rs states it: readers share, a writer is alone, and   *)
(* while a writer is queued no further reader gets in.  RwLock implements  *)
(* this specification under the mapping given there.                       *)
(***************************************************************************)
EXTENDS FiniteSets

CONSTANT Proc           \* the contending kernel threads

VARIABLES readers,      \* threads that own a RwLockReadGuard
          writers,      \* threads that own a RwLockWriteGuard
          queued        \* threads inside write() that have announced themselves

absVars == <<readers, writers, queued>>

AbsInit == readers = {} /\ writers = {} /\ queued = {}

AcquireRead(p) ==
    /\ writers = {} /\ queued = {}
    /\ readers' = readers \cup {p}
    /\ UNCHANGED <<writers, queued>>

AskWrite(p) ==
    /\ queued' = queued \cup {p}
    /\ UNCHANGED <<readers, writers>>

\* A writer owns the lock one step before it leaves the queue.
AcquireWrite(p) ==
    /\ p \in queued /\ readers = {} /\ writers = {}
    /\ writers' = {p}
    /\ UNCHANGED <<readers, queued>>

LeaveQueue(p) ==
    /\ p \in writers
    /\ queued' = queued \ {p}
    /\ UNCHANGED <<readers, writers>>

DowngradeTo(p) ==
    /\ writers = {p}
    /\ writers' = {} /\ readers' = {p}
    /\ UNCHANGED queued

ReleaseRead(p) ==
    /\ p \in readers
    /\ readers' = readers \ {p}
    /\ UNCHANGED <<writers, queued>>

ReleaseWrite(p) ==
    /\ writers = {p}
    /\ writers' = {}
    /\ UNCHANGED <<readers, queued>>

AbsNext == \E p \in Proc :
    \/ AcquireRead(p) \/ AskWrite(p) \/ AcquireWrite(p) \/ LeaveQueue(p)
    \/ DowngradeTo(p) \/ ReleaseRead(p) \/ ReleaseWrite(p)

AbsSpec == AbsInit /\ [][AbsNext]_absVars
=============================================================================
