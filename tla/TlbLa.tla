------------------------------- MODULE TlbLa -------------------------------
(***************************************************************************)
(* TLB shootdown on LoongArch (arch/la/mm/tlb.rs, the entry and the return *)
(* path of arch/la/trap/mod.rs, arch/la/ipi.rs).  A hart announces the     *)
(* address space it enters and withdraws it first thing in the kernel; a   *)
(* hart that has changed a page table posts a numbered request to every    *)
(* hart that is active in it, raises an interrupt there, and waits for all *)
(* acknowledgements before it releases the frame.  The kernel runs with    *)
(* interrupts disabled, so a request is only noticed in user mode or at    *)
(* the next crossing between user mode and the kernel.                     *)
(***************************************************************************)
EXTENDS Naturals, FiniteSets

CONSTANTS Hart, Task, Space, Page, Nil,
          Sharings,                     \* assignments of tasks to address spaces
          MaxSequence                   \* bound on the number of shootdowns

VARIABLES spaceOf,   \* the address space of each task; never changes
          at,        \* where each hart is
          on,        \* its task
          active,    \* active_mm, of which active_harts is the inverse
          pending,   \* the number of the request posted to each hart, 0 for none
          got,       \* the request that service_pending was called with
          back,      \* where service_pending returns to
          ack,       \* ACK_SEQUENCE
          sequence,  \* NEXT_SEQUENCE - 1
          shootdown, \* holder of SHOOTDOWN_LOCK
          layout,    \* holder of the areas lock of an address space
          ipi,       \* the harts with a raised interrupt
          await,     \* the harts whose acknowledgement is waited for
          entry,     \* the frame that the page of an address space maps to
          cached,    \* the frames in the TLB of each hart
          hold,      \* the frame that a hart releases after its shootdown
          freed,     \* the frames that are not in use
          alive      \* the tasks that exist

laVars == <<spaceOf, at, on, active, pending, got, back, ack, sequence, shootdown, layout, ipi,
            await, entry, cached, hold, freed, alive>>

Goto(h, from, to) == at[h] = from /\ at' = [at EXCEPT ![h] = to]
Mine(h) == spaceOf[on[h]]

-----------------------------------------------------------------------------
(* User mode: translations are cached at any time; a trap comes at any     *)
(* time, and must come when the interrupt line is raised.                  *)
UserWalk(h) ==
    /\ at[h] = "user" /\ entry[Mine(h)] # Nil
    /\ cached' = [cached EXCEPT ![h] = @ \cup {entry[Mine(h)]}]
    /\ UNCHANGED <<spaceOf, at, on, active, pending, got, back, ack, sequence, shootdown, layout,
                   ipi, await, entry, hold, freed, alive>>
Trap(h) ==
    /\ Goto(h, "user", "leave")
    /\ ipi' = ipi \ {h}
    /\ UNCHANGED <<spaceOf, on, active, pending, got, back, ack, sequence, shootdown, layout,
                   await, entry, cached, hold, freed, alive>>

(* leave_user_mm, before any lock.                                         *)
LeaveUserMm(h) ==
    /\ Goto(h, "leave", "service")
    /\ active' = [active EXCEPT ![h] = Nil]
    /\ got' = [got EXCEPT ![h] = pending[h]]
    /\ back' = [back EXCEPT ![h] = "kernel"]
    /\ UNCHANGED <<spaceOf, on, pending, ack, sequence, shootdown, layout, ipi, await, entry,
                   cached, hold, freed, alive>>

(* service_pending: nothing when there is no request or it has been        *)
(* acknowledged; else flush, withdraw the request, acknowledge.            *)
Service(h) ==
    /\ at[h] = "service"
    /\ IF got[h] = 0 \/ ack[h] = got[h]
       THEN at' = [at EXCEPT ![h] = back[h]] /\ UNCHANGED <<ipi, cached>>
       ELSE /\ at' = [at EXCEPT ![h] = "withdraw"]
            /\ ipi' = ipi \ {h}
            /\ cached' = [cached EXCEPT ![h] = {}]
    /\ UNCHANGED <<spaceOf, on, active, pending, got, back, ack, sequence, shootdown, layout,
                   await, entry, hold, freed, alive>>
Withdraw(h) ==
    /\ Goto(h, "withdraw", "ack")
    /\ pending' = [pending EXCEPT ![h] = IF @ = got[h] THEN 0 ELSE @]
    /\ UNCHANGED <<spaceOf, on, active, got, back, ack, sequence, shootdown, layout, ipi, await,
                   entry, cached, hold, freed, alive>>
Acknowledge(h) ==
    /\ at[h] = "ack"
    /\ at' = [at EXCEPT ![h] = back[h]]
    /\ ack' = [ack EXCEPT ![h] = got[h]]
    /\ UNCHANGED <<spaceOf, on, active, pending, got, back, sequence, shootdown, layout, ipi,
                   await, entry, cached, hold, freed, alive>>

(* Mutant: the TLB is not flushed on the way back to user mode.            *)
EnterUserMmKeeps(h) ==
    /\ on[h] # Nil /\ Goto(h, "kernel", "user")
    /\ active' = [active EXCEPT ![h] = Mine(h)]
    /\ pending' = [pending EXCEPT ![h] = 0]
    /\ ack' = [ack EXCEPT ![h] = IF pending[h] = 0 THEN @ ELSE pending[h]]
    /\ ipi' = IF pending[h] = 0 THEN ipi ELSE ipi \ {h}
    /\ UNCHANGED <<spaceOf, on, got, back, sequence, shootdown, layout, await, entry, cached, hold,
                   freed, alive>>

(* enter_user_mm: under the state lock, flush and announce.  A request that *)
(* is found here is acknowledged first; none ever is.                      *)
EnterUserMm(h) ==
    /\ on[h] # Nil /\ Goto(h, "kernel", "user")
    /\ active' = [active EXCEPT ![h] = Mine(h)]
    /\ cached' = [cached EXCEPT ![h] = {}]
    /\ pending' = [pending EXCEPT ![h] = 0]
    /\ ack' = [ack EXCEPT ![h] = IF pending[h] = 0 THEN @ ELSE pending[h]]
    /\ ipi' = IF pending[h] = 0 THEN ipi ELSE ipi \ {h}
    /\ UNCHANGED <<spaceOf, on, got, back, sequence, shootdown, layout, await, entry, hold, freed,
                   alive>>

-----------------------------------------------------------------------------
(* The kernel: another task is scheduled; a page is mapped, which needs no *)
(* shootdown; it is unmapped under the areas lock, or replaced by a copy.  *)
Schedule(h) ==
    /\ at[h] = "kernel"
    /\ \E t \in {Nil} \cup {u \in alive : \A g \in Hart : on[g] # u} : on' = [on EXCEPT ![h] = t]
    /\ UNCHANGED <<spaceOf, at, active, pending, got, back, ack, sequence, shootdown, layout, ipi,
                   await, entry, cached, hold, freed, alive>>
MapOne(h) ==
    /\ at[h] = "kernel" /\ on[h] # Nil /\ entry[Mine(h)] = Nil
    /\ \E f \in freed : entry' = [entry EXCEPT ![Mine(h)] = f] /\ freed' = freed \ {f}
    /\ cached' = [cached EXCEPT ![h] = {}]
    /\ UNCHANGED <<spaceOf, at, on, active, pending, got, back, ack, sequence, shootdown, layout,
                   ipi, await, hold, alive>>
Unmap(h) ==
    /\ Goto(h, "kernel", "flush") /\ sequence < MaxSequence /\ on[h] # Nil
    /\ layout[Mine(h)] = Nil /\ entry[Mine(h)] # Nil
    /\ layout' = [layout EXCEPT ![Mine(h)] = h]
    /\ entry' = [entry EXCEPT ![Mine(h)] = Nil]
    /\ hold' = [hold EXCEPT ![h] = {entry[Mine(h)]}]
    /\ UNCHANGED <<spaceOf, on, active, pending, got, back, ack, sequence, shootdown, ipi, await,
                   cached, freed, alive>>
CopyOnWrite(h) ==
    /\ Goto(h, "kernel", "flush") /\ sequence < MaxSequence /\ on[h] # Nil
    /\ entry[Mine(h)] # Nil
    /\ \E f \in freed : entry' = [entry EXCEPT ![Mine(h)] = f] /\ freed' = freed \ {f}
    /\ hold' = [hold EXCEPT ![h] = {entry[Mine(h)]}]
    /\ UNCHANGED <<spaceOf, on, active, pending, got, back, ack, sequence, shootdown, layout, ipi,
                   await, cached, alive>>

(* flush_tlb_targets: the lock; requests and interrupts under the state    *)
(* lock; the own request is served, the others are waited for.             *)
Targets(h) == {g \in Hart : active[g] = Mine(h)}
LockShootdown(h) ==
    /\ Goto(h, "flush", "post") /\ shootdown = Nil
    /\ shootdown' = h
    /\ sequence' = sequence + 1
    /\ UNCHANGED <<spaceOf, on, active, pending, got, back, ack, layout, ipi, await, entry, cached,
                   hold, freed, alive>>
Post(h) ==
    /\ at[h] = "post"
    /\ pending' = [g \in Hart |-> IF g \in Targets(h) THEN sequence ELSE pending[g]]
    /\ ipi' = ipi \cup (Targets(h) \ {h})
    /\ await' = Targets(h) \ {h}
    /\ got' = [got EXCEPT ![h] = IF h \in Targets(h) THEN sequence ELSE 0]
    /\ back' = [back EXCEPT ![h] = "await"]
    /\ at' = [at EXCEPT ![h] = "service"]
    /\ UNCHANGED <<spaceOf, on, active, ack, sequence, shootdown, layout, entry, cached, hold,
                   freed, alive>>
Await(h) ==
    /\ at[h] = "await"
    /\ IF await = {}
       THEN /\ at' = [at EXCEPT ![h] = "release"] /\ shootdown' = Nil /\ UNCHANGED await
       ELSE \E g \in await : ack[g] = sequence /\ await' = await \ {g} /\ UNCHANGED <<at, shootdown>>
    /\ UNCHANGED <<spaceOf, on, active, pending, got, back, ack, sequence, layout, ipi, entry,
                   cached, hold, freed, alive>>
ReleaseFrames(h) ==
    /\ Goto(h, "release", "kernel")
    /\ layout' = [m \in Space |-> IF layout[m] = h THEN Nil ELSE layout[m]]
    /\ freed' = freed \cup hold[h]
    /\ hold' = [hold EXCEPT ![h] = {}]
    /\ UNCHANGED <<spaceOf, on, active, pending, got, back, ack, sequence, shootdown, ipi, await,
                   entry, cached, alive>>

(* The last task of an address space takes it along: retire_mm, which      *)
(* flushes nothing, and the frames.                                        *)
ExitLast(h) ==
    /\ at[h] = "kernel" /\ on[h] # Nil
    /\ alive' = alive \ {on[h]}
    /\ on' = [on EXCEPT ![h] = Nil]
    /\ IF \E t \in alive \ {on[h]} : spaceOf[t] = Mine(h)
       THEN UNCHANGED <<entry, freed>>
       ELSE entry' = [entry EXCEPT ![Mine(h)] = Nil] /\ freed' = freed \cup ({entry[Mine(h)]} \ {Nil})
    /\ UNCHANGED <<spaceOf, at, active, pending, got, back, ack, sequence, shootdown, layout, ipi,
                   await, cached, hold>>

LaInit ==
    /\ spaceOf \in Sharings
    /\ at = [h \in Hart |-> "kernel"]
    /\ on = [h \in Hart |-> Nil]
    /\ active = [h \in Hart |-> Nil]
    /\ pending = [h \in Hart |-> 0]
    /\ got = [h \in Hart |-> 0]
    /\ back = [h \in Hart |-> "kernel"]
    /\ ack = [h \in Hart |-> 0]
    /\ sequence = 0
    /\ shootdown = Nil
    /\ layout = [m \in Space |-> Nil]
    /\ ipi = {}
    /\ await = {}
    /\ entry = [m \in Space |-> Nil]
    /\ cached = [h \in Hart |-> {}]
    /\ hold = [h \in Hart |-> {}]
    /\ freed = Page
    /\ alive = Task

Cross(h) == LeaveUserMm(h) \/ Service(h) \/ Withdraw(h) \/ Acknowledge(h)
Shoot(h) == LockShootdown(h) \/ Post(h) \/ Await(h) \/ ReleaseFrames(h)
LaNext == \E h \in Hart :
    \/ UserWalk(h) \/ Trap(h) \/ Cross(h) \/ EnterUserMm(h)
    \/ Schedule(h) \/ MapOne(h) \/ Unmap(h) \/ CopyOnWrite(h) \/ Shoot(h) \/ ExitLast(h)

LaSpec == LaInit /\ [][LaNext]_laVars

-----------------------------------------------------------------------------
(* A hart in user mode has in its TLB only the current translation of its  *)
(* page and ones that a hart still waits to release: never a frame that is *)
(* free, and none of another process.  A hart is posted at most one request*)
(* at a time, none while it is in the kernel proper, and its task is alive *)
(* while it is active.                                                     *)
ShootdownSafe ==
    /\ \A h \in Hart : at[h] = "user" =>
        /\ active[h] = Mine(h) /\ on[h] \in alive
        /\ cached[h] \subseteq {entry[Mine(h)]} \cup UNION {hold[g] : g \in Hart}
        /\ cached[h] \cap freed = {}
    /\ \A h \in Hart : at[h] = "post" => \A g \in Targets(h) : pending[g] = 0
    /\ \A h \in Hart : at[h] = "kernel" => pending[h] = 0 /\ active[h] = Nil

(* A shootdown that has the lock ends: every hart it waits for has         *)
(* acknowledged, or has its request and is on the way through the service  *)
(* routine or, in user mode, under a raised interrupt.                     *)
ShootdownEnds == \A h \in Hart : at[h] = "await" => \A g \in await :
    \/ ack[g] = sequence
    \/ at[g] = "ack" /\ got[g] = sequence
    \/ pending[g] = sequence /\ \/ at[g] = "user" /\ g \in ipi
                                \/ at[g] = "leave"
                                \/ at[g] \in {"service", "withdraw"} /\ got[g] = sequence
=============================================================================
