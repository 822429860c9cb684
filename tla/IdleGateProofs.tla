--------------------------- MODULE IdleGateProofs ---------------------------
(***************************************************************************)
(* The idle gate of mark_resched_and_kick, scheduler_idle_arm and          *)
(* scheduler_idle_exit, proved for any number of CPUs and tasks.  The      *)
(* gate's holder is determined by the program counters; IdleWfi is         *)
(* published exactly while the CPU is in WFI or about to take the gate to  *)
(* leave it; an interrupt is pending only in that window or while it is    *)
(* being acknowledged.                                                     *)
(***************************************************************************)
EXTENDS SchedulerProofs

\* mark_resched_and_kick with the gate of its target.
Sending == {"kick_check", "kick_send"}

\* scheduler_idle_arm and scheduler_idle_exit with their own gate.
Idling == {"arm_check", "arm_wfi", "arm_run", "idle_ack"}

\* Who holds whose gate.
GateHeld ==
    \A c, k \in Cpu :
        gate[c] = k <=> \/ k = c /\ pc[c] \in Idling
                        \/ k # c /\ dest[k] = c /\ pc[k] \in Sending

\* A kick never targets its own CPU.
Remote == \A c \in Cpu : pc[c] \in Sending => dest[c] # c

\* What idle_state and the interrupt line say about a CPU.
WfiState ==
    \A c \in Cpu :
        /\ idle_state[c] = "IdleWfi" <=> pc[c] \in {"wfi", "idle_exit"}
        /\ pc[c] = "kick_send" => idle_state[dest[c]] = "IdleWfi"

\* ipi_pending and the interrupt line agree, and only a CPU in WFI or on its way
\* out of it has one.
IpiState ==
    \A c \in Cpu :
        /\ ipi[c] <=> ipi_pending[c]
        /\ ipi_pending[c] => pc[c] \in {"wfi", "idle_exit", "idle_ack"}

\* Another CPU has put work into the queue of c and has still to send or to find
\* out that c is awake.
Kicker(c) == \E k \in Cpu \ {c} : dest[k] = c /\ pc[k] \in {"kick"} \cup Sending

\* The work of a CPU on its way into WFI is announced.
Announced ==
    \A c \in Cpu : pc[c] \in {"arm_wfi", "wfi"} /\ rq[c] # {} => ipi[c] \/ Kicker(c)

\* The inductive invariant.
GateInv == GateHeld /\ Remote /\ WfiState /\ IpiState /\ Announced

\* The boot state satisfies it.
LEMMA GateInit == Init => GateInv
BY NoneFresh DEF Init, GateInv, GateHeld, Remote, WfiState, IpiState, Announced, Idling, Sending

\* A step of c that is neither part of idling nor of kicking: it leaves the gates
\* and interrupts alone and adds work to no other CPU's queue.
Apart(c) ==
    /\ pc[c] \notin Idling \cup Sending \cup {"kick", "wfi", "idle_exit"}
    /\ pc'[c] \notin Idling \cup Sending \cup {"wfi", "idle_exit"}
    /\ idle_state'[c] # "IdleWfi"
    /\ \A x \in Cpu \ {c} :
          /\ pc'[x] = pc[x] /\ dest'[x] = dest[x] /\ idle_state'[x] = idle_state[x]
          /\ rq'[x] # {} => rq[x] # {}
    /\ UNCHANGED <<gate, ipi, ipi_pending>>

\* Such a step preserves the invariant.
LEMMA ApartKeeps == ASSUME TypeOK, GateInv, NEW c \in Cpu, Apart(c) PROVE GateInv'
<1>t. \A x \in Cpu : dest[x] \in Cpu
  BY DEF TypeOK
<1>1. GateHeld'
  BY DEF Apart, GateInv, GateHeld
<1>2. Remote'
  BY DEF Apart, GateInv, Remote
<1>3. WfiState'
  <2>1. idle_state[c] # "IdleWfi"
    BY DEF Apart, GateInv, WfiState
  <2>2. ASSUME NEW x \in Cpu, pc'[x] = "kick_send" PROVE idle_state'[dest'[x]] = "IdleWfi"
    <3>1. x # c
      BY <2>2 DEF Apart, Sending
    <3>2. idle_state[dest[x]] = "IdleWfi" /\ dest'[x] = dest[x]
      BY <2>2, <3>1 DEF Apart, GateInv, WfiState
    <3>3. dest[x] \in Cpu
      BY <1>t
    <3> QED BY <2>1, <3>2, <3>3 DEF Apart
  <2> QED BY <2>2 DEF Apart, GateInv, WfiState
<1>4. IpiState'
  BY DEF Apart, GateInv, IpiState, Idling
<1>5. Announced'
  <2> SUFFICES ASSUME NEW x \in Cpu, pc'[x] \in {"arm_wfi", "wfi"}, rq'[x] # {}
               PROVE  ipi'[x] \/ Kicker(x)'
    BY DEF Announced
  <2>1. x # c /\ pc[x] \in {"arm_wfi", "wfi"} /\ rq[x] # {}
    BY DEF Apart, Idling
  <2>2. CASE ipi[x]
    BY <2>2 DEF Apart
  <2>3. CASE Kicker(x)
    <3>1. PICK k \in Cpu \ {x} : dest[k] = x /\ pc[k] \in {"kick"} \cup Sending
      BY <2>3 DEF Kicker
    <3>2. k # c
      BY <3>1 DEF Apart
    <3> QED BY <3>1, <3>2 DEF Apart, Kicker
  <2> QED BY <2>1, <2>2, <2>3 DEF GateInv, Announced
<1> QED BY <1>1, <1>2, <1>3, <1>4, <1>5 DEF GateInv

(* One lemma per action: it preserves GateInv.                              *)

\* Fetch_task's pop preserves GateInv.
LEMMA FetchGated ==
    ASSUME IInv, GateInv, NEW c \in Cpu, NEW t \in Task, Fetch(c, t)
    PROVE  GateInv'
<1>t. TypeOK
  BY DEF IInv
<1> USE NoneFresh DEF tvars, qvars, ivars, lvars, Goto, Set, Return
<1>1. Apart(c)
  BY <1>t, SMTT(30) DEF Fetch, Apart, TypeOK, GateInv, WfiState, Idling, Sending
<1> QED BY <1>t, <1>1, ApartKeeps

\* Fetch_task's update of the popped task preserves GateInv.
LEMMA FetchCommitGated ==
    ASSUME IInv, GateInv, NEW c \in Cpu, FetchCommit(c)
    PROVE  GateInv'
<1>t. TypeOK
  BY DEF IInv
<1> USE NoneFresh DEF tvars, qvars, ivars, lvars, Goto, Set, Return
<1> FetchCommitEff(c)
  BY FetchCommitLive
<1>1. Apart(c)
  BY <1>t DEF FetchCommitEff, Apart, TypeOK, GateInv, WfiState, Idling, Sending
<1> QED BY <1>t, <1>1, ApartKeeps

\* An empty queue preserves GateInv.
LEMMA FetchNoneGated ==
    ASSUME IInv, GateInv, NEW c \in Cpu, FetchNone(c)
    PROVE  GateInv'
<1>t. TypeOK
  BY DEF IInv
<1> USE NoneFresh DEF tvars, qvars, ivars, lvars, Goto, Set, Return
<1>1. Apart(c)
  BY <1>t DEF FetchNone, Apart, TypeOK, GateInv, WfiState, Idling, Sending
<1> QED BY <1>t, <1>1, ApartKeeps

\* A steal preserves GateInv.
LEMMA StealGated ==
    ASSUME IInv, GateInv, NEW c \in Cpu, NEW r \in Cpu, NEW t \in Task, Steal(c, r, t)
    PROVE  GateInv'
<1>t. TypeOK
  BY DEF IInv
<1> USE NoneFresh DEF tvars, qvars, ivars, lvars, Goto, Set, Return
<1> StealEff(c, r, t)
  BY StealLive
<1>1. Apart(c)
  BY <1>t DEF StealEff, Apart, TypeOK, GateInv, WfiState, Idling, Sending
<1> QED BY <1>t, <1>1, ApartKeeps

\* A steal that finds nothing preserves GateInv.
LEMMA StealNoneGated ==
    ASSUME IInv, GateInv, NEW c \in Cpu, StealNone(c)
    PROVE  GateInv'
<1>t. TypeOK
  BY DEF IInv
<1> USE NoneFresh DEF tvars, qvars, ivars, lvars, Goto, Set, Return
<1>1. Apart(c)
  BY <1>t DEF StealNone, Apart, TypeOK, GateInv, WfiState, Idling, Sending
<1> QED BY <1>t, <1>1, ApartKeeps

\* The dispatch of a task preserves GateInv.
LEMMA DispatchGated ==
    ASSUME IInv, GateInv, NEW c \in Cpu, Dispatch(c)
    PROVE  GateInv'
<1>t. TypeOK
  BY DEF IInv
<1> USE NoneFresh DEF tvars, qvars, ivars, lvars, Goto, Set, Return
<1>1. Apart(c)
  BY <1>t DEF Dispatch, Apart, TypeOK, GateInv, WfiState, Idling, Sending
<1> QED BY <1>t, <1>1, ApartKeeps

\* A second look that finds the condition true preserves GateInv.
LEMMA PollReadyGated ==
    ASSUME IInv, GateInv, NEW c \in Cpu, PollReady(c)
    PROVE  GateInv'
<1>t. TypeOK
  BY DEF IInv
<1> USE NoneFresh DEF tvars, qvars, ivars, lvars, Goto, Set, Return
<1>1. Apart(c)
  BY <1>t DEF PollReady, Apart, TypeOK, GateInv, WfiState, Idling, Sending
<1> QED BY <1>t, <1>1, ApartKeeps

\* A second look that finds it false preserves GateInv.
LEMMA PollSleepGated ==
    ASSUME IInv, GateInv, NEW c \in Cpu, PollSleep(c)
    PROVE  GateInv'
<1>t. TypeOK
  BY DEF IInv
<1> USE NoneFresh DEF tvars, qvars, ivars, lvars, Goto, Set, Return
<1>1. Apart(c)
  BY <1>t DEF PollSleep, Apart, TypeOK, GateInv, WfiState, Idling, Sending
<1> QED BY <1>t, <1>1, ApartKeeps

\* The switch back to the scheduler loop preserves GateInv.
LEMMA SwitchBackGated ==
    ASSUME IInv, GateInv, NEW c \in Cpu, SwitchBack(c)
    PROVE  GateInv'
<1>t. TypeOK
  BY DEF IInv
<1> USE NoneFresh DEF tvars, qvars, ivars, lvars, Goto, Set, Return
<1>1. Apart(c)
  BY <1>t DEF SwitchBack, Apart, TypeOK, GateInv, WfiState, Idling, Sending
<1> QED BY <1>t, <1>1, ApartKeeps

\* The commit of a task woken while it saved its context preserves GateInv.
LEMMA CommitResumedGated ==
    ASSUME IInv, GateInv, NEW c \in Cpu, CommitResumed(c)
    PROVE  GateInv'
<1>t. TypeOK
  BY DEF IInv
<1> USE NoneFresh DEF tvars, qvars, ivars, lvars, Goto, Set, Return
<1>1. Apart(c)
  BY <1>t DEF CommitResumed, Apart, TypeOK, GateInv, WfiState, Idling, Sending
<1> QED BY <1>t, <1>1, ApartKeeps

\* The commit of a sleeper preserves GateInv.
LEMMA CommitBlockedGated ==
    ASSUME IInv, GateInv, NEW c \in Cpu, CommitBlocked(c)
    PROVE  GateInv'
<1>t. TypeOK
  BY DEF IInv
<1> USE NoneFresh DEF tvars, qvars, ivars, lvars, Goto, Set, Return
<1>1. Apart(c)
  BY <1>t DEF CommitBlocked, Apart, TypeOK, GateInv, WfiState, Idling, Sending
<1> QED BY <1>t, <1>1, ApartKeeps

\* The commit of a yielding task preserves GateInv.
LEMMA CommitReadyGated ==
    ASSUME IInv, GateInv, NEW c \in Cpu, CommitReady(c)
    PROVE  GateInv'
<1>t. TypeOK
  BY DEF IInv
<1> USE NoneFresh DEF tvars, qvars, ivars, lvars, Goto, Set, Return
<1>1. Apart(c)
  BY <1>t DEF CommitReady, Apart, TypeOK, GateInv, WfiState, Idling, Sending
<1> QED BY <1>t, <1>1, ApartKeeps

\* The commit of a dead task preserves GateInv.
LEMMA CommitDeadGated ==
    ASSUME IInv, GateInv, NEW c \in Cpu, CommitDead(c)
    PROVE  GateInv'
<1>t. TypeOK
  BY DEF IInv
<1> USE NoneFresh DEF tvars, qvars, ivars, lvars, Goto, Set, Return
<1>1. Apart(c)
  BY <1>t DEF CommitDead, Apart, TypeOK, GateInv, WfiState, Idling, Sending
<1> QED BY <1>t, <1>1, ApartKeeps

\* Wake_up_task on a sleeper preserves GateInv.
LEMMA WakeBlockedGated ==
    ASSUME IInv, GateInv, NEW c \in Cpu, WakeBlocked(c)
    PROVE  GateInv'
<1>t. TypeOK
  BY DEF IInv
<1> USE NoneFresh DEF tvars, qvars, ivars, lvars, Goto, Set, Return
<1>1. Apart(c)
  BY <1>t DEF WakeBlocked, Apart, TypeOK, GateInv, WfiState, Idling, Sending
<1> QED BY <1>t, <1>1, ApartKeeps

\* Wake_up_task on any other task preserves GateInv.
LEMMA WakeOtherGated ==
    ASSUME IInv, GateInv, NEW c \in Cpu, WakeOther(c)
    PROVE  GateInv'
<1>t. TypeOK
  BY DEF IInv
<1> USE NoneFresh DEF tvars, qvars, ivars, lvars, Goto, Set, Return
<1>1. Apart(c)
  BY <1>t DEF WakeOther, Apart, TypeOK, GateInv, WfiState, Idling, Sending
<1> QED BY <1>t, <1>1, ApartKeeps

\* Select_task_rq preserves GateInv.
LEMMA SelectGated ==
    ASSUME IInv, GateInv, NEW c \in Cpu, NEW d \in Cpu, Select(c, d)
    PROVE  GateInv'
<1>t. TypeOK
  BY DEF IInv
<1> USE NoneFresh DEF tvars, qvars, ivars, lvars, Goto, Set, Return
<1>1. Apart(c)
  BY <1>t DEF Select, Apart, TypeOK, GateInv, WfiState, Idling, Sending
<1> QED BY <1>t, <1>1, ApartKeeps

\* An enqueue's update of the task preserves GateInv.
LEMMA EnqueueGated ==
    ASSUME IInv, GateInv, NEW c \in Cpu, Enqueue(c)
    PROVE  GateInv'
<1>t. TypeOK
  BY DEF IInv
<1> USE NoneFresh DEF tvars, qvars, ivars, lvars, Goto, Set, Return
<1> EnqueueEff(c)
  BY EnqueueLive
<1>1. Apart(c)
  BY <1>t DEF EnqueueEff, Apart, TypeOK, GateInv, WfiState, Idling, Sending
<1> QED BY <1>t, <1>1, ApartKeeps

\* The insertion into the run queue preserves GateInv.
LEMMA EnqueueRqGated ==
    ASSUME IInv, GateInv, NEW c \in Cpu, EnqueueRq(c)
    PROVE  GateInv'
<1>t. TypeOK
  BY DEF IInv
<1> USE NoneFresh DEF tvars, qvars, ivars, lvars, Goto, Set, Return
<1> EnqueueRqEff(c)
  BY EnqueueRqLive
<1>1. GateHeld'
  BY <1>t DEF EnqueueRqEff, GateInv, TypeOK, GateHeld, Remote, Idling, Sending
<1>2. Remote'
  BY <1>t DEF EnqueueRqEff, GateInv, TypeOK, Remote, Sending
<1>3. WfiState'
  BY <1>t DEF EnqueueRqEff, GateInv, TypeOK, WfiState, GateHeld, Remote, Idling, Sending
<1>4. IpiState'
  BY <1>t DEF EnqueueRqEff, GateInv, TypeOK, IpiState, WfiState
<1>5. Announced'
  <2> SUFFICES ASSUME NEW x \in Cpu, pc'[x] \in {"arm_wfi", "wfi"}, rq'[x] # {}
               PROVE  ipi'[x] \/ Kicker(x)'
    BY DEF Announced
  <2>1. x # c /\ pc[x] \in {"arm_wfi", "wfi"} /\ dest[c] \in Cpu
    BY <1>t DEF EnqueueRqEff, TypeOK
  <2>2. CASE dest[c] = x
    <3>1. dest'[c] = x /\ pc'[c] = "kick"
      BY <1>t, <2>2 DEF EnqueueRqEff, TypeOK
    <3> QED BY <2>1, <3>1 DEF Kicker
  <2>3. CASE dest[c] # x
    <3>1. rq[x] # {}
      BY <1>t, <2>1, <2>3 DEF EnqueueRqEff, TypeOK
    <3>2. CASE ipi[x]
      BY <3>2 DEF EnqueueRqEff
    <3>3. CASE Kicker(x)
      <4>1. PICK k \in Cpu \ {x} : dest[k] = x /\ pc[k] \in {"kick"} \cup Sending
        BY <3>3 DEF Kicker
      <4>2. dest'[k] = x /\ pc'[k] = pc[k]
        BY <1>t, <2>3, <4>1 DEF EnqueueRqEff, TypeOK
      <4> QED BY <4>1, <4>2 DEF Kicker
    <3> QED BY <2>1, <3>1, <3>2, <3>3 DEF GateInv, Announced
  <2> QED BY <2>2, <2>3
<1> QED BY <1>1, <1>2, <1>3, <1>4, <1>5 DEF GateInv

\* A kick of the CPU itself preserves GateInv.
LEMMA KickLocalGated ==
    ASSUME IInv, GateInv, NEW c \in Cpu, KickLocal(c)
    PROVE  GateInv'
<1>t. TypeOK
  BY DEF IInv
<1> USE NoneFresh DEF tvars, qvars, ivars, lvars, Goto, Set, Return
<1>1. GateHeld'
  BY <1>t, SMTT(30) DEF KickLocal, GateInv, TypeOK, GateHeld, Remote, Idling, Sending
<1>2. Remote'
  BY <1>t DEF KickLocal, GateInv, TypeOK, Remote, Sending
<1>3. WfiState'
  <2>1. pc'[c] \notin {"wfi", "idle_exit", "kick_send"} /\ pc[c] \notin {"wfi", "idle_exit"}
    BY <1>t DEF KickLocal, TypeOK
  <2>2. \A x \in Cpu \ {c} : pc'[x] = pc[x] /\ dest'[x] = dest[x]
    BY <1>t DEF KickLocal, TypeOK
  <2>3. idle_state' = idle_state
    BY DEF KickLocal
  <2> QED BY <2>1, <2>2, <2>3 DEF GateInv, WfiState
<1>4. IpiState'
  BY <1>t DEF KickLocal, GateInv, TypeOK, IpiState, WfiState
<1>5. Announced'
  BY <1>t, SMTT(30) DEF KickLocal, GateInv, TypeOK, Announced, Kicker, GateHeld, WfiState, IpiState, Idling, Sending
<1> QED BY <1>1, <1>2, <1>3, <1>4, <1>5 DEF GateInv

\* Taking the gate to kick preserves GateInv.
LEMMA KickGated ==
    ASSUME IInv, GateInv, NEW c \in Cpu, Kick(c)
    PROVE  GateInv'
<1>t. TypeOK
  BY DEF IInv
<1> USE NoneFresh DEF tvars, qvars, ivars, lvars, Goto, Set, Return
<1>1. GateHeld'
  BY <1>t DEF Kick, GateInv, TypeOK, GateHeld, Remote, Idling, Sending
<1>2. Remote'
  BY <1>t DEF Kick, GateInv, TypeOK, Remote, Sending
<1>3. WfiState'
  BY <1>t DEF Kick, GateInv, TypeOK, WfiState, GateHeld, Remote, Idling, Sending
<1>4. IpiState'
  BY <1>t DEF Kick, GateInv, TypeOK, IpiState, WfiState
<1>5. Announced'
  BY <1>t, SMTT(30) DEF Kick, GateInv, TypeOK, Announced, Kicker, GateHeld, WfiState, IpiState, Idling, Sending
<1> QED BY <1>1, <1>2, <1>3, <1>4, <1>5 DEF GateInv

\* A kick that finds IdleWfi preserves GateInv.
LEMMA KickCheckGated ==
    ASSUME IInv, GateInv, NEW c \in Cpu, KickCheck(c)
    PROVE  GateInv'
<1>t. TypeOK
  BY DEF IInv
<1> USE NoneFresh DEF tvars, qvars, ivars, lvars, Goto, Set, Return
<1>1. GateHeld'
  BY <1>t DEF KickCheck, GateInv, TypeOK, GateHeld, Remote, Idling, Sending
<1>2. Remote'
  BY <1>t DEF KickCheck, GateInv, TypeOK, Remote, Sending
<1>3. WfiState'
  BY <1>t DEF KickCheck, GateInv, TypeOK, WfiState, GateHeld, Remote, Idling, Sending
<1>4. IpiState'
  BY <1>t DEF KickCheck, GateInv, TypeOK, IpiState, WfiState
<1>5. Announced'
  <2> SUFFICES ASSUME NEW x \in Cpu, pc'[x] \in {"arm_wfi", "wfi"}, rq'[x] # {}
               PROVE  ipi'[x] \/ Kicker(x)'
    BY DEF Announced
  <2>1. pc[x] \in {"arm_wfi", "wfi"} /\ rq[x] # {}
    BY <1>t DEF KickCheck, TypeOK
  <2>2. CASE ipi[x]
    BY <1>t, <2>2 DEF KickCheck
  <2>3. CASE Kicker(x)
    <3>1. PICK k \in Cpu \ {x} : dest[k] = x /\ pc[k] \in {"kick"} \cup Sending
      BY <2>3 DEF Kicker
    <3>2. dest'[k] = x /\ pc'[k] \in {"kick"} \cup Sending
      BY <1>t, <3>1 DEF KickCheck, TypeOK, Sending
    <3> QED BY <3>1, <3>2 DEF Kicker
  <2> QED BY <2>1, <2>2, <2>3 DEF GateInv, Announced
<1> QED BY <1>1, <1>2, <1>3, <1>4, <1>5 DEF GateInv

\* A kick that finds the CPU awake preserves GateInv.
LEMMA KickBusyGated ==
    ASSUME IInv, GateInv, NEW c \in Cpu, KickBusy(c)
    PROVE  GateInv'
<1>t. TypeOK
  BY DEF IInv
<1> USE NoneFresh DEF tvars, qvars, ivars, lvars, Goto, Set, Return
<1>1. GateHeld'
  BY <1>t, SMTT(30) DEF KickBusy, GateInv, TypeOK, GateHeld, Remote, Idling, Sending
<1>2. Remote'
  BY <1>t DEF KickBusy, GateInv, TypeOK, Remote, Sending
<1>3. WfiState'
  <2>1. pc'[c] \notin {"wfi", "idle_exit", "kick_send"} /\ pc[c] \notin {"wfi", "idle_exit"}
    BY <1>t DEF KickBusy, TypeOK
  <2>2. \A x \in Cpu \ {c} : pc'[x] = pc[x] /\ dest'[x] = dest[x]
    BY <1>t DEF KickBusy, TypeOK
  <2>3. idle_state' = idle_state
    BY DEF KickBusy
  <2> QED BY <2>1, <2>2, <2>3 DEF GateInv, WfiState
<1>4. IpiState'
  BY <1>t DEF KickBusy, GateInv, TypeOK, IpiState, WfiState
<1>5. Announced'
  BY <1>t, SMTT(30) DEF KickBusy, GateInv, TypeOK, Announced, Kicker, GateHeld, WfiState, IpiState, Idling, Sending
<1> QED BY <1>1, <1>2, <1>3, <1>4, <1>5 DEF GateInv

\* Sending the interrupt preserves GateInv.
LEMMA KickSendGated ==
    ASSUME IInv, GateInv, NEW c \in Cpu, KickSend(c)
    PROVE  GateInv'
<1>t. TypeOK
  BY DEF IInv
<1> USE NoneFresh DEF tvars, qvars, ivars, lvars, Goto, Set, Return
<1>1. GateHeld'
  BY <1>t, SMTT(30) DEF KickSend, GateInv, TypeOK, GateHeld, Remote, Idling, Sending
<1>2. Remote'
  BY <1>t DEF KickSend, GateInv, TypeOK, Remote, Sending
<1>3. WfiState'
  <2>1. pc'[c] \notin {"wfi", "idle_exit", "kick_send"} /\ pc[c] \notin {"wfi", "idle_exit"}
    BY <1>t DEF KickSend, TypeOK
  <2>2. \A x \in Cpu \ {c} : pc'[x] = pc[x] /\ dest'[x] = dest[x]
    BY <1>t DEF KickSend, TypeOK
  <2>3. idle_state' = idle_state
    BY DEF KickSend
  <2> QED BY <2>1, <2>2, <2>3 DEF GateInv, WfiState
<1>4. IpiState'
  BY <1>t DEF KickSend, GateInv, TypeOK, IpiState, WfiState
<1>5. Announced'
  <2> SUFFICES ASSUME NEW x \in Cpu, pc'[x] \in {"arm_wfi", "wfi"}, rq'[x] # {}
               PROVE  ipi'[x] \/ Kicker(x)'
    BY DEF Announced
  <2>1. pc[x] \in {"arm_wfi", "wfi"} /\ rq[x] # {}
    <3>1. x # c
      BY <1>t DEF KickSend, Return, TypeOK
    <3> QED BY <1>t, <3>1 DEF KickSend, TypeOK
  <2>2. CASE ipi[x]
    BY <1>t, <2>2 DEF KickSend, TypeOK
  <2>3. CASE Kicker(x)
    <3>1. PICK k \in Cpu \ {x} : dest[k] = x /\ pc[k] \in {"kick"} \cup Sending
      BY <2>3 DEF Kicker
    <3>2. CASE k = c
      <4>1. dest[c] = x
        BY <3>1, <3>2
      <4> QED BY <1>t, <4>1 DEF KickSend, TypeOK, GateInv, IpiState
    <3>3. CASE k # c
      <4>1. dest'[k] = x /\ pc'[k] = pc[k]
        BY <1>t, <3>1, <3>3 DEF KickSend, TypeOK
      <4> QED BY <3>1, <4>1 DEF Kicker
    <3> QED BY <3>2, <3>3
  <2> QED BY <2>1, <2>2, <2>3 DEF GateInv, Announced
<1> QED BY <1>1, <1>2, <1>3, <1>4, <1>5 DEF GateInv

\* Taking the gate to idle preserves GateInv.
LEMMA IdleArmGated ==
    ASSUME IInv, GateInv, NEW c \in Cpu, IdleArm(c)
    PROVE  GateInv'
<1>t. TypeOK
  BY DEF IInv
<1> USE NoneFresh DEF tvars, qvars, ivars, lvars, Goto, Set, Return
<1>1. GateHeld'
  BY <1>t DEF IdleArm, GateInv, TypeOK, GateHeld, Remote, Idling, Sending
<1>2. Remote'
  BY <1>t DEF IdleArm, GateInv, TypeOK, Remote, Sending
<1>3. WfiState'
  BY <1>t DEF IdleArm, GateInv, TypeOK, WfiState, GateHeld, Remote, Idling, Sending
<1>4. IpiState'
  BY <1>t DEF IdleArm, GateInv, TypeOK, IpiState, WfiState
<1>5. Announced'
  <2> SUFFICES ASSUME NEW x \in Cpu, pc'[x] \in {"arm_wfi", "wfi"}, rq'[x] # {}
               PROVE  ipi'[x] \/ Kicker(x)'
    BY DEF Announced
  <2>1. pc[x] \in {"arm_wfi", "wfi"} /\ rq[x] # {} /\ x # c
    BY <1>t DEF IdleArm, TypeOK
  <2>2. CASE ipi[x]
    BY <1>t, <2>1, <2>2 DEF IdleArm, TypeOK
  <2>3. CASE Kicker(x)
    <3>1. PICK k \in Cpu \ {x} : dest[k] = x /\ pc[k] \in {"kick"} \cup Sending
      BY <2>3 DEF Kicker
    <3>2. dest'[k] = x /\ pc'[k] = pc[k]
      BY <1>t, <3>1 DEF IdleArm, TypeOK, Sending
    <3> QED BY <3>1, <3>2 DEF Kicker
  <2> QED BY <2>1, <2>2, <2>3 DEF GateInv, Announced
<1> QED BY <1>1, <1>2, <1>3, <1>4, <1>5 DEF GateInv

\* The last look at the queue preserves GateInv.
LEMMA ArmCheckGated ==
    ASSUME IInv, GateInv, NEW c \in Cpu, ArmCheck(c)
    PROVE  GateInv'
<1>t. TypeOK
  BY DEF IInv
<1> USE NoneFresh DEF tvars, qvars, ivars, lvars, Goto, Set, Return
<1>1. GateHeld'
  BY <1>t DEF ArmCheck, GateInv, TypeOK, GateHeld, Remote, Idling, Sending
<1>2. Remote'
  BY <1>t DEF ArmCheck, GateInv, TypeOK, Remote, Sending
<1>3. WfiState'
  BY <1>t DEF ArmCheck, GateInv, TypeOK, WfiState, GateHeld, Remote, Idling, Sending
<1>4. IpiState'
  BY <1>t DEF ArmCheck, GateInv, TypeOK, IpiState, WfiState
<1>5. Announced'
  BY <1>t DEF ArmCheck, GateInv, TypeOK, Announced, Kicker, GateHeld, WfiState, IpiState, Idling, Sending
<1> QED BY <1>1, <1>2, <1>3, <1>4, <1>5 DEF GateInv

\* Publishing IdleWfi preserves GateInv.
LEMMA ArmWfiGated ==
    ASSUME IInv, GateInv, NEW c \in Cpu, ArmWfi(c)
    PROVE  GateInv'
<1>t. TypeOK
  BY DEF IInv
<1> USE NoneFresh DEF tvars, qvars, ivars, lvars, Goto, Set, Return
<1>1. GateHeld'
  BY <1>t DEF ArmWfi, GateInv, TypeOK, GateHeld, Remote, Idling, Sending
<1>2. Remote'
  BY <1>t DEF ArmWfi, GateInv, TypeOK, Remote, Sending
<1>3. WfiState'
  BY <1>t DEF ArmWfi, GateInv, TypeOK, WfiState, GateHeld, Remote, Idling, Sending
<1>4. IpiState'
  BY <1>t DEF ArmWfi, GateInv, TypeOK, IpiState, WfiState
<1>5. Announced'
  <2> SUFFICES ASSUME NEW x \in Cpu, pc'[x] \in {"arm_wfi", "wfi"}, rq'[x] # {}
               PROVE  ipi'[x] \/ Kicker(x)'
    BY DEF Announced
  <2>1. pc[x] \in {"arm_wfi", "wfi"} /\ rq[x] # {}
    BY <1>t DEF ArmWfi, TypeOK
  <2>2. CASE ipi[x]
    BY <1>t, <2>2 DEF ArmWfi
  <2>3. CASE Kicker(x)
    <3>1. PICK k \in Cpu \ {x} : dest[k] = x /\ pc[k] \in {"kick"} \cup Sending
      BY <2>3 DEF Kicker
    <3>2. dest'[k] = x /\ pc'[k] \in {"kick"} \cup Sending
      BY <1>t, <3>1 DEF ArmWfi, TypeOK, Sending
    <3> QED BY <3>1, <3>2 DEF Kicker
  <2> QED BY <2>1, <2>2, <2>3 DEF GateInv, Announced
<1> QED BY <1>1, <1>2, <1>3, <1>4, <1>5 DEF GateInv

\* Giving up on idling preserves GateInv.
LEMMA ArmRunGated ==
    ASSUME IInv, GateInv, NEW c \in Cpu, ArmRun(c)
    PROVE  GateInv'
<1>t. TypeOK
  BY DEF IInv
<1> USE NoneFresh DEF tvars, qvars, ivars, lvars, Goto, Set, Return
<1>1. GateHeld'
  BY <1>t DEF ArmRun, GateInv, TypeOK, GateHeld, Remote, Idling, Sending
<1>2. Remote'
  BY <1>t DEF ArmRun, GateInv, TypeOK, Remote, Sending
<1>3. WfiState'
  BY <1>t DEF ArmRun, GateInv, TypeOK, WfiState, GateHeld, Remote, Idling, Sending
<1>4. IpiState'
  BY <1>t DEF ArmRun, GateInv, TypeOK, IpiState, WfiState
<1>5. Announced'
  BY <1>t DEF ArmRun, GateInv, TypeOK, Announced, Kicker, GateHeld, WfiState, IpiState, Idling, Sending
<1> QED BY <1>1, <1>2, <1>3, <1>4, <1>5 DEF GateInv

\* An interrupt that ends WFI preserves GateInv.
LEMMA WfiIpiGated ==
    ASSUME IInv, GateInv, NEW c \in Cpu, WfiIpi(c)
    PROVE  GateInv'
<1>t. TypeOK
  BY DEF IInv
<1> USE NoneFresh DEF tvars, qvars, ivars, lvars, Goto, Set, Return
<1>1. GateHeld'
  BY <1>t DEF WfiIpi, GateInv, TypeOK, GateHeld, Remote, Idling, Sending
<1>2. Remote'
  BY <1>t DEF WfiIpi, GateInv, TypeOK, Remote, Sending
<1>3. WfiState'
  BY <1>t DEF WfiIpi, GateInv, TypeOK, WfiState, GateHeld, Remote, Idling, Sending
<1>4. IpiState'
  BY <1>t DEF WfiIpi, GateInv, TypeOK, IpiState, WfiState
<1>5. Announced'
  BY <1>t, SMTT(30) DEF WfiIpi, GateInv, TypeOK, Announced, Kicker, GateHeld, WfiState, IpiState, Idling, Sending
<1> QED BY <1>1, <1>2, <1>3, <1>4, <1>5 DEF GateInv

\* Publishing Running after WFI preserves GateInv.
LEMMA IdleExitGated ==
    ASSUME IInv, GateInv, NEW c \in Cpu, IdleExit(c)
    PROVE  GateInv'
<1>t. TypeOK
  BY DEF IInv
<1> USE NoneFresh DEF tvars, qvars, ivars, lvars, Goto, Set, Return
<1>1. GateHeld'
  BY <1>t DEF IdleExit, GateInv, TypeOK, GateHeld, Remote, Idling, Sending
<1>2. Remote'
  BY <1>t DEF IdleExit, GateInv, TypeOK, Remote, Sending
<1>3. WfiState'
  BY <1>t DEF IdleExit, GateInv, TypeOK, WfiState, GateHeld, Remote, Idling, Sending
<1>4. IpiState'
  BY <1>t DEF IdleExit, GateInv, TypeOK, IpiState, WfiState
<1>5. Announced'
  <2> SUFFICES ASSUME NEW x \in Cpu, pc'[x] \in {"arm_wfi", "wfi"}, rq'[x] # {}
               PROVE  ipi'[x] \/ Kicker(x)'
    BY DEF Announced
  <2>1. pc[x] \in {"arm_wfi", "wfi"} /\ rq[x] # {} /\ x # c
    BY <1>t DEF IdleExit, TypeOK
  <2>2. CASE ipi[x]
    BY <1>t, <2>1, <2>2 DEF IdleExit, TypeOK
  <2>3. CASE Kicker(x)
    <3>1. PICK k \in Cpu \ {x} : dest[k] = x /\ pc[k] \in {"kick"} \cup Sending
      BY <2>3 DEF Kicker
    <3>2. dest'[k] = x /\ pc'[k] = pc[k]
      BY <1>t, <3>1 DEF IdleExit, TypeOK, Sending
    <3> QED BY <3>1, <3>2 DEF Kicker
  <2> QED BY <2>1, <2>2, <2>3 DEF GateInv, Announced
<1> QED BY <1>1, <1>2, <1>3, <1>4, <1>5 DEF GateInv

\* Acknowledging the interrupt preserves GateInv.
LEMMA IdleAckGated ==
    ASSUME IInv, GateInv, NEW c \in Cpu, IdleAck(c)
    PROVE  GateInv'
<1>t. TypeOK
  BY DEF IInv
<1> USE NoneFresh DEF tvars, qvars, ivars, lvars, Goto, Set, Return
<1>1. GateHeld'
  BY <1>t DEF IdleAck, GateInv, TypeOK, GateHeld, Remote, Idling, Sending
<1>2. Remote'
  BY <1>t DEF IdleAck, GateInv, TypeOK, Remote, Sending
<1>3. WfiState'
  BY <1>t DEF IdleAck, GateInv, TypeOK, WfiState, GateHeld, Remote, Idling, Sending
<1>4. IpiState'
  BY <1>t DEF IdleAck, GateInv, TypeOK, IpiState, WfiState
<1>5. Announced'
  <2> SUFFICES ASSUME NEW x \in Cpu, pc'[x] \in {"arm_wfi", "wfi"}, rq'[x] # {}
               PROVE  ipi'[x] \/ Kicker(x)'
    BY DEF Announced
  <2>1. pc[x] \in {"arm_wfi", "wfi"} /\ rq[x] # {} /\ x # c
    BY <1>t DEF IdleAck, TypeOK
  <2>2. CASE ipi[x]
    BY <1>t, <2>1, <2>2 DEF IdleAck, TypeOK
  <2>3. CASE Kicker(x)
    <3>1. PICK k \in Cpu \ {x} : dest[k] = x /\ pc[k] \in {"kick"} \cup Sending
      BY <2>3 DEF Kicker
    <3>2. dest'[k] = x /\ pc'[k] = pc[k]
      BY <1>t, <3>1 DEF IdleAck, TypeOK, Sending
    <3> QED BY <3>1, <3>2 DEF Kicker
  <2> QED BY <2>1, <2>2, <2>3 DEF GateInv, Announced
<1> QED BY <1>1, <1>2, <1>3, <1>4, <1>5 DEF GateInv

\* A yield preserves GateInv.
LEMMA YieldGated ==
    ASSUME IInv, GateInv, NEW c \in Cpu, Yield(c)
    PROVE  GateInv'
<1>t. TypeOK
  BY DEF IInv
<1> USE NoneFresh DEF tvars, qvars, ivars, lvars, Goto, Set, Return
<1>1. Apart(c)
  BY <1>t DEF Yield, Apart, TypeOK, GateInv, WfiState, Idling, Sending
<1> QED BY <1>t, <1>1, ApartKeeps

\* A conditional block preserves GateInv.
LEMMA BlockGated ==
    ASSUME IInv, GateInv, NEW c \in Cpu, Block(c)
    PROVE  GateInv'
<1>t. TypeOK
  BY DEF IInv
<1> USE NoneFresh DEF tvars, qvars, ivars, lvars, Goto, Set, Return
<1>1. Apart(c)
  BY <1>t DEF Block, Apart, TypeOK, GateInv, WfiState, Idling, Sending
<1> QED BY <1>t, <1>1, ApartKeeps

\* Announcing a sleep before registering preserves GateInv.
LEMMA PollBeginGated ==
    ASSUME IInv, GateInv, NEW c \in Cpu, PollBegin(c)
    PROVE  GateInv'
<1>t. TypeOK
  BY DEF IInv
<1> USE NoneFresh DEF tvars, qvars, ivars, lvars, Goto, Set, Return
<1>1. Apart(c)
  BY <1>t DEF PollBegin, Apart, TypeOK, GateInv, WfiState, Idling, Sending
<1> QED BY <1>t, <1>1, ApartKeeps

\* Consuming an event preserves GateInv.
LEMMA TakeGated ==
    ASSUME IInv, GateInv, NEW c \in Cpu, Take(c)
    PROVE  GateInv'
<1>t. TypeOK
  BY DEF IInv
<1> USE NoneFresh DEF tvars, qvars, ivars, lvars, Goto, Set, Return
<1>1. Apart(c)
  BY <1>t DEF Take, Apart, TypeOK, GateInv, WfiState, Idling, Sending
<1> QED BY <1>t, <1>1, ApartKeeps

\* An exit preserves GateInv.
LEMMA ExitGated ==
    ASSUME IInv, GateInv, NEW c \in Cpu, Exit(c)
    PROVE  GateInv'
<1>t. TypeOK
  BY DEF IInv
<1> USE NoneFresh DEF tvars, qvars, ivars, lvars, Goto, Set, Return
<1>1. Apart(c)
  BY <1>t DEF Exit, Apart, TypeOK, GateInv, WfiState, Idling, Sending
<1> QED BY <1>t, <1>1, ApartKeeps

\* A clone preserves GateInv.
LEMMA SpawnGated ==
    ASSUME IInv, GateInv, NEW c \in Cpu, NEW u \in Task, Spawn(c, u)
    PROVE  GateInv'
<1>t. TypeOK
  BY DEF IInv
<1> USE NoneFresh DEF tvars, qvars, ivars, lvars, Goto, Set, Return
<1>1. Apart(c)
  BY <1>t DEF Spawn, Apart, TypeOK, GateInv, WfiState, Idling, Sending
<1> QED BY <1>t, <1>1, ApartKeeps

\* Posting an event preserves GateInv.
LEMMA PostGated ==
    ASSUME IInv, GateInv, NEW c \in Cpu, NEW u \in Task, Post(c, u)
    PROVE  GateInv'
<1>t. TypeOK
  BY DEF IInv
<1> USE NoneFresh DEF tvars, qvars, ivars, lvars, Goto, Set, Return
<1>1. Apart(c)
  BY <1>t DEF Post, Apart, TypeOK, GateInv, WfiState, Idling, Sending
<1> QED BY <1>t, <1>1, ApartKeeps

\* An expired timer preserves GateInv.
LEMMA TimerPostGated ==
    ASSUME IInv, GateInv, NEW c \in Cpu, NEW u \in Task, TimerPost(c, u)
    PROVE  GateInv'
<1>t. TypeOK
  BY DEF IInv
<1> USE NoneFresh DEF tvars, qvars, ivars, lvars, Goto, Set, Return
<1>1. Apart(c)
  BY <1>t DEF TimerPost, Apart, TypeOK, GateInv, WfiState, Idling, Sending
<1> QED BY <1>t, <1>1, ApartKeeps

\* A timer that ends WFI preserves GateInv.
LEMMA WfiTimerGated ==
    ASSUME IInv, GateInv, NEW c \in Cpu, WfiTimer(c)
    PROVE  GateInv'
<1>t. TypeOK
  BY DEF IInv
<1> USE NoneFresh DEF tvars, qvars, ivars, lvars, Goto, Set, Return
<1>1. GateHeld'
  BY <1>t DEF WfiTimer, GateInv, TypeOK, GateHeld, Remote, Idling, Sending
<1>2. Remote'
  BY <1>t DEF WfiTimer, GateInv, TypeOK, Remote, Sending
<1>3. WfiState'
  BY <1>t DEF WfiTimer, GateInv, TypeOK, WfiState, GateHeld, Remote, Idling, Sending
<1>4. IpiState'
  BY <1>t DEF WfiTimer, GateInv, TypeOK, IpiState, WfiState
<1>5. Announced'
  BY <1>t DEF WfiTimer, GateInv, TypeOK, Announced, Kicker, GateHeld, WfiState, IpiState, Idling, Sending
<1> QED BY <1>1, <1>2, <1>3, <1>4, <1>5 DEF GateInv

\* Every step preserves it.
LEMMA GateStep == IInv /\ GateInv /\ [Next]_vars => GateInv'
<1> SUFFICES ASSUME IInv, GateInv, [Next]_vars PROVE GateInv'
  OBVIOUS
<1>1. CASE UNCHANGED vars
  BY <1>1 DEF vars, tvars, qvars, ivars, lvars, GateInv, GateHeld, Remote, WfiState, IpiState, Announced, Kicker
<1>2. CASE Next
  BY <1>2, FetchGated, FetchCommitGated, FetchNoneGated, StealGated, StealNoneGated,
     DispatchGated, PollReadyGated, PollSleepGated, SwitchBackGated,
     CommitResumedGated, CommitBlockedGated, CommitReadyGated, CommitDeadGated,
     WakeBlockedGated, WakeOtherGated, SelectGated, EnqueueGated, EnqueueRqGated,
     KickLocalGated, KickGated, KickCheckGated, KickBusyGated, KickSendGated,
     IdleArmGated, ArmCheckGated, ArmWfiGated, ArmRunGated, WfiIpiGated,
     IdleExitGated, IdleAckGated, YieldGated, BlockGated, PollBeginGated, TakeGated,
     ExitGated, SpawnGated, PostGated, TimerPostGated, WfiTimerGated, Zenon
  DEF Next, Kernel, User, Clock
<1> QED BY <1>1, <1>2

\* It holds throughout.
LEMMA GateInductive == Spec => []GateInv
BY GateInit, GateStep, Inductive, PTL DEF Spec

\* For any number of CPUs and tasks a CPU in WFI beside queued work has an
\* interrupt pending or a sender on its way.
THEOREM NoWorkStranded == Spec => []NoStrandedWork
<1>1. GateInv => NoStrandedWork
  BY DEF GateInv, Announced, Kicker, Sending, NoStrandedWork
<1> QED BY <1>1, GateInductive, PTL

\* For any number of CPUs and tasks no scheduler interrupt is left over when a CPU
\* runs a task.
THEOREM NoIpiLeftOver == Spec => []NoStaleIpi
<1>1. IInv /\ GateInv => NoStaleIpi
  BY DEF IInv, GateInv, IpiState, Control, Sub, NoStaleIpi
<1> QED BY <1>1, Inductive, GateInductive, PTL
=============================================================================
