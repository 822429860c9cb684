----------------------------- MODULE Scheduler -----------------------------
(***************************************************************************)
(* The per-CPU scheduler of os/src/process/scheduler: the loop of          *)
(* run_tasks, the run queues, blocking and waking through BlockSaving and  *)
(* wake_pending, work stealing, and the idle/IPI gate.  A step is one      *)
(* critical section of a task's inner lock, of a run queue lock, or one    *)
(* access to a published atomic; spin locks are held across several steps  *)
(* only for idle_ipi_gate, which is explicit.                              *)
(*                                                                         *)
(* Abstractions.  A run queue is a set and a pop takes any member, so the  *)
(* results hold for every scheduling class and priority.  CPU selection    *)
(* and the choice of a steal victim read only advisory data and the        *)
(* affinity mask, which may change at any time: here they choose freely.   *)
(* on_cpu and need_resched are written by the code and never read.         *)
(***************************************************************************)
EXTENDS FiniteSets

CONSTANTS Cpu, Task, None,
          Boot          \* the tasks queued before the CPUs start

ASSUME NoneFresh == None \notin Cpu \cup Task
ASSUME BootTasks == Boot \subseteq Task

VARIABLES
    state, wake_pending, on_rq, cpu,   \* TaskControlBlockInner, per task
    event,        \* what the task waits for has happened (a pending signal,
                  \* a passed deadline, data): set by the waker, kept until taken
    rq,           \* Rqinner of each CPU: the tasks in its class queues
    current,      \* Processor.current
    idle_state, ipi_pending,           \* RqView
    ipi,          \* the software interrupt line of each CPU
    gate,         \* holder of idle_ipi_gate
    pc,           \* where each CPU is
    hand,         \* the Arc<TaskControlBlock> its kernel stack holds
    dest,         \* target CPU of the enqueue in progress
    back          \* where wake_up_task returns to

tvars == <<state, wake_pending, on_rq, cpu, event>>
qvars == <<rq, current>>
ivars == <<idle_state, ipi_pending, ipi, gate>>
lvars == <<pc, hand, dest, back>>
vars == <<tvars, qvars, ivars, lvars>>

Status == {"UnInit", "Ready", "Running", "BlockSaving", "Blocked", "Zombie"}

PC == {"loop", "popped", "steal", "dispatch", "user", "recheck", "switch",
       "commit", "wake", "select", "enqueue", "enqueue_rq", "kick",
       "kick_check", "kick_send", "idle_arm", "arm_check", "arm_wfi", "arm_run",
       "wfi", "idle_exit", "idle_ack"}

TypeOK ==
    /\ state \in [Task -> Status]
    /\ wake_pending \in [Task -> BOOLEAN]
    /\ on_rq \in [Task -> BOOLEAN]
    /\ cpu \in [Task -> Cpu]
    /\ event \in [Task -> BOOLEAN]
    /\ rq \in [Cpu -> SUBSET Task]
    /\ current \in [Cpu -> Task \cup {None}]
    /\ idle_state \in [Cpu -> {"Running", "IdlePolling", "IdleWfi"}]
    /\ ipi_pending \in [Cpu -> BOOLEAN]
    /\ ipi \in [Cpu -> BOOLEAN]
    /\ gate \in [Cpu -> Cpu \cup {None}]
    /\ pc \in [Cpu -> PC]
    /\ hand \in [Cpu -> Task \cup {None}]
    /\ dest \in [Cpu -> Cpu]
    /\ back \in [Cpu -> {"loop", "user"}]

Init ==
    /\ \E b \in Cpu : cpu = [t \in Task |-> b]       \* the boot hart
    /\ state = [t \in Task |-> IF t \in Boot THEN "Ready" ELSE "UnInit"]
    /\ wake_pending = [t \in Task |-> FALSE]
    /\ on_rq = [t \in Task |-> t \in Boot]
    /\ event = [t \in Task |-> FALSE]
    /\ rq = [c \in Cpu |-> {t \in Boot : cpu[t] = c}]
    /\ current = [c \in Cpu |-> None]
    /\ idle_state = [c \in Cpu |-> "Running"]
    /\ ipi_pending = [c \in Cpu |-> FALSE]
    /\ ipi = [c \in Cpu |-> FALSE]
    /\ gate = [c \in Cpu |-> None]
    /\ pc = [c \in Cpu |-> "loop"]
    /\ hand = [c \in Cpu |-> None]
    /\ dest = [c \in Cpu |-> c]
    /\ back = [c \in Cpu |-> "loop"]

Goto(c, to) == pc' = [pc EXCEPT ![c] = to]

Set(f, x, v) == [f EXCEPT ![x] = v]

\* wake_up_task or an enqueue returns and its locals go out of scope.
Return(c) ==
    /\ Goto(c, back[c])
    /\ hand' = Set(hand, c, None)
    /\ dest' = Set(dest, c, c)
    /\ back' = Set(back, c, "loop")

-----------------------------------------------------------------------------
(* Wrong variants of single steps, used to see that the properties notice.  *)

\* wake_up_task enqueues a task that is still saving its context.
WakeEager(c) ==
    /\ pc[c] = "wake" /\ state[hand[c]] \in {"Blocked", "BlockSaving"}
    /\ Goto(c, "select")
    /\ state' = Set(state, hand[c], "Ready")
    /\ UNCHANGED <<wake_pending, on_rq, cpu, event, qvars, ivars, hand, dest, back>>

\* The commit does not look at wake_pending.
CommitDeaf(c) ==
    /\ pc[c] = "commit" /\ state[hand[c]] = "BlockSaving" /\ wake_pending[hand[c]]
    /\ state' = Set(state, hand[c], "Blocked")
    /\ Return(c)
    /\ UNCHANGED <<wake_pending, on_rq, cpu, event, qvars, ivars>>

\* poll registers and goes to sleep without the final look.
PollSleepBlind(c) ==
    /\ pc[c] = "recheck"
    /\ Goto(c, "switch")
    /\ UNCHANGED <<tvars, qvars, ivars, hand, dest, back>>

\* scheduler_idle_arm trusts the earlier failed fetch.
ArmCheckBlind(c) ==
    /\ pc[c] = "arm_check"
    /\ Goto(c, "arm_wfi")
    /\ UNCHANGED <<tvars, qvars, ivars, hand, dest, back>>

\* scheduler_idle_exit leaves ipi_pending set.
IdleAckHalf(c) ==
    /\ pc[c] = "idle_ack"
    /\ Goto(c, "loop")
    /\ ipi' = Set(ipi, c, FALSE)
    /\ gate' = Set(gate, c, None)
    /\ UNCHANGED <<tvars, qvars, idle_state, ipi_pending, hand, dest, back>>

-----------------------------------------------------------------------------
(* run_tasks: fetch, or steal, then dispatch                                *)

\* fetch_task, first half: pop under the run queue lock.
Fetch(c, t) ==
    /\ pc[c] = "loop" /\ t \in rq[c]
    /\ Goto(c, "popped")
    /\ rq' = [rq EXCEPT ![c] = @ \ {t}]
    /\ hand' = Set(hand, c, t)
    /\ UNCHANGED <<tvars, current, ivars, dest, back>>

\* fetch_task, second half: under the task's lock.  A Zombie is dropped.
FetchCommit(c) ==
    LET t == hand[c] IN
    /\ pc[c] = "popped"
    /\ on_rq' = Set(on_rq, t, FALSE)
    /\ IF state[t] = "Zombie"
         THEN Goto(c, "loop") /\ UNCHANGED <<state, cpu>>
         ELSE /\ Goto(c, "dispatch")
              /\ cpu' = Set(cpu, t, c)
              /\ state' = Set(state, t, "Running")
    /\ UNCHANGED <<wake_pending, event, qvars, ivars, hand, dest, back>>

FetchNone(c) ==
    /\ pc[c] = "loop"
    /\ rq[c] = {}
    /\ Goto(c, "steal")
    /\ UNCHANGED <<tvars, qvars, ivars, hand, dest, back>>

\* idle_tasks / steal_task_from_cpu: pop, retarget and leave under the victim's
\* run queue lock.  A Zombie is dropped.
Steal(c, r, t) ==
    /\ pc[c] = "steal" /\ r # c /\ t \in rq[r]
    /\ rq' = [rq EXCEPT ![r] = @ \ {t}]
    /\ on_rq' = Set(on_rq, t, FALSE)
    /\ hand' = Set(hand, c, t)
    /\ IF state[t] = "Zombie"
         THEN Goto(c, "loop") /\ UNCHANGED cpu
         ELSE Goto(c, "dispatch") /\ cpu' = Set(cpu, t, c)
    /\ UNCHANGED <<state, wake_pending, event, current, ivars, dest, back>>

\* Nothing published, nothing queued or nothing movable: scheduler_idle_prepare.
StealNone(c) ==
    /\ pc[c] = "steal"
    /\ Goto(c, "idle_arm")
    /\ idle_state' = Set(idle_state, c, "IdlePolling")
    /\ UNCHANGED <<tvars, qvars, ipi_pending, ipi, gate, hand, dest, back>>

\* scheduler_cpu_running, the task's own fields, Processor.current, __switch.
Dispatch(c) ==
    LET t == hand[c] IN
    /\ pc[c] = "dispatch"
    /\ Goto(c, "user")
    /\ idle_state' = Set(idle_state, c, "Running")
    /\ cpu' = Set(cpu, t, c)
    /\ on_rq' = Set(on_rq, t, FALSE)
    /\ state' = Set(state, t, "Running")
    /\ current' = Set(current, c, t)
    /\ hand' = Set(hand, c, None)
    /\ UNCHANGED <<wake_pending, event, rq, ipi_pending, ipi, gate, dest, back>>

-----------------------------------------------------------------------------
(* What the running task does                                               *)

\* suspend_current_and_run_next: a time slice ends, or sched_yield.
Yield(c) ==
    /\ pc[c] = "user"
    /\ Goto(c, "switch")
    /\ state' = Set(state, current[c], "Ready")
    /\ UNCHANGED <<wake_pending, on_rq, cpu, event, qvars, ivars, hand, dest, back>>

\* block_current_and_run_next_if_task: condition and BlockSaving under one lock.
Block(c) ==
    LET t == current[c] IN
    /\ pc[c] = "user"
    /\ ~event[t]
    /\ Goto(c, "switch")
    /\ state' = Set(state, t, "BlockSaving")
    /\ wake_pending' = Set(wake_pending, t, FALSE)
    /\ UNCHANGED <<on_rq, cpu, event, qvars, ivars, hand, dest, back>>

\* block_on_ppoll_queues: announce the sleep, register, then look again.
PollBegin(c) ==
    LET t == current[c] IN
    /\ pc[c] = "user"
    /\ Goto(c, "recheck")
    /\ state' = Set(state, t, "BlockSaving")
    /\ wake_pending' = Set(wake_pending, t, FALSE)
    /\ UNCHANGED <<on_rq, cpu, event, qvars, ivars, hand, dest, back>>

PollReady(c) ==
    LET t == current[c] IN
    /\ pc[c] = "recheck"
    /\ event[t]
    /\ Goto(c, "user")
    /\ state' = Set(state, t, "Running")
    /\ wake_pending' = Set(wake_pending, t, FALSE)
    /\ UNCHANGED <<on_rq, cpu, event, qvars, ivars, hand, dest, back>>

PollSleep(c) ==
    /\ pc[c] = "recheck"
    /\ ~event[current[c]]
    /\ Goto(c, "switch")
    /\ UNCHANGED <<tvars, qvars, ivars, hand, dest, back>>

\* Back from a wait with its condition true, or no need to wait at all.
Take(c) ==
    LET t == current[c] IN
    /\ pc[c] = "user" /\ event[t]
    /\ event' = Set(event, t, FALSE)
    /\ UNCHANGED <<state, wake_pending, on_rq, cpu, qvars, ivars, lvars>>

\* exit_current_and_run_next / recycle_on_exit.
Exit(c) ==
    /\ pc[c] = "user"
    /\ Goto(c, "switch")
    /\ state' = Set(state, current[c], "Zombie")
    /\ UNCHANGED <<wake_pending, on_rq, cpu, event, qvars, ivars, hand, dest, back>>

\* do_clone: the child is born Ready and goes through enqueue_new_task.
Spawn(c, u) ==
    /\ pc[c] = "user" /\ state[u] = "UnInit"
    /\ state' = Set(state, u, "Ready")
    /\ cpu' = Set(cpu, u, c)
    /\ hand' = Set(hand, c, u)
    /\ Goto(c, "select")
    /\ back' = Set(back, c, "user")
    /\ UNCHANGED <<wake_pending, on_rq, event, qvars, ivars, dest>>

\* A running task posts an event for u (a signal, data, a child's exit) and
\* then calls wake_up_task.
Post(c, u) ==
    /\ pc[c] = "user" /\ state[u] # "UnInit"
    /\ event' = Set(event, u, TRUE)
    /\ hand' = Set(hand, c, u)
    /\ Goto(c, "wake")
    /\ back' = Set(back, c, "user")
    /\ UNCHANGED <<state, wake_pending, on_rq, cpu, qvars, ivars, dest>>

\* wake_expired_sleep_tasks: the deadline of u has passed.
TimerPost(c, u) ==
    /\ pc[c] = "loop" /\ state[u] # "UnInit" /\ ~event[u]
    /\ event' = Set(event, u, TRUE)
    /\ hand' = Set(hand, c, u)
    /\ Goto(c, "wake")
    /\ back' = Set(back, c, "loop")
    /\ UNCHANGED <<state, wake_pending, on_rq, cpu, qvars, ivars, dest>>

-----------------------------------------------------------------------------
(* Switching back, and wake_up_task                                         *)

\* __switch has saved the context; take_current.
SwitchBack(c) ==
    /\ pc[c] = "switch"
    /\ Goto(c, "commit")
    /\ hand' = Set(hand, c, current[c])
    /\ current' = Set(current, c, None)
    /\ UNCHANGED <<tvars, rq, ivars, dest, back>>

\* The commit of the task that was switched away from, under its lock.  It has
\* been woken since it announced its sleep: enqueue_resumed_task.
CommitResumed(c) ==
    LET t == hand[c] IN
    /\ pc[c] = "commit" /\ state[t] = "BlockSaving" /\ wake_pending[t]
    /\ Goto(c, "select")
    /\ state' = Set(state, t, "Ready")
    /\ wake_pending' = Set(wake_pending, t, FALSE)
    /\ UNCHANGED <<on_rq, cpu, event, qvars, ivars, hand, dest, back>>

\* It has not: from here on a waker finds it Blocked.
CommitBlocked(c) ==
    LET t == hand[c] IN
    /\ pc[c] = "commit" /\ state[t] = "BlockSaving" /\ ~wake_pending[t]
    /\ state' = Set(state, t, "Blocked")
    /\ Return(c)
    /\ UNCHANGED <<wake_pending, on_rq, cpu, event, qvars, ivars>>

\* It gave up the CPU and stays runnable: add_task_into_pool.  This enqueue is
\* not followed by a kick; by OwnCpu it is local, where a kick does nothing.
CommitReady(c) ==
    LET t == hand[c] IN
    /\ pc[c] = "commit" /\ state[t] = "Ready"
    /\ Goto(c, "enqueue")
    /\ dest' = Set(dest, c, cpu[t])
    /\ UNCHANGED <<tvars, qvars, ivars, hand, back>>

\* It exited: scheduler_task_stopped.
CommitDead(c) ==
    /\ pc[c] = "commit" /\ state[hand[c]] \notin {"BlockSaving", "Ready"}
    /\ Return(c)
    /\ UNCHANGED <<tvars, qvars, ivars>>

\* wake_up_task, one critical section of the woken task's lock: a stable sleeper
\* is made Ready and enqueued, ...
WakeBlocked(c) ==
    /\ pc[c] = "wake" /\ state[hand[c]] = "Blocked"
    /\ Goto(c, "select")
    /\ state' = Set(state, hand[c], "Ready")
    /\ UNCHANGED <<wake_pending, on_rq, cpu, event, qvars, ivars, hand, dest, back>>

\* ... one still saving its context gets wake_pending, any other is left alone.
WakeOther(c) ==
    LET t == hand[c] IN
    /\ pc[c] = "wake" /\ state[t] # "Blocked"
    /\ wake_pending' = Set(wake_pending, t, wake_pending[t] \/ state[t] = "BlockSaving")
    /\ Return(c)
    /\ UNCHANGED <<state, on_rq, cpu, event, qvars, ivars>>

-----------------------------------------------------------------------------
(* Enqueueing, and the kick                                                 *)

\* select_task_rq
Select(c, d) ==
    /\ pc[c] = "select"
    /\ Goto(c, "enqueue")
    /\ dest' = Set(dest, c, d)
    /\ UNCHANGED <<tvars, qvars, ivars, hand, back>>

\* enqueue_task_on_cpu, under the task's lock.
Enqueue(c) ==
    LET t == hand[c] IN
    /\ pc[c] = "enqueue"
    /\ IF state[t] = "Zombie"
         THEN /\ Return(c)
              /\ on_rq' = Set(on_rq, t, FALSE)
              /\ UNCHANGED <<state, cpu>>
         ELSE /\ Goto(c, "enqueue_rq")
              /\ cpu' = Set(cpu, t, dest[c])
              /\ state' = Set(state, t, "Ready")
              /\ UNCHANGED <<on_rq, hand, dest, back>>
    /\ UNCHANGED <<wake_pending, event, qvars, ivars>>

\* Rqinner::enqueue_task, under the run queue lock and the task's lock.  A task
\* already on a queue or dead is silently let go of.
EnqueueRq(c) ==
    LET t == hand[c] IN
    /\ pc[c] = "enqueue_rq"
    /\ IF on_rq[t] \/ state[t] = "Zombie"
         THEN Return(c) /\ UNCHANGED <<rq, on_rq>>
         ELSE /\ Goto(c, "kick")
              /\ rq' = [rq EXCEPT ![dest[c]] = @ \cup {t}]
              /\ on_rq' = Set(on_rq, t, TRUE)
              /\ hand' = Set(hand, c, None)
              /\ UNCHANGED <<dest, back>>
    /\ UNCHANGED <<state, wake_pending, cpu, event, current, ivars>>

\* mark_resched_and_kick: nothing to do for the local CPU; else take the gate,
\* read idle_state, swap ipi_pending and send, and let the gate go.
KickLocal(c) ==
    /\ pc[c] = "kick" /\ dest[c] = c
    /\ Return(c)
    /\ UNCHANGED <<tvars, qvars, ivars>>

Kick(c) ==
    /\ pc[c] = "kick" /\ dest[c] # c /\ gate[dest[c]] = None
    /\ Goto(c, "kick_check")
    /\ gate' = Set(gate, dest[c], c)
    /\ UNCHANGED <<tvars, qvars, idle_state, ipi_pending, ipi, hand, dest, back>>

KickCheck(c) ==
    /\ pc[c] = "kick_check" /\ idle_state[dest[c]] = "IdleWfi"
    /\ Goto(c, "kick_send")
    /\ UNCHANGED <<tvars, qvars, ivars, hand, dest, back>>

KickBusy(c) ==
    /\ pc[c] = "kick_check" /\ idle_state[dest[c]] # "IdleWfi"
    /\ Return(c)
    /\ gate' = Set(gate, dest[c], None)
    /\ UNCHANGED <<tvars, qvars, idle_state, ipi_pending, ipi>>

KickSend(c) ==
    LET d == dest[c] IN
    /\ pc[c] = "kick_send"
    /\ Return(c)
    /\ ipi_pending' = Set(ipi_pending, d, TRUE)
    /\ ipi' = Set(ipi, d, ipi[d] \/ ~ipi_pending[d])
    /\ gate' = Set(gate, d, None)
    /\ UNCHANGED <<tvars, qvars, idle_state>>

-----------------------------------------------------------------------------
(* Idling                                                                   *)

\* scheduler_idle_arm: take the gate, look at the exact queue, publish.
IdleArm(c) ==
    /\ pc[c] = "idle_arm"
    /\ gate[c] = None
    /\ Goto(c, "arm_check")
    /\ gate' = Set(gate, c, c)
    /\ UNCHANGED <<tvars, qvars, idle_state, ipi_pending, ipi, hand, dest, back>>

ArmCheck(c) ==
    /\ pc[c] = "arm_check"
    /\ Goto(c, IF rq[c] = {} THEN "arm_wfi" ELSE "arm_run")
    /\ UNCHANGED <<tvars, qvars, ivars, hand, dest, back>>

ArmWfi(c) ==
    /\ pc[c] = "arm_wfi"
    /\ Goto(c, "wfi")
    /\ idle_state' = Set(idle_state, c, "IdleWfi")
    /\ gate' = Set(gate, c, None)
    /\ UNCHANGED <<tvars, qvars, ipi_pending, ipi, hand, dest, back>>

ArmRun(c) ==
    /\ pc[c] = "arm_run"
    /\ Goto(c, "loop")
    /\ idle_state' = Set(idle_state, c, "Running")
    /\ gate' = Set(gate, c, None)
    /\ UNCHANGED <<tvars, qvars, ipi_pending, ipi, hand, dest, back>>

\* The hart resumes for a pending software interrupt ...
WfiIpi(c) ==
    /\ pc[c] = "wfi"
    /\ ipi[c]
    /\ Goto(c, "idle_exit")
    /\ UNCHANGED <<tvars, qvars, ivars, hand, dest, back>>

\* ... or for its timer.
WfiTimer(c) ==
    /\ pc[c] = "wfi"
    /\ Goto(c, "idle_exit")
    /\ UNCHANGED <<tvars, qvars, ivars, hand, dest, back>>

\* scheduler_idle_exit: under the gate publish Running, then acknowledge.
IdleExit(c) ==
    /\ pc[c] = "idle_exit"
    /\ gate[c] = None
    /\ Goto(c, "idle_ack")
    /\ gate' = Set(gate, c, c)
    /\ idle_state' = Set(idle_state, c, "Running")
    /\ UNCHANGED <<tvars, qvars, ipi_pending, ipi, hand, dest, back>>

IdleAck(c) ==
    /\ pc[c] = "idle_ack"
    /\ Goto(c, "loop")
    /\ ipi' = Set(ipi, c, FALSE)
    /\ ipi_pending' = Set(ipi_pending, c, FALSE)
    /\ gate' = Set(gate, c, None)
    /\ UNCHANGED <<tvars, qvars, idle_state, hand, dest, back>>

-----------------------------------------------------------------------------
\* What a CPU does by itself, whatever its user tasks do.
Kernel(c) ==
    \/ \E t \in Task : Fetch(c, t) \/ \E r \in Cpu : Steal(c, r, t)
    \/ FetchCommit(c) \/ FetchNone(c) \/ StealNone(c) \/ Dispatch(c)
    \/ PollReady(c) \/ PollSleep(c) \/ SwitchBack(c)
    \/ CommitResumed(c) \/ CommitBlocked(c) \/ CommitReady(c) \/ CommitDead(c)
    \/ WakeBlocked(c) \/ WakeOther(c)
    \/ \E d \in Cpu : Select(c, d)
    \/ Enqueue(c) \/ EnqueueRq(c)
    \/ KickLocal(c) \/ Kick(c) \/ KickCheck(c) \/ KickBusy(c) \/ KickSend(c)
    \/ IdleArm(c) \/ ArmCheck(c) \/ ArmWfi(c) \/ ArmRun(c)
    \/ WfiIpi(c) \/ IdleExit(c) \/ IdleAck(c)

\* What the running task chooses to do, and the clock.
User(c) ==
    \/ Yield(c) \/ Block(c) \/ PollBegin(c) \/ Take(c) \/ Exit(c)
    \/ \E u \in Task : Spawn(c, u) \/ Post(c, u)

Clock(c) == WfiTimer(c) \/ \E u \in Task : TimerPost(c, u)

Next == \E c \in Cpu : Kernel(c) \/ User(c) \/ Clock(c)

Spec == Init /\ [][Next]_vars

\* Interrupts are off in the kernel, so a CPU inside it keeps going.  Nothing is
\* assumed of the tasks, nor of the timer.
Fairness == \A c \in Cpu : WF_vars(Kernel(c))

FairSpec == Spec /\ Fairness


-----------------------------------------------------------------------------
(* Properties                                                               *)

\* A CPU that owns the task its stack refers to, rather than merely naming it.
Holding == {"popped", "dispatch", "commit", "select", "enqueue", "enqueue_rq"}

\* The places from which a task can go on to run.
Homes(t) ==
    {<<"current", c>> : c \in {d \in Cpu : current[d] = t}}
    \cup {<<"rq", c>> : c \in {d \in Cpu : t \in rq[d]}}
    \cup {<<"hand", c>> : c \in {d \in Cpu : pc[d] \in Holding /\ hand[d] = t}}

\* No task is lost and none is duplicated: a task that is to run is in exactly
\* one of a run queue, a CPU's current slot or the hands of one scheduler loop,
\* however wakers, thieves and its own CPU's commit interleave; a Blocked task
\* is in none.  In particular no CPU can pick a task up before the CPU it last
\* ran on has saved its context.
OneHome ==
    \A t \in Task :
        /\ \A h, k \in Homes(t) : h = k
        /\ state[t] \in {"Ready", "Running", "BlockSaving"} => Homes(t) # {}
        /\ state[t] \in {"UnInit", "Blocked"} => Homes(t) = {}

\* enqueue_task lets go of a task that is Zombie or already on_rq, and
\* add_task_into_pool and enqueue_resumed_task ignore the refusal: the task would
\* vanish.  No enqueue in progress is ever refused, and no queued task is dead.
NeverRefused ==
    /\ \A c \in Cpu :
          /\ pc[c] \in {"select", "enqueue", "enqueue_rq"} =>
                ~on_rq[hand[c]] /\ state[hand[c]] = "Ready"
          /\ pc[c] = "popped" => state[hand[c]] # "Zombie"
    /\ \A c \in Cpu : \A t \in rq[c] : on_rq[t] /\ state[t] = "Ready"

\* Wakers, thieves and schedulers all write a task's cpu field, and a yielding task
\* is put back by it without any kick: the field of the task a CPU runs, or has
\* just switched away from, names that CPU.
OwnCpu ==
    \A c \in Cpu :
        /\ current[c] # None => cpu[current[c]] = c
        /\ pc[c] = "commit" => cpu[hand[c]] = c

\* The BlockSaving handshake: a task whose event has been posted is never left
\* Blocked unless its waker is still on the way to wake_up_task.
NoLostWake ==
    \A t \in Task : state[t] = "Blocked" /\ event[t] =>
        \E c \in Cpu : pc[c] = "wake" /\ hand[c] = t

\* The idle gate: a CPU sleeps in WFI beside a queued task only while an
\* interrupt is pending for it or the CPU that enqueued the task has still to
\* send one.
NoStrandedWork ==
    \A c \in Cpu : pc[c] = "wfi" /\ rq[c] # {} =>
        \/ ipi[c]
        \/ \E k \in Cpu \ {c} : dest[k] = c /\ pc[k] \in {"kick", "kick_check", "kick_send"}

\* "no scheduler IPI can survive this clear and cause a redundant trap
\* immediately after returning to userspace" (run_tasks): a CPU that executes a
\* task has neither an interrupt nor ipi_pending left over, so that the next
\* kick is not suppressed either.
NoStaleIpi ==
    \A c \in Cpu : current[c] # None => ~ipi[c] /\ ~ipi_pending[c]

\* A CPU in WFI with work in its queue leaves it, or the work is stolen, without
\* the help of its timer.
WorkWakesCpu == \A c \in Cpu : (pc[c] = "wfi" /\ rq[c] # {}) ~> (pc[c] # "wfi" \/ rq[c] = {})

-----------------------------------------------------------------------------
(* Refinement: BlockSaving with wake_pending is an awake task.              *)

life ==
    [t \in Task |->
        CASE state[t] = "UnInit" -> "unborn"
          [] state[t] = "Ready" -> "ready"
          [] state[t] = "Running" -> "running"
          [] state[t] = "BlockSaving" /\ wake_pending[t] -> "ready"
          [] state[t] = "BlockSaving" /\ ~wake_pending[t] -> "asleep"
          [] state[t] = "Blocked" -> "asleep"
          [] state[t] = "Zombie" -> "dead"]

\* fetch_task publishes Running a step before Processor.current is set.
running ==
    [c \in Cpu |-> IF pc[c] = "dispatch" /\ state[hand[c]] = "Running"
                     THEN hand[c] ELSE current[c]]

Life == INSTANCE TaskLife

\* The scheduler implements atomic sleep and wakeup: each of its steps is a step
\* of TaskLife or changes nothing there.
Refinement == Life!Spec

\* It also keeps TaskLife's promise that a posted event gets the sleeper up.
KeepsPromise == Life!FairSpec
=============================================================================
