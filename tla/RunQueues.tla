------------------------------ MODULE RunQueues ------------------------------
(***************************************************************************)
(* What one CPU's run queue holds (Rqinner in process/scheduler/           *)
(* runqueue.rs, with cfs_rq.rs and rt_rq.rs), the virtual run time that    *)
(* orders the fair class, and the calls that change a task's class,        *)
(* priority or CPUs while it may be queued (sched_setscheduler,            *)
(* sched_setparam, sched_setaffinity).  The timeline of the fair class is  *)
(* a set ordered by (vruntime, order): RbTree shows that the tree keeps    *)
(* it.  Which CPU a wake chooses is Placement's subject; here it is any    *)
(* allowed one.  Nothing selects the deadline class, which stays empty.    *)
(***************************************************************************)
EXTENDS Integers, Sequences, FiniteSets, FiniteSetsExt

CONSTANTS Cpu, Task,
          Weight,    \* load_weight of each task
          Nice0,     \* the weight at which virtual time is real time (1024)
          Slices,    \* how long a task may run at a time
          Prios,     \* priorities of the real-time class, 0 is the highest
          Mixes,     \* the calls that behaviours are made of
          MaxPicks   \* bound on the number of choices and calls

VARIABLES mix,
          task,      \* state, on_rq, cpu, policy, prio, vruntime, cpus_allowed
          cfs,       \* timeline, nr_queued, load, min_vruntime, enqueue_order
          rt,        \* queue of each priority, bitmap, rt_nr_running
          nrRunning, current,
          moved,     \* history: tasks that changed CPU or class
          picks

rqVars == <<mix, task, cfs, rt, nrRunning, current, moved, picks>>

Fair(t) == task[t].policy = "other"
Before(e, f) == e.vr < f.vr \/ (e.vr = f.vr /\ e.order < f.order)
First(S) == CHOOSE e \in S : \A f \in S : f = e \/ Before(e, f)
Larger(a, b) == IF a < b THEN b ELSE a
Smaller(a, b) == IF a < b THEN a ELSE b

-----------------------------------------------------------------------------
\* Mutant: a task that slept keeps its old virtual time.
CfsEnqueueAsIs(q, t, vr) ==
    LET line == q.line \cup {[vr |-> vr, order |-> q.order, tid |-> t]}
    IN [q EXCEPT !.line = line, !.nr = @ + 1, !.load = @ + Weight[t], !.order = @ + 1,
                 !.min = Larger(@, First(line).vr)]
(* CfsRq::enqueue: never behind the queue's clock.                         *)
CfsEnqueue(q, t, vr) ==
    LET line == q.line \cup {[vr |-> Larger(vr, q.min), order |-> q.order, tid |-> t]}
    IN [q EXCEPT !.line = line, !.nr = @ + 1, !.load = @ + Weight[t], !.order = @ + 1,
                 !.min = Larger(@, First(line).vr)]
(* CfsRq::remove_task, pop_next and advance_min_vruntime.                  *)
CfsWithout(q, e) == [q EXCEPT !.line = @ \ {e}, !.nr = @ - 1, !.load = @ - Weight[e.tid]]
CfsPop(q) ==
    LET e == First(q.line)
        rest == CfsWithout(q, e)
        candidate == IF rest.line = {} THEN e.vr ELSE Smaller(First(rest.line).vr, e.vr)
    IN [rest EXCEPT !.min = Larger(@, candidate)]
CfsAdvance(q) == IF q.line = {} THEN q ELSE [q EXCEPT !.min = Larger(@, First(q.line).vr)]

RtEnqueue(q, t, p) == [q EXCEPT !.queue[p] = Append(@, t), !.bits = @ \cup {p}, !.nr = @ + 1]
\* Mutant: the bit of the priority is not cleared with its last task.
RtWithoutKeepsBit(q, t, p) ==
    [q EXCEPT !.queue[p] = SelectSeq(@, LAMBDA u : u # t), !.nr = @ - 1]
(* RtRq::pop_next and remove_task: the queue the task is in, whatever its  *)
(* priority is by now.                                                     *)
RtWithout(q, t, p) ==
    LET left == SelectSeq(q.queue[p], LAMBDA u : u # t)
    IN [q EXCEPT !.queue[p] = left, !.nr = @ - 1, !.bits = IF left = << >> THEN @ \ {p} ELSE @]

(* enqueue_task_on_cpu and Rqinner::enqueue_task into the queues C and R   *)
(* of CPU c; a task that died is not queued.                               *)
EnqueueOn(c, t, vr, C, R) ==
    LET queued == CfsEnqueue(C, t, vr)
        e == CHOOSE x \in queued.line : x.tid = t
    IN /\ cfs' = [cfs EXCEPT ![c] = IF Fair(t) THEN queued ELSE C]
       /\ rt' = [rt EXCEPT ![c] = IF Fair(t) THEN R ELSE RtEnqueue(R, t, task[t].prio)]
       /\ task' = [task EXCEPT ![t].st = "ready", ![t].onRq = TRUE, ![t].cpu = c,
                               ![t].vr = IF Fair(t) THEN e.vr ELSE vr]

(* enqueue_new_task and wake_up_task of a blocked task.                    *)
Enqueue(t, c) ==
    /\ task[t].st \in {"new", "blocked"} /\ c \in task[t].allowed
    /\ EnqueueOn(c, t, task[t].vr, cfs[c], rt[c])
    /\ nrRunning' = [nrRunning EXCEPT ![c] = @ + 1]
    /\ moved' = IF c # task[t].cpu THEN moved \cup {t} ELSE moved
    /\ UNCHANGED <<mix, current, picks>>

(* Rqinner::pop_next_task: real time first, then the fair class.           *)
NextTask(c) == IF rt[c].bits # {} THEN Head(rt[c].queue[Min(rt[c].bits)]) ELSE First(cfs[c].line).tid
CfsLeft(c) == IF rt[c].bits # {} THEN cfs[c] ELSE CfsPop(cfs[c])
RtLeft(c) == IF rt[c].bits # {} THEN RtWithout(rt[c], NextTask(c), Min(rt[c].bits)) ELSE rt[c]
Pop(c) ==
    /\ nrRunning' = [nrRunning EXCEPT ![c] = @ - 1]
    /\ cfs' = [cfs EXCEPT ![c] = CfsLeft(c)]
    /\ rt' = [rt EXCEPT ![c] = RtLeft(c)]

(* fetch_task: a task that died in the queue is dropped.                   *)
FetchTask(c) ==
    LET t == NextTask(c)
        dead == task[t].st = "zombie"
    IN /\ current[c] = 0 /\ picks < MaxPicks /\ (rt[c].bits # {} \/ cfs[c].line # {})
       /\ Pop(c)
       /\ task' = [task EXCEPT ![t] = IF dead THEN [@ EXCEPT !.onRq = FALSE]
                                      ELSE [@ EXCEPT !.onRq = FALSE, !.cpu = c, !.st = "running"]]
       /\ current' = IF dead THEN current ELSE [current EXCEPT ![c] = t]
       /\ picks' = picks + 1
       /\ UNCHANGED <<mix, moved>>

(* steal_task by an idle CPU: what may not move is queued again, last of   *)
(* its priority or of its virtual time, and the CPU stays idle.            *)
Steal(c, target) ==
    LET t == NextTask(c)
        dead == task[t].st = "zombie"
    IN /\ "steal" \in mix /\ c # target /\ current[target] = 0 /\ nrRunning[target] = 0 /\ picks < MaxPicks
       /\ rt[c].bits # {} \/ cfs[c].line # {}
       /\ IF dead \/ target \in task[t].allowed
          THEN /\ Pop(c)
               /\ task' = [task EXCEPT ![t] = IF dead THEN [@ EXCEPT !.onRq = FALSE]
                                              ELSE [@ EXCEPT !.onRq = FALSE, !.cpu = target, !.st = "running"]]
               /\ current' = IF dead THEN current ELSE [current EXCEPT ![target] = t]
               /\ moved' = moved \cup {t}
          ELSE EnqueueOn(c, t, task[t].vr, CfsLeft(c), RtLeft(c)) /\ UNCHANGED <<nrRunning, current, moved>>
       /\ picks' = picks + 1
       /\ UNCHANGED mix

(* Back in run_tasks: what the task ran is charged, whatever its class,    *)
(* and it is queued again (add_task_into_pool), or it blocked or died.     *)
Charged(t, slice) == Larger(1, (slice * Nice0) \div Weight[t])
SwitchBack(c, slice, st) ==
    LET t == current[c]
        vr == task[t].vr + Charged(t, slice)
    IN /\ t # 0
       /\ current' = [current EXCEPT ![c] = 0]
       /\ IF st = "ready"
          THEN EnqueueOn(c, t, vr, cfs[c], rt[c]) /\ nrRunning' = [nrRunning EXCEPT ![c] = @ + 1]
          ELSE /\ task' = [task EXCEPT ![t].st = st, ![t].vr = vr]
               /\ cfs' = IF Fair(t) THEN [cfs EXCEPT ![c] = CfsAdvance(@)] ELSE cfs
               /\ UNCHANGED <<rt, nrRunning>>
       /\ UNCHANGED <<mix, moved, picks>>

-----------------------------------------------------------------------------
(* sched_setscheduler, sched_setparam: the task's own fields only, even if *)
(* it is queued.                                                           *)
SetScheduler(t, policy, p) ==
    /\ "policy" \in mix /\ picks < MaxPicks /\ task[t].st \notin {"new", "zombie"}
    /\ task[t].policy # policy \/ task[t].prio # p
    /\ policy = "other" => p = 0
    /\ task' = [task EXCEPT ![t].policy = policy, ![t].prio = p]
    /\ moved' = moved \cup {t}
    /\ picks' = picks + 1
    /\ UNCHANGED <<mix, cfs, rt, nrRunning, current>>
SetAffinity(t, S) ==
    /\ "affinity" \in mix /\ picks < MaxPicks /\ task[t].allowed # S
    /\ task' = [task EXCEPT ![t].allowed = S]
    /\ picks' = picks + 1
    /\ UNCHANGED <<mix, cfs, rt, nrRunning, current, moved>>

(* exec and exit take a sibling out of whatever queue holds it             *)
(* (remove_task_from_all_local_queues); it may die queued before that.     *)
Killed(t) ==
    /\ "kill" \in mix /\ picks < MaxPicks /\ task[t].st = "ready"
    /\ task' = [task EXCEPT ![t].st = "zombie"]
    /\ picks' = picks + 1
    /\ UNCHANGED <<mix, cfs, rt, nrRunning, current, moved>>
RemoveTask(t, c) ==
    /\ "kill" \in mix /\ picks < MaxPicks /\ task[t].onRq
    /\ \/ \E p \in Prios : /\ \E i \in DOMAIN rt[c].queue[p] : rt[c].queue[p][i] = t
                           /\ rt' = [rt EXCEPT ![c] = RtWithout(@, t, p)] /\ UNCHANGED cfs
       \/ \E e \in cfs[c].line : /\ e.tid = t
                                 /\ cfs' = [cfs EXCEPT ![c] = CfsWithout(@, e)] /\ UNCHANGED rt
    /\ nrRunning' = [nrRunning EXCEPT ![c] = @ - 1]
    /\ task' = [task EXCEPT ![t].onRq = FALSE, ![t].st = "zombie"]
    /\ picks' = picks + 1
    /\ UNCHANGED <<mix, current, moved>>

-----------------------------------------------------------------------------
RqInit ==
    /\ mix \in Mixes
    /\ task = [t \in Task |-> [st |-> "new", onRq |-> FALSE, cpu |-> Min(Cpu), policy |-> "other", prio |-> 0,
                               vr |-> 0, allowed |-> Cpu]]
    /\ cfs = [c \in Cpu |-> [line |-> {}, nr |-> 0, load |-> 0, min |-> 0, order |-> 0]]
    /\ rt = [c \in Cpu |-> [queue |-> [p \in Prios |-> << >>], bits |-> {}, nr |-> 0]]
    /\ nrRunning = [c \in Cpu |-> 0] /\ current = [c \in Cpu |-> 0] /\ moved = {} /\ picks = 0
RqNext ==
    \/ \E t \in Task, c \in Cpu : Enqueue(t, c) \/ RemoveTask(t, c)
    \/ \E c \in Cpu : FetchTask(c) \/ (\E d \in Cpu : Steal(c, d))
    \/ \E c \in Cpu, s \in Slices, st \in {"ready", "blocked", "zombie"} : SwitchBack(c, s, st)
    \/ \E t \in Task : Killed(t) \/ (\E p \in Prios, pol \in {"other", "fifo"} : SetScheduler(t, pol, p))
    \/ \E t \in Task, S \in (SUBSET Cpu) \ {{}} : SetAffinity(t, S)
RqSpec == RqInit /\ [][RqNext]_rqVars

-----------------------------------------------------------------------------
InLine(t, c) == Cardinality({e \in cfs[c].line : e.tid = t})
InRt(t, c) == MapThenSumSet(LAMBDA p : Cardinality({i \in DOMAIN rt[c].queue[p] : rt[c].queue[p][i] = t}), Prios)

(* A task is marked queued exactly when one queue of one CPU holds it,     *)
(* once, and a running task is in none, although its class and priority    *)
(* may change while it is queued.  The bitmap marks the priorities that    *)
(* have a task, and the counts and the load are those of what is there.    *)
QueuesExact ==
    /\ \A t \in Task :
          MapThenSumSet(LAMBDA c : InLine(t, c) + InRt(t, c), Cpu) = (IF task[t].onRq THEN 1 ELSE 0)
    /\ \A c \in Cpu :
          /\ rt[c].bits = {p \in Prios : rt[c].queue[p] # << >>}
          /\ rt[c].nr = MapThenSumSet(LAMBDA p : Len(rt[c].queue[p]), Prios)
          /\ cfs[c].nr = Cardinality(cfs[c].line)
          /\ cfs[c].load = MapThenSumSet(LAMBDA e : Weight[e.tid], cfs[c].line)
          /\ nrRunning[c] = cfs[c].nr + rt[c].nr
          /\ current[c] # 0 => ~ task[current[c]].onRq

(* No task that stayed on its CPU and in the fair class falls behind: what *)
(* it has run is at most the longest slice ahead of the queue's clock, so  *)
(* nothing that wakes or is created is preferred to it for longer.         *)
LagBounded ==
    \A c \in Cpu : \A e \in cfs[c].line :
        e.tid \notin moved =>
            /\ e.vr >= cfs[c].min
            /\ e.vr <= cfs[c].min + Charged(e.tid, Max(Slices))

RunQueuesExact == QueuesExact /\ LagBounded
=============================================================================
