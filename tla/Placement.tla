------------------------------ MODULE Placement ------------------------------
(***************************************************************************)
(* Load accounting and CPU selection (process/scheduler/runqueue.rs).      *)
(*                                                                         *)
(* Every CPU publishes a lock-free RqView: how many tasks it has to run,   *)
(* their weight and how many wakers have chosen it but not yet queued      *)
(* their task.  A waker reads the views of all CPUs, picks one, reserves   *)
(* it with a compare-and-swap, queues the task under the run-queue lock    *)
(* and only then, with the lock released, adds the task to the view and    *)
(* gives its reservation back.  Every one of these is a step here, so a    *)
(* view may be read or changed by another CPU between any two of them.     *)
(*                                                                         *)
(* Scheduler.tla shows that a task is in one place at a time and that no   *)
(* enqueue is refused; this module takes both for granted and keeps of a   *)
(* task only where it is.  The five loads of one snapshot are one step.    *)
(***************************************************************************)
EXTENDS Naturals, FiniteSets, FiniteSetsExt

CONSTANTS CPU,        \* the harts, 0 .. n - 1
          Task,
          Allowed,    \* cpus_allowed of every task
          Pinned,     \* the tasks with on_main_hart
          Weight,     \* load_weight of every task
          None,
          Placements  \* bound: how many times a task may be placed

ASSUME PlacementAssumption ==
    /\ IsFiniteSet(CPU) /\ CPU = 0 .. (Cardinality(CPU) - 1) /\ 0 \in CPU
    /\ Allowed \in [Task -> (SUBSET CPU) \ {{}}]
    /\ Pinned \subseteq Task
    /\ Weight \in [Task -> Nat \ {0}]
    /\ Placements \in Nat

VARIABLES pc,      \* pc[c]: where CPU c is
          cur,     \* cur[c]: the task CPU c runs
          job,     \* job[c]: the placement or removal CPU c is working on
          rq,      \* rq[c]: the exact run queue
          count,   \* count[c]: the published runnable_count
          weight,  \* weight[c]: the published runnable_weight
          res,     \* res[c]: the published wake_reservations
          last,    \* last[t]: the cpu field of the task
          unborn, blocked,
          left     \* placements left

vars == <<pc, cur, job, rq, count, weight, res, last, unborn, blocked, left>>
views == <<count, weight, res>>

(* A placement: the task, whether it is new to the load or resumed, the    *)
(* CPU it was on, the preferred CPU, the next CPU to look at, the best     *)
(* candidate so far, the failed reservations, the CPU chosen, whether it   *)
(* was reserved, and where the CPU goes on afterwards.                     *)
NoJob == [task |-> None, new |-> FALSE, old |-> 0, pref |-> 0, next |-> 0, best |-> None,
          tries |-> 0, to |-> 0, reserved |-> FALSE, back |-> "loop"]

Init == /\ pc = [c \in CPU |-> "off"]
        /\ cur = [c \in CPU |-> None]
        /\ job = [c \in CPU |-> NoJob]
        /\ rq = [c \in CPU |-> {}]
        /\ count = [c \in CPU |-> 0]
        /\ weight = [c \in CPU |-> 0]
        /\ res = [c \in CPU |-> 0]
        /\ last = [t \in Task |-> 0]
        /\ unborn = Task
        /\ blocked = {}
        /\ left = Placements

(* saturating_sub.                                                         *)
Minus(a, b) == IF a > b THEN a - b ELSE 0

AddRunnable(c, t) == /\ count' = [count EXCEPT ![c] = @ + 1]
                     /\ weight' = [weight EXCEPT ![c] = @ + Weight[t]]

RemoveRunnable(c, t) == /\ count' = [count EXCEPT ![c] = Minus(@, 1)]
                        /\ weight' = [weight EXCEPT ![c] = Minus(@, Weight[t])]

-----------------------------------------------------------------------------
(* Choosing a CPU: select_task_rq.                                         *)

AllowedFallback(t, f) == IF f \in Allowed[t] THEN f ELSE Min(Allowed[t])

Preferred(t, source, prefer) ==
    IF prefer \in Allowed[t] THEN prefer ELSE AllowedFallback(t, source)

(* Start to place t; CPU c goes on at `back' when it is done.              *)
Select(c, t, new, source, prefer, back) ==
    LET p == Preferred(t, source, prefer) IN
    /\ left > 0
    /\ left' = left - 1
    /\ job' = [job EXCEPT ![c] = [NoJob EXCEPT !.task = t, !.new = new, !.old = last[t],
                                               !.pref = p, !.to = p, !.back = back]]
    /\ pc' = [pc EXCEPT ![c] = IF t \in Pinned \/ Cardinality(CPU) <= 1 THEN "queue" ELSE "scan"]

(* The candidate a CPU is for CPU c's task: idle before loaded, then the   *)
(* least load, then the preferred CPU, then the lowest number.             *)
Candidate(c, d) ==
    LET idle == pc[d] = "idle" /\ count[d] = 0
    IN  [cpu |-> d, idle |-> idle, res |-> res[d],
         key |-> <<IF idle THEN 0 ELSE 1, weight[d] + res[d] * Weight[job[c].task],
                   IF d = job[c].pref THEN 0 ELSE 1, d>>]

Better(a, b) ==
    \/ b = None
    \/ \E i \in 1 .. 4 : a.key[i] < b.key[i] /\ \A j \in 1 .. (i - 1) : a.key[j] = b.key[j]

(* The boot hart starts the first task before it is online.                *)
IsOnline(d) == pc[d] # "off" /\ job[d].back # "off"

Scan(c) ==
    LET d == job[c].next
        fits == d \in Allowed[job[c].task] /\ IsOnline(d)
    IN  /\ pc[c] = "scan"
        /\ job' = [job EXCEPT ![c].next = d + 1,
                              ![c].best = IF fits /\ Better(Candidate(c, d), @)
                                          THEN Candidate(c, d) ELSE @]
        /\ pc' = [pc EXCEPT ![c] = IF d + 1 \in CPU THEN "scan" ELSE "reserve"]
        /\ UNCHANGED <<cur, rq, views, last, unborn, blocked, left>>

(* No online CPU: the preferred one is used, without a reservation.        *)
NoCandidate(c) ==
    /\ pc[c] = "reserve" /\ job[c].best = None
    /\ pc' = [pc EXCEPT ![c] = "queue"]
    /\ UNCHANGED <<cur, job, rq, views, last, unborn, blocked, left>>

Reserve(c) ==
    LET b == job[c].best IN
    /\ pc[c] = "reserve" /\ b # None
    /\ res[b.cpu] = b.res
    /\ res' = [res EXCEPT ![b.cpu] = @ + 1]
    /\ job' = [job EXCEPT ![c].to = b.cpu, ![c].reserved = TRUE]
    /\ pc' = [pc EXCEPT ![c] = "queue"]
    /\ UNCHANGED <<cur, rq, count, weight, last, unborn, blocked, left>>

(* The compare-and-swap failed: look again, or give up and use the         *)
(* preferred CPU after two tries per CPU.                                  *)
ReserveFails(c) ==
    LET b == job[c].best IN
    /\ pc[c] = "reserve" /\ b # None
    /\ res[b.cpu] # b.res
    /\ job' = [job EXCEPT ![c].tries = @ + 1, ![c].next = 0, ![c].best = None]
    /\ pc' = [pc EXCEPT ![c] = IF job[c].tries + 1 >= 2 * Cardinality(CPU) THEN "queue" ELSE "scan"]
    /\ UNCHANGED <<cur, rq, views, last, unborn, blocked, left>>

-----------------------------------------------------------------------------
(* Queueing the task and publishing it.                                    *)

(* enqueue_task_on_cpu, up to the release of the run-queue lock.           *)
Queue(c) ==
    LET t == job[c].task IN
    /\ pc[c] = "queue"
    /\ rq' = [rq EXCEPT ![job[c].to] = @ \cup {t}]
    /\ last' = [last EXCEPT ![t] = job[c].to]
    /\ pc' = [pc EXCEPT ![c] = IF job[c].new THEN "publish" ELSE "consume"]
    /\ UNCHANGED <<cur, job, views, unborn, blocked, left>>

Publish(c) ==
    /\ pc[c] = "publish"
    /\ AddRunnable(job[c].to, job[c].task)
    /\ pc' = [pc EXCEPT ![c] = "consume"]
    /\ UNCHANGED <<cur, job, rq, res, last, unborn, blocked, left>>

(* The placement is over.                                                  *)
Done(c) == /\ pc' = [pc EXCEPT ![c] = job[c].back]
           /\ job' = [job EXCEPT ![c] = NoJob]

(* A resumed task that changed CPU is still in its old CPU's view.         *)
Consumed(c) ==
    IF ~job[c].new /\ job[c].to # job[c].old
    THEN pc' = [pc EXCEPT ![c] = "moveOut"] /\ job' = job
    ELSE Done(c)

(* Mutants: the reservation of a resumed task is never given back; the     *)
(* contribution of a moved task is dropped.                                *)
ConsumeNewOnly(c) ==
    /\ pc[c] = "consume"
    /\ res' = IF job[c].reserved /\ job[c].new THEN [res EXCEPT ![job[c].to] = Minus(@, 1)] ELSE res
    /\ Consumed(c)
    /\ UNCHANGED <<cur, rq, count, weight, last, unborn, blocked, left>>

MoveOutOnly(c) ==
    /\ pc[c] = "moveOut"
    /\ RemoveRunnable(job[c].old, job[c].task)
    /\ Done(c)
    /\ UNCHANGED <<cur, rq, res, last, unborn, blocked, left>>

(* Give the reservation back; the new CPU is then told (Scheduler!Kick).   *)
Consume(c) ==
    /\ pc[c] = "consume"
    /\ res' = IF job[c].reserved THEN [res EXCEPT ![job[c].to] = Minus(@, 1)] ELSE res
    /\ Consumed(c)
    /\ UNCHANGED <<cur, rq, count, weight, last, unborn, blocked, left>>

(* A resumed task that changed CPU takes its contribution with it.         *)
MoveOut(c) ==
    /\ pc[c] = "moveOut"
    /\ RemoveRunnable(job[c].old, job[c].task)
    /\ pc' = [pc EXCEPT ![c] = "moveIn"]
    /\ UNCHANGED <<cur, job, rq, res, last, unborn, blocked, left>>

MoveIn(c) ==
    /\ pc[c] = "moveIn"
    /\ AddRunnable(job[c].to, job[c].task)
    /\ Done(c)
    /\ UNCHANGED <<cur, rq, res, last, unborn, blocked, left>>

-----------------------------------------------------------------------------
(* The run loop of a CPU and the tasks it runs.                            *)

Online(c) ==
    /\ pc[c] = "off"
    /\ pc' = [pc EXCEPT ![c] = "loop"]
    /\ UNCHANGED <<cur, job, rq, views, last, unborn, blocked, left>>

(* fetch_task: the contribution stays while the task runs.                 *)
Fetch(c) ==
    /\ pc[c] = "loop"
    /\ \E t \in rq[c] :
        /\ rq' = [rq EXCEPT ![c] = @ \ {t}]
        /\ cur' = [cur EXCEPT ![c] = t]
        /\ last' = [last EXCEPT ![t] = c]
    /\ pc' = [pc EXCEPT ![c] = "run"]
    /\ UNCHANGED <<job, views, unborn, blocked, left>>

(* idle_tasks: the first CPU with the greatest published count.            *)
Busiest(c) ==
    LET others == {d \in CPU \ {c} : \A e \in CPU \ {c} : count[e] <= count[d]}
    IN  IF others = {} THEN c ELSE Min(others)

(* steal_task_from_cpu, under the lock of the source's queue.              *)
Steal(c) ==
    LET d == Busiest(c) IN
    /\ pc[c] = "loop" /\ rq[c] = {}
    /\ d # c /\ count[d] > 0
    /\ \E t \in rq[d] \ Pinned :
        /\ c \in Allowed[t]
        /\ rq' = [rq EXCEPT ![d] = @ \ {t}]
        /\ last' = [last EXCEPT ![t] = c]
        /\ job' = [job EXCEPT ![c] = [NoJob EXCEPT !.task = t, !.old = d]]
    /\ pc' = [pc EXCEPT ![c] = "stealOut"]
    /\ UNCHANGED <<cur, views, unborn, blocked, left>>

StealOut(c) ==
    /\ pc[c] = "stealOut"
    /\ RemoveRunnable(job[c].old, job[c].task)
    /\ pc' = [pc EXCEPT ![c] = "stealIn"]
    /\ UNCHANGED <<cur, job, rq, res, last, unborn, blocked, left>>

StealIn(c) ==
    /\ pc[c] = "stealIn"
    /\ AddRunnable(c, job[c].task)
    /\ cur' = [cur EXCEPT ![c] = job[c].task]
    /\ pc' = [pc EXCEPT ![c] = "run"]
    /\ job' = [job EXCEPT ![c] = NoJob]
    /\ UNCHANGED <<rq, res, last, unborn, blocked, left>>

(* Nothing to fetch or to steal: scheduler_idle_prepare to _idle_exit.     *)
Idle(c) ==
    /\ pc[c] = "loop" /\ rq[c] = {}
    /\ pc' = [pc EXCEPT ![c] = "idle"]
    /\ UNCHANGED <<cur, job, rq, views, last, unborn, blocked, left>>

IdleExit(c) ==
    /\ pc[c] = "idle"
    /\ pc' = [pc EXCEPT ![c] = "loop"]
    /\ UNCHANGED <<cur, job, rq, views, last, unborn, blocked, left>>

(* clone and the start of the first task: enqueue_new_task.                *)
Spawn(c) ==
    /\ pc[c] = "run" \/ (c = 0 /\ pc[c] = "off" /\ unborn = Task)
    /\ \E t \in unborn :
        /\ unborn' = unborn \ {t}
        /\ Select(c, t, TRUE, c, c, pc[c])
    /\ UNCHANGED <<cur, rq, views, last, blocked>>

(* wake_up_task of a Blocked task, from a running task or from the run     *)
(* loop's wake_expired_sleep_tasks.                                        *)
Wake(c) ==
    /\ pc[c] \in {"run", "loop"}
    /\ \E t \in blocked :
        /\ blocked' = blocked \ {t}
        /\ Select(c, t, TRUE, c, last[t], pc[c])
    /\ UNCHANGED <<cur, rq, views, last, unborn>>

(* The running task gives the CPU up: add_task_into_pool.                  *)
Yield(c) ==
    /\ pc[c] = "run"
    /\ rq' = [rq EXCEPT ![c] = @ \cup {cur[c]}]
    /\ cur' = [cur EXCEPT ![c] = None]
    /\ pc' = [pc EXCEPT ![c] = "loop"]
    /\ UNCHANGED <<job, views, last, unborn, blocked, left>>

(* It blocked but a wakeup came first: enqueue_resumed_task.               *)
Resume(c) ==
    /\ pc[c] = "run"
    /\ \E source \in CPU : Select(c, cur[c], FALSE, source, c, "loop")
    /\ cur' = [cur EXCEPT ![c] = None]
    /\ UNCHANGED <<rq, views, last, unborn, blocked>>

(* It blocks, visible to wakers at once, or exits ...                      *)
Leave(c) ==
    /\ pc[c] = "run"
    /\ blocked' \in {blocked, blocked \cup {cur[c]}}
    /\ job' = [job EXCEPT ![c] = [NoJob EXCEPT !.task = cur[c]]]
    /\ cur' = [cur EXCEPT ![c] = None]
    /\ pc' = [pc EXCEPT ![c] = "stop"]
    /\ UNCHANGED <<rq, views, last, unborn, left>>

(* ... and its contribution goes: scheduler_task_stopped.                  *)
Stopped(c) ==
    /\ pc[c] = "stop"
    /\ RemoveRunnable(c, job[c].task)
    /\ Done(c)
    /\ UNCHANGED <<cur, rq, res, last, unborn, blocked, left>>

Next == \E c \in CPU :
    \/ Online(c) \/ Fetch(c) \/ Steal(c) \/ StealOut(c) \/ StealIn(c) \/ Idle(c) \/ IdleExit(c)
    \/ Spawn(c) \/ Wake(c) \/ Yield(c) \/ Resume(c) \/ Leave(c) \/ Stopped(c)
    \/ Scan(c) \/ NoCandidate(c) \/ Reserve(c) \/ ReserveFails(c)
    \/ Queue(c) \/ Publish(c) \/ Consume(c) \/ MoveOut(c) \/ MoveIn(c)

Spec == Init /\ [][Next]_vars

-----------------------------------------------------------------------------
(* Every variable has its type: the counters of RqView are naturals, and   *)
(* the chosen CPU of a placement exists (part of ReservationsExact).       *)
TypeOK ==
    /\ pc \in [CPU -> {"off", "loop", "run", "idle", "stop", "scan", "reserve", "queue", "publish",
                       "consume", "moveOut", "moveIn", "stealOut", "stealIn"}]
    /\ cur \in [CPU -> Task \cup {None}]
    /\ \A c \in CPU : job[c].task \in Task \cup {None} /\ job[c].to \in CPU /\ job[c].pref \in CPU
    /\ rq \in [CPU -> SUBSET Task]
    /\ count \in [CPU -> Nat] /\ weight \in [CPU -> Nat] /\ res \in [CPU -> Nat]
    /\ last \in [Task -> CPU]
    /\ unborn \subseteq Task /\ blocked \subseteq Task
    /\ left \in 0 .. Placements

(* The placements that hold a reservation on d: reserved by select_task_rq *)
(* and not yet given back by consume_wakeup_reservation.                   *)
Holders(d) == {c \in CPU : job[c].reserved /\ job[c].to = d /\ pc[c] \in {"queue", "publish", "consume"}}

(* Reservations do not leak and are not given back twice: whatever the     *)
(* selectors do, wake_reservations is the number of wakers on their way.   *)
ReservationsExact == TypeOK /\ \A d \in CPU : res[d] = Cardinality(Holders(d))

(* Tasks that are queued on or pulled to d but are not yet in its view:    *)
(* between the unlock in enqueue_task_on_cpu and add_runnable, or on the   *)
(* way of enqueue_resumed_task or steal_task_from_cpu.                     *)
Unpublished(d) == {c \in CPU : \/ pc[c] = "publish" /\ job[c].to = d
                               \/ /\ ~job[c].new /\ job[c].to = d /\ job[c].to # job[c].old
                                  /\ pc[c] \in {"consume", "moveOut", "moveIn"}}

(* The tasks that d has to run: queued, or the one it runs.                *)
Runnable(d) == Cardinality(rq[d]) + (IF cur[d] # None THEN 1 ELSE 0)

(* The view never hides work: the published count of a CPU, with the       *)
(* additions still on their way, covers the tasks it has to run.  So a CPU *)
(* that is published as empty is empty, and idle_tasks never passes over a *)
(* queue with work because its view says zero.                             *)
NeverHidden == \A d \in CPU : Runnable(d) <= count[d] + Cardinality(Unpublished(d))

(* The view that select_task_rq and idle_tasks read without a lock: its    *)
(* reservations are exact and its counts never hide a task, whichever      *)
(* steps of wakers, thieves and the CPUs themselves come in between.       *)
Placed == ReservationsExact /\ NeverHidden

=============================================================================
