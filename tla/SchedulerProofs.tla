-------------------------- MODULE SchedulerProofs --------------------------
(***************************************************************************)
(* The safety of the scheduler core for any number of CPUs and tasks.      *)
(* None of the properties is inductive: that a task has one home depends   *)
(* on what state its holder's program counter allows it to be in, and that *)
(* an enqueue is not refused depends on where on_rq tasks are.  IInv adds  *)
(* both.  First come the actions that move a task, then the others, then   *)
(* the theorems, most of them consequences of IInv.  That no wakeup is     *)
(* lost needs WakeInv as well: a task in BlockSaving whose event is posted *)
(* has wake_pending, or a waker on the way, or has still to take its last  *)
(* look.                                                                   *)
(***************************************************************************)
EXTENDS Scheduler, TLAPS

\* Program points inside wake_up_task or an enqueue; a running task can be there.
Sub == {"wake", "select", "enqueue", "enqueue_rq", "kick", "kick_check", "kick_send"}

\* The scheduler loop of c holds t between two of its places.
Owns(c, t) == pc[c] \in Holding /\ hand[c] = t

\* When a CPU has a current task and when it holds one.
Control ==
    \A c \in Cpu :
        /\ current[c] # None <=> pc[c] \in {"user", "recheck", "switch"} \/ back[c] = "user"
        /\ back[c] = "user" => pc[c] \in Sub
        /\ pc[c] \in Holding \cup {"wake"} => hand[c] # None

\* The state a CPU's current task is in, by program point.
CurrentState ==
    \A c \in Cpu : current[c] # None =>
        /\ pc[c] \in {"user"} \cup Sub => state[current[c]] = "Running"
        /\ pc[c] = "recheck" => state[current[c]] = "BlockSaving"
        /\ pc[c] = "switch" => state[current[c]] \in {"Ready", "BlockSaving", "Zombie"}

\* Queued tasks are Ready and know that they are queued.
QueueState == \A c \in Cpu : \A t \in rq[c] : state[t] = "Ready" /\ on_rq[t]

\* The state of a task a CPU holds, by program point.
HandState ==
    \A c \in Cpu :
        /\ pc[c] = "popped" => state[hand[c]] = "Ready"
        /\ pc[c] = "dispatch" => state[hand[c]] \in {"Ready", "Running"}
        /\ pc[c] = "commit" => state[hand[c]] \in {"Ready", "BlockSaving", "Zombie"}
        /\ pc[c] \in {"select", "enqueue", "enqueue_rq"} => state[hand[c]] = "Ready"

\* on_rq is cleared by whoever pops, before it lets the task go.
FlagState ==
    \A t \in Task : on_rq[t] =>
        \E c \in Cpu : t \in rq[c] \/ (pc[c] = "popped" /\ hand[c] = t)

\* No task is in two places.
Unique ==
    \A t \in Task : \A c, d \in Cpu :
        /\ current[c] = t /\ current[d] = t => c = d
        /\ t \in rq[c] /\ t \in rq[d] => c = d
        /\ Owns(c, t) /\ Owns(d, t) => c = d
        /\ ~(current[c] = t /\ t \in rq[d])
        /\ ~(current[c] = t /\ Owns(d, t))
        /\ ~(t \in rq[c] /\ Owns(d, t))

\* A task that is to run is somewhere.
Somewhere ==
    \A t \in Task : state[t] \in {"Ready", "Running", "BlockSaving"} =>
        \E c \in Cpu : current[c] = t \/ t \in rq[c] \/ Owns(c, t)

\* The inductive invariant.
IInv == /\ TypeOK /\ Control /\ CurrentState /\ QueueState /\ HandState /\ FlagState
        /\ Unique /\ Somewhere /\ OwnCpu

\* The boot state satisfies the invariant.
LEMMA InitOK == Init => IInv
<1> SUFFICES ASSUME Init PROVE IInv
  OBVIOUS
<1> USE NoneFresh, BootTasks DEF Init
<1>1. TypeOK
  BY DEF TypeOK, Status, PC
<1>2. Control
  BY DEF Control, Sub, Holding
<1>3. CurrentState /\ HandState
  BY DEF CurrentState, HandState
<1>7. QueueState /\ FlagState
  BY DEF QueueState, FlagState
<1>4. Unique
  BY DEF Unique, Owns, Holding
<1>5. Somewhere
  BY DEF Somewhere, Owns, Holding
<1>6. OwnCpu
  BY DEF OwnCpu
<1> QED BY <1>1, <1>2, <1>3, <1>4, <1>5, <1>6, <1>7 DEF IInv

\* A task that was never spawned or is Blocked is nowhere, so whoever makes it
\* Ready is its only holder.
LEMMA Homeless ==
    ASSUME IInv, NEW t \in Task, state[t] \in {"UnInit", "Blocked"}, NEW d \in Cpu
    PROVE  current[d] # t /\ t \notin rq[d] /\ ~Owns(d, t)
<1>1. t \notin rq[d]
  BY DEF IInv, QueueState
<1>2. ~Owns(d, t)
  BY DEF IInv, HandState, Owns, Holding
<1>3. current[d] # t
  BY NoneFresh DEF IInv, CurrentState, Control, Sub
<1> QED BY <1>1, <1>2, <1>3

\* A step of c that moves no task and changes no state: kicks and idling.
Quiet(c) ==
    /\ UNCHANGED <<state, on_rq, cpu, rq, current>>
    /\ \A d \in Cpu \ {c} : pc'[d] = pc[d] /\ hand'[d] = hand[d]
    /\ pc[c] \notin Holding /\ pc'[c] \notin Holding
    /\ current[c] # None => pc'[c] \in {"user"} \cup Sub /\ pc[c] \in {"user"} \cup Sub

\* Such a step preserves everything said about tasks.
LEMMA QuietStep ==
    ASSUME IInv, NEW c \in Cpu, Quiet(c)
    PROVE  /\ CurrentState' /\ QueueState' /\ HandState' /\ FlagState'
           /\ Unique' /\ Somewhere' /\ OwnCpu'
<1> USE DEF IInv, Quiet
<1>1. CurrentState'
  <2> SUFFICES ASSUME NEW d \in Cpu, current[d] # None
               PROVE  /\ pc'[d] \in {"user"} \cup Sub => state[current[d]] = "Running"
                      /\ pc'[d] = "recheck" => state[current[d]] = "BlockSaving"
                      /\ pc'[d] = "switch" => state[current[d]] \in {"Ready", "BlockSaving", "Zombie"}
    BY DEF CurrentState
  <2>1. CASE d = c
    BY <2>1 DEF CurrentState, Sub
  <2>2. CASE d # c
    BY <2>2 DEF CurrentState
  <2> QED BY <2>1, <2>2
<1>2. QueueState'
  BY DEF QueueState
<1>3. \A d \in Cpu, t \in Task : Owns(d, t)' <=> Owns(d, t)
  BY DEF Owns
<1>4. HandState'
  BY DEF HandState, Holding
<1>5. FlagState'
  BY DEF FlagState, Holding
<1>6. Unique'
  BY <1>3 DEF Unique
<1>7. Somewhere'
  BY <1>3 DEF Somewhere
<1>8. OwnCpu'
  BY DEF OwnCpu, Holding
<1> QED BY <1>1, <1>2, <1>4, <1>5, <1>6, <1>7, <1>8

\* A step by which the task running on c changes its own state and nothing else.
OwnStep(c, s, l) ==
    /\ current[c] # None /\ pc[c] \in {"user", "recheck"}
    /\ state' = [state EXCEPT ![current[c]] = s]
    /\ pc' = [pc EXCEPT ![c] = l]
    /\ UNCHANGED <<on_rq, cpu, rq, current, hand>>
    /\ \/ l = "user" /\ s = "Running"
       \/ l = "recheck" /\ s = "BlockSaving"
       \/ l = "switch" /\ s \in {"Ready", "BlockSaving", "Zombie"}

\* Such a step preserves everything said about tasks.
LEMMA OwnStepKeeps ==
    ASSUME IInv, NEW c \in Cpu, NEW s, NEW l, OwnStep(c, s, l)
    PROVE  /\ CurrentState' /\ QueueState' /\ HandState' /\ FlagState'
           /\ Unique' /\ Somewhere' /\ OwnCpu'
<1> DEFINE t == current[c]
<1> USE DEF IInv
<1>1. t \in Task /\ t # None
  BY NoneFresh DEF TypeOK, OwnStep
<1>2. pc[c] \notin Holding /\ pc'[c] \notin Holding /\ pc[c] # "popped" /\ pc'[c] = l
  BY DEF OwnStep, Holding, TypeOK
<1>3. \A d \in Cpu : d # c => current[d] # t /\ pc'[d] = pc[d]
  BY <1>1 DEF Unique, OwnStep, TypeOK
<1>4. \A d \in Cpu, u \in Task : Owns(d, u)' <=> Owns(d, u)
  BY <1>2, <1>3 DEF Owns, OwnStep
<1>5. \A d \in Cpu : t \notin rq[d] /\ ~Owns(d, t)
  BY <1>1 DEF Unique
<1>6. state'[t] = s /\ \A u \in Task : u # t => state'[u] = state[u]
  BY <1>1 DEF OwnStep, TypeOK
<1> USE DEF OwnStep
<1>7. CurrentState'
  <2> SUFFICES ASSUME NEW d \in Cpu, current[d] # None
               PROVE  /\ pc'[d] \in {"user"} \cup Sub => state'[current[d]] = "Running"
                      /\ pc'[d] = "recheck" => state'[current[d]] = "BlockSaving"
                      /\ pc'[d] = "switch" => state'[current[d]] \in {"Ready", "BlockSaving", "Zombie"}
    BY DEF CurrentState
  <2>1. CASE d = c
    BY <1>2, <1>6, <2>1 DEF Sub
  <2>2. CASE d # c
    BY <1>3, <1>6, <2>2 DEF CurrentState, TypeOK
  <2> QED BY <2>1, <2>2
<1>8. QueueState'
  BY <1>5, <1>6 DEF QueueState, TypeOK
<1>9. HandState'
  <2> SUFFICES ASSUME NEW d \in Cpu, d # c
               PROVE  /\ pc[d] = "popped" => state'[hand[d]] = "Ready"
                      /\ pc[d] = "dispatch" => state'[hand[d]] \in {"Ready", "Running"}
                      /\ pc[d] = "commit" => state'[hand[d]] \in {"Ready", "BlockSaving", "Zombie"}
                      /\ pc[d] \in {"select", "enqueue", "enqueue_rq"} => state'[hand[d]] = "Ready"
    BY <1>2, <1>3 DEF HandState, Holding
  <2>1. pc[d] \in Holding => hand[d] \in Task /\ hand[d] # t
    BY <1>5 DEF Owns, Control, TypeOK
  <2> QED BY <2>1, <1>6 DEF HandState, Holding
<1>10. FlagState'
  BY <1>2, <1>3 DEF FlagState
<1>11. Unique'
  BY <1>4 DEF Unique
<1>12. Somewhere'
  <2> SUFFICES ASSUME NEW u \in Task, state'[u] \in {"Ready", "Running", "BlockSaving"}
               PROVE  \E d \in Cpu : current[d] = u \/ u \in rq[d] \/ Owns(d, u)
    BY <1>4 DEF Somewhere
  <2>1. CASE u = t
    BY <2>1
  <2>2. CASE u # t
    BY <1>6, <2>2 DEF Somewhere
  <2> QED BY <2>1, <2>2
<1>13. OwnCpu'
  BY <1>2, <1>3 DEF OwnCpu, Holding
<1> QED BY <1>7, <1>8, <1>9, <1>10, <1>11, <1>12, <1>13

\* What fetch_task does when the popped task is not dead ...
FetchCommitEff(c) ==
    /\ hand[c] \in Task /\ pc[c] = "popped" /\ state[hand[c]] = "Ready"
    /\ pc' = [pc EXCEPT ![c] = "dispatch"]
    /\ on_rq' = [on_rq EXCEPT ![hand[c]] = FALSE]
    /\ cpu' = [cpu EXCEPT ![hand[c]] = c]
    /\ state' = [state EXCEPT ![hand[c]] = "Running"]
    /\ UNCHANGED <<wake_pending, event, qvars, ivars, hand, dest, back>>

\* ... what a successful steal does ...
StealEff(c, r, t) ==
    /\ pc[c] = "steal" /\ r # c /\ t \in rq[r] /\ state[t] = "Ready"
    /\ pc' = [pc EXCEPT ![c] = "dispatch"]
    /\ rq' = [rq EXCEPT ![r] = @ \ {t}]
    /\ on_rq' = [on_rq EXCEPT ![t] = FALSE]
    /\ cpu' = [cpu EXCEPT ![t] = c]
    /\ hand' = [hand EXCEPT ![c] = t]
    /\ UNCHANGED <<state, wake_pending, event, current, ivars, dest, back>>

\* ... and an enqueue, first under the task's lock ...
EnqueueEff(c) ==
    /\ hand[c] \in Task /\ pc[c] = "enqueue" /\ state[hand[c]] = "Ready"
    /\ pc' = [pc EXCEPT ![c] = "enqueue_rq"]
    /\ cpu' = [cpu EXCEPT ![hand[c]] = dest[c]]
    /\ UNCHANGED <<state, wake_pending, on_rq, event, qvars, ivars, hand, dest, back>>

\* ... then under the run queue lock.
EnqueueRqEff(c) ==
    /\ hand[c] \in Task /\ pc[c] = "enqueue_rq" /\ state[hand[c]] = "Ready"
    /\ ~on_rq[hand[c]]
    /\ pc' = [pc EXCEPT ![c] = "kick"]
    /\ rq' = [rq EXCEPT ![dest[c]] = @ \cup {hand[c]}]
    /\ on_rq' = [on_rq EXCEPT ![hand[c]] = TRUE]
    /\ hand' = [hand EXCEPT ![c] = None]
    /\ UNCHANGED <<state, wake_pending, cpu, event, current, ivars, dest, back>>

\* fetch_task never drops a task: the popped one is Ready.
LEMMA FetchCommitLive ==
    ASSUME IInv, NEW c \in Cpu, FetchCommit(c)
    PROVE  FetchCommitEff(c)
<1>1. pc[c] = "popped" /\ hand[c] \in Task /\ state[hand[c]] = "Ready"
  BY DEF FetchCommit, IInv, TypeOK, Control, HandState, Holding
<1> QED BY <1>1 DEF FetchCommit, FetchCommitEff, Goto, Set

\* A steal never drops a task either.
LEMMA StealLive ==
    ASSUME IInv, NEW c \in Cpu, NEW r \in Cpu, NEW t \in Task, Steal(c, r, t)
    PROVE  StealEff(c, r, t)
<1>1. pc[c] = "steal" /\ r # c /\ t \in rq[r] /\ state[t] = "Ready"
  BY DEF Steal, IInv, QueueState
<1> QED BY <1>1 DEF Steal, StealEff, Goto, Set

\* enqueue_task_on_cpu is never given a dead task.
LEMMA EnqueueLive ==
    ASSUME IInv, NEW c \in Cpu, Enqueue(c)
    PROVE  EnqueueEff(c)
<1>1. pc[c] = "enqueue" /\ hand[c] \in Task /\ state[hand[c]] = "Ready"
  BY DEF Enqueue, IInv, TypeOK, Control, HandState, Holding
<1>2. [state EXCEPT ![hand[c]] = "Ready"] = state
  BY <1>1 DEF IInv, TypeOK
<1> QED BY <1>1, <1>2 DEF Enqueue, EnqueueEff, Goto, Set

\* Rqinner::enqueue_task never refuses.
LEMMA EnqueueRqLive ==
    ASSUME IInv, NEW c \in Cpu, EnqueueRq(c)
    PROVE  EnqueueRqEff(c)
<1>1. pc[c] = "enqueue_rq" /\ hand[c] \in Task /\ state[hand[c]] = "Ready"
  BY DEF EnqueueRq, IInv, TypeOK, Control, HandState, Holding
<1>2. ~on_rq[hand[c]]
  BY <1>1 DEF IInv, FlagState, Unique, Owns, Holding
<1> QED BY <1>1, <1>2 DEF EnqueueRq, EnqueueRqEff, Goto, Set

-----------------------------------------------------------------------------
(* The actions that move a task: each preserves the invariant.              *)

\* The task a CPU has in its hands or runs is a real one.
LEMMA HandsFull ==
    ASSUME IInv, NEW c \in Cpu
    PROVE  /\ pc[c] \in Holding \cup {"wake"} => hand[c] \in Task
           /\ pc[c] \in {"user", "recheck", "switch"} => current[c] \in Task
           /\ pc[c] \notin {"user", "recheck", "switch"} \cup Sub => current[c] = None
BY NoneFresh DEF IInv, TypeOK, Control

\* Fetch_task's pop preserves IInv.
LEMMA FetchKeeps ==
    ASSUME IInv, NEW c \in Cpu, NEW t \in Task, Fetch(c, t)
    PROVE  IInv'
<1> USE NoneFresh DEF tvars, qvars, ivars, lvars, Goto, Set, Return
<1> USE DEF IInv, TypeOK
<1>1. TypeOK'
  BY DEF Fetch, Status, PC
<1>2. Control'
  BY DEF Fetch, Control, Holding, Sub
<1>3. CurrentState'
  BY DEF Fetch, CurrentState, Sub
<1>4. QueueState'
  BY DEF Fetch, QueueState
<1>5. HandState'
  BY DEF Fetch, HandState, QueueState
<1>6. FlagState'
  BY DEF Fetch, FlagState
<1>7. Unique'
  BY DEF Fetch, Unique, Owns, Holding
<1>8. Somewhere'
  BY DEF Fetch, Somewhere, Owns, Holding
<1>9. OwnCpu'
  BY DEF Fetch, OwnCpu
<1> QED BY <1>1, <1>2, <1>3, <1>4, <1>5, <1>6, <1>7, <1>8, <1>9

\* Fetch_task's update of the popped task preserves IInv.
LEMMA FetchCommitKeeps ==
    ASSUME IInv, NEW c \in Cpu, FetchCommit(c)
    PROVE  IInv'
<1> USE NoneFresh DEF tvars, qvars, ivars, lvars, Goto, Set, Return
<1> FetchCommitEff(c)
  BY FetchCommitLive
<1> USE DEF IInv, TypeOK
<1>1. TypeOK'
  BY DEF FetchCommitEff, Status, PC
<1>2. Control'
  BY DEF FetchCommitEff, Control, Holding, Sub
<1>3. CurrentState'
  BY DEF FetchCommitEff, Control, CurrentState, Unique, Owns, Holding, Sub
<1>4. QueueState'
  BY DEF FetchCommitEff, QueueState, Unique, Owns, Holding
<1>5. HandState'
  BY DEF FetchCommitEff, HandState, Unique, Owns, Holding
<1>6. FlagState'
  BY DEF FetchCommitEff, FlagState
<1>7. Unique'
  BY DEF FetchCommitEff, Unique, Owns, Holding
<1>8. Somewhere'
  BY DEF FetchCommitEff, Somewhere, Owns, Holding
<1>9. OwnCpu'
  BY DEF FetchCommitEff, OwnCpu, Unique, Control, Owns, Holding
<1> QED BY <1>1, <1>2, <1>3, <1>4, <1>5, <1>6, <1>7, <1>8, <1>9

\* A steal preserves IInv.
LEMMA StealKeeps ==
    ASSUME IInv, NEW c \in Cpu, NEW r \in Cpu, NEW t \in Task, Steal(c, r, t)
    PROVE  IInv'
<1> USE NoneFresh DEF tvars, qvars, ivars, lvars, Goto, Set, Return
<1> StealEff(c, r, t)
  BY StealLive
<1> USE DEF IInv, TypeOK
<1>1. TypeOK'
  BY DEF StealEff, Status, PC
<1>2. Control'
  BY DEF StealEff, Control, Holding, Sub
<1>3. CurrentState'
  BY DEF StealEff, CurrentState, Sub
<1>4. QueueState'
  BY DEF StealEff, QueueState, Unique, Owns, Holding
<1>5. HandState'
  BY DEF StealEff, HandState
<1>6. FlagState'
  <2> SUFFICES ASSUME NEW x \in Task, on_rq'[x]
               PROVE  \E d \in Cpu : x \in rq'[d] \/ (pc'[d] = "popped" /\ hand'[d] = x)
    BY DEF FlagState
  <2>1. x # t /\ on_rq[x]
    BY DEF StealEff
  <2>2. PICK d \in Cpu : x \in rq[d] \/ (pc[d] = "popped" /\ hand[d] = x)
    BY <2>1 DEF FlagState
  <2> QED BY <2>1, <2>2 DEF StealEff
<1>7. Unique'
  BY DEF StealEff, Unique, Owns, Holding
<1>8. Somewhere'
  BY DEF StealEff, Somewhere, Owns, Holding
<1>9. OwnCpu'
  BY DEF StealEff, OwnCpu, Unique, Control, Owns, Holding
<1> QED BY <1>1, <1>2, <1>3, <1>4, <1>5, <1>6, <1>7, <1>8, <1>9

\* The dispatch of a task preserves IInv.
LEMMA DispatchKeeps ==
    ASSUME IInv, NEW c \in Cpu, Dispatch(c)
    PROVE  IInv'
<1> USE NoneFresh DEF tvars, qvars, ivars, lvars, Goto, Set, Return
<1>0. hand[c] \in Task
  BY HandsFull DEF Dispatch, Holding
<1> USE DEF IInv, TypeOK
<1>1. TypeOK'
  BY <1>0 DEF Dispatch, Status, PC
<1>2. Control'
  BY DEF Dispatch, Control, Holding, Sub
<1>3. CurrentState'
  BY DEF Dispatch, Control, CurrentState, Unique, Owns, Holding, Sub
<1>4. QueueState'
  BY DEF Dispatch, QueueState, Unique, Owns, Holding
<1>5. HandState'
  BY DEF Dispatch, HandState, Unique, Owns, Holding
<1>6. FlagState'
  BY DEF Dispatch, FlagState
<1>7. Unique'
  BY DEF Dispatch, Unique, Owns, Holding
<1>8. Somewhere'
  <2> SUFFICES ASSUME NEW x \in Task, state'[x] \in {"Ready", "Running", "BlockSaving"}
               PROVE  \E d \in Cpu : current'[d] = x \/ x \in rq'[d] \/ Owns(d, x)'
    BY DEF Somewhere
  <2>1. CASE x = hand[c]
    BY <2>1 DEF Dispatch
  <2>2. CASE x # hand[c]
    <3>1. PICK d \in Cpu : current[d] = x \/ x \in rq[d] \/ Owns(d, x)
      BY <2>2 DEF Somewhere, Dispatch
    <3>2. current[c] = None
      BY HandsFull DEF Dispatch, Sub
    <3> QED BY <2>2, <3>1, <3>2 DEF Dispatch, Owns
  <2> QED BY <2>1, <2>2
<1>9. OwnCpu'
  BY DEF Dispatch, OwnCpu, Unique, Control, Owns, Holding
<1> QED BY <1>1, <1>2, <1>3, <1>4, <1>5, <1>6, <1>7, <1>8, <1>9

\* The switch back to the scheduler loop preserves IInv.
LEMMA SwitchBackKeeps ==
    ASSUME IInv, NEW c \in Cpu, SwitchBack(c)
    PROVE  IInv'
<1> USE NoneFresh DEF tvars, qvars, ivars, lvars, Goto, Set, Return
<1>0. current[c] \in Task
  BY HandsFull DEF SwitchBack
<1> USE DEF IInv, TypeOK
<1>1. TypeOK'
  BY <1>0 DEF SwitchBack, Status, PC
<1>2. Control'
  BY DEF SwitchBack, Control, Holding, Sub
<1>3. CurrentState'
  BY DEF SwitchBack, CurrentState, Sub
<1>4. QueueState'
  BY DEF SwitchBack, QueueState
<1>5. HandState'
  BY DEF SwitchBack, Control, CurrentState, QueueState, HandState, Unique, Owns, Holding
<1>6. FlagState'
  BY DEF SwitchBack, FlagState
<1>7. Unique'
  BY DEF SwitchBack, Unique, Owns, Holding
<1>8. Somewhere'
  BY DEF SwitchBack, Somewhere, Owns, Holding
<1>9. OwnCpu'
  BY DEF SwitchBack, OwnCpu, Control, Sub
<1> QED BY <1>1, <1>2, <1>3, <1>4, <1>5, <1>6, <1>7, <1>8, <1>9

\* The commit of a task woken while it saved its context preserves IInv.
LEMMA CommitResumedKeeps ==
    ASSUME IInv, NEW c \in Cpu, CommitResumed(c)
    PROVE  IInv'
<1> USE NoneFresh DEF tvars, qvars, ivars, lvars, Goto, Set, Return
<1>0. hand[c] \in Task
  BY HandsFull DEF CommitResumed, Holding
<1> USE DEF IInv, TypeOK
<1>1. TypeOK'
  BY <1>0 DEF CommitResumed, Status, PC
<1>2. Control'
  BY DEF CommitResumed, Control, Holding, Sub
<1>3. CurrentState'
  BY DEF CommitResumed, Control, CurrentState, Unique, Owns, Holding, Sub
<1>4. QueueState'
  BY DEF CommitResumed, QueueState
<1>5. HandState'
  BY DEF CommitResumed, HandState, Control, Unique, Owns, Holding
<1>6. FlagState'
  BY DEF CommitResumed, FlagState
<1>7. Unique'
  BY DEF CommitResumed, Unique, Owns, Holding
<1>8. Somewhere'
  BY DEF CommitResumed, Somewhere, Owns, Holding
<1>9. OwnCpu'
  BY DEF CommitResumed, OwnCpu
<1> QED BY <1>1, <1>2, <1>3, <1>4, <1>5, <1>6, <1>7, <1>8, <1>9

\* The commit of a sleeper preserves IInv.
LEMMA CommitBlockedKeeps ==
    ASSUME IInv, NEW c \in Cpu, CommitBlocked(c)
    PROVE  IInv'
<1> USE NoneFresh DEF tvars, qvars, ivars, lvars, Goto, Set, Return
<1>0. hand[c] \in Task
  BY HandsFull DEF CommitBlocked, Holding
<1> USE DEF IInv, TypeOK
<1>1. TypeOK'
  BY <1>0 DEF CommitBlocked, Status, PC
<1>2. Control'
  BY DEF CommitBlocked, Control, Holding, Sub
<1>3. CurrentState'
  BY DEF CommitBlocked, Control, CurrentState, Unique, Owns, Holding, Sub
<1>4. QueueState'
  BY DEF CommitBlocked, QueueState
<1>5. HandState'
  BY DEF CommitBlocked, Control, CurrentState, QueueState, HandState, Unique, Owns, Holding
<1>6. FlagState'
  BY DEF CommitBlocked, FlagState
<1>7. Unique'
  BY DEF CommitBlocked, Unique, Owns, Holding
<1>8. Somewhere'
  BY DEF CommitBlocked, Somewhere, Owns, Holding
<1>9. OwnCpu'
  BY SMTT(30) DEF CommitBlocked, OwnCpu
<1> QED BY <1>1, <1>2, <1>3, <1>4, <1>5, <1>6, <1>7, <1>8, <1>9

\* The commit of a yielding task preserves IInv.
LEMMA CommitReadyKeeps ==
    ASSUME IInv, NEW c \in Cpu, CommitReady(c)
    PROVE  IInv'
<1> USE NoneFresh DEF tvars, qvars, ivars, lvars, Goto, Set, Return
<1>0. hand[c] \in Task
  BY HandsFull DEF CommitReady, Holding
<1> USE DEF IInv, TypeOK
<1>1. TypeOK'
  BY <1>0 DEF CommitReady, TypeOK, Status, PC, Control, Holding
<1>2. Control'
  BY DEF CommitReady, Control, Holding, Sub
<1>3. CurrentState'
  BY DEF CommitReady, Control, CurrentState, Sub
<1>4. QueueState'
  BY DEF CommitReady, QueueState
<1>5. HandState'
  BY DEF CommitReady, HandState
<1>6. FlagState'
  BY DEF CommitReady, FlagState
<1>7. Unique'
  BY DEF CommitReady, Unique, Owns, Holding
<1>8. Somewhere'
  BY DEF CommitReady, Somewhere, Owns, Holding
<1>9. OwnCpu'
  BY SMTT(30) DEF CommitReady, OwnCpu
<1> QED BY <1>1, <1>2, <1>3, <1>4, <1>5, <1>6, <1>7, <1>8, <1>9

\* The commit of a dead task preserves IInv.
LEMMA CommitDeadKeeps ==
    ASSUME IInv, NEW c \in Cpu, CommitDead(c)
    PROVE  IInv'
<1> USE NoneFresh DEF tvars, qvars, ivars, lvars, Goto, Set, Return
<1>0. hand[c] \in Task
  BY HandsFull DEF CommitDead, Holding
<1> USE DEF IInv, TypeOK
<1>1. TypeOK'
  BY <1>0 DEF CommitDead, Status, PC
<1>2. Control'
  BY DEF CommitDead, Control, Holding, Sub
<1>3. CurrentState'
  BY DEF CommitDead, Control, CurrentState, Sub
<1>4. QueueState'
  BY DEF CommitDead, QueueState
<1>5. HandState'
  BY DEF CommitDead, HandState
<1>6. FlagState'
  BY DEF CommitDead, FlagState
<1>7. Unique'
  <2>1. \A d \in Cpu, x \in Task : Owns(d, x)' => Owns(d, x)
    BY DEF CommitDead, Owns, Holding
  <2> QED BY <2>1 DEF CommitDead, Unique
<1>8. Somewhere'
  BY DEF CommitDead, Control, CurrentState, HandState, Somewhere, Owns, Holding, Sub
<1>9. OwnCpu'
  BY SMTT(30) DEF CommitDead, Control, OwnCpu, Sub
<1> QED BY <1>1, <1>2, <1>3, <1>4, <1>5, <1>6, <1>7, <1>8, <1>9

\* Wake_up_task on a sleeper preserves IInv.
LEMMA WakeBlockedKeeps ==
    ASSUME IInv, NEW c \in Cpu, WakeBlocked(c)
    PROVE  IInv'
<1> USE NoneFresh DEF tvars, qvars, ivars, lvars, Goto, Set, Return
<1>0. hand[c] \in Task
  BY HandsFull DEF WakeBlocked, Holding
<1> USE DEF IInv, TypeOK
<1>1. TypeOK'
  BY <1>0 DEF WakeBlocked, Status, PC
<1>2. Control'
  BY DEF WakeBlocked, Control, Holding, Sub
<1>3. CurrentState'
  BY DEF WakeBlocked, CurrentState, Sub
<1>4. QueueState'
  BY DEF WakeBlocked, QueueState
<1>5. HandState'
  BY DEF WakeBlocked, HandState, Control, Unique, Owns, Holding
<1>6. FlagState'
  BY DEF WakeBlocked, FlagState
<1>7. Unique'
  <2>1. hand[c] \in Task /\ \A d \in Cpu : current[d] # hand[c] /\ hand[c] \notin rq[d] /\ ~Owns(d, hand[c])
    BY Homeless DEF WakeBlocked, Control
  <2> QED BY <2>1 DEF WakeBlocked, Unique, Owns, Holding
<1>8. Somewhere'
  BY DEF WakeBlocked, Somewhere, Owns, Holding
<1>9. OwnCpu'
  BY DEF WakeBlocked, OwnCpu
<1> QED BY <1>1, <1>2, <1>3, <1>4, <1>5, <1>6, <1>7, <1>8, <1>9

\* Select_task_rq preserves IInv.
LEMMA SelectKeeps ==
    ASSUME IInv, NEW c \in Cpu, NEW d \in Cpu, Select(c, d)
    PROVE  IInv'
<1> USE NoneFresh DEF tvars, qvars, ivars, lvars, Goto, Set, Return
<1> USE DEF IInv, TypeOK
<1>1. TypeOK'
  BY DEF Select, Status, PC
<1>2. Control'
  BY DEF Select, Control, Holding, Sub
<1>3. CurrentState'
  BY DEF Select, CurrentState, Sub
<1>4. QueueState'
  BY DEF Select, QueueState
<1>5. HandState'
  BY DEF Select, HandState
<1>6. FlagState'
  BY DEF Select, FlagState
<1>7. Unique'
  BY DEF Select, Unique, Owns, Holding
<1>8. Somewhere'
  BY DEF Select, Somewhere, Owns, Holding
<1>9. OwnCpu'
  BY DEF Select, OwnCpu
<1> QED BY <1>1, <1>2, <1>3, <1>4, <1>5, <1>6, <1>7, <1>8, <1>9

\* An enqueue's update of the task preserves IInv.
LEMMA EnqueueKeeps ==
    ASSUME IInv, NEW c \in Cpu, Enqueue(c)
    PROVE  IInv'
<1> USE NoneFresh DEF tvars, qvars, ivars, lvars, Goto, Set, Return
<1> EnqueueEff(c)
  BY EnqueueLive
<1> USE DEF IInv, TypeOK
<1>1. TypeOK'
  BY DEF EnqueueEff, Status, PC
<1>2. Control'
  BY DEF EnqueueEff, Control, Holding, Sub
<1>3. CurrentState'
  BY DEF EnqueueEff, CurrentState, Sub
<1>4. QueueState'
  BY DEF EnqueueEff, QueueState
<1>5. HandState'
  BY DEF EnqueueEff, HandState
<1>6. FlagState'
  BY DEF EnqueueEff, FlagState
<1>7. Unique'
  BY DEF EnqueueEff, Unique, Owns, Holding
<1>8. Somewhere'
  BY DEF EnqueueEff, Somewhere, Owns, Holding
<1>9. OwnCpu'
  BY DEF EnqueueEff, OwnCpu, Unique, Control, Owns, Holding
<1> QED BY <1>1, <1>2, <1>3, <1>4, <1>5, <1>6, <1>7, <1>8, <1>9

\* The insertion into the run queue preserves IInv.
LEMMA EnqueueRqKeeps ==
    ASSUME IInv, NEW c \in Cpu, EnqueueRq(c)
    PROVE  IInv'
<1> USE NoneFresh DEF tvars, qvars, ivars, lvars, Goto, Set, Return
<1> EnqueueRqEff(c)
  BY EnqueueRqLive
<1> USE DEF IInv, TypeOK
<1>1. TypeOK'
  BY DEF EnqueueRqEff, Status, PC
<1>2. Control'
  BY DEF EnqueueRqEff, Control, Holding, Sub
<1>3. CurrentState'
  BY DEF EnqueueRqEff, CurrentState, Sub
<1>4. QueueState'
  BY DEF EnqueueRqEff, QueueState
<1>5. HandState'
  BY SMTT(30) DEF EnqueueRqEff, HandState
<1>6. FlagState'
  <2> SUFFICES ASSUME NEW x \in Task, on_rq'[x]
               PROVE  \E d \in Cpu : x \in rq'[d] \/ (pc'[d] = "popped" /\ hand'[d] = x)
    BY DEF FlagState
  <2>1. CASE x = hand[c]
    BY <2>1 DEF EnqueueRqEff
  <2>2. CASE x # hand[c]
    <3>1. PICK d \in Cpu : x \in rq[d] \/ (pc[d] = "popped" /\ hand[d] = x)
      BY <2>2 DEF FlagState, EnqueueRqEff
    <3> QED BY <3>1 DEF EnqueueRqEff
  <2> QED BY <2>1, <2>2
<1>7. Unique'
  BY DEF EnqueueRqEff, Unique, Owns, Holding
<1>8. Somewhere'
  BY DEF EnqueueRqEff, Somewhere, Owns, Holding
<1>9. OwnCpu'
  BY DEF EnqueueRqEff, OwnCpu
<1> QED BY <1>1, <1>2, <1>3, <1>4, <1>5, <1>6, <1>7, <1>8, <1>9

\* A clone preserves IInv.
LEMMA SpawnKeeps ==
    ASSUME IInv, NEW c \in Cpu, NEW u \in Task, Spawn(c, u)
    PROVE  IInv'
<1> USE NoneFresh DEF tvars, qvars, ivars, lvars, Goto, Set, Return
<1> USE DEF IInv, TypeOK
<1>1. TypeOK'
  BY DEF Spawn, Status, PC
<1>2. Control'
  BY DEF Spawn, Control, Holding, Sub
<1>3. CurrentState'
  BY DEF Spawn, CurrentState, Sub
<1>4. QueueState'
  BY DEF Spawn, QueueState
<1>5. HandState'
  BY DEF Spawn, HandState
<1>6. FlagState'
  BY SMTT(30) DEF Spawn, FlagState
<1>7. Unique'
  <2>1. \A d \in Cpu : current[d] # u /\ u \notin rq[d] /\ ~Owns(d, u)
    BY Homeless DEF Spawn
  <2> QED BY <2>1 DEF Spawn, Unique, Owns, Holding
<1>8. Somewhere'
  BY DEF Spawn, Somewhere, Owns, Holding
<1>9. OwnCpu'
  <2>1. \A d \in Cpu : current[d] # u /\ u \notin rq[d] /\ ~Owns(d, u)
    BY Homeless DEF Spawn
  <2> QED BY <2>1 DEF Spawn, OwnCpu, Owns, Holding
<1> QED BY <1>1, <1>2, <1>3, <1>4, <1>5, <1>6, <1>7, <1>8, <1>9

-----------------------------------------------------------------------------
(* The actions that move no task: each preserves the invariant.             *)

\* An empty queue preserves IInv.
LEMMA FetchNoneKeeps ==
    ASSUME IInv, NEW c \in Cpu, FetchNone(c)
    PROVE  IInv'
<1> USE NoneFresh DEF tvars, qvars, ivars, lvars, Goto, Set, Return, IInv, TypeOK
<1>0. current[c] = None
  BY HandsFull DEF FetchNone, Sub
<1>1. TypeOK'
  BY <1>0 DEF FetchNone, Status, PC
<1>2. Control' /\ Quiet(c)
  BY <1>0 DEF FetchNone, Control, Quiet, Holding, Sub
<1> QED BY <1>1, <1>2, QuietStep

\* A steal that finds nothing preserves IInv.
LEMMA StealNoneKeeps ==
    ASSUME IInv, NEW c \in Cpu, StealNone(c)
    PROVE  IInv'
<1> USE NoneFresh DEF tvars, qvars, ivars, lvars, Goto, Set, Return, IInv, TypeOK
<1>0. current[c] = None
  BY HandsFull DEF StealNone, Sub
<1>1. TypeOK'
  BY <1>0 DEF StealNone, Status, PC
<1>2. Control' /\ Quiet(c)
  BY <1>0 DEF StealNone, Control, Quiet, Holding, Sub
<1> QED BY <1>1, <1>2, QuietStep

\* A second look that finds the condition true preserves IInv.
LEMMA PollReadyKeeps ==
    ASSUME IInv, NEW c \in Cpu, PollReady(c)
    PROVE  IInv'
<1> USE NoneFresh DEF tvars, qvars, ivars, lvars, Goto, Set, Return, IInv, TypeOK
<1>0. current[c] \in Task
  BY HandsFull DEF PollReady
<1>1. TypeOK'
  BY <1>0 DEF PollReady, Status, PC
<1>2. Control' /\ OwnStep(c, "Running", "user")
  BY <1>0 DEF PollReady, Control, OwnStep, CurrentState, Holding, Sub
<1> QED BY <1>1, <1>2, OwnStepKeeps

\* A second look that finds it false preserves IInv.
LEMMA PollSleepKeeps ==
    ASSUME IInv, NEW c \in Cpu, PollSleep(c)
    PROVE  IInv'
<1> USE NoneFresh DEF tvars, qvars, ivars, lvars, Goto, Set, Return, IInv, TypeOK
<1>0. current[c] \in Task
  BY HandsFull DEF PollSleep
<1>1. TypeOK'
  BY <1>0 DEF PollSleep, Status, PC
<1>2. Control' /\ OwnStep(c, "BlockSaving", "switch")
  BY <1>0 DEF PollSleep, Control, OwnStep, CurrentState, Holding, Sub
<1> QED BY <1>1, <1>2, OwnStepKeeps

\* Wake_up_task on any other task preserves IInv.
LEMMA WakeOtherKeeps ==
    ASSUME IInv, NEW c \in Cpu, WakeOther(c)
    PROVE  IInv'
<1> USE NoneFresh DEF tvars, qvars, ivars, lvars, Goto, Set, Return, IInv, TypeOK
<1>0. hand[c] \in Task
  BY HandsFull DEF WakeOther, Holding
<1>1. TypeOK'
  BY <1>0 DEF WakeOther, Status, PC
<1>2. Control' /\ Quiet(c)
  BY <1>0 DEF WakeOther, Control, Quiet, Holding, Sub
<1> QED BY <1>1, <1>2, QuietStep

\* A kick of the CPU itself preserves IInv.
LEMMA KickLocalKeeps ==
    ASSUME IInv, NEW c \in Cpu, KickLocal(c)
    PROVE  IInv'
<1> USE NoneFresh DEF tvars, qvars, ivars, lvars, Goto, Set, Return, IInv, TypeOK
<1>1. TypeOK'
  BY DEF KickLocal, Status, PC
<1>2. Control' /\ Quiet(c)
  BY DEF KickLocal, Control, Quiet, Holding, Sub
<1> QED BY <1>1, <1>2, QuietStep

\* Taking the gate to kick preserves IInv.
LEMMA KickKeeps ==
    ASSUME IInv, NEW c \in Cpu, Kick(c)
    PROVE  IInv'
<1> USE NoneFresh DEF tvars, qvars, ivars, lvars, Goto, Set, Return, IInv, TypeOK
<1>1. TypeOK'
  BY DEF Kick, Status, PC
<1>2. Control' /\ Quiet(c)
  BY DEF Kick, Control, Quiet, Holding, Sub
<1> QED BY <1>1, <1>2, QuietStep

\* A kick that finds IdleWfi preserves IInv.
LEMMA KickCheckKeeps ==
    ASSUME IInv, NEW c \in Cpu, KickCheck(c)
    PROVE  IInv'
<1> USE NoneFresh DEF tvars, qvars, ivars, lvars, Goto, Set, Return, IInv, TypeOK
<1>1. TypeOK'
  BY DEF KickCheck, Status, PC
<1>2. Control' /\ Quiet(c)
  BY DEF KickCheck, Control, Quiet, Holding, Sub
<1> QED BY <1>1, <1>2, QuietStep

\* A kick that finds the CPU awake preserves IInv.
LEMMA KickBusyKeeps ==
    ASSUME IInv, NEW c \in Cpu, KickBusy(c)
    PROVE  IInv'
<1> USE NoneFresh DEF tvars, qvars, ivars, lvars, Goto, Set, Return, IInv, TypeOK
<1>1. TypeOK'
  BY DEF KickBusy, Status, PC
<1>2. Control' /\ Quiet(c)
  BY DEF KickBusy, Control, Quiet, Holding, Sub
<1> QED BY <1>1, <1>2, QuietStep

\* Sending the interrupt preserves IInv.
LEMMA KickSendKeeps ==
    ASSUME IInv, NEW c \in Cpu, KickSend(c)
    PROVE  IInv'
<1> USE NoneFresh DEF tvars, qvars, ivars, lvars, Goto, Set, Return, IInv, TypeOK
<1>1. TypeOK'
  BY DEF KickSend, Status, PC
<1>2. Control' /\ Quiet(c)
  BY DEF KickSend, Control, Quiet, Holding, Sub
<1> QED BY <1>1, <1>2, QuietStep

\* Taking the gate to idle preserves IInv.
LEMMA IdleArmKeeps ==
    ASSUME IInv, NEW c \in Cpu, IdleArm(c)
    PROVE  IInv'
<1> USE NoneFresh DEF tvars, qvars, ivars, lvars, Goto, Set, Return, IInv, TypeOK
<1>0. current[c] = None
  BY HandsFull DEF IdleArm, Sub
<1>1. TypeOK'
  BY <1>0 DEF IdleArm, Status, PC
<1>2. Control' /\ Quiet(c)
  BY <1>0 DEF IdleArm, Control, Quiet, Holding, Sub
<1> QED BY <1>1, <1>2, QuietStep

\* The last look at the queue preserves IInv.
LEMMA ArmCheckKeeps ==
    ASSUME IInv, NEW c \in Cpu, ArmCheck(c)
    PROVE  IInv'
<1> USE NoneFresh DEF tvars, qvars, ivars, lvars, Goto, Set, Return, IInv, TypeOK
<1>0. current[c] = None
  BY HandsFull DEF ArmCheck, Sub
<1>1. TypeOK'
  BY <1>0 DEF ArmCheck, Status, PC
<1>2. Control' /\ Quiet(c)
  BY <1>0 DEF ArmCheck, Control, Quiet, Holding, Sub
<1> QED BY <1>1, <1>2, QuietStep

\* Publishing IdleWfi preserves IInv.
LEMMA ArmWfiKeeps ==
    ASSUME IInv, NEW c \in Cpu, ArmWfi(c)
    PROVE  IInv'
<1> USE NoneFresh DEF tvars, qvars, ivars, lvars, Goto, Set, Return, IInv, TypeOK
<1>0. current[c] = None
  BY HandsFull DEF ArmWfi, Sub
<1>1. TypeOK'
  BY <1>0 DEF ArmWfi, Status, PC
<1>2. Control' /\ Quiet(c)
  BY <1>0 DEF ArmWfi, Control, Quiet, Holding, Sub
<1> QED BY <1>1, <1>2, QuietStep

\* Giving up on idling preserves IInv.
LEMMA ArmRunKeeps ==
    ASSUME IInv, NEW c \in Cpu, ArmRun(c)
    PROVE  IInv'
<1> USE NoneFresh DEF tvars, qvars, ivars, lvars, Goto, Set, Return, IInv, TypeOK
<1>0. current[c] = None
  BY HandsFull DEF ArmRun, Sub
<1>1. TypeOK'
  BY <1>0 DEF ArmRun, Status, PC
<1>2. Control' /\ Quiet(c)
  BY <1>0 DEF ArmRun, Control, Quiet, Holding, Sub
<1> QED BY <1>1, <1>2, QuietStep

\* An interrupt that ends WFI preserves IInv.
LEMMA WfiIpiKeeps ==
    ASSUME IInv, NEW c \in Cpu, WfiIpi(c)
    PROVE  IInv'
<1> USE NoneFresh DEF tvars, qvars, ivars, lvars, Goto, Set, Return, IInv, TypeOK
<1>0. current[c] = None
  BY HandsFull DEF WfiIpi, Sub
<1>1. TypeOK'
  BY <1>0 DEF WfiIpi, Status, PC
<1>2. Control' /\ Quiet(c)
  BY <1>0 DEF WfiIpi, Control, Quiet, Holding, Sub
<1> QED BY <1>1, <1>2, QuietStep

\* Publishing Running after WFI preserves IInv.
LEMMA IdleExitKeeps ==
    ASSUME IInv, NEW c \in Cpu, IdleExit(c)
    PROVE  IInv'
<1> USE NoneFresh DEF tvars, qvars, ivars, lvars, Goto, Set, Return, IInv, TypeOK
<1>0. current[c] = None
  BY HandsFull DEF IdleExit, Sub
<1>1. TypeOK'
  BY <1>0 DEF IdleExit, Status, PC
<1>2. Control' /\ Quiet(c)
  BY <1>0 DEF IdleExit, Control, Quiet, Holding, Sub
<1> QED BY <1>1, <1>2, QuietStep

\* Acknowledging the interrupt preserves IInv.
LEMMA IdleAckKeeps ==
    ASSUME IInv, NEW c \in Cpu, IdleAck(c)
    PROVE  IInv'
<1> USE NoneFresh DEF tvars, qvars, ivars, lvars, Goto, Set, Return, IInv, TypeOK
<1>0. current[c] = None
  BY HandsFull DEF IdleAck, Sub
<1>1. TypeOK'
  BY <1>0 DEF IdleAck, Status, PC
<1>2. Control' /\ Quiet(c)
  BY <1>0 DEF IdleAck, Control, Quiet, Holding, Sub
<1> QED BY <1>1, <1>2, QuietStep

\* A yield preserves IInv.
LEMMA YieldKeeps ==
    ASSUME IInv, NEW c \in Cpu, Yield(c)
    PROVE  IInv'
<1> USE NoneFresh DEF tvars, qvars, ivars, lvars, Goto, Set, Return, IInv, TypeOK
<1>0. current[c] \in Task
  BY HandsFull DEF Yield
<1>1. TypeOK'
  BY <1>0 DEF Yield, Status, PC
<1>2. Control' /\ OwnStep(c, "Ready", "switch")
  BY <1>0 DEF Yield, Control, OwnStep, CurrentState, Holding, Sub
<1> QED BY <1>1, <1>2, OwnStepKeeps

\* A conditional block preserves IInv.
LEMMA BlockKeeps ==
    ASSUME IInv, NEW c \in Cpu, Block(c)
    PROVE  IInv'
<1> USE NoneFresh DEF tvars, qvars, ivars, lvars, Goto, Set, Return, IInv, TypeOK
<1>0. current[c] \in Task
  BY HandsFull DEF Block
<1>1. TypeOK'
  BY <1>0 DEF Block, Status, PC
<1>2. Control' /\ OwnStep(c, "BlockSaving", "switch")
  BY <1>0 DEF Block, Control, OwnStep, CurrentState, Holding, Sub
<1> QED BY <1>1, <1>2, OwnStepKeeps

\* Announcing a sleep before registering preserves IInv.
LEMMA PollBeginKeeps ==
    ASSUME IInv, NEW c \in Cpu, PollBegin(c)
    PROVE  IInv'
<1> USE NoneFresh DEF tvars, qvars, ivars, lvars, Goto, Set, Return, IInv, TypeOK
<1>0. current[c] \in Task
  BY HandsFull DEF PollBegin
<1>1. TypeOK'
  BY <1>0 DEF PollBegin, Status, PC
<1>2. Control' /\ OwnStep(c, "BlockSaving", "recheck")
  BY <1>0 DEF PollBegin, Control, OwnStep, CurrentState, Holding, Sub
<1> QED BY <1>1, <1>2, OwnStepKeeps

\* Consuming an event preserves IInv.
LEMMA TakeKeeps ==
    ASSUME IInv, NEW c \in Cpu, Take(c)
    PROVE  IInv'
<1> USE NoneFresh DEF tvars, qvars, ivars, lvars, Goto, Set, Return, IInv, TypeOK
<1>0. current[c] \in Task
  BY HandsFull DEF Take
<1>1. TypeOK'
  BY <1>0 DEF Take, Status, PC
<1>2. Control' /\ Quiet(c)
  BY <1>0 DEF Take, Control, Quiet, Holding, Sub
<1> QED BY <1>1, <1>2, QuietStep

\* An exit preserves IInv.
LEMMA ExitKeeps ==
    ASSUME IInv, NEW c \in Cpu, Exit(c)
    PROVE  IInv'
<1> USE NoneFresh DEF tvars, qvars, ivars, lvars, Goto, Set, Return, IInv, TypeOK
<1>0. current[c] \in Task
  BY HandsFull DEF Exit
<1>1. TypeOK'
  BY <1>0 DEF Exit, Status, PC
<1>2. Control' /\ OwnStep(c, "Zombie", "switch")
  BY <1>0 DEF Exit, Control, OwnStep, CurrentState, Holding, Sub
<1> QED BY <1>1, <1>2, OwnStepKeeps

\* Posting an event preserves IInv.
LEMMA PostKeeps ==
    ASSUME IInv, NEW c \in Cpu, NEW u \in Task, Post(c, u)
    PROVE  IInv'
<1> USE NoneFresh DEF tvars, qvars, ivars, lvars, Goto, Set, Return, IInv, TypeOK
<1>1. TypeOK'
  BY DEF Post, Status, PC
<1>2. Control' /\ Quiet(c)
  BY DEF Post, Control, Quiet, Holding, Sub
<1> QED BY <1>1, <1>2, QuietStep

\* An expired timer preserves IInv.
LEMMA TimerPostKeeps ==
    ASSUME IInv, NEW c \in Cpu, NEW u \in Task, TimerPost(c, u)
    PROVE  IInv'
<1> USE NoneFresh DEF tvars, qvars, ivars, lvars, Goto, Set, Return, IInv, TypeOK
<1>1. TypeOK'
  BY DEF TimerPost, Status, PC
<1>2. Control' /\ Quiet(c)
  BY DEF TimerPost, Control, Quiet, Holding, Sub
<1> QED BY <1>1, <1>2, QuietStep

\* A timer that ends WFI preserves IInv.
LEMMA WfiTimerKeeps ==
    ASSUME IInv, NEW c \in Cpu, WfiTimer(c)
    PROVE  IInv'
<1> USE NoneFresh DEF tvars, qvars, ivars, lvars, Goto, Set, Return, IInv, TypeOK
<1>0. current[c] = None
  BY HandsFull DEF WfiTimer, Sub
<1>1. TypeOK'
  BY <1>0 DEF WfiTimer, Status, PC
<1>2. Control' /\ Quiet(c)
  BY <1>0 DEF WfiTimer, Control, Quiet, Holding, Sub
<1> QED BY <1>1, <1>2, QuietStep

\* Every step preserves the invariant.
LEMMA InvStep == IInv /\ [Next]_vars => IInv'
<1> SUFFICES ASSUME IInv, [Next]_vars PROVE IInv'
  OBVIOUS
<1>1. CASE UNCHANGED vars
  <2> USE <1>1 DEF vars, tvars, qvars, ivars, lvars, IInv
  <2>1. TypeOK' /\ Control' /\ CurrentState' /\ QueueState'
    BY Zenon DEF TypeOK, Control, CurrentState, QueueState
  <2>2. HandState' /\ FlagState' /\ OwnCpu'
    BY Zenon DEF HandState, FlagState, OwnCpu, Owns
  <2>3. Unique' /\ Somewhere'
    BY DEF Unique, Somewhere, Owns
  <2> QED  BY <2>1, <2>2, <2>3
<1>2. CASE Next
  BY <1>2, FetchKeeps, FetchCommitKeeps, FetchNoneKeeps, StealKeeps, StealNoneKeeps,
     DispatchKeeps, PollReadyKeeps, PollSleepKeeps, SwitchBackKeeps,
     CommitResumedKeeps, CommitBlockedKeeps, CommitReadyKeeps, CommitDeadKeeps,
     WakeBlockedKeeps, WakeOtherKeeps, SelectKeeps, EnqueueKeeps, EnqueueRqKeeps,
     KickLocalKeeps, KickKeeps, KickCheckKeeps, KickBusyKeeps, KickSendKeeps,
     IdleArmKeeps, ArmCheckKeeps, ArmWfiKeeps, ArmRunKeeps, WfiIpiKeeps,
     IdleExitKeeps, IdleAckKeeps, YieldKeeps, BlockKeeps, PollBeginKeeps, TakeKeeps,
     ExitKeeps, SpawnKeeps, PostKeeps, TimerPostKeeps, WfiTimerKeeps, Zenon
  DEF Next, Kernel, User, Clock
<1> QED BY <1>1, <1>2

\* IInv holds throughout.
LEMMA Inductive == Spec => []IInv
BY InitOK, InvStep, PTL DEF Spec

-----------------------------------------------------------------------------
(* No wakeup is lost                                                        *)

\* A waker that has posted its event is about to call wake_up_task for t.
InFlight(t) == \E c \in Cpu : pc[c] = "wake" /\ hand[c] = t

\* t has announced its sleep and has still to look at its condition.
Rechecks(t) == \E c \in Cpu : pc[c] = "recheck" /\ current[c] = t

\* A posted event is never forgotten while its task goes to sleep.
WakeInv ==
    \A t \in Task : event[t] =>
        /\ state[t] = "Blocked" => InFlight(t)
        /\ state[t] = "BlockSaving" => wake_pending[t] \/ InFlight(t) \/ Rechecks(t)

\* A step that neither posts an event, puts a task to sleep, nor withdraws a waker
\* or a second look.
NoSleeper(c) ==
    /\ \A t \in Task : event'[t] => event[t]
    /\ \A t \in Task : state'[t] \in {"Blocked", "BlockSaving"} => state'[t] = state[t]
    /\ \A t \in Task : state'[t] = "BlockSaving" /\ wake_pending[t] => wake_pending'[t]
    /\ pc[c] \notin {"wake", "recheck"}
    /\ \A d \in Cpu \ {c} : pc'[d] = pc[d] /\ hand'[d] = hand[d] /\ current'[d] = current[d]

\* Such a step preserves WakeInv.
LEMMA NoSleeperStep ==
    ASSUME TypeOK, WakeInv, NEW c \in Cpu, NoSleeper(c)
    PROVE  WakeInv'
<1> SUFFICES ASSUME NEW t \in Task, event'[t]
             PROVE  /\ state'[t] = "Blocked" => InFlight(t)'
                    /\ state'[t] = "BlockSaving" => wake_pending'[t] \/ InFlight(t)' \/ Rechecks(t)'
  BY DEF WakeInv
<1>1. InFlight(t) => InFlight(t)'
  BY DEF InFlight, NoSleeper
<1>2. Rechecks(t) => Rechecks(t)'
  BY DEF Rechecks, NoSleeper
<1>3. event[t]
  BY DEF NoSleeper
<1> QED BY <1>1, <1>2, <1>3 DEF NoSleeper, WakeInv

(* One lemma per action: it preserves WakeInv.                              *)

\* Fetch_task's pop preserves WakeInv.
LEMMA FetchWakes ==
    ASSUME IInv, WakeInv, NEW c \in Cpu, NEW t \in Task, Fetch(c, t)
    PROVE  WakeInv'
<1>t. TypeOK
  BY DEF IInv
<1> USE DEF tvars, qvars, ivars, lvars, Goto, Set, Return
<1>1. NoSleeper(c)
  BY <1>t DEF Fetch, NoSleeper, TypeOK
<1> QED BY <1>t, <1>1, NoSleeperStep

\* Fetch_task's update of the popped task preserves WakeInv.
LEMMA FetchCommitWakes ==
    ASSUME IInv, WakeInv, NEW c \in Cpu, FetchCommit(c)
    PROVE  WakeInv'
<1>t. TypeOK
  BY DEF IInv
<1> USE DEF tvars, qvars, ivars, lvars, Goto, Set, Return
<1>1. FetchCommitEff(c)
  BY FetchCommitLive
<1>2. NoSleeper(c)
  BY <1>t, <1>1 DEF FetchCommitEff, NoSleeper, TypeOK
<1> QED BY <1>t, <1>2, NoSleeperStep

\* An empty queue preserves WakeInv.
LEMMA FetchNoneWakes ==
    ASSUME IInv, WakeInv, NEW c \in Cpu, FetchNone(c)
    PROVE  WakeInv'
<1>t. TypeOK
  BY DEF IInv
<1> USE DEF tvars, qvars, ivars, lvars, Goto, Set, Return
<1>1. NoSleeper(c)
  BY <1>t DEF FetchNone, NoSleeper, TypeOK
<1> QED BY <1>t, <1>1, NoSleeperStep

\* A steal preserves WakeInv.
LEMMA StealWakes ==
    ASSUME IInv, WakeInv, NEW c \in Cpu, NEW r \in Cpu, NEW t \in Task, Steal(c, r, t)
    PROVE  WakeInv'
<1>t. TypeOK
  BY DEF IInv
<1> USE DEF tvars, qvars, ivars, lvars, Goto, Set, Return
<1>1. StealEff(c, r, t)
  BY StealLive
<1>2. NoSleeper(c)
  BY <1>t, <1>1 DEF StealEff, NoSleeper, TypeOK
<1> QED BY <1>t, <1>2, NoSleeperStep

\* A steal that finds nothing preserves WakeInv.
LEMMA StealNoneWakes ==
    ASSUME IInv, WakeInv, NEW c \in Cpu, StealNone(c)
    PROVE  WakeInv'
<1>t. TypeOK
  BY DEF IInv
<1> USE DEF tvars, qvars, ivars, lvars, Goto, Set, Return
<1>1. NoSleeper(c)
  BY <1>t DEF StealNone, NoSleeper, TypeOK
<1> QED BY <1>t, <1>1, NoSleeperStep

\* The dispatch of a task preserves WakeInv.
LEMMA DispatchWakes ==
    ASSUME IInv, WakeInv, NEW c \in Cpu, Dispatch(c)
    PROVE  WakeInv'
<1>t. TypeOK
  BY DEF IInv
<1> USE DEF tvars, qvars, ivars, lvars, Goto, Set, Return
<1>1. NoSleeper(c)
  BY <1>t DEF Dispatch, NoSleeper, TypeOK, IInv, Control, Holding
<1> QED BY <1>t, <1>1, NoSleeperStep

\* A second look that finds the condition true preserves WakeInv.
LEMMA PollReadyWakes ==
    ASSUME IInv, WakeInv, NEW c \in Cpu, PollReady(c)
    PROVE  WakeInv'
BY DEF IInv, tvars, qvars, ivars, lvars, Goto, Set, Return, PollReady, WakeInv, InFlight, Rechecks, TypeOK

\* A second look that finds it false preserves WakeInv.
LEMMA PollSleepWakes ==
    ASSUME IInv, WakeInv, NEW c \in Cpu, PollSleep(c)
    PROVE  WakeInv'
BY DEF IInv, tvars, qvars, ivars, lvars, Goto, Set, Return, PollSleep, WakeInv, InFlight, Rechecks, TypeOK

\* The switch back to the scheduler loop preserves WakeInv.
LEMMA SwitchBackWakes ==
    ASSUME IInv, WakeInv, NEW c \in Cpu, SwitchBack(c)
    PROVE  WakeInv'
<1>t. TypeOK
  BY DEF IInv
<1> USE DEF tvars, qvars, ivars, lvars, Goto, Set, Return
<1>1. NoSleeper(c)
  BY <1>t DEF SwitchBack, NoSleeper, TypeOK
<1> QED BY <1>t, <1>1, NoSleeperStep

\* The commit of a task woken while it saved its context preserves WakeInv.
LEMMA CommitResumedWakes ==
    ASSUME IInv, WakeInv, NEW c \in Cpu, CommitResumed(c)
    PROVE  WakeInv'
BY DEF IInv, tvars, qvars, ivars, lvars, Goto, Set, Return, CommitResumed, WakeInv, InFlight, Rechecks, TypeOK

\* The commit of a sleeper preserves WakeInv.
LEMMA CommitBlockedWakes ==
    ASSUME IInv, WakeInv, NEW c \in Cpu, CommitBlocked(c)
    PROVE  WakeInv'
<1>t. TypeOK
  BY DEF IInv
<1> USE DEF tvars, qvars, ivars, lvars, Goto, Set, Return
<1>1. hand[c] \in Task /\ ~Rechecks(hand[c])
  BY DEF CommitBlocked, Rechecks, IInv, TypeOK, Control, Unique, Owns, Holding
<1>2. \A t \in Task : (InFlight(t) => InFlight(t)') /\ (Rechecks(t) => Rechecks(t)')
  BY <1>t DEF CommitBlocked, InFlight, Rechecks, TypeOK
<1> QED BY <1>t, <1>1, <1>2 DEF CommitBlocked, WakeInv, TypeOK

\* The commit of a yielding task preserves WakeInv.
LEMMA CommitReadyWakes ==
    ASSUME IInv, WakeInv, NEW c \in Cpu, CommitReady(c)
    PROVE  WakeInv'
<1>t. TypeOK
  BY DEF IInv
<1> USE DEF tvars, qvars, ivars, lvars, Goto, Set, Return
<1>1. NoSleeper(c)
  BY <1>t DEF CommitReady, NoSleeper, TypeOK
<1> QED BY <1>t, <1>1, NoSleeperStep

\* The commit of a dead task preserves WakeInv.
LEMMA CommitDeadWakes ==
    ASSUME IInv, WakeInv, NEW c \in Cpu, CommitDead(c)
    PROVE  WakeInv'
<1>t. TypeOK
  BY DEF IInv
<1> USE DEF tvars, qvars, ivars, lvars, Goto, Set, Return
<1>1. NoSleeper(c)
  BY <1>t DEF CommitDead, NoSleeper, TypeOK
<1> QED BY <1>t, <1>1, NoSleeperStep

\* Wake_up_task on a sleeper preserves WakeInv.
LEMMA WakeBlockedWakes ==
    ASSUME IInv, WakeInv, NEW c \in Cpu, WakeBlocked(c)
    PROVE  WakeInv'
BY DEF IInv, tvars, qvars, ivars, lvars, Goto, Set, Return, WakeBlocked, WakeInv, InFlight, Rechecks, TypeOK

\* Wake_up_task on any other task preserves WakeInv.
LEMMA WakeOtherWakes ==
    ASSUME IInv, WakeInv, NEW c \in Cpu, WakeOther(c)
    PROVE  WakeInv'
BY DEF IInv, tvars, qvars, ivars, lvars, Goto, Set, Return, WakeOther, WakeInv, InFlight, Rechecks, TypeOK

\* Select_task_rq preserves WakeInv.
LEMMA SelectWakes ==
    ASSUME IInv, WakeInv, NEW c \in Cpu, NEW d \in Cpu, Select(c, d)
    PROVE  WakeInv'
<1>t. TypeOK
  BY DEF IInv
<1> USE DEF tvars, qvars, ivars, lvars, Goto, Set, Return
<1>1. NoSleeper(c)
  BY <1>t DEF Select, NoSleeper, TypeOK
<1> QED BY <1>t, <1>1, NoSleeperStep

\* An enqueue's update of the task preserves WakeInv.
LEMMA EnqueueWakes ==
    ASSUME IInv, WakeInv, NEW c \in Cpu, Enqueue(c)
    PROVE  WakeInv'
<1>t. TypeOK
  BY DEF IInv
<1> USE DEF tvars, qvars, ivars, lvars, Goto, Set, Return
<1>1. EnqueueEff(c)
  BY EnqueueLive
<1>2. NoSleeper(c)
  BY <1>t, <1>1 DEF EnqueueEff, NoSleeper, TypeOK
<1> QED BY <1>t, <1>2, NoSleeperStep

\* The insertion into the run queue preserves WakeInv.
LEMMA EnqueueRqWakes ==
    ASSUME IInv, WakeInv, NEW c \in Cpu, EnqueueRq(c)
    PROVE  WakeInv'
<1>t. TypeOK
  BY DEF IInv
<1> USE DEF tvars, qvars, ivars, lvars, Goto, Set, Return
<1>1. EnqueueRqEff(c)
  BY EnqueueRqLive
<1>2. NoSleeper(c)
  BY <1>t, <1>1 DEF EnqueueRqEff, NoSleeper, TypeOK
<1> QED BY <1>t, <1>2, NoSleeperStep

\* A kick of the CPU itself preserves WakeInv.
LEMMA KickLocalWakes ==
    ASSUME IInv, WakeInv, NEW c \in Cpu, KickLocal(c)
    PROVE  WakeInv'
<1>t. TypeOK
  BY DEF IInv
<1> USE DEF tvars, qvars, ivars, lvars, Goto, Set, Return
<1>1. NoSleeper(c)
  BY <1>t DEF KickLocal, NoSleeper, TypeOK
<1> QED BY <1>t, <1>1, NoSleeperStep

\* Taking the gate to kick preserves WakeInv.
LEMMA KickWakes ==
    ASSUME IInv, WakeInv, NEW c \in Cpu, Kick(c)
    PROVE  WakeInv'
<1>t. TypeOK
  BY DEF IInv
<1> USE DEF tvars, qvars, ivars, lvars, Goto, Set, Return
<1>1. NoSleeper(c)
  BY <1>t DEF Kick, NoSleeper, TypeOK
<1> QED BY <1>t, <1>1, NoSleeperStep

\* A kick that finds IdleWfi preserves WakeInv.
LEMMA KickCheckWakes ==
    ASSUME IInv, WakeInv, NEW c \in Cpu, KickCheck(c)
    PROVE  WakeInv'
<1>t. TypeOK
  BY DEF IInv
<1> USE DEF tvars, qvars, ivars, lvars, Goto, Set, Return
<1>1. NoSleeper(c)
  BY <1>t DEF KickCheck, NoSleeper, TypeOK
<1> QED BY <1>t, <1>1, NoSleeperStep

\* A kick that finds the CPU awake preserves WakeInv.
LEMMA KickBusyWakes ==
    ASSUME IInv, WakeInv, NEW c \in Cpu, KickBusy(c)
    PROVE  WakeInv'
<1>t. TypeOK
  BY DEF IInv
<1> USE DEF tvars, qvars, ivars, lvars, Goto, Set, Return
<1>1. NoSleeper(c)
  BY <1>t DEF KickBusy, NoSleeper, TypeOK
<1> QED BY <1>t, <1>1, NoSleeperStep

\* Sending the interrupt preserves WakeInv.
LEMMA KickSendWakes ==
    ASSUME IInv, WakeInv, NEW c \in Cpu, KickSend(c)
    PROVE  WakeInv'
<1>t. TypeOK
  BY DEF IInv
<1> USE DEF tvars, qvars, ivars, lvars, Goto, Set, Return
<1>1. NoSleeper(c)
  BY <1>t DEF KickSend, NoSleeper, TypeOK
<1> QED BY <1>t, <1>1, NoSleeperStep

\* Taking the gate to idle preserves WakeInv.
LEMMA IdleArmWakes ==
    ASSUME IInv, WakeInv, NEW c \in Cpu, IdleArm(c)
    PROVE  WakeInv'
<1>t. TypeOK
  BY DEF IInv
<1> USE DEF tvars, qvars, ivars, lvars, Goto, Set, Return
<1>1. NoSleeper(c)
  BY <1>t DEF IdleArm, NoSleeper, TypeOK
<1> QED BY <1>t, <1>1, NoSleeperStep

\* The last look at the queue preserves WakeInv.
LEMMA ArmCheckWakes ==
    ASSUME IInv, WakeInv, NEW c \in Cpu, ArmCheck(c)
    PROVE  WakeInv'
<1>t. TypeOK
  BY DEF IInv
<1> USE DEF tvars, qvars, ivars, lvars, Goto, Set, Return
<1>1. NoSleeper(c)
  BY <1>t DEF ArmCheck, NoSleeper, TypeOK
<1> QED BY <1>t, <1>1, NoSleeperStep

\* Publishing IdleWfi preserves WakeInv.
LEMMA ArmWfiWakes ==
    ASSUME IInv, WakeInv, NEW c \in Cpu, ArmWfi(c)
    PROVE  WakeInv'
<1>t. TypeOK
  BY DEF IInv
<1> USE DEF tvars, qvars, ivars, lvars, Goto, Set, Return
<1>1. NoSleeper(c)
  BY <1>t DEF ArmWfi, NoSleeper, TypeOK
<1> QED BY <1>t, <1>1, NoSleeperStep

\* Giving up on idling preserves WakeInv.
LEMMA ArmRunWakes ==
    ASSUME IInv, WakeInv, NEW c \in Cpu, ArmRun(c)
    PROVE  WakeInv'
<1>t. TypeOK
  BY DEF IInv
<1> USE DEF tvars, qvars, ivars, lvars, Goto, Set, Return
<1>1. NoSleeper(c)
  BY <1>t DEF ArmRun, NoSleeper, TypeOK
<1> QED BY <1>t, <1>1, NoSleeperStep

\* An interrupt that ends WFI preserves WakeInv.
LEMMA WfiIpiWakes ==
    ASSUME IInv, WakeInv, NEW c \in Cpu, WfiIpi(c)
    PROVE  WakeInv'
<1>t. TypeOK
  BY DEF IInv
<1> USE DEF tvars, qvars, ivars, lvars, Goto, Set, Return
<1>1. NoSleeper(c)
  BY <1>t DEF WfiIpi, NoSleeper, TypeOK
<1> QED BY <1>t, <1>1, NoSleeperStep

\* Publishing Running after WFI preserves WakeInv.
LEMMA IdleExitWakes ==
    ASSUME IInv, WakeInv, NEW c \in Cpu, IdleExit(c)
    PROVE  WakeInv'
<1>t. TypeOK
  BY DEF IInv
<1> USE DEF tvars, qvars, ivars, lvars, Goto, Set, Return
<1>1. NoSleeper(c)
  BY <1>t DEF IdleExit, NoSleeper, TypeOK
<1> QED BY <1>t, <1>1, NoSleeperStep

\* Acknowledging the interrupt preserves WakeInv.
LEMMA IdleAckWakes ==
    ASSUME IInv, WakeInv, NEW c \in Cpu, IdleAck(c)
    PROVE  WakeInv'
<1>t. TypeOK
  BY DEF IInv
<1> USE DEF tvars, qvars, ivars, lvars, Goto, Set, Return
<1>1. NoSleeper(c)
  BY <1>t DEF IdleAck, NoSleeper, TypeOK
<1> QED BY <1>t, <1>1, NoSleeperStep

\* A yield preserves WakeInv.
LEMMA YieldWakes ==
    ASSUME IInv, WakeInv, NEW c \in Cpu, Yield(c)
    PROVE  WakeInv'
<1>t. TypeOK
  BY DEF IInv
<1> USE DEF tvars, qvars, ivars, lvars, Goto, Set, Return
<1>1. NoSleeper(c)
  BY <1>t DEF Yield, NoSleeper, TypeOK
<1> QED BY <1>t, <1>1, NoSleeperStep

\* A conditional block preserves WakeInv.
LEMMA BlockWakes ==
    ASSUME IInv, WakeInv, NEW c \in Cpu, Block(c)
    PROVE  WakeInv'
BY DEF IInv, tvars, qvars, ivars, lvars, Goto, Set, Return, Block, WakeInv, InFlight, Rechecks, TypeOK

\* Announcing a sleep before registering preserves WakeInv.
LEMMA PollBeginWakes ==
    ASSUME IInv, WakeInv, NEW c \in Cpu, PollBegin(c)
    PROVE  WakeInv'
BY DEF IInv, tvars, qvars, ivars, lvars, Goto, Set, Return, PollBegin, WakeInv, InFlight, Rechecks, TypeOK

\* Consuming an event preserves WakeInv.
LEMMA TakeWakes ==
    ASSUME IInv, WakeInv, NEW c \in Cpu, Take(c)
    PROVE  WakeInv'
<1>t. TypeOK
  BY DEF IInv
<1> USE DEF tvars, qvars, ivars, lvars, Goto, Set, Return
<1>1. NoSleeper(c)
  BY <1>t DEF Take, NoSleeper, TypeOK
<1> QED BY <1>t, <1>1, NoSleeperStep

\* An exit preserves WakeInv.
LEMMA ExitWakes ==
    ASSUME IInv, WakeInv, NEW c \in Cpu, Exit(c)
    PROVE  WakeInv'
<1>t. TypeOK
  BY DEF IInv
<1> USE DEF tvars, qvars, ivars, lvars, Goto, Set, Return
<1>1. NoSleeper(c)
  BY <1>t DEF Exit, NoSleeper, TypeOK
<1> QED BY <1>t, <1>1, NoSleeperStep

\* A clone preserves WakeInv.
LEMMA SpawnWakes ==
    ASSUME IInv, WakeInv, NEW c \in Cpu, NEW u \in Task, Spawn(c, u)
    PROVE  WakeInv'
<1>t. TypeOK
  BY DEF IInv
<1> USE DEF tvars, qvars, ivars, lvars, Goto, Set, Return
<1>1. NoSleeper(c)
  BY <1>t DEF Spawn, NoSleeper, TypeOK
<1> QED BY <1>t, <1>1, NoSleeperStep

\* Posting an event preserves WakeInv.
LEMMA PostWakes ==
    ASSUME IInv, WakeInv, NEW c \in Cpu, NEW u \in Task, Post(c, u)
    PROVE  WakeInv'
BY DEF IInv, tvars, qvars, ivars, lvars, Goto, Set, Return, Post, WakeInv, InFlight, Rechecks, TypeOK

\* An expired timer preserves WakeInv.
LEMMA TimerPostWakes ==
    ASSUME IInv, WakeInv, NEW c \in Cpu, NEW u \in Task, TimerPost(c, u)
    PROVE  WakeInv'
BY DEF IInv, tvars, qvars, ivars, lvars, Goto, Set, Return, TimerPost, WakeInv, InFlight, Rechecks, TypeOK

\* A timer that ends WFI preserves WakeInv.
LEMMA WfiTimerWakes ==
    ASSUME IInv, WakeInv, NEW c \in Cpu, WfiTimer(c)
    PROVE  WakeInv'
<1>t. TypeOK
  BY DEF IInv
<1> USE DEF tvars, qvars, ivars, lvars, Goto, Set, Return
<1>1. NoSleeper(c)
  BY <1>t DEF WfiTimer, NoSleeper, TypeOK
<1> QED BY <1>t, <1>1, NoSleeperStep

\* Every step preserves WakeInv.
LEMMA WakeStep == IInv /\ WakeInv /\ [Next]_vars => WakeInv'
<1> SUFFICES ASSUME IInv, WakeInv, [Next]_vars PROVE WakeInv'
  OBVIOUS
<1>1. CASE UNCHANGED vars
  BY <1>1 DEF vars, tvars, qvars, ivars, lvars, WakeInv, InFlight, Rechecks
<1>2. CASE Next
  BY <1>2, FetchWakes, FetchCommitWakes, FetchNoneWakes, StealWakes, StealNoneWakes,
     DispatchWakes, PollReadyWakes, PollSleepWakes, SwitchBackWakes,
     CommitResumedWakes, CommitBlockedWakes, CommitReadyWakes, CommitDeadWakes,
     WakeBlockedWakes, WakeOtherWakes, SelectWakes, EnqueueWakes, EnqueueRqWakes,
     KickLocalWakes, KickWakes, KickCheckWakes, KickBusyWakes, KickSendWakes,
     IdleArmWakes, ArmCheckWakes, ArmWfiWakes, ArmRunWakes, WfiIpiWakes,
     IdleExitWakes, IdleAckWakes, YieldWakes, BlockWakes, PollBeginWakes, TakeWakes,
     ExitWakes, SpawnWakes, PostWakes, TimerPostWakes, WfiTimerWakes, Zenon
  DEF Next, Kernel, User, Clock
<1> QED BY <1>1, <1>2

-----------------------------------------------------------------------------
(* The theorems                                                             *)

\* WakeInv holds throughout.
LEMMA WakeInductive == Spec => []WakeInv
<1>1. Init => WakeInv
  BY DEF Init, WakeInv
<1> QED BY <1>1, WakeStep, Inductive, PTL DEF Spec

\* Every variable of the scheduler keeps its type, for any CPUs and any tasks.
THEOREM TypeCorrect == Spec => []TypeOK
<1>1. IInv => TypeOK
  BY DEF IInv
<1> QED BY <1>1, Inductive, PTL

\* For any number of CPUs and tasks no task is lost, queued or run twice, or picked
\* up while another CPU still saves its context.
THEOREM NoTaskLost == Spec => []OneHome
<1>1. IInv => OneHome
  <2> SUFFICES ASSUME IInv, NEW t \in Task
               PROVE  /\ \A h, k \in Homes(t) : h = k
                      /\ state[t] \in {"Ready", "Running", "BlockSaving"} => Homes(t) # {}
                      /\ state[t] \in {"UnInit", "Blocked"} => Homes(t) = {}
    BY DEF OneHome
  <2>1. \A h \in Homes(t) : \E c \in Cpu :
            \/ h = <<"current", c>> /\ current[c] = t
            \/ h = <<"rq", c>> /\ t \in rq[c]
            \/ h = <<"hand", c>> /\ Owns(c, t)
    BY DEF Homes, Owns
  <2>2. ASSUME NEW h \in Homes(t), NEW k \in Homes(t) PROVE h = k
    BY <2>1 DEF IInv, Unique
  <2>3. ASSUME state[t] \in {"Ready", "Running", "BlockSaving"} PROVE Homes(t) # {}
    <3>1. PICK c \in Cpu : current[c] = t \/ t \in rq[c] \/ Owns(c, t)
      BY <2>3 DEF IInv, Somewhere
    <3>2. current[c] = t => <<"current", c>> \in Homes(t)
      BY DEF Homes
    <3>3. t \in rq[c] => <<"rq", c>> \in Homes(t)
      BY DEF Homes
    <3>4. Owns(c, t) => <<"hand", c>> \in Homes(t)
      BY DEF Homes, Owns
    <3> QED BY <3>1, <3>2, <3>3, <3>4
  <2>4. ASSUME state[t] \in {"UnInit", "Blocked"} PROVE Homes(t) = {}
    BY <2>1, <2>4, Homeless
  <2> QED BY <2>2, <2>3, <2>4
<1> QED BY <1>1, Inductive, PTL

\* For any number of CPUs and tasks no enqueue is refused, so that the results
\* add_task_into_pool and run_tasks throw away are always true.
THEOREM EnqueueNeverRefused == Spec => []NeverRefused
<1>1. IInv => NeverRefused
  <2> SUFFICES ASSUME IInv PROVE NeverRefused
    OBVIOUS
  <2>1. ASSUME NEW c \in Cpu, pc[c] \in {"select", "enqueue", "enqueue_rq"}
        PROVE  ~on_rq[hand[c]] /\ state[hand[c]] = "Ready"
    <3>1. hand[c] \in Task /\ Owns(c, hand[c]) /\ state[hand[c]] = "Ready"
      BY <2>1 DEF IInv, TypeOK, Control, HandState, Owns, Holding
    <3>2. \A d \in Cpu : hand[c] \notin rq[d] /\ ~(pc[d] = "popped" /\ hand[d] = hand[c])
      BY <2>1, <3>1 DEF IInv, Unique, Owns, Holding
    <3> QED BY <3>1, <3>2 DEF IInv, FlagState
  <2>2. ASSUME NEW c \in Cpu, pc[c] = "popped" PROVE state[hand[c]] # "Zombie"
    BY <2>2 DEF IInv, HandState
  <2>3. \A c \in Cpu : \A t \in rq[c] : on_rq[t] /\ state[t] = "Ready"
    BY DEF IInv, QueueState
  <2> QED BY <2>1, <2>2, <2>3 DEF NeverRefused
<1> QED BY <1>1, Inductive, PTL

\* For any number of CPUs and tasks a task's cpu field names the CPU that runs it.
THEOREM CpuFieldRight == Spec => []OwnCpu
<1>1. IInv => OwnCpu
  BY DEF IInv
<1> QED BY <1>1, Inductive, PTL

\* For any number of CPUs and tasks the BlockSaving handshake loses no wakeup.
THEOREM NoWakeLost == Spec => []NoLostWake
<1>1. WakeInv => NoLostWake
  BY DEF WakeInv, InFlight, NoLostWake
<1> QED BY <1>1, WakeInductive, PTL
=============================================================================
