------------------------------ MODULE Process ------------------------------
(* Processes as thread groups: fork, clone, vfork, exec, exit, exit_group   *)
(* and wait4/waitid (process/task/{clone,exec,exit,vfork}.rs,               *)
(* process/child_wait.rs, process/registry.rs, sys_wait4, sys_waitid).      *)
(*                                                                          *)
(* A step is a critical section: a task's inner lock, the lock of TID2TCB   *)
(* or the lock of a wait queue.  Sleeping and waking are those of TaskLife; *)
(* waking a thread that does not sleep has no effect.                       *)
EXTENDS Naturals

CONSTANTS Thread,    \* the thread ids, 1 .. n, in the order of their birth
          Programs,  \* which calls each thread makes: a set of functions
          None

InitTask == 1           \* INITTASK, process 1; its exit is a panic

ASSUME ThreadAssumption == InitTask \in Thread /\ Thread \subseteq Nat /\ None \notin Thread
ASSUME ProgramsAssumption ==
    Programs \subseteq [Thread -> SUBSET {"fork", "vfork", "clone", "exec", "exit", "exit_group",
                                         "wait4", "waitid"}]

VARIABLES
    can,         \* the program of this behaviour
    leader,      \* tgid: the first thread of the group, None before birth
    parent,      \* the Weak that receives SIGCHLD
    children,    \* per thread: the children; their order is left open
    zombie,      \* the threads in state Zombie
    registry,    \* TID2TCB
    killed,      \* SIGKILL pending or term_signal set
    asleep,      \* the threads in BlockSaving or Blocked
    chldexit,    \* per leader: Signal::wait_chldexit
    vforked,     \* per thread: the parent's completion not yet taken
    done,        \* VforkCompletion::done of the thread's birth
    vwait,       \* VforkCompletion::waiters of the thread's birth
    exec_lock,   \* per leader: the holder of exec_update_lock
    pc,          \* per thread: "unborn", "user", a point in the kernel, "dead"
    on,          \* per thread: the child, parent or filter the call is about
    todo,        \* per thread: the threads a loop has still to visit
    snap,        \* per thread: the siblings exec waits for
    told,        \* history: the groups whose end was announced
    adopted,     \* history: the children that were given to INITTASK
    collected    \* history: the groups that remove_process took out of TID2TCB

lineage == <<leader, parent, children>>
vfork == <<vforked, done, vwait>>
local == <<on, todo, snap>>
hist == <<told, adopted, collected>>
vars == <<can, leader, parent, children, zombie, registry, killed, asleep, chldexit,
          vforked, done, vwait, exec_lock, pc, on, todo, snap, told, adopted, collected>>

Init ==
    /\ can \in Programs
    /\ leader = [t \in Thread |-> IF t = InitTask THEN InitTask ELSE None]
    /\ parent = [t \in Thread |-> None]
    /\ children = [t \in Thread |-> {}]
    /\ zombie = {} /\ registry = {InitTask} /\ killed = {} /\ asleep = {}
    /\ chldexit = [t \in Thread |-> {}]
    /\ vforked = {} /\ done = {}
    /\ vwait = [t \in Thread |-> {}]
    /\ exec_lock = [t \in Thread |-> None]
    /\ pc = [t \in Thread |-> IF t = InitTask THEN "user" ELSE "unborn"]
    /\ on = [t \in Thread |-> None]
    /\ todo = [t \in Thread |-> {}]
    /\ snap = [t \in Thread |-> {}]
    /\ told = {} /\ adopted = {} /\ collected = {}

Group(t) == {u \in Thread : leader[u] = leader[t]}

Goto(t, l) == pc' = [pc EXCEPT ![t] = l]

Unborn == {t \in Thread : leader[t] = None}

\* The next thread id.
Fresh(u) == u \in Unborn /\ \A w \in Unborn : u <= w

\* A thread control block lives while its thread runs or a list holds it.
Exists(t) == pc[t] # "dead" \/ \E p \in Thread : t \in children[p]

-----------------------------------------------------------------------------
(* do_clone.                                                               *)

\* A new thread u in the group of g, with parent p, starts in user space.
Birth(u, g, p) ==
    /\ leader' = [leader EXCEPT ![u] = g]
    /\ parent' = [parent EXCEPT ![u] = p]
    /\ registry' = registry \cup {u}

\* A process: the child joins the list of the calling thread.
Fork(t, call) ==
    /\ pc[t] = "user" /\ call \in can[t]
    /\ \E u \in Thread :
          /\ Fresh(u) /\ Birth(u, u, t)
          /\ children' = [children EXCEPT ![t] = @ \cup {u}]
          /\ vforked' = IF call = "vfork" THEN vforked \cup {u} ELSE vforked
          /\ on' = [on EXCEPT ![t] = u]
          /\ pc' = [pc EXCEPT ![t] = IF call = "vfork" THEN "vfork" ELSE "return", ![u] = "user"]
    /\ UNCHANGED <<can, zombie, killed, asleep, chldexit, done, vwait, exec_lock, todo, snap, hist>>

\* wait_exec_update_lock: a pending SIGKILL ends the wait.
LockExec(t, then) ==
    \/ t \in killed /\ Goto(t, "return") /\ UNCHANGED exec_lock
    \/ /\ t \notin killed /\ exec_lock[leader[t]] = None
       /\ exec_lock' = [exec_lock EXCEPT ![leader[t]] = t]
       /\ Goto(t, then)

CloneCall(t) ==
    /\ pc[t] = "user" /\ "clone" \in can[t] /\ Unborn # {}
    /\ Goto(t, "clone_lock")
    /\ UNCHANGED <<can, lineage, zombie, registry, killed, asleep, chldexit, vfork, exec_lock,
                   local, hist>>

\* Mutant: clone does not take exec_update_lock.
CloneLockFree(t) ==
    /\ pc[t] = "clone_lock"
    /\ Goto(t, "clone")
    /\ UNCHANGED <<can, lineage, zombie, registry, killed, asleep, chldexit, vfork, exec_lock, local, hist>>

CloneLock(t) ==
    /\ pc[t] = "clone_lock"
    /\ LockExec(t, "clone")
    /\ UNCHANGED <<can, lineage, zombie, registry, killed, asleep, chldexit, vfork, local, hist>>

\* A thread inherits the parent of the calling thread.
Clone(t) ==
    /\ pc[t] = "clone"
    /\ IF Unborn = {} THEN Goto(t, "return") /\ UNCHANGED <<leader, parent, registry>>
       ELSE \E u \in Thread :
               /\ Fresh(u) /\ Birth(u, leader[t], parent[t])
               /\ pc' = [pc EXCEPT ![t] = "return", ![u] = "user"]
    /\ exec_lock' = [exec_lock EXCEPT ![leader[t]] = None]
    /\ UNCHANGED <<can, children, zombie, killed, asleep, chldexit, vfork, local, hist>>

-----------------------------------------------------------------------------
(* VforkCompletion.                                                        *)

\* wait, the head of the loop.
VforkLook(t) ==
    /\ pc[t] = "vfork"
    /\ Goto(t, IF on[t] \in done \/ t \in killed THEN "return" ELSE "vfork_block")
    /\ UNCHANGED <<can, lineage, zombie, registry, killed, asleep, chldexit, vfork, exec_lock, local, hist>>

VforkBlock(t) ==
    /\ pc[t] = "vfork_block"
    /\ IF on[t] \in done THEN Goto(t, "vfork") /\ UNCHANGED <<vwait, asleep>>
       ELSE /\ vwait' = [vwait EXCEPT ![on[t]] = @ \cup {t}]
            /\ asleep' = asleep \cup {t}
            /\ Goto(t, "vfork_asleep")
    /\ UNCHANGED <<can, lineage, zombie, registry, killed, chldexit, vforked, done, exec_lock, local, hist>>

VforkWoken(t) ==
    /\ pc[t] = "vfork_asleep" /\ t \notin asleep
    /\ vwait' = [vwait EXCEPT ![on[t]] = IF on[t] \in done THEN @ ELSE @ \ {t}]
    /\ Goto(t, "vfork")
    /\ UNCHANGED <<can, lineage, zombie, registry, killed, asleep, chldexit, vforked, done, exec_lock,
                   local, hist>>

\* Mutant: the flag is set and nobody is woken.
CompleteSilent(t) ==
    /\ done' = IF t \in vforked THEN done \cup {t} ELSE done
    /\ vforked' = vforked \ {t}
    /\ UNCHANGED <<asleep, vwait>>

\* complete, when t has taken the completion out of its control block.
Complete(t) ==
    /\ IF t \in vforked
       THEN /\ done' = done \cup {t}
            /\ asleep' = asleep \ vwait[t]
            /\ vwait' = [vwait EXCEPT ![t] = {}]
       ELSE UNCHANGED <<done, asleep, vwait>>
    /\ vforked' = vforked \ {t}

-----------------------------------------------------------------------------
(* Killing the other threads: exit_group, and exec.                        *)

\* SIGKILL for the threads of the snapshot, one after the other.
KillNext(t, then) ==
    \/ /\ todo[t] = {}
       /\ Goto(t, then)
       /\ UNCHANGED <<killed, asleep, todo>>
    \/ \E u \in todo[t] :
          /\ killed' = killed \cup {u}
          /\ asleep' = asleep \ {u}
          /\ todo' = [todo EXCEPT ![t] = @ \ {u}]
          /\ UNCHANGED pc

Siblings(t) == (registry \cap Group(t)) \ {t}

ExitGroup(t) ==
    /\ pc[t] = "user" /\ "exit_group" \in can[t]
    /\ todo' = [todo EXCEPT ![t] = Siblings(t)]
    /\ Goto(t, "group_kill")
    /\ UNCHANGED <<can, lineage, zombie, registry, killed, asleep, chldexit, vfork, exec_lock, on, snap, hist>>

GroupKill(t) ==
    /\ pc[t] = "group_kill"
    /\ KillNext(t, "exit_remove")
    /\ UNCHANGED <<can, lineage, zombie, registry, chldexit, vfork, exec_lock, on, snap, hist>>

ExecCall(t) ==
    /\ pc[t] = "user" /\ "exec" \in can[t]
    /\ Goto(t, "exec_lock")
    /\ UNCHANGED <<can, lineage, zombie, registry, killed, asleep, chldexit, vfork, exec_lock, local, hist>>

ExecLock(t) ==
    /\ pc[t] = "exec_lock"
    /\ LockExec(t, "exec_load")
    /\ UNCHANGED <<can, lineage, zombie, registry, killed, asleep, chldexit, vfork, local, hist>>

Unlock(t) == exec_lock' = [exec_lock EXCEPT ![leader[t]] = None]

\* The image is loaded, or it is not one; then the snapshot of the siblings.
ExecLoad(t) ==
    /\ pc[t] = "exec_load"
    /\ \/ Goto(t, "return") /\ Unlock(t) /\ UNCHANGED <<todo, snap>>
       \/ /\ todo' = [todo EXCEPT ![t] = Siblings(t)]
          /\ snap' = [snap EXCEPT ![t] = Siblings(t)]
          /\ Goto(t, "exec_kill")
          /\ UNCHANGED exec_lock
    /\ UNCHANGED <<can, lineage, zombie, registry, killed, asleep, chldexit, vfork, on, hist>>

ExecKill(t) ==
    /\ pc[t] = "exec_kill"
    /\ KillNext(t, "exec_wait")
    /\ UNCHANGED <<can, lineage, zombie, registry, chldexit, vfork, exec_lock, on, snap, hist>>

ExecWait(t) ==
    /\ pc[t] = "exec_wait"
    /\ \/ snap[t] \cap registry = {} /\ Goto(t, "exec_commit") /\ UNCHANGED exec_lock
       \/ /\ snap[t] \cap registry # {} /\ t \in killed
          /\ Goto(t, "return") /\ Unlock(t)
    /\ snap' = [snap EXCEPT ![t] = {}]
    /\ UNCHANGED <<can, lineage, zombie, registry, killed, asleep, chldexit, vfork, on, todo, hist>>

\* Mutant: the pending signals are cleared without a last look.
ExecCommitSwallows(t) ==
    /\ pc[t] = "exec_commit"
    /\ Goto(t, "exec_done")
    /\ killed' = killed \ {t}
    /\ UNCHANGED <<can, lineage, zombie, registry, asleep, chldexit, vfork, exec_lock, local, hist>>

\* One critical section: the last look at SIGKILL, the new image, no signals.
ExecCommit(t) ==
    /\ pc[t] = "exec_commit"
    /\ IF t \in killed THEN Goto(t, "return") /\ Unlock(t) /\ UNCHANGED killed
       ELSE Goto(t, "exec_done") /\ killed' = killed \ {t} /\ UNCHANGED exec_lock
    /\ UNCHANGED <<can, lineage, zombie, registry, asleep, chldexit, vfork, local, hist>>

ExecDone(t) ==
    /\ pc[t] = "exec_done"
    /\ Complete(t)
    /\ Unlock(t)
    /\ Goto(t, "return")
    /\ UNCHANGED <<can, lineage, zombie, registry, killed, chldexit, local, hist>>

-----------------------------------------------------------------------------
(* exit_current_and_run_next.                                              *)

Exit(t) ==
    /\ pc[t] = "user" /\ ("exit" \in can[t] \/ t \in killed)
    /\ Goto(t, "exit_remove")
    /\ UNCHANGED <<can, lineage, zombie, registry, killed, asleep, chldexit, vfork, exec_lock, local, hist>>

\* recycle_on_exit: out of TID2TCB ...
ExitRemove(t) ==
    /\ pc[t] = "exit_remove"
    /\ registry' = registry \ {t}
    /\ Goto(t, "exit_zombie")
    /\ UNCHANGED <<can, lineage, zombie, killed, asleep, chldexit, vfork, exec_lock, local, hist>>

\* ... then a zombie ...
ExitZombie(t) ==
    /\ pc[t] = "exit_zombie"
    /\ zombie' = zombie \cup {t}
    /\ Goto(t, "exit_vfork")
    /\ UNCHANGED <<can, lineage, registry, killed, asleep, chldexit, vfork, exec_lock, local, hist>>

\* ... and the parent of a vfork goes on.
ExitVfork(t) ==
    /\ pc[t] = "exit_vfork"
    /\ Complete(t)
    /\ Goto(t, "exit_last")
    /\ UNCHANGED <<can, lineage, zombie, registry, killed, chldexit, exec_lock, local, hist>>

\* Mutant: the last thread is the one that was never joined by another.
ExitLastCounted(t) ==
    /\ pc[t] = "exit_last"
    /\ Goto(t, IF Group(t) = {t} THEN "exit_take" ELSE "exit_die")
    /\ UNCHANGED <<can, lineage, zombie, registry, killed, asleep, chldexit, vfork, exec_lock, local, hist>>

\* Only the last thread of the group goes on.
ExitLast(t) ==
    /\ pc[t] = "exit_last"
    /\ Goto(t, IF Siblings(t) = {} THEN "exit_take" ELSE "exit_die")
    /\ UNCHANGED <<can, lineage, zombie, registry, killed, asleep, chldexit, vfork, exec_lock, local, hist>>

\* It takes its parent and its children out of its control block.
ExitTake(t) ==
    /\ pc[t] = "exit_take"
    /\ on' = [on EXCEPT ![t] = parent[t]]
    /\ todo' = [todo EXCEPT ![t] = children[t]]
    /\ children' = [children EXCEPT ![t] = {}]
    /\ IF parent[t] # None /\ Exists(parent[t])
       THEN Goto(t, "exit_sigchld") /\ UNCHANGED told
       ELSE Goto(t, "exit_orphans") /\ told' = told \cup {leader[t]}
    /\ UNCHANGED <<can, leader, parent, zombie, registry, killed, asleep, chldexit, vfork, exec_lock,
                   snap, adopted, collected>>

\* SIGCHLD wakes the threads of the parent's group that do not block it.
ExitSigchld(t) ==
    /\ pc[t] = "exit_sigchld"
    /\ \E deliverable \in {{}, registry \cap Group(on[t])} : asleep' = asleep \ deliverable
    /\ told' = told \cup {leader[t]}
    /\ Goto(t, "exit_wake")
    /\ UNCHANGED <<can, lineage, zombie, registry, killed, chldexit, vfork, exec_lock, local, adopted, collected>>

\* wake_child_exit_waiters.
ExitWake(t) ==
    LET g == leader[on[t]]
    IN  /\ pc[t] = "exit_wake"
        /\ asleep' = asleep \ chldexit[g]
        /\ chldexit' = [chldexit EXCEPT ![g] = {}]
        /\ Goto(t, "exit_orphans")
        /\ UNCHANGED <<can, lineage, zombie, registry, killed, vfork, exec_lock, local, hist>>

\* The children get a new parent ...
ExitOrphans(t) ==
    /\ pc[t] = "exit_orphans"
    /\ parent' = [c \in Thread |-> IF c \in todo[t] THEN InitTask ELSE parent[c]]
    /\ adopted' = adopted \cup todo[t]
    /\ Goto(t, "exit_adopt")
    /\ UNCHANGED <<can, leader, children, zombie, registry, killed, asleep, chldexit, vfork, exec_lock,
                   local, told, collected>>

\* ... and then join its list.
ExitAdopt(t) ==
    /\ pc[t] = "exit_adopt"
    /\ children' = [children EXCEPT ![InitTask] = @ \cup todo[t]]
    /\ todo' = [todo EXCEPT ![t] = {}]
    /\ Goto(t, "exit_die")
    /\ UNCHANGED <<can, leader, parent, zombie, registry, killed, asleep, chldexit, vfork, exec_lock,
                   on, snap, hist>>

\* The thread leaves its CPU; a control block nobody holds goes with its list.
ExitDie(t) ==
    /\ pc[t] = "exit_die"
    /\ children' = [children EXCEPT ![t] =
                        IF \E p \in Thread : t \in children[p] THEN @ ELSE {}]
    /\ on' = [on EXCEPT ![t] = None]
    /\ Goto(t, "dead")
    /\ UNCHANGED <<can, leader, parent, zombie, registry, killed, asleep, chldexit, vfork, exec_lock,
                   todo, snap, hist>>

-----------------------------------------------------------------------------
(* wait4 and waitid.                                                       *)

\* The children of t that its filter names: one of them, or (None) any.
Matches(t) == {c \in children[t] : on[t] \in {None, c}}

\* wait4_should_block and waitid_should_block.
ShouldBlock(t) == Matches(t) # {} /\ Matches(t) \cap zombie = {}

WaitCall(t, call, filter) ==
    /\ pc[t] = "user" /\ call \in can[t]
    /\ on' = [on EXCEPT ![t] = filter]
    /\ Goto(t, call)
    /\ UNCHANGED <<can, lineage, zombie, registry, killed, asleep, chldexit, vfork, exec_lock,
                   todo, snap, hist>>

\* A child leaves the list of t; nobody holds its control block any more.
Reap(t, c, then) ==
    /\ children' = [children EXCEPT ![t] = @ \ {c},
                                    ![c] = IF pc[c] = "dead" THEN {} ELSE @]
    /\ Goto(t, then)

\* The scan: a zombie that matches, or ECHILD, WNOHANG, or to sleep.
\* wait4 takes the child first; on EFAULT it returns without remove_process.
WaitLook(t) ==
    /\ pc[t] \in {"wait4", "waitid"}
    /\ \/ \E c \in Matches(t) \cap zombie :
              /\ on' = [on EXCEPT ![t] = c]
              /\ IF pc[t] = "wait4"
                 THEN \E then \in {"wait_remove", "return"} : Reap(t, c, then)
                 ELSE Goto(t, "waitid_info") /\ UNCHANGED children
       \/ /\ Matches(t) \cap zombie = {}
          /\ \/ Goto(t, "return")
             \/ Matches(t) # {} /\ Goto(t, IF pc[t] = "wait4" THEN "wait4_block" ELSE "waitid_block")
          /\ UNCHANGED <<on, children>>
    /\ UNCHANGED <<can, leader, parent, zombie, registry, killed, asleep, chldexit, vfork, exec_lock,
                   todo, snap, hist>>

\* wait4_block_current and waitid_block_current.
WaitBlock(t) ==
    /\ pc[t] \in {"wait4_block", "waitid_block"}
    /\ IF ShouldBlock(t)
       THEN /\ chldexit' = [chldexit EXCEPT ![leader[t]] = @ \cup {t}]
            /\ asleep' = asleep \cup {t}
            /\ Goto(t, IF pc[t] = "wait4_block" THEN "wait4_asleep" ELSE "waitid_asleep")
       ELSE /\ Goto(t, IF pc[t] = "wait4_block" THEN "wait4" ELSE "waitid")
            /\ UNCHANGED <<chldexit, asleep>>
    /\ UNCHANGED <<can, lineage, zombie, registry, killed, vfork, exec_lock, local, hist>>

WaitWoken(t) ==
    /\ pc[t] \in {"wait4_asleep", "waitid_asleep"} /\ t \notin asleep
    /\ Goto(t, IF pc[t] = "wait4_asleep" THEN "wait4" ELSE "waitid")
    /\ UNCHANGED <<can, lineage, zombie, registry, killed, asleep, chldexit, vfork, exec_lock, local, hist>>

\* waitid writes the information first; EFAULT and WNOWAIT leave the child.
WaitidInfo(t) ==
    /\ pc[t] = "waitid_info"
    /\ \/ Goto(t, "return") /\ UNCHANGED children
       \/ on[t] \in children[t] /\ Reap(t, on[t], "wait_remove")
    /\ UNCHANGED <<can, leader, parent, zombie, registry, killed, asleep, chldexit, vfork, exec_lock,
                   local, hist>>

\* remove_process: the group leaves TID2TCB and the run queues.  A thread of
\* it that waits in a run queue does not run again.
WaitRemove(t) ==
    LET members == registry \cap Group(on[t])
    IN  /\ pc[t] = "wait_remove"
        /\ registry' = registry \ members
        /\ \E queued \in SUBSET {u \in members : u \notin asleep} :
              pc' = [u \in Thread |-> IF u = t THEN "return"
                                      ELSE IF u \in queued THEN "lost" ELSE pc[u]]
        /\ collected' = collected \cup {leader[on[t]]}
        /\ UNCHANGED <<can, lineage, zombie, killed, asleep, chldexit, vfork, exec_lock, local,
                       told, adopted>>

-----------------------------------------------------------------------------
\* trap_return: a killed thread exits instead.
Return(t) ==
    /\ pc[t] = "return"
    /\ on' = [on EXCEPT ![t] = None]
    /\ Goto(t, IF t \in killed THEN "exit_remove" ELSE "user")
    /\ UNCHANGED <<can, lineage, zombie, registry, killed, asleep, chldexit, vfork, exec_lock,
                   todo, snap, hist>>

\* A filter names any child or one of the caller's; ECHILD needs no other.
Call(t) ==
    \/ \E call \in {"fork", "vfork"} : Fork(t, call)
    \/ CloneCall(t) \/ ExecCall(t) \/ ExitGroup(t)
    \/ \E call \in {"wait4", "waitid"}, c \in children[t] \cup {None} : WaitCall(t, call, c)

Step(t) ==
    \/ CloneLock(t) \/ Clone(t)
    \/ VforkLook(t) \/ VforkBlock(t) \/ VforkWoken(t)
    \/ GroupKill(t)
    \/ ExecLock(t) \/ ExecLoad(t) \/ ExecKill(t) \/ ExecWait(t) \/ ExecCommit(t) \/ ExecDone(t)
    \/ ExitRemove(t) \/ ExitZombie(t) \/ ExitVfork(t) \/ ExitLast(t) \/ ExitTake(t)
    \/ ExitSigchld(t) \/ ExitWake(t) \/ ExitOrphans(t) \/ ExitAdopt(t) \/ ExitDie(t)
    \/ WaitLook(t) \/ WaitBlock(t) \/ WaitWoken(t) \/ WaitidInfo(t) \/ WaitRemove(t)
    \/ Return(t)

Next == \E t \in Thread : Call(t) \/ Exit(t) \/ Step(t)

Spec == Init /\ [][Next]_vars

\* Threads in the kernel run on, and the timer takes a killed thread out of
\* user space.
Runs(t) == Step(t) \/ (t \in killed /\ Exit(t))
FairSpec == Spec /\ \A t \in Thread : WF_vars(Runs(t))

-----------------------------------------------------------------------------
(* Properties.                                                             *)

Exiting == {"exit_zombie", "exit_vfork", "exit_last", "exit_take", "exit_sigchld", "exit_wake",
            "exit_orphans", "exit_adopt", "exit_die", "dead"}

Alone(t) == \A u \in Group(t) \ {t} : pc[u] \in Exiting

\* A thread that installs a new image is the only one of its group in TID2TCB,
\* none is born meanwhile, and the others are past the point where they left
\* it, unless the parent collected the process beside its living threads.
ExecAlone ==
    \A t \in Thread : pc[t] \in {"exec_commit", "exec_done"}
                          => Siblings(t) = {} /\ (leader[t] \in collected \/ Alone(t))

\* SIGKILL is never lost on the way: not even exec, which clears the pending
\* signals, takes it back ("避免信号被吞掉").
KillSticks == [][killed \subseteq killed']_vars

\* When all threads of a group have ended, one of them has told the parent,
\* however their exits interleave.
EndIsTold ==
    \A t \in Thread :
        leader[t] = t /\ (\A u \in Group(t) : pc[u] = "dead") => t \in told

\* The parent of a vfork is back in user space only after the child's exec or
\* exit, unless it was killed (INITTASK adopts the child of one that was), and
\* it does not sleep on beside a child that is done.
VforkWaits ==
    \A t \in Thread :
        /\ pc[t] = "user" /\ t \notin killed => \A c \in vforked \ adopted : parent[c] # t
        /\ pc[t] = "vfork_asleep" /\ t \in asleep => on[t] \notin done

\* u still lives, or it is on its way to wake t.
Comes(u, t) ==
    \/ u \in registry
    \/ pc[u] \in {"exit_zombie", "exit_vfork", "exit_last", "exit_take"}
    \/ pc[u] \in {"exit_sigchld", "exit_wake"} /\ on[u] = t

\* wait4 and waitid do not sleep beside a child of their own that has exited:
\* as long as they do, a thread of the child lives or is on its way to wake
\* them.  (A child that INITTASK adopts when it is a zombie already announced
\* its end to the parent it had, and ExitAdopt wakes nobody.)
NoLostChild ==
    \A t \in asleep :
        pc[t] # "vfork_asleep" =>
            \A c \in (Matches(t) \cap zombie) \ adopted : \E u \in Group(c) : Comes(u, t)

\* Exits reach the parent: the end of a group is told, and no parent sleeps
\* through one.
ParentTold == EndIsTold /\ NoLostChild

\* exec gets past the other threads, because each of them looks at SIGKILL
\* wherever it waits ("需要保证内核中所有轮询都加入信号检查").
ExecEnds == \A t \in Thread : pc[t] = "exec_wait" ~> pc[t] # "exec_wait"
=============================================================================
