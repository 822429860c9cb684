----------------------------- MODULE ProcessInv ----------------------------
(***************************************************************************)
(* exec, vfork and SIGKILL, for any number of threads and any programs.    *)
(***************************************************************************)
EXTENDS Process, TLAPS

-----------------------------------------------------------------------------
(* Types, and what the fields of a thread say about each other.            *)

PC == {"unborn", "user", "return", "clone_lock", "clone", "vfork", "vfork_block", "vfork_asleep",
       "group_kill", "exec_lock", "exec_load", "exec_kill", "exec_wait", "exec_commit", "exec_done",
       "exit_remove", "wait4", "waitid", "wait4_block", "waitid_block", "wait4_asleep",
       "waitid_asleep", "waitid_info", "wait_remove", "lost"} \cup Exiting

TypeOK ==
    /\ leader \in [Thread -> Thread \cup {None}]
    /\ parent \in [Thread -> Thread \cup {None}]
    /\ children \in [Thread -> SUBSET Thread]
    /\ zombie \subseteq Thread /\ registry \subseteq Thread /\ killed \subseteq Thread
    /\ asleep \subseteq Thread
    /\ chldexit \in [Thread -> SUBSET Thread]
    /\ vforked \subseteq Thread /\ done \subseteq Thread
    /\ vwait \in [Thread -> SUBSET Thread]
    /\ exec_lock \in [Thread -> Thread \cup {None}]
    /\ pc \in [Thread -> PC]
    /\ on \in [Thread -> Thread \cup {None}]
    /\ todo \in [Thread -> SUBSET Thread]
    /\ snap \in [Thread -> SUBSET Thread]

InVfork == {"vfork", "vfork_block", "vfork_asleep"}
InWait == {"wait4_asleep", "waitid_asleep"}
Carrying == {"exit_sigchld", "exit_wake", "exit_orphans", "exit_adopt"}
About == InVfork \cup {"waitid_info", "wait_remove", "exit_sigchld", "exit_wake"}

\* A thread that exists has a leader, which leads itself; parents, children
\* and what a call is about exist.
Lineage ==
    /\ leader[InitTask] = InitTask
    /\ \A t \in Thread :
          /\ pc[t] = "unborn" <=> leader[t] = None
          /\ leader[t] # None => leader[leader[t]] = leader[t]
          /\ parent[t] # None => leader[parent[t]] # None
          /\ pc[t] \in About => on[t] # None
          /\ on[t] # None => leader[on[t]] # None
          /\ t \in vforked \cup done => leader[t] # None
          /\ \A c \in children[t] \cup todo[t] : leader[c] # None

\* TID2TCB: a thread leaves it on the way out, and only so unless the process
\* is collected.
Registered ==
    \A t \in Thread :
        /\ t \in registry => pc[t] \notin Exiting \cup {"unborn"}
        /\ leader[t] # None /\ pc[t] \notin Exiting => t \in registry \/ leader[t] \in collected

\* Who sleeps is in the queue of what it waits for.
Sleepers ==
    \A t \in asleep :
        /\ pc[t] \in InWait \cup {"vfork_asleep"}
        /\ pc[t] \in InWait => t \in chldexit[leader[t]]
        /\ pc[t] = "vfork_asleep" => t \in vwait[on[t]] /\ on[t] \notin done

-----------------------------------------------------------------------------
(* exec.                                                                   *)

Locked == {"clone", "exec_load", "exec_kill", "exec_wait", "exec_commit", "exec_done"}

\* A thread at such a point holds exec_update_lock ...
Owned == \A t \in Thread : pc[t] \in Locked => exec_lock[leader[t]] = t

\* ... and exec knows every sibling that is registered.
Known ==
    \A t \in Thread :
        /\ pc[t] \in {"exec_kill", "exec_wait"} => Siblings(t) \subseteq snap[t]
        /\ pc[t] \in {"exec_commit", "exec_done"} => Siblings(t) = {}

-----------------------------------------------------------------------------
(* vfork.                                                                  *)

\* The parent of a child that has not completed waits for it, or will not
\* return to user space.
Suspended ==
    \A c \in vforked :
        /\ c \notin done
        /\ c \notin adopted =>
              /\ parent[c] # None
              /\ \/ parent[c] \in killed
                 \/ pc[parent[c]] = "lost"
                 \/ pc[parent[c]] \in InVfork /\ on[parent[c]] = c

-----------------------------------------------------------------------------
Safe ==
    /\ TypeOK /\ Lineage /\ Registered /\ Sleepers
    /\ Owned /\ Known /\ Suspended

-----------------------------------------------------------------------------
(* Three kinds of steps, by what they change.                              *)

\* Steps of one thread that concern nobody else, SIGKILL apart ...
Calm(t) ==
    \/ CloneCall(t) \/ ExecCall(t) \/ ExitGroup(t)
    \/ \E call \in {"wait4", "waitid"}, c \in children[t] \cup {None} : WaitCall(t, call, c)
    \/ Exit(t) \/ CloneLock(t) \/ GroupKill(t) \/ ExecLock(t) \/ ExecLoad(t) \/ ExecKill(t)
    \/ ExecWait(t) \/ ExecCommit(t) \/ WaitWoken(t) \/ Return(t)

\* ... which have this effect.
Settled ==
    {"user", "return", "clone_lock", "exec_lock", "group_kill", "exit_remove",
     "wait4", "waitid", "wait4_asleep", "waitid_asleep"} \cup Locked

Moves(t) ==
    /\ pc[t] \in Settled /\ pc'[t] \in Settled
    /\ \A u \in Thread \ {t} : pc'[u] = pc[u] /\ on'[u] = on[u] /\ todo'[u] = todo[u]
    /\ on'[t] # None => leader[on'[t]] # None
    /\ \A c \in todo'[t] : leader[c] # None
    /\ t \notin asleep' /\ asleep' \subseteq asleep
    /\ killed \subseteq killed'
    /\ UNCHANGED <<lineage, zombie, registry, chldexit, vfork, hist>>

\* The other steps.
Loud(t) ==
    \/ \E call \in {"fork", "vfork"} : Fork(t, call)
    \/ Clone(t) \/ VforkLook(t) \/ VforkBlock(t) \/ VforkWoken(t) \/ ExecDone(t)
    \/ ExitRemove(t) \/ ExitZombie(t) \/ ExitVfork(t) \/ ExitLast(t) \/ ExitTake(t)
    \/ ExitSigchld(t) \/ ExitWake(t) \/ ExitOrphans(t) \/ ExitAdopt(t) \/ ExitDie(t)
    \/ WaitLook(t) \/ WaitBlock(t) \/ WaitidInfo(t) \/ WaitRemove(t)

\* Steps that need exec_update_lock, and fork ...
Locking(t) ==
    \/ \E call \in {"fork", "vfork"} : Fork(t, call)
    \/ CloneLock(t) \/ Clone(t) \/ ExecLock(t) \/ ExecLoad(t) \/ ExecKill(t) \/ ExecWait(t)
    \/ ExecCommit(t) \/ ExecDone(t)

\* ... and the effect on the lock of the steps that do not.
Open(t) ==
    \/ CloneCall(t) \/ ExecCall(t) \/ ExitGroup(t)
    \/ \E call \in {"wait4", "waitid"}, c \in children[t] \cup {None} : WaitCall(t, call, c)
    \/ Exit(t) \/ VforkLook(t) \/ VforkBlock(t) \/ VforkWoken(t) \/ GroupKill(t)
    \/ ExitRemove(t) \/ ExitZombie(t) \/ ExitVfork(t) \/ ExitLast(t) \/ ExitTake(t)
    \/ ExitSigchld(t) \/ ExitWake(t) \/ ExitOrphans(t) \/ ExitAdopt(t) \/ ExitDie(t)
    \/ WaitLook(t) \/ WaitBlock(t) \/ WaitWoken(t) \/ WaitidInfo(t) \/ WaitRemove(t)
    \/ Return(t)

Unlocked(t) ==
    /\ pc[t] \notin Locked /\ pc'[t] \notin Locked
    /\ \A u \in Thread \ {t} : pc'[u] \in {pc[u], "lost"}
    /\ registry' \subseteq registry
    /\ UNCHANGED <<leader, exec_lock, snap>>

-----------------------------------------------------------------------------
(* Every step keeps the invariant.                                         *)

\* No step leaves the types.
LEMMA TypeStep ==
    ASSUME TypeOK,
           NEW t \in Thread, Call(t) \/ Exit(t) \/ Step(t)
    PROVE  TypeOK'
<1>Clone. CASE Clone(t)
  <2>1. pc' \in [Thread -> PC]
    BY <1>Clone DEF Clone, Birth, Fresh, Unborn, Goto, TypeOK, PC, Exiting
  <2>2. leader' \in [Thread -> Thread \cup {None}]
    BY <1>Clone DEF Clone, Birth, Fresh, Unborn, TypeOK
  <2>3. parent' \in [Thread -> Thread \cup {None}]
    BY <1>Clone DEF Clone, Birth, Fresh, Unborn, TypeOK
  <2>4. exec_lock' \in [Thread -> Thread \cup {None}]
    BY <1>Clone, Zenon DEF Clone, Birth, Fresh, Unborn, TypeOK
  <2>5. registry' \subseteq Thread
    BY <1>Clone DEF Clone, Birth, Fresh, Unborn, TypeOK
  <2> QED  BY <1>Clone, <2>1, <2>2, <2>3, <2>4, <2>5 DEF Clone, Birth, Fresh, Unborn, Goto,
         lineage, vfork, local, hist, TypeOK
<1>VforkBlock. CASE VforkBlock(t)
  <2>1. pc' \in [Thread -> PC]
    BY <1>VforkBlock DEF VforkBlock, Goto, TypeOK, PC, Exiting
  <2>2. vwait' \in [Thread -> SUBSET Thread]
    BY <1>VforkBlock DEF VforkBlock, TypeOK
  <2>3. asleep' \subseteq Thread
    BY <1>VforkBlock DEF VforkBlock, TypeOK
  <2> QED  BY <1>VforkBlock, <2>1, <2>2, <2>3 DEF VforkBlock, Goto, lineage, vfork, local, hist,
         TypeOK
<1>GroupKill. CASE GroupKill(t)
  <2>1. pc' \in [Thread -> PC]
    BY <1>GroupKill DEF GroupKill, KillNext, Goto, TypeOK, PC, Exiting
  <2>2. todo' \in [Thread -> SUBSET Thread]
    BY <1>GroupKill DEF GroupKill, KillNext, TypeOK
  <2>3. killed' \subseteq Thread
    BY <1>GroupKill DEF GroupKill, KillNext, TypeOK
  <2>4. asleep' \subseteq Thread
    BY <1>GroupKill DEF GroupKill, KillNext, TypeOK
  <2> QED  BY <1>GroupKill, <2>1, <2>2, <2>3, <2>4 DEF GroupKill, KillNext, Goto, lineage,
         vfork, local, hist, TypeOK
<1>ExecLoad. CASE ExecLoad(t)
  <2>1. pc' \in [Thread -> PC]
    BY <1>ExecLoad DEF ExecLoad, Unlock, Goto, TypeOK, PC, Exiting
  <2>2. exec_lock' \in [Thread -> Thread \cup {None}]
    BY <1>ExecLoad DEF ExecLoad, Unlock, TypeOK
  <2>3. Siblings(t) \subseteq Thread
    BY <1>ExecLoad DEF ExecLoad, Unlock, TypeOK, Siblings
  <2>4. todo' \in [Thread -> SUBSET Thread]
    BY <1>ExecLoad, <2>3 DEF ExecLoad, Unlock, TypeOK
  <2>5. snap' \in [Thread -> SUBSET Thread]
    BY <1>ExecLoad, <2>3 DEF ExecLoad, Unlock, TypeOK
  <2> QED  BY <1>ExecLoad, <2>1, <2>2, <2>3, <2>4, <2>5 DEF ExecLoad, Unlock, Goto, lineage,
         vfork, local, hist, TypeOK
<1>ExecKill. CASE ExecKill(t)
  <2>1. pc' \in [Thread -> PC]
    BY <1>ExecKill DEF ExecKill, KillNext, Goto, TypeOK, PC, Exiting
  <2>2. todo' \in [Thread -> SUBSET Thread]
    BY <1>ExecKill DEF ExecKill, KillNext, TypeOK
  <2>3. killed' \subseteq Thread
    BY <1>ExecKill DEF ExecKill, KillNext, TypeOK
  <2>4. asleep' \subseteq Thread
    BY <1>ExecKill DEF ExecKill, KillNext, TypeOK
  <2> QED  BY <1>ExecKill, <2>1, <2>2, <2>3, <2>4 DEF ExecKill, KillNext, Goto, lineage, vfork,
         local, hist, TypeOK
<1>ExecDone. CASE ExecDone(t)
  <2>1. pc' \in [Thread -> PC]
    BY <1>ExecDone DEF ExecDone, Complete, Unlock, Goto, TypeOK, PC, Exiting
  <2>2. vwait' \in [Thread -> SUBSET Thread]
    BY <1>ExecDone DEF ExecDone, Complete, Unlock, TypeOK
  <2>3. done' \subseteq Thread
    BY <1>ExecDone DEF ExecDone, Complete, Unlock, TypeOK
  <2>4. asleep' \subseteq Thread
    BY <1>ExecDone DEF ExecDone, Complete, Unlock, TypeOK
  <2>5. vforked' \subseteq Thread
    BY <1>ExecDone DEF ExecDone, Complete, Unlock, TypeOK
  <2>6. exec_lock' \in [Thread -> Thread \cup {None}]
    BY <1>ExecDone, Zenon DEF ExecDone, Complete, Unlock, TypeOK
  <2> QED  BY <1>ExecDone, <2>1, <2>2, <2>3, <2>4, <2>5, <2>6 DEF ExecDone, Complete, Unlock,
         Goto, lineage, vfork, local, hist, TypeOK
<1>ExitVfork. CASE ExitVfork(t)
  <2>1. pc' \in [Thread -> PC]
    BY <1>ExitVfork DEF ExitVfork, Complete, Goto, TypeOK, PC, Exiting
  <2>2. vwait' \in [Thread -> SUBSET Thread]
    BY <1>ExitVfork DEF ExitVfork, Complete, TypeOK
  <2>3. done' \subseteq Thread
    BY <1>ExitVfork DEF ExitVfork, Complete, TypeOK
  <2>4. asleep' \subseteq Thread
    BY <1>ExitVfork DEF ExitVfork, Complete, TypeOK
  <2>5. vforked' \subseteq Thread
    BY <1>ExitVfork DEF ExitVfork, Complete, TypeOK
  <2> QED  BY <1>ExitVfork, <2>1, <2>2, <2>3, <2>4, <2>5 DEF ExitVfork, Complete, Goto, lineage,
         vfork, local, hist, TypeOK
<1>WaitBlock. CASE WaitBlock(t)
  <2>1. pc' \in [Thread -> PC]
    BY <1>WaitBlock DEF WaitBlock, Goto, TypeOK, PC, Exiting
  <2>2. chldexit' \in [Thread -> SUBSET Thread]
    BY <1>WaitBlock DEF WaitBlock, TypeOK
  <2>3. asleep' \subseteq Thread
    BY <1>WaitBlock DEF WaitBlock, TypeOK
  <2> QED  BY <1>WaitBlock, <2>1, <2>2, <2>3 DEF WaitBlock, Goto, lineage, vfork, local, hist,
         TypeOK
<1>WaitRemove. CASE WaitRemove(t)
  <2>1. pc' \in [Thread -> PC]
    BY <1>WaitRemove DEF WaitRemove, TypeOK, PC, Exiting
  <2>2. registry' \subseteq Thread
    BY <1>WaitRemove DEF WaitRemove, TypeOK
  <2> QED  BY <1>WaitRemove, <2>1, <2>2 DEF WaitRemove, lineage, vfork, local, hist, TypeOK
<1> USE DEF Goto, lineage, vfork, local, hist, TypeOK, PC, Exiting
<1>Fork. CASE \E call \in {"fork", "vfork"} : Fork(t, call)
  BY <1>Fork DEF Fork, Birth, Fresh, Unborn
<1>CloneCall. CASE CloneCall(t)  BY <1>CloneCall DEF CloneCall
<1>ExecCall. CASE ExecCall(t)  BY <1>ExecCall DEF ExecCall
<1>ExitGroup. CASE ExitGroup(t)  BY <1>ExitGroup DEF ExitGroup, Siblings
<1>WaitCall. CASE \E call \in {"wait4", "waitid"}, c \in children[t] \cup {None} : WaitCall(t, call, c)
  BY <1>WaitCall DEF WaitCall
<1>Exit. CASE Exit(t)  BY <1>Exit DEF Exit
<1>CloneLock. CASE CloneLock(t)  BY <1>CloneLock DEF CloneLock, LockExec
<1>VforkLook. CASE VforkLook(t)  BY <1>VforkLook DEF VforkLook
<1>VforkWoken. CASE VforkWoken(t)  BY <1>VforkWoken, Zenon DEF VforkWoken
<1>ExecLock. CASE ExecLock(t)  BY <1>ExecLock DEF ExecLock, LockExec
<1>ExecWait. CASE ExecWait(t)  BY <1>ExecWait DEF ExecWait, Unlock
<1>ExecCommit. CASE ExecCommit(t)  BY <1>ExecCommit DEF ExecCommit, Unlock
<1>ExitRemove. CASE ExitRemove(t)  BY <1>ExitRemove DEF ExitRemove
<1>ExitZombie. CASE ExitZombie(t)  BY <1>ExitZombie DEF ExitZombie
<1>ExitLast. CASE ExitLast(t)  BY <1>ExitLast DEF ExitLast
<1>ExitTake. CASE ExitTake(t)  BY <1>ExitTake DEF ExitTake
<1>ExitSigchld. CASE ExitSigchld(t)  BY <1>ExitSigchld DEF ExitSigchld
<1>ExitWake. CASE ExitWake(t)  BY <1>ExitWake, Zenon DEF ExitWake
<1>ExitOrphans. CASE ExitOrphans(t)  BY <1>ExitOrphans, ThreadAssumption DEF ExitOrphans
<1>ExitAdopt. CASE ExitAdopt(t)  BY <1>ExitAdopt, Zenon DEF ExitAdopt
<1>ExitDie. CASE ExitDie(t)  BY <1>ExitDie DEF ExitDie
<1>WaitLook. CASE WaitLook(t)  BY <1>WaitLook DEF WaitLook, Matches, Reap
<1>WaitWoken. CASE WaitWoken(t)  BY <1>WaitWoken DEF WaitWoken
<1>WaitidInfo. CASE WaitidInfo(t)  BY <1>WaitidInfo DEF WaitidInfo, Reap
<1>Return. CASE Return(t)  BY <1>Return DEF Return
<1> QED  BY Zenon, <1>Fork, <1>CloneCall, <1>ExecCall, <1>ExitGroup, <1>WaitCall, <1>Exit,
       <1>CloneLock, <1>Clone, <1>VforkLook, <1>VforkBlock, <1>VforkWoken, <1>GroupKill,
       <1>ExecLock, <1>ExecLoad, <1>ExecKill, <1>ExecWait, <1>ExecCommit, <1>ExecDone,
       <1>ExitRemove, <1>ExitZombie, <1>ExitVfork, <1>ExitLast, <1>ExitTake, <1>ExitSigchld,
       <1>ExitWake, <1>ExitOrphans, <1>ExitAdopt, <1>ExitDie, <1>WaitLook, <1>WaitBlock,
       <1>WaitWoken, <1>WaitidInfo, <1>WaitRemove, <1>Return
       DEF Call, Step

\* The effect of a calm step.
LEMMA CalmStep ==
    ASSUME TypeOK, Lineage, Sleepers,
           NEW t \in Thread, Calm(t)
    PROVE  Moves(t)
<1> USE DEF Goto, lineage, vfork, local, hist, TypeOK, Lineage, Sleepers, InWait, Moves,
       Settled, Locked
<1>CloneCall. CASE CloneCall(t)  BY <1>CloneCall DEF CloneCall
<1>ExecCall. CASE ExecCall(t)  BY <1>ExecCall DEF ExecCall
<1>ExitGroup. CASE ExitGroup(t)  BY <1>ExitGroup DEF ExitGroup, Siblings, Group
<1>WaitCall. CASE \E call \in {"wait4", "waitid"}, c \in children[t] \cup {None} : WaitCall(t, call, c)
  BY <1>WaitCall DEF WaitCall
<1>Exit. CASE Exit(t)  BY <1>Exit DEF Exit
<1>CloneLock. CASE CloneLock(t)  BY <1>CloneLock DEF CloneLock, LockExec
<1>GroupKill. CASE GroupKill(t)  BY <1>GroupKill DEF GroupKill, KillNext
<1>ExecLock. CASE ExecLock(t)  BY <1>ExecLock DEF ExecLock, LockExec
<1>ExecLoad. CASE ExecLoad(t)  BY <1>ExecLoad DEF ExecLoad, Unlock, Siblings, Group
<1>ExecKill. CASE ExecKill(t)  BY <1>ExecKill DEF ExecKill, KillNext
<1>ExecWait. CASE ExecWait(t)  BY <1>ExecWait DEF ExecWait, Unlock
<1>ExecCommit. CASE ExecCommit(t)  BY <1>ExecCommit DEF ExecCommit, Unlock
<1>WaitWoken. CASE WaitWoken(t)  BY <1>WaitWoken DEF WaitWoken
<1>Return. CASE Return(t)  BY <1>Return DEF Return
<1> QED  BY Zenon, <1>CloneCall, <1>ExecCall, <1>ExitGroup, <1>WaitCall, <1>Exit, <1>CloneLock,
       <1>GroupKill, <1>ExecLock, <1>ExecLoad, <1>ExecKill, <1>ExecWait, <1>ExecCommit,
       <1>WaitWoken, <1>Return
       DEF Calm

\* What does not concern the lock is kept by it.
LEMMA MovesKeeps ==
    ASSUME TypeOK, Lineage, Registered, Sleepers, Suspended, NEW t \in Thread, Moves(t)
    PROVE  Lineage' /\ Registered' /\ Sleepers' /\ Suspended'
<1>1. Lineage'
  BY DEF Moves, Settled, Locked, lineage, vfork, TypeOK, Lineage, About, InVfork
<1>2. Registered'
  BY DEF Moves, Settled, Locked, lineage, hist, TypeOK, Registered, Exiting
<1>3. Sleepers'
  BY DEF Moves, lineage, vfork, TypeOK, Sleepers
<1>4. Suspended'
  BY DEF Moves, Settled, Locked, lineage, vfork, hist, TypeOK, Suspended, InVfork
<1> QED  BY <1>1, <1>2, <1>3, <1>4

\* TID2TCB holds the threads that have not left it.
LEMMA RegisteredStep ==
    ASSUME TypeOK, Lineage, Registered,
           NEW t \in Thread, Loud(t)
    PROVE  Registered'
<1> USE DEF Goto, lineage, vfork, local, hist, TypeOK, Lineage, Registered, Exiting
<1>Fork. CASE \E call \in {"fork", "vfork"} : Fork(t, call)
  BY <1>Fork DEF Fork, Birth, Fresh, Unborn
<1>Clone. CASE Clone(t)  BY <1>Clone DEF Clone, Birth, Fresh, Unborn
<1>VforkLook. CASE VforkLook(t)  BY <1>VforkLook DEF VforkLook
<1>VforkBlock. CASE VforkBlock(t)  BY <1>VforkBlock DEF VforkBlock
<1>VforkWoken. CASE VforkWoken(t)  BY <1>VforkWoken DEF VforkWoken
<1>ExecDone. CASE ExecDone(t)  BY <1>ExecDone DEF ExecDone, Complete, Unlock
<1>ExitRemove. CASE ExitRemove(t)  BY <1>ExitRemove DEF ExitRemove
<1>ExitZombie. CASE ExitZombie(t)  BY <1>ExitZombie DEF ExitZombie
<1>ExitVfork. CASE ExitVfork(t)  BY <1>ExitVfork DEF ExitVfork, Complete
<1>ExitLast. CASE ExitLast(t)  BY <1>ExitLast DEF ExitLast
<1>ExitTake. CASE ExitTake(t)  BY <1>ExitTake DEF ExitTake
<1>ExitSigchld. CASE ExitSigchld(t)  BY <1>ExitSigchld DEF ExitSigchld
<1>ExitWake. CASE ExitWake(t)  BY <1>ExitWake DEF ExitWake
<1>ExitOrphans. CASE ExitOrphans(t)  BY <1>ExitOrphans DEF ExitOrphans
<1>ExitAdopt. CASE ExitAdopt(t)  BY <1>ExitAdopt DEF ExitAdopt
<1>ExitDie. CASE ExitDie(t)  BY <1>ExitDie DEF ExitDie
<1>WaitLook. CASE WaitLook(t)  BY <1>WaitLook DEF WaitLook, Matches, Reap
<1>WaitBlock. CASE WaitBlock(t)  BY <1>WaitBlock DEF WaitBlock
<1>WaitidInfo. CASE WaitidInfo(t)  BY <1>WaitidInfo DEF WaitidInfo, Reap
<1>WaitRemove. CASE WaitRemove(t)  BY <1>WaitRemove DEF WaitRemove, Group
<1> QED  BY Zenon, <1>Fork, <1>Clone, <1>VforkLook, <1>VforkBlock, <1>VforkWoken, <1>ExecDone,
       <1>ExitRemove, <1>ExitZombie, <1>ExitVfork, <1>ExitLast, <1>ExitTake, <1>ExitSigchld,
       <1>ExitWake, <1>ExitOrphans, <1>ExitAdopt, <1>ExitDie, <1>WaitLook, <1>WaitBlock,
       <1>WaitidInfo, <1>WaitRemove
       DEF Loud

\* Lineage is kept.
LEMMA LineageStep ==
    ASSUME TypeOK, Lineage,
           NEW t \in Thread, Loud(t)
    PROVE  Lineage'
<1>Clone. CASE Clone(t)
  <2>1. CASE Unborn = {}
    BY <1>Clone, <2>1 DEF Clone, Goto, vfork, local, TypeOK, Lineage, About, InVfork
  <2>2. CASE Unborn # {}
    <3>1. PICK u \in Thread :
              /\ leader[u] = None /\ leader' = [leader EXCEPT ![u] = leader[t]]
              /\ parent' = [parent EXCEPT ![u] = parent[t]]
              /\ pc' = [pc EXCEPT ![t] = "return", ![u] = "user"]
      BY <1>Clone, <2>2 DEF Clone, Birth, Fresh, Unborn
    <3>2. leader[t] # None /\ t # u /\ u # InitTask
      BY <1>Clone, <3>1, ThreadAssumption DEF Clone, Lineage
    <3>3. \A v \in Thread : leader[v] # None => leader'[v] = leader[v]
      BY <3>1 DEF TypeOK
    <3> QED
      BY <1>Clone, <3>1, <3>2, <3>3, ThreadAssumption
         DEF Clone, vfork, local, TypeOK, Lineage, About, InVfork
  <2> QED  BY <2>1, <2>2
<1>WaitLook. CASE WaitLook(t)
  <2>1. \A u \in Thread : children'[u] \subseteq children[u]
    BY <1>WaitLook DEF WaitLook, Reap, TypeOK
  <2>2. pc'[t] \in About => pc'[t] \in {"waitid_info", "wait_remove"} /\ on'[t] # None
    BY <1>WaitLook, ThreadAssumption DEF WaitLook, Matches, Reap, Goto, About, InVfork, TypeOK
  <2>3. on'[t] # None => leader[on'[t]] # None
    BY <1>WaitLook DEF WaitLook, Matches, TypeOK, Lineage
  <2>4. /\ pc[t] # "unborn" /\ pc'[t] # "unborn"
        /\ \A u \in Thread \ {t} : pc'[u] = pc[u] /\ on'[u] = on[u]
    BY <1>WaitLook DEF WaitLook, Reap, Goto, TypeOK
  <2>5. UNCHANGED <<leader, parent, vforked, done, todo>>
    BY <1>WaitLook DEF WaitLook, vfork
  <2> QED
    BY <2>1, <2>2, <2>3, <2>4, <2>5 DEF TypeOK, Lineage
<1>WaitidInfo. CASE WaitidInfo(t)
  <2>1. \A u \in Thread : children'[u] \subseteq children[u]
    BY <1>WaitidInfo DEF WaitidInfo, Reap, TypeOK
  <2>2. pc'[t] \in About => pc'[t] \in {"waitid_info", "wait_remove"} /\ on'[t] # None
    BY <1>WaitidInfo DEF WaitidInfo, Reap, Goto, About, InVfork, TypeOK, Lineage, local
  <2>3. on'[t] # None => leader[on'[t]] # None
    BY <1>WaitidInfo DEF WaitidInfo, TypeOK, Lineage, local
  <2>4. /\ pc[t] # "unborn" /\ pc'[t] # "unborn"
        /\ \A u \in Thread \ {t} : pc'[u] = pc[u] /\ on'[u] = on[u]
    BY <1>WaitidInfo DEF WaitidInfo, local, Reap, Goto, TypeOK
  <2>5. UNCHANGED <<leader, parent, vforked, done, todo>>
    BY <1>WaitidInfo DEF WaitidInfo, local, vfork
  <2> QED
    BY <2>1, <2>2, <2>3, <2>4, <2>5 DEF TypeOK, Lineage
<1>WaitRemove. CASE WaitRemove(t)
  <2>1. \A u \in Thread : pc'[u] = "unborn" <=> pc[u] = "unborn"
    BY <1>WaitRemove DEF WaitRemove, Group, TypeOK, Lineage, About
  <2>2. \A u \in Thread : pc'[u] \in About => pc[u] \in About
    BY <1>WaitRemove DEF WaitRemove, TypeOK, About, InVfork
  <2> QED
    BY <1>WaitRemove, <2>1, <2>2 DEF WaitRemove, lineage, vfork, local, TypeOK, Lineage
<1> USE DEF Goto, lineage, vfork, local, hist, TypeOK, Lineage, About, InVfork
<1>Fork. CASE \E call \in {"fork", "vfork"} : Fork(t, call)
  BY <1>Fork, ThreadAssumption DEF Fork, Birth, Fresh, Unborn
<1>VforkLook. CASE VforkLook(t)  BY <1>VforkLook DEF VforkLook
<1>VforkBlock. CASE VforkBlock(t)  BY <1>VforkBlock DEF VforkBlock
<1>VforkWoken. CASE VforkWoken(t)  BY <1>VforkWoken DEF VforkWoken
<1>ExecDone. CASE ExecDone(t)  BY <1>ExecDone DEF ExecDone, Complete, Unlock
<1>ExitRemove. CASE ExitRemove(t)  BY <1>ExitRemove DEF ExitRemove
<1>ExitZombie. CASE ExitZombie(t)  BY <1>ExitZombie DEF ExitZombie
<1>ExitVfork. CASE ExitVfork(t)  BY <1>ExitVfork DEF ExitVfork, Complete
<1>ExitLast. CASE ExitLast(t)  BY <1>ExitLast DEF ExitLast
<1>ExitTake. CASE ExitTake(t)  BY <1>ExitTake DEF ExitTake
<1>ExitSigchld. CASE ExitSigchld(t)  BY <1>ExitSigchld DEF ExitSigchld
<1>ExitWake. CASE ExitWake(t)  BY <1>ExitWake DEF ExitWake
<1>ExitOrphans. CASE ExitOrphans(t)  BY <1>ExitOrphans DEF ExitOrphans
<1>ExitAdopt. CASE ExitAdopt(t)  BY <1>ExitAdopt DEF ExitAdopt
<1>ExitDie. CASE ExitDie(t)  BY <1>ExitDie DEF ExitDie
<1>WaitBlock. CASE WaitBlock(t)  BY <1>WaitBlock DEF WaitBlock
<1> QED  BY Zenon, <1>Fork, <1>Clone, <1>VforkLook, <1>VforkBlock, <1>VforkWoken, <1>ExecDone,
       <1>ExitRemove, <1>ExitZombie, <1>ExitVfork, <1>ExitLast, <1>ExitTake, <1>ExitSigchld,
       <1>ExitWake, <1>ExitOrphans, <1>ExitAdopt, <1>ExitDie, <1>WaitLook, <1>WaitBlock,
       <1>WaitidInfo, <1>WaitRemove
       DEF Loud

\* Who sleeps stays in its queue until it is woken.
LEMMA SleepersStep ==
    ASSUME TypeOK, Lineage, Registered, Sleepers,
           NEW t \in Thread, Loud(t)
    PROVE  Sleepers'
<1> USE DEF Goto, lineage, vfork, local, hist, TypeOK, Lineage, Sleepers, InWait, About, InVfork
<1>Fork. CASE \E call \in {"fork", "vfork"} : Fork(t, call)
  BY <1>Fork DEF Fork, Birth, Fresh, Unborn
<1>Clone. CASE Clone(t)  BY <1>Clone DEF Clone, Birth, Fresh, Unborn
<1>VforkLook. CASE VforkLook(t)  BY <1>VforkLook DEF VforkLook
<1>VforkBlock. CASE VforkBlock(t)  BY <1>VforkBlock DEF VforkBlock
<1>VforkWoken. CASE VforkWoken(t)  BY <1>VforkWoken DEF VforkWoken
<1>ExecDone. CASE ExecDone(t)  BY <1>ExecDone DEF ExecDone, Complete, Unlock
<1>ExitRemove. CASE ExitRemove(t)  BY <1>ExitRemove DEF ExitRemove
<1>ExitZombie. CASE ExitZombie(t)  BY <1>ExitZombie DEF ExitZombie
<1>ExitVfork. CASE ExitVfork(t)  BY <1>ExitVfork DEF ExitVfork, Complete
<1>ExitLast. CASE ExitLast(t)  BY <1>ExitLast DEF ExitLast
<1>ExitTake. CASE ExitTake(t)  BY <1>ExitTake DEF ExitTake
<1>ExitSigchld. CASE ExitSigchld(t)  BY <1>ExitSigchld DEF ExitSigchld
<1>ExitWake. CASE ExitWake(t)  BY <1>ExitWake DEF ExitWake
<1>ExitOrphans. CASE ExitOrphans(t)  BY <1>ExitOrphans DEF ExitOrphans
<1>ExitAdopt. CASE ExitAdopt(t)  BY <1>ExitAdopt DEF ExitAdopt
<1>ExitDie. CASE ExitDie(t)  BY <1>ExitDie DEF ExitDie
<1>WaitLook. CASE WaitLook(t)  BY <1>WaitLook DEF WaitLook, Matches, Reap
<1>WaitBlock. CASE WaitBlock(t)  BY <1>WaitBlock DEF WaitBlock
<1>WaitidInfo. CASE WaitidInfo(t)  BY <1>WaitidInfo DEF WaitidInfo, Reap
<1>WaitRemove. CASE WaitRemove(t)  BY <1>WaitRemove, SMTT(20) DEF WaitRemove
<1> QED  BY Zenon, <1>Fork, <1>Clone, <1>VforkLook, <1>VforkBlock, <1>VforkWoken, <1>ExecDone,
       <1>ExitRemove, <1>ExitZombie, <1>ExitVfork, <1>ExitLast, <1>ExitTake, <1>ExitSigchld,
       <1>ExitWake, <1>ExitOrphans, <1>ExitAdopt, <1>ExitDie, <1>WaitLook, <1>WaitBlock,
       <1>WaitidInfo, <1>WaitRemove
       DEF Loud

\* A vfork suspends the parent.
LEMMA SuspendedStep ==
    ASSUME TypeOK, Lineage, Suspended,
           NEW t \in Thread, Loud(t)
    PROVE  Suspended'
<1>Fork. CASE \E call \in {"fork", "vfork"} : Fork(t, call)
  <2>1. PICK u \in Thread, call \in {"fork", "vfork"} :
            /\ leader[u] = None /\ leader' = [leader EXCEPT ![u] = u]
            /\ parent' = [parent EXCEPT ![u] = t]
            /\ vforked' = IF call = "vfork" THEN vforked \cup {u} ELSE vforked
            /\ on' = [on EXCEPT ![t] = u]
            /\ pc' = [pc EXCEPT ![t] = IF call = "vfork" THEN "vfork" ELSE "return",
                                ![u] = "user"]
    BY <1>Fork, Zenon DEF Fork, Birth, Fresh, Unborn
  <2>2. t # u /\ pc[t] = "user" /\ pc[u] = "unborn"
    BY <1>Fork, <2>1 DEF Fork, Lineage
  <2>3. \A c \in vforked' : c # u => c \in vforked
    BY <2>1
  <2>4. u \notin done' /\ u \notin vforked /\ UNCHANGED <<done, adopted, killed>>
    BY <1>Fork, <2>1 DEF Fork, hist, Lineage
  <2>5. ASSUME NEW c \in vforked, c \notin adopted
        PROVE  /\ c \in Thread \ {u} /\ parent'[c] = parent[c] /\ parent[c] \in Thread \ {u}
               /\ parent[c] = t => t \in killed
    <3>1. c \in Thread \ {u} /\ parent[c] # None
      BY <2>4, <2>5 DEF TypeOK, Suspended
    <3>2. parent[c] \in Thread \ {u}
      BY <3>1, <2>1 DEF TypeOK, Lineage
    <3>3. parent[c] = t => t \in killed
      BY <2>2, <2>5 DEF Suspended, InVfork
    <3> QED  BY <2>1, <3>1, <3>2, <3>3 DEF TypeOK
  <2>6. u \in vforked' => parent'[u] = t /\ pc'[t] = "vfork" /\ on'[t] = u
    BY <2>1, <2>2, <2>4 DEF TypeOK
  <2>7. \A v \in Thread \ {t, u} : pc'[v] = pc[v] /\ on'[v] = on[v]
    BY <2>1, SMTT(20) DEF TypeOK
  <2>8. ASSUME NEW c \in vforked', c # u, c \notin adopted
        PROVE  /\ parent'[c] # None
               /\ \/ parent'[c] \in killed
                  \/ pc'[parent'[c]] = "lost"
                  \/ pc'[parent'[c]] \in InVfork /\ on'[parent'[c]] = c
    <3>1. c \in vforked
      BY <2>3, <2>8
    <3>2. \/ parent[c] \in killed
          \/ pc[parent[c]] = "lost"
          \/ pc[parent[c]] \in InVfork /\ on[parent[c]] = c
      BY <2>8, <3>1 DEF Suspended
    <3>3. /\ parent'[c] = parent[c] /\ parent[c] \in Thread \ {u}
          /\ parent[c] = t => t \in killed
      BY <2>5, <2>8, <3>1
    <3>4. parent[c] # t => pc'[parent[c]] = pc[parent[c]] /\ on'[parent[c]] = on[parent[c]]
      BY <2>7, <3>3
    <3> QED  BY <3>2, <3>3, <3>4, ThreadAssumption, Zenon
  <2>9. u \in vforked' => parent'[u] # None /\ pc'[t] \in InVfork
    BY <2>6, ThreadAssumption DEF InVfork
  <2>10. \A c \in vforked' : c \notin done'
    BY <2>1, <2>4 DEF Suspended
  <2> QED
    BY <2>4, <2>6, <2>8, <2>9, <2>10 DEF Suspended
<1> USE DEF Goto, lineage, vfork, local, hist, TypeOK, Lineage, Suspended, InVfork
<1>Clone. CASE Clone(t)  BY <1>Clone DEF Clone, Birth, Fresh, Unborn
<1>VforkLook. CASE VforkLook(t)  BY <1>VforkLook DEF VforkLook
<1>VforkBlock. CASE VforkBlock(t)  BY <1>VforkBlock DEF VforkBlock
<1>VforkWoken. CASE VforkWoken(t)  BY <1>VforkWoken DEF VforkWoken
<1>ExecDone. CASE ExecDone(t)  BY <1>ExecDone DEF ExecDone, Complete, Unlock
<1>ExitRemove. CASE ExitRemove(t)  BY <1>ExitRemove DEF ExitRemove
<1>ExitZombie. CASE ExitZombie(t)  BY <1>ExitZombie DEF ExitZombie
<1>ExitVfork. CASE ExitVfork(t)  BY <1>ExitVfork DEF ExitVfork, Complete
<1>ExitLast. CASE ExitLast(t)  BY <1>ExitLast DEF ExitLast
<1>ExitTake. CASE ExitTake(t)  BY <1>ExitTake DEF ExitTake
<1>ExitSigchld. CASE ExitSigchld(t)  BY <1>ExitSigchld DEF ExitSigchld
<1>ExitWake. CASE ExitWake(t)  BY <1>ExitWake DEF ExitWake
<1>ExitOrphans. CASE ExitOrphans(t)  BY <1>ExitOrphans DEF ExitOrphans
<1>ExitAdopt. CASE ExitAdopt(t)  BY <1>ExitAdopt DEF ExitAdopt
<1>ExitDie. CASE ExitDie(t)  BY <1>ExitDie DEF ExitDie
<1>WaitLook. CASE WaitLook(t)  BY <1>WaitLook DEF WaitLook, Matches, Reap
<1>WaitBlock. CASE WaitBlock(t)  BY <1>WaitBlock DEF WaitBlock
<1>WaitidInfo. CASE WaitidInfo(t)  BY <1>WaitidInfo DEF WaitidInfo, Reap
<1>WaitRemove. CASE WaitRemove(t)  BY <1>WaitRemove DEF WaitRemove
<1> QED  BY Zenon, <1>Fork, <1>Clone, <1>VforkLook, <1>VforkBlock, <1>VforkWoken, <1>ExecDone,
       <1>ExitRemove, <1>ExitZombie, <1>ExitVfork, <1>ExitLast, <1>ExitTake, <1>ExitSigchld,
       <1>ExitWake, <1>ExitOrphans, <1>ExitAdopt, <1>ExitDie, <1>WaitLook, <1>WaitBlock,
       <1>WaitidInfo, <1>WaitRemove
       DEF Loud

\* The effect of a step without the lock.
LEMMA OpenStep ==
    ASSUME TypeOK,
           NEW t \in Thread, Open(t)
    PROVE  Unlocked(t)
<1> USE DEF Goto, lineage, vfork, local, hist, TypeOK, Unlocked, Locked
<1>CloneCall. CASE CloneCall(t)  BY <1>CloneCall DEF CloneCall
<1>ExecCall. CASE ExecCall(t)  BY <1>ExecCall DEF ExecCall
<1>ExitGroup. CASE ExitGroup(t)  BY <1>ExitGroup DEF ExitGroup
<1>WaitCall. CASE \E call \in {"wait4", "waitid"}, c \in children[t] \cup {None} : WaitCall(t, call, c)
  BY <1>WaitCall DEF WaitCall
<1>Exit. CASE Exit(t)  BY <1>Exit DEF Exit
<1>VforkLook. CASE VforkLook(t)  BY <1>VforkLook DEF VforkLook
<1>VforkBlock. CASE VforkBlock(t)  BY <1>VforkBlock DEF VforkBlock
<1>VforkWoken. CASE VforkWoken(t)  BY <1>VforkWoken DEF VforkWoken
<1>GroupKill. CASE GroupKill(t)  BY <1>GroupKill DEF GroupKill, KillNext
<1>ExitRemove. CASE ExitRemove(t)  BY <1>ExitRemove DEF ExitRemove
<1>ExitZombie. CASE ExitZombie(t)  BY <1>ExitZombie DEF ExitZombie
<1>ExitVfork. CASE ExitVfork(t)  BY <1>ExitVfork DEF ExitVfork, Complete
<1>ExitLast. CASE ExitLast(t)  BY <1>ExitLast DEF ExitLast
<1>ExitTake. CASE ExitTake(t)  BY <1>ExitTake DEF ExitTake
<1>ExitSigchld. CASE ExitSigchld(t)  BY <1>ExitSigchld DEF ExitSigchld
<1>ExitWake. CASE ExitWake(t)  BY <1>ExitWake DEF ExitWake
<1>ExitOrphans. CASE ExitOrphans(t)  BY <1>ExitOrphans DEF ExitOrphans
<1>ExitAdopt. CASE ExitAdopt(t)  BY <1>ExitAdopt DEF ExitAdopt
<1>ExitDie. CASE ExitDie(t)  BY <1>ExitDie DEF ExitDie
<1>WaitLook. CASE WaitLook(t)  BY <1>WaitLook DEF WaitLook, Matches, Reap
<1>WaitBlock. CASE WaitBlock(t)  BY <1>WaitBlock DEF WaitBlock
<1>WaitWoken. CASE WaitWoken(t)  BY <1>WaitWoken DEF WaitWoken
<1>WaitidInfo. CASE WaitidInfo(t)  BY <1>WaitidInfo DEF WaitidInfo, Reap
<1>WaitRemove. CASE WaitRemove(t)  BY <1>WaitRemove DEF WaitRemove
<1>Return. CASE Return(t)  BY <1>Return DEF Return
<1> QED  BY Zenon, <1>CloneCall, <1>ExecCall, <1>ExitGroup, <1>WaitCall, <1>Exit, <1>VforkLook,
       <1>VforkBlock, <1>VforkWoken, <1>GroupKill, <1>ExitRemove, <1>ExitZombie, <1>ExitVfork,
       <1>ExitLast, <1>ExitTake, <1>ExitSigchld, <1>ExitWake, <1>ExitOrphans, <1>ExitAdopt,
       <1>ExitDie, <1>WaitLook, <1>WaitBlock, <1>WaitWoken, <1>WaitidInfo, <1>WaitRemove,
       <1>Return
       DEF Open

\* exec_update_lock has one holder.
LEMMA OwnedStep ==
    ASSUME TypeOK, Lineage, Owned,
           NEW t \in Thread, Locking(t) \/ Unlocked(t)
    PROVE  Owned'
<1>CloneLock. CASE CloneLock(t)
  <2>1. leader[t] \in Thread /\ \A u \in Thread : pc[u] \in Locked => u # None
    BY <1>CloneLock, ThreadAssumption DEF CloneLock, TypeOK, Lineage
  <2>2. leader' = leader /\ \A u \in Thread \ {t} : pc'[u] = pc[u]
    <3>1. pc \in [Thread -> PC]
      BY DEF TypeOK
    <3> QED  BY <1>CloneLock, <3>1 DEF CloneLock, LockExec, Goto, lineage
  <2>3. CASE pc'[t] \notin Locked /\ UNCHANGED exec_lock
    BY <2>2, <2>3 DEF Owned
  <2>4. CASE exec_lock[leader[t]] = None /\ exec_lock' = [exec_lock EXCEPT ![leader[t]] = t]
    BY <2>1, <2>2, <2>4 DEF TypeOK, Owned
  <2> QED
    BY <1>CloneLock, <2>3, <2>4 DEF CloneLock, LockExec, Goto, Locked, TypeOK
<1>ExecLock. CASE ExecLock(t)
  <2>1. leader[t] \in Thread /\ \A u \in Thread : pc[u] \in Locked => u # None
    BY <1>ExecLock, ThreadAssumption DEF ExecLock, TypeOK, Lineage
  <2>2. leader' = leader /\ \A u \in Thread \ {t} : pc'[u] = pc[u]
    <3>1. pc \in [Thread -> PC]
      BY DEF TypeOK
    <3> QED  BY <1>ExecLock, <3>1 DEF ExecLock, LockExec, Goto, lineage
  <2>3. CASE pc'[t] \notin Locked /\ UNCHANGED exec_lock
    BY <2>2, <2>3 DEF Owned
  <2>4. CASE exec_lock[leader[t]] = None /\ exec_lock' = [exec_lock EXCEPT ![leader[t]] = t]
    BY <2>1, <2>2, <2>4 DEF TypeOK, Owned
  <2> QED
    BY <1>ExecLock, <2>3, <2>4 DEF ExecLock, LockExec, Goto, Locked, TypeOK
<1>ExecLoad. CASE ExecLoad(t)
  <2>1. leader[t] \in Thread /\ exec_lock[leader[t]] = t
    BY <1>ExecLoad DEF ExecLoad, TypeOK, Lineage, Owned, Locked
  <2>2. leader' = leader /\ \A u \in Thread \ {t} : pc'[u] = pc[u]
    <3>1. pc \in [Thread -> PC]
      BY DEF TypeOK
    <3> QED  BY <1>ExecLoad, <3>1 DEF ExecLoad, Goto, lineage
  <2>3. CASE UNCHANGED exec_lock
    BY <2>1, <2>2, <2>3 DEF Owned
  <2>4. CASE pc'[t] \notin Locked /\ exec_lock' = [exec_lock EXCEPT ![leader[t]] = None]
    BY <2>1, <2>2, <2>4 DEF TypeOK, Owned
  <2> QED
    BY <1>ExecLoad, <2>3, <2>4 DEF ExecLoad, Unlock, Goto, Locked, TypeOK
<1>ExecWait. CASE ExecWait(t)
  <2>1. leader[t] \in Thread /\ exec_lock[leader[t]] = t
    BY <1>ExecWait DEF ExecWait, TypeOK, Lineage, Owned, Locked
  <2>2. leader' = leader /\ \A u \in Thread \ {t} : pc'[u] = pc[u]
    <3>1. pc \in [Thread -> PC]
      BY DEF TypeOK
    <3> QED  BY <1>ExecWait, <3>1 DEF ExecWait, Goto, lineage
  <2>3. CASE UNCHANGED exec_lock
    BY <2>1, <2>2, <2>3 DEF Owned
  <2>4. CASE pc'[t] \notin Locked /\ exec_lock' = [exec_lock EXCEPT ![leader[t]] = None]
    BY <2>1, <2>2, <2>4 DEF TypeOK, Owned
  <2> QED
    BY <1>ExecWait, <2>3, <2>4 DEF ExecWait, Unlock, Goto, Locked, TypeOK
<1>ExecCommit. CASE ExecCommit(t)
  <2>1. leader[t] \in Thread /\ exec_lock[leader[t]] = t
    BY <1>ExecCommit DEF ExecCommit, TypeOK, Lineage, Owned, Locked
  <2>2. leader' = leader /\ \A u \in Thread \ {t} : pc'[u] = pc[u]
    <3>1. pc \in [Thread -> PC]
      BY DEF TypeOK
    <3> QED  BY <1>ExecCommit, <3>1 DEF ExecCommit, Goto, lineage
  <2>3. CASE UNCHANGED exec_lock
    BY <2>1, <2>2, <2>3 DEF Owned
  <2>4. CASE pc'[t] \notin Locked /\ exec_lock' = [exec_lock EXCEPT ![leader[t]] = None]
    BY <2>1, <2>2, <2>4 DEF TypeOK, Owned
  <2> QED
    BY <1>ExecCommit, <2>3, <2>4 DEF ExecCommit, Unlock, Goto, Locked, TypeOK
<1>calm. CASE Unlocked(t)
  BY <1>calm, Zenon DEF Unlocked, Locked, Owned
<1> USE DEF Goto, lineage, vfork, local, hist, TypeOK, Lineage, Owned, Locked
<1>Fork. CASE \E call \in {"fork", "vfork"} : Fork(t, call)
  BY <1>Fork, ThreadAssumption DEF Fork, Birth, Fresh, Unborn
<1>Clone. CASE Clone(t)  BY <1>Clone, ThreadAssumption DEF Clone, Birth, Fresh, Unborn
<1>ExecKill. CASE ExecKill(t)  BY <1>ExecKill DEF ExecKill, KillNext
<1>ExecDone. CASE ExecDone(t)  BY <1>ExecDone, SMTT(20) DEF ExecDone, Complete, Unlock
<1> QED  BY Zenon, <1>Fork, <1>CloneLock, <1>Clone, <1>ExecLock, <1>ExecLoad, <1>ExecKill,
       <1>ExecWait, <1>ExecCommit, <1>ExecDone, <1>calm
       DEF Locking

\* No sibling joins the group of a thread in exec.
LEMMA KnownStep ==
    ASSUME TypeOK, Lineage, Owned, Known,
           NEW t \in Thread, Locking(t) \/ Unlocked(t)
    PROVE  Known'
<1>Clone. CASE Clone(t)
  <2>1. CASE Unborn = {}
    <3>1. \A v \in Thread : Siblings(v)' = Siblings(v)
      BY <1>Clone, <2>1, Zenon DEF Clone, Siblings, Group
    <3>2. \A v \in Thread \ {t} : pc'[v] = pc[v]
      BY <1>Clone, <2>1 DEF Clone, Goto, TypeOK
    <3>3. pc'[t] = "return" /\ snap' = snap
      BY <1>Clone, <2>1, SMTT(20) DEF Clone, Goto, local, TypeOK
    <3> QED  BY <3>1, <3>2, <3>3, Zenon DEF Known
  <2>2. CASE Unborn # {}
    <3>1. PICK u \in Thread :
              /\ leader[u] = None /\ leader' = [leader EXCEPT ![u] = leader[t]]
              /\ registry' = registry \cup {u}
              /\ pc' = [pc EXCEPT ![t] = "return", ![u] = "user"]
      BY <1>Clone, <2>2 DEF Clone, Birth, Fresh, Unborn
    <3>2. \A v \in Thread : pc'[v] \in {"exec_kill", "exec_wait", "exec_commit", "exec_done"} =>
              /\ v # u /\ v # t /\ pc'[v] = pc[v]
              /\ leader[v] \notin {leader[t], None}
      BY <1>Clone, <3>1 DEF Clone, TypeOK, Lineage, Owned, Locked
    <3>3. \A v \in Thread : leader[v] \notin {leader[t], None} => Siblings(v)' = Siblings(v)
      BY <3>1 DEF Siblings, Group, TypeOK
    <3> QED
      BY <1>Clone, <3>2, <3>3, Zenon DEF Clone, local, Known
  <2> QED  BY <2>1, <2>2
<1>calm. CASE Unlocked(t)
  <2>1. \A v \in Thread : Siblings(v)' \subseteq Siblings(v)
    BY <1>calm DEF Unlocked, Siblings, Group
  <2>2. \A v \in Thread : pc'[v] \in {"exec_kill", "exec_wait", "exec_commit", "exec_done"} =>
            pc'[v] = pc[v]
    BY <1>calm DEF Unlocked, Locked
  <2>3. snap' = snap
    BY <1>calm DEF Unlocked
  <2> QED  BY <2>1, <2>2, <2>3 DEF Known
<1> USE DEF Goto, lineage, vfork, local, hist, TypeOK, Lineage, Known, Siblings, Group
<1>Fork. CASE \E call \in {"fork", "vfork"} : Fork(t, call)
  BY <1>Fork, ThreadAssumption DEF Fork, Birth, Fresh, Unborn
<1>CloneLock. CASE CloneLock(t)  BY <1>CloneLock DEF CloneLock, LockExec
<1>ExecLock. CASE ExecLock(t)  BY <1>ExecLock DEF ExecLock, LockExec
<1>ExecLoad. CASE ExecLoad(t)  BY <1>ExecLoad DEF ExecLoad, Unlock
<1>ExecKill. CASE ExecKill(t)  BY <1>ExecKill DEF ExecKill, KillNext
<1>ExecWait. CASE ExecWait(t)  BY <1>ExecWait DEF ExecWait, Unlock
<1>ExecCommit. CASE ExecCommit(t)  BY <1>ExecCommit DEF ExecCommit, Unlock
<1>ExecDone. CASE ExecDone(t)  BY <1>ExecDone, SMTT(20) DEF ExecDone, Complete, Unlock
<1> QED  BY Zenon, <1>Fork, <1>CloneLock, <1>Clone, <1>ExecLock, <1>ExecLoad, <1>ExecKill,
       <1>ExecWait, <1>ExecCommit, <1>ExecDone, <1>calm
       DEF Locking

\* A thread stays in its group, and no step takes SIGKILL back.
LEMMA FrameStep ==
    ASSUME TypeOK,
           NEW t \in Thread, Loud(t)
    PROVE  killed \subseteq killed' /\ \A u \in Thread : leader[u] # None => leader'[u] = leader[u]
<1> USE DEF Goto, lineage, vfork, local, hist, TypeOK
<1>Fork. CASE \E call \in {"fork", "vfork"} : Fork(t, call)
  BY <1>Fork DEF Fork, Birth, Fresh, Unborn
<1>Clone. CASE Clone(t)  BY <1>Clone DEF Clone, Birth, Fresh, Unborn
<1>VforkLook. CASE VforkLook(t)  BY <1>VforkLook DEF VforkLook
<1>VforkBlock. CASE VforkBlock(t)  BY <1>VforkBlock DEF VforkBlock
<1>VforkWoken. CASE VforkWoken(t)  BY <1>VforkWoken DEF VforkWoken
<1>ExecDone. CASE ExecDone(t)  BY <1>ExecDone DEF ExecDone, Complete, Unlock
<1>ExitRemove. CASE ExitRemove(t)  BY <1>ExitRemove DEF ExitRemove
<1>ExitZombie. CASE ExitZombie(t)  BY <1>ExitZombie DEF ExitZombie
<1>ExitVfork. CASE ExitVfork(t)  BY <1>ExitVfork DEF ExitVfork, Complete
<1>ExitLast. CASE ExitLast(t)  BY <1>ExitLast DEF ExitLast
<1>ExitTake. CASE ExitTake(t)  BY <1>ExitTake DEF ExitTake
<1>ExitSigchld. CASE ExitSigchld(t)  BY <1>ExitSigchld DEF ExitSigchld
<1>ExitWake. CASE ExitWake(t)  BY <1>ExitWake DEF ExitWake
<1>ExitOrphans. CASE ExitOrphans(t)  BY <1>ExitOrphans DEF ExitOrphans
<1>ExitAdopt. CASE ExitAdopt(t)  BY <1>ExitAdopt DEF ExitAdopt
<1>ExitDie. CASE ExitDie(t)  BY <1>ExitDie DEF ExitDie
<1>WaitLook. CASE WaitLook(t)  BY <1>WaitLook DEF WaitLook, Matches, Reap
<1>WaitBlock. CASE WaitBlock(t)  BY <1>WaitBlock DEF WaitBlock
<1>WaitidInfo. CASE WaitidInfo(t)  BY <1>WaitidInfo DEF WaitidInfo, Reap
<1>WaitRemove. CASE WaitRemove(t)  BY <1>WaitRemove DEF WaitRemove
<1> QED  BY Zenon, <1>Fork, <1>Clone, <1>VforkLook, <1>VforkBlock, <1>VforkWoken, <1>ExecDone,
       <1>ExitRemove, <1>ExitZombie, <1>ExitVfork, <1>ExitLast, <1>ExitTake, <1>ExitSigchld,
       <1>ExitWake, <1>ExitOrphans, <1>ExitAdopt, <1>ExitDie, <1>WaitLook, <1>WaitBlock,
       <1>WaitidInfo, <1>WaitRemove
       DEF Loud

\* Every step is of one of the kinds.
LEMMA Kinds ==
    ASSUME TypeOK, Lineage, Sleepers, NEW t \in Thread, Call(t) \/ Exit(t) \/ Step(t)
    PROVE  (Loud(t) \/ Moves(t)) /\ (Locking(t) \/ Unlocked(t))
<1>1. Loud(t) \/ Calm(t)
  BY Zenon DEF Call, Step, Loud, Calm
<1>2. Locking(t) \/ Open(t)
  BY Zenon DEF Call, Step, Locking, Open
<1> QED  BY <1>1, <1>2, CalmStep, OpenStep

\* No step takes SIGKILL back, or a thread out of its group.
LEMMA KillStep ==
    ASSUME TypeOK, Lineage, Sleepers, NEW t \in Thread, Call(t) \/ Exit(t) \/ Step(t)
    PROVE  killed \subseteq killed' /\ \A u \in Thread : leader[u] # None => leader'[u] = leader[u]
  BY Kinds, FrameStep DEF Moves, lineage

\* The initial states satisfy the invariant.
LEMMA InitSafe == Init => Safe
<1> SUFFICES ASSUME Init PROVE Safe
  OBVIOUS
<1> USE ThreadAssumption DEF Init
<1>1. TypeOK
  BY DEF TypeOK, PC
<1>2. Lineage
  BY DEF Lineage, About, InVfork
<1>3. Registered
  BY Zenon DEF Registered, Exiting
<1>4. Sleepers /\ Suspended
  BY DEF Sleepers, Suspended
<1>5. Owned /\ Known
  BY DEF Owned, Known, Locked
<1> QED  BY <1>1, <1>2, <1>3, <1>4, <1>5 DEF Safe

\* Every step keeps it.
LEMMA NextSafe == Safe /\ [Next]_vars => Safe'
<1> SUFFICES ASSUME Safe, [Next]_vars PROVE Safe'
  OBVIOUS
<1> USE DEF Safe
<1>1. CASE Next
  <2> PICK t \in Thread : Call(t) \/ Exit(t) \/ Step(t)
    BY <1>1 DEF Next
  <2>1. (Loud(t) \/ Moves(t)) /\ (Locking(t) \/ Unlocked(t))
    BY Kinds
  <2>2. TypeOK'
    BY TypeStep
  <2>3. Lineage' /\ Registered' /\ Sleepers' /\ Suspended'
    BY <2>1, MovesKeeps, LineageStep, RegisteredStep, SleepersStep, SuspendedStep
  <2>4. Owned' /\ Known'
    BY <2>1, OwnedStep, KnownStep
  <2> QED  BY <2>2, <2>3, <2>4
<1>2. CASE UNCHANGED vars
  <2> USE <1>2 DEF vars
  <2>1. TypeOK'
    BY DEF TypeOK
  <2>2. Lineage'
    BY Zenon DEF Lineage
  <2>3. Registered' /\ Sleepers'
    BY Zenon DEF Registered, Sleepers
  <2>4. Known'
    BY DEF Known, Siblings, Group
  <2>5. Owned' /\ Suspended'
    BY DEF Owned, Suspended
  <2> QED  BY <2>1, <2>2, <2>3, <2>4, <2>5
<1> QED  BY <1>1, <1>2

-----------------------------------------------------------------------------
(* The theorems.                                                           *)

\* The invariant holds throughout, whatever calls the threads make.
THEOREM Safety == Spec => []Safe
  BY InitSafe, NextSafe, PTL DEF Spec

\* exec installs the new image when no other thread of the group is in TID2TCB
\* or can enter it; the others are on the way out, unless wait4 collected the
\* process beside its living threads.
THEOREM ExecIsAlone == Spec => []ExecAlone
<1>1. Safe => ExecAlone
  <2> SUFFICES ASSUME Safe, NEW t \in Thread, pc[t] \in {"exec_commit", "exec_done"}
               PROVE  Siblings(t) = {} /\ (leader[t] \in collected \/ Alone(t))
    BY DEF ExecAlone
  <2>1. Siblings(t) = {}
    BY DEF Safe, Known
  <2>2. leader[t] # None
    BY DEF Safe, Lineage
  <2>3. ASSUME leader[t] \notin collected, NEW u \in Group(t) \ {t} PROVE pc[u] \in Exiting
    BY <2>1, <2>2, <2>3, Zenon DEF Safe, Registered, Siblings, Group
  <2> QED  BY <2>1, <2>3 DEF Alone
<1> QED  BY <1>1, Safety, PTL

\* The caller of vfork is in user space again only when the child has done an
\* exec or exited, or when the caller was killed; it never sleeps through the
\* child's completion.
THEOREM VforkSuspends == Spec => []VforkWaits
<1>1. Safe => VforkWaits
  BY DEF Safe, VforkWaits, Suspended, Sleepers, InVfork
<1> QED  BY <1>1, Safety, PTL

\* No step takes a SIGKILL back, although exec clears the pending signals.
THEOREM KillIsFinal == Spec => KillSticks
<1>1. Safe /\ [Next]_vars => [killed \subseteq killed']_vars
  BY KillStep DEF Safe, Next, vars
<1> QED  BY <1>1, Safety, PTL DEF Spec, KillSticks
=============================================================================
