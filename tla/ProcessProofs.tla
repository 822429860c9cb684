--------------------------- MODULE ProcessProofs ---------------------------
(***************************************************************************)
(* exit and wait, for any number of threads and any programs.              *)
(***************************************************************************)
EXTENDS ProcessInv

-----------------------------------------------------------------------------
(* exit and wait.                                                          *)

Announced == {"exit_wake", "exit_orphans", "exit_adopt", "exit_die", "dead"}

\* The end of a group is told, or one of its threads may still tell it.
Telling ==
    \A g \in Thread :
        leader[g] = g => g \in told \/ \E u \in Group(g) : pc[u] \notin Announced

\* c is in the list of p, or p has taken it out of one and not let go of it.
Holds(p, c) ==
    \/ c \in children[p]
    \/ pc[p] \in Carrying /\ c \in todo[p]
    \/ pc[p] = "wait_remove" /\ on[p] = c

\* A child is the leader of a process, and one thread holds it, once.
Custody ==
    /\ \A p, c \in Thread : Holds(p, c) => leader[c] = c
    /\ \A p, q, c \in Thread : Holds(p, c) /\ Holds(q, c) => p = q
    /\ \A p \in Thread :
          /\ pc[p] = "wait_remove" => on[p] \notin children[p]
          /\ pc[p] \in Carrying => children[p] \cap todo[p] = {}

\* All threads of a process have the parent whose list holds it, until INITTASK
\* adopts it.
Parents ==
    \A p \in Thread :
        /\ pc[p] = "exit_adopt" => todo[p] \subseteq adopted
        /\ \A u \in Thread : leader[u] \in children[p] \ adopted => parent[u] = p

-----------------------------------------------------------------------------
IInv == Safe /\ Telling /\ Custody /\ Parents /\ NoLostChild

-----------------------------------------------------------------------------
(* Every step keeps the invariant.                                         *)

\* One thread of a group tells.
LEMMA TellingStep ==
    ASSUME TypeOK, Lineage, Registered, Telling,
           NEW t \in Thread, Loud(t)
    PROVE  Telling'
<1>Fork. CASE \E call \in {"fork", "vfork"} : Fork(t, call)
  <2>1. PICK u \in Thread, call \in {"fork", "vfork"} :
            /\ leader[u] = None /\ leader' = [leader EXCEPT ![u] = u]
            /\ parent' = [parent EXCEPT ![u] = t]
            /\ vforked' = IF call = "vfork" THEN vforked \cup {u} ELSE vforked
            /\ on' = [on EXCEPT ![t] = u]
            /\ pc' = [pc EXCEPT ![t] = IF call = "vfork" THEN "vfork" ELSE "return",
                                ![u] = "user"]
    BY <1>Fork, Zenon DEF Fork, Birth, Fresh, Unborn
  <2>2. t # u /\ pc[t] = "user" /\ pc[u] = "unborn"
    BY <1>Fork, <2>1 DEF Fork, Lineage
  <2>3. \A v, g \in Thread : leader[v] = g => v # u /\ leader'[v] = g
    BY <2>1, ThreadAssumption DEF TypeOK
  <2>4. \A g \in Thread : leader'[g] = g => leader[g] = g \/ g = u
    BY <2>1 DEF TypeOK
  <2>5. pc'[u] \notin Announced /\ \A v \in Thread \ {u} : pc[v] \notin Announced => pc'[v] \notin Announced
    BY <2>1, <2>2 DEF TypeOK, Announced
  <2>6. leader'[u] = u /\ told' = told
    BY <1>Fork, <2>1 DEF Fork, hist, TypeOK
  <2> QED
    BY <2>3, <2>4, <2>5, <2>6 DEF Telling, Group
<1> USE DEF Goto, lineage, vfork, local, hist, TypeOK, Lineage, Telling, Group, Announced
<1>Clone. CASE Clone(t)  BY <1>Clone DEF Clone, Birth, Fresh, Unborn
<1>VforkLook. CASE VforkLook(t)  BY <1>VforkLook DEF VforkLook
<1>VforkBlock. CASE VforkBlock(t)  BY <1>VforkBlock DEF VforkBlock
<1>VforkWoken. CASE VforkWoken(t)  BY <1>VforkWoken DEF VforkWoken
<1>ExecDone. CASE ExecDone(t)  BY <1>ExecDone DEF ExecDone, Complete, Unlock
<1>ExitRemove. CASE ExitRemove(t)  BY <1>ExitRemove DEF ExitRemove
<1>ExitZombie. CASE ExitZombie(t)  BY <1>ExitZombie DEF ExitZombie
<1>ExitVfork. CASE ExitVfork(t)  BY <1>ExitVfork DEF ExitVfork, Complete
<1>ExitLast. CASE ExitLast(t)  BY <1>ExitLast DEF ExitLast, Siblings, Registered, Exiting
<1>ExitTake. CASE ExitTake(t)  BY <1>ExitTake DEF ExitTake
<1>ExitSigchld. CASE ExitSigchld(t)  BY <1>ExitSigchld DEF ExitSigchld
<1>ExitWake. CASE ExitWake(t)  BY <1>ExitWake DEF ExitWake
<1>ExitOrphans. CASE ExitOrphans(t)  BY <1>ExitOrphans DEF ExitOrphans
<1>ExitAdopt. CASE ExitAdopt(t)  BY <1>ExitAdopt DEF ExitAdopt
<1>ExitDie. CASE ExitDie(t)  BY <1>ExitDie DEF ExitDie
<1>WaitLook. CASE WaitLook(t)  BY <1>WaitLook DEF WaitLook, Matches, Reap
<1>WaitBlock. CASE WaitBlock(t)  BY <1>WaitBlock, SMTT(20) DEF WaitBlock
<1>WaitidInfo. CASE WaitidInfo(t)  BY <1>WaitidInfo DEF WaitidInfo, Reap
<1>WaitRemove. CASE WaitRemove(t)  BY <1>WaitRemove, SMTT(20) DEF WaitRemove
<1> QED  BY Zenon, <1>Fork, <1>Clone, <1>VforkLook, <1>VforkBlock, <1>VforkWoken, <1>ExecDone,
       <1>ExitRemove, <1>ExitZombie, <1>ExitVfork, <1>ExitLast, <1>ExitTake, <1>ExitSigchld,
       <1>ExitWake, <1>ExitOrphans, <1>ExitAdopt, <1>ExitDie, <1>WaitLook, <1>WaitBlock,
       <1>WaitidInfo, <1>WaitRemove
       DEF Loud

\* A child changes hands in two ways only: it is born, or it is adopted.
LEMMA HoldsStep ==
    ASSUME TypeOK, Lineage, Custody,
           NEW t \in Thread, Loud(t)
    PROVE  \A p, c \in Thread : Holds(p, c)' =>
               \/ Holds(p, c)
               \/ p = t /\ leader[c] = None /\ leader'[c] = c
               \/ p = InitTask /\ p # t /\ Holds(t, c) /\ ~Holds(t, c)'
<1> USE DEF Goto, lineage, vfork, local, hist, TypeOK, Holds, Carrying
<1>Fork. CASE \E call \in {"fork", "vfork"} : Fork(t, call)
  BY <1>Fork DEF Fork, Birth, Fresh, Unborn, Lineage
<1>Clone. CASE Clone(t)  BY <1>Clone DEF Clone, Birth, Fresh, Unborn
<1>VforkLook. CASE VforkLook(t)  BY <1>VforkLook DEF VforkLook
<1>VforkBlock. CASE VforkBlock(t)  BY <1>VforkBlock DEF VforkBlock
<1>VforkWoken. CASE VforkWoken(t)  BY <1>VforkWoken DEF VforkWoken
<1>ExecDone. CASE ExecDone(t)  BY <1>ExecDone DEF ExecDone, Complete, Unlock
<1>ExitRemove. CASE ExitRemove(t)  BY <1>ExitRemove DEF ExitRemove
<1>ExitZombie. CASE ExitZombie(t)  BY <1>ExitZombie DEF ExitZombie
<1>ExitVfork. CASE ExitVfork(t)  BY <1>ExitVfork DEF ExitVfork, Complete
<1>ExitLast. CASE ExitLast(t)  BY <1>ExitLast DEF ExitLast
<1>ExitTake. CASE ExitTake(t)  BY <1>ExitTake DEF ExitTake
<1>ExitSigchld. CASE ExitSigchld(t)  BY <1>ExitSigchld DEF ExitSigchld
<1>ExitWake. CASE ExitWake(t)  BY <1>ExitWake DEF ExitWake
<1>ExitOrphans. CASE ExitOrphans(t)  BY <1>ExitOrphans DEF ExitOrphans
<1>ExitAdopt. CASE ExitAdopt(t)  BY <1>ExitAdopt DEF ExitAdopt, Custody
<1>ExitDie. CASE ExitDie(t)  BY <1>ExitDie DEF ExitDie
<1>WaitLook. CASE WaitLook(t)  BY <1>WaitLook DEF WaitLook, Matches, Reap
<1>WaitBlock. CASE WaitBlock(t)  BY <1>WaitBlock DEF WaitBlock
<1>WaitidInfo. CASE WaitidInfo(t)  BY <1>WaitidInfo DEF WaitidInfo, Reap
<1>WaitRemove. CASE WaitRemove(t)  BY <1>WaitRemove, SMTT(20) DEF WaitRemove
<1> QED  BY Zenon, <1>Fork, <1>Clone, <1>VforkLook, <1>VforkBlock, <1>VforkWoken, <1>ExecDone,
       <1>ExitRemove, <1>ExitZombie, <1>ExitVfork, <1>ExitLast, <1>ExitTake, <1>ExitSigchld,
       <1>ExitWake, <1>ExitOrphans, <1>ExitAdopt, <1>ExitDie, <1>WaitLook, <1>WaitBlock,
       <1>WaitidInfo, <1>WaitRemove
       DEF Loud

\* A thread does not hold a child twice.
LEMMA OnceStep ==
    ASSUME TypeOK, Lineage, Custody,
           NEW t \in Thread, Loud(t)
    PROVE  \A p \in Thread :
               /\ pc'[p] = "wait_remove" => on'[p] \notin children'[p]
               /\ pc'[p] \in Carrying => children'[p] \cap todo'[p] = {}
<1>Clone. CASE Clone(t)
  <2>1. \A p \in Thread : pc'[p] \in Carrying \cup {"wait_remove"} => pc'[p] = pc[p]
    BY <1>Clone DEF Clone, Birth, Goto, Carrying, TypeOK
  <2> QED
    BY <1>Clone, <2>1 DEF Clone, local, Custody
<1>WaitLook. CASE WaitLook(t)
  <2>1. /\ \A p \in Thread : children'[p] \subseteq children[p]
        /\ pc'[t] = "wait_remove" => on'[t] \notin children'[t]
    BY <1>WaitLook DEF WaitLook, Reap, Goto, TypeOK
  <2>2. pc'[t] \notin Carrying
    BY <1>WaitLook DEF WaitLook, Reap, Goto, Carrying, TypeOK
  <2>3. /\ \A p \in Thread \ {t} : pc'[p] = pc[p] /\ on'[p] = on[p]
        /\ todo' = todo
    BY <1>WaitLook DEF WaitLook, Reap, Goto, TypeOK
  <2> QED
    BY <2>1, <2>2, <2>3 DEF Custody
<1> USE DEF Goto, lineage, vfork, local, hist, TypeOK, Custody, Holds, Carrying
<1>Fork. CASE \E call \in {"fork", "vfork"} : Fork(t, call)
  BY <1>Fork DEF Fork, Birth, Fresh, Unborn, Lineage
<1>VforkLook. CASE VforkLook(t)  BY <1>VforkLook DEF VforkLook
<1>VforkBlock. CASE VforkBlock(t)  BY <1>VforkBlock DEF VforkBlock
<1>VforkWoken. CASE VforkWoken(t)  BY <1>VforkWoken DEF VforkWoken
<1>ExecDone. CASE ExecDone(t)  BY <1>ExecDone DEF ExecDone, Complete, Unlock
<1>ExitRemove. CASE ExitRemove(t)  BY <1>ExitRemove DEF ExitRemove
<1>ExitZombie. CASE ExitZombie(t)  BY <1>ExitZombie DEF ExitZombie
<1>ExitVfork. CASE ExitVfork(t)  BY <1>ExitVfork DEF ExitVfork, Complete
<1>ExitLast. CASE ExitLast(t)  BY <1>ExitLast DEF ExitLast
<1>ExitTake. CASE ExitTake(t)  BY <1>ExitTake DEF ExitTake
<1>ExitSigchld. CASE ExitSigchld(t)  BY <1>ExitSigchld DEF ExitSigchld
<1>ExitWake. CASE ExitWake(t)  BY <1>ExitWake DEF ExitWake
<1>ExitOrphans. CASE ExitOrphans(t)  BY <1>ExitOrphans DEF ExitOrphans
<1>ExitAdopt. CASE ExitAdopt(t)  BY <1>ExitAdopt DEF ExitAdopt
<1>ExitDie. CASE ExitDie(t)  BY <1>ExitDie DEF ExitDie
<1>WaitBlock. CASE WaitBlock(t)  BY <1>WaitBlock DEF WaitBlock
<1>WaitidInfo. CASE WaitidInfo(t)  BY <1>WaitidInfo DEF WaitidInfo, Reap
<1>WaitRemove. CASE WaitRemove(t)  BY <1>WaitRemove DEF WaitRemove
<1> QED  BY Zenon, <1>Fork, <1>Clone, <1>VforkLook, <1>VforkBlock, <1>VforkWoken, <1>ExecDone,
       <1>ExitRemove, <1>ExitZombie, <1>ExitVfork, <1>ExitLast, <1>ExitTake, <1>ExitSigchld,
       <1>ExitWake, <1>ExitOrphans, <1>ExitAdopt, <1>ExitDie, <1>WaitLook, <1>WaitBlock,
       <1>WaitidInfo, <1>WaitRemove
       DEF Loud

\* A process keeps its parent until it is adopted.
LEMMA ParentsStep ==
    ASSUME TypeOK, Lineage, Custody, Parents,
           NEW t \in Thread, Loud(t)
    PROVE  Parents'
<1>Fork. CASE \E call \in {"fork", "vfork"} : Fork(t, call)
  <2>1. PICK u \in Thread, call \in {"fork", "vfork"} :
            /\ leader[u] = None /\ leader' = [leader EXCEPT ![u] = u]
            /\ parent' = [parent EXCEPT ![u] = t]
            /\ vforked' = IF call = "vfork" THEN vforked \cup {u} ELSE vforked
            /\ on' = [on EXCEPT ![t] = u]
            /\ pc' = [pc EXCEPT ![t] = IF call = "vfork" THEN "vfork" ELSE "return",
                                ![u] = "user"]
    BY <1>Fork, Zenon DEF Fork, Birth, Fresh, Unborn
  <2>2. t # u /\ pc[t] = "user" /\ pc[u] = "unborn"
    BY <1>Fork, <2>1 DEF Fork, Lineage
  <2>3. children' = [children EXCEPT ![t] = @ \cup {u}]
    BY <1>Fork, <2>1 DEF Fork, Birth, Fresh, Unborn, TypeOK
  <2>4. \A p \in Thread : pc'[p] = "exit_adopt" => pc[p] = "exit_adopt"
    BY <2>1, <2>2 DEF TypeOK
  <2>5. UNCHANGED <<todo, adopted>>
    BY <1>Fork, Zenon DEF Fork, hist
  <2>6. \A v \in Thread \ {u} : leader'[v] = leader[v] /\ leader[v] # u /\ parent'[v] = parent[v]
    BY <2>1, ThreadAssumption DEF TypeOK, Lineage
  <2>7. \A p \in Thread : u \in children'[p] => p = t
    BY <2>1, <2>3 DEF TypeOK, Lineage
  <2>8. leader'[u] = u /\ parent'[u] = t
    BY <2>1 DEF TypeOK
  <2>9. \A p \in Thread : children'[p] \ {u} = children[p] \ {u}
    BY <2>3 DEF TypeOK
  <2> QED
    BY <2>4, <2>5, <2>6, <2>7, <2>8, <2>9 DEF Parents
<1> USE DEF Goto, lineage, vfork, local, hist, TypeOK, Lineage, Parents
<1>Clone. CASE Clone(t)  BY <1>Clone DEF Clone, Birth, Fresh, Unborn
<1>VforkLook. CASE VforkLook(t)  BY <1>VforkLook DEF VforkLook
<1>VforkBlock. CASE VforkBlock(t)  BY <1>VforkBlock DEF VforkBlock
<1>VforkWoken. CASE VforkWoken(t)  BY <1>VforkWoken DEF VforkWoken
<1>ExecDone. CASE ExecDone(t)  BY <1>ExecDone DEF ExecDone, Complete, Unlock
<1>ExitRemove. CASE ExitRemove(t)  BY <1>ExitRemove DEF ExitRemove
<1>ExitZombie. CASE ExitZombie(t)  BY <1>ExitZombie DEF ExitZombie
<1>ExitVfork. CASE ExitVfork(t)  BY <1>ExitVfork DEF ExitVfork, Complete
<1>ExitLast. CASE ExitLast(t)  BY <1>ExitLast DEF ExitLast
<1>ExitTake. CASE ExitTake(t)  BY <1>ExitTake DEF ExitTake
<1>ExitSigchld. CASE ExitSigchld(t)  BY <1>ExitSigchld DEF ExitSigchld
<1>ExitWake. CASE ExitWake(t)  BY <1>ExitWake DEF ExitWake
<1>ExitOrphans. CASE ExitOrphans(t)  BY <1>ExitOrphans DEF ExitOrphans, Custody, Holds, Carrying
<1>ExitAdopt. CASE ExitAdopt(t)  BY <1>ExitAdopt DEF ExitAdopt, Custody, Holds, Carrying
<1>ExitDie. CASE ExitDie(t)  BY <1>ExitDie DEF ExitDie
<1>WaitLook. CASE WaitLook(t)  BY <1>WaitLook DEF WaitLook, Matches, Reap
<1>WaitBlock. CASE WaitBlock(t)  BY <1>WaitBlock DEF WaitBlock
<1>WaitidInfo. CASE WaitidInfo(t)  BY <1>WaitidInfo DEF WaitidInfo, Reap
<1>WaitRemove. CASE WaitRemove(t)  BY <1>WaitRemove DEF WaitRemove
<1> QED  BY Zenon, <1>Fork, <1>Clone, <1>VforkLook, <1>VforkBlock, <1>VforkWoken, <1>ExecDone,
       <1>ExitRemove, <1>ExitZombie, <1>ExitVfork, <1>ExitLast, <1>ExitTake, <1>ExitSigchld,
       <1>ExitWake, <1>ExitOrphans, <1>ExitAdopt, <1>ExitDie, <1>WaitLook, <1>WaitBlock,
       <1>WaitidInfo, <1>WaitRemove
       DEF Loud

\* Nobody sleeps on beside a child that has told its end.
LEMMA NoLostChildStep ==
    ASSUME TypeOK, Lineage, Registered, Sleepers, Custody, Parents, NoLostChild,
           NEW t \in Thread, Loud(t)
    PROVE  NoLostChild'
<1>Fork. CASE \E call \in {"fork", "vfork"} : Fork(t, call)
  <2>1. ASSUME NEW s \in asleep', pc'[s] # "vfork_asleep"
        PROVE  /\ s \in asleep \ {t} /\ pc[s] # "vfork_asleep"
               /\ Matches(s)' \ adopted' \subseteq Matches(s) \ adopted
    <3>1. PICK u \in Thread :
              /\ leader[u] = None
              /\ children' = [children EXCEPT ![t] = @ \cup {u}]
              /\ on' = [on EXCEPT ![t] = u]
              /\ \A v \in Thread \ {t, u} : pc'[v] = pc[v]
      BY <1>Fork, Zenon DEF Fork, Fresh, Unborn, TypeOK
    <3>2. asleep' = asleep /\ adopted' = adopted /\ pc[t] = "user"
      BY <1>Fork, Zenon DEF Fork, hist
    <3>3. s \in asleep \ {t, u}
      BY <2>1, <3>1, <3>2 DEF Sleepers, InWait, Lineage, TypeOK
    <3> QED
      BY <2>1, <3>1, <3>2, <3>3 DEF Matches, TypeOK
  <2>2. \A c \in zombie' : c \in zombie
    BY <1>Fork, Zenon DEF Fork
  <2>3. ASSUME NEW s \in asleep \ {t}, NEW c \in Matches(s) \ adopted, pc[s] # "vfork_asleep",
               NEW u \in Group(c), Comes(u, s)
        PROVE  \E v \in Group(c)' : Comes(v, s)'
    <3>1. leader[c] = c /\ c # None
      BY <2>3, ThreadAssumption DEF Matches, Custody, Holds, TypeOK
    <3>2. \A v \in Thread : leader[v] # None => leader'[v] = leader[v]
      BY <1>Fork DEF Fork, Birth, Fresh, Unborn, TypeOK
    <3>3. u \in Group(c)'
      BY <2>3, <3>1, <3>2, ThreadAssumption DEF Group, Matches, TypeOK
    <3>4. pc[u] # "unborn"
      BY <2>3, <3>1 DEF Group, Lineage, Matches, TypeOK
    <3>5. registry \subseteq registry' /\ (u # t => pc'[u] = pc[u] /\ on'[u] = on[u])
      BY <1>Fork, <2>3, <3>4 DEF Fork, Birth, Fresh, Unborn, Lineage, Group, TypeOK
    <3> QED
      BY <1>Fork, <2>3, <3>3, <3>5 DEF Fork, Comes
  <2> QED
    BY <2>1, <2>2, <2>3 DEF NoLostChild
<1>Clone. CASE Clone(t)
  <2>1. ASSUME NEW s \in asleep', pc'[s] # "vfork_asleep"
        PROVE  /\ s \in asleep \ {t} /\ pc[s] # "vfork_asleep"
               /\ Matches(s)' \ adopted' \subseteq Matches(s) \ adopted
    BY <1>Clone, <2>1, SMTT(20) DEF Clone, Birth, Fresh, Unborn, Goto, Sleepers, InWait, Matches, hist, local, Lineage, TypeOK
  <2>2. \A c \in zombie' : c \in zombie
    BY <1>Clone, Zenon DEF Clone
  <2>3. ASSUME NEW s \in asleep \ {t}, NEW c \in Matches(s) \ adopted, pc[s] # "vfork_asleep",
               NEW u \in Group(c), Comes(u, s)
        PROVE  \E v \in Group(c)' : Comes(v, s)'
    <3>1. leader[c] = c /\ c # None
      BY <2>3, ThreadAssumption DEF Matches, Custody, Holds, TypeOK
    <3>2. \A v \in Thread : leader[v] # None => leader'[v] = leader[v]
      BY <1>Clone DEF Clone, Birth, Fresh, Unborn, TypeOK
    <3>3. u \in Group(c)'
      BY <2>3, <3>1, <3>2, ThreadAssumption DEF Group, Matches, TypeOK
    <3>4. pc[u] # "unborn"
      BY <2>3, <3>1 DEF Group, Lineage, Matches, TypeOK
    <3> QED
      BY <1>Clone, <2>3, <3>3, <3>4 DEF Clone, Birth, Fresh, Unborn, Goto, Comes, Lineage, Group, local, TypeOK
  <2> QED
    BY <2>1, <2>2, <2>3 DEF NoLostChild
<1>ExitLast. CASE ExitLast(t)
  <2>1. ASSUME NEW s \in asleep', pc'[s] # "vfork_asleep"
        PROVE  /\ s \in asleep \ {t} /\ pc[s] # "vfork_asleep"
               /\ Matches(s)' \ adopted' \subseteq Matches(s) \ adopted
    BY <1>ExitLast, <2>1 DEF ExitLast, Goto, Sleepers, InWait, Matches, hist, lineage, local, TypeOK
  <2>2. \A c \in zombie' : c \in zombie
    BY <1>ExitLast, Zenon DEF ExitLast
  <2>3. ASSUME NEW s \in asleep \ {t}, NEW c \in Matches(s) \ adopted, pc[s] # "vfork_asleep",
               NEW u \in Group(c), Comes(u, s)
        PROVE  \E v \in Group(c)' : Comes(v, s)'
    <3>1. CASE u = t /\ Siblings(t) # {}
      BY <1>ExitLast, <2>3, <3>1, Zenon DEF ExitLast, Siblings, Group, Comes, lineage
    <3>2. CASE u # t \/ Siblings(t) = {}
      BY <1>ExitLast, <2>3, <3>2, SMTT(20) DEF ExitLast, Goto, Group, Comes, lineage, local, TypeOK
    <3> QED  BY <3>1, <3>2
  <2> QED
    BY <2>1, <2>2, <2>3 DEF NoLostChild
<1>ExitTake. CASE ExitTake(t)
  <2>1. ASSUME NEW s \in asleep', pc'[s] # "vfork_asleep"
        PROVE  /\ s \in asleep \ {t} /\ pc[s] # "vfork_asleep"
               /\ Matches(s)' \ adopted' \subseteq Matches(s) \ adopted
    BY <1>ExitTake, <2>1, SMTT(20) DEF ExitTake, Goto, Sleepers, InWait, Matches, TypeOK
  <2>2. \A c \in zombie' : c \in zombie
    BY <1>ExitTake, Zenon DEF ExitTake
  <2>3. ASSUME NEW s \in asleep \ {t}, NEW c \in Matches(s) \ adopted, pc[s] # "vfork_asleep",
               NEW u \in Group(c), Comes(u, s)
        PROVE  \E v \in Group(c)' : Comes(v, s)'
    <3>1. u = t => parent[t] = s
      BY <2>3 DEF Group, Matches, Custody, Holds, Parents, TypeOK
    <3>2. s \in Thread /\ s # None /\ Exists(s)
      BY <2>3, ThreadAssumption DEF Sleepers, InWait, Exists, TypeOK
    <3>3. CASE u = t
      BY <1>ExitTake, <2>3, <3>1, <3>2, <3>3 DEF ExitTake, Goto, Group, Comes, TypeOK
    <3>4. CASE u # t
      BY <1>ExitTake, <2>3, <3>4 DEF ExitTake, Goto, Group, Comes, TypeOK
    <3> QED  BY <3>3, <3>4
  <2> QED
    BY <2>1, <2>2, <2>3 DEF NoLostChild
<1>ExitAdopt. CASE ExitAdopt(t)
  <2>1. ASSUME NEW s \in asleep', pc'[s] # "vfork_asleep"
        PROVE  /\ s \in asleep \ {t} /\ pc[s] # "vfork_asleep"
               /\ Matches(s)' \ adopted' \subseteq Matches(s) \ adopted
    <3>1. \A p \in Thread : children'[p] \ adopted \subseteq children[p]
      BY <1>ExitAdopt, ThreadAssumption DEF ExitAdopt, Parents, TypeOK
    <3> QED
      BY <1>ExitAdopt, <2>1, <3>1 DEF ExitAdopt, Goto, Sleepers, InWait, Matches, hist, TypeOK
  <2>2. \A c \in zombie' : c \in zombie
    BY <1>ExitAdopt, Zenon DEF ExitAdopt
  <2>3. ASSUME NEW s \in asleep \ {t}, NEW c \in Matches(s) \ adopted, pc[s] # "vfork_asleep",
               NEW u \in Group(c), Comes(u, s)
        PROVE  \E v \in Group(c)' : Comes(v, s)'
    BY <1>ExitAdopt, <2>3 DEF ExitAdopt, Goto, Group, Comes, TypeOK
  <2> QED
    BY <2>1, <2>2, <2>3 DEF NoLostChild
<1>WaitBlock. CASE WaitBlock(t)
  <2>1. ASSUME NEW s \in asleep', pc'[s] # "vfork_asleep", s # t
        PROVE  s \in asleep /\ pc[s] # "vfork_asleep"
    BY <1>WaitBlock, <2>1 DEF WaitBlock, Goto, TypeOK
  <2>2. t \in asleep' => Matches(t) \cap zombie = {}
    BY <1>WaitBlock DEF WaitBlock, ShouldBlock, Sleepers, InWait
  <2>3. \A s \in Thread : Matches(s)' = Matches(s)
    BY <1>WaitBlock DEF WaitBlock, Matches, lineage, local
  <2>4. \A u, s \in Thread : Comes(u, s) => Comes(u, s)'
    BY <1>WaitBlock DEF WaitBlock, Goto, Comes, local, TypeOK
  <2>5. asleep' \subseteq Thread /\ UNCHANGED <<zombie, adopted, leader>>
    BY <1>WaitBlock DEF WaitBlock, lineage, hist, TypeOK
  <2> QED
    BY <2>1, <2>2, <2>3, <2>4, <2>5 DEF NoLostChild, Group
<1>WaitRemove. CASE WaitRemove(t)
  <2>1. ASSUME NEW s \in asleep', pc'[s] # "vfork_asleep"
        PROVE  /\ s \in asleep \ {t} /\ pc[s] # "vfork_asleep"
               /\ Matches(s)' \ adopted' \subseteq Matches(s) \ adopted
    BY <1>WaitRemove, <2>1, SMTT(20) DEF WaitRemove, Sleepers, InWait, Matches, lineage, local, TypeOK
  <2>2. \A c \in zombie' : c \in zombie
    BY <1>WaitRemove, Zenon DEF WaitRemove
  <2>3. ASSUME NEW s \in asleep \ {t}, NEW c \in Matches(s) \ adopted, pc[s] # "vfork_asleep",
               NEW u \in Group(c), Comes(u, s)
        PROVE  \E v \in Group(c)' : Comes(v, s)'
    <3>0. on[t] \in Thread /\ Holds(t, on[t]) /\ s \in Thread
      BY <1>WaitRemove, <2>3, SMTT(20) DEF WaitRemove, Lineage, About, Holds, TypeOK
    <3>1. leader[on[t]] = on[t] /\ on[t] \notin children[s]
      BY <2>3, <3>0, Zenon DEF Custody, Holds
    <3>2. leader[u] # leader[on[t]]
      BY <2>3, <3>0, <3>1 DEF Group, Matches, Custody, Holds, TypeOK
    <3>3. u \in Group(c)' /\ (u \in registry => u \in registry')
      BY <1>WaitRemove, <2>3, <3>2, Zenon DEF WaitRemove, Group, lineage
    <3>4. u \notin registry => u = t \/ pc'[u] = pc[u]
      BY <1>WaitRemove, <2>3, SMTT(20) DEF WaitRemove, Group, TypeOK
    <3> QED
      BY <1>WaitRemove, <2>3, <3>3, <3>4, Zenon DEF WaitRemove, Comes, local
  <2> QED
    BY <2>1, <2>2, <2>3 DEF NoLostChild
<1> USE DEF Goto, lineage, vfork, local, hist, TypeOK, Sleepers, InWait, NoLostChild, Comes,
       Matches, Group
<1>VforkLook. CASE VforkLook(t)  BY <1>VforkLook DEF VforkLook
<1>VforkBlock. CASE VforkBlock(t)  BY <1>VforkBlock DEF VforkBlock
<1>VforkWoken. CASE VforkWoken(t)  BY <1>VforkWoken DEF VforkWoken
<1>ExecDone. CASE ExecDone(t)  BY <1>ExecDone DEF ExecDone, Complete, Unlock
<1>ExitRemove. CASE ExitRemove(t)  BY <1>ExitRemove DEF ExitRemove
<1>ExitZombie. CASE ExitZombie(t)  BY <1>ExitZombie DEF ExitZombie
<1>ExitVfork. CASE ExitVfork(t)  BY <1>ExitVfork DEF ExitVfork, Complete
<1>ExitSigchld. CASE ExitSigchld(t)  BY <1>ExitSigchld DEF ExitSigchld
<1>ExitWake. CASE ExitWake(t)  BY <1>ExitWake DEF ExitWake
<1>ExitOrphans. CASE ExitOrphans(t)  BY <1>ExitOrphans DEF ExitOrphans
<1>ExitDie. CASE ExitDie(t)  BY <1>ExitDie DEF ExitDie
<1>WaitLook. CASE WaitLook(t)  BY <1>WaitLook DEF WaitLook, Reap
<1>WaitidInfo. CASE WaitidInfo(t)  BY <1>WaitidInfo DEF WaitidInfo, Reap
<1> QED  BY Zenon, <1>Fork, <1>Clone, <1>VforkLook, <1>VforkBlock, <1>VforkWoken, <1>ExecDone,
       <1>ExitRemove, <1>ExitZombie, <1>ExitVfork, <1>ExitLast, <1>ExitTake, <1>ExitSigchld,
       <1>ExitWake, <1>ExitOrphans, <1>ExitAdopt, <1>ExitDie, <1>WaitLook, <1>WaitBlock,
       <1>WaitidInfo, <1>WaitRemove
       DEF Loud

\* Custody is kept.
LEMMA CustodyStep ==
    ASSUME TypeOK, Lineage, Custody, NEW t \in Thread, Loud(t)
    PROVE  Custody'
<1>1. \A p, c \in Thread : Holds(p, c)' =>
          \/ Holds(p, c)
          \/ p = t /\ leader[c] = None /\ leader'[c] = c
          \/ p = InitTask /\ p # t /\ Holds(t, c) /\ ~Holds(t, c)'
  BY HoldsStep
<1>2. \A c \in Thread : leader[c] # None => leader'[c] = leader[c]
  BY FrameStep
<1>3. \A p, c \in Thread : Holds(p, c) => leader[c] = c /\ c # None
  BY ThreadAssumption DEF Custody
<1>4. \A p, c \in Thread : Holds(p, c)' => leader'[c] = c
  BY <1>1, <1>2, <1>3
<1>5. \A p, q, c \in Thread : Holds(p, c)' /\ Holds(q, c)' => p = q
  BY <1>1, <1>3 DEF Custody
<1> QED  BY <1>4, <1>5, OnceStep, Zenon DEF Custody

\* A calm step keeps them all.
LEMMA MovesKeepsFamily ==
    ASSUME TypeOK, Lineage, Sleepers, Telling, Custody, Parents, NoLostChild,
           NEW t \in Thread, Moves(t)
    PROVE  Telling' /\ Custody' /\ Parents' /\ NoLostChild'
<1>1. Telling'
  BY SMTT(20) DEF Moves, Settled, Locked, lineage, hist, TypeOK, Telling, Group, Announced
<1>2. \A p \in Thread : pc'[p] \in Carrying \cup {"wait_remove", "exit_adopt"} =>
          pc'[p] = pc[p] /\ on'[p] = on[p] /\ todo'[p] = todo[p]
  BY Zenon DEF Moves, Settled, Locked, Carrying
<1>3. \A p, c \in Thread : Holds(p, c)' => Holds(p, c)
  BY <1>2, Zenon DEF Moves, lineage, Holds
<1>4. Custody'
  BY <1>2, <1>3 DEF Moves, lineage, Custody
<1>5. Parents'
  BY <1>2 DEF Moves, lineage, hist, Parents
<1>6. \A s \in asleep' : s \in asleep \ {t} /\ pc'[s] = pc[s] /\ Matches(s)' = Matches(s)
  BY DEF Moves, lineage, Matches, TypeOK
<1>7. \A u, s \in Thread : Comes(u, s) => Comes(u, s)'
  BY DEF Moves, Settled, Locked, Comes
<1>8. NoLostChild'
  BY <1>6, <1>7 DEF Moves, lineage, hist, NoLostChild, Group, TypeOK
<1> QED  BY <1>1, <1>4, <1>5, <1>8

\* The initial states satisfy the invariant.
LEMMA InitInv == Init => IInv
<1> SUFFICES ASSUME Init PROVE IInv
  OBVIOUS
<1>1. Telling
  BY ThreadAssumption, Zenon DEF Init, Telling, Group, Announced
<1>2. Custody /\ Parents
  BY ThreadAssumption DEF Init, Custody, Parents, Holds, Carrying
<1> QED  BY <1>1, <1>2, InitSafe DEF IInv, Init, NoLostChild

\* Every step keeps it.
LEMMA NextInv == IInv /\ [Next]_vars => IInv'
<1> SUFFICES ASSUME IInv, [Next]_vars PROVE IInv'
  OBVIOUS
<1> USE DEF IInv
<1>1. CASE Next
  <2> PICK t \in Thread : Call(t) \/ Exit(t) \/ Step(t)
    BY <1>1 DEF Next
  <2>1. Loud(t) \/ Moves(t)
    BY Kinds DEF Safe
  <2>2. Telling' /\ Custody' /\ Parents' /\ NoLostChild'
    BY <2>1, MovesKeepsFamily, TellingStep, CustodyStep, ParentsStep, NoLostChildStep DEF Safe
  <2> QED  BY <2>2, NextSafe
<1>2. CASE UNCHANGED vars
  <2> USE <1>2 DEF vars
  <2>1. Telling'
    BY Zenon DEF Telling, Group
  <2>2. Custody' /\ Parents'
    BY Zenon DEF Custody, Parents, Holds
  <2>3. NoLostChild'
    BY SMTT(20) DEF NoLostChild, Comes, Matches, Group
  <2> QED  BY <2>1, <2>2, <2>3, NextSafe
<1> QED  BY <1>1, <1>2

-----------------------------------------------------------------------------
(* The theorems.                                                           *)

\* The invariant holds throughout, whatever calls the threads make.
THEOREM Invariant == Spec => []IInv
  BY InitInv, NextInv, PTL DEF Spec

\* Of the threads of a group that exit together, one announces the end; and no
\* caller of wait4 or waitid sleeps on beside a child that is a zombie unless a
\* thread of that child lives or is about to wake it.
THEOREM ParentIsTold == Spec => []ParentTold
<1>1. IInv => ParentTold
  BY DEF IInv, ParentTold, EndIsTold, Telling, Announced
<1> QED  BY <1>1, Invariant, PTL
=============================================================================
