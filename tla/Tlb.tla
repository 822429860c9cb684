-------------------------------- MODULE Tlb --------------------------------
(***************************************************************************)
(* Address-space switches and TLB shootdown on RISC-V (arch/riscv/mm/      *)
(* tlb.rs, flush_tlb_targets and Drop of mm/memory_set.rs).  A CPU that    *)
(* runs no task keeps the address space of its last one loaded; a page     *)
(* table whose process is gone stays allocated until the last CPU has left *)
(* it.  A translation is removed from the page table first, from the TLB   *)
(* of every CPU that has the address space loaded next, and only then is   *)
(* its frame released.                                                     *)
(*                                                                         *)
(* Each address space has one user page.  An address space is named by its *)
(* token: the name is free for the next process as soon as its page table  *)
(* is released, as the root frame and the ASID in a token are.  The TLB is *)
(* modelled by the frames it translates to; loading satp empties it.       *)
(***************************************************************************)
EXTENDS Naturals, Sequences, FiniteSets

CONSTANTS Cpu, Mm, Kernel, Frame, None,
          MaxThreads    \* bound on the threads of a process

VARIABLES satp,     \* the token loaded on each CPU
          tlb,      \* the frames that the TLB of each CPU translates to
          harts,    \* token_harts: the CPUs that have marked a token
          dying,    \* tokens whose page-table frames wait for the last CPU
          root,     \* tokens whose page table is allocated
          pte,      \* the frame that the page of an address space maps to
          users,    \* number of references of tasks to an address space
          ready,    \* how many of these tasks are not on a CPU
          run,      \* the address space of the task on each CPU
          free,     \* released frames
          todo      \* what each CPU still has to do in the kernel

tlbVars == <<satp, tlb, harts, dying, root, pte, users, ready, run, free, todo>>

Do(k, m, set) == [k |-> k, m |-> m, set |-> set]
SwitchMm(m) == <<Do("mark", m, {}), Do("load", m, {}), Do("clear", m, {})>>
\* Mutant: the frames are released before the other CPUs are fenced.
FlushTargetsEarly(m, hold) == <<Do("release", m, hold), Do("snapshot", m, {}), Do("fence", m, {})>>
FlushTargets(m, hold) == <<Do("snapshot", m, {}), Do("fence", m, {}), Do("release", m, hold)>>

User(c) == run[c] # None /\ todo[c] = << >>
Idle(c) == run[c] = None /\ todo[c] = << >>
Doing(c, k) == todo[c] # << >> /\ Head(todo[c]).k = k
Finish(c) == todo' = [todo EXCEPT ![c] = Tail(@)]
Begin(c, ops) == todo' = [todo EXCEPT ![c] = ops]

-----------------------------------------------------------------------------
(* switch_mm: nothing to do when the token is loaded already; the old      *)
(* token is remembered in the last step.                                   *)
Mark(c) ==
    /\ Doing(c, "mark")
    /\ LET m == Head(todo[c]).m IN
       IF satp[c] = m
       THEN harts' = harts /\ Begin(c, SubSeq(todo[c], 4, Len(todo[c])))
       ELSE /\ harts' = [harts EXCEPT ![m] = @ \cup {c}]
            /\ Begin(c, Tail([todo[c] EXCEPT ![3].m = satp[c]]))
    /\ UNCHANGED <<satp, tlb, dying, root, pte, users, ready, run, free>>

LoadSatp(c) ==
    /\ Doing(c, "load")
    /\ satp' = [satp EXCEPT ![c] = Head(todo[c]).m]
    /\ tlb' = [tlb EXCEPT ![c] = {}]
    /\ Finish(c)
    /\ UNCHANGED <<harts, dying, root, pte, users, ready, run, free>>

ClearOld(c) ==
    /\ Doing(c, "clear")
    /\ LET old == Head(todo[c]).m
           last == harts[old] = {c}
       IN /\ harts' = [harts EXCEPT ![old] = @ \ {c}]
          /\ dying' = IF last THEN dying \ {old} ELSE dying
          /\ root' = IF last /\ old \in dying THEN root \ {old} ELSE root
    /\ Finish(c)
    /\ UNCHANGED <<satp, tlb, pte, users, ready, run, free>>

(* flush_tlb_targets: a snapshot of the CPUs that have marked the token,   *)
(* then a local or remote fence on each; the call returns when all are     *)
(* done, and its caller drops the frames it holds.                         *)
Snapshot(c) ==
    /\ Doing(c, "snapshot")
    /\ todo' = [todo EXCEPT ![c] = Tail([todo[c] EXCEPT ![2].set = harts[Head(todo[c]).m]])]
    /\ UNCHANGED <<satp, tlb, harts, dying, root, pte, users, ready, run, free>>

Fence(c) ==
    /\ Doing(c, "fence")
    /\ LET op == Head(todo[c]) IN
       \/ \E h \in op.set :
            /\ tlb' = [tlb EXCEPT ![h] = IF satp[h] = op.m THEN {} ELSE @]
            /\ todo' = [todo EXCEPT ![c][1].set = @ \ {h}]
       \/ op.set = {} /\ Finish(c) /\ UNCHANGED tlb
    /\ UNCHANGED <<satp, harts, dying, root, pte, users, ready, run, free>>

Release(c) ==
    /\ Doing(c, "release")
    /\ free' = free \cup Head(todo[c]).set
    /\ Finish(c)
    /\ UNCHANGED <<satp, tlb, harts, dying, root, pte, users, ready, run>>

(* A task lets go of its address space; the last reference runs the        *)
(* destructor, which flushes before the page table changes hands.          *)
Take(c) ==
    /\ Doing(c, "take")
    /\ LET m == Head(todo[c]).m IN
       /\ users' = [users EXCEPT ![m] = @ - 1]
       /\ Begin(c, (IF users[m] = 1 THEN FlushTargets(m, {}) \o <<Do("retire", m, {})>> ELSE << >>) \o Tail(todo[c]))
    /\ UNCHANGED <<satp, tlb, harts, dying, root, pte, ready, run, free>>

(* remove_token, and the areas with their frames go with the structure;    *)
(* the entries of the page table stay as they are.                         *)
Retire(c) ==
    /\ Doing(c, "retire")
    /\ LET m == Head(todo[c]).m IN
       /\ dying' = IF harts[m] # {} THEN dying \cup {m} ELSE dying
       /\ root' = IF harts[m] # {} THEN root ELSE root \ {m}
       /\ free' = free \cup ({pte[m]} \ {None})
    /\ Finish(c)
    /\ UNCHANGED <<satp, tlb, harts, pte, users, ready, run>>

-----------------------------------------------------------------------------
(* run_tasks takes a task, and a task is put back.                         *)
Dispatch(c) ==
    /\ Idle(c)
    /\ \E m \in Mm :
        /\ ready[m] > 0
        /\ ready' = [ready EXCEPT ![m] = @ - 1]
        /\ run' = [run EXCEPT ![c] = m]
        /\ Begin(c, SwitchMm(m))
    /\ UNCHANGED <<satp, tlb, harts, dying, root, pte, users, free>>
Preempt(c) ==
    /\ User(c)
    /\ ready' = [ready EXCEPT ![run[c]] = @ + 1]
    /\ run' = [run EXCEPT ![c] = None]
    /\ UNCHANGED <<satp, tlb, harts, dying, root, pte, users, free, todo>>

(* The hardware walks the loaded page table whenever it likes.             *)
Walk(c) ==
    /\ satp[c] # Kernel /\ pte[satp[c]] # None
    /\ tlb' = [tlb EXCEPT ![c] = @ \cup {pte[satp[c]]}]
    /\ UNCHANGED <<satp, harts, dying, root, pte, users, ready, run, free, todo>>

(* A page becomes valid: only the own TLB is flushed.                      *)
MapPage(c) ==
    /\ User(c) /\ pte[run[c]] = None
    /\ \E f \in free : pte' = [pte EXCEPT ![run[c]] = f] /\ free' = free \ {f}
    /\ tlb' = [tlb EXCEPT ![c] = {}]
    /\ UNCHANGED <<satp, harts, dying, root, users, ready, run, todo>>
(* munmap, and copy on write.                                              *)
UnmapPage(c) ==
    /\ User(c) /\ pte[run[c]] # None
    /\ pte' = [pte EXCEPT ![run[c]] = None]
    /\ Begin(c, FlushTargets(run[c], {pte[run[c]]}))
    /\ UNCHANGED <<satp, tlb, harts, dying, root, users, ready, run, free>>
CopyPage(c) ==
    /\ User(c) /\ pte[run[c]] # None
    /\ \E f \in free : pte' = [pte EXCEPT ![run[c]] = f] /\ free' = free \ {f}
    /\ Begin(c, FlushTargets(run[c], {pte[run[c]]}))
    /\ UNCHANGED <<satp, tlb, harts, dying, root, users, ready, run>>

(* recycle_on_exit; exec, which loads the new address space before it lets *)
(* go of the old one; clone of a thread; fork.                             *)
ExitTask(c) ==
    /\ User(c)
    /\ run' = [run EXCEPT ![c] = None]
    /\ Begin(c, FlushTargets(run[c], {}) \o SwitchMm(Kernel) \o <<Do("take", run[c], {})>>)
    /\ UNCHANGED <<satp, tlb, harts, dying, root, pte, users, ready, free>>
Create(m) ==
    /\ m \notin root
    /\ root' = root \cup {m}
    /\ pte' = [pte EXCEPT ![m] = None]
    /\ users' = [users EXCEPT ![m] = 1]
Exec(c) ==
    /\ User(c) /\ users[run[c]] = 1
    /\ \E m \in Mm :
        /\ Create(m)
        /\ run' = [run EXCEPT ![c] = m]
        /\ Begin(c, FlushTargets(run[c], {}) \o SwitchMm(m) \o <<Do("take", run[c], {})>>)
    /\ UNCHANGED <<satp, tlb, harts, dying, ready, free>>
CloneThread(c) ==
    /\ User(c) /\ users[run[c]] < MaxThreads
    /\ users' = [users EXCEPT ![run[c]] = @ + 1]
    /\ ready' = [ready EXCEPT ![run[c]] = @ + 1]
    /\ UNCHANGED <<satp, tlb, harts, dying, root, pte, run, free, todo>>
Fork(c) ==
    /\ User(c)
    /\ \E m \in Mm : Create(m) /\ ready' = [ready EXCEPT ![m] = 1]
    /\ UNCHANGED <<satp, tlb, harts, dying, run, free, todo>>

TlbInit ==
    /\ satp = [c \in Cpu |-> Kernel]
    /\ tlb = [c \in Cpu |-> {}]
    /\ harts = [m \in Mm \cup {Kernel} |-> {}]
    /\ dying = {}
    /\ \E m \in Mm : /\ root = {Kernel, m}
                     /\ users = [n \in Mm |-> IF n = m THEN 1 ELSE 0]
                     /\ ready = users
    /\ pte = [m \in Mm |-> None]
    /\ run = [c \in Cpu |-> None]
    /\ free = Frame
    /\ todo = [c \in Cpu |-> << >>]

TlbNext == \E c \in Cpu :
    \/ Mark(c) \/ LoadSatp(c) \/ ClearOld(c) \/ Snapshot(c) \/ Fence(c) \/ Release(c) \/ Take(c) \/ Retire(c)
    \/ Dispatch(c) \/ Preempt(c) \/ Walk(c) \/ MapPage(c) \/ UnmapPage(c) \/ CopyPage(c)
    \/ ExitTask(c) \/ Exec(c) \/ CloneThread(c) \/ Fork(c)

TlbSpec == TlbInit /\ [][TlbNext]_tlbVars

-----------------------------------------------------------------------------
(* No CPU ever has a released page table loaded, although nothing but the  *)
(* set of CPUs that have marked a token keeps it; a CPU in user mode runs  *)
(* on the page table of its task; and no translation in its TLB leads to a *)
(* frame that has been released or belongs to another process.             *)
Held(c) == UNION {todo[c][i].set : i \in {j \in DOMAIN todo[c] : todo[c][j].k = "release"}}
Reaches == \A c \in Cpu :
    /\ satp[c] \in root
    /\ User(c) => /\ satp[c] = run[c]
                  /\ tlb[c] \subseteq {pte[run[c]]} \cup UNION {Held(d) : d \in {e \in Cpu : run[e] = run[c]}}
                  /\ tlb[c] \cap free = {}

(* A page table that nobody needs is given back: it is allocated for the   *)
(* kernel, for a process with tasks, for CPUs that still have it loaded or *)
(* are about to, or for a CPU that is destroying it.                       *)
NoLeak == \A m \in root \ {Kernel} :
    \/ users[m] > 0
    \/ m \in dying /\ harts[m] # {}
    \/ \E c \in Cpu : \E i \in DOMAIN todo[c] : todo[c][i].k = "retire" /\ todo[c][i].m = m
=============================================================================
