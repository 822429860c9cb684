------------------------------ MODULE MCKernel ------------------------------
(***************************************************************************)
(* Components whose correctness is a matter of safety: the placement of    *)
(* tasks, their run queues, address spaces, the TLBs of both               *)
(* architectures, signals, timers and physical memory.  They share no      *)
(* state; a behaviour is about one of them.                                *)
(***************************************************************************)
EXTENDS Placement, TLC

CONSTANTS t1, t2, t3, m1, m2, kernel, f1, f2,
          Parts,      \* the components that behaviours are about
          MemoryUses  \* the scenes of AddressSpace

VARIABLES
    part,   \* the component that a behaviour is about; the others rest
    areas, pt, mem, reg, brk, live, moving, calls, can, spec, dirty,   \* AddressSpace
    satp, tlb, harts, dying, root, pte, users, ready, run, free, todo,   \* Tlb
    spaceOf, at, on, active, pending, got, back, ack, sequence, shootdown, layout,
    ipi, await, entry, cached, hold, freed, alive,   \* TlbLa
    group, shared, sigPending, sigBlocked, saved, frames, disposition, term, mode,
    tstate, wakeup, send, want, sent, done,   \* Signals
    play, now, offset, thread, spare, events, pidMap, timer, check, sleepers,
    timPending, serial, armed, fired, dropped, ops,   \* Timers
    mix, task, cfs, rt, nrRunning, current, moved, picks,   \* RunQueues
    tree, held, removes,   \* RbTree
    phase, physLayout, reserved, focus, pool, physFrames, req, dma, blocks, physOps   \* PhysMem

AllParts == {"placement", "memory", "tlb", "tlbla", "signals", "timers", "runqueue", "rbtree",
             "physmem"}

\* Two CPUs and three tasks of two weights; t2 is pinned, t3 has a narrow mask.
TwoCpus == {0, 1}
Mixed == (t1 :> {0, 1}) @@ (t2 :> {0, 1}) @@ (t3 :> {1})
Heavy == (t1 :> 2) @@ (t2 :> 1) @@ (t3 :> 1)

\* Two threads of a process, and of two.
Sharings == {[t \in {1, 2} |-> 11], [t \in {1, 2} |-> 10 + t]}

SignalGroup(m, s, a, ms, d, n) ==
    [members |-> m, sigs |-> s, actions |-> a, masks |-> ms, does |-> d, calls |-> 2, sends |-> n]

\* Two signals and nested masks; every disposition; two threads.
SignalGroups ==
    {SignalGroup({"t1"}, {1, 2}, {"handler", "ignored"}, {{}, {1}, {1, 2}}, {"suspend", "mask"}, 1),
     SignalGroup({"t1"}, {1}, {"handler", "ignored", "quiet", "dfl", "nodefer"}, {{}, {1}},
                 {"suspend", "wait", "action"}, 2),
     SignalGroup({"t1", "t2"}, {1}, {"handler", "ignored"}, {{}, {1}}, {"suspend", "wait"}, 1)}

TimerPlays ==
    {{"alarm", "clone", "exit", "sleep"}, {"posix", "clone", "exit"}, {"posix", "clock", "sleep"}}

QueueMixes == {{}, {"policy", "kill", "steal"}, {"affinity", "steal"}}

Kind(t, s) == [type |-> t, shared |-> s, perm |-> {"R", "W"}, off |-> 0]
Kinds == {Kind(t, s) : t \in {"Framed", "File"}, s \in BOOLEAN}
MemScene(o, a, l, k, t) == [ops |-> o, at |-> a, lens |-> l, kinds |-> k, touch |-> t]

\* Splitting an area by protection and by locking; copies of an address space;
\* moving areas; the heap beside a mapping.
MemoryScenes ==
    {MemScene({"mmap", "munmap", "mprotect"}, {1}, {3}, Kinds \ {Kind("Framed", FALSE)}, {1, 3}),
     MemScene({"mmap", "munmap", "mlock"}, {1}, {3}, {Kind("File", FALSE)}, {1, 2}),
     MemScene({"mmap", "munmap", "fork", "exit"}, {0}, {2}, Kinds, {0, 3}),
     MemScene({"mmap", "mremap", "fork"}, {0}, {1, 2}, Kinds, {3}),
     MemScene({"brk", "mmap", "munmap", "fork"}, {0}, {1}, {Kind("Framed", FALSE)}, {2, 3})}

\* A process that maps a private page, forks, and changes its protection.
Protect == {MemScene({"mmap", "fork", "mprotect"}, {0}, {1}, {Kind("Framed", FALSE)}, {0, 3})}

Mem == INSTANCE AddressSpace WITH
    Mm <- 1 .. 2, Frames <- 4, Base <- 3, Limit <- 6, StartBrk <- 1, FileLen <- 2,
    MaxCalls <- 3, Scenes <- MemoryUses

Rv == INSTANCE Tlb WITH
    Cpu <- {0, 1}, Mm <- {m1, m2}, Kernel <- kernel, None <- None, Frame <- {f1, f2},
    MaxThreads <- 2

La == INSTANCE TlbLa WITH
    Hart <- {0, 1}, Task <- {1, 2}, Space <- {11, 12}, Page <- {f1, f2}, Nil <- None,
    Sharings <- Sharings, MaxSequence <- 2

Sig == INSTANCE Signals WITH
    Member <- {"t1", "t2"}, Sig <- {1, 2}, HandlerMask <- {}, Sender <- {"k"},
    Groups <- SignalGroups, pending <- sigPending, blocked <- sigBlocked

Tim == INSTANCE Timers WITH
    Tids <- 2, Checker <- {"w", "n"}, Delays <- {0, 1, 2}, Intervals <- {0, 1}, TimerIds <- {1},
    MaxTime <- 3, MaxOps <- 3, Plays <- TimerPlays, pending <- timPending

Rq == INSTANCE RunQueues WITH
    Cpu <- {0, 1}, Task <- {1, 2}, Weight <- [t \in {1, 2} |-> t], Nice0 <- 2, Slices <- {1, 2},
    Prios <- {0, 1}, Mixes <- QueueMixes, MaxPicks <- 3

Rb == INSTANCE RbTree WITH
    Keys <- 1 .. 5, MaxRemoves <- 2

Phys == INSTANCE PhysMem WITH
    Cpus <- {0, 1}, Mega <- 2, Giga <- 4, DmaSize <- 3, MinHeap <- 6, MaxHeap <- 8,
    MinPool <- 3, Regions <- {<<0, 17>>, <<30, 40>>}, Reserved <- {1, 15},
    ImageEnds <- {1, 2, 4}, LowWater <- 1, Retries <- 1, MaxOps <- 4, layout <- physLayout,
    frames <- physFrames, ops <- physOps

PlaceVars == <<pc, cur, job, rq, count, weight, res, last, unborn, blocked, left>>
MemVars == <<areas, pt, mem, reg, brk, live, moving, calls, can, spec, dirty>>
RvVars == <<satp, tlb, harts, dying, root, pte, users, ready, run, free, todo>>
LaVars == <<spaceOf, at, on, active, pending, got, back, ack, sequence, shootdown, layout, ipi,
            await, entry, cached, hold, freed, alive>>
SigVars == <<group, shared, sigPending, sigBlocked, saved, frames, disposition, term, mode, tstate,
             wakeup, send, want, sent, done>>
TimVars == <<play, now, offset, thread, spare, events, pidMap, timer, check, sleepers, timPending,
             serial, armed, fired, dropped, ops>>
RqVars == <<mix, task, cfs, rt, nrRunning, current, moved, picks>>
RbVars == <<tree, held, removes>>
PhysVars == <<phase, physLayout, reserved, focus, pool, physFrames, req, dma, blocks, physOps>>

all == <<part, PlaceVars, MemVars, RvVars, LaVars, SigVars, TimVars, RqVars, RbVars, PhysVars>>

OnlyPlace == part = "placement" /\ UNCHANGED <<part, MemVars, RvVars, LaVars, SigVars, TimVars,
        RqVars, RbVars, PhysVars>>
OnlyMem == part = "memory" /\ UNCHANGED <<part, PlaceVars, RvVars, LaVars, SigVars, TimVars,
        RqVars, RbVars, PhysVars>>
OnlyRv == part = "tlb" /\ UNCHANGED <<part, PlaceVars, MemVars, LaVars, SigVars, TimVars,
        RqVars, RbVars, PhysVars>>
OnlyLa == part = "tlbla" /\ UNCHANGED <<part, PlaceVars, MemVars, RvVars, SigVars, TimVars,
        RqVars, RbVars, PhysVars>>
OnlySig == part = "signals" /\ UNCHANGED <<part, PlaceVars, MemVars, RvVars, LaVars, TimVars,
        RqVars, RbVars, PhysVars>>
OnlyTim == part = "timers" /\ UNCHANGED <<part, PlaceVars, MemVars, RvVars, LaVars, SigVars,
        RqVars, RbVars, PhysVars>>
OnlyRq == part = "runqueue" /\ UNCHANGED <<part, PlaceVars, MemVars, RvVars, LaVars, SigVars,
        TimVars, RbVars, PhysVars>>
OnlyRb == part = "rbtree" /\ UNCHANGED <<part, PlaceVars, MemVars, RvVars, LaVars, SigVars,
        TimVars, RqVars, PhysVars>>
OnlyPhys == part = "physmem" /\ UNCHANGED <<part, PlaceVars, MemVars, RvVars, LaVars, SigVars,
        TimVars, RqVars, RbVars>>

\* A component that rests stays in one of its initial states.
AllInit ==
    /\ part \in Parts
    /\ Init
    /\ Mem!Init
    /\ part # "memory" => can = CHOOSE s \in MemoryUses : TRUE
    /\ Rv!TlbInit
    /\ part # "tlb" => ready = [m \in {m1, m2} |-> IF m = m1 THEN 1 ELSE 0]
    /\ La!LaInit
    /\ part # "tlbla" => spaceOf = [t \in {1, 2} |-> 11]
    /\ Sig!SigInit
    /\ part # "signals" => group = CHOOSE g \in SignalGroups : g.sigs = {1, 2}
    /\ part # "signals" => disposition = [s \in {1, 2} |-> "handler"]
    /\ Tim!TimersInit
    /\ part # "timers" => play = {"posix", "clone", "exit"}
    /\ Rq!RqInit
    /\ part # "runqueue" => mix = {}
    /\ Rb!RbInit
    /\ Phys!MemInit
    /\ part # "physmem" => reserved = {}
    /\ part # "physmem" => focus = "dma"

AllNext ==
    \/ OnlyPlace /\ Next
    \/ OnlyMem /\ Mem!Next
    \/ OnlyRv /\ Rv!TlbNext
    \/ OnlyLa /\ La!LaNext
    \/ OnlySig /\ Sig!SigNext
    \/ OnlyTim /\ Tim!TimersNext
    \/ OnlyRq /\ Rq!RqNext
    \/ OnlyRb /\ Rb!RbNext
    \/ OnlyPhys /\ Phys!MemNext

AllSpec == AllInit /\ [][AllNext]_all

-----------------------------------------------------------------------------
\* Memory areas (mm/memory_set.rs): whatever is mapped, split, moved and
\* unmapped, the areas of a process stay disjoint and inside the user range,
\* and every page that is mapped lies in an area that holds its frame.
Layout == part = "memory" => Mem!Layout

\* What a process reads at an address is what it, or a process it shares the
\* mapping with, wrote there last (copy on write, shared mappings, private file
\* pages), whatever is forked, split, moved and unmapped in between; and two
\* addresses in shared mappings have one futex key exactly when they lead to
\* one frame.
Contents == part = "memory" => Mem!Contents /\ Mem!FutexKeys

\* Address-space switches (arch/riscv/mm/tlb.rs): no CPU has a released page
\* table loaded or a released frame in its TLB, and every page table that
\* nobody needs is given back.  LoongArch shootdowns (arch/la/mm/tlb.rs): a
\* hart in user mode never reaches a frame that was released or is another
\* process's, and a hart that waits for acknowledgements gets them.
TlbExact ==
    /\ part = "tlb" => Rv!Reaches /\ Rv!NoLeak
    /\ part = "tlbla" => La!ShootdownSafe /\ La!ShootdownEnds

\* Signals (process/signal): back in user mode a thread has the mask it asked
\* for, whatever handlers and rt_sigsuspend did in between, and rt_sigsuspend
\* does not sleep through a signal.
SignalsKept == part = "signals" => Sig!SignalsKept

\* Timers (timer.rs, process/timer.rs, nanosleep.rs): an arming is signalled
\* once, or given up by its owner, however many callers check the timers at
\* once; the indexes agree; a sleeper is registered for its own deadline.
TimersKept == part = "timers" => Tim!TimersKept

\* The run queues (cfs_rq.rs, rt_rq.rs, rbtree.rs): a queued task is in exactly
\* the queue its policy and CPU say, the counters count, the clock of a fair
\* queue stays behind its tasks, and the red-black tree that holds them is a
\* balanced search tree.
RunQueuesExact == (part = "runqueue" => Rq!RunQueuesExact) /\ (part = "rbtree" => Rb!TreeExact)

\* Physical memory (boot_memory.rs, frame_allocator.rs, dma.rs,
\* heap_allocator.rs): no page has two owners and none is lost, from the layout
\* of the boot through splitting and recycling of large frames.
MemoryExact == part = "physmem" => Phys!MemoryExact
=============================================================================
