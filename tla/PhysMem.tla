------------------------------ MODULE PhysMem ------------------------------
(***************************************************************************)
(* Physical memory: how the boot divides it between the kernel image, the  *)
(* DMA region, the kernel heap and the pool of page frames, and the three  *)
(* allocators that then serve these regions.  The unit is the 4 KiB page;  *)
(* a large page has Mega of them and a huge page Giga.                     *)
(*                                                                         *)
(* The buddy allocator of a heap arena is external: it hands out any free  *)
(* range of its arena.  What the page cache gives back under pressure is   *)
(* any part of the frames that it holds (module PageCache has the rest).   *)
(***************************************************************************)
EXTENDS Integers, Sequences, FiniteSetsExt

CONSTANTS
    Cpus,          \* 0..n-1
    Mega, Giga,
    DmaSize, MinHeap, MaxHeap, MinPool,
    Regions,       \* the memory nodes that the device tree may list: <<start, end>>
    Reserved,      \* where a firmware reservation may start
    ImageEnds,     \* where the kernel image may end
    LowWater,      \* free frames at which frame_alloc reclaims first
    Retries,       \* 10 in the code
    MaxOps         \* bound: allocations

Std == 1
NoSize == 0

VARIABLES
    phase,         \* "boot", "run", "panicked", or "corrupt": freed twice or to the wrong place
    layout,        \* BootMemory
    reserved,      \* ghost: the reservations of this machine
    focus,         \* the allocator that this behaviour exercises
    pool,          \* StackFrameAllocator: current, end and the three stacks
    frames,        \* the frames in use: [ppn, size, cache]
    req,           \* each CPU's frame_alloc: [size, tries]
    dma,           \* DmaMemManager.allocated, as a set of [start, pages]
    blocks,        \* the heap blocks in use: [start, pages, arena]
    ops

vars == <<phase, layout, reserved, focus, pool, frames, req, dma, blocks, ops>>

NoReq == [size |-> NoSize, tries |-> 0]

MemInit ==
    /\ phase = "boot"
    /\ layout = [dma |-> 0, heap |-> 0, frame |-> 0, end |-> 0]
    /\ reserved \in SUBSET Reserved
    /\ focus \in {"frames", "dma", "heap"}
    /\ pool = [current |-> 0, end |-> 0, std |-> <<>>, mega |-> <<>>, giga |-> <<>>]
    /\ frames = {} /\ dma = {} /\ blocks = {}
    /\ req = [c \in Cpus |-> NoReq]
    /\ ops = 0

----------------------------------------------------------------------------
(* The layout of the boot.                                                  *)

Clamp(v, lo, hi) == Max({lo, Min({v, hi})})

\* The region that holds the image, cut at the first reservation behind the image.
PlatformMemoryRange(image) ==
    LET region == CHOOSE r \in Regions : r[1] <= 0 /\ image <= r[2] IN
    [size   |-> region[2] - region[1],
     usable |-> Min({region[2]} \cup {s \in reserved : image <= s})]

\* init: image, DMA region, heap, frames, in this order; each failing assertion panics.
BootMemory ==
    /\ phase = "boot"
    /\ \E image \in ImageEnds :
         LET range  == PlatformMemoryRange(image)
             dmaEnd == image + DmaSize
             most   == range.usable - dmaEnd - MinPool
             heap   == Min({Clamp(range.size \div 4, MinHeap, MaxHeap), most})
             first  == dmaEnd + heap
         IN IF most >= MinHeap /\ heap >= Cardinality(Cpus) + 1
            THEN /\ phase' = "run"
                 /\ layout' = [dma |-> image, heap |-> dmaEnd, frame |-> first,
                               end |-> range.usable]
                 /\ pool' = [pool EXCEPT !.current = first, !.end = range.usable]
            ELSE /\ phase' = "panicked"
                 /\ UNCHANGED <<layout, pool>>
    /\ UNCHANGED <<reserved, focus, frames, req, dma, blocks, ops>>

----------------------------------------------------------------------------
(* The page frames.                                                         *)

FreeFrames == pool.end - pool.current + Len(pool.std) + Mega * Len(pool.mega)
                + Giga * Len(pool.giga)

Top(s) == s[Len(s)]
Rest(s) == SubSeq(s, 1, Len(s) - 1)
AlignUp(n, unit) == ((n + unit - 1) \div unit) * unit

\* Pages from..to-1 go to the stacks, the largest aligned pages first.
RecycleRange(p, from, to) ==
    LET G == {g \in from..(to - 1) : g % Giga = 0 /\ to - g >= Giga}
        M == {m \in from..(to - 1) : /\ m % Mega = 0 /\ to - m >= Mega
                                     /\ \A g \in G : m \notin g..(g + Giga - 1)}
        S == {s \in from..(to - 1) : /\ \A g \in G : s \notin g..(g + Giga - 1)
                                     /\ \A m \in M : s \notin m..(m + Mega - 1)}
        Up(X) == [i \in 1..Cardinality(X) |->
                    CHOOSE x \in X : Cardinality({y \in X : y < x}) = i - 1]
    IN [p EXCEPT !.std = @ \o Up(S), !.mega = @ \o Up(M), !.giga = @ \o Up(G)]

\* All but the first of the total units at base go to a stack.
SplitInto(base, total, unit, stack) == stack \o [i \in 1..(total - 1) |-> base + i * unit]

NoFrame == [ppn |-> 0 - 1, pool |-> pool]

AllocStd ==
    CASE pool.std # <<>> ->
           [ppn |-> Top(pool.std), pool |-> [pool EXCEPT !.std = Rest(@)]]
      [] pool.std = <<>> /\ pool.mega # <<>> ->
           [ppn |-> Top(pool.mega),
            pool |-> [pool EXCEPT !.mega = Rest(@),
                                  !.std = SplitInto(Top(pool.mega), Mega, 1, @)]]
      [] pool.std = <<>> /\ pool.mega = <<>> /\ pool.current < pool.end ->
           [ppn |-> pool.current, pool |-> [pool EXCEPT !.current = @ + 1]]
      [] pool.std = <<>> /\ pool.mega = <<>> /\ pool.current >= pool.end /\ pool.giga # <<>> ->
           [ppn |-> Top(pool.giga),
            pool |-> [pool EXCEPT !.giga = Rest(@),
                                  !.mega = SplitInto(Top(pool.giga), Giga \div Mega, Mega, @),
                                  !.std = SplitInto(Top(pool.giga), Mega, 1, @)]]
      [] OTHER -> NoFrame

\* Mutant: the pages that alignment skips are forgotten.
AllocFreshLeaky(size) ==
    LET first == AlignUp(pool.current, size) IN
    IF first + size > pool.end THEN NoFrame
    ELSE [ppn |-> first, pool |-> [pool EXCEPT !.current = first + size]]

\* An aligned page from the untouched part; the pages skipped are recycled.
AllocFresh(size) ==
    LET first == AlignUp(pool.current, size) IN
    IF first + size > pool.end THEN NoFrame
    ELSE [ppn |-> first,
          pool |-> [RecycleRange(pool, pool.current, first) EXCEPT !.current = first + size]]

AllocMega ==
    CASE pool.mega # <<>> ->
           [ppn |-> Top(pool.mega), pool |-> [pool EXCEPT !.mega = Rest(@)]]
      [] pool.mega = <<>> /\ pool.giga # <<>> ->
           [ppn |-> Top(pool.giga),
            pool |-> [pool EXCEPT !.giga = Rest(@),
                                  !.mega = SplitInto(Top(pool.giga), Giga \div Mega, Mega, @)]]
      [] OTHER -> AllocFresh(Mega)

AllocGiga ==
    IF pool.giga # <<>>
    THEN [ppn |-> Top(pool.giga), pool |-> [pool EXCEPT !.giga = Rest(@)]]
    ELSE AllocFresh(Giga)

Alloc(size) ==
    CASE size = Std -> AllocStd [] size = Mega -> AllocMega [] OTHER -> AllocGiga

Stack(size) == CASE size = Std -> "std" [] size = Mega -> "mega" [] OTHER -> "giga"

\* dealloc panics on a frame that its stack already holds.
DeallocPanics(f) ==
    f.ppn >= pool.end \/ \E i \in DOMAIN pool[Stack(f.size)] : pool[Stack(f.size)][i] = f.ppn

Dealloc(p, f) == [p EXCEPT ![Stack(f.size)] = Append(@, f.ppn)]

\* free_up_mem_space: the page cache drops some of its frames, in any order.
FreeUpMemSpace ==
    \E f \in {{}} \cup {{g} : g \in {h \in frames : h.cache}} \cup {{h \in frames : h.cache}} :
      /\ \A g \in f : ~DeallocPanics(g)
      /\ frames' = frames \ f
      /\ \E order \in {o \in [1..Cardinality(f) -> f] : \A g \in f : \E i \in DOMAIN o : o[i] = g} :
           LET after[i \in 0..Cardinality(f)] ==
                 IF i = 0 THEN pool ELSE Dealloc(after[i - 1], order[i])
           IN pool' = after[Cardinality(f)]

\* frame_alloc, before the lock: when frames are scarce, reclaim first.
FrameAlloc(c) ==
    /\ phase = "run" /\ focus = "frames" /\ req[c] = NoReq /\ ops < MaxOps
    /\ ops' = ops + 1
    /\ \E size \in {Std, Mega, Giga} : req' = [req EXCEPT ![c].size = size]
    /\ IF FreeFrames <= LowWater THEN FreeUpMemSpace ELSE UNCHANGED <<pool, frames>>
    /\ UNCHANGED <<phase, layout, reserved, focus, dma, blocks>>

\* Under the lock.  A failure reclaims and tries again, Retries times.
AllocLocked(c) ==
    /\ req[c] # NoReq
    /\ LET a == Alloc(req[c].size) IN
       IF a.ppn >= 0
       THEN /\ pool' = a.pool
            /\ \E cache \in BOOLEAN :
                 frames' = frames \cup {[ppn |-> a.ppn, size |-> req[c].size, cache |-> cache]}
            /\ req' = [req EXCEPT ![c] = NoReq]
       ELSE IF req[c].tries < Retries
       THEN /\ FreeUpMemSpace
            /\ req' = [req EXCEPT ![c].tries = @ + 1]
       ELSE /\ req' = [req EXCEPT ![c] = NoReq]
            /\ UNCHANGED <<pool, frames>>
    /\ UNCHANGED <<phase, layout, reserved, focus, dma, blocks, ops>>

\* The last Arc of a frame goes.
FrameDrop(f) ==
    /\ phase = "run" /\ f \in frames
    /\ IF DeallocPanics(f)
       THEN phase' = "corrupt" /\ UNCHANGED pool
       ELSE pool' = Dealloc(pool, f) /\ UNCHANGED phase
    /\ frames' = frames \ {f}
    /\ UNCHANGED <<layout, reserved, focus, req, dma, blocks, ops>>

----------------------------------------------------------------------------
(* The DMA region.                                                          *)

Span(b) == b.start..(b.start + b.pages - 1)

\* The first start at which the buffer overlaps no other.
DmaAlloc ==
    /\ phase = "run" /\ focus = "dma" /\ ops < MaxOps
    /\ ops' = ops + 1
    /\ \E pages \in 0..(DmaSize + 1) :
         LET fits == {s \in layout.dma..(layout.heap - pages) :
                        \A b \in dma : Span(b) \cap (s..(s + pages - 1)) = {}}
         IN IF pages = 0 \/ pages > DmaSize \/ fits = {}
            THEN UNCHANGED dma
            ELSE dma' = dma \cup {[start |-> Min(fits), pages |-> pages]}
    /\ UNCHANGED <<phase, layout, reserved, focus, pool, frames, req, blocks>>

\* Only a range that was handed out as such goes back.
DmaDealloc(start, pages) ==
    /\ phase = "run" /\ focus = "dma"
    /\ [start |-> start, pages |-> pages] \in dma
    /\ dma' = dma \ {[start |-> start, pages |-> pages]}
    /\ UNCHANGED <<phase, layout, reserved, focus, pool, frames, req, blocks, ops>>

----------------------------------------------------------------------------
(* The kernel heap: an arena per hart and one for large blocks.             *)

Large == 0 - 1
LargeThreshold == 2

LocalArena == (layout.frame - layout.heap) \div (3 * Cardinality(Cpus))
LargeStart == layout.heap + LocalArena * Cardinality(Cpus)

\* arena_layout
Arena(a) ==
    IF a = Large THEN LargeStart..(layout.frame - 1)
    ELSE (layout.heap + a * LocalArena)..(layout.heap + (a + 1) * LocalArena - 1)

\* Mutant: the arena of a pointer is the one of the CPU that frees it.
OwnerHere(p) == IF p < LargeStart THEN 0 ELSE Large

\* owner: whose arena a pointer lies in.
Owner(p) ==
    IF p - layout.heap < LocalArena * Cardinality(Cpus)
    THEN (p - layout.heap) \div LocalArena ELSE Large

\* What the buddy allocator of an arena may return.
Fits(a, pages) ==
    {s \in Arena(a) : /\ s..(s + pages - 1) \subseteq Arena(a)
                      /\ \A b \in blocks : b.arena = a => Span(b) \cap (s..(s + pages - 1)) = {}}

\* alloc: a large block from the large arena, a small one from the CPU's own arena or, when
\* that is full, the large one; null panics.
HeapAlloc(c) ==
    /\ phase = "run" /\ focus = "heap" /\ ops < MaxOps
    /\ ops' = ops + 1
    /\ \E pages \in 1..LargeThreshold :
         LET a == IF pages < LargeThreshold /\ Fits(c, pages) # {} THEN c ELSE Large IN
         IF Fits(a, pages) = {}
         THEN phase' = "panicked" /\ UNCHANGED blocks
         ELSE /\ \E s \in Fits(a, pages) :
                   blocks' = blocks \cup {[start |-> s, pages |-> pages, arena |-> a]}
              /\ UNCHANGED phase
    /\ UNCHANGED <<layout, reserved, focus, pool, frames, req, dma>>

\* dealloc, on any CPU: the block returns to the arena that its address lies in; an arena
\* that is given a block it does not hold is corrupt.
HeapDealloc(b) ==
    /\ phase = "run" /\ b \in blocks
    /\ blocks' = blocks \ {b}
    /\ phase' = IF Owner(b.start) = b.arena THEN "run" ELSE "corrupt"
    /\ UNCHANGED <<layout, reserved, focus, pool, frames, req, dma, ops>>

MemNext ==
    \/ BootMemory
    \/ \E c \in Cpus : FrameAlloc(c) \/ AllocLocked(c) \/ HeapAlloc(c)
    \/ \E f \in frames : FrameDrop(f)
    \/ DmaAlloc
    \/ \E b \in dma : DmaDealloc(b.start, b.pages)
    \/ \E b \in blocks : HeapDealloc(b)

MemSpec == MemInit /\ [][MemNext]_vars

----------------------------------------------------------------------------
Pages(f) == f.ppn..(f.ppn + f.size - 1)

\* The free pages, as often as they are listed.
FreePages ==
    UNION {{[at |-> <<i, k>>, page |-> pool[k][i] + j] : i \in DOMAIN pool[k],
              j \in 0..((CASE k = "std" -> 1 [] k = "mega" -> Mega [] OTHER -> Giga) - 1)} :
           k \in {"std", "mega", "giga"}}

\* No page of memory has two owners and none is lost: the four regions of the boot follow
\* each other and avoid the firmware's reservations; every page of the frame pool is in
\* exactly one of a frame in use, a stack and the untouched rest, and large frames are
\* aligned; DMA buffers and heap blocks lie apart inside their regions; a frame is not freed
\* twice, and a heap block goes back to the arena that handed it out.
MemoryExact ==
    /\ phase # "corrupt"
    /\ phase = "run" =>
      /\ layout.dma < layout.heap /\ layout.heap < layout.frame /\ layout.frame < layout.end
      /\ \A s \in reserved : s < layout.dma \/ layout.end <= s
      /\ \A f \in frames : f.ppn % f.size = 0
      /\ \A f, g \in frames : f = g \/ Pages(f) \cap Pages(g) = {}
      /\ LET free  == FreePages
             free2 == {x.page : x \in free}
             used  == UNION {Pages(f) : f \in frames}
             fresh == pool.current..(pool.end - 1)
         IN /\ Cardinality(free2) = Cardinality(free)
            /\ free2 \cap used = {} /\ (free2 \cup used) \cap fresh = {}
            /\ free2 \cup used \cup fresh = layout.frame..(layout.end - 1)
            /\ FreeFrames = Cardinality(free2) + Cardinality(fresh)
      /\ \A a, b \in dma : a = b \/ Span(a) \cap Span(b) = {}
      /\ \A b \in dma : Span(b) \subseteq layout.dma..(layout.heap - 1)
      /\ \A a, b \in blocks : a = b \/ Span(a) \cap Span(b) = {}
      /\ \A b \in blocks : Span(b) \subseteq layout.heap..(layout.frame - 1)
============================================================================
