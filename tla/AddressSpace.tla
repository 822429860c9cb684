---------------------------- MODULE AddressSpace ----------------------------
(***************************************************************************)
(* User address spaces (mm/memory_set.rs, mm/page_table.rs, syscall/mm.rs): *)
(* the tree of areas, the page table and the frames of each process, under *)
(* mmap, munmap, mprotect, mlock, mremap, brk, fork, page faults, copy on   *)
(* write and exit.  Every call does its work under the write lock of the    *)
(* tree and a fault resolves one page under the lock of the page table, so  *)
(* each is one step; what other CPUs may still have in their TLBs in the    *)
(* meantime is the subject of Tlb.  Addresses and lengths are in pages.     *)
(*                                                                          *)
(* The history variable spec says, page by page, what a process may expect  *)
(* of its addresses: it knows neither areas nor frames nor page tables.     *)
(***************************************************************************)
EXTENDS Naturals, SequencesExt

CONSTANTS Mm,         \* the address spaces: 1 exists, the others come from fork
          Frames,     \* number of physical frames
          Base,       \* where find_free_area_locked begins (half of user space)
          Limit,      \* USER_APP_MAX_SIZE
          StartBrk,   \* the first page of the heap
          FileLen,    \* pages of the one file that is mapped
          MaxCalls,   \* bound on the number of calls
          Scenes      \* the mixes of calls, one of which a behaviour makes

VARIABLES areas,      \* per process: first page -> area
          pt,         \* per process: page -> its valid entry
          mem,        \* frame -> contents
          reg,        \* anonymous_shared_frames: object -> page -> frame
          brk,        \* per process: the program break
          live,       \* the address spaces that exist
          moving,     \* per process: an mremap that copies
          calls,      \* calls made so far; also the source of fresh identities
          can,        \* the mix of this behaviour
          spec,       \* history: per process: page -> what is mapped there
          dirty       \* history: the shared objects that have been stored to

vars == <<areas, pt, mem, reg, brk, live, moving, calls, can, spec, dirty>>

Page == 0 .. Limit - 1
Settled == [phase |-> "none"]

(***************************************************************************)
(* Frames are numbers; the cached page of the file at offset o is the      *)
(* frame "o", which always exists here (PageCache models the cache).       *)
(***************************************************************************)
Frame == 1 .. Frames
Cached(o) == Frames + 1 + o
CacheFrame == {Cached(o) : o \in 0 .. FileLen - 1}

(* Contents: a fresh page is 0, page o of the file begins as o % 2, and    *)
(* every store writes Stored.                                              *)
Stored == 2
OnDisk(o) == IF o < FileLen THEN o % 2 ELSE 0

(* The part of the state that calls compute with.                          *)
Now == [areas |-> areas, pt |-> pt, mem |-> mem, reg |-> reg, spec |-> spec]

(* An entry of the registry dies with the last area that refers to it, and *)
(* the contents of a frame with its last owner.                            *)
AllAreas(S) == UNION {Range(S.areas[m]) : m \in Mm}
Registries(S) == {a.reg : a \in AllAreas(S)} \ {0}
Held(S) == CacheFrame \cup UNION {Range(a.frames) : a \in AllAreas(S)}
                      \cup UNION {Range(S.reg[i]) : i \in Registries(S)}
Free(S) == Frame \ Held(S)

Become(S) ==
    /\ areas' = S.areas
    /\ pt' = S.pt
    /\ reg' = [i \in DOMAIN S.reg |-> IF i \in Registries(S) THEN S.reg[i] ELSE << >>]
    /\ mem' = [f \in DOMAIN S.mem |-> IF f \in Held(S) THEN S.mem[f] ELSE 0]
    /\ spec' = S.spec

(* The contents that the history promises: shared objects have one value   *)
(* for everybody, a private page that is not yet copied shows the file.    *)
Lazy == 3
ObjectValue(o) == IF o \in dirty THEN Stored
                  ELSE IF o[1] = "file" THEN OnDisk(o[2]) ELSE 0
Want(e) == IF e.shared \/ e.val = Lazy THEN ObjectValue(e.obj) ELSE e.val

-----------------------------------------------------------------------------
(* Areas.                                                                  *)

NewArea(lo, hi, type, perm, id) ==
    [end |-> hi, type |-> type, perm |-> perm, shared |-> FALSE, cow |-> FALSE, off |-> 0,
     reg |-> 0, id |-> id, fstart |-> lo, frames |-> << >>]

(* areas.range(..=vpn).next_back(), then contains(vpn): at most one key.   *)
Find(S, m, v) ==
    LET below == {k \in DOMAIN S.areas[m] : k <= v} IN
    {k \in below : k = Max(below) /\ v < S.areas[m][k].end}

InitialPerm(a) == IF a.cow THEN a.perm \ {"W"} ELSE a.perm

Overlaps(A, k, lo, hi) == k < hi /\ A[k].end > lo
(* Mutant: only areas that begin in the range are looked at.               *)
HasConflictStart(A, lo, hi) == \E k \in DOMAIN A : lo <= k /\ k < hi
HasConflict(A, lo, hi) == \E k \in DOMAIN A : Overlaps(A, k, lo, hi)

(* The first gap of the length at or after Base; 0 when there is none.     *)
FindFree(A, len) ==
    LET from == {Base} \cup {A[k].end : k \in {j \in DOMAIN A : A[j].end > Base}}
        fits == {c \in from : /\ ~HasConflict(A, c, c + len)
                              /\ c + len < Limit \/ \E k \in DOMAIN A : k >= c + len}
    IN IF fits = {} THEN 0 ELSE Min(fits)

(* Mutants: the file offset stays; the start used for futex keys moves.    *)
PartSameOffset(a, k, lo, hi) ==
    [a EXCEPT !.end = hi, !.frames = Restrict(@, {v \in DOMAIN @ : lo <= v /\ v < hi})]
PartRebased(a, k, lo, hi) ==
    [a EXCEPT !.end = hi, !.off = IF a.type = "File" THEN @ + (lo - k) ELSE @, !.fstart = lo,
              !.frames = Restrict(@, {v \in DOMAIN @ : lo <= v /\ v < hi})]

(* The part of an area from page lo to page hi: clone_meta_with_new_range  *)
(* and resize move the file offset along with the first page.              *)
Part(a, k, lo, hi) ==
    [a EXCEPT !.end = hi, !.off = IF a.type = "File" THEN @ + (lo - k) ELSE @,
              !.frames = Restrict(@, {v \in DOMAIN @ : lo <= v /\ v < hi})]

(* split_area_at: nothing unless v is strictly inside an area.             *)
Split(A, v) ==
    LET cut == {k \in DOMAIN A : k < v /\ v < A[k].end} IN
    [k \in DOMAIN A \cup (IF cut = {} THEN {} ELSE {v}) |->
        IF k \in cut THEN Part(A[k], k, k, v)
        ELSE IF k = v /\ cut # {} THEN LET j == CHOOSE j \in cut : TRUE IN Part(A[j], j, v, A[j].end)
        ELSE A[k]]

(* munmap_locked: an area is dropped, split, or cut on one side; resident  *)
(* pages lose their entry and their frame.                                 *)
Munmapped(S, m, lo, hi) ==
    LET A == S.areas[m]
        keep == {k \in DOMAIN A : ~Overlaps(A, k, lo, hi) \/ k < lo}
        right == {k \in DOMAIN A : Overlaps(A, k, lo, hi) /\ A[k].end > hi}
    IN [S EXCEPT
        !.areas[m] = [k \in keep \cup (IF right = {} THEN {} ELSE {hi}) |->
            IF k \in keep
            THEN IF Overlaps(A, k, lo, hi) THEN Part(A[k], k, k, lo) ELSE A[k]
            ELSE LET j == CHOOSE j \in right : TRUE IN Part(A[j], j, hi, A[j].end)],
        !.pt[m] = Restrict(@, DOMAIN @ \ (lo .. hi - 1)),
        !.spec[m] = Restrict(@, DOMAIN @ \ (lo .. hi - 1))]

-----------------------------------------------------------------------------
(* Faults.                                                                 *)

(* One resident page: its frame and its entry.                             *)
Install(S, m, k, v, f, perm) ==
    [S EXCEPT !.areas[m][k].frames = (v :> f) @@ @,
              !.pt[m] = (v :> [f |-> f, perm |-> perm]) @@ @]

(* frame_alloc: some free frame, cleared; the caller checks that there is  *)
(* one.                                                                    *)
Alloc(S) == Min(Free(S))

(* The next page of a private file mapping is read into a frame of its own;*)
(* the pages of the read-ahead follow until one is present or memory ends. *)
FilePage(m, k, S, v) ==
    LET a == S.areas[m][k]
        f == Alloc(S)
        o == a.off + (v - k)
        val == IF o < FileLen THEN S.mem[Cached(o)] ELSE 0
    IN [Install(S, m, k, v, f, a.perm) EXCEPT
            !.mem[f] = val,
            !.spec[m][v].val = Want(S.spec[m][v])]
MapPrivateFile(S, m, k, v) ==
    LET a == S.areas[m][k]
        Run(n) == \A u \in v .. v + n - 1 : u < a.end /\ u \notin DOMAIN S.pt[m]
        n == Max({i \in 0 .. Cardinality(Free(S)) : Run(i)})
    IN FoldLeft(LAMBDA T, i : FilePage(m, k, T, v + i - 1), S, [i \in 1 .. n |-> i])

MapCachedFile(S, m, k, v) ==
    LET a == S.areas[m][k]
        o == a.off + (v - k)
    IN IF o >= FileLen THEN S ELSE Install(S, m, k, v, Cached(o), InitialPerm(a))

MapAnonymous(S, m, k, v) ==
    LET a == S.areas[m][k] IN
    IF a.reg # 0 /\ v \in DOMAIN S.reg[a.reg]
    THEN Install(S, m, k, v, S.reg[a.reg][v], a.perm)
    ELSE IF Free(S) = {} THEN S
    ELSE LET f == Alloc(S) IN
         [Install(S, m, k, v, f, a.perm) EXCEPT
            !.mem[f] = 0,
            !.reg = IF a.reg = 0 THEN @ ELSE [@ EXCEPT ![a.reg] = (v :> f) @@ @]]

TryMapOne(S, m, k, v) ==
    LET a == S.areas[m][k] IN
    CASE a.type = "Framed" -> MapAnonymous(S, m, k, v)
      [] a.type = "File" /\ (a.shared \/ a.cow) -> MapCachedFile(S, m, k, v)
      [] a.type = "File" /\ ~(a.shared \/ a.cow) -> MapPrivateFile(S, m, k, v)
      [] OTHER -> S

(* handle_page_fault.                                                      *)
PageFault(S, m, v) ==
    IF \E k \in Find(S, m, v) : S.areas[m][k].type # "Guard" /\ S.areas[m][k].perm # {} /\ v \notin DOMAIN S.pt[m]
    THEN TryMapOne(S, m, CHOOSE k \in Find(S, m, v) : TRUE, v)
    ELSE S

(* handle_cow_fault: a private writable area whose entry is valid and not  *)
(* writable gets a copy of its own, shared or not.                         *)
CowFault(S, m, v) ==
    IF \E k \in Find(S, m, v) :
        LET a == S.areas[m][k] IN
        /\ a.type # "Guard" /\ ~a.shared /\ "W" \in a.perm
        /\ v \in DOMAIN S.pt[m] /\ "W" \notin S.pt[m][v].perm
        /\ v \in DOMAIN a.frames /\ a.frames[v] = S.pt[m][v].f
        /\ Free(S) # {}
    THEN LET k == CHOOSE k \in Find(S, m, v) : TRUE
             f == Alloc(S)
         IN [S EXCEPT !.mem[f] = S.mem[S.pt[m][v].f],
                      !.areas[m][k].frames[v] = f,
                      !.pt[m][v] = [f |-> f, perm |-> S.areas[m][k].perm]]
    ELSE S

Allows(S, m, v, p) == v \in DOMAIN S.pt[m] /\ p \in S.pt[m][v].perm

(* ensure_readable_user_range and ensure_writable_user_range on one page;  *)
(* the trap handler tries the same two handlers.                           *)
Readable(S, m, v) == IF v \in DOMAIN S.pt[m] THEN S ELSE PageFault(S, m, v)
Writable(S, m, v) ==
    LET T == IF v \in DOMAIN S.pt[m] THEN S ELSE PageFault(S, m, v) IN
    IF Allows(T, m, v, "W") THEN T ELSE CowFault(T, m, v)

(* A store through the entry, if it permits one.                           *)
Store(S, m, v) ==
    IF ~Allows(S, m, v, "W") THEN S
    ELSE [S EXCEPT !.mem[S.pt[m][v].f] = Stored, !.spec[m][v].val = Stored]

-----------------------------------------------------------------------------
(* Calls.                                                                  *)

Perms == {{}, {"R"}, {"R", "W"}}
Expect(shared, obj, perm, val) == [shared |-> shared, obj |-> obj, perm |-> perm, val |-> val]
Promise(a, v, k, val) ==
    Expect(a.shared,
           IF a.type = "File" THEN <<"file", a.off + (v - k)>>
           ELSE IF a.shared THEN <<"anon", a.id, v>> ELSE <<"own">>,
           a.perm, val)

Calling(m, op) == m \in live /\ op \in can.ops /\ calls < MaxCalls /\ calls' = calls + 1

(* sys_mmap and MemorySet::mmap: address 0 lets the kernel choose, an      *)
(* address that is taken is refused or, with MAP_FIXED, unmapped first.    *)
Mapped(S, m, lo, len, kind, id) ==
    LET a == [NewArea(lo, lo + len, kind.type, kind.perm, id) EXCEPT
                !.shared = kind.shared, !.off = kind.off,
                !.reg = IF kind.type = "Framed" /\ kind.shared THEN id ELSE 0]
    IN [S EXCEPT !.areas[m] = (lo :> a) @@ @,
                 !.spec[m] = [v \in lo .. lo + len - 1 |->
                                Promise(a, v, lo, IF kind.type = "File" THEN Lazy ELSE 0)] @@ @]
Mmap(m) ==
    /\ Calling(m, "mmap")
    /\ \E at \in can.at, len \in can.lens, kind \in can.kinds, fixed \in BOOLEAN :
        LET lo == IF at = 0 THEN FindFree(areas[m], len) ELSE at
            taken == HasConflict(areas[m], lo, lo + len)
        IN /\ at + len < Limit /\ lo # 0
           /\ taken => fixed
           /\ Become(Mapped(IF taken THEN Munmapped(Now, m, lo, lo + len) ELSE Now,
                            m, lo, len, kind, calls + 1))
    /\ UNCHANGED <<brk, live, moving, can, dirty>>

Munmap(m) ==
    /\ Calling(m, "munmap")
    /\ \E lo \in 0 .. Limit - 2 : \E hi \in lo + 1 .. Limit - 1 : Become(Munmapped(Now, m, lo, hi))
    /\ UNCHANGED <<brk, live, moving, can, dirty>>

(* mprotect and mlock_range first check that the range is covered by areas *)
(* that are no guards, then split at both ends.                            *)
Covered(S, m, lo, hi) ==
    \A v \in lo .. hi - 1 : \E k \in Find(S, m, v) : S.areas[m][k].type # "Guard"
Inside(A, lo, hi) == {k \in DOMAIN A : lo <= k /\ A[k].end <= hi}

Protected(S, m, lo, hi, perm) ==
    LET A == Split(Split(S.areas[m], hi), lo)
        B == [k \in DOMAIN A |-> IF k \in Inside(A, lo, hi) THEN [A[k] EXCEPT !.perm = perm] ELSE A[k]]
    IN [S EXCEPT
        !.areas[m] = B,
        !.pt[m] = [v \in DOMAIN @ |-> IF lo <= v /\ v < hi
                     THEN [@[v] EXCEPT !.perm = InitialPerm(B[Max({k \in DOMAIN B : k <= v})])] ELSE @[v]],
        !.spec[m] = [v \in DOMAIN @ |-> IF lo <= v /\ v < hi THEN [@[v] EXCEPT !.perm = perm] ELSE @[v]]]

Mprotect(m) ==
    /\ Calling(m, "mprotect")
    /\ \E lo \in 0 .. Limit - 2 : \E hi \in lo + 1 .. Limit - 1, perm \in Perms :
        Covered(Now, m, lo, hi) /\ Become(Protected(Now, m, lo, hi, perm))
    /\ UNCHANGED <<brk, live, moving, can, dirty>>

Mlock(m) ==
    /\ Calling(m, "mlock")
    /\ \E lo \in 0 .. Limit - 2 : \E hi \in lo + 1 .. Limit - 1 :
        /\ Covered(Now, m, lo, hi)
        /\ Become([Now EXCEPT !.areas[m] = Split(Split(@, hi), lo)])
    /\ UNCHANGED <<brk, live, moving, can, dirty>>

(* change_program_brk, grow_heap_locked: the heap grows the area that ends *)
(* at the old top or covers it; an area elsewhere in the way is an error.  *)
TakesHeap(A, k, from) == k >= StartBrk /\ k <= from /\ A[k].end >= from
Grown(S, m, from, to, id) ==
    LET A == S.areas[m]
        target == {k \in DOMAIN A : TakesHeap(A, k, from)}
        k0 == IF target = {} THEN from ELSE Max(target)
        top == IF target = {} THEN from ELSE A[k0].end
        a == IF target = {} THEN NewArea(from, to, "Framed", {"R", "W"}, id)
             ELSE [A[k0] EXCEPT !.end = IF @ >= to THEN @ ELSE to]
        T == [S EXCEPT !.areas[m] = (k0 :> a) @@ @,
                       !.spec[m] = @ @@ [v \in top .. to - 1 |-> Expect(FALSE, <<"own">>, {"R", "W"}, 0)]]
    IN FoldLeft(LAMBDA U, i : TryMapOne(U, m, k0, top + i - 1), T,
                [i \in 1 .. IF to > top THEN to - top ELSE 0 |-> i])
HeapConflict(A, from, to) ==
    \E k \in DOMAIN A : k >= StartBrk /\ Overlaps(A, k, from, to) /\ ~TakesHeap(A, k, from)

(* shrink_heap_locked touches the areas that begin at or after the heap.   *)
Shrunk(S, m, from, to) ==
    LET A == S.areas[m]
        hit == {k \in DOMAIN A : k < from /\ A[k].end > to /\ k >= StartBrk}
        gone == UNION {{v \in k .. A[k].end - 1 : v >= to} : k \in hit}
    IN [S EXCEPT !.areas[m] = [k \in {j \in DOMAIN A : j \in hit => j < to} |->
                                IF k \in hit THEN Part(A[k], k, k, to) ELSE A[k]],
                 !.pt[m] = Restrict(@, DOMAIN @ \ gone),
                 !.spec[m] = Restrict(@, DOMAIN @ \ gone)]

Brk(m) ==
    /\ Calling(m, "brk")
    /\ \E addr \in StartBrk .. Limit - 1 :
        /\ addr # brk[m]
        /\ \/ /\ addr > brk[m] /\ Cardinality(Free(Now)) >= addr - brk[m]
              /\ ~HeapConflict(areas[m], brk[m], addr)
              /\ Become(Grown(Now, m, brk[m], addr, calls + 1))
           \/ /\ addr < brk[m]
              /\ \E k \in DOMAIN areas[m] : k < brk[m] /\ areas[m][k].end > addr /\ k >= StartBrk
              /\ Become(Shrunk(Now, m, brk[m], addr))
        /\ brk' = [brk EXCEPT ![m] = addr]
    /\ UNCHANGED <<live, moving, can, dirty>>

-----------------------------------------------------------------------------
(* mremap: shrink by munmap, grow in place, move a complete private        *)
(* anonymous area, or copy into a new one.                                 *)
Resizable(A, lo, hi, to) == lo \in DOMAIN A /\ A[lo].end = hi /\ A[lo].type = "Framed" /\ ~HasConflict(A, hi, to)
Extended(S, m, lo, hi, to) ==
    LET a == [S.areas[m][lo] EXCEPT !.end = to] IN
    [S EXCEPT !.areas[m][lo] = a,
              !.spec[m] = [v \in hi .. to - 1 |-> Promise(a, v, lo, 0)] @@ @]

Movable(A, lo, hi) == lo \in DOMAIN A /\ A[lo].end = hi /\ A[lo].type = "Framed" /\ ~A[lo].shared
Shifted(F, lo, hi, new) == [v \in {u - lo + new : u \in DOMAIN F \cap (lo .. hi - 1)} |-> F[v - new + lo]]
Moved(S, m, lo, hi, new, len) ==
    LET a == [S.areas[m][lo] EXCEPT !.end = new + len, !.frames = Shifted(@, lo, hi, new)]
        rest(F) == Restrict(F, DOMAIN F \ (lo .. hi - 1))
    IN [S EXCEPT !.areas[m] = (new :> a) @@ Restrict(@, DOMAIN @ \ {lo}),
                 !.pt[m] = Shifted(@, lo, hi, new) @@ rest(@),
                 !.spec[m] = Shifted(@, lo, hi, new)
                             @@ [v \in new .. new + len - 1 |-> Promise(a, v, new, 0)] @@ rest(@)]

Mremap(m) ==
    /\ Calling(m, "mremap") /\ moving[m] = Settled
    /\ \E lo \in 0 .. Limit - 2 : \E hi \in lo + 1 .. Limit - 2, len \in 1 .. Limit - 1, maymove \in BOOLEAN :
        LET new == FindFree(areas[m], len)
            old == hi - lo
        IN \/ /\ len < old
              /\ Become(Munmapped(Now, m, lo + len, hi))
              /\ UNCHANGED moving
           \/ /\ len > old /\ lo + len <= Limit
              /\ Resizable(areas[m], lo, hi, lo + len)
              /\ Become(Extended(Now, m, lo, hi, lo + len))
              /\ UNCHANGED moving
           \/ /\ len > old /\ ~Resizable(areas[m], lo, hi, lo + len)
              /\ maymove /\ new # 0
              /\ IF Movable(areas[m], lo, hi)
                 THEN Become(Moved(Now, m, lo, hi, new, len)) /\ UNCHANGED moving
                 ELSE /\ Become(Mapped(Now, m, new, len, [type |-> "Framed", shared |-> FALSE, perm |-> {"R", "W"}, off |-> 0],
                                       calls + 1))
                      /\ moving' = [moving EXCEPT ![m] =
                            [phase |-> "copy", lo |-> lo, len |-> old, new |-> new, size |-> len]]
    /\ UNCHANGED <<brk, live, can, dirty>>

(* pin_user_range: page after page, up to the first that cannot be had.    *)
PinRange(S, m, lo, len, p) ==
    FoldLeft(LAMBDA T, i : IF \A j \in 1 .. i - 1 : Allows(T, m, lo + j - 1, p)
                           THEN IF p = "R" THEN Readable(T, m, lo + i - 1) ELSE Writable(T, m, lo + i - 1)
                           ELSE T, S, [i \in 1 .. len |-> i])
AllAllow(S, m, lo, len, p) == \A v \in lo .. lo + len - 1 : Allows(S, m, v, p)

Copied(S, m, c) ==
    LET T == [S EXCEPT !.mem = [f \in DOMAIN @ |->
                  IF \E i \in 0 .. c.len - 1 : S.pt[m][c.new + i].f = f
                  THEN @[S.pt[m][c.lo + (CHOOSE i \in 0 .. c.len - 1 : S.pt[m][c.new + i].f = f)].f] ELSE @[f]]]
    IN [T EXCEPT !.spec[m] = [v \in c.new .. c.new + c.len - 1 |->
                  [@[v] EXCEPT !.val = Want(S.spec[m][v - c.new + c.lo])]] @@ @]
MremapCopy(m) ==
    LET c == moving[m]
        S == PinRange(Now, m, c.lo, c.len, "R")
        T == PinRange(S, m, c.new, c.len, "W")
    IN /\ moving[m].phase = "copy"
       /\ IF AllAllow(S, m, c.lo, c.len, "R") /\ AllAllow(T, m, c.new, c.len, "W")
          THEN Become(Copied(T, m, c)) /\ moving' = [moving EXCEPT ![m].phase = "unmap"]
          ELSE /\ Become(Munmapped(IF AllAllow(S, m, c.lo, c.len, "R") THEN T ELSE S, m, c.new, c.new + c.size))
               /\ moving' = [moving EXCEPT ![m] = Settled]
       /\ UNCHANGED <<brk, live, calls, can, dirty>>
MremapUnmap(m) ==
    /\ moving[m].phase = "unmap"
    /\ Become(Munmapped(Now, m, moving[m].lo, moving[m].lo + moving[m].len))
    /\ moving' = [moving EXCEPT ![m] = Settled]
    /\ UNCHANGED <<brk, live, calls, can, dirty>>

-----------------------------------------------------------------------------
(* from_existed_user: the child gets the areas and the resident pages; a   *)
(* private writable page becomes read-only on both sides.                  *)
Forked(S, m, n) ==
    LET A == S.areas[m]
        ok(k) == {v \in DOMAIN A[k].frames : v \in DOMAIN S.pt[m] /\ S.pt[m][v].f = A[k].frames[v]}
        all == UNION {ok(k) : k \in DOMAIN A}
        flags(v) == LET a == A[Max({k \in DOMAIN A : k <= v})] IN IF a.shared THEN a.perm ELSE a.perm \ {"W"}
    IN [S EXCEPT
        !.areas[n] = [k \in DOMAIN A |-> [A[k] EXCEPT !.frames = Restrict(@, ok(k))]],
        !.pt[n] = [v \in all |-> [f |-> S.pt[m][v].f, perm |-> flags(v)]],
        !.pt[m] = [v \in DOMAIN @ |-> IF v \in all /\ "W" \notin flags(v) THEN [@[v] EXCEPT !.perm = @ \ {"W"}] ELSE @[v]],
        !.spec[n] = S.spec[m]]
Fork(m) ==
    /\ Calling(m, "fork")
    /\ \E n \in Mm \ live :
        /\ spec[n] = << >>
        /\ Become(Forked(Now, m, n))
        /\ live' = live \cup {n}
        /\ brk' = [brk EXCEPT ![n] = brk[m]]
    /\ UNCHANGED <<moving, can, dirty>>

(* recycle_data_pages at exit.                                             *)
Exit(m) ==
    /\ Calling(m, "exit") /\ moving[m] = Settled
    /\ Become([Now EXCEPT !.areas[m] = << >>, !.pt[m] = << >>, !.spec[m] = << >>])
    /\ live' = live \ {m}
    /\ UNCHANGED <<brk, moving, can, dirty>>

(* The program, or the kernel on its behalf, loads from or stores to v.    *)
Load(m, v) ==
    /\ m \in live
    /\ Become(Readable(Now, m, v))
    /\ UNCHANGED <<brk, live, moving, calls, can, dirty>>
StoreTo(m, v) ==
    LET S == Writable(Now, m, v) IN
    /\ m \in live
    /\ Become(Store(S, m, v))
    /\ dirty' = IF Allows(S, m, v, "W") /\ spec[m][v].shared THEN dirty \cup {spec[m][v].obj} ELSE dirty
    /\ UNCHANGED <<brk, live, moving, calls, can>>

(* A program with one private page of its executable, mapped from the page *)
(* cache, an empty heap behind it, and the guard below the stack.          *)
Elf == [NewArea(0, 1, "File", {"R", "W"}, 0) EXCEPT !.cow = TRUE]
Init ==
    /\ areas = [m \in Mm |-> IF m = 1 THEN (0 :> Elf) @@ (Limit - 1 :> NewArea(Limit - 1, Limit, "Guard", {}, 0)) ELSE << >>]
    /\ pt = [m \in Mm |-> << >>]
    /\ mem = [f \in Frame |-> 0] @@ [f \in CacheFrame |-> OnDisk(f - Frames - 1)]
    /\ reg = [i \in 1 .. MaxCalls |-> << >>]
    /\ brk = [m \in Mm |-> StartBrk]
    /\ live = {1}
    /\ moving = [m \in Mm |-> Settled]
    /\ calls = 0
    /\ can \in Scenes
    /\ spec = [m \in Mm |-> IF m = 1 THEN (0 :> Promise(Elf, 0, 0, Lazy)) ELSE << >>]
    /\ dirty = {}

Next == \E m \in Mm :
    \/ Mmap(m) \/ Munmap(m) \/ Mprotect(m) \/ Mlock(m) \/ Brk(m)
    \/ Mremap(m) \/ MremapCopy(m) \/ MremapUnmap(m) \/ Fork(m) \/ Exit(m)
    \/ \E v \in can.touch : Load(m, v) \/ StoreTo(m, v)

Spec == Init /\ [][Next]_vars

-----------------------------------------------------------------------------
(* The three records of an address space agree: areas are disjoint and     *)
(* keyed by their first page, they cover exactly the pages that the calls  *)
(* have mapped, with the permissions asked for; a page has an entry if and *)
(* only if its area owns a frame for it, the same one, and the entry never *)
(* permits more than the area.                                             *)
Layout == \A m \in Mm :
    LET A == areas[m]
        real == {k \in DOMAIN A : A[k].type # "Guard"}
    IN /\ \A k \in DOMAIN A : k < A[k].end /\ \A j \in DOMAIN A \ {k} : ~Overlaps(A, j, k, A[k].end)
       /\ DOMAIN spec[m] = UNION {k .. A[k].end - 1 : k \in real}
       /\ \A k \in real : \A v \in k .. A[k].end - 1 :
            /\ A[k].perm = spec[m][v].perm
            /\ v \in DOMAIN pt[m] <=> v \in DOMAIN A[k].frames
            /\ v \in DOMAIN pt[m] => pt[m][v].f = A[k].frames[v] /\ pt[m][v].perm \subseteq A[k].perm
       /\ \A k \in DOMAIN A : DOMAIN A[k].frames \subseteq k .. A[k].end - 1
       /\ DOMAIN pt[m] \subseteq DOMAIN spec[m]

(* Every resident page shows what its process may expect: zeroes or the    *)
(* right page of the file until it is stored to, then what this process    *)
(* stored, or for a shared object what anybody stored; nobody's private    *)
(* store is seen through another mapping, another process or the file.     *)
Contents == \A m \in Mm : \A v \in DOMAIN pt[m] : mem[pt[m][v].f] = Want(spec[m][v])

(* futex_key: two addresses in shared mappings get the same key exactly    *)
(* when they are backed by the same frame, across fork, splits and moves.  *)
Key(m, v) == LET k == CHOOSE k \in Find(Now, m, v) : TRUE
                 a == areas[m][k]
             IN IF a.reg # 0 THEN <<"anon", a.id, v - a.fstart>> ELSE <<"file", 0, a.off + (v - k)>>
SharedResident == {<<m, v>> \in Mm \X Page : v \in DOMAIN pt[m] /\ spec[m][v].shared}
FutexKeys == \A p, q \in SharedResident :
    pt[p[1]][p[2]].f = pt[q[1]][q[2]].f <=> Key(p[1], p[2]) = Key(q[1], q[2])
=============================================================================
