---------------------------- MODULE PageCacheInv ----------------------------
(***************************************************************************)
(* The page cache, for any number of threads, files, blocks and pages.     *)
(* Which page a thread holds says nothing by itself; the invariant follows *)
(* a block from the bitmap through an extent, both tables and the hands of *)
(* the threads back to the bitmap, and says what is known of its contents  *)
(* on the way.                                                             *)
(***************************************************************************)
EXTENDS PageCache, TLAPS

USE ZenonT(60)

-----------------------------------------------------------------------------
(* What holds for every mix of operations.                                 *)

Placing == {"id", "phys", "load", "insert", "count", "zero"}
Dealing == {"dealloc", "discard", "forget"}
PC == {"idle", "wait", "look", "peek", "extent", "have", "wrote", "drop", "cut", "unlock",
       "esync", "eframe", "eremove", "sync"} \cup Placing \cup Dealing

Task == [pc : PC, op : Ops \cup {None}, file : File \cup {None}, blk : Block \cup {None},
         obj : Page \cup {None}, fresh : BOOLEAN, seen : SUBSET Int]

\* Where a thread is in its call says which call it is and what it has found.
Shape(t) ==
    /\ t.pc = "idle" => t.op = None
    /\ t.pc = "wait" => t.op \in {"write", "map", "truncate"}
    /\ t.pc \in {"look", "peek", "have"} => t.op \in {"read", "write", "map", "unmap"}
    /\ t.pc \in Placing \cup {"extent"} => t.op \in {"read", "write", "map"}
    /\ t.pc = "zero" => t.fresh
    /\ t.fresh => t.pc \in Placing \cup {"have", "wrote"} /\ t.op \in {"write", "map"}
    /\ t.pc = "wrote" => t.op = "write"
    /\ t.pc \in Dealing \cup {"cut", "unlock"} => t.op = "truncate"
    /\ t.pc = "drop" => t.op \in {"unmap", "evict", "sync"}
    /\ t.pc \in {"esync", "eframe", "eremove"} => t.op = "evict"
    /\ t.pc = "sync" => t.op = "sync"
    /\ t.op \in {"read", "write", "map", "unmap", "truncate"} => t.file # None
    /\ t.op \in {"read", "write", "map", "truncate", "evict", "sync"} => t.op \in can.ops
    /\ t.op = "unmap" => "map" \in can.ops
    /\ t.pc \in Placing \cup Dealing \cup {"peek"} => t.blk # None
    /\ \/ t.pc \in {"insert", "count", "zero", "wrote", "esync", "eframe", "eremove", "sync"}
       \/ t.pc = "have" /\ t.op # "unmap"
       => t.obj # None

Threads ==
    /\ can \in Scenes
    /\ th \in [Thread -> Task]
    /\ mapping \in [Thread -> [file : File, obj : Page] \cup {None}]
    /\ \A p \in Thread : Shape(th[p])
    /\ \A p \in Thread : mapping[p] # None => "map" \in can.ops

\* A page that someone holds, or that is to be written, is the page of a block.
Blocks ==
    /\ \A p \in Thread : th[p].obj # None => page[th[p].obj].blk # None
    /\ \A p \in Thread : th[p].pc = "insert" => page[th[p].obj].blk = th[p].blk
    /\ \A o \in Page : page[o].dirty => page[o].blk # None

Types == TypeOK /\ Threads /\ Blocks

-----------------------------------------------------------------------------
(* What holds of the files and the tables under an orderly mix.            *)

\* A thread has allocated a block for its file and not yet filled the page.
Pending(p) == th[p].fresh /\ th[p].pc \in Placing

\* A block is in one extent at most, and then it is not free.
Owners ==
    /\ \A f, g \in File : f # g /\ ext[f] # None => ext[f] # ext[g]
    /\ \A f \in File : ext[f] \notin free

\* A free block is not cached but for the moment before invalidate_block.
Uncached ==
    \A b \in free :
        map[b] = None \/ \E p \in Thread : th[p].pc = "discard" /\ th[p].blk = b

\* page_cache_id_map leads to the block of the extent, until a truncation is
\* through.
Index ==
    \A f \in File : idmap[f] # None =>
        \/ idmap[f] = ext[f]
        \/ \E p \in Thread : th[p].pc \in Dealing /\ th[p].file = f /\ th[p].blk = idmap[f]

\* A page in the table is valid.
Valid == \A b \in Block : map[b] # None => ~page[map[b]].discarded

\* A file without a block is empty.
Empty == \A f \in File : ext[f] = None => ~len[f] /\ content[f] = 0

\* The contents of a file are in its page; without one on the device, unless its
\* block is new.  (Stores through a mapping beyond the end of the file count for
\* nothing.)
Counts(f) == len[f] \/ ~({"map", "truncate"} \subseteq can.ops)
Current ==
    \A f \in File : ext[f] # None /\ Counts(f) =>
        IF map[ext[f]] # None THEN page[map[ext[f]]].val = content[f]
        ELSE disk[ext[f]] = content[f] \/ \E p \in Thread : Pending(p) /\ th[p].file = f

Tables == Owners /\ Uncached /\ Index /\ Valid /\ Empty /\ Current

-----------------------------------------------------------------------------
(* What holds of a thread.                                                 *)

\* It holds write_lock, block_map_lock and metadata_lock where they are needed.
Locked(p) ==
    /\ th[p].op \in {"write", "truncate"} => wlock[th[p].file] = p
    /\ \/ th[p].op \in {"write", "map"} /\ th[p].pc \in Placing \cup {"look", "peek", "extent"}
       \/ th[p].pc \in Dealing \cup {"cut", "unlock"}
       => bmlock[th[p].file] = p
    /\ th[p].pc \in {"discard", "forget"} => mlock = p

\* The block it gives back is nobody else's.
Released(p) ==
    /\ th[p].pc \in Dealing => \A f \in File : ext[f] # th[p].blk
    /\ th[p].pc \in {"discard", "forget"} => th[p].blk \in free
    /\ th[p].pc = "dealloc" =>
          /\ th[p].blk \notin free
          /\ \A q \in Thread \ {p} : th[q].pc = "dealloc" => th[q].blk # th[p].blk

\* The block it looks for is the one in the extent.
Steady(p) ==
    th[p].pc \in Placing \/ (th[p].pc = "peek" /\ th[p].op # "unmap") =>
        th[p].blk = ext[th[p].file]

\* The page it holds is in the table, or invalidated ...
Held(p) ==
    /\ th[p].obj # None /\ th[p].pc # "insert" =>
          page[th[p].obj].discarded \/ map[page[th[p].obj].blk] = th[p].obj
    /\ th[p].pc \in {"count", "zero"} => map[th[p].blk] = th[p].obj

\* ... or new, and then its own, with what is on the device.
Loaded(p) ==
    th[p].pc = "insert" =>
        /\ ~page[th[p].obj].discarded
        /\ \A b \in Block : map[b] # th[p].obj
        /\ \A q \in Thread \ {p} : th[q].obj # th[p].obj
        /\ \A q \in Thread : mapping[q] # None => mapping[q].obj # th[p].obj
        /\ map[th[p].blk] = None =>
              page[th[p].obj].val = IF th[p].fresh THEN 0 ELSE disk[th[p].blk]

\* Page o was found for file f, and is in use for no other.
Attached(o, f) ==
    \/ page[o].discarded /\ ~len[f]
    \/ /\ page[o].blk # None /\ map[page[o].blk] = o
       /\ \A g \in File : ext[g] = page[o].blk => g = f
       /\ len[f] => ext[f] = page[o].blk

\* A read and a write use the page of their file; a mapping at least that of no
\* other file.
Uses(p) ==
    /\ th[p].op \in {"read", "write"} /\ th[p].pc \in {"have", "wrote"} =>
          ext[th[p].file] # None /\ map[ext[th[p].file]] = th[p].obj
    /\ th[p].op = "map" /\ th[p].pc = "have" => Attached(th[p].obj, th[p].file)
    /\ mapping[p] # None => Attached(mapping[p].obj, mapping[p].file)

\* Without truncation a file that is read or mapped stays published.
Published(p) ==
    "truncate" \notin can.ops =>
        /\ th[p].op \in {"read", "map"} => len[th[p].file]
        /\ mapping[p] # None => len[mapping[p].file]

\* A file whose block it has just allocated is empty and has no page.
Fresh(p) ==
    Pending(p) =>
        /\ ~len[th[p].file] /\ content[th[p].file] = 0
        /\ th[p].pc \notin {"count", "zero"} => map[th[p].blk] = None

\* A read knows what the file contains.
Seen(p) == th[p].op = "read" => content[th[p].file] \in th[p].seen

Local(p) ==
    /\ Locked(p) /\ Released(p) /\ Steady(p) /\ Held(p) /\ Loaded(p)
    /\ Uses(p) /\ Published(p) /\ Fresh(p) /\ Seen(p)

Sound == Tables /\ \A p \in Thread : Local(p)

IInv == Types /\ (Orderly => Sound)

-----------------------------------------------------------------------------
(* Types.                                                                  *)

\* A page that nobody holds and no table lists.
LEMMA Unheld ==
    ASSUME NEW o \in Page, Holders(o) = {}, ~Listed(o)
    PROVE  /\ \A p \in Thread : th[p].obj # o
           /\ \A b \in Block : map[b] # o
BY DEF Holders, Listed

\* PageCache::sync and the destructor change what is on the device and what is
\* dirty, never the contents of a page.
Flushes ==
    /\ disk' \in [Block -> 0 .. can.writes]
    /\ page' \in [Page -> [blk : Block \cup {None}, val : 0 .. can.writes, dirty : BOOLEAN,
                           discarded : BOOLEAN]]
    /\ \A o \in Page :
          /\ page'[o].blk = page[o].blk /\ page'[o].val = page[o].val
          /\ page'[o].discarded = page[o].discarded
          /\ page'[o].dirty => page[o].dirty

LEMMA SyncedFlushes == ASSUME Types, NEW o \in Page, Synced(o) PROVE Flushes
<1>1. CASE page[o].dirty /\ ~page[o].discarded
  <2>1. page[o].blk \in Block /\ page[o].val \in 0 .. can.writes
    BY <1>1 DEF Types, TypeOK, Blocks
  <2>2. disk' = [disk EXCEPT ![page[o].blk] = page[o].val] /\ page' = [page EXCEPT ![o].dirty = FALSE]
    BY <1>1 DEF Synced
  <2>3. disk' \in [Block -> 0 .. can.writes]
    BY <2>1, <2>2 DEF Types, TypeOK
  <2>4. page \in [Page -> [blk : Block \cup {None}, val : 0 .. can.writes, dirty : BOOLEAN,
                          discarded : BOOLEAN]]
    BY DEF Types, TypeOK
  <2>5. page' \in [Page -> [blk : Block \cup {None}, val : 0 .. can.writes, dirty : BOOLEAN,
                           discarded : BOOLEAN]]
    BY <2>2, <2>4
  <2>6. ASSUME NEW x \in Page
        PROVE  /\ page'[x].blk = page[x].blk /\ page'[x].val = page[x].val
               /\ page'[x].discarded = page[x].discarded
               /\ page'[x].dirty => page[x].dirty
    BY <1>1, <2>2, <2>4
  <2> QED  BY <2>3, <2>5, <2>6 DEF Flushes
<1>2. CASE ~(page[o].dirty /\ ~page[o].discarded)
  BY <1>2 DEF Synced, Flushes, Types, TypeOK
<1> QED  BY <1>1, <1>2

-----------------------------------------------------------------------------
(* A step is a step of one thread.                                         *)

Act(p) ==
    \/ BeginRead(p) \/ BeginWrite(p) \/ BeginMap(p) \/ BeginUnmap(p) \/ LockBlockMap(p)
    \/ Look(p) \/ Peek(p) \/ ExtentHit(p) \/ ReadHole(p) \/ Allocate(p) \/ NoSpace(p) \/ InsertId(p)
    \/ PhysHit(p) \/ PhysMiss(p) \/ Load(p) \/ Insert(p) \/ InsertLate(p) \/ Count(p) \/ Zero(p)
    \/ Read(p) \/ Write(p) \/ WriteEnd(p) \/ Map(p) \/ Store(p) \/ Unmap(p) \/ DropPage(p)
    \/ BeginTruncate(p) \/ Cut(p) \/ Dealloc(p) \/ Discard(p) \/ DeallocEnd(p)
    \/ TruncateEnd(p)
    \/ BeginEvict(p) \/ EvictSync(p) \/ EvictFrame(p) \/ EvictRemove(p) \/ BeginSync(p) \/ Sync(p)

\* The others go on, though they may see more.
Same(q) ==
    /\ th'[q].pc = th[q].pc /\ th'[q].op = th[q].op /\ th'[q].file = th[q].file
    /\ th'[q].blk = th[q].blk /\ th'[q].obj = th[q].obj /\ th'[q].fresh = th[q].fresh
    /\ th[q].seen \subseteq th'[q].seen

Frame(p) == th' \in [Thread -> Task] /\ \A q \in Thread \ {p} : Same(q)

\* How thread p stands after the step.
Now(p, label, op, f, b, o) ==
    /\ th'[p].pc = label /\ th'[p].op = op /\ th'[p].file = f
    /\ th'[p].blk = b /\ th'[p].obj = o

\* A thread that begins to work for a file ...
LEMMA StartNow ==
    ASSUME th \in [Thread -> Task], content \in [File -> Int],
           NEW p \in Thread, NEW op \in Ops, NEW f \in File, NEW label \in PC, Start(p, op, f, label)
    PROVE  Frame(p) /\ Now(p, label, op, f, None, None) /\ ~th'[p].fresh /\ content[f] \in th'[p].seen
<1> DEFINE t == Doing(label, op, f, None, None, {content[f]})
<1>2. content[f] \in Int
  OBVIOUS
<1>3. t \in Task
  BY <1>2 DEF Doing, Task
<1>4. th' = [th EXCEPT ![p] = t]
  BY DEF Start
<1>5. /\ t.pc = label /\ t.op = op /\ t.file = f /\ t.blk = None /\ t.obj = None /\ t.fresh = FALSE
      /\ content[f] \in t.seen
  BY DEF Doing
<1> HIDE DEF t
<1>6. Frame(p)
  BY <1>3, <1>4 DEF Frame, Same
<1>7. th'[p] = t
  BY <1>4
<1> QED  BY <1>5, <1>6, <1>7 DEF Now

\* ... or for a block of the table.
LEMMA TakeNow ==
    ASSUME th \in [Thread -> Task], NEW p \in Thread, NEW op \in Ops, NEW b \in Block,
           NEW label \in PC, NEW o \in Page,
           th' = [th EXCEPT ![p] = Doing(label, op, None, b, o, {})]
    PROVE  Frame(p) /\ Now(p, label, op, None, b, o) /\ ~th'[p].fresh
<1> DEFINE t == Doing(label, op, None, b, o, {})
<1>3. t \in Task
  BY DEF Doing, Task
<1>4. th' = [th EXCEPT ![p] = t]
  OBVIOUS
<1>5. t.pc = label /\ t.op = op /\ t.file = None /\ t.blk = b /\ t.obj = o /\ t.fresh = FALSE
  BY DEF Doing
<1> HIDE DEF t
<1>6. Frame(p)
  BY <1>3, <1>4 DEF Frame, Same
<1>7. th'[p] = t
  BY <1>4
<1> QED  BY <1>5, <1>6, <1>7 DEF Now

\* New contents of a file are seen by the threads at work on it.
LEMMA SeenNow ==
    ASSUME th \in [Thread -> Task], NEW p \in Thread, NEW threads \in [Thread -> Task],
           NEW f \in File, NEW v \in Int,
           \A q \in Thread \ {p} : threads[q] = th[q],
           Contents(f, v, threads)
    PROVE  /\ Frame(p)
           /\ Now(p, threads[p].pc, threads[p].op, threads[p].file, threads[p].blk, threads[p].obj) /\ th'[p].fresh = threads[p].fresh
           /\ \A q \in Thread : th'[q].file = f => v \in th'[q].seen
           /\ \A q \in Thread : threads[q].seen \subseteq th'[q].seen
<1>1. ASSUME NEW q \in Thread
      PROVE  /\ th'[q] \in Task /\ threads[q].seen \subseteq th'[q].seen
             /\ th'[q].pc = threads[q].pc /\ th'[q].op = threads[q].op
             /\ th'[q].file = threads[q].file /\ th'[q].blk = threads[q].blk
             /\ th'[q].obj = threads[q].obj /\ th'[q].fresh = threads[q].fresh
             /\ th'[q].file = f => v \in th'[q].seen
  BY DEF Contents, Task
<1>2. th' \in [Thread -> Task]
  BY <1>1 DEF Contents
<1> QED  BY SMTT(60), <1>1, <1>2 DEF Frame, Same, Now

LEMMA FrameStep == ASSUME Types, NEW p \in Thread, Act(p) PROVE Frame(p)
<1>t. /\ th \in [Thread -> Task] /\ idmap \in [File -> Block \cup {None}]
      /\ map \in [Block -> Page \cup {None}] /\ ext \in [File -> Block \cup {None}]
      /\ content \in [File -> Int] /\ ver \in Int /\ free \subseteq Block
      /\ (mapping[p] # None => mapping[p].file \in File)
  BY SMTT(60) DEF Types, TypeOK, Threads
<1>l. "read" \in Ops /\ "write" \in Ops /\ "map" \in Ops /\ "unmap" \in Ops /\ "truncate" \in Ops
      /\ "evict" \in Ops /\ "sync" \in Ops /\ "look" \in PC /\ "wait" \in PC /\ "esync" \in PC
      /\ "sync" \in PC
  BY DEF Ops, PC
<1>BeginRead. CASE BeginRead(p)  BY <1>t, <1>l, <1>BeginRead, StartNow DEF BeginRead
<1>BeginWrite. CASE BeginWrite(p)  BY <1>t, <1>l, <1>BeginWrite, StartNow DEF BeginWrite
<1>BeginMap. CASE BeginMap(p)  BY <1>t, <1>l, <1>BeginMap, StartNow DEF BeginMap
<1>BeginUnmap. CASE BeginUnmap(p)  BY <1>t, <1>l, <1>BeginUnmap, StartNow DEF BeginUnmap
<1>BeginTruncate. CASE BeginTruncate(p)
  BY <1>t, <1>l, <1>BeginTruncate, StartNow DEF BeginTruncate
<1>BeginSync. CASE BeginSync(p)
  <2>1. PICK b \in Block : /\ map[b] # None
          /\ th' = [th EXCEPT ![p] = Doing("sync", "sync", None, b, map[b], {})]
    BY <1>BeginSync DEF BeginSync
  <2> QED  BY <1>t, <1>l, <2>1, TakeNow
<1>BeginEvict. CASE BeginEvict(p)
  <2>1. PICK b \in Block : /\ map[b] # None
          /\ th' = [th EXCEPT ![p] = Doing("esync", "evict", None, b, map[b], {})]
    BY <1>BeginEvict DEF BeginEvict
  <2> QED  BY <1>t, <1>l, <2>1, TakeNow
<1>Cut. CASE Cut(p)
  <2> DEFINE label == IF ext[th[p].file] # None THEN "dealloc" ELSE "unlock"
  <2> DEFINE threads == [th EXCEPT ![p].blk = ext[th[p].file], ![p].pc = label]
  <2>1. th[p].file \in File
    BY <1>t, <1>Cut DEF Cut, At, Types, Threads, Shape, Task, Ops
  <2>l. label \in PC
    BY DEF PC, Dealing
  <2>e. ext[th[p].file] \in Block \cup {None}
    BY <1>t, <2>1
  <2> HIDE DEF label
  <2>2a. threads \in [Thread -> Task]
    <3>1. ASSUME NEW e \in Block \cup {None}, NEW l \in PC
          PROVE  [th EXCEPT ![p].blk = e, ![p].pc = l] \in [Thread -> Task]
      <4> DEFINE g == [th EXCEPT ![p].blk = e]
      <4>1. g \in [Thread -> Task]
        BY SMTT(60), <1>t DEF Task
      <4>2. [th EXCEPT ![p].blk = e, ![p].pc = l] = [g EXCEPT ![p].pc = l]
        OBVIOUS
      <4> HIDE DEF g
      <4>3. [g EXCEPT ![p].pc = l] \in [Thread -> Task]
        BY <4>1 DEF Task
      <4> QED  BY <4>2, <4>3
    <3> QED  BY <2>l, <2>e, <3>1
  <2>2. threads \in [Thread -> Task] /\ \A q \in Thread \ {p} : threads[q] = th[q]
    BY <1>t, <2>2a
  <2>3. Contents(th[p].file, 0, threads)
    BY <1>Cut DEF Cut, label
  <2> HIDE DEF threads
  <2> QED  BY SMTT(60), <1>t, <2>1, <2>2, <2>3, SeenNow
<1>Write. CASE Write(p)
  <2> DEFINE threads == [th EXCEPT ![p].pc = "wrote"]
  <2>1. th[p].file \in File
    BY <1>t, <1>Write DEF Write, At, Types, Threads, Shape, Task, Ops
  <2>2. threads \in [Thread -> Task] /\ \A q \in Thread \ {p} : threads[q] = th[q]
    BY SMTT(60), <1>t DEF Task, PC
  <2>3. Contents(th[p].file, ver + 1, threads)
    BY <1>Write DEF Write
  <2> HIDE DEF threads
  <2> QED  BY SMTT(60), <1>t, <2>1, <2>2, <2>3, SeenNow
<1>Store. CASE Store(p)
  <2>1. CASE len[mapping[p].file]
    <3>1. Contents(mapping[p].file, ver + 1, th)
      BY <1>Store, <2>1 DEF Store
    <3> QED  BY SMTT(60), <1>t, <1>Store, <3>1, SeenNow DEF Store
  <2>2. CASE ~len[mapping[p].file]
    BY <1>t, <1>Store, <2>2 DEF Store, Frame, Same
  <2> QED  BY <2>1, <2>2
<1> USE DEF At, Frame, Same, Task, PC, Placing, Dealing, Ops
<1>InsertId. CASE InsertId(p)
  <2>1. th' = [th EXCEPT ![p].pc = "phys"]
    BY <1>InsertId DEF InsertId, Goto
  <2> QED  BY SMTT(60), <1>t, <2>1
<1>LockBlockMap. CASE LockBlockMap(p)  BY SMTT(60), <1>t, <1>LockBlockMap DEF LockBlockMap, Goto
<1>Look. CASE Look(p)  BY SMTT(60), <1>t, <1>Look DEF Look
<1>Peek. CASE Peek(p)  BY SMTT(60), <1>t, <1>Peek DEF Peek, Found, Unlocked, Goto
<1>ExtentHit. CASE ExtentHit(p)  BY SMTT(60), <1>t, <1>ExtentHit DEF ExtentHit
<1>ReadHole. CASE ReadHole(p)  BY SMTT(60), <1>t, <1>ReadHole DEF ReadHole, Doing, Idle
<1>NoSpace. CASE NoSpace(p)  BY SMTT(60), <1>t, <1>NoSpace DEF NoSpace, Doing, Idle, Unlocked
<1>PhysHit. CASE PhysHit(p)  BY SMTT(60), <1>t, <1>PhysHit DEF PhysHit, Found, Unlocked
<1>PhysMiss. CASE PhysMiss(p)  BY SMTT(60), <1>t, <1>PhysMiss DEF PhysMiss, Goto
<1>Count. CASE Count(p)  BY SMTT(60), <1>t, <1>Count DEF Count, Found, Unlocked, Goto
<1>Read. CASE Read(p)  BY <1>t, <1>Read DEF Read, Doing, Idle
<1>DropPage. CASE DropPage(p)  BY <1>t, <1>DropPage DEF DropPage, Doing, Idle
<1>Sync. CASE Sync(p)  BY SMTT(60), <1>t, <1>Sync DEF Sync, Goto
<1>TruncateEnd. CASE TruncateEnd(p)  BY <1>t, <1>TruncateEnd DEF TruncateEnd, Doing, Idle, Unlocked
<1>Map. CASE Map(p)  BY <1>t, <1>Map DEF Map, Doing, Idle
<1>Unmap. CASE Unmap(p)  BY SMTT(60), <1>t, <1>Unmap DEF Unmap, Goto
<1>Allocate. CASE Allocate(p)  BY SMTT(60), <1>t, <1>Allocate DEF Allocate
<1>Load. CASE Load(p)  BY SMTT(60), <1>t, <1>Load DEF Load
<1>Insert. CASE Insert(p)  BY SMTT(60), <1>t, <1>Insert DEF Insert, Goto
<1>InsertLate. CASE InsertLate(p)  BY SMTT(60), <1>t, <1>InsertLate DEF InsertLate, Found, Unlocked
<1>Zero. CASE Zero(p)  BY SMTT(60), <1>t, <1>Zero DEF Zero, Found, Unlocked
<1>WriteEnd. CASE WriteEnd(p)  BY <1>t, <1>WriteEnd DEF WriteEnd, Doing, Idle
<1>Dealloc. CASE Dealloc(p)  BY SMTT(60), <1>t, <1>Dealloc DEF Dealloc, Goto
<1>Discard. CASE Discard(p)  BY SMTT(60), <1>t, <1>Discard DEF Discard, Goto
<1>DeallocEnd. CASE DeallocEnd(p)  BY SMTT(60), <1>t, <1>DeallocEnd DEF DeallocEnd, Goto
<1>EvictSync. CASE EvictSync(p)  BY SMTT(60), <1>t, <1>EvictSync DEF EvictSync, Goto
<1>EvictFrame. CASE EvictFrame(p)  BY SMTT(60), <1>t, <1>EvictFrame DEF EvictFrame, Goto
<1>EvictRemove. CASE EvictRemove(p)  BY SMTT(60), <1>t, <1>EvictRemove DEF EvictRemove, Goto
<1> QED
  BY <1>BeginRead, <1>BeginWrite, <1>BeginMap, <1>BeginUnmap, <1>BeginTruncate, <1>BeginSync, <1>LockBlockMap, <1>Look, <1>Peek, <1>ExtentHit, <1>ReadHole, <1>NoSpace, <1>PhysHit, <1>PhysMiss, <1>Count, <1>Read, <1>DropPage, <1>Sync, <1>TruncateEnd, <1>Map, <1>Unmap, <1>Allocate, <1>InsertId, <1>Load, <1>Insert, <1>InsertLate, <1>Zero, <1>Write, <1>WriteEnd, <1>Store, <1>Cut, <1>Dealloc, <1>Discard, <1>DeallocEnd, <1>BeginEvict, <1>EvictSync, <1>EvictFrame, <1>EvictRemove DEF Act

\* The usual moves.
Moved(p, label) == Now(p, label, th[p].op, th[p].file, th[p].blk, th[p].obj) /\ th'[p].fresh = th[p].fresh
Rests(p) == Now(p, "idle", None, None, None, None) /\ ~th'[p].fresh
Gets(p, o) == Now(p, "have", th[p].op, th[p].file, th[p].blk, o) /\ th'[p].fresh = th[p].fresh

LEMMA GotoNow ==
    ASSUME th \in [Thread -> Task], NEW p \in Thread, NEW label, Goto(p, label)
    PROVE  Moved(p, label)
BY DEF Goto, Moved, Now, Task

LEMMA IdleNow ==
    ASSUME th \in [Thread -> Task], NEW p \in Thread, th' = [th EXCEPT ![p] = Idle]
    PROVE  Rests(p)
BY DEF Idle, Doing, Rests, Now, Task

LEMMA FoundNow ==
    ASSUME th \in [Thread -> Task], NEW p \in Thread, NEW o, Found(p, o)
    PROVE  Gets(p, o)
BY DEF Found, Gets, Now, Task

\* The steps that write a page back.
Flushing(p) ==
    Read(p) \/ WriteEnd(p) \/ Map(p) \/ Unmap(p) \/ DropPage(p) \/ Sync(p) \/ EvictSync(p)

LEMMA FlushStep == ASSUME Types, NEW p \in Thread, Flushing(p) PROVE Flushes
<1>t. th[p] \in Task /\ Shape(th[p])
  BY DEF Types, Threads
<1>0. ASSUME UNCHANGED <<disk, page>> PROVE Flushes
  BY <1>0 DEF Flushes, Types, TypeOK
<1>1. ASSUME th[p].obj # None, Synced(th[p].obj) PROVE Flushes
  BY <1>t, <1>1, SyncedFlushes DEF Task
<1>2. ASSUME Drop(p) PROVE Flushes
  BY <1>0, <1>1, <1>2 DEF Drop
<1>Unmap. CASE Unmap(p)  BY <1>0, <1>1, <1>Unmap DEF Unmap
<1>Sync. CASE Sync(p)  BY <1>t, <1>1, <1>Sync DEF Sync, At, Shape
<1>EvictSync. CASE EvictSync(p)  BY <1>t, <1>1, <1>EvictSync DEF EvictSync, At, Shape
<1>Read. CASE Read(p)  BY <1>2, <1>Read DEF Read
<1>WriteEnd. CASE WriteEnd(p)  BY <1>2, <1>WriteEnd DEF WriteEnd
<1>Map. CASE Map(p)  BY <1>2, <1>Map DEF Map
<1>DropPage. CASE DropPage(p)  BY <1>2, <1>DropPage DEF DropPage
<1> QED
  BY <1>Unmap, <1>Sync, <1>EvictSync, <1>Read, <1>WriteEnd, <1>Map, <1>DropPage DEF Flushing

PageTypes ==
    /\ disk \in [Block -> 0 .. can.writes]
    /\ page \in [Page -> [blk : Block \cup {None}, val : 0 .. can.writes, dirty : BOOLEAN,
                          discarded : BOOLEAN]]
    /\ map \in [Block -> Page \cup {None}]
    /\ \A b \in Block : map[b] # None => page[map[b]].blk = b

\* The steps that change contents.
LEMMA PageTypesStep ==
    ASSUME Types, NEW p \in Thread,
           \/ Load(p) \/ Insert(p) \/ InsertLate(p) \/ Zero(p) \/ Write(p) \/ Store(p) \/ Discard(p)
           \/ EvictRemove(p) \/ Flushing(p)
    PROVE  PageTypes'
<1>t. /\ th[p] \in Task /\ Shape(th[p]) /\ TypeOK /\ Blocks /\ can.writes \in Nat
      /\ (mapping[p] # None => mapping[p].obj \in Page)
  BY SceneTypes DEF Types, Threads
<1>Load. CASE Load(p)
  <2>1. PICK o \in Page : /\ Holders(o) = {} /\ ~Listed(o) /\ ~FrameMapped(o)
            /\ page' = [page EXCEPT ![o] = [blk |-> th[p].blk,
                           val |-> IF th[p].fresh THEN 0 ELSE disk[th[p].blk],
                           dirty |-> th[p].fresh, discarded |-> FALSE]]
    BY <1>Load DEF Load
  <2>2. th[p].blk \in Block /\ th[p].fresh \in BOOLEAN
    BY <1>t, <1>Load DEF Load, At, Shape, Task, Placing
  <2>3. (IF th[p].fresh THEN 0 ELSE disk[th[p].blk]) \in 0 .. can.writes
    BY SMTT(60), <1>t, <2>2 DEF TypeOK
  <2>4. \A b \in Block : map[b] # o
    BY <2>1, Unheld
  <2>5. can' = can /\ disk' = disk /\ map' = map
    BY <1>Load DEF Load
  <2>6. page' \in [Page -> [blk : Block \cup {None}, val : 0 .. can.writes, dirty : BOOLEAN,
                            discarded : BOOLEAN]]
    BY <1>t, <2>1, <2>2, <2>3 DEF TypeOK
  <2>7. \A x \in Page \ {o} : page'[x] = page[x]
    BY <1>t, <2>1 DEF TypeOK
  <2> QED  BY <1>t, <2>4, <2>5, <2>6, <2>7 DEF PageTypes, TypeOK
<1>Insert. CASE Insert(p)
  <2>1. th[p].blk \in Block /\ th[p].obj \in Page /\ page[th[p].obj].blk = th[p].blk
    BY <1>t, <1>Insert DEF Insert, At, Shape, Task, Placing, Blocks
  <2> QED  BY <1>t, <1>Insert, <2>1 DEF Insert, PageTypes, TypeOK
<1>Flush. CASE Flushing(p)
  <2>1. Flushes
    BY <1>Flush, FlushStep
  <2>2. can' = can /\ map' = map
    BY <1>Flush DEF Flushing, Read, WriteEnd, Map, Unmap, DropPage, Sync, EvictSync
  <2> QED  BY <1>t, <2>1, <2>2 DEF PageTypes, TypeOK, Flushes
<1>EvictRemove. CASE EvictRemove(p)
  BY <1>t, <1>EvictRemove DEF EvictRemove, PageTypes, TypeOK
<1>Discard. CASE Discard(p)
  <2>1. th[p].blk \in Block
    BY <1>t, <1>Discard DEF Discard, At, Shape, Task, Dealing
  <2>2. map' = [map EXCEPT ![th[p].blk] = None] /\ can' = can /\ disk' = disk
    BY <1>Discard DEF Discard
  <2>3. page' = page \/ \E o \in Page : page' = [page EXCEPT ![o].discarded = TRUE]
    BY <1>t, <1>Discard, <2>1 DEF Discard, TypeOK
  <2>4. page' \in [Page -> [blk : Block \cup {None}, val : 0 .. can.writes, dirty : BOOLEAN,
                            discarded : BOOLEAN]]
    <3>1. ASSUME NEW o \in Page, page' = [page EXCEPT ![o].discarded = TRUE]
          PROVE  page' \in [Page -> [blk : Block \cup {None}, val : 0 .. can.writes,
                                    dirty : BOOLEAN, discarded : BOOLEAN]]
      BY <1>t, <3>1 DEF TypeOK
    <3> QED  BY <1>t, <2>3, <3>1 DEF TypeOK
  <2>5. \A o \in Page : page'[o].blk = page[o].blk
    BY SMTT(60), <1>t, <2>3 DEF TypeOK
  <2> QED  BY <1>t, <2>1, <2>2, <2>4, <2>5 DEF PageTypes, TypeOK
<1>p. ASSUME NEW o \in Page, NEW v \in 0 .. can.writes, NEW d \in BOOLEAN, NEW x \in BOOLEAN,
             UNCHANGED <<can, disk, map>>,
             \/ page' = [page EXCEPT ![o].val = v, ![o].dirty = d]
             \/ page' = [page EXCEPT ![o].val = v]
             \/ page' = [page EXCEPT ![o].discarded = x]
      PROVE  PageTypes'
  <2>1. page' \in [Page -> [blk : Block \cup {None}, val : 0 .. can.writes, dirty : BOOLEAN,
                            discarded : BOOLEAN]]
    BY SMTT(60), <1>t, <1>p DEF TypeOK
  <2>2. \A y \in Page : page'[y].blk = page[y].blk
    BY SMTT(60), <1>t, <1>p DEF TypeOK
  <2> QED  BY <1>t, <1>p, <2>1, <2>2 DEF PageTypes, TypeOK
<1>v. ver + 1 \in 0 .. can.writes \/ ~(ver < can.writes)
  BY SMTT(60), <1>t DEF TypeOK
<1>z. 0 \in 0 .. can.writes
  BY SMTT(60), <1>t
<1>InsertLate. CASE InsertLate(p)
  BY <1>t, <1>p, <1>z, <1>InsertLate DEF InsertLate, At, Shape, Task
<1>Zero. CASE Zero(p)
  BY <1>t, <1>p, <1>z, <1>Zero DEF Zero, At, Shape, Task
<1>Write. CASE Write(p)
  <2>1. th[p].obj \in Page
    BY <1>t, <1>Write DEF Write, At, Shape, Task
  <2> QED  BY <1>t, <1>p, <1>v, <1>Write, <2>1 DEF Write
<1>Store. CASE Store(p)
  BY <1>t, <1>p, <1>v, <1>Store DEF Store
<1> QED
  BY <1>Load, <1>Insert, <1>InsertLate, <1>Zero, <1>Write, <1>Store, <1>Discard, <1>EvictRemove,
     <1>Flush

\* The other variables.
FileTypes ==
    /\ ext \in [File -> Block \cup {None}] /\ len \in [File -> BOOLEAN] /\ free \subseteq Block
    /\ content \in [File -> 0 .. can.writes] /\ idmap \in [File -> Block \cup {None}]
    /\ wlock \in [File -> Thread \cup {None}] /\ bmlock \in [File -> Thread \cup {None}]
    /\ mlock \in Thread \cup {None} /\ count \in Int /\ ver \in 0 .. can.writes

LEMMA FileTypesStep == ASSUME Types, NEW p \in Thread, Act(p) PROVE FileTypes' /\ can' = can
<1>t. /\ th[p] \in Task /\ Shape(th[p]) /\ can.writes \in Nat
      /\ (mapping[p] # None => mapping[p].file \in File)
  BY SceneTypes DEF Types, Threads
<1>f. FileTypes
  BY DEF Types, TypeOK, FileTypes
<1>b. ASSUME Unlocked(p) PROVE bmlock' \in [File -> Thread \cup {None}]
  BY <1>f, <1>b DEF Unlocked, FileTypes
<1>m. ASSUME NEW b PROVE Forget(b) \in [File -> Block \cup {None}]
  BY <1>f DEF Forget, FileTypes
<1>c. ASSUME NEW f \in File, NEW v \in 0 .. can.writes, NEW threads, Contents(f, v, threads)
      PROVE  content' \in [File -> 0 .. can.writes]
  BY <1>f, <1>c DEF Contents, FileTypes
<1>z. 0 \in 0 .. can.writes
  BY SMTT(60), <1>t
<1> USE DEF At, files, locks, ghosts, FileTypes
<1>Write. CASE Write(p)
  <2>1. th[p].file \in File /\ ver + 1 \in 0 .. can.writes
    BY SMTT(60), <1>t, <1>f, <1>Write DEF Write, Shape, Task
  <2> QED  BY <1>f, <1>c, <1>Write, <2>1 DEF Write
<1>Store. CASE Store(p)
  <2>1. mapping[p].file \in File /\ ver + 1 \in 0 .. can.writes
    BY SMTT(60), <1>t, <1>f, <1>Store DEF Store
  <2> QED  BY <1>f, <1>c, <1>Store, <2>1 DEF Store
<1>Cut. CASE Cut(p)
  <2>1. th[p].file \in File
    BY <1>t, <1>Cut DEF Cut, Shape, Task
  <2> QED  BY <1>f, <1>c, <1>z, <1>Cut, <2>1 DEF Cut
<1>Peek. CASE Peek(p)  BY <1>f, <1>b, <1>Peek DEF Peek, Found
<1>NoSpace. CASE NoSpace(p)  BY <1>f, <1>b, <1>NoSpace DEF NoSpace
<1>PhysHit. CASE PhysHit(p)  BY <1>f, <1>b, <1>PhysHit DEF PhysHit, Found
<1>InsertLate. CASE InsertLate(p)  BY <1>f, <1>b, <1>InsertLate DEF InsertLate, Found
<1>Count. CASE Count(p)  BY SMTT(60), <1>f, <1>b, <1>Count DEF Count, Found
<1>Zero. CASE Zero(p)  BY <1>f, <1>b, <1>Zero DEF Zero, Found
<1>TruncateEnd. CASE TruncateEnd(p)  BY <1>f, <1>b, <1>TruncateEnd DEF TruncateEnd
<1>DeallocEnd. CASE DeallocEnd(p)  BY <1>f, <1>m, <1>DeallocEnd DEF DeallocEnd
<1>EvictRemove. CASE EvictRemove(p)  BY SMTT(60), <1>f, <1>m, <1>EvictRemove DEF EvictRemove
<1>Dealloc. CASE Dealloc(p)
  BY <1>f, <1>t, <1>Dealloc DEF Dealloc, Shape, Task, Dealing
<1>InsertId. CASE InsertId(p)
  BY <1>f, <1>t, <1>InsertId DEF InsertId, Shape, Task, Placing
<1>BeginRead. CASE BeginRead(p)  BY <1>f, <1>BeginRead DEF BeginRead
<1>BeginWrite. CASE BeginWrite(p)  BY <1>f, <1>BeginWrite DEF BeginWrite
<1>BeginMap. CASE BeginMap(p)  BY <1>f, <1>BeginMap DEF BeginMap
<1>BeginUnmap. CASE BeginUnmap(p)  BY <1>f, <1>BeginUnmap DEF BeginUnmap
<1>BeginTruncate. CASE BeginTruncate(p)  BY SMTT(60), <1>f, <1>BeginTruncate DEF BeginTruncate
<1>BeginSync. CASE BeginSync(p)  BY <1>f, <1>BeginSync DEF BeginSync
<1>LockBlockMap. CASE LockBlockMap(p)  BY <1>f, <1>LockBlockMap DEF LockBlockMap
<1>Look. CASE Look(p)  BY <1>f, <1>Look DEF Look
<1>ExtentHit. CASE ExtentHit(p)  BY <1>f, <1>ExtentHit DEF ExtentHit
<1>ReadHole. CASE ReadHole(p)  BY <1>f, <1>ReadHole DEF ReadHole
<1>PhysMiss. CASE PhysMiss(p)  BY <1>f, <1>PhysMiss DEF PhysMiss
<1>Read. CASE Read(p)  BY <1>f, <1>Read DEF Read
<1>DropPage. CASE DropPage(p)  BY <1>f, <1>DropPage DEF DropPage
<1>Sync. CASE Sync(p)  BY <1>f, <1>Sync DEF Sync
<1>Map. CASE Map(p)  BY <1>f, <1>Map DEF Map
<1>Unmap. CASE Unmap(p)  BY <1>f, <1>Unmap DEF Unmap
<1>Allocate. CASE Allocate(p)  BY <1>f, <1>Allocate DEF Allocate
<1>Load. CASE Load(p)  BY <1>f, <1>Load DEF Load
<1>Insert. CASE Insert(p)  BY <1>f, <1>Insert DEF Insert
<1>WriteEnd. CASE WriteEnd(p)  BY <1>f, <1>WriteEnd DEF WriteEnd
<1>Discard. CASE Discard(p)  BY SMTT(60), <1>f, <1>Discard DEF Discard
<1>BeginEvict. CASE BeginEvict(p)  BY <1>f, <1>BeginEvict DEF BeginEvict
<1>EvictSync. CASE EvictSync(p)  BY <1>f, <1>EvictSync DEF EvictSync
<1>EvictFrame. CASE EvictFrame(p)  BY <1>f, <1>EvictFrame DEF EvictFrame
<1> QED
  BY <1>BeginRead, <1>BeginWrite, <1>BeginMap, <1>BeginUnmap, <1>BeginTruncate, <1>BeginSync, <1>LockBlockMap, <1>Look, <1>Peek, <1>ExtentHit, <1>ReadHole, <1>NoSpace, <1>PhysHit, <1>PhysMiss, <1>Count, <1>Read, <1>DropPage, <1>Sync, <1>TruncateEnd, <1>Map, <1>Unmap, <1>Allocate, <1>InsertId, <1>Load, <1>Insert, <1>InsertLate, <1>Zero, <1>Write, <1>WriteEnd, <1>Store, <1>Cut, <1>Dealloc, <1>Discard, <1>DeallocEnd, <1>BeginEvict, <1>EvictSync, <1>EvictFrame, <1>EvictRemove DEF Act

LEMMA TypeOKStep == ASSUME Types, NEW p \in Thread, Act(p) PROVE TypeOK'
<1>1. FileTypes' /\ can' = can
  BY FileTypesStep
<1>2. PageTypes
  BY DEF Types, TypeOK, PageTypes
<1>3. CASE \/ Load(p) \/ Insert(p) \/ InsertLate(p) \/ Zero(p) \/ Write(p) \/ Store(p) \/ Discard(p)
           \/ EvictRemove(p) \/ Flushing(p)
  BY <1>1, <1>3, PageTypesStep DEF TypeOK, FileTypes, PageTypes
<1>4. CASE ~(\/ Load(p) \/ Insert(p) \/ InsertLate(p) \/ Zero(p) \/ Write(p) \/ Store(p)
             \/ Discard(p) \/ EvictRemove(p) \/ Flushing(p))
  <2>1. UNCHANGED <<disk, page, map>>
    BY <1>4 DEF Act, Flushing, BeginRead, BeginWrite, BeginMap, BeginUnmap, BeginTruncate, BeginSync, LockBlockMap, Look, Peek, ExtentHit, ReadHole, NoSpace, PhysHit, PhysMiss, Count, TruncateEnd, Allocate, InsertId, Cut, Dealloc, DeallocEnd, BeginEvict, EvictFrame, files
  <2> QED  BY <1>1, <1>2, <2>1 DEF TypeOK, FileTypes, PageTypes
<1> QED  BY <1>3, <1>4

LEMMA LookNow ==
    ASSUME th \in [Thread -> Task], NEW p \in Thread, Look(p)
    PROVE  Now(p, IF idmap[th[p].file] # None THEN "peek"
                  ELSE IF th[p].op = "unmap" THEN "have" ELSE "extent",
               th[p].op, th[p].file, idmap[th[p].file], th[p].obj) /\ th'[p].fresh = th[p].fresh
BY SMTT(60) DEF Look, Now, Task

LEMMA BlockNow ==
    ASSUME th \in [Thread -> Task], NEW p \in Thread, NEW b, NEW fresh \in BOOLEAN,
           \/ th' = [th EXCEPT ![p].blk = b, ![p].fresh = fresh, ![p].pc = "id"]
           \/ th' = [th EXCEPT ![p].blk = b, ![p].pc = "id"] /\ fresh = th[p].fresh
    PROVE  Now(p, "id", th[p].op, th[p].file, b, th[p].obj) /\ th'[p].fresh = fresh
BY SMTT(60) DEF Now, Task

LEMMA LoadNow ==
    ASSUME th \in [Thread -> Task], NEW p \in Thread, NEW o,
           th' = [th EXCEPT ![p].obj = o, ![p].pc = "insert"]
    PROVE  Now(p, "insert", th[p].op, th[p].file, th[p].blk, o) /\ th'[p].fresh = th[p].fresh
BY DEF Now, Task

LEMMA WriteNow == ASSUME Types, NEW p \in Thread, Write(p)
                  PROVE  /\ Moved(p, "wrote") /\ th[p].file \in File
                         /\ \A q \in Thread : th'[q].file = th[p].file => ver + 1 \in th'[q].seen
<1>1. th \in [Thread -> Task] /\ ver + 1 \in Int
  BY SMTT(60) DEF Types, Threads, TypeOK
<1>2. th[p].file \in File
  BY DEF Types, Threads, Write, At, Shape, Task
<1> DEFINE threads == [th EXCEPT ![p].pc = "wrote"]
<1>3. threads \in [Thread -> Task] /\ \A q \in Thread \ {p} : threads[q] = th[q]
  BY SMTT(60), <1>1 DEF Task, PC
<1>4. /\ threads[p].pc = "wrote" /\ threads[p].op = th[p].op /\ threads[p].file = th[p].file
      /\ threads[p].blk = th[p].blk /\ threads[p].obj = th[p].obj /\ threads[p].fresh = th[p].fresh
  BY <1>1 DEF Task
<1>5. Contents(th[p].file, ver + 1, threads)
  BY DEF Write
<1> HIDE DEF threads
<1> QED  BY SMTT(60), <1>1, <1>2, <1>3, <1>4, <1>5, SeenNow DEF Moved, Now

LEMMA StoreNow == ASSUME Types, NEW p \in Thread, Store(p)
                  PROVE  /\ Moved(p, "idle") /\ mapping[p].file \in File /\ mapping[p].obj \in Page
                         /\ len[mapping[p].file] =>
                              /\ content' = [content EXCEPT ![mapping[p].file] = ver + 1]
                              /\ \A q \in Thread : th'[q].file = mapping[p].file => ver + 1 \in th'[q].seen
<1>1. th \in [Thread -> Task] /\ ver + 1 \in Int /\ mapping[p] \in [file : File, obj : Page]
  BY SMTT(60) DEF Types, Threads, TypeOK, Store
<1>2. CASE len[mapping[p].file]
  <2>1. Contents(mapping[p].file, ver + 1, th) /\ mapping[p].file \in File /\ mapping[p].obj \in Page
    BY <1>1, <1>2 DEF Store
  <2>2. /\ Now(p, th[p].pc, th[p].op, th[p].file, th[p].blk, th[p].obj) /\ th'[p].fresh = th[p].fresh
        /\ \A q \in Thread : th'[q].file = mapping[p].file => ver + 1 \in th'[q].seen
    BY <1>1, <2>1, SeenNow
  <2> QED  BY <2>1, <2>2 DEF Store, At, Moved, Contents
<1>3. CASE ~len[mapping[p].file]
  BY <1>1, <1>3 DEF Store, At, Moved, Now
<1> QED  BY <1>2, <1>3

LEMMA CutNow == ASSUME Types, NEW p \in Thread, Cut(p)
                PROVE  /\ th[p].file \in File
                       /\ Now(p, IF ext[th[p].file] # None THEN "dealloc" ELSE "unlock", "truncate",
                              th[p].file, ext[th[p].file], th[p].obj) /\ th'[p].fresh = th[p].fresh
                       /\ \A q \in Thread : th'[q].file = th[p].file => 0 \in th'[q].seen
<1>1. th \in [Thread -> Task] /\ th[p].file \in File /\ th[p].op = "truncate"
  BY DEF Types, Threads, Cut, At, Shape, Task
<1>2. ext[th[p].file] \in Block \cup {None}
  BY <1>1 DEF Types, TypeOK
<1> DEFINE label == IF ext[th[p].file] # None THEN "dealloc" ELSE "unlock"
<1>3. label \in PC
  BY DEF PC, Dealing
<1> HIDE DEF label
<1> DEFINE g == [th EXCEPT ![p].blk = ext[th[p].file]]
<1> DEFINE threads == [g EXCEPT ![p].pc = label]
<1>4. /\ g \in [Thread -> Task] /\ \A q \in Thread \ {p} : g[q] = th[q]
      /\ g[p].op = th[p].op /\ g[p].file = th[p].file
      /\ g[p].blk = ext[th[p].file] /\ g[p].obj = th[p].obj /\ g[p].fresh = th[p].fresh
  BY <1>1, <1>2 DEF Task
<1>5. Contents(th[p].file, 0, threads)
  BY DEF Cut, label
<1> HIDE DEF g
<1>6. /\ threads \in [Thread -> Task] /\ \A q \in Thread \ {p} : threads[q] = th[q]
      /\ threads[p].pc = label /\ threads[p].op = th[p].op /\ threads[p].file = th[p].file
      /\ threads[p].blk = ext[th[p].file] /\ threads[p].obj = th[p].obj
      /\ threads[p].fresh = th[p].fresh
  BY <1>3, <1>4 DEF Task
<1> HIDE DEF threads
<1> QED  BY SMTT(60), <1>1, <1>5, <1>6, SeenNow DEF Now, label

\* The page a thread holds it held before or has from the table; but a new one.
Grip(p) ==
    /\ th'[p].pc # "insert"
    /\ th'[p].obj = None \/ th'[p].obj = th[p].obj \/ \E b \in Block : th'[p].obj = map[b]

LEMMA ShapeStep == ASSUME Types, NEW p \in Thread, Act(p)
                   PROVE  Shape(th[p])' /\ (Load(p) \/ Grip(p))
<1>t. /\ th \in [Thread -> Task] /\ Shape(th[p]) /\ content \in [File -> Int]
      /\ th[p] \in Task
      /\ idmap \in [File -> Block \cup {None}] /\ map \in [Block -> Page \cup {None}]
      /\ (mapping[p] # None => mapping[p].file \in File /\ "map" \in can.ops)
      /\ free \subseteq Block
  BY SMTT(60) DEF Types, Threads, TypeOK
<1>c. can' = can
  BY FileTypesStep
<1>l. "read" \in Ops /\ "write" \in Ops /\ "map" \in Ops /\ "unmap" \in Ops /\ "truncate" \in Ops
      /\ "evict" \in Ops /\ "sync" \in Ops /\ "look" \in PC /\ "wait" \in PC /\ "esync" \in PC
      /\ "sync" \in PC
  BY DEF Ops, PC
<1>n. None \notin Ops /\ None \notin Block /\ None \notin Page /\ None \notin File
  BY NoneFresh
<1> USE DEF At, Now, Moved, Rests, Gets, Placing, Dealing
<1>r. ASSUME Rests(p) PROVE Shape(th[p])' /\ Grip(p)
  BY <1>n, <1>r DEF Shape, Grip, Ops
<1>BeginRead. CASE BeginRead(p)
  <2>1. PICK f \in File : Now(p, "look", "read", f, None, None) /\ ~th'[p].fresh
    <3> HIDE DEF Now
    <3> QED  BY <1>t, <1>l, <1>BeginRead, StartNow DEF BeginRead
  <2> QED  BY <1>t, <1>c, <1>n, <1>BeginRead, <2>1 DEF BeginRead, Shape, Grip
<1>BeginWrite. CASE BeginWrite(p)
  <2>1. PICK f \in File : Now(p, "wait", "write", f, None, None) /\ ~th'[p].fresh
    <3> HIDE DEF Now
    <3> QED  BY <1>t, <1>l, <1>BeginWrite, StartNow DEF BeginWrite
  <2> QED  BY <1>t, <1>c, <1>n, <1>BeginWrite, <2>1 DEF BeginWrite, Shape, Grip
<1>BeginMap. CASE BeginMap(p)
  <2>1. PICK f \in File : Now(p, "wait", "map", f, None, None) /\ ~th'[p].fresh
    <3> HIDE DEF Now
    <3> QED  BY <1>t, <1>l, <1>BeginMap, StartNow DEF BeginMap
  <2> QED  BY <1>t, <1>c, <1>n, <1>BeginMap, <2>1 DEF BeginMap, Shape, Grip
<1>BeginUnmap. CASE BeginUnmap(p)
  <2>1. PICK f \in File : Now(p, "look", "unmap", f, None, None) /\ ~th'[p].fresh
    <3> HIDE DEF Now
    <3> QED  BY <1>t, <1>l, <1>BeginUnmap, StartNow DEF BeginUnmap
  <2> QED  BY <1>t, <1>c, <1>n, <1>BeginUnmap, <2>1 DEF BeginUnmap, Shape, Grip
<1>BeginTruncate. CASE BeginTruncate(p)
  <2>1. PICK f \in File : Now(p, "wait", "truncate", f, None, None) /\ ~th'[p].fresh
    <3> HIDE DEF Now
    <3> QED  BY <1>t, <1>l, <1>BeginTruncate, StartNow DEF BeginTruncate
  <2> QED  BY <1>t, <1>c, <1>n, <1>BeginTruncate, <2>1 DEF BeginTruncate, Shape, Grip
<1>BeginSync. CASE BeginSync(p)
  <2>1. PICK b \in Block : map[b] # None /\ th' = [th EXCEPT ![p] = Doing("sync", "sync", None, b, map[b], {})]
    BY <1>BeginSync DEF BeginSync
  <2>2. Now(p, "sync", "sync", None, b, map[b]) /\ ~th'[p].fresh
    <3> HIDE DEF Now
    <3> QED  BY <1>t, <1>l, <2>1, TakeNow
  <2> QED  BY <1>c, <1>n, <1>BeginSync, <2>1, <2>2 DEF BeginSync, Shape, Grip
<1>BeginEvict. CASE BeginEvict(p)
  <2>1. PICK b \in Block : map[b] # None /\ th' = [th EXCEPT ![p] = Doing("esync", "evict", None, b, map[b], {})]
    BY <1>BeginEvict DEF BeginEvict
  <2>2. Now(p, "esync", "evict", None, b, map[b]) /\ ~th'[p].fresh
    <3> HIDE DEF Now
    <3> QED  BY <1>t, <1>l, <2>1, TakeNow
  <2> QED  BY <1>c, <1>n, <1>BeginEvict, <2>1, <2>2 DEF BeginEvict, Shape, Grip
<1>ReadHole. CASE ReadHole(p)  BY <1>t, <1>r, <1>ReadHole, IdleNow DEF ReadHole
<1>NoSpace. CASE NoSpace(p)  BY <1>t, <1>r, <1>NoSpace, IdleNow DEF NoSpace
<1>Read. CASE Read(p)  BY <1>t, <1>r, <1>Read, IdleNow DEF Read
<1>DropPage. CASE DropPage(p)  BY <1>t, <1>r, <1>DropPage, IdleNow DEF DropPage
<1>TruncateEnd. CASE TruncateEnd(p)  BY <1>t, <1>r, <1>TruncateEnd, IdleNow DEF TruncateEnd
<1>Map. CASE Map(p)  BY <1>t, <1>r, <1>Map, IdleNow DEF Map
<1>WriteEnd. CASE WriteEnd(p)  BY <1>t, <1>r, <1>WriteEnd, IdleNow DEF WriteEnd
<1>LockBlockMap. CASE LockBlockMap(p)
  <2>1. Moved(p, IF th[p].op = "truncate" THEN "cut" ELSE "look")
    BY <1>t, <1>LockBlockMap, GotoNow DEF LockBlockMap
  <2> QED  BY <1>t, <1>c, <1>n, <1>LockBlockMap, <2>1 DEF LockBlockMap, Shape, Grip
<1>PhysMiss. CASE PhysMiss(p)
  <2>1. Moved(p, "load")
    BY <1>t, <1>PhysMiss, GotoNow DEF PhysMiss
  <2> QED  BY <1>t, <1>c, <1>n, <1>PhysMiss, <2>1 DEF PhysMiss, Shape, Grip
<1>Unmap. CASE Unmap(p)
  <2>1. Moved(p, "drop")
    BY <1>t, <1>Unmap, GotoNow DEF Unmap
  <2> QED  BY <1>t, <1>c, <1>n, <1>Unmap, <2>1 DEF Unmap, Shape, Grip
<1>InsertId. CASE InsertId(p)
  <2>1. Moved(p, "phys")
    BY <1>t, <1>InsertId, GotoNow DEF InsertId
  <2> QED  BY <1>t, <1>c, <1>n, <1>InsertId, <2>1 DEF InsertId, Shape, Grip
<1>Insert. CASE Insert(p)
  <2>1. Moved(p, "count")
    BY <1>t, <1>Insert, GotoNow DEF Insert
  <2> QED  BY <1>t, <1>c, <1>n, <1>Insert, <2>1 DEF Insert, Shape, Grip
<1>Sync. CASE Sync(p)
  <2>1. Moved(p, "drop")
    BY <1>t, <1>Sync, GotoNow DEF Sync
  <2> QED  BY <1>t, <1>c, <1>n, <1>Sync, <2>1 DEF Sync, Shape, Grip
<1>Dealloc. CASE Dealloc(p)
  <2>1. Moved(p, "discard")
    BY <1>t, <1>Dealloc, GotoNow DEF Dealloc
  <2> QED  BY <1>t, <1>c, <1>n, <1>Dealloc, <2>1 DEF Dealloc, Shape, Grip
<1>Discard. CASE Discard(p)
  <2>1. Moved(p, "forget")
    BY <1>t, <1>Discard, GotoNow DEF Discard
  <2> QED  BY <1>t, <1>c, <1>n, <1>Discard, <2>1 DEF Discard, Shape, Grip
<1>DeallocEnd. CASE DeallocEnd(p)
  <2>1. Moved(p, "unlock")
    BY <1>t, <1>DeallocEnd, GotoNow DEF DeallocEnd
  <2> QED  BY <1>t, <1>c, <1>n, <1>DeallocEnd, <2>1 DEF DeallocEnd, Shape, Grip
<1>EvictSync. CASE EvictSync(p)
  <2>1. Moved(p, "eframe")
    BY <1>t, <1>EvictSync, GotoNow DEF EvictSync
  <2> QED  BY <1>t, <1>c, <1>n, <1>EvictSync, <2>1 DEF EvictSync, Shape, Grip
<1>EvictRemove. CASE EvictRemove(p)
  <2>1. Moved(p, "drop")
    BY <1>t, <1>EvictRemove, GotoNow DEF EvictRemove
  <2> QED  BY <1>t, <1>c, <1>n, <1>EvictRemove, <2>1 DEF EvictRemove, Shape, Grip
<1>PhysHit. CASE PhysHit(p)
  <2>1. Gets(p, map[th[p].blk])
    BY <1>t, <1>PhysHit, FoundNow DEF PhysHit
  <2>2. th[p].blk \in Block \/ th[p].obj = map[th[p].blk]
    BY <1>t, <1>PhysHit DEF PhysHit, Shape, Task
  <2> QED  BY <1>t, <1>c, <1>n, <1>PhysHit, <2>1, <2>2 DEF PhysHit, Shape, Grip
<1>InsertLate. CASE InsertLate(p)
  <2>1. Gets(p, map[th[p].blk])
    BY <1>t, <1>InsertLate, FoundNow DEF InsertLate
  <2>2. th[p].blk \in Block \/ th[p].obj = map[th[p].blk]
    BY <1>t, <1>InsertLate DEF InsertLate, Shape, Task
  <2> QED  BY <1>t, <1>c, <1>n, <1>InsertLate, <2>1, <2>2 DEF InsertLate, Shape, Grip
<1>Zero. CASE Zero(p)
  <2>1. Gets(p, th[p].obj)
    BY <1>t, <1>Zero, FoundNow DEF Zero
  <2>2. th[p].blk \in Block \/ th[p].obj = th[p].obj
    BY <1>t, <1>Zero DEF Zero, Shape, Task
  <2> QED  BY <1>t, <1>c, <1>n, <1>Zero, <2>1, <2>2 DEF Zero, Shape, Grip
<1>EvictFrame. CASE EvictFrame(p)
  <2>1. Moved(p, IF FrameMapped(th[p].obj) THEN "drop" ELSE "eremove")
    BY <1>t, <1>EvictFrame, GotoNow DEF EvictFrame
  <2> QED  BY <1>t, <1>c, <1>n, <1>EvictFrame, <2>1 DEF EvictFrame, Shape, Grip
<1>Look. CASE Look(p)
  <2>1. idmap[th[p].file] # None => idmap[th[p].file] \in Block
    BY <1>t, <1>Look DEF Look, Shape, Task
  <2>2. Now(p, IF idmap[th[p].file] # None THEN "peek"
               ELSE IF th[p].op = "unmap" THEN "have" ELSE "extent",
            th[p].op, th[p].file, idmap[th[p].file], th[p].obj) /\ th'[p].fresh = th[p].fresh
    <3> HIDE DEF Now
    <3> QED  BY <1>t, <1>Look, LookNow
  <2> QED  BY SMTT(60), <1>t, <1>c, <1>n, <1>Look, <2>1, <2>2 DEF Look, Shape, Grip
<1>Peek. CASE Peek(p)
  <2>1. CASE map[th[p].blk] # None \/ th[p].op = "unmap"
    <3>1. Gets(p, map[th[p].blk])
      BY <1>t, <1>Peek, <2>1, FoundNow DEF Peek
    <3>2. th[p].blk \in Block
      BY <1>t, <1>Peek DEF Peek, Shape, Task
    <3> QED  BY <1>t, <1>c, <1>n, <1>Peek, <2>1, <3>1, <3>2 DEF Peek, Shape, Grip
  <2>2. CASE ~(map[th[p].blk] # None \/ th[p].op = "unmap")
    <3>1. Moved(p, "extent")
      BY <1>t, <1>Peek, <2>2, GotoNow DEF Peek
    <3> QED  BY <1>t, <1>c, <1>n, <1>Peek, <2>2, <3>1 DEF Peek, Shape, Grip
  <2> QED  BY <2>1, <2>2
<1>Count. CASE Count(p)
  <2>1. CASE th[p].fresh
    <3>1. Moved(p, "zero")
      BY <1>t, <1>Count, <2>1, GotoNow DEF Count
    <3> QED  BY <1>t, <1>c, <1>n, <1>Count, <2>1, <3>1 DEF Count, Shape, Grip
  <2>2. CASE ~th[p].fresh
    <3>1. Gets(p, th[p].obj)
      BY <1>t, <1>Count, <2>2, FoundNow DEF Count
    <3> QED  BY <1>t, <1>c, <1>n, <1>Count, <2>2, <3>1 DEF Count, Shape, Grip
  <2> QED  BY <2>1, <2>2
<1>ExtentHit. CASE ExtentHit(p)
  <2>1. Now(p, "id", th[p].op, th[p].file, ext[th[p].file], th[p].obj) /\ th'[p].fresh = th[p].fresh
    BY <1>t, <1>ExtentHit, BlockNow DEF ExtentHit, Task
  <2> QED  BY <1>t, <1>c, <1>n, <1>ExtentHit, <2>1 DEF ExtentHit, Shape, Grip
<1>Allocate. CASE Allocate(p)
  <2>1. PICK b \in free : Now(p, "id", th[p].op, th[p].file, b, th[p].obj) /\ th'[p].fresh
    BY <1>t, <1>Allocate, BlockNow DEF Allocate
  <2> QED  BY <1>t, <1>c, <1>n, <1>Allocate, <2>1 DEF Allocate, Shape, Grip
<1>Load. CASE Load(p)
  <2>1. PICK o \in Page : Now(p, "insert", th[p].op, th[p].file, th[p].blk, o) /\ th'[p].fresh = th[p].fresh
    BY <1>t, <1>Load, LoadNow DEF Load
  <2> QED  BY <1>t, <1>c, <1>n, <1>Load, <2>1 DEF Load, Shape, Grip
<1>Write. CASE Write(p)
  BY <1>t, <1>c, <1>n, <1>Write, WriteNow DEF Write, Shape, Grip
<1>Store. CASE Store(p)
  BY <1>t, <1>c, <1>n, <1>Store, StoreNow DEF Store, Shape, Grip
<1>Cut. CASE Cut(p)
  BY <1>t, <1>c, <1>n, <1>Cut, CutNow DEF Cut, Shape, Grip
<1> QED
  BY <1>BeginRead, <1>BeginWrite, <1>BeginMap, <1>BeginUnmap, <1>BeginTruncate, <1>BeginSync, <1>LockBlockMap, <1>Look, <1>Peek, <1>ExtentHit, <1>ReadHole, <1>NoSpace, <1>PhysHit, <1>PhysMiss, <1>Count, <1>Read, <1>DropPage, <1>Sync, <1>TruncateEnd, <1>Map, <1>Unmap, <1>Allocate, <1>InsertId, <1>Load, <1>Insert, <1>InsertLate, <1>Zero, <1>Write, <1>WriteEnd, <1>Store, <1>Cut, <1>Dealloc, <1>Discard, <1>DeallocEnd, <1>BeginEvict, <1>EvictSync, <1>EvictFrame, <1>EvictRemove DEF Act

LEMMA ThreadsStep == ASSUME Types, NEW p \in Thread, Act(p) PROVE Threads'
<1>f. Frame(p) /\ can' = can /\ Shape(th[p])' /\ th[p] \in Task
  BY FrameStep, FileTypesStep, ShapeStep DEF Types, Threads
<1>q. ASSUME NEW q \in Thread \ {p} PROVE Shape(th[q])'
  <2>1. Same(q) /\ Shape(th[q])
    BY <1>f DEF Frame, Types, Threads
  <2> QED  BY SMTT(60), <1>f, <2>1 DEF Same, Shape
<1>m. ASSUME \/ UNCHANGED mapping
             \/ mapping' = [mapping EXCEPT ![p] = None]
             \/ /\ th[p].file \in File /\ th[p].obj \in Page /\ "map" \in can.ops
                /\ mapping' = [mapping EXCEPT ![p] = [file |-> th[p].file, obj |-> th[p].obj]]
      PROVE  /\ mapping' \in [Thread -> [file : File, obj : Page] \cup {None}]
             /\ \A q \in Thread : mapping'[q] # None => "map" \in can.ops
  <2>1. /\ mapping \in [Thread -> [file : File, obj : Page] \cup {None}]
        /\ \A q \in Thread : mapping[q] # None => "map" \in can.ops
    BY DEF Types, Threads
  <2>2. CASE UNCHANGED mapping
    BY <2>1, <2>2
  <2>3. CASE mapping' = [mapping EXCEPT ![p] = None]
    BY <2>1, <2>3
  <2>4. CASE ~UNCHANGED mapping /\ mapping' # [mapping EXCEPT ![p] = None]
    BY SMTT(60), <1>m, <2>1, <2>4
  <2> QED  BY <2>2, <2>3, <2>4
<1>Map. CASE Map(p)
  <2>1. th[p].file \in File /\ th[p].obj \in Page /\ "map" \in can.ops
    BY <1>f, <1>Map DEF Map, At, Types, Threads, Shape, Task
  <2> QED  BY <1>f, <1>q, <1>m, <1>Map, <2>1 DEF Map, Frame, Types, Threads
<1>Unmap. CASE Unmap(p)  BY <1>f, <1>q, <1>m, <1>Unmap DEF Unmap, Frame, Types, Threads
<1>Other. CASE ~Map(p) /\ ~Unmap(p)
  <2>1. UNCHANGED mapping
    BY <1>Other DEF Act, BeginRead, BeginWrite, BeginMap, BeginUnmap, BeginTruncate, BeginSync, LockBlockMap,
             Look, Peek, ExtentHit, ReadHole, NoSpace, PhysHit, PhysMiss, Count, Read, DropPage,
             Sync, TruncateEnd, Allocate, InsertId, Load, Insert, InsertLate, Zero, Write,
             WriteEnd, Store, Cut, Dealloc, Discard, DeallocEnd, BeginEvict, EvictSync,
             EvictFrame, EvictRemove
  <2> QED  BY <1>f, <1>q, <1>m, <2>1 DEF Frame, Types, Threads
<1> QED  BY <1>Map, <1>Unmap, <1>Other

LEMMA BlocksStep == ASSUME Types, NEW p \in Thread, Act(p) PROVE Blocks'
<1>f. /\ Frame(p) /\ th \in [Thread -> Task] /\ th' \in [Thread -> Task] /\ TypeOK /\ Blocks
      /\ Shape(th[p])
  BY FrameStep DEF Types, Threads, Frame
<1>Load. CASE Load(p)
  <2>1. PICK o \in Page :
          /\ Holders(o) = {} /\ ~Listed(o)
          /\ page' = [page EXCEPT ![o] = [blk |-> th[p].blk,
                                          val |-> IF th[p].fresh THEN 0 ELSE disk[th[p].blk],
                                          dirty |-> th[p].fresh, discarded |-> FALSE]]
          /\ th' = [th EXCEPT ![p].obj = o, ![p].pc = "insert"]
    BY <1>Load DEF Load
  <2>2. Now(p, "insert", th[p].op, th[p].file, th[p].blk, o) /\ th'[p].fresh = th[p].fresh
    BY <1>f, <2>1, LoadNow
  <2>3. th[p].blk \in Block
    BY <1>f, <1>Load DEF Load, At, Shape, Task, Placing
  <2>4. page'[o].blk = th[p].blk /\ \A x \in Page \ {o} : page'[x] = page[x]
    BY <1>f, <2>1 DEF TypeOK
  <2>5. \A q \in Thread \ {p} : th'[q].obj # None => th'[q].obj \in Page \ {o}
    BY SMTT(60), <1>f, <2>1, Unheld DEF Frame, Same, Task
  <2>6. ASSUME NEW q \in Thread \ {p}
        PROVE  /\ th'[q].obj # None => page'[th'[q].obj].blk # None
               /\ th'[q].pc = "insert" => page'[th'[q].obj].blk = th'[q].blk
    <3>1. th'[q].pc = th[q].pc /\ th'[q].obj = th[q].obj /\ th'[q].blk = th[q].blk
      BY <1>f DEF Frame, Same
    <3>2. th[q].pc = "insert" => th[q].obj # None
      BY DEF Types, Threads, Shape
    <3> QED  BY SMTT(60), <1>f, <2>4, <2>5, <3>1, <3>2 DEF Blocks
  <2>7. /\ page'[th'[p].obj].blk # None
        /\ page'[th'[p].obj].blk = th'[p].blk
    BY <2>2, <2>3, <2>4, NoneFresh DEF Now
  <2>8. \A x \in Page : page'[x].dirty => page'[x].blk # None
    BY <1>f, <2>3, <2>4, NoneFresh DEF Blocks
  <2> QED  BY <2>6, <2>7, <2>8 DEF Blocks
<1>Other. CASE ~Load(p)
  <2>1. ASSUME \A o \in Page : /\ page'[o].blk = page[o].blk
                               /\ page'[o].dirty => page[o].dirty \/ page[o].blk # None
        PROVE  Blocks'
    <3>1. Grip(p)
      BY <1>Other, ShapeStep
    <3>2. \A q \in Thread : th'[q].obj # None => th'[q].obj \in Page
      BY <1>f DEF Task
    <3>3. th'[p].obj # None => page[th'[p].obj].blk # None
      BY SMTT(60), <1>f, <3>1, <3>2, NoneFresh DEF Grip, Blocks, TypeOK
    <3>4. \A q \in Thread \ {p} : th'[q].obj # None => page[th'[q].obj].blk # None
      BY <1>f DEF Frame, Same, Blocks
    <3>5. \A q \in Thread : th'[q].pc = "insert" =>
              /\ th[q].pc = "insert" /\ th'[q].obj = th[q].obj /\ th'[q].blk = th[q].blk
              /\ th[q].obj \in Page
      BY SMTT(60), <1>f, <3>1 DEF Frame, Same, Grip, Types, Threads, Shape, Task
    <3> QED  BY SMTT(60), <1>f, <2>1, <3>2, <3>3, <3>4, <3>5 DEF Blocks
  <2>2. CASE UNCHANGED page
    BY <2>1, <2>2
  <2>3. CASE Flushing(p)
    BY <2>1, <2>3, FlushStep DEF Flushes
  <2>4. CASE Zero(p)
    <3>1. th[p].obj \in Page /\ page[th[p].obj].blk # None
      BY <1>f, <2>4 DEF Zero, At, Shape, Blocks, Task
    <3> QED  BY <1>f, <2>1, <2>4, <3>1 DEF Zero, TypeOK
  <2>5. CASE Write(p)
    <3>1. th[p].obj \in Page /\ page[th[p].obj].blk # None
      BY <1>f, <2>5 DEF Write, At, Shape, Blocks, Task
    <3> QED  BY <1>f, <2>1, <2>5, <3>1 DEF Write, TypeOK
  <2>6. CASE Store(p)
    BY SMTT(60), <1>f, <2>1, <2>6 DEF Store, TypeOK
  <2>7. CASE InsertLate(p)
    BY SMTT(60), <1>f, <2>1, <2>7 DEF InsertLate, TypeOK
  <2>8. CASE Discard(p)
    BY SMTT(60), <1>f, <2>1, <2>8 DEF Discard, TypeOK
  <2>9. UNCHANGED page \/ Flushing(p) \/ Zero(p) \/ Write(p) \/ Store(p) \/ InsertLate(p) \/ Discard(p)
    BY <1>Other DEF Act, Flushing, BeginRead, BeginWrite, BeginMap, BeginUnmap, BeginTruncate, BeginSync, LockBlockMap,
             Look, Peek, ExtentHit, ReadHole, NoSpace, PhysHit, PhysMiss, Count, TruncateEnd,
             Allocate, InsertId, Insert, Cut, Dealloc, DeallocEnd, BeginEvict, EvictFrame,
             EvictRemove
  <2> QED  BY <2>2, <2>3, <2>4, <2>5, <2>6, <2>7, <2>8, <2>9
<1> QED  BY <1>Load, <1>Other

LEMMA TypesStep == ASSUME Types, NEW p \in Thread, Act(p) PROVE Types'
BY TypeOKStep, ThreadsStep, BlocksStep DEF Types

-----------------------------------------------------------------------------
(* Steps that leave the files and the tables alone.                        *)

\* A thread takes a lock that is free, and releases its own.
Mine(p) ==
    /\ \A f \in File : wlock[f] \notin {None, p} => wlock'[f] = wlock[f]
    /\ \A f \in File : bmlock[f] \notin {None, p} => bmlock'[f] = bmlock[f]
    /\ mlock \notin {None, p} => mlock' = mlock

\* Write-back leaves the contents of the pages alone, and on the device those of
\* the blocks that have no page.
Device == \A b \in Block : map[b] = None => disk'[b] = disk[b]
Writeback ==
    /\ \A o \in Page : /\ page'[o].blk = page[o].blk /\ page'[o].val = page[o].val
                       /\ page'[o].discarded = page[o].discarded
    /\ Device

\* A page that is in no table, no address space and no other hand.
Private(p, o) ==
    /\ \A b \in Block : map[b] # o
    /\ \A q \in Thread \ {p} : th[q].obj # o
    /\ \A q \in Thread : mapping[q] # None => mapping[q].obj # o
Pages(p) ==
    \A o \in Page : \/ Private(p, o)
                    \/ page'[o].blk = page[o].blk /\ page'[o].discarded = page[o].discarded
Values(p) == \A o \in Page : Private(p, o) \/ page'[o].val = page[o].val

\* Nobody loses the frame it has mapped; a new mapping is of the page in hand.
Mapped(p) ==
    /\ \A q \in Thread \ {p} : mapping'[q] = mapping[q]
    /\ mapping'[p] # None => mapping'[p] = mapping[p] \/ mapping'[p].obj = th[p].obj

\* What the other threads rely on.
Keeps(p) ==
    /\ UNCHANGED <<can, ext, len, free, map>>
    /\ Mine(p) /\ Mapped(p) /\ Pages(p) /\ Device
    /\ Grip(p) \/ Private(p, th'[p].obj)
    /\ th'[p].pc # "dealloc"
    /\ \A q \in Thread \ {p} :
          /\ th[q].pc = "insert" => page'[th[q].obj].val = page[th[q].obj].val
          /\ Pending(q) => content'[th[q].file] = content[th[q].file]
          /\ th[q].op = "read" => content'[th[q].file] \in th'[q].seen

\* A step that leaves the files, the pages and the tables alone; but that a block
\* enters page_cache_id_map from an extent, or is forgotten there.
Harmless(p) ==
    /\ UNCHANGED <<can, ext, len, free, map, content>>
    /\ \A f \in File : idmap'[f] = idmap[f] \/ idmap'[f] = ext[f] \/ idmap'[f] = None
    /\ Mine(p) /\ Mapped(p) /\ Pages(p) /\ Values(p) /\ Device
    /\ Grip(p) \/ Private(p, th'[p].obj)
    /\ th[p].pc \notin {"dealloc", "discard"} /\ th'[p].pc \notin Dealing
    /\ th[p].pc = "forget" => \A f \in File : idmap'[f] # th[p].blk
    /\ Pending(p) => Pending(p)' /\ th'[p].file = th[p].file

LEMMA HarmlessTables ==
    ASSUME Types, Types', Sound, NEW p \in Thread, Frame(p), Harmless(p)
    PROVE  Tables'
<1>t. /\ ext \in [File -> Block \cup {None}] /\ map \in [Block -> Page \cup {None}]
      /\ UNCHANGED <<can, ext, len, free, map, content>>
  BY DEF Types, TypeOK, Harmless
<1>q. \A q \in Thread \ {p} : Same(q)
  BY DEF Frame
<1>Owners. Owners'  BY <1>t DEF Sound, Tables, Owners
<1>Uncached. Uncached'  BY SMTT(60), <1>t, <1>q DEF Sound, Tables, Uncached, Harmless, Same, Dealing
<1>Index. Index'
  <2>1. ASSUME NEW f \in File, idmap'[f] # None, idmap'[f] # ext[f]
        PROVE  \E q \in Thread : th'[q].pc \in Dealing /\ th'[q].file = f /\ th'[q].blk = idmap'[f]
    <3>1. idmap'[f] = idmap[f]
      BY <2>1 DEF Harmless
    <3>2. PICK q \in Thread : th[q].pc \in Dealing /\ th[q].file = f /\ th[q].blk = idmap[f]
      BY <2>1, <3>1 DEF Sound, Tables, Index
    <3>3. q # p
      BY <3>1, <3>2 DEF Harmless, Dealing
    <3> QED  BY <1>q, <3>1, <3>2, <3>3 DEF Same
  <2> QED  BY <1>t, <2>1 DEF Index
<1>Valid. Valid'  BY SMTT(60), <1>t DEF Sound, Tables, Valid, Harmless, Pages, Private
<1>Empty. Empty'  BY <1>t DEF Sound, Tables, Empty
<1>Current. Current'
  <2>1. ASSUME NEW f \in File, ext[f] # None, Counts(f)
        PROVE  IF map[ext[f]] # None THEN page'[map[ext[f]]].val = content[f]
               ELSE disk'[ext[f]] = content[f] \/ \E q \in Thread : Pending(q)' /\ th'[q].file = f
    <3>1. ASSUME NEW q \in Thread, Pending(q), th[q].file = f
          PROVE  Pending(q)' /\ th'[q].file = f
      BY <1>q, <3>1 DEF Harmless, Same, Pending
    <3> QED  BY SMTT(60), <1>t, <2>1, <3>1 DEF Sound, Tables, Current, Harmless, Values, Device, Private
  <2> QED  BY <1>t, <2>1 DEF Current, Counts
<1> QED  BY <1>Owners, <1>Uncached, <1>Index, <1>Valid, <1>Empty, <1>Current DEF Tables

LEMMA KeepsOthers ==
    ASSUME Types, Types', Sound, NEW p \in Thread, Frame(p), Keeps(p), NEW q \in Thread \ {p}
    PROVE  Local(q)'
<1>t. /\ UNCHANGED <<can, ext, len, free, map>> /\ mapping'[q] = mapping[q]
      /\ Local(q) /\ Same(q) /\ th[q] \in Task /\ Shape(th[q]) /\ map \in [Block -> Page \cup {None}]
      /\ (mapping[q] # None => mapping[q].obj \in Page)
  BY SMTT(60) DEF Types, TypeOK, Threads, Keeps, Sound, Frame, Mapped
<1>w. Mine(p) /\ Mapped(p) /\ Pages(p) /\ Device /\ (Grip(p) \/ Private(p, th'[p].obj))
  BY DEF Keeps
<1>o. th[q].obj # None => /\ th[q].obj \in Page
                          /\ page'[th[q].obj].blk = page[th[q].obj].blk
                          /\ page'[th[q].obj].discarded = page[th[q].obj].discarded
  BY <1>t, <1>w DEF Pages, Private, Task
<1> USE DEF Same
<1>1. Locked(q)'
  BY SMTT(60), <1>t, <1>w, NoneFresh DEF Local, Locked, Mine, Shape, Task, Dealing, Placing
<1>2. Released(q)'
  <2>1. ASSUME NEW r \in Thread, th'[r].pc = "dealloc"
        PROVE  th[r].pc = "dealloc" /\ th'[r].blk = th[r].blk
    BY <2>1 DEF Frame, Keeps
  <2> QED  BY <1>t, <2>1 DEF Local, Released
<1>3. Steady(q)'  BY <1>t DEF Local, Steady
<1>4. Held(q)'  BY <1>t, <1>o DEF Local, Held
<1>5. Loaded(q)'
  <2>1. CASE th[q].pc = "insert"
    <3>1. th[q].obj # None /\ th[q].blk \in Block /\ Loaded(q)
      BY <1>t, <2>1 DEF Local, Shape, Task, Placing
    <3>2. \A r \in Thread \ {q} : th'[r].obj # th[q].obj
      BY <1>w, <2>1, <3>1 DEF Loaded, Grip, Private, Frame
    <3>3. \A r \in Thread : mapping'[r] # None => mapping'[r].obj # th[q].obj
      BY <1>w, <2>1, <3>1 DEF Loaded, Mapped
    <3>4. page'[th[q].obj].val = page[th[q].obj].val
      BY <2>1 DEF Keeps
    <3> QED  BY SMTT(60), <1>t, <1>w, <1>o, <2>1, <3>1, <3>2, <3>3, <3>4 DEF Loaded, Device
  <2>2. CASE th[q].pc # "insert"
    BY <1>t, <2>2 DEF Loaded
  <2> QED  BY <2>1, <2>2
<1>6. Uses(q)'
  <2>1. ASSUME NEW o \in Page, NEW f, Attached(o, f), ~Private(p, o) PROVE Attached(o, f)'
    BY <1>t, <1>w, <2>1 DEF Attached, Pages
  <2>2. th[q].op = "map" /\ th[q].pc = "have" => th[q].obj \in Page /\ ~Private(p, th[q].obj)
    BY <1>t DEF Shape, Task, Private
  <2>3. mapping[q] # None => ~Private(p, mapping[q].obj)
    BY DEF Private
  <2> QED  BY <1>t, <2>1, <2>2, <2>3 DEF Local, Uses
<1>7. Published(q)'  BY <1>t DEF Local, Published
<1>8. Fresh(q)'  BY <1>t DEF Local, Fresh, Pending, Keeps
<1>9. Seen(q)'  BY <1>t DEF Seen, Keeps
<1> QED  BY <1>1, <1>2, <1>3, <1>4, <1>5, <1>6, <1>7, <1>8, <1>9 DEF Local

LEMMA HarmlessStep ==
    ASSUME Types, Types', Sound, NEW p \in Thread, Frame(p), Harmless(p), Local(p)'
    PROVE  Sound'
<1>1. Keeps(p)
  <2>1. ASSUME NEW q \in Thread \ {p}
        PROVE  /\ th[q].pc = "insert" => page'[th[q].obj].val = page[th[q].obj].val
               /\ th[q].op = "read" => content'[th[q].file] \in th'[q].seen
    <3>1. th[q].pc = "insert" => th[q].obj \in Page
      BY DEF Types, Threads, Shape, Task
    <3> QED  BY <3>1 DEF Harmless, Values, Private, Sound, Local, Seen, Frame, Same
  <2> QED  BY <2>1 DEF Harmless, Keeps, Dealing
<1> QED  BY <1>1, HarmlessTables, KeepsOthers DEF Sound

-----------------------------------------------------------------------------
(* What such a step does to its own thread.                                *)

\* PageCache::sync and the destructor write a page that is in the table, or none.
LEMMA SyncedWriteback ==
    ASSUME Types, NEW p \in Thread, Held(p), th[p].pc # "insert",
           \/ UNCHANGED <<disk, page>>
           \/ th[p].obj # None /\ Synced(th[p].obj)
    PROVE  Writeback
<1>1. CASE UNCHANGED <<disk, page>>
  BY <1>1 DEF Writeback, Device
<1>2. CASE th[p].obj # None /\ Synced(th[p].obj)
  <2>1. th[p].obj \in Page /\ page[th[p].obj].blk \in Block
    BY SMTT(60), <1>2 DEF Types, Threads, Blocks, TypeOK, Task
  <2>2. Flushes
    BY <1>2, <2>1, SyncedFlushes
  <2>3. ASSUME NEW b \in Block, map[b] = None PROVE disk'[b] = disk[b]
    <3>1. page[th[p].obj].discarded \/ page[th[p].obj].blk # b
      BY <1>2, <2>3 DEF Held
    <3> QED  BY <1>2, <2>1, <3>1 DEF Synced, Types, TypeOK
  <2> QED  BY <2>2, <2>3 DEF Flushes, Writeback, Device
<1> QED  BY <1>1, <1>2

\* What a thread has mapped stays.
LEMMA MappingStays ==
    ASSUME Types, NEW p \in Thread, Local(p), Harmless(p), mapping'[p] = mapping[p]
    PROVE  mapping'[p] # None => /\ Attached(mapping[p].obj, mapping[p].file)'
                                 /\ "truncate" \notin can.ops => len[mapping[p].file]
<1>1. mapping[p] # None => mapping[p].obj \in Page
  BY DEF Types, Threads
<1>2. mapping[p] # None => /\ page'[mapping[p].obj].blk = page[mapping[p].obj].blk
                           /\ page'[mapping[p].obj].discarded = page[mapping[p].obj].discarded
  BY <1>1 DEF Harmless, Pages, Private
<1>3. UNCHANGED <<can, ext, len, map>>
  BY DEF Harmless
<1> QED  BY SMTT(60), <1>2, <1>3 DEF Local, Uses, Published, Attached

LEMMA RestsLocal ==
    ASSUME Types, NEW p \in Thread, Local(p), Harmless(p), mapping'[p] = mapping[p], Rests(p)
    PROVE  Local(p)'
<1>1. /\ mapping'[p] # None => /\ Attached(mapping[p].obj, mapping[p].file)'
                               /\ "truncate" \notin can.ops => len[mapping[p].file]
      /\ th'[p].pc = "idle" /\ th'[p].op = None /\ th'[p].obj = None
      /\ len' = len /\ can' = can
  BY MappingStays DEF Rests, Now, Harmless
<1>2. None \notin {"read", "write", "map", "unmap", "truncate"}
  BY NoneFresh DEF Ops
<1>3. Locked(p)' /\ Released(p)' /\ Steady(p)' /\ Held(p)' /\ Loaded(p)' /\ Fresh(p)' /\ Seen(p)'
  BY <1>1, <1>2 DEF Locked, Released, Steady, Held, Loaded, Fresh, Seen, Pending, Placing, Dealing
<1>4. Uses(p)' /\ Published(p)'
  BY <1>1, <1>2 DEF Uses, Published
<1> QED  BY <1>3, <1>4 DEF Local

\* A thread begins.
LEMMA BeginLocal ==
    ASSUME Types, NEW p \in Thread, Local(p), Harmless(p), mapping'[p] = mapping[p],
           NEW label \in {"look", "wait"}, NEW op \in {"read", "write", "map", "unmap", "truncate"},
           NEW f \in File,
           Now(p, label, op, f, None, None) /\ ~th'[p].fresh,
           label = "look" => op \in {"read", "unmap"},
           op \in {"write", "truncate"} => wlock'[f] = p,
           op \in {"read", "map"} => len[f],
           op = "read" => content[f] \in th'[p].seen
    PROVE  Local(p)'
<1>1. /\ mapping'[p] # None => /\ Attached(mapping[p].obj, mapping[p].file)'
                               /\ "truncate" \notin can.ops => len[mapping[p].file]
      /\ len' = len /\ can' = can /\ content' = content
  BY MappingStays DEF Harmless
<1> USE DEF Now
<1>2. Locked(p)' /\ Seen(p)'
  BY <1>1 DEF Locked, Seen, Placing, Dealing
<1>3. Released(p)' /\ Steady(p)' /\ Held(p)' /\ Loaded(p)' /\ Fresh(p)'
  BY <1>1 DEF Released, Steady, Held, Loaded, Fresh, Pending, Placing, Dealing
<1>4. Uses(p)' /\ Published(p)'
  BY <1>1 DEF Uses, Published
<1> QED  BY <1>2, <1>3, <1>4 DEF Local

\* A thread has found the page of its file.
LEMMA GetsLocal ==
    ASSUME Types, Sound, NEW p \in Thread, Harmless(p), mapping'[p] = mapping[p],
           th[p].op \in {"read", "write", "map"}, th[p].file \in File, wlock' = wlock,
           ext[th[p].file] # None, map[ext[th[p].file]] # None,
           Gets(p, map[ext[th[p].file]]), th[p].seen \subseteq th'[p].seen
    PROVE  Local(p)'
<1> DEFINE f == th[p].file  o == map[ext[f]]
<1>1. /\ mapping'[p] # None => /\ Attached(mapping[p].obj, mapping[p].file)'
                               /\ "truncate" \notin can.ops => len[mapping[p].file]
      /\ UNCHANGED <<can, ext, len, free, map, content>>
      /\ Local(p)
  BY MappingStays DEF Harmless, Sound
<1>2. ext[f] \in Block /\ o \in Page /\ page[o].blk = ext[f]
  BY DEF Types, TypeOK
<1>3. th'[p].pc = "have" /\ th'[p].op = th[p].op /\ th'[p].file = f /\ th'[p].obj = o
  BY DEF Gets, Now
<1>4. f' = f /\ o' = o /\ page'[o].blk = ext[f] /\ \A g \in File : ext[g] = ext[f] => g = f
  BY <1>1, <1>2, <1>3 DEF Harmless, Pages, Private, Sound, Tables, Owners
<1> HIDE DEF f, o
<1>5. Attached(o, f)'
  BY SMTT(60), <1>1, <1>2, <1>4, NoneFresh DEF Attached, o
<1>6. Locked(p)' /\ Seen(p)' /\ Released(p)' /\ Steady(p)' /\ Loaded(p)' /\ Fresh(p)'
  BY <1>1, <1>3 DEF Local, Locked, Seen, Released, Steady, Loaded, Fresh, Pending, Placing, Dealing, f
<1>7. Held(p)'
  BY <1>1, <1>2, <1>4, <1>3 DEF Held, o
<1>8. Uses(p)' /\ Published(p)'
  BY <1>1, <1>2, <1>4, <1>3, <1>5 DEF Local, Uses, Published, f, o
<1> QED  BY <1>6, <1>7, <1>8 DEF Local

-----------------------------------------------------------------------------
(* The steps.                                                              *)

\* Read and fault, write and truncation begin.
LEMMA BeginStep ==
    ASSUME Types, Sound, NEW p \in Thread, Frame(p), Grip(p),
           BeginRead(p) \/ BeginWrite(p) \/ BeginMap(p) \/ BeginUnmap(p) \/ BeginTruncate(p)
    PROVE  Harmless(p) /\ Local(p)'
<1>t. /\ th \in [Thread -> Task] /\ content \in [File -> Int] /\ Local(p)
      /\ (mapping[p] # None => mapping[p].file \in File) /\ wlock \in [File -> Thread \cup {None}]
  BY SMTT(60) DEF Types, TypeOK, Threads, Sound
<1>l. "read" \in Ops /\ "write" \in Ops /\ "map" \in Ops /\ "unmap" \in Ops /\ "truncate" \in Ops
      /\ "look" \in PC /\ "wait" \in PC
  BY DEF Ops, PC
<1>0. ASSUME NEW op \in {"read", "write", "map", "unmap", "truncate"}, NEW f \in File,
             NEW label \in {"look", "wait"}, Start(p, op, f, label), At(p, "idle"),
             label = "look" => op \in {"read", "unmap"},
             \/ op \notin {"write", "truncate"} /\ UNCHANGED wlock
             \/ op \in {"write", "truncate"} /\ wlock[f] = None /\ wlock' = [wlock EXCEPT ![f] = p],
             op \in {"read", "map"} => len[f]
      PROVE  Harmless(p) /\ Local(p)'
  <2>1. op \in Ops /\ label \in PC
    BY <1>l
  <2>2. Now(p, label, op, f, None, None) /\ ~th'[p].fresh /\ content[f] \in th'[p].seen
    BY <1>t, <1>0, <2>1, StartNow
  <2>3. UNCHANGED <<can, ext, len, free, disk, idmap, map, page, mapping, bmlock, mlock, content>>
    BY DEF BeginRead, BeginWrite, BeginMap, BeginUnmap, BeginTruncate, files, locks, ghosts
  <2>4. Mine(p) /\ Writeback /\ Mapped(p)
    BY <1>t, <1>0, <2>3 DEF Mine, Writeback, Device, Mapped
  <2>5. Harmless(p)
    BY <1>0, <2>2, <2>3, <2>4 DEF Harmless, Pages, Values, Device, Writeback, At, Now, Pending, Placing, Dealing
  <2>6. op \in {"write", "truncate"} => wlock'[f] = p
    BY <1>t, <1>0
  <2> QED  BY <1>t, <1>0, <2>2, <2>3, <2>5, <2>6, BeginLocal
<1>1. CASE BeginRead(p)
  <2>1. PICK f \in File : /\ Start(p, "read", f, "look")
                          /\ len[f] /\ UNCHANGED wlock
    BY <1>1 DEF BeginRead, locks
  <2> QED  BY <1>0, <1>1, <2>1 DEF BeginRead
<1>2. CASE BeginMap(p)
  <2>1. PICK f \in File : /\ Start(p, "map", f, "wait")
                          /\ len[f] /\ UNCHANGED wlock
    BY <1>2 DEF BeginMap, locks
  <2> QED  BY <1>0, <1>2, <2>1 DEF BeginMap
<1>3. CASE BeginWrite(p)
  <2>1. PICK f \in File : /\ Start(p, "write", f, "wait")
                          /\ wlock[f] = None /\ wlock' = [wlock EXCEPT ![f] = p]
    BY <1>3 DEF BeginWrite, locks
  <2> QED  BY <1>0, <1>3, <2>1 DEF BeginWrite
<1>4. CASE BeginTruncate(p)
  <2>1. PICK f \in File : /\ Start(p, "truncate", f, "wait")
                          /\ wlock[f] = None /\ wlock' = [wlock EXCEPT ![f] = p]
    BY <1>4 DEF BeginTruncate, locks
  <2> QED  BY <1>0, <1>4, <2>1 DEF BeginTruncate
<1>5. CASE BeginUnmap(p)
  BY <1>t, <1>0, <1>5 DEF BeginUnmap, locks
<1> QED  BY <1>1, <1>2, <1>3, <1>4, <1>5

\* A call ends.
LEMMA EndStep ==
    ASSUME Types, Sound, NEW p \in Thread, Frame(p), Grip(p),
           ReadHole(p) \/ NoSpace(p) \/ Read(p) \/ DropPage(p) \/ TruncateEnd(p)
    PROVE  Harmless(p) /\ Local(p)'
<1>t. /\ th \in [Thread -> Task] /\ th[p] \in Task /\ Shape(th[p]) /\ Local(p)
      /\ wlock \in [File -> Thread \cup {None}] /\ bmlock \in [File -> Thread \cup {None}]
  BY DEF Types, TypeOK, Threads, Sound
<1>1. /\ UNCHANGED <<can, ext, len, free, idmap, map, mapping, mlock, content>>
      /\ th' = [th EXCEPT ![p] = Idle] /\ th[p].pc \in {"extent", "have", "drop", "unlock"}
  BY DEF ReadHole, NoSpace, Read, DropPage, TruncateEnd, files, locks, ghosts, At
<1>2. Rests(p)
  BY <1>t, <1>1, IdleNow
<1>3. Writeback
  <2>1. UNCHANGED <<disk, page>> \/ (th[p].obj # None /\ Synced(th[p].obj))
    BY DEF ReadHole, NoSpace, Read, DropPage, TruncateEnd, Drop
  <2> QED  BY <1>t, <1>1, <2>1, SyncedWriteback DEF Local
<1>4. Mine(p)
  <2>1. TruncateEnd(p) => th[p].file \in File /\ wlock[th[p].file] = p
    BY <1>t DEF TruncateEnd, At, Shape, Task, Local, Locked
  <2>2. UNCHANGED <<wlock, bmlock>> \/ NoSpace(p) \/ TruncateEnd(p)
    BY DEF ReadHole, Read, DropPage, locks
  <2> QED  BY <1>t, <1>1, <2>1, <2>2 DEF NoSpace, TruncateEnd, Unlocked, Mine
<1>5. Harmless(p)
  BY <1>1, <1>2, <1>3, <1>4 DEF Harmless, Pages, Values, Device, Writeback, Mapped, Rests, Now, Pending, Placing, Dealing
<1> QED  BY <1>t, <1>1, <1>2, <1>5, RestsLocal

\* block_map_lock is taken.
LEMMA LockStep ==
    ASSUME Types, Sound, NEW p \in Thread, Frame(p), Grip(p), LockBlockMap(p)
    PROVE  Harmless(p) /\ Local(p)'
<1>t. /\ th \in [Thread -> Task] /\ th[p] \in Task /\ th'[p] \in Task /\ Shape(th[p]) /\ Local(p)
      /\ bmlock \in [File -> Thread \cup {None}]
  BY DEF Types, TypeOK, Threads, Sound, Frame
<1>1. Moved(p, IF th[p].op = "truncate" THEN "cut" ELSE "look") /\ th'[p].seen = th[p].seen
  BY <1>t, GotoNow DEF LockBlockMap, Goto, Task
<1>2. /\ UNCHANGED <<can, ext, len, free, disk, idmap, map, page, mapping, wlock, mlock, content>>
      /\ th[p].pc = "wait" /\ th[p].file \in File /\ bmlock[th[p].file] = None
      /\ bmlock' = [bmlock EXCEPT ![th[p].file] = p]
  BY <1>t DEF LockBlockMap, files, ghosts, At, Shape, Task
<1>3. Mine(p) /\ Writeback /\ Mapped(p)
  BY <1>t, <1>2 DEF Mine, Writeback, Device, Mapped
<1>4. Harmless(p)
  BY <1>1, <1>2, <1>3 DEF Harmless, Pages, Values, Device, Writeback, Moved, Now, Pending, Placing, Dealing
<1>5. Locked(p)'
  BY <1>t, <1>1, <1>2 DEF Local, Locked, Moved, Now, Dealing
<1>6. Released(p)' /\ Steady(p)' /\ Held(p)' /\ Loaded(p)' /\ Fresh(p)' /\ Seen(p)'
  BY <1>t, <1>1, <1>2 DEF Local, Released, Steady, Held, Loaded, Fresh, Seen, Pending, Placing,
     Dealing, Moved, Now
<1>7. Uses(p)' /\ Published(p)'
  BY <1>t, <1>1, <1>2 DEF Local, Uses, Published, Moved, Now, Attached
<1> QED  BY <1>4, <1>5, <1>6, <1>7 DEF Local

\* A thread goes on with the block and the page it has.
LEMMA MovesStep ==
    ASSUME Types, Sound, NEW p \in Thread, Frame(p), NEW label, Goto(p, label), Writeback,
           UNCHANGED <<can, ext, len, free, map, wlock, bmlock, mlock, content>>,
           \A f \in File : idmap'[f] = idmap[f] \/ idmap'[f] = ext[f],
           \/ th[p].pc = "peek" /\ label = "extent"
           \/ th[p].pc = "id" /\ label = "phys"
           \/ th[p].pc = "phys" /\ label = "load"
           \/ th[p].pc = "count" /\ label = "zero" /\ th[p].fresh
           \/ th[p].pc \in {"sync", "have"} /\ label = "drop" /\ th[p].op \in {"sync", "unmap"},
           mapping' = mapping \/ mapping' = [mapping EXCEPT ![p] = None]
    PROVE  Harmless(p) /\ Local(p)'
<1>t. /\ th \in [Thread -> Task] /\ th[p] \in Task /\ Shape(th[p]) /\ Local(p)
      /\ mapping \in [Thread -> [file : File, obj : Page] \cup {None}]
  BY DEF Types, Threads, Sound
<1>m. Moved(p, label) /\ th'[p].seen = th[p].seen
  BY <1>t, GotoNow DEF Goto, Task
<1>1. Mine(p) /\ Mapped(p)
  BY <1>t, <1>m DEF Mine, Mapped
<1>2. Harmless(p)
  BY <1>t, <1>m, <1>1 DEF Harmless, Pages, Values, Device, Writeback, Moved, Now, Pending, Placing, Dealing, Grip, Shape
<1>3. mapping'[p] # None => /\ mapping'[p] = mapping[p]
                            /\ Attached(mapping[p].obj, mapping[p].file)'
                            /\ "truncate" \notin can.ops => len[mapping[p].file]
  BY <1>t, <1>m, <1>2, MappingStays
<1>4. Locked(p)' /\ Seen(p)' /\ Released(p)' /\ Loaded(p)'
  BY <1>t, <1>m DEF Local, Locked, Seen, Released, Loaded, Placing, Dealing, Moved, Now, Shape
<1>5. Steady(p)' /\ Fresh(p)'
  BY <1>t, <1>m DEF Local, Steady, Fresh, Pending, Placing, Moved, Now
<1>6. Held(p)'
  <2>1. th[p].obj # None => th[p].obj \in Page
    BY <1>t, <1>m DEF Task
  <2> QED  BY SMTT(60), <1>t, <1>m, <2>1 DEF Local, Held, Moved, Now, Writeback
<1>7. Uses(p)' /\ Published(p)'
  BY <1>t, <1>m, <1>3 DEF Local, Uses, Published, Moved, Now
<1> QED  BY <1>2, <1>4, <1>5, <1>6, <1>7 DEF Local

LEMMA GoesOnStep ==
    ASSUME Types, Sound, NEW p \in Thread, Frame(p),
           InsertId(p) \/ PhysMiss(p) \/ Sync(p) \/ Unmap(p)
    PROVE  Harmless(p) /\ Local(p)'
<1>t. th[p] \in Task /\ Shape(th[p]) /\ Local(p)
  BY DEF Types, Threads, Sound
<1>1. CASE PhysMiss(p)
  <2>1. Writeback
    BY <1>1 DEF PhysMiss, Writeback, Device
  <2> QED  BY <1>1, <2>1, MovesStep DEF PhysMiss, At, files, locks, ghosts
<1>2. CASE Sync(p)
  <2>1. Writeback
    BY <1>t, <1>2, SyncedWriteback DEF Sync, At, Shape, Local
  <2> QED  BY <1>t, <1>2, <2>1, MovesStep DEF Sync, At, files, locks, ghosts, Shape
<1>3. CASE Unmap(p)
  <2>1. Writeback
    BY <1>t, <1>3, SyncedWriteback DEF Unmap, At, Local
  <2> QED  BY <1>t, <1>3, <2>1, MovesStep DEF Unmap, At, files, locks, ghosts
<1>4. CASE InsertId(p)
  <2>1. Writeback
    BY <1>4 DEF InsertId, Writeback, Device
  <2>2. \A f \in File : idmap'[f] = idmap[f] \/ idmap'[f] = ext[f]
    BY <1>t, <1>4 DEF InsertId, At, Types, TypeOK, Local, Steady, Placing
  <2> QED  BY <1>4, <2>1, <2>2, MovesStep DEF InsertId, At, files, locks, ghosts
<1> QED  BY <1>1, <1>2, <1>3, <1>4

\* sync_all takes a page from the table.
LEMMA BeginSyncStep ==
    ASSUME Types, Sound, NEW p \in Thread, Frame(p), Grip(p), BeginSync(p)
    PROVE  Harmless(p) /\ Local(p)'
<1>t. /\ th \in [Thread -> Task] /\ Local(p) /\ map \in [Block -> Page \cup {None}]
      /\ \A b \in Block : map[b] # None => page[map[b]].blk = b
  BY DEF Types, TypeOK, Threads, Sound
<1>1. PICK b \in Block : /\ map[b] # None
                         /\ th' = [th EXCEPT ![p] = Doing("sync", "sync", None, b, map[b], {})]
  BY DEF BeginSync
<1>2. Now(p, "sync", "sync", None, b, map[b]) /\ ~th'[p].fresh
  BY <1>t, <1>1, TakeNow DEF Ops, PC
<1>3. /\ UNCHANGED <<can, ext, len, free, disk, idmap, map, page, mapping, wlock, bmlock, mlock, content>>
      /\ th[p].pc = "idle"
  BY DEF BeginSync, files, locks, ghosts, At
<1>4. Harmless(p)
  BY <1>2, <1>3 DEF Harmless, Pages, Values, Device, Writeback, Mine, Mapped, Now, Pending, Placing, Dealing
<1>5. mapping'[p] # None => /\ Attached(mapping[p].obj, mapping[p].file)'
                            /\ "truncate" \notin can.ops => len[mapping[p].file]
  BY <1>t, <1>3, <1>4, MappingStays
<1>6. Locked(p)' /\ Released(p)' /\ Steady(p)' /\ Loaded(p)' /\ Fresh(p)' /\ Seen(p)'
  BY <1>2 DEF Now, Locked, Released, Steady, Loaded, Fresh, Seen, Pending, Placing, Dealing
<1>7. Held(p)'
  BY <1>t, <1>1, <1>2, <1>3 DEF Now, Held
<1>8. Uses(p)' /\ Published(p)'
  BY <1>2, <1>3, <1>5 DEF Now, Uses, Published
<1> QED  BY <1>4, <1>6, <1>7, <1>8 DEF Local

\* A fault ends with the page in the address space.
LEMMA MapStep ==
    ASSUME Types, Sound, NEW p \in Thread, Frame(p), Grip(p), Map(p)
    PROVE  Harmless(p) /\ Local(p)'
<1>t. /\ th \in [Thread -> Task] /\ th[p] \in Task /\ Shape(th[p]) /\ Local(p)
      /\ mapping \in [Thread -> [file : File, obj : Page] \cup {None}]
  BY DEF Types, TypeOK, Threads, Sound
<1>1. /\ UNCHANGED <<can, ext, len, free, idmap, map, wlock, bmlock, mlock, content>>
      /\ th[p].pc = "have" /\ th[p].op = "map" /\ th[p].file \in File /\ th[p].obj \in Page
      /\ mapping' = [mapping EXCEPT ![p] = [file |-> th[p].file, obj |-> th[p].obj]]
  BY <1>t DEF Map, files, locks, ghosts, At, Shape, Task
<1>2. Rests(p)
  BY <1>t, IdleNow DEF Map
<1>3. Writeback
  BY <1>t, <1>1, SyncedWriteback DEF Map, Drop, Local
<1>4. mapping'[p].file = th[p].file /\ mapping'[p].obj = th[p].obj
  BY <1>t, <1>1
<1>5. Harmless(p)
  BY <1>t, <1>1, <1>2, <1>3, <1>4 DEF Harmless, Pages, Values, Device, Writeback, Mine, Mapped, Rests, Now, Pending, Placing, Dealing
<1>6. ASSUME NEW f, f = th[p].file, NEW o \in Page, o = th[p].obj
      PROVE  Attached(o, f)' /\ ("truncate" \notin can.ops => len[f])
  <2>1. Attached(o, f)
    BY <1>t, <1>1, <1>6 DEF Local, Uses
  <2> QED  BY <1>t, <1>1, <1>3, <1>6, <2>1 DEF Attached, Writeback, Local, Published
<1>7. Attached(mapping[p].obj, mapping[p].file)' /\ ("truncate" \notin can.ops => len[th[p].file])
  BY <1>1, <1>4, <1>6
<1>8. None \notin {"read", "write", "map", "unmap", "truncate"}
  BY NoneFresh DEF Ops
<1>9. Locked(p)' /\ Released(p)' /\ Steady(p)' /\ Held(p)' /\ Loaded(p)' /\ Fresh(p)' /\ Seen(p)'
  BY <1>2, <1>8 DEF Rests, Now, Locked, Released, Steady, Held, Loaded, Fresh, Seen, Pending,
     Placing, Dealing
<1>10. Uses(p)' /\ Published(p)'
  BY <1>1, <1>2, <1>4, <1>7, <1>8 DEF Rests, Now, Uses, Published
<1> QED  BY <1>5, <1>9, <1>10 DEF Local

\* The block in page_cache_id_map is that of the extent, for nobody who could
\* be looking truncates the file.
LEMMA IndexHolds ==
    ASSUME Types, Sound, Orderly, NEW p \in Thread, th[p].pc = "look",
           th[p].op \in {"read", "write", "map"}, idmap[th[p].file] # None
    PROVE  idmap[th[p].file] = ext[th[p].file]
<1>t. th[p] \in Task /\ Shape(th[p]) /\ th[p].file \in File
  BY DEF Types, Threads, Shape, Task
<1>1. ASSUME NEW q \in Thread, th[q].pc \in Dealing, th[q].file = th[p].file PROVE FALSE
  <2>1. Shape(th[q]) /\ Local(p) /\ Local(q)
    BY DEF Types, Threads, Sound
  <2>2. "truncate" \in can.ops /\ bmlock[th[p].file] = q
    BY <1>1, <2>1 DEF Shape, Local, Locked, Dealing
  <2>3. th[p].op # "read"
    BY <1>t, <2>2 DEF Orderly, Shape
  <2>4. bmlock[th[p].file] = p
    BY <2>1, <2>3 DEF Local, Locked
  <2> QED  BY <1>1, <2>2, <2>4 DEF Dealing
<1> QED  BY <1>t, <1>1 DEF Sound, Tables, Index

LEMMA LookStep ==
    ASSUME Types, Sound, Orderly, NEW p \in Thread, Frame(p), Grip(p), Look(p)
    PROVE  Harmless(p) /\ Local(p)'
<1>t. th \in [Thread -> Task] /\ th[p] \in Task /\ Shape(th[p]) /\ Local(p)
  BY DEF Types, TypeOK, Threads, Sound
<1>1. /\ UNCHANGED <<can, ext, len, free, disk, idmap, map, page, mapping, wlock, bmlock, mlock, content>>
      /\ th[p].pc = "look" /\ th[p].op \in {"read", "write", "map", "unmap"}
      /\ ~th[p].fresh /\ th'[p].seen = th[p].seen
  BY <1>t DEF Look, files, locks, ghosts, At, Shape, Placing, Task
<1>2. /\ th'[p].op = th[p].op /\ th'[p].file = th[p].file /\ th'[p].obj = th[p].obj
      /\ th'[p].fresh = th[p].fresh /\ th'[p].blk = idmap[th[p].file]
      /\ th'[p].pc = IF idmap[th[p].file] # None THEN "peek"
                     ELSE IF th[p].op = "unmap" THEN "have" ELSE "extent"
  BY <1>t, LookNow DEF Now
<1>3. Harmless(p)
  BY <1>1, <1>2 DEF Harmless, Pages, Values, Device, Writeback, Mine, Mapped, Pending, Placing, Dealing
<1>4. mapping'[p] # None => /\ Attached(mapping[p].obj, mapping[p].file)'
                            /\ "truncate" \notin can.ops => len[mapping[p].file]
  BY <1>t, <1>1, <1>3, MappingStays
<1>5. Steady(p)'
  BY <1>1, <1>2, IndexHolds DEF Steady, Placing
<1>6. Locked(p)' /\ Released(p)' /\ Loaded(p)' /\ Fresh(p)' /\ Seen(p)'
  BY <1>t, <1>1, <1>2 DEF Local, Locked, Released, Loaded, Fresh, Seen, Pending, Placing, Dealing
<1>7. Held(p)'
  BY <1>t, <1>1, <1>2 DEF Local, Held
<1>8. Uses(p)' /\ Published(p)'
  BY <1>t, <1>1, <1>2, <1>4 DEF Local, Uses, Published
<1> QED  BY <1>3, <1>5, <1>6, <1>7, <1>8 DEF Local

\* A thread that finds a page in the table.
LEMMA FindStep ==
    ASSUME Types, Sound, NEW p \in Thread, Frame(p), Grip(p),
           UNCHANGED <<can, ext, len, free, disk, idmap, map, page, mapping, wlock, mlock, content>>,
           th[p].op \in {"read", "write", "map"},
           \/ th[p].pc \in {"peek", "phys"} /\ map[th[p].blk] # None /\ Found(p, map[th[p].blk])
           \/ th[p].pc = "count" /\ Found(p, th[p].obj) /\ ~th[p].fresh
    PROVE  Harmless(p) /\ Local(p)'
<1>t. /\ th \in [Thread -> Task] /\ th[p] \in Task /\ Shape(th[p]) /\ Local(p)
      /\ bmlock \in [File -> Thread \cup {None}] /\ th[p].file \in File
  BY DEF Types, TypeOK, Threads, Sound, Shape, Task
<1>1. th[p].blk # None /\ th[p].blk = ext[th[p].file] /\ ~Pending(p)
  BY <1>t DEF Local, Steady, Shape, Placing, Fresh, Pending
<1>2. Gets(p, map[ext[th[p].file]]) /\ map[ext[th[p].file]] # None /\ th'[p].seen = th[p].seen
  <2>1. CASE th[p].pc = "count"
    <3>1. map[ext[th[p].file]] = th[p].obj /\ th[p].obj # None
      BY <1>t, <1>1, <2>1 DEF Local, Held, Shape
    <3> QED  BY SMTT(60), <1>t, <2>1, <3>1, FoundNow DEF Found, Task
  <2>2. CASE th[p].pc # "count"
    BY SMTT(60), <1>t, <1>1, <2>2, FoundNow DEF Found, Task
  <2> QED  BY <2>1, <2>2
<1>3. Mine(p)
  BY <1>t DEF Mine, Found, Unlocked
<1>4. Harmless(p)
  BY <1>1, <1>2, <1>3 DEF Harmless, Pages, Values, Device, Mapped, Writeback, Gets, Now, Dealing
<1> QED  BY <1>t, <1>1, <1>2, <1>4, GetsLocal

LEMMA FoundStep ==
    ASSUME Types, Sound, NEW p \in Thread, Frame(p), Grip(p), Peek(p) \/ PhysHit(p) \/ Count(p)
    PROVE  Harmless(p) /\ Local(p)'
<1>t. th \in [Thread -> Task] /\ th[p] \in Task /\ Shape(th[p]) /\ Local(p)
  BY DEF Types, TypeOK, Threads, Sound
<1>u. /\ UNCHANGED <<can, ext, len, free, disk, idmap, map, page, mapping, wlock, mlock, content>>
      /\ Writeback
  BY DEF Peek, PhysHit, Count, files, ghosts, Writeback, Device
<1>PhysHit. CASE PhysHit(p)
  BY <1>t, <1>u, <1>PhysHit, FindStep DEF PhysHit, At, Shape, Placing
<1>Count. CASE Count(p)
  <2>1. CASE th[p].fresh
    BY <1>t, <1>u, <1>Count, <2>1, MovesStep DEF Count, At
  <2>2. CASE ~th[p].fresh
    BY <1>t, <1>u, <1>Count, <2>2, FindStep DEF Count, At, Shape, Placing
  <2> QED  BY <2>1, <2>2
<1>Peek. CASE Peek(p)
  <2>1. CASE th[p].op # "unmap" /\ map[th[p].blk] # None
    BY <1>t, <1>u, <1>Peek, <2>1, FindStep DEF Peek, At, Shape
  <2>2. CASE th[p].op # "unmap" /\ map[th[p].blk] = None
    BY <1>t, <1>u, <1>Peek, <2>2, MovesStep DEF Peek, At
  <2>3. CASE th[p].op = "unmap"
    <3>1. Gets(p, map[th[p].blk]) /\ th[p].blk \in Block /\ th[p].pc = "peek" /\ ~th[p].fresh
      BY <1>t, <1>Peek, <2>3, FoundNow DEF Peek, At, Shape, Task, Placing
    <3>2. Harmless(p)
      BY SMTT(60), <1>u, <1>Peek, <2>3, <3>1 DEF Harmless, Pages, Values, Device, Writeback, Mine, Mapped, Gets, Now, Dealing, Pending, Placing,
         Peek, Found, Unlocked, Types, TypeOK
    <3>3. mapping'[p] # None => /\ Attached(mapping[p].obj, mapping[p].file)'
                                /\ "truncate" \notin can.ops => len[mapping[p].file]
      BY <1>t, <1>u, <3>2, MappingStays
    <3>4. Locked(p)' /\ Released(p)' /\ Steady(p)' /\ Loaded(p)' /\ Fresh(p)' /\ Seen(p)'
      BY <2>3, <3>1 DEF Gets, Now, Locked, Released, Steady, Loaded, Fresh, Seen, Pending, Placing, Dealing
    <3>5. Held(p)'
      BY <1>u, <3>1 DEF Gets, Now, Held, Types, TypeOK
    <3>6. Uses(p)' /\ Published(p)'
      BY <1>u, <2>3, <3>1, <3>3 DEF Gets, Now, Uses, Published
    <3> QED  BY <3>2, <3>4, <3>5, <3>6 DEF Local
  <2> QED  BY <2>1, <2>2, <2>3
<1> QED  BY <1>PhysHit, <1>Count, <1>Peek

\* The extent has a block.
LEMMA ExtentStep ==
    ASSUME Types, Sound, NEW p \in Thread, Frame(p), Grip(p), ExtentHit(p)
    PROVE  Harmless(p) /\ Local(p)'
<1>t. th \in [Thread -> Task] /\ th[p] \in Task /\ Shape(th[p]) /\ Local(p)
  BY DEF Types, TypeOK, Threads, Sound
<1>1. /\ UNCHANGED <<can, ext, len, free, disk, idmap, map, page, mapping, wlock, bmlock, mlock, content>>
      /\ th[p].pc = "extent" /\ th[p].op \in {"read", "write", "map"}
      /\ ~th[p].fresh /\ th'[p].seen = th[p].seen
  BY <1>t DEF ExtentHit, files, locks, ghosts, At, Shape, Placing, Task
<1>2. Now(p, "id", th[p].op, th[p].file, ext[th[p].file], th[p].obj) /\ th'[p].fresh = th[p].fresh
  BY <1>t, BlockNow DEF ExtentHit, Task
<1>3. Harmless(p)
  BY <1>1, <1>2 DEF Now, Harmless, Pages, Values, Device, Writeback, Mine, Mapped, Pending, Placing, Dealing
<1>4. mapping'[p] # None => /\ Attached(mapping[p].obj, mapping[p].file)'
                            /\ "truncate" \notin can.ops => len[mapping[p].file]
  BY <1>t, <1>1, <1>3, MappingStays
<1>5. Locked(p)' /\ Released(p)' /\ Steady(p)' /\ Loaded(p)' /\ Fresh(p)' /\ Seen(p)'
  BY <1>t, <1>1, <1>2 DEF Now, Local, Locked, Released, Steady, Loaded, Fresh, Seen, Pending, Placing,
     Dealing
<1>6. Held(p)'
  BY <1>t, <1>1, <1>2 DEF Now, Local, Held
<1>7. Uses(p)' /\ Published(p)'
  BY <1>t, <1>1, <1>2, <1>4 DEF Now, Local, Uses, Published
<1> QED  BY <1>3, <1>5, <1>6, <1>7 DEF Local

\* A page is read from the device before anyone can see it.
LEMMA LoadStep ==
    ASSUME Types, Sound, NEW p \in Thread, Frame(p), Load(p)
    PROVE  Harmless(p) /\ Local(p)'
<1>t. /\ th \in [Thread -> Task] /\ th[p] \in Task /\ Shape(th[p]) /\ Local(p)
      /\ page \in [Page -> [blk : Block \cup {None}, val : 0 .. can.writes, dirty : BOOLEAN,
                            discarded : BOOLEAN]]
  BY DEF Types, TypeOK, Threads, Sound
<1>1. PICK o \in Page :
        /\ Holders(o) = {} /\ ~Listed(o) /\ ~FrameMapped(o)
        /\ page' = [page EXCEPT ![o] = [blk |-> th[p].blk,
                                        val |-> IF th[p].fresh THEN 0 ELSE disk[th[p].blk],
                                        dirty |-> th[p].fresh, discarded |-> FALSE]]
        /\ th' = [th EXCEPT ![p].obj = o, ![p].pc = "insert"]
  BY DEF Load
<1>2. /\ UNCHANGED <<can, ext, len, free, disk, idmap, map, mapping, wlock, bmlock, mlock, content>>
      /\ th[p].pc = "load" /\ th[p].op \in {"read", "write", "map"}
  BY <1>t DEF Load, files, locks, ghosts, At, Shape, Placing
<1>3. Now(p, "insert", th[p].op, th[p].file, th[p].blk, o) /\ th'[p].fresh = th[p].fresh /\ th'[p].seen = th[p].seen
  BY <1>t, <1>1, LoadNow DEF Task
<1>4. Private(p, o)
  BY <1>1, Unheld DEF Private, FrameMapped
<1>5. /\ \A x \in Page \ {o} : page'[x] = page[x]
      /\ page'[o].val = (IF th[p].fresh THEN 0 ELSE disk[th[p].blk]) /\ ~page'[o].discarded
  BY <1>t, <1>1
<1>6. Pages(p) /\ Values(p)
  BY <1>4, <1>5 DEF Pages, Values
<1>7. Harmless(p)
  BY <1>2, <1>3, <1>4, <1>6 DEF Harmless, Mine, Mapped, Device, Now, Pending, Placing, Dealing
<1>8. mapping'[p] # None => /\ Attached(mapping[p].obj, mapping[p].file)'
                            /\ "truncate" \notin can.ops => len[mapping[p].file]
  BY <1>t, <1>2, <1>7, MappingStays
<1>9. Locked(p)' /\ Released(p)' /\ Steady(p)' /\ Held(p)' /\ Fresh(p)' /\ Seen(p)'
  BY <1>t, <1>2, <1>3 DEF Now, Local, Locked, Released, Steady, Held, Fresh, Seen, Pending, Placing,
     Dealing
<1>10. Loaded(p)'
  BY SMTT(60), <1>2, <1>3, <1>4, <1>5 DEF Now, Loaded, Private, Frame, Same
<1>11. Uses(p)' /\ Published(p)'
  BY <1>t, <1>2, <1>3, <1>8 DEF Now, Local, Uses, Published
<1> QED  BY <1>7, <1>9, <1>10, <1>11 DEF Local

\* Another thread was faster: the own page was never seen by anyone.
LEMMA InsertLateStep ==
    ASSUME Types, Sound, NEW p \in Thread, Frame(p), Grip(p), InsertLate(p)
    PROVE  Harmless(p) /\ Local(p)'
<1>t. /\ th \in [Thread -> Task] /\ th[p] \in Task /\ Shape(th[p]) /\ Local(p)
      /\ page \in [Page -> [blk : Block \cup {None}, val : 0 .. can.writes, dirty : BOOLEAN,
                            discarded : BOOLEAN]]
      /\ bmlock \in [File -> Thread \cup {None}]
  BY DEF Types, TypeOK, Threads, Sound
<1>1. /\ UNCHANGED <<can, ext, len, free, disk, idmap, map, mapping, wlock, mlock, content>>
      /\ th[p].pc = "insert" /\ th[p].op \in {"read", "write", "map"} /\ map[th[p].blk] # None
      /\ th[p].file \in File
  BY <1>t DEF InsertLate, files, ghosts, At, Shape, Placing, Task
<1>2. th[p].blk # None /\ th[p].blk = ext[th[p].file] /\ ~Pending(p) /\ Private(p, th[p].obj)
  BY <1>t, <1>1 DEF Local, Steady, Shape, Placing, Fresh, Pending, Loaded, Private
<1>3. Gets(p, map[ext[th[p].file]]) /\ th'[p].seen = th[p].seen
  BY <1>t, <1>1, <1>2, FoundNow DEF InsertLate, Found, Task
<1>4. Mine(p)
  BY <1>t, <1>1 DEF Mine, InsertLate, Found, Unlocked
<1>5. Pages(p) /\ Values(p)
  BY <1>t, <1>2 DEF Pages, Values, InsertLate
<1>6. Harmless(p)
  BY <1>1, <1>2, <1>3, <1>4, <1>5 DEF Harmless, Mapped, Device, Gets, Now, Dealing
<1> QED  BY <1>t, <1>1, <1>2, <1>3, <1>6, GetsLocal

\* The file pages that led to a block are forgotten.
LEMMA DeallocEndStep ==
    ASSUME Types, Sound, NEW p \in Thread, Frame(p), Grip(p), DeallocEnd(p)
    PROVE  Harmless(p) /\ Local(p)'
<1>t. /\ th \in [Thread -> Task] /\ th[p] \in Task /\ Shape(th[p]) /\ Local(p)
      /\ Moved(p, "unlock") /\ th'[p].seen = th[p].seen
  <2>1. th \in [Thread -> Task] /\ th[p] \in Task /\ Shape(th[p]) /\ Local(p)
    BY DEF Types, Threads, Sound
  <2> QED  BY <2>1, GotoNow DEF DeallocEnd, Goto, Task
<1>1. /\ UNCHANGED <<can, ext, len, free, disk, map, page, mapping, wlock, bmlock, content>>
      /\ th[p].pc = "forget" /\ th[p].op = "truncate" /\ th[p].blk # None /\ mlock = p
  BY <1>t DEF DeallocEnd, files, ghosts, At, Shape, Dealing, Local, Locked
<1>2. \A f \in File : idmap'[f] # th[p].blk /\ (idmap'[f] = idmap[f] \/ idmap'[f] = None)
  BY <1>1 DEF DeallocEnd, Forget
<1>3. Harmless(p)
  BY <1>t, <1>1, <1>2 DEF Harmless, Mine, Mapped, Pages, Values, Device, Moved, Now, Pending, Placing,
     Dealing
<1>4. mapping'[p] # None => /\ Attached(mapping[p].obj, mapping[p].file)'
                            /\ "truncate" \notin can.ops => len[mapping[p].file]
  BY <1>t, <1>1, <1>3, MappingStays
<1>5. Locked(p)' /\ Released(p)' /\ Steady(p)' /\ Loaded(p)' /\ Fresh(p)' /\ Seen(p)'
  BY <1>t, <1>1 DEF Moved, Now, Local, Locked, Released, Steady, Loaded, Fresh, Seen, Pending, Placing,
     Dealing
<1>6. Held(p)'
  BY <1>t, <1>1 DEF Moved, Now, Local, Held
<1>7. Uses(p)' /\ Published(p)'
  BY <1>t, <1>1, <1>4 DEF Moved, Now, Local, Uses, Published
<1> QED  BY <1>3, <1>5, <1>6, <1>7 DEF Local
=============================================================================
