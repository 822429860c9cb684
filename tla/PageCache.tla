------------------------------ MODULE PageCache ------------------------------
(***************************************************************************)
(* The page cache (drivers/block/cache.rs) under the ext4 files that use   *)
(* it (ext4fs/vfs.rs, ext4fs/ext4inode.rs, ext4fs/ext4.rs).                *)
(*                                                                         *)
(* A file here is one page.  Its extent gives the physical block.  The     *)
(* manager has two tables under two locks: page_cache_id_map, from a file  *)
(* page to a block, and page_cache_map, from a block to a cached page.  A  *)
(* cached page is an Arc: it lives while the table or a thread holds it,   *)
(* and its destructor writes it back.  Its frame may also be mapped into   *)
(* an address space.  Every critical section is one step; reads take no    *)
(* lock of the file, writes and truncation take write_lock, and            *)
(* block_map_lock covers the lookup or allocation of a page for writing.   *)
(*                                                                         *)
(* Contents are version numbers, 0 a page of zeroes.                       *)
(***************************************************************************)
EXTENDS Integers

CONSTANTS Thread, File, Block, Page,
          None,
          Scenes     \* what the threads do: records with the operations they
                     \* perform, a bound on the number of writes, and
                     \* whether the disk is full

Ops == {"read", "write", "map", "unmap", "truncate", "evict", "sync"}

ASSUME NoneFresh == None \notin Thread \cup File \cup Block \cup Page \cup Ops
ASSUME SceneTypes == Scenes \subseteq [ops : SUBSET Ops, writes : Nat, full : BOOLEAN]

VARIABLES can,      \* the scene of this behaviour
          ext,      \* ext[f]: the block of the file in its extent tree
          len,      \* len[f]: whether the file's published size covers its page
          free,     \* the blocks that are clear in the bitmap
          disk,     \* disk[b]: the contents on the device
          idmap,    \* page_cache_id_map: file page to block
          map,      \* page_cache_map: block to cached page
          page,     \* the cached pages
          count,    \* data_count
          mapping,  \* mapping[p]: the file and frame in the address space of p
          wlock, bmlock, mlock,  \* write_lock, block_map_lock, metadata_lock
          th,       \* th[p]: what thread p is doing
          content,  \* history: content[f], what the file should contain
          ver       \* the last version written

vars == <<can, ext, len, free, disk, idmap, map, page, count, mapping, wlock, bmlock, mlock, th,
          content, ver>>
files == <<ext, len, free>>
locks == <<wlock, bmlock, mlock>>
ghosts == <<content, ver>>

Doing(label, op, f, b, o, seen) ==
    [pc |-> label, op |-> op, file |-> f, blk |-> b, obj |-> o, fresh |-> FALSE, seen |-> seen]
Idle == Doing("idle", None, None, None, None, {})

Init == /\ can \in Scenes
        /\ ext \in [File -> Block \cup {None}]
        /\ \A f, g \in File : f # g /\ ext[f] # None => ext[f] # ext[g]
        /\ len = [f \in File |-> ext[f] # None]
        /\ free = IF can.full THEN {} ELSE Block \ {ext[f] : f \in File}
        /\ disk = [b \in Block |-> 0]
        /\ idmap = [f \in File |-> None]
        /\ map = [b \in Block |-> None]
        /\ page = [o \in Page |-> [blk |-> None, val |-> 0, dirty |-> FALSE, discarded |-> FALSE]]
        /\ count = 0
        /\ mapping = [p \in Thread |-> None]
        /\ wlock = [f \in File |-> None] /\ bmlock = [f \in File |-> None] /\ mlock = None
        /\ th = [p \in Thread |-> Idle]
        /\ content = [f \in File |-> 0]
        /\ ver = 0

(* What Arc::strong_count of a cached page counts: the threads that hold   *)
(* it and the table that lists it.  And whether its frame is mapped.       *)
Holders(o) == {p \in Thread : th[p].obj = o}
Listed(o) == \E b \in Block : map[b] = o
FrameMapped(o) == \E p \in Thread : mapping[p] # None /\ mapping[p].obj = o

Goto(p, label) == th' = [th EXCEPT ![p].pc = label]
At(p, label) == th[p].pc = label

(* PageCache::sync under the page's lock: dirty contents go to the device. *)
Synced(o) == IF page[o].dirty /\ ~page[o].discarded
             THEN /\ disk' = [disk EXCEPT ![page[o].blk] = page[o].val]
                  /\ page' = [page EXCEPT ![o].dirty = FALSE]
             ELSE UNCHANGED <<disk, page>>

(* Thread p lets go of its page: the last reference runs the destructor.   *)
Drop(p) == IF th[p].obj # None /\ Holders(th[p].obj) = {p} /\ ~Listed(th[p].obj)
           THEN Synced(th[p].obj) ELSE UNCHANGED <<disk, page>>

(* File f has new contents, which a read under way may or may not see.     *)
Contents(f, v, threads) ==
    /\ content' = [content EXCEPT ![f] = v]
    /\ th' = [q \in Thread |-> IF threads[q].file = f
                               THEN [threads[q] EXCEPT !.seen = @ \cup {v}] ELSE threads[q]]

-----------------------------------------------------------------------------
(* Finding the page of a file: get_cached_file_page, get_shared_page,      *)
(* get_page_cache, get_new_page_cache and get_physical_page.               *)

Start(p, op, f, label) ==
    th' = [th EXCEPT ![p] = Doing(label, op, f, None, None, {content[f]})]

(* read_at: the page must lie below the published size.                    *)
BeginRead(p) ==
    /\ "read" \in can.ops /\ At(p, "idle")
    /\ \E f \in File : len[f] /\ Start(p, "read", f, "look")
    /\ UNCHANGED <<can, files, disk, idmap, map, page, count, mapping, locks, ghosts>>

(* write_at: write_lock is held to the end.                                *)
BeginWrite(p) ==
    /\ "write" \in can.ops /\ At(p, "idle") /\ ver < can.writes
    /\ \E f \in File :
        /\ wlock[f] = None
        /\ wlock' = [wlock EXCEPT ![f] = p]
        /\ Start(p, "write", f, "wait")
    /\ UNCHANGED <<can, files, disk, idmap, map, page, count, mapping, bmlock, mlock, ghosts>>

(* The first access to a page of a shared file mapping.                    *)
BeginMap(p) ==
    /\ "map" \in can.ops /\ At(p, "idle") /\ mapping[p] = None
    /\ \E f \in File : len[f] /\ Start(p, "map", f, "wait")
    /\ UNCHANGED <<can, files, disk, idmap, map, page, count, mapping, locks, ghosts>>

(* unmap_one of a shared file page: write_back_page_cache comes first.     *)
BeginUnmap(p) ==
    /\ At(p, "idle") /\ mapping[p] # None
    /\ Start(p, "unmap", mapping[p].file, "look")
    /\ UNCHANGED <<can, files, disk, idmap, map, page, count, mapping, locks, ghosts>>

(* get_shared_page runs under block_map_lock.                              *)
LockBlockMap(p) ==
    LET f == th[p].file IN
    /\ At(p, "wait")
    /\ bmlock[f] = None
    /\ bmlock' = [bmlock EXCEPT ![f] = p]
    /\ Goto(p, IF th[p].op = "truncate" THEN "cut" ELSE "look")
    /\ UNCHANGED <<can, files, disk, idmap, map, page, count, mapping, wlock, mlock, ghosts>>

(* get_cached_file_page: first one table, then, unlocked, the other.       *)
Look(p) ==
    /\ At(p, "look")
    /\ th' = [th EXCEPT ![p].blk = idmap[th[p].file],
                        ![p].pc = IF idmap[th[p].file] # None THEN "peek"
                                  ELSE IF th[p].op = "unmap" THEN "have" ELSE "extent"]
    /\ UNCHANGED <<can, files, disk, idmap, map, page, count, mapping, locks, ghosts>>

Unlocked(p) == bmlock' = [f \in File |-> IF bmlock[f] = p THEN None ELSE bmlock[f]]

(* A page is found; get_shared_page returns and releases block_map_lock.   *)
Found(p, o) ==
    /\ th' = [th EXCEPT ![p].obj = o, ![p].pc = "have"]
    /\ Unlocked(p)

Peek(p) ==
    LET o == map[th[p].blk] IN
    /\ At(p, "peek")
    /\ IF o # None \/ th[p].op = "unmap" THEN Found(p, o)
       ELSE Goto(p, "extent") /\ UNCHANGED bmlock
    /\ UNCHANGED <<can, files, disk, idmap, map, page, count, mapping, wlock, mlock, ghosts>>

(* The extent has a block.                                                 *)
ExtentHit(p) ==
    LET b == ext[th[p].file] IN
    /\ At(p, "extent") /\ b # None
    /\ th' = [th EXCEPT ![p].blk = b, ![p].pc = "id"]
    /\ UNCHANGED <<can, files, disk, idmap, map, page, count, mapping, locks, ghosts>>

(* A hole: a read returns zeroes.                                          *)
ReadHole(p) ==
    /\ At(p, "extent") /\ ext[th[p].file] = None /\ th[p].op = "read"
    /\ th' = [th EXCEPT ![p] = Idle]
    /\ UNCHANGED <<can, files, disk, idmap, map, page, count, mapping, locks, ghosts>>

(* A hole: a write or a fault allocates a block, under metadata_lock.      *)
Allocate(p) ==
    LET f == th[p].file IN
    /\ At(p, "extent") /\ ext[f] = None /\ th[p].op # "read"
    /\ mlock = None
    /\ \E b \in free :
        /\ free' = free \ {b}
        /\ ext' = [ext EXCEPT ![f] = b]
        /\ th' = [th EXCEPT ![p].blk = b, ![p].fresh = TRUE, ![p].pc = "id"]
    /\ UNCHANGED <<can, len, disk, idmap, map, page, count, mapping, locks, ghosts>>

(* No block is left: the write or the fault fails.                         *)
NoSpace(p) ==
    /\ At(p, "extent") /\ ext[th[p].file] = None /\ th[p].op # "read"
    /\ mlock = None /\ free = {}
    /\ th' = [th EXCEPT ![p] = Idle]
    /\ Unlocked(p)
    /\ wlock' = [f \in File |-> IF wlock[f] = p THEN None ELSE wlock[f]]
    /\ UNCHANGED <<can, files, disk, idmap, map, page, count, mapping, mlock, ghosts>>

InsertId(p) ==
    /\ At(p, "id")
    /\ idmap' = [idmap EXCEPT ![th[p].file] = th[p].blk]
    /\ Goto(p, "phys")
    /\ UNCHANGED <<can, files, disk, map, page, count, mapping, locks, ghosts>>

(* get_physical_page: the page is there ...                                *)
PhysHit(p) ==
    /\ At(p, "phys") /\ map[th[p].blk] # None
    /\ Found(p, map[th[p].blk])
    /\ UNCHANGED <<can, files, disk, idmap, map, page, count, mapping, wlock, mlock, ghosts>>

PhysMiss(p) ==
    /\ At(p, "phys") /\ map[th[p].blk] = None
    /\ Goto(p, "load")
    /\ UNCHANGED <<can, files, disk, idmap, map, page, count, mapping, locks, ghosts>>

(* ... or is read from the device, or zeroed, before anyone can see it.    *)
Load(p) ==
    LET b == th[p].blk IN
    /\ At(p, "load")
    /\ \E o \in Page :
        /\ Holders(o) = {} /\ ~Listed(o) /\ ~FrameMapped(o)
        /\ page' = [page EXCEPT ![o] = [blk |-> b, val |-> IF th[p].fresh THEN 0 ELSE disk[b],
                                        dirty |-> th[p].fresh, discarded |-> FALSE]]
        /\ th' = [th EXCEPT ![p].obj = o, ![p].pc = "insert"]
    /\ UNCHANGED <<can, files, disk, idmap, map, count, mapping, locks, ghosts>>

(* Mutant: the table is not looked at again under the write lock.          *)
InsertBlind(p) ==
    /\ At(p, "insert")
    /\ map' = [map EXCEPT ![th[p].blk] = th[p].obj]
    /\ Goto(p, "count")
    /\ UNCHANGED <<can, files, disk, idmap, page, count, mapping, locks, ghosts>>

Insert(p) ==
    /\ At(p, "insert") /\ map[th[p].blk] = None
    /\ map' = [map EXCEPT ![th[p].blk] = th[p].obj]
    /\ Goto(p, "count")
    /\ UNCHANGED <<can, files, disk, idmap, page, count, mapping, locks, ghosts>>

(* Another thread was faster: its page is used, the own one is dropped.    *)
InsertLate(p) ==
    /\ At(p, "insert") /\ map[th[p].blk] # None
    /\ page' = [page EXCEPT ![th[p].obj].discarded = TRUE]
    /\ Found(p, map[th[p].blk])
    /\ UNCHANGED <<can, files, disk, idmap, map, count, mapping, wlock, mlock, ghosts>>

(* The counter follows the table; get_new_page_cache then zeroes the page  *)
(* it created once more.                                                   *)
Count(p) ==
    /\ At(p, "count")
    /\ count' = count + 1
    /\ IF th[p].fresh THEN Goto(p, "zero") /\ UNCHANGED bmlock ELSE Found(p, th[p].obj)
    /\ UNCHANGED <<can, files, disk, idmap, map, page, mapping, wlock, mlock, ghosts>>

Zero(p) ==
    /\ At(p, "zero")
    /\ page' = [page EXCEPT ![th[p].obj].val = 0, ![th[p].obj].dirty = TRUE]
    /\ Found(p, th[p].obj)
    /\ UNCHANGED <<can, files, disk, idmap, map, count, mapping, wlock, mlock, ghosts>>

-----------------------------------------------------------------------------
(* Using the page.                                                         *)

(* read_at copies the page out and lets it go.                             *)
Read(p) ==
    /\ At(p, "have") /\ th[p].op = "read"
    /\ Drop(p)
    /\ th' = [th EXCEPT ![p] = Idle]
    /\ UNCHANGED <<can, files, idmap, map, count, mapping, locks, ghosts>>

(* write_at copies the new contents in and marks the page dirty.           *)
Write(p) ==
    LET o == th[p].obj IN
    /\ At(p, "have") /\ th[p].op = "write" /\ ver < can.writes
    /\ ver' = ver + 1
    /\ page' = [page EXCEPT ![o].val = ver + 1, ![o].dirty = TRUE]
    /\ Contents(th[p].file, ver + 1, [th EXCEPT ![p].pc = "wrote"])
    /\ UNCHANGED <<can, files, disk, idmap, map, count, mapping, locks>>

(* The page is let go, the size is published, write_lock is released.      *)
WriteEnd(p) ==
    LET f == th[p].file IN
    /\ At(p, "wrote")
    /\ Drop(p)
    /\ len' = [len EXCEPT ![f] = TRUE]
    /\ wlock' = [wlock EXCEPT ![f] = None]
    /\ th' = [th EXCEPT ![p] = Idle]
    /\ UNCHANGED <<can, ext, free, idmap, map, count, mapping, bmlock, mlock, ghosts>>

(* try_map_shared_file_page keeps a clone of the frame, not the page.      *)
Map(p) ==
    /\ At(p, "have") /\ th[p].op = "map"
    /\ mapping' = [mapping EXCEPT ![p] = [file |-> th[p].file, obj |-> th[p].obj]]
    /\ Drop(p)
    /\ th' = [th EXCEPT ![p] = Idle]
    /\ UNCHANGED <<can, files, idmap, map, count, locks, ghosts>>

(* A store through the mapping sets the bit in the page table entry        *)
(* (set_pte_dirty); the cached page is not marked.                         *)
Store(p) ==
    /\ At(p, "idle") /\ mapping[p] # None /\ ver < can.writes
    /\ ver' = ver + 1
    /\ page' = [page EXCEPT ![mapping[p].obj].val = ver + 1]
    /\ IF len[mapping[p].file] THEN Contents(mapping[p].file, ver + 1, th)
       ELSE UNCHANGED <<content, th>>
    /\ UNCHANGED <<can, files, disk, idmap, map, count, mapping, locks>>

(* write_back_page_cache and, in one step, the end of unmap_one.           *)
Unmap(p) ==
    /\ At(p, "have") /\ th[p].op = "unmap"
    /\ IF th[p].obj # None THEN Synced(th[p].obj) ELSE UNCHANGED <<disk, page>>
    /\ mapping' = [mapping EXCEPT ![p] = None]
    /\ Goto(p, "drop")
    /\ UNCHANGED <<can, files, idmap, map, count, locks, ghosts>>

DropPage(p) ==
    /\ At(p, "drop")
    /\ Drop(p)
    /\ th' = [th EXCEPT ![p] = Idle]
    /\ UNCHANGED <<can, files, idmap, map, count, mapping, locks, ghosts>>

-----------------------------------------------------------------------------
(* Truncation to nothing: the extent goes first, then the block.           *)

BeginTruncate(p) ==
    /\ "truncate" \in can.ops /\ At(p, "idle")
    /\ \E f \in File :
        /\ wlock[f] = None /\ len[f]
        /\ wlock' = [wlock EXCEPT ![f] = p]
        /\ Start(p, "truncate", f, "wait")
    /\ UNCHANGED <<can, files, disk, idmap, map, page, count, mapping, bmlock, mlock, ghosts>>

(* The extent and the size change together, under the inode table's lock.  *)
Cut(p) ==
    LET f == th[p].file IN
    /\ At(p, "cut")
    /\ ext' = [ext EXCEPT ![f] = None]
    /\ len' = [len EXCEPT ![f] = FALSE]
    /\ Contents(f, 0, [th EXCEPT ![p].blk = ext[f], ![p].pc = IF ext[f] # None THEN "dealloc" ELSE "unlock"])
    /\ UNCHANGED <<can, free, disk, idmap, map, page, count, mapping, locks, ver>>

(* dealloc_block clears the bit in the bitmap, under metadata_lock ...     *)
Dealloc(p) ==
    /\ At(p, "dealloc") /\ mlock = None
    /\ mlock' = p
    /\ free' = free \cup {th[p].blk}
    /\ Goto(p, "discard")
    /\ UNCHANGED <<can, ext, len, disk, idmap, map, page, count, mapping, wlock, bmlock, ghosts>>

(* ... and invalidate_block drops the cached page without writing it ...   *)
Discard(p) ==
    LET b == th[p].blk  o == map[b] IN
    /\ At(p, "discard")
    /\ IF o = None THEN UNCHANGED <<page, count>>
       ELSE /\ page' = [page EXCEPT ![o].discarded = TRUE]
            /\ count' = count - 1
    /\ map' = [map EXCEPT ![b] = None]
    /\ Goto(p, "forget")
    /\ UNCHANGED <<can, files, disk, idmap, mapping, locks, ghosts>>

(* ... and then the file pages that led to the block.                      *)
Forget(b) == [f \in File |-> IF idmap[f] = b THEN None ELSE idmap[f]]

DeallocEnd(p) ==
    /\ At(p, "forget")
    /\ idmap' = Forget(th[p].blk)
    /\ mlock' = None
    /\ Goto(p, "unlock")
    /\ UNCHANGED <<can, files, disk, map, page, count, mapping, wlock, bmlock, ghosts>>

TruncateEnd(p) ==
    /\ At(p, "unlock")
    /\ Unlocked(p)
    /\ wlock' = [wlock EXCEPT ![th[p].file] = None]
    /\ th' = [th EXCEPT ![p] = Idle]
    /\ UNCHANGED <<can, files, disk, idmap, map, page, count, mapping, mlock, ghosts>>

-----------------------------------------------------------------------------
(* Eviction (try_evict) and write-back (sync_all).                         *)

(* Only a page that nobody holds is evicted; the evictor then holds it.    *)
BeginEvict(p) ==
    /\ "evict" \in can.ops /\ At(p, "idle")
    /\ \E b \in Block :
        /\ map[b] # None /\ Holders(map[b]) = {}
        /\ th' = [th EXCEPT ![p] = Doing("esync", "evict", None, b, map[b], {})]
    /\ UNCHANGED <<can, files, disk, idmap, map, page, count, mapping, locks, ghosts>>

EvictSync(p) ==
    /\ At(p, "esync")
    /\ Synced(th[p].obj)
    /\ Goto(p, "eframe")
    /\ UNCHANGED <<can, files, idmap, map, count, mapping, locks, ghosts>>

EvictFrame(p) ==
    /\ At(p, "eframe")
    /\ Goto(p, IF FrameMapped(th[p].obj) THEN "drop" ELSE "eremove")
    /\ UNCHANGED <<can, files, disk, idmap, map, page, count, mapping, locks, ghosts>>

(* Both tables, under the lock of page_cache_map; the page itself is only  *)
(* dropped afterwards.                                                     *)
EvictRemove(p) ==
    LET b == th[p].blk  o == th[p].obj IN
    /\ At(p, "eremove")
    /\ IF map[b] = o /\ Holders(o) = {p}
       THEN /\ map' = [map EXCEPT ![b] = None]
            /\ count' = count - 1
            /\ idmap' = Forget(b)
       ELSE UNCHANGED <<map, count, idmap>>
    /\ Goto(p, "drop")
    /\ UNCHANGED <<can, files, disk, page, mapping, locks, ghosts>>

(* sync_all clones a batch of pages and syncs each (here one at a time).   *)
BeginSync(p) ==
    /\ "sync" \in can.ops /\ At(p, "idle")
    /\ \E b \in Block :
        /\ map[b] # None
        /\ th' = [th EXCEPT ![p] = Doing("sync", "sync", None, b, map[b], {})]
    /\ UNCHANGED <<can, files, disk, idmap, map, page, count, mapping, locks, ghosts>>

Sync(p) ==
    /\ At(p, "sync")
    /\ Synced(th[p].obj)
    /\ Goto(p, "drop")
    /\ UNCHANGED <<can, files, idmap, map, count, mapping, locks, ghosts>>

Next == \E p \in Thread :
    \/ BeginRead(p) \/ BeginWrite(p) \/ BeginMap(p) \/ BeginUnmap(p) \/ LockBlockMap(p)
    \/ Look(p) \/ Peek(p) \/ ExtentHit(p) \/ ReadHole(p) \/ Allocate(p) \/ NoSpace(p) \/ InsertId(p)
    \/ PhysHit(p) \/ PhysMiss(p) \/ Load(p) \/ Insert(p) \/ InsertLate(p) \/ Count(p) \/ Zero(p)
    \/ Read(p) \/ Write(p) \/ WriteEnd(p) \/ Map(p) \/ Store(p) \/ Unmap(p) \/ DropPage(p)
    \/ BeginTruncate(p) \/ Cut(p) \/ Dealloc(p) \/ Discard(p) \/ DeallocEnd(p)
    \/ TruncateEnd(p)
    \/ BeginEvict(p) \/ EvictSync(p) \/ EvictFrame(p) \/ EvictRemove(p) \/ BeginSync(p) \/ Sync(p)

Spec == Init /\ [][Next]_vars

-----------------------------------------------------------------------------
(* Every variable has its type, and a table entry names its own block      *)
(* (part of NothingLost).                                                  *)
TypeOK ==
    /\ ext \in [File -> Block \cup {None}] /\ len \in [File -> BOOLEAN] /\ free \subseteq Block
    /\ disk \in [Block -> 0 .. can.writes] /\ content \in [File -> 0 .. can.writes]
    /\ idmap \in [File -> Block \cup {None}] /\ map \in [Block -> Page \cup {None}]
    /\ page \in [Page -> [blk : Block \cup {None}, val : 0 .. can.writes, dirty : BOOLEAN,
                          discarded : BOOLEAN]]
    /\ \A b \in Block : map[b] # None => page[map[b]].blk = b
    /\ wlock \in [File -> Thread \cup {None}] /\ bmlock \in [File -> Thread \cup {None}]
    /\ mlock \in Thread \cup {None} /\ count \in Int /\ ver \in 0 .. can.writes

(* A read returns what the file contained at some time since it began: the *)
(* page read_at holds, or the hole it finds, shows such a value, whatever  *)
(* is written, mapped or written back meanwhile.  (Not with truncation or  *)
(* eviction: read_at takes no lock of the file.)                           *)
ReadsOwn == can.ops \cap {"truncate", "evict"} = {} => \A p \in Thread : th[p].op = "read" =>
    /\ At(p, "have") => page[th[p].obj].val \in th[p].seen
    /\ At(p, "extent") /\ ext[th[p].file] = None => 0 \in th[p].seen

(* The mixes of operations under which blocks and pages stay together.     *)
(* With eviction, a page that a thread drops after try_evict took it out   *)
(* is written over the device.  With truncation, a read that began before  *)
(* it brings a freed block back into the cache while a write allocates it  *)
(* (AllocatedUncached), and what is stored beyond the new end through a    *)
(* mapping shows when a write extends the file again.                      *)
Orderly ==
    /\ "evict" \notin can.ops
    /\ \/ "truncate" \notin can.ops
       \/ can.ops \subseteq {"truncate", "write", "sync"}
       \/ can.ops \subseteq {"truncate", "map", "sync"}

(* A write changes the page through which the file is read and written     *)
(* back, and that page holds the file's contents, so the bytes that        *)
(* write_at leaves alone are right.                                        *)
WritesOwn == Orderly => \A p \in Thread :
    At(p, "have") /\ th[p].op = "write" =>
        /\ page[th[p].obj].blk = ext[th[p].file]
        /\ map[ext[th[p].file]] = th[p].obj
        /\ page[th[p].obj].val = content[th[p].file]

(* Reads and writes both go to the page that is the file's.                *)
CacheOwn == ReadsOwn /\ WritesOwn

(* No update is lost: when no thread is at work, what a file should        *)
(* contain is in its cached page or else on the device.                    *)
Quiet == \A p \in Thread : At(p, "idle")
NothingLost == TypeOK /\ (Orderly /\ Quiet => \A f \in File : ext[f] # None /\ len[f] =>
    content[f] = IF map[ext[f]] # None THEN page[map[ext[f]]].val ELSE disk[ext[f]])

(* What the comment in get_new_page_cache says: a block that alloc_block   *)
(* returns is not in the cache, for dealloc_block invalidated it.          *)
AllocatedUncached == \A p \in Thread :
    At(p, "id") /\ th[p].fresh => map[th[p].blk] = None
=============================================================================
