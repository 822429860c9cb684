------------------------------ MODULE Ext4Dir -------------------------------
(***************************************************************************)
(* Directories of the ext4 driver: records in directory blocks, the lookup *)
(* cache with its generation, and create, unlink, rename and getdents      *)
(* (ext4fs/ext4inode.rs, ext4fs/ext4_dir_entry.rs, ext4fs/vfs.rs).         *)
(*                                                                         *)
(* Callers of lookups and mutations hold the directory's namespace lock    *)
(* (both locks for a rename between two directories); getdents holds none. *)
(* A mutation writes the block and commits to the cache in two steps.      *)
(* Directory entries name files here; the dot entries are one record that  *)
(* stays in front.  Offsets and lengths are counted in record units.       *)
(***************************************************************************)
EXTENDS Integers, Sequences, FiniteSets, FiniteSetsExt, SequencesExt

CONSTANTS
    Dirs,        \* directories
    Name,        \* file names
    Need,        \* units a record for a name takes: [Name -> 1 .. BlockLen]
    Inos,        \* inode numbers of files, positive integers
    BlockLen,    \* units in a directory block
    MaxBlocks,   \* blocks the device lets a directory have
    CacheCap,    \* EXT4_DIR_LOOKUP_CACHE_CAPACITY
    Thread,      \* threads calling lookup, create, unlink and rename
    Lister,      \* threads calling getdents
    Emit,        \* records that fit a getdents buffer
    MaxChanges   \* bound on mutating calls

VARIABLES
    blocks,      \* [Dirs -> Seq of blocks], a block maps offsets to headers
    cache,       \* DirLookupCache.entries: [Dirs -> [Name -> inode or 0]]
    generation,  \* DirLookupCache.generation
    op,          \* the call a thread is in
    lister,      \* getdents of an open directory, over all its calls
    links,       \* link count of each inode
    changes      \* mutating calls started

dirvars == <<blocks, cache, generation, op, lister, links, changes>>

Offsets == 0 .. BlockLen - 1
Dots == "."
None == [ino |-> 0, name |-> Dots, len |-> 0]         \* zeroed bytes
NoOp == [pc |-> "idle"]
NotListing == [pc |-> "idle"]
Units(n) == IF n = Dots THEN 1 ELSE Need[n]

---------------------------------------------------------------------------
(* Records *)

\* Offsets of the records met when parsing a block from offset o: a header
\* of length zero does not parse and ends the block.
RECURSIVE From(_, _)
From(blk, o) ==
    IF o >= BlockLen \/ blk[o].len = 0 THEN <<>>
    ELSE <<o>> \o From(blk, o + blk[o].len)

Records(blk) == ToSet(From(blk, 0))

\* Where a name is: the set of <<block, offset>> of its record.
PlacesIn(bs, n) ==
    {<<b, o>> \in (1 .. Len(bs)) \X Offsets :
        o \in Records(bs[b]) /\ bs[b][o].ino # 0 /\ bs[b][o].name = n}

Places(d, n) == PlacesIn(blocks[d], n)

\* Inode a name stands for on disk; 0 when there is none.
Bound(d, n) ==
    IF Places(d, n) = {} THEN 0
    ELSE LET p == CHOOSE p \in Places(d, n) : TRUE IN blocks[d][p[1]][p[2]].ino

\* Write a record and zero the rest of its length.
WriteTo(blk, o, ino, n, len) ==
    [x \in Offsets |-> IF x = o THEN [ino |-> ino, name |-> n, len |-> len]
                       ELSE IF o < x /\ x < o + len THEN None ELSE blk[x]]

\* First record with enough slack for n behind its own name.
Slack(d, n) ==
    {<<b, o>> \in (1 .. Len(blocks[d])) \X Offsets :
        /\ o \in Records(blocks[d][b])
        /\ blocks[d][b][o].len >= Units(blocks[d][b][o].name) + Units(n)}

FirstPlace(S) ==
    CHOOSE p \in S : \A q \in S : p[1] < q[1] \/ (p[1] = q[1] /\ p[2] <= q[2])

---------------------------------------------------------------------------
(* Block contents after each mutation; the same value when it fails. *)

Added(d, n, i) ==
    IF Slack(d, n) # {}
    THEN LET p == FirstPlace(Slack(d, n))
             rec == blocks[d][p[1]][p[2]]
             own == Units(rec.name)
         IN  [blocks[d] EXCEPT ![p[1]] =
                WriteTo([@ EXCEPT ![p[2]].len = own], p[2] + own, i, n, rec.len - own)]
    ELSE IF Len(blocks[d]) < MaxBlocks
    THEN Append(blocks[d], WriteTo([o \in Offsets |-> None], 0, i, n, BlockLen))
    ELSE blocks[d]

\* The record joins its predecessor; the first of a block loses its inode.
\* The removed record's own bytes stay.
Removed(d, n) ==
    LET p == FirstPlace(Places(d, n))
        blk == blocks[d][p[1]]
        before == {o \in Records(blk) : o < p[2]}
    IN  [blocks[d] EXCEPT ![p[1]] =
           IF before = {} THEN [@ EXCEPT ![p[2]].ino = 0]
           ELSE [@ EXCEPT ![Max(before)].len = @ + blk[p[2]].len]]

Replaced(d, n, i) ==
    LET p == FirstPlace(Places(d, n))
    IN  [blocks[d] EXCEPT ![p[1]] = [@ EXCEPT ![p[2]].ino = i]]

---------------------------------------------------------------------------
(* The lookup cache *)

Remember(c, n, i) ==
    LET full == Cardinality({m \in Name : c[m] # 0}) >= CacheCap
    IN  IF c[n] = 0 /\ full THEN [m \in Name |-> IF m = n THEN i ELSE 0]
        ELSE [c EXCEPT ![n] = i]

\* invalidate_dir_lookup_cache, and commit_dir_lookup_cache_entry when the
\* mutation leaves a positive entry (i # 0).
Committed(n, i) == [m \in Name |-> IF m = n THEN i ELSE 0]

\* What lookup_dir_entry returns and leaves in the cache.  The caller holds
\* the namespace lock, so the directory does not change during the scan.
Find(d, n) == IF cache[d][n] # 0 THEN cache[d][n] ELSE Bound(d, n)

CacheAfterFind(d, n) ==
    IF cache[d][n] # 0 \/ Bound(d, n) = 0 THEN cache[d]
    ELSE Remember(cache[d], n, Bound(d, n))

---------------------------------------------------------------------------
(* Calls under the namespace lock.  An op record holds the locked           *)
(* directories, the directory edits still to make and the one to commit.    *)

Locked(d) == \E t \in Thread : op[t].pc # "idle" /\ d \in op[t].dirs

Edit(kind, d, n, i) == [kind |-> kind, dir |-> d, name |-> n, ino |-> i]

Call(dirs, edits, undo, gone, new) ==
    [pc |-> "write", dirs |-> dirs, edits |-> edits, undo |-> undo, gone |-> gone, new |-> new]

Enter(t, c) ==
    /\ op' = [op EXCEPT ![t] = c]
    /\ UNCHANGED <<blocks, generation, lister>>

\* find_with_outcome from the dentry layer.
Lookup(t, d, n) ==
    /\ op[t].pc = "idle"
    /\ ~Locked(d)
    /\ cache' = [cache EXCEPT ![d] = CacheAfterFind(d, n)]
    /\ cache' # cache
    /\ UNCHANGED <<blocks, generation, op, lister, links, changes>>

\* create_file: the inode is allocated with one link before its entry is
\* written, and given back when that fails.
CreateFile(t, d, n) ==
    /\ op[t].pc = "idle"
    /\ ~Locked(d)
    /\ changes < MaxChanges
    /\ Find(d, n) = 0
    /\ \E i \in Inos :
         /\ links[i] = 0
         /\ \A j \in Inos : links[j] = 0 => i <= j
         /\ links' = [links EXCEPT ![i] = 1]
         /\ Enter(t, Call({d}, <<Edit("add", d, n, i)>>, <<>>, 0, i))
    /\ cache' = [cache EXCEPT ![d] = CacheAfterFind(d, n)]
    /\ changes' = changes + 1

\* delete_dir_entry.
DeleteDirEntry(t, d, n) ==
    /\ op[t].pc = "idle"
    /\ ~Locked(d)
    /\ changes < MaxChanges
    /\ Find(d, n) # 0
    /\ Enter(t, Call({d}, <<Edit("unlink", d, n, 0)>>, <<>>, 0, 0))
    /\ cache' = [cache EXCEPT ![d] = CacheAfterFind(d, n)]
    /\ changes' = changes + 1
    /\ UNCHANGED links

\* rename_dir_entry: the new name is written first, then the old one is
\* removed; a failure of the second edit undoes the first.
RenameDirEntry(t, d, n, e, m) ==
    LET source == Find(d, n)
        target == Find(e, m)
    IN  /\ op[t].pc = "idle"
        /\ ~Locked(d) /\ ~Locked(e)
        /\ changes < MaxChanges
        /\ <<d, n>> # <<e, m>>
        /\ source # 0
        /\ Enter(t, Call({d, e},
                         <<Edit(IF target # 0 THEN "replace" ELSE "add", e, m, source),
                           Edit("remove", d, n, 0)>>,
                         <<Edit(IF target # 0 THEN "replace" ELSE "remove", e, m, target)>>,
                         target, 0))
        /\ LET first == [cache EXCEPT ![d] = CacheAfterFind(d, n)]
           IN  cache' = IF d = e /\ cache[e][m] = 0 /\ target # 0
                        THEN [first EXCEPT ![e] = Remember(@, m, target)]
                        ELSE [first EXCEPT ![e] = IF d = e THEN @ ELSE CacheAfterFind(e, m)]
        /\ changes' = changes + 1
        /\ UNCHANGED links

\* History: a name unbound during a listing is no longer owed to it.
Owing(r, d, bs) ==
    IF r.pc = "idle" \/ r.pc = "end" THEN r
    ELSE IF r.dir # d THEN r
    ELSE [r EXCEPT !.must = {n \in @ : PlacesIn(bs, n) # {}}]

\* The block write of the next edit, under dir_mutation_lock.  An edit that
\* finds no room or no record leaves the directory alone and fails.
WriteBlock(t) ==
    LET c == op[t]
        e == Head(c.edits)
        after == CASE e.kind = "add" -> Added(e.dir, e.name, e.ino)
                   [] e.kind \in {"remove", "unlink"} /\ Places(e.dir, e.name) # {} ->
                        Removed(e.dir, e.name)
                   [] e.kind = "replace" /\ Places(e.dir, e.name) # {} ->
                        Replaced(e.dir, e.name, e.ino)
                   [] OTHER -> blocks[e.dir]
    IN  /\ c.pc = "write"
        /\ blocks' = [blocks EXCEPT ![e.dir] = after]
        /\ op' = [op EXCEPT ![t].pc = IF after = blocks[e.dir] THEN "failed" ELSE "commit",
                            ![t].gone = IF e.kind = "unlink" THEN Bound(e.dir, e.name) ELSE @]
        /\ lister' = [s \in Lister |-> Owing(lister[s], e.dir, after)]
        /\ UNCHANGED <<cache, generation, links, changes>>

\* The cache commit, then the next edit or the end of the call: the inode
\* whose name went loses its link.
Commit(t) ==
    LET c == op[t]
        e == Head(c.edits)
        left == Tail(c.edits)
    IN  /\ c.pc = "commit"
        /\ generation' = [generation EXCEPT ![e.dir] = @ + 1]
        /\ cache' = [cache EXCEPT ![e.dir] = Committed(e.name, e.ino)]
        /\ op' = [op EXCEPT ![t] = IF left = <<>> THEN NoOp
                                   ELSE [@ EXCEPT !.pc = "write", !.edits = left]]
        /\ links' = IF left = <<>> /\ c.gone # 0 THEN [links EXCEPT ![c.gone] = @ - 1]
                    ELSE links
        /\ UNCHANGED <<blocks, lister, changes>>

\* A failed edit: a new inode is given back; a rename whose first edit went
\* through undoes it.
Fail(t) ==
    LET c == op[t]
    IN  /\ c.pc = "failed"
        /\ op' = [op EXCEPT ![t] = IF Len(c.edits) = 1 /\ c.undo # <<>>
                                   THEN Call(c.dirs, c.undo, <<>>, 0, 0) ELSE NoOp]
        /\ links' = IF c.new # 0 THEN [links EXCEPT ![c.new] = 0] ELSE links
        /\ UNCHANGED <<blocks, cache, generation, lister, changes>>

---------------------------------------------------------------------------
(* getdents *)

Everything(d) == {n \in Name : Bound(d, n) # 0}

\* A program opens the directory and reads it from the start.
OpenDir(s, d) ==
    /\ lister[s].pc = "idle"
    /\ lister' = [lister EXCEPT ![s] =
         [pc |-> "call", dir |-> d, block |-> 1, off |-> 0, gen |-> 0, size |-> 0,
          read |-> <<>>, room |-> 0, must |-> Everything(d), out |-> <<>>]]
    /\ UNCHANGED <<blocks, cache, generation, op, links, changes>>

GetdentsStart(s) ==
    /\ lister[s].pc = "call"
    /\ lister' = [lister EXCEPT ![s].pc = "read",
                                ![s].gen = generation[lister[s].dir],
                                ![s].size = Len(blocks[lister[s].dir]),
                                ![s].room = Emit]
    /\ UNCHANGED <<blocks, cache, generation, op, links, changes>>

\* Read the rest of the block and take the records that fit the buffer.
\* The cursor moves behind the last one taken, or to the next block.
GetdentsRead(s) ==
    LET r == lister[s]
        blk == blocks[r.dir][r.block]
        at == From(blk, r.off)
        used == SelectSeq(at, LAMBDA o : blk[o].ino # 0 /\ blk[o].name # Dots)
        taken == SubSeq(used, 1, Min({r.room, Len(used)}))
    IN  /\ r.pc = "read"
        /\ r.block <= r.size
        /\ r.room > 0
        /\ lister' = [lister EXCEPT ![s] =
             [@ EXCEPT !.pc = "publish",
                       !.read = [k \in DOMAIN taken |-> <<blk[taken[k]].name, blk[taken[k]].ino>>],
                       !.room = @ - Len(taken),
                       !.block = IF Len(taken) < Len(used) THEN @ ELSE @ + 1,
                       !.off = IF Len(taken) < Len(used) THEN used[Len(taken) + 1] ELSE 0]]
        /\ UNCHANGED <<blocks, cache, generation, op, links, changes>>

\* Mutant: they go to the cache whatever has changed since.
GetdentsPublishAlways(s) ==
    LET r == lister[s]
        d == r.dir
        names == [k \in DOMAIN r.read |-> r.read[k][1]]
        c[k \in 0 .. Len(r.read)] ==
            IF k = 0 THEN cache[d] ELSE Remember(c[k - 1], r.read[k][1], r.read[k][2])
    IN  /\ r.pc = "publish"
        /\ cache' = [cache EXCEPT ![d] = c[Len(r.read)]]
        /\ lister' = [lister EXCEPT ![s].pc = "read", ![s].out = @ \o names,
                                    ![s].read = <<>>]
        /\ UNCHANGED <<blocks, generation, op, links, changes>>

\* The emitted records go to the cache while the generation is the one the
\* call started with.
GetdentsPublish(s) ==
    LET r == lister[s]
        d == r.dir
        names == [k \in DOMAIN r.read |-> r.read[k][1]]
        c[k \in 0 .. Len(r.read)] ==
            IF k = 0 THEN cache[d] ELSE Remember(c[k - 1], r.read[k][1], r.read[k][2])
    IN  /\ r.pc = "publish"
        /\ cache' = IF generation[d] = r.gen
                    THEN [cache EXCEPT ![d] = c[Len(r.read)]] ELSE cache
        /\ lister' = [lister EXCEPT ![s].pc = "read", ![s].out = @ \o names,
                                    ![s].read = <<>>]
        /\ UNCHANGED <<blocks, generation, op, links, changes>>

\* The call returns; one that emitted nothing ends the listing.
GetdentsReturn(s) ==
    LET r == lister[s]
    IN  /\ r.pc = "read"
        /\ r.block > r.size \/ r.room = 0
        /\ lister' = [lister EXCEPT ![s].pc = IF r.room = Emit THEN "end" ELSE "call"]
        /\ UNCHANGED <<blocks, cache, generation, op, links, changes>>

---------------------------------------------------------------------------
DirInit ==
    /\ blocks = [d \in Dirs |-> <<WriteTo([o \in Offsets |-> None], 0, 99, Dots, BlockLen)>>]
    /\ cache = [d \in Dirs |-> [n \in Name |-> 0]]
    /\ generation = [d \in Dirs |-> 0]
    /\ op = [t \in Thread |-> NoOp]
    /\ lister = [s \in Lister |-> NotListing]
    /\ links = [i \in Inos |-> 0]
    /\ changes = 0

DirNext ==
    \/ \E t \in Thread :
         \/ \E d \in Dirs, n \in Name :
              \/ Lookup(t, d, n) \/ CreateFile(t, d, n) \/ DeleteDirEntry(t, d, n)
              \/ \E e \in Dirs, m \in Name : RenameDirEntry(t, d, n, e, m)
         \/ WriteBlock(t) \/ Commit(t) \/ Fail(t)
    \/ \E s \in Lister :
         \/ \E d \in Dirs : OpenDir(s, d)
         \/ GetdentsStart(s) \/ GetdentsRead(s) \/ GetdentsPublish(s) \/ GetdentsReturn(s)

DirSpec == DirInit /\ [][DirNext]_dirvars

---------------------------------------------------------------------------
(* Properties *)

\* With no mutation of a directory under way its lookup cache holds only what
\* its blocks say, although getdents scans and publishes without a lock.
CacheCoherent ==
    \A d \in Dirs, n \in Name :
        ~Locked(d) /\ cache[d][n] # 0 => cache[d][n] = Bound(d, n)

\* A listing returns every name that stays bound for its whole length exactly
\* once, and a file has as many links as names once no call is under way:
\* failed creations and renames take back what they did.
ListingAndLinks ==
    /\ \A s \in Lister : lister[s].pc = "end" =>
         \A n \in lister[s].must :
             Cardinality({k \in DOMAIN lister[s].out : lister[s].out[k] = n}) = 1
    /\ (\A t \in Thread : op[t].pc = "idle") =>
         \A i \in Inos :
             links[i] = Cardinality({<<d, n>> \in Dirs \X Name : Bound(d, n) = i})

DirExact == CacheCoherent /\ ListingAndLinks
=============================================================================
