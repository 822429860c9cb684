----------------------------- MODULE Ext4Blocks -----------------------------
(***************************************************************************)
(* Block mapping of the ext4 driver (ext4fs/ext4inode.rs, ext4fs/ext4.rs,  *)
(* ext4fs/vfs.rs): extent trees rooted in the inode, the block and inode   *)
(* bitmaps, truncation, and the reclamation of an inode when its last      *)
(* in-memory reference goes.  Sizes are counted in blocks.                 *)
(*                                                                         *)
(* A writer holds the inode's write_lock and block_map_lock for the whole  *)
(* call, so its changes are one step.  The walk of read_at, which takes    *)
(* neither lock, is not modelled.                                          *)
(***************************************************************************)
EXTENDS Integers, Sequences, FiniteSets, SequencesExt, FiniteSetsExt

CONSTANTS
    Inodes,      \* inode numbers
    Top,         \* largest logical block number used
    Blocks,      \* physical block numbers, 1 .. n; 0 is "no block"
    RootMax,     \* entries in the inode's own node (4 in the code)
    NodeMax,     \* entries in a tree block (340 in the code)
    MaxLen,      \* blocks one extent may cover (32768 in the code)
    AnyStart,    \* whether a file may get another block before its block 0
    MaxWrites    \* bound on blocks mapped

VARIABLES
    inode,       \* inode table: links, size, tree root
    node,        \* contents of the tree blocks on disk
    blockBits,   \* block bitmap
    inodeBits,   \* inode bitmap
    held,        \* inodes with an in-memory object somebody references
    panicked,    \* an expect or unwrap has failed
    mapped,      \* history: the block each logical block was given
    writes

ext4vars == <<inode, node, blockBits, inodeBits, held, panicked, mapped, writes>>

Logical == 0 .. Top
NoNode == [depth |-> 0, max |-> 0, entries |-> <<>>]
EmptyRoot == [depth |-> 0, max |-> RootMax, entries |-> <<>>]
NoMap == [l \in Logical |-> 0]

\* Lowest free bit of the block bitmap; 0 when the device is full.
AllocBlock(bits) ==
    IF Blocks \ bits = {} THEN 0 ELSE Min(Blocks \ bits)

\* Clear the bits of the blocks in S, one dealloc_block each.
DeallocBlock(bits, S) == bits \ S

AllocInode(bits) == Min(Inodes \ bits)

DeallocInode(bits, i) == bits \ {i}

---------------------------------------------------------------------------
(* Searching *)

\* Number of entries before the insertion point found by bisection.
RECURSIVE Bisect(_, _, _, _)
Bisect(es, l, lo, hi) ==
    IF lo >= hi THEN lo
    ELSE LET mid == (lo + hi) \div 2
         IN  IF es[mid + 1].blk <= l THEN Bisect(es, l, mid + 1, hi)
                                     ELSE Bisect(es, l, lo, mid)

FindAim(es, l) == Bisect(es, l, 0, Len(es))

\* Physical block in a leaf, by a linear scan; 0 is a hole.
InLeaf(es, l) ==
    LET hits == {i \in DOMAIN es : es[i].blk <= l /\ l < es[i].blk + es[i].len}
    IN  IF hits = {} THEN 0 ELSE es[Min(hits)].to + l - es[Min(hits)].blk

\* Child an index node sends a lookup to: the last entry of the leading run
\* that starts at or below l, and the first entry when there is none.
ChildFor(es, l) ==
    LET above == {i \in DOMAIN es : es[i].blk > l}
        run == IF above = {} THEN Len(es) ELSE Min(above) - 1
    IN  es[IF run = 0 THEN 1 ELSE run].to

RECURSIVE Walk(_, _, _)
Walk(n, l, disk) ==
    IF n.depth = 0 THEN InLeaf(n.entries, l)
    ELSE Walk(disk[ChildFor(n.entries, l)], l, disk)

FindPhysicalBlock(i, l) == Walk(inode[i].root, l, node)

---------------------------------------------------------------------------
(* Inserting *)

\* What one level of the insertion hands to the level above: its own node,
\* the tree blocks, the bitmap, and the block split off to its right.
Kept(n, disk, bits) ==
    [node |-> n, disk |-> disk, bits |-> bits, right |-> 0, first |-> 0, ok |-> TRUE]

Failed(n, disk, bits) ==
    [Kept(n, disk, bits) EXCEPT !.ok = FALSE]

\* Insert e after position at of a full node and move the upper half into a
\* new block.  Running out of blocks here is an unwrap on None.
Split(n, at, e, disk, bits) ==
    LET combined == InsertAt(n.entries, at + 1, e)
        mid == Len(combined) \div 2
        right == AllocBlock(bits)
        upper == SubSeq(combined, mid + 1, Len(combined))
    IN  IF right = 0 THEN Failed(n, disk, bits)
        ELSE [node |-> [n EXCEPT !.entries = SubSeq(combined, 1, mid)],
              disk |-> [disk EXCEPT ![right] =
                          [depth |-> n.depth, max |-> NodeMax, entries |-> upper]],
              bits |-> bits \cup {right},
              right |-> right, first |-> upper[1].blk, ok |-> TRUE]

\* Room for e: insert it; none: split, where a missing predecessor still
\* inserts behind the first entry.
Place(n, at, e, disk, bits) ==
    IF Len(n.entries) < n.max
    THEN Kept([n EXCEPT !.entries = InsertAt(n.entries, at + 1, e)], disk, bits)
    ELSE Split(n, IF at = 0 THEN 1 ELSE at, e, disk, bits)

AddInLeaf(n, l, p, disk, bits) ==
    LET at == FindAim(n.entries, l)
        prev == n.entries[at]
    IN  IF at > 0 /\ prev.len < MaxLen /\ prev.blk + prev.len = l /\ prev.to + prev.len = p
        THEN Kept([n EXCEPT !.entries[at].len = @ + 1], disk, bits)
        ELSE Place(n, at, [blk |-> l, len |-> 1, to |-> p], disk, bits)

\* An index node must have an entry at or below l: the code expects one.
RECURSIVE AddExtentInTree(_, _, _, _, _)
AddExtentInTree(n, l, p, disk, bits) ==
    IF n.depth = 0 THEN AddInLeaf(n, l, p, disk, bits)
    ELSE LET at == FindAim(n.entries, l)
         IN  IF at = 0 THEN Failed(n, disk, bits)
             ELSE LET child == n.entries[at].to
                      below == AddExtentInTree(disk[child], l, p, disk, bits)
                      written == [below.disk EXCEPT ![child] = below.node]
                  IN  IF ~below.ok THEN Failed(n, disk, bits)
                      ELSE IF below.right = 0 THEN Kept(n, written, below.bits)
                      ELSE Place(n, at, [blk |-> below.first, len |-> 0, to |-> below.right],
                                 written, below.bits)

\* A split of the root moves its lower half into a block too, and the root
\* becomes an index over the two.
AddExtentEntry(root, l, p, disk, bits) ==
    LET r == AddExtentInTree(root, l, p, disk, bits)
        left == AllocBlock(r.bits)
        index == <<[blk |-> r.node.entries[1].blk, len |-> 0, to |-> left],
                   [blk |-> r.first, len |-> 0, to |-> r.right]>>
    IN  IF ~r.ok \/ r.right = 0 THEN r
        ELSE IF left = 0 THEN Failed(root, disk, bits)
        ELSE [Kept([depth |-> r.node.depth + 1, max |-> RootMax, entries |-> index],
                   [r.disk EXCEPT ![left] = [r.node EXCEPT !.max = NodeMax]],
                   r.bits \cup {left})
              EXCEPT !.ok = TRUE]

---------------------------------------------------------------------------
(* Writing *)

\* Give logical block l of inode i a physical block if it has none, and set
\* the size.  With no free block the call fails and changes nothing.
MapBlock(i, l, size) ==
    LET p == AllocBlock(blockBits)
        r == AddExtentEntry(inode[i].root, l, p, node, blockBits \cup {p})
    IN  /\ writes < MaxWrites
        /\ AnyStart \/ l = 0 \/ mapped[i][0] # 0
        /\ writes' = writes + 1
        /\ \/ /\ FindPhysicalBlock(i, l) # 0
              /\ inode' = [inode EXCEPT ![i].size = size]
              /\ UNCHANGED <<node, blockBits, mapped, panicked>>
           \/ /\ FindPhysicalBlock(i, l) = 0
              /\ p # 0
              /\ panicked' = ~r.ok
              /\ IF r.ok
                 THEN /\ inode' = [inode EXCEPT ![i].size = size, ![i].root = r.node]
                      /\ node' = r.disk
                      /\ blockBits' = r.bits
                      /\ mapped' = [mapped EXCEPT ![i][l] = p]
                 ELSE UNCHANGED <<inode, node, blockBits, mapped>>
        /\ UNCHANGED <<inodeBits, held>>

\* write_at and raw_write_at: the size grows to cover the block.
WriteAt(i, l) ==
    /\ ~panicked
    /\ i \in held
    /\ MapBlock(i, l, Max({inode[i].size, l + 1}))

\* get_shared_page on behalf of a shared mapping: a hole below the end of
\* the file gets its block, the size stays.
GetSharedPage(i, l) ==
    /\ ~panicked
    /\ i \in held
    /\ l < inode[i].size
    /\ MapBlock(i, l, inode[i].size)

---------------------------------------------------------------------------
(* Truncating *)

\* Blocks of the whole tree below n, extent data and tree blocks.
RECURSIVE TreeBlocks(_, _)
TreeBlocks(n, disk) ==
    UNION {IF n.depth = 0 THEN e.to .. (e.to + e.len - 1)
           ELSE {e.to} \cup TreeBlocks(disk[e.to], disk) : e \in ToSet(n.entries)}

\* Mutant: an extent across the new end keeps its length.
TrimmedWhole(es, len) == SelectSeq(es, LAMBDA e : e.blk < len)

\* Entries of a depth-0 root cut to the blocks below len.
Trimmed(es, len) ==
    LET Cut(e) == [e EXCEPT !.len = Min({@, len - e.blk})]
        kept == SelectSeq(es, LAMBDA e : e.blk < len)
    IN  [k \in DOMAIN kept |-> Cut(kept[k])]

Shrunk(i, len) ==
    [inode[i] EXCEPT !.size = len,
                     !.root = IF len = 0 THEN EmptyRoot
                              ELSE [@ EXCEPT !.entries = Trimmed(@, len)]]

Freed(i, len) ==
    TreeBlocks(inode[i].root, node) \ TreeBlocks(Shrunk(i, len).root, node)

\* Growing and keeping the size only store it; shrinking to a non-zero size
\* is refused when the tree has more than its root.
Truncate(i, len) ==
    /\ ~panicked
    /\ i \in held
    /\ \/ /\ len >= inode[i].size
          /\ inode' = [inode EXCEPT ![i].size = len]
          /\ UNCHANGED <<blockBits, mapped>>
       \/ /\ len < inode[i].size
          /\ len = 0 \/ inode[i].root.depth = 0
          /\ inode' = [inode EXCEPT ![i] = Shrunk(i, len)]
          /\ blockBits' = DeallocBlock(blockBits, Freed(i, len))
          /\ mapped' = [mapped EXCEPT ![i] = [l \in Logical |-> IF l < len THEN @[l] ELSE 0]]
    /\ UNCHANGED <<node, inodeBits, held, panicked, writes>>

---------------------------------------------------------------------------
(* Inodes *)

\* alloc_inode and initialize_new_inode: the record is cleared.  (The
\* generation it also bumps only tells a stale object from the current one;
\* an inode has one object, so that test never fails here.)
CreateFile ==
    /\ ~panicked
    /\ Inodes \ inodeBits # {}
    /\ LET i == AllocInode(inodeBits)
       IN  /\ inode' = [inode EXCEPT ![i] =
                          [links |-> 1, size |-> 0, root |-> EmptyRoot]]
           /\ inodeBits' = inodeBits \cup {i}
           /\ held' = held \cup {i}
    /\ UNCHANGED <<node, blockBits, panicked, mapped, writes>>

\* Ext4Inode::drop: with links left the object just goes.  truncate(0)
\* returns early when the size is already zero.
Reclaimed(i, links) ==
    IF links > 0
    THEN /\ inode' = [inode EXCEPT ![i].links = links]
         /\ UNCHANGED <<blockBits, inodeBits, mapped>>
    ELSE /\ inode' = [inode EXCEPT ![i] =
              [links |-> 0, size |-> 0,
               root |-> IF @.size = 0 THEN @.root ELSE EmptyRoot]]
         /\ blockBits' = IF inode[i].size = 0 THEN blockBits
                         ELSE DeallocBlock(blockBits, TreeBlocks(inode[i].root, node))
         /\ inodeBits' = DeallocInode(inodeBits, i)
         /\ mapped' = [mapped EXCEPT ![i] = NoMap]

\* delete_dir_entry: the link goes; an inode nobody references is
\* instantiated once so that its drop reclaims it.
Unlink(i) ==
    /\ ~panicked
    /\ inode[i].links > 0
    /\ IF i \in held
       THEN /\ inode' = [inode EXCEPT ![i].links = @ - 1]
            /\ UNCHANGED <<blockBits, inodeBits, mapped>>
       ELSE Reclaimed(i, inode[i].links - 1)
    /\ UNCHANGED <<node, held, panicked, writes>>

\* The last reference to the object goes.
LastDrop(i) ==
    /\ ~panicked
    /\ i \in held
    /\ held' = held \ {i}
    /\ Reclaimed(i, inode[i].links)
    /\ UNCHANGED <<node, panicked, writes>>

\* get_inode on an inode that still has a name.
GetInode(i) ==
    /\ ~panicked
    /\ i \notin held
    /\ inode[i].links > 0
    /\ held' = held \cup {i}
    /\ UNCHANGED <<inode, node, blockBits, inodeBits, panicked, mapped, writes>>

---------------------------------------------------------------------------
Ext4Init ==
    /\ inode = [i \in Inodes |-> [links |-> 0, size |-> 0, root |-> EmptyRoot]]
    /\ node = [b \in Blocks |-> NoNode]
    /\ blockBits = {}
    /\ inodeBits = {}
    /\ held = {}
    /\ panicked = FALSE
    /\ mapped = [i \in Inodes |-> NoMap]
    /\ writes = 0

Ext4Next ==
    \/ CreateFile
    \/ \E i \in Inodes :
         \/ Unlink(i) \/ LastDrop(i) \/ GetInode(i)
         \/ \E l \in Logical : WriteAt(i, l) \/ GetSharedPage(i, l)
         \/ \E len \in 0 .. Top + 1 : Truncate(i, len)

Ext4Spec == Ext4Init /\ [][Ext4Next]_ext4vars

---------------------------------------------------------------------------
(* Properties *)

\* Every allocated block belongs to exactly one inode, as data or as a tree
\* block, and every block of a file is found where it was put: whatever
\* order writes, splits, truncations and reclamations come in, the trees
\* never lose a block, share one or keep one that the bitmap gives away.
BlocksExact ==
    /\ \A i \in Inodes, l \in Logical : FindPhysicalBlock(i, l) = mapped[i][l]
    /\ blockBits = UNION {TreeBlocks(inode[i].root, node) : i \in Inodes}
    /\ \A i, j \in Inodes : i # j =>
         TreeBlocks(inode[i].root, node) \cap TreeBlocks(inode[j].root, node) = {}
    /\ \A i \in Inodes : i \in inodeBits <=> inode[i].links > 0 \/ i \in held
=============================================================================
