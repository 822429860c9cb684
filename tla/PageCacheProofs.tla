-------------------------- MODULE PageCacheProofs --------------------------
(***************************************************************************)
(* Under an orderly mix every step keeps Sound, and so no update of a file *)
(* is lost.  Most steps only move their thread on (PageCacheInv); a step   *)
(* that changes a table, an extent or contents has a lemma of its own.     *)
(***************************************************************************)
EXTENDS PageCacheInv

USE ZenonT(60)

-----------------------------------------------------------------------------
(* Steps that change the contents of a page.                               *)

LEMMA OneOwner ==
    ASSUME Sound, NEW f \in File, NEW g \in File \ {f}, ext[f] # None
    PROVE  ext[g] # ext[f]
BY DEF Sound, Tables, Owners

LEMMA OnePage ==
    ASSUME Types, NEW b \in Block, NEW c \in Block \ {b}, map[b] # None
    PROVE  map[c] # map[b]
BY DEF Types, TypeOK

LEMMA NewPage ==
    ASSUME Types, Sound, NEW q \in Thread, th[q].pc = "insert"
    PROVE  /\ th[q].obj \in Page /\ th[q].blk \in Block /\ th[q].file \in File
           /\ th[q].blk = ext[th[q].file]
           /\ \A b \in Block : map[b] # th[q].obj
           /\ \A r \in Thread : mapping[r] # None => mapping[r].obj # th[q].obj
<1>1. th[q] \in Task /\ Shape(th[q]) /\ Local(q)
  BY DEF Types, Threads, Sound
<1>2. th[q].obj \in Page /\ th[q].blk \in Block /\ th[q].file \in File
  BY <1>1 DEF Shape, Task, Placing
<1> QED  BY <1>1, <1>2 DEF Local, Steady, Loaded, Placing

LEMMA FillTables ==
    ASSUME Types, Sound, NEW p \in Thread, Frame(p), NEW o \in Page, NEW f \in File,
           UNCHANGED <<can, ext, len, free, idmap, map, disk>>,
           \A x \in Page : page'[x].discarded = page[x].discarded,
           \A x \in Page \ {o} : page'[x].val = page[x].val,
           \A g \in File \ {f} : /\ content'[g] = content[g]
                                 /\ ext[g] # None => map[ext[g]] # o,
           content'[f] = content[f] \/ ext[f] # None,
           ext[f] # None /\ Counts(f) => map[ext[f]] # None /\ page'[map[ext[f]]].val = content'[f],
           th[p].pc \notin Dealing, th'[p].pc \notin Dealing,
           Pending(p) => th[p].file = f
    PROVE  Tables'
<1>t. ext \in [File -> Block \cup {None}] /\ map \in [Block -> Page \cup {None}]
  BY DEF Types, TypeOK
<1>q. \A q \in Thread \ {p} : Same(q)
  BY DEF Frame
<1>Owners. Owners'  BY <1>t DEF Sound, Tables, Owners
<1>Uncached. Uncached'  BY SMTT(60), <1>t, <1>q DEF Sound, Tables, Uncached, Same, Dealing
<1>Index. Index'  BY SMTT(60), <1>t, <1>q DEF Sound, Tables, Index, Same
<1>Valid. Valid'  BY <1>t DEF Sound, Tables, Valid
<1>Empty. Empty'  BY <1>t DEF Sound, Tables, Empty
<1>Current. Current'
  <2>1. ASSUME NEW g \in File, ext[g] # None, Counts(g)
        PROVE  IF map[ext[g]] # None THEN page'[map[ext[g]]].val = content'[g]
               ELSE disk'[ext[g]] = content'[g] \/ \E q \in Thread : Pending(q)' /\ th'[q].file = g
    <3>1. CASE g = f
      BY <2>1, <3>1
    <3>2. CASE g # f
      <4>1. ASSUME NEW q \in Thread, Pending(q), th[q].file = g
            PROVE  Pending(q)' /\ th'[q].file = g
        BY <1>q, <3>2, <4>1 DEF Same, Pending
      <4>2. ext[g] \in Block
        BY <1>t, <2>1
      <4> QED  BY <1>t, <2>1, <3>2, <4>1, <4>2 DEF Sound, Tables, Current
    <3> QED  BY <3>1, <3>2
  <2> QED  BY <1>t, <2>1 DEF Current, Counts
<1> QED  BY <1>Owners, <1>Uncached, <1>Index, <1>Valid, <1>Empty, <1>Current DEF Tables

\* get_new_page_cache zeroes the page of a file that is still empty.
LEMMA ZeroStep ==
    ASSUME Types, Types', Sound, NEW p \in Thread, Frame(p), Grip(p), Zero(p)
    PROVE  Sound'
<1> DEFINE f == th[p].file  b == th[p].blk  o == th[p].obj
<1>t. /\ th \in [Thread -> Task] /\ th[p] \in Task /\ Shape(th[p]) /\ Local(p)
      /\ page \in [Page -> [blk : Block \cup {None}, val : 0 .. can.writes, dirty : BOOLEAN,
                            discarded : BOOLEAN]]
      /\ bmlock \in [File -> Thread \cup {None}]
  BY DEF Types, TypeOK, Threads, Sound
<1>1. /\ UNCHANGED <<can, ext, len, free, disk, idmap, map, mapping, wlock, mlock, content>>
      /\ th[p].pc = "zero" /\ th[p].op \in {"write", "map"} /\ th[p].fresh
      /\ f \in File /\ b \in Block /\ o \in Page
  BY <1>t DEF Zero, files, ghosts, At, Shape, Placing, Task
<1>2. b = ext[f] /\ map[b] = o /\ page[o].blk = b /\ content[f] = 0 /\ o # None /\ b # None
  <2>1. b = ext[f] /\ map[b] = o /\ content[f] = 0
    BY <1>t, <1>1 DEF Local, Steady, Held, Fresh, Pending, Placing
  <2> QED  BY SMTT(60), <1>1, <2>1, NoneFresh DEF Types, TypeOK
<1>3. Gets(p, o) /\ th'[p].seen = th[p].seen
  BY <1>t, FoundNow DEF Zero, Found, Task
<1>4. /\ \A x \in Page : page'[x].blk = page[x].blk /\ page'[x].discarded = page[x].discarded
      /\ \A x \in Page \ {o} : page'[x].val = page[x].val
      /\ page'[o].val = 0
  BY <1>t, <1>1 DEF Zero
<1>5. \A g \in File \ {f} : ext[g] # None => map[ext[g]] # o
  <2>1. ASSUME NEW g \in File \ {f}, ext[g] # None PROVE ext[g] \in Block \ {b}
    BY SMTT(60), <1>1, <1>2, <2>1, OneOwner DEF Types, TypeOK
  <2> QED  BY <1>1, <1>2, <2>1, OnePage
<1>6. Tables'
  <2>1. th'[p].pc = "have"
    BY <1>3 DEF Gets, Now
  <2>2. content'[f] = content[f] /\ map[ext[f]] # None /\ page'[map[ext[f]]].val = content'[f]
    BY <1>1, <1>2, <1>4, NoneFresh
  <2> HIDE DEF f, o, b
  <2>3. th[p].file = f
    BY DEF f
  <2> QED  BY <1>1, <1>4, <1>5, <2>1, <2>2, <2>3, FillTables DEF Dealing
<1>7. Keeps(p)
  <2>1. Mine(p)
    BY <1>t, <1>1 DEF Mine, Zero, Found, Unlocked
  <2>2. ASSUME NEW q \in Thread \ {p}
        PROVE  /\ th[q].pc = "insert" => page'[th[q].obj].val = page[th[q].obj].val
               /\ th[q].op = "read" => content'[th[q].file] \in th'[q].seen
    <3>1. th[q].pc = "insert" => th[q].obj \in Page /\ th[q].obj # o
      BY <1>1, <1>2, NewPage
    <3> QED  BY <1>1, <1>4, <3>1 DEF Sound, Local, Seen, Frame, Same
  <2> QED  BY <1>1, <1>3, <1>4, <2>1, <2>2 DEF Keeps, Mapped, Pages, Device, Gets, Now
<1>8. Local(p)'
  <2>1. /\ mapping'[p] # None => Attached(mapping[p].obj, mapping[p].file)'
        /\ Attached(o, f)'
    <3>1. ASSUME NEW x \in Page, NEW g, Attached(x, g) PROVE Attached(x, g)'
      BY <1>1, <1>4, <3>1 DEF Attached
    <3>2. Attached(o, f) /\ o' = o /\ f' = f
      BY <1>1, <1>2, <1>3, OneOwner DEF Attached, Gets, Now
    <3>3. mapping[p] # None => mapping[p].obj \in Page /\ Attached(mapping[p].obj, mapping[p].file)
      BY <1>t DEF Types, Threads, Local, Uses
    <3> HIDE DEF o, f
    <3> QED  BY <1>1, <3>1, <3>2, <3>3
  <2>2. Locked(p)' /\ Released(p)' /\ Steady(p)' /\ Loaded(p)' /\ Fresh(p)' /\ Seen(p)'
    BY <1>t, <1>1, <1>3 DEF Gets, Now, Local, Locked, Released, Steady, Loaded, Fresh, Seen, Pending,
       Placing, Dealing
  <2>3. Held(p)'
    BY <1>1, <1>2, <1>3, <1>4 DEF Gets, Now, Held
  <2>4. Uses(p)' /\ Published(p)'
    <3>1. /\ th'[p].pc = "have" /\ th'[p].op = th[p].op /\ th'[p].file = f /\ th'[p].obj = o
          /\ ext'[f] = b /\ map'[b] = o
      BY <1>1, <1>2, <1>3 DEF Gets, Now
    <3>2. Published(p)'
      BY <1>t, <1>1, <3>1 DEF Local, Published
    <3> QED  BY <1>1, <1>2, <2>1, <3>1, <3>2 DEF Uses
  <2> QED  BY <2>2, <2>3, <2>4 DEF Local
<1> QED  BY <1>6, <1>7, <1>8, KeepsOthers DEF Sound

\* Beside a write no thread is filling a new page of the same file.
LEMMA WriteAlone ==
    ASSUME Types, Sound, Orderly, NEW p \in Thread, th[p].op = "write",
           NEW q \in Thread \ {p}, Pending(q)
    PROVE  th[q].file # th[p].file
<1>1. Shape(th[p]) /\ Shape(th[q]) /\ Local(p) /\ Local(q)
  BY DEF Types, Threads, Sound
<1>2. CASE th[q].op = "write"
  BY <1>1, <1>2 DEF Local, Locked
<1>3. CASE th[q].op = "map"
  <2>1. "write" \in can.ops /\ "map" \in can.ops
    BY <1>1, <1>3 DEF Shape
  <2>2. "truncate" \notin can.ops
    BY <2>1 DEF Orderly
  <2> QED  BY <1>1, <1>3, <2>2 DEF Local, Published, Fresh
<1> QED  BY <1>1, <1>2, <1>3 DEF Pending, Shape

\* write_at fills the page of its own file.
LEMMA WriteStep ==
    ASSUME Types, Types', Sound, Orderly, NEW p \in Thread, Frame(p), Grip(p), Write(p)
    PROVE  Sound'
<1> DEFINE f == th[p].file  o == th[p].obj
<1>t. /\ th \in [Thread -> Task] /\ th[p] \in Task /\ Shape(th[p]) /\ Local(p)
      /\ page \in [Page -> [blk : Block \cup {None}, val : 0 .. can.writes, dirty : BOOLEAN,
                            discarded : BOOLEAN]]
      /\ content \in [File -> 0 .. can.writes]
  BY DEF Types, TypeOK, Threads, Sound
<1>1. /\ UNCHANGED <<can, ext, len, free, disk, idmap, map, mapping, wlock, bmlock, mlock>>
      /\ th[p].pc = "have" /\ th[p].op = "write" /\ f \in File /\ o \in Page /\ o # None
      /\ content' = [content EXCEPT ![f] = ver + 1]
  BY <1>t DEF Write, files, locks, At, Shape, Task, Contents
<1>2. ext[f] \in Block /\ ext[f] # None /\ map[ext[f]] = o
  BY <1>t, <1>1 DEF Local, Uses, Types, TypeOK
<1>3. /\ Moved(p, "wrote")
      /\ \A q \in Thread : th'[q].file = f => ver + 1 \in th'[q].seen
  BY WriteNow
<1>4. /\ \A x \in Page : page'[x].blk = page[x].blk /\ page'[x].discarded = page[x].discarded
      /\ \A x \in Page \ {o} : page'[x].val = page[x].val
      /\ page'[o].val = ver + 1
  BY <1>t, <1>1 DEF Write
<1>5. \A g \in File \ {f} : ext[g] # None => map[ext[g]] # o
  <2>1. ASSUME NEW g \in File \ {f}, ext[g] # None PROVE ext[g] \in Block \ {ext[f]}
    BY SMTT(60), <1>1, <1>2, <2>1, OneOwner DEF Types, TypeOK
  <2> QED  BY <1>1, <1>2, <2>1, OnePage
<1>6. Tables'
  <2>1. th'[p].pc = "wrote"
    BY <1>3 DEF Moved, Now
  <2>2. /\ map[ext[f]] # None /\ page'[map[ext[f]]].val = content'[f]
        /\ \A g \in File \ {f} : content'[g] = content[g]
    BY <1>t, <1>1, <1>2, <1>4
  <2>3. ~Pending(p)
    BY <1>1 DEF Pending, Placing
  <2> HIDE DEF f, o
  <2> QED  BY SMTT(60), <1>1, <1>2, <1>4, <1>5, <2>1, <2>2, <2>3, FillTables DEF Dealing
<1>7. Keeps(p)
  <2>2. ASSUME NEW q \in Thread \ {p}
        PROVE  /\ th[q].pc = "insert" => page'[th[q].obj].val = page[th[q].obj].val
               /\ th[q].op = "read" => content'[th[q].file] \in th'[q].seen
               /\ Pending(q) => content'[th[q].file] = content[th[q].file]
    <3>1. th[q].pc = "insert" => th[q].obj \in Page /\ th[q].obj # o
      BY <1>1, <1>2, NewPage
    <3>2. th[q].op = "read" => th[q].file \in File
      BY DEF Types, Threads, Shape, Task
    <3>3. Pending(q) => th[q].file \in File /\ th[q].file # f
      BY <1>1, WriteAlone DEF Types, Threads, Shape, Task, Pending
    <3>4. th'[q].file = th[q].file /\ th[q].seen \subseteq th'[q].seen /\ Seen(q)
      BY DEF Sound, Local, Frame, Same
    <3>5. th[q].op = "read" => content'[th[q].file] \in th'[q].seen
      BY <1>t, <1>1, <1>3, <3>2, <3>4 DEF Seen
    <3> HIDE DEF f, o
    <3> QED  BY <1>t, <1>1, <1>4, <3>1, <3>3, <3>5
  <2> QED  BY <1>1, <1>3, <1>4, <2>2 DEF Keeps, Mine, Mapped, Pages, Device, Moved, Now
<1>8. Local(p)'
  <2>1. mapping'[p] # None => Attached(mapping[p].obj, mapping[p].file)'
    <3>1. ASSUME NEW x \in Page, NEW g, Attached(x, g) PROVE Attached(x, g)'
      BY <1>1, <1>4, <3>1 DEF Attached
    <3>2. mapping[p] # None => mapping[p].obj \in Page /\ Attached(mapping[p].obj, mapping[p].file)
      BY <1>t DEF Types, Threads, Local, Uses
    <3> QED  BY <1>1, <3>1, <3>2
  <2>2. Locked(p)' /\ Released(p)' /\ Steady(p)' /\ Loaded(p)' /\ Fresh(p)' /\ Seen(p)'
    BY <1>t, <1>1, <1>3 DEF Moved, Now, Local, Locked, Released, Steady, Loaded, Fresh, Seen, Pending,
       Placing, Dealing
  <2>3. Held(p)'
    BY <1>t, <1>1, <1>3, <1>4 DEF Moved, Now, Local, Held
  <2>4. Uses(p)' /\ Published(p)'
    BY <1>t, <1>1, <1>2, <1>3, <2>1 DEF Moved, Now, Local, Uses, Published
  <2> QED  BY <2>2, <2>3, <2>4 DEF Local
<1> QED  BY <1>6, <1>7, <1>8, KeepsOthers DEF Sound

\* A store through a mapping reaches the page of the mapped file, or a page that
\* no file has any more.
LEMMA StoreStep ==
    ASSUME Types, Types', Sound, NEW p \in Thread, Frame(p), Grip(p), Store(p)
    PROVE  Sound'
<1> DEFINE f == mapping[p].file  o == mapping[p].obj
<1>t. /\ th \in [Thread -> Task] /\ th[p] \in Task /\ Shape(th[p]) /\ Local(p)
      /\ page \in [Page -> [blk : Block \cup {None}, val : 0 .. can.writes, dirty : BOOLEAN,
                            discarded : BOOLEAN]]
      /\ content \in [File -> 0 .. can.writes] /\ map \in [Block -> Page \cup {None}]
      /\ ext \in [File -> Block \cup {None}]
  BY DEF Types, TypeOK, Threads, Sound
<1>1. /\ UNCHANGED <<can, ext, len, free, disk, idmap, map, mapping, wlock, bmlock, mlock>>
      /\ th[p].pc = "idle" /\ th[p].op = None /\ f \in File /\ o \in Page /\ mapping[p] # None
      /\ "map" \in can.ops
  BY <1>t, StoreNow DEF Store, files, locks, At, Shape, Types, Threads
<1>2. /\ Moved(p, "idle")
      /\ len[f] => /\ content' = [content EXCEPT ![f] = ver + 1]
                   /\ \A q \in Thread : th'[q].file = f => ver + 1 \in th'[q].seen
      /\ ~len[f] => UNCHANGED <<content, th>>
  BY StoreNow DEF Store
<1>3. /\ \A x \in Page : page'[x].blk = page[x].blk /\ page'[x].discarded = page[x].discarded
      /\ \A x \in Page \ {o} : page'[x].val = page[x].val
      /\ page'[o].val = ver + 1
  BY <1>t, <1>1 DEF Store
<1>4. /\ Attached(o, f)
      /\ "truncate" \notin can.ops => len[f]
  BY <1>t, <1>1 DEF Local, Uses, Published
<1>5. \A g \in File \ {f} : ext[g] # None => map[ext[g]] # o
  <2>1. ASSUME NEW g \in File \ {f}, ext[g] # None, map[ext[g]] = o PROVE FALSE
    <3>1. ext[g] \in Block /\ page[o].blk = ext[g] /\ ~page[o].discarded
      BY <1>t, <1>1, <2>1, NoneFresh DEF Types, TypeOK, Sound, Tables, Valid
    <3> QED  BY <1>4, <2>1, <3>1 DEF Attached
  <2> QED  BY <2>1
<1>6. len[f] => ext[f] # None /\ map[ext[f]] = o
  BY <1>4 DEF Attached
<1>7. ext[f] # None /\ Counts(f) => map[ext[f]] # None /\ page'[map[ext[f]]].val = content'[f]
  <2>1. Counts(f) => len[f]
    BY <1>1, <1>4 DEF Counts
  <2> QED  BY <1>t, <1>1, <1>2, <1>3, <1>6, <2>1, NoneFresh
<1>8. Tables'
  <2>1. th'[p].pc = "idle" /\ ~Pending(p)
    BY <1>1, <1>2 DEF Moved, Now, Pending, Placing
  <2>2. /\ content'[f] = content[f] \/ ext[f] # None
        /\ \A g \in File \ {f} : content'[g] = content[g]
    BY <1>t, <1>1, <1>2, <1>6
  <2> HIDE DEF f, o
  <2> QED  BY SMTT(60), <1>1, <1>3, <1>5, <1>7, <2>1, <2>2, FillTables DEF Dealing
<1>9. Keeps(p)
  <2>2. ASSUME NEW q \in Thread \ {p}
        PROVE  /\ th[q].pc = "insert" => page'[th[q].obj].val = page[th[q].obj].val
               /\ th[q].op = "read" => content'[th[q].file] \in th'[q].seen
               /\ Pending(q) => content'[th[q].file] = content[th[q].file]
    <3>1. th[q].pc = "insert" => th[q].obj \in Page /\ th[q].obj # o
      BY <1>1, NewPage
    <3>2. th[q].op = "read" => th[q].file \in File
      BY DEF Types, Threads, Shape, Task
    <3>3. Pending(q) => th[q].file \in File /\ ~len[th[q].file]
      BY DEF Types, Threads, Shape, Task, Pending, Sound, Local, Fresh
    <3>4. th'[q].file = th[q].file /\ th[q].seen \subseteq th'[q].seen /\ Seen(q)
      BY DEF Sound, Local, Frame, Same
    <3>5. th[q].op = "read" => content'[th[q].file] \in th'[q].seen
      BY <1>t, <1>1, <1>2, <3>2, <3>4 DEF Seen
    <3> HIDE DEF f, o
    <3> QED  BY <1>t, <1>1, <1>2, <1>3, <3>1, <3>3, <3>5
  <2> QED  BY <1>1, <1>2, <1>3, <2>2 DEF Keeps, Mine, Mapped, Pages, Device, Moved, Now
<1>10. Local(p)'
  <2>1. mapping'[p] # None => Attached(mapping[p].obj, mapping[p].file)'
    <3>1. ASSUME NEW x \in Page, NEW g, Attached(x, g) PROVE Attached(x, g)'
      BY <1>1, <1>3, <3>1 DEF Attached
    <3> QED  BY <1>1, <1>4, <3>1
  <2>2. None \notin {"read", "write", "map", "unmap", "truncate"}
    BY NoneFresh DEF Ops
  <2>3. Locked(p)' /\ Released(p)' /\ Steady(p)' /\ Loaded(p)' /\ Fresh(p)' /\ Seen(p)'
    BY <1>1, <1>2, <2>2 DEF Moved, Now, Locked, Released, Steady, Loaded, Fresh, Seen, Pending,
       Placing, Dealing
  <2>4. Held(p)'
    <3>1. th[p].obj # None => th[p].obj \in Page
      BY <1>t DEF Task
    <3> QED  BY <1>t, <1>1, <1>2, <1>3, <3>1 DEF Moved, Now, Local, Held
  <2>5. Uses(p)' /\ Published(p)'
    BY <1>t, <1>1, <1>2, <2>1, <2>2 DEF Moved, Now, Local, Uses, Published
  <2> QED  BY <2>3, <2>4, <2>5 DEF Local
<1> QED  BY <1>8, <1>9, <1>10, KeepsOthers DEF Sound

-----------------------------------------------------------------------------
(* Steps that change an extent, the bitmap or the table of the pages.      *)

\* The others keep their locks.
LEMMA LocksStay ==
    ASSUME Types, Sound, NEW p \in Thread, Mine(p), NEW q \in Thread \ {p}, Same(q)
    PROVE  Locked(q)'
<1>1. th[q] \in Task /\ Shape(th[q]) /\ Locked(q)
  BY DEF Types, Threads, Sound, Local
<1> QED  BY SMTT(60), <1>1, NoneFresh DEF Locked, Mine, Shape, Task, Dealing, Placing, Same

\* A new block is nobody's and has no page.
LEMMA AllocateStep ==
    ASSUME Types, Types', Sound, NEW p \in Thread, Frame(p), Grip(p), Allocate(p)
    PROVE  Sound'
<1> DEFINE f == th[p].file
<1>t. /\ th \in [Thread -> Task] /\ th[p] \in Task /\ Shape(th[p]) /\ Local(p)
      /\ ext \in [File -> Block \cup {None}] /\ map \in [Block -> Page \cup {None}]
      /\ free \subseteq Block
  BY DEF Types, TypeOK, Threads, Sound
<1>1. /\ UNCHANGED <<can, len, disk, idmap, map, page, mapping, wlock, bmlock, mlock, content>>
      /\ th[p].pc = "extent" /\ th[p].op \in {"write", "map"} /\ f \in File
      /\ ext[f] = None /\ mlock = None /\ bmlock[f] = p
  BY <1>t DEF Allocate, locks, ghosts, At, Shape, Task, Local, Locked
<1>2. PICK b \in free : /\ free' = free \ {b} /\ ext' = [ext EXCEPT ![f] = b]
                        /\ th' = [th EXCEPT ![p].blk = b, ![p].fresh = TRUE, ![p].pc = "id"]
  BY DEF Allocate
<1>3. Now(p, "id", th[p].op, f, b, th[p].obj) /\ th'[p].fresh
  BY <1>t, <1>2, BlockNow
<1>4. ext'[f] = b /\ b \in Block /\ b # None /\ \A g \in File \ {f} : ext'[g] = ext[g] /\ ext[g] # b
  BY <1>t, <1>1, <1>2, NoneFresh DEF Sound, Tables, Owners
<1>5. map[b] = None
  BY <1>1, <1>2, NoneFresh DEF Sound, Tables, Uncached, Local, Locked
<1>6. ~len[f] /\ content[f] = 0
  BY <1>1 DEF Sound, Tables, Empty
<1>7. idmap[f] = None
  <2>1. ASSUME NEW q \in Thread, th[q].pc \in Dealing, th[q].file = f PROVE FALSE
    <3>1. bmlock[f] = q
      BY <2>1 DEF Sound, Local, Locked
    <3> QED  BY <1>1, <2>1, <3>1 DEF Dealing
  <2> QED  BY <1>1, <2>1 DEF Sound, Tables, Index
<1>q. \A q \in Thread \ {p} : Same(q)
  BY DEF Frame
<1>a. ASSUME NEW o \in Page, NEW g \in File, Attached(o, g) PROVE Attached(o, g)'
  BY SMTT(60), <1>t, <1>1, <1>4, <1>5, <1>6, <1>a, NoneFresh DEF Attached
<1> HIDE DEF f
<1>Tables. Tables'
  <2>Owners. Owners'
    BY <1>t, <1>2, <1>4, NoneFresh DEF Sound, Tables, Owners
  <2>Uncached. Uncached'
    <3>1. ASSUME NEW c \in free', map[c] # None
          PROVE  \E q \in Thread : th'[q].pc = "discard" /\ th'[q].blk = c
      <4>1. PICK q \in Thread : th[q].pc = "discard" /\ th[q].blk = c
        BY <1>2, <3>1 DEF Sound, Tables, Uncached
      <4> QED  BY <1>1, <1>q, <4>1 DEF Same
    <3> QED  BY <1>1, <3>1 DEF Uncached
  <2>Index. Index'
    <3>1. ASSUME NEW g \in File, idmap[g] # None, idmap[g] # ext'[g]
          PROVE  \E q \in Thread : th'[q].pc \in Dealing /\ th'[q].file = g /\ th'[q].blk = idmap[g]
      <4>1. PICK q \in Thread : th[q].pc \in Dealing /\ th[q].file = g /\ th[q].blk = idmap[g]
        BY <1>4, <1>7, <3>1 DEF Sound, Tables, Index
      <4> QED  BY <1>1, <1>q, <4>1 DEF Same, Dealing
    <3> QED  BY <1>1, <3>1 DEF Index
  <2>Valid. Valid'  BY <1>1 DEF Sound, Tables, Valid
  <2>Empty. Empty'  BY <1>1, <1>4, NoneFresh DEF Sound, Tables, Empty
  <2>Current. Current'
    <3>1. ASSUME NEW g \in File, ext'[g] # None, Counts(g)
          PROVE  IF map[ext'[g]] # None THEN page[map[ext'[g]]].val = content[g]
                 ELSE disk[ext'[g]] = content[g] \/ \E q \in Thread : Pending(q)' /\ th'[q].file = g
      <4>1. CASE g = f
        <5>1. Pending(p)' /\ th'[p].file = f
          BY <1>3 DEF Now, Pending, Placing, f
        <5> QED  BY <1>4, <1>5, <4>1, <5>1
      <4>2. CASE g # f
        <5>1. ASSUME NEW q \in Thread, Pending(q), th[q].file = g
              PROVE  Pending(q)' /\ th'[q].file = g
          BY <1>1, <1>q, <5>1 DEF Same, Pending, Placing
        <5> QED  BY <1>4, <3>1, <4>2, <5>1 DEF Sound, Tables, Current
      <4> QED  BY <4>1, <4>2
    <3> QED  BY <1>1, <3>1 DEF Current, Counts
  <2> QED  BY <2>Owners, <2>Uncached, <2>Index, <2>Valid, <2>Empty, <2>Current DEF Tables
<1>Others. ASSUME NEW q \in Thread \ {p} PROVE Local(q)'
  <2>t. th[q] \in Task /\ Shape(th[q]) /\ Local(q) /\ Same(q)
        /\ (mapping[q] # None => mapping[q].file \in File /\ mapping[q].obj \in Page)
    BY <1>q DEF Types, Threads, Sound
  <2>f. th[q].op \in {"read", "write", "map"} => th[q].file \in File
    BY <2>t DEF Shape, Task
  <2> USE DEF Same
  <2>1. Locked(q)'
    BY <1>1, <2>t, LocksStay DEF Mine
  <2>2. Released(q)'
    <3>1. th[q].pc \in {"discard", "forget"} => FALSE
      BY <1>1, <2>t, NoneFresh DEF Local, Locked
    <3>2. th[q].pc = "dealloc" => th[q].blk # b
      BY <1>2, <2>t DEF Local, Released
    <3>3. \A r \in Thread : th'[r].pc = "dealloc" => th[r].pc = "dealloc" /\ th'[r].blk = th[r].blk
      BY <1>3, <1>q DEF Now
    <3>4. th[q].pc \in Dealing => \A g \in File : ext'[g] # th[q].blk
      <4>1. th[q].pc \in Dealing => \A g \in File : ext[g] # th[q].blk
        BY <2>t DEF Local, Released
      <4> QED  BY <1>4, <3>1, <3>2, <4>1 DEF Dealing
    <3>5. th[q].pc = "dealloc" =>
             /\ th[q].blk \notin free
             /\ \A r \in Thread \ {q} : th[r].pc = "dealloc" => th[r].blk # th[q].blk
      BY <2>t DEF Local, Released
    <3>6. th'[q].pc \in Dealing => \A g \in File : ext'[g] # th'[q].blk
      BY <2>t, <3>4
    <3>7. th'[q].pc = "dealloc" => th'[q].blk \notin free'
      <4>1. free' \subseteq free
        BY <1>2
      <4> QED  BY <2>t, <3>5, <4>1
    <3>8. th'[q].pc = "dealloc" =>
             \A r \in Thread \ {q} : th'[r].pc = "dealloc" => th'[r].blk # th'[q].blk
      BY <2>t, <3>3, <3>5
    <3> QED  BY <2>t, <3>1, <3>6, <3>7, <3>8 DEF Released
  <2>3. Steady(q)'
    BY <1>1, <1>4, <2>t, <2>f DEF Local, Steady, Shape, Placing
  <2>4. Held(q)'
    BY <1>1, <2>t DEF Local, Held
  <2>5. Loaded(q)'
    <3>1. \A r \in Thread : th'[r].obj = th[r].obj
      BY <1>3, <1>q DEF Now
    <3>2. Loaded(q)
      BY <2>t DEF Local
    <3> QED  BY <1>1, <2>t, <3>1, <3>2 DEF Loaded
  <2>6. Uses(q)'
    <3>1. th[q].op \in {"read", "write"} /\ th[q].pc \in {"have", "wrote"} =>
             ext'[th[q].file] # None /\ map[ext'[th[q].file]] = th[q].obj
      BY <1>1, <1>4, <2>t, <2>f DEF Local, Uses
    <3>2. th[q].op = "map" /\ th[q].pc = "have" => th[q].obj \in Page
      BY <2>t DEF Shape, Task
    <3> QED  BY <1>1, <1>a, <2>t, <2>f, <3>1, <3>2 DEF Local, Uses
  <2>7. Published(q)' /\ Fresh(q)' /\ Seen(q)'
    BY <1>1, <2>t DEF Local, Published, Fresh, Pending, Seen
  <2> QED  BY <2>1, <2>2, <2>3, <2>4, <2>5, <2>6, <2>7 DEF Local
<1>Own. Local(p)'
  <2>1. /\ th'[p].pc = "id" /\ th'[p].op = th[p].op /\ th'[p].file = f /\ th'[p].blk = b
        /\ th'[p].obj = th[p].obj /\ th[p].file = f
    BY <1>3 DEF Now, f
  <2>2. Locked(p)' /\ Released(p)' /\ Steady(p)' /\ Loaded(p)' /\ Fresh(p)' /\ Seen(p)'
    BY <1>t, <1>1, <1>4, <1>5, <1>6, <2>1 DEF Local, Locked, Released, Steady, Loaded, Fresh, Seen,
       Pending, Placing, Dealing
  <2>3. Held(p)'
    BY <1>t, <1>1, <2>1 DEF Local, Held
  <2>4. Uses(p)' /\ Published(p)'
    <3>1. mapping[p] # None => mapping[p].file \in File /\ mapping[p].obj \in Page
      BY DEF Types, Threads
    <3> QED  BY <1>t, <1>1, <1>a, <2>1, <3>1 DEF Local, Uses, Published
  <2> QED  BY <2>2, <2>3, <2>4 DEF Local
<1> QED  BY <1>Tables, <1>Others, <1>Own DEF Sound

\* While a thread with an old block of a file inserts its page, no other thread
\* has a new one for it.
LEMMA NoOtherFresh ==
    ASSUME Types, Sound, Orderly, NEW p \in Thread, th[p].pc = "insert",
           NEW q \in Thread \ {p}, Pending(q)
    PROVE  th[q].file # th[p].file
<1>1. Shape(th[p]) /\ Shape(th[q]) /\ Local(p) /\ Local(q)
  BY DEF Types, Threads, Sound
<1>2. th[q].op \in {"write", "map"} /\ bmlock[th[q].file] = q
  BY <1>1 DEF Shape, Pending, Local, Locked
<1>3. CASE th[p].op \in {"write", "map"}
  <2>1. bmlock[th[p].file] = p
    BY <1>1, <1>3 DEF Local, Locked, Placing
  <2> QED  BY <1>2, <2>1
<1>4. CASE th[p].op = "read"
  <2>1. "truncate" \notin can.ops
    BY <1>1, <1>4 DEF Shape, Orderly
  <2> QED  BY <1>1, <1>4, <2>1 DEF Local, Published, Fresh
<1> QED  BY <1>1, <1>3, <1>4 DEF Shape, Placing

\* The page enters the table: it holds what the file contains.
LEMMA InsertStep ==
    ASSUME Types, Types', Sound, Orderly, NEW p \in Thread, Frame(p), Grip(p), Insert(p)
    PROVE  Sound'
<1> DEFINE f == th[p].file  b == th[p].blk  o == th[p].obj
<1>t. /\ th \in [Thread -> Task] /\ th[p] \in Task /\ Shape(th[p]) /\ Local(p)
      /\ ext \in [File -> Block \cup {None}] /\ map \in [Block -> Page \cup {None}]
  BY DEF Types, TypeOK, Threads, Sound
<1>1. /\ UNCHANGED <<can, ext, len, free, disk, idmap, page, mapping, wlock, bmlock, mlock, content>>
      /\ th[p].pc = "insert" /\ th[p].op \in {"read", "write", "map"} /\ map[b] = None
      /\ map' = [map EXCEPT ![b] = o]
  BY <1>t DEF Insert, files, locks, ghosts, At, Shape, Placing
<1>2. /\ f \in File /\ b \in Block /\ o \in Page /\ b = ext[f] /\ b # None /\ o # None
      /\ \A c \in Block : map[c] # o
      /\ \A r \in Thread : mapping[r] # None => mapping[r].obj # o
  BY <1>1, NewPage, NoneFresh
<1>3. /\ page[o].blk = b /\ ~page[o].discarded
      /\ page[o].val = (IF th[p].fresh THEN 0 ELSE disk[b])
      /\ \A q \in Thread \ {p} : th[q].obj # o
  BY <1>t, <1>1 DEF Types, Blocks, Local, Loaded
<1>4. map'[b] = o /\ \A c \in Block \ {b} : map'[c] = map[c]
  BY <1>t, <1>1, <1>2
<1>5. Moved(p, "count") /\ th'[p].seen = th[p].seen
  BY <1>t, GotoNow DEF Insert, Goto, Task
<1>q. \A q \in Thread \ {p} : Same(q)
  BY DEF Frame
<1>a. ASSUME NEW x \in Page, NEW g, Attached(x, g) PROVE Attached(x, g)'
  <2>1. page[x].blk # None => page[x].blk \in Block
    BY DEF Types, TypeOK
  <2>2. map[page[x].blk] = x /\ page[x].blk # None => page[x].blk # b
    BY <1>1, <2>1, NoneFresh
  <2> QED  BY <1>1, <1>4, <1>a, <2>1, <2>2 DEF Attached
<1>p. ASSUME NEW q \in Thread \ {p}, Pending(q) PROVE th[q].file # f
  BY <1>1, <1>p, NoOtherFresh
<1>o. \A g \in File : ext[g] = b => g = f
  BY <1>2, OneOwner
<1>f. th[p].file = f /\ th[p].blk = b /\ th[p].obj = o
  OBVIOUS
<1> HIDE DEF f, b, o
<1>Tables. Tables'
  <2>Owners. Owners'  BY <1>1 DEF Sound, Tables, Owners
  <2>Uncached. Uncached'
    <3>1. ASSUME NEW c \in free, map'[c] # None
          PROVE  \E q \in Thread : th'[q].pc = "discard" /\ th'[q].blk = c
      <4>1. c # b /\ c \in Block
        BY <1>2 DEF Sound, Tables, Owners, Types, TypeOK
      <4>2. PICK q \in Thread : th[q].pc = "discard" /\ th[q].blk = c
        BY <1>4, <3>1, <4>1 DEF Sound, Tables, Uncached
      <4> QED  BY <1>1, <1>q, <4>2 DEF Same
    <3> QED  BY <1>1, <3>1 DEF Uncached
  <2>Index. Index'
    <3>1. ASSUME NEW g \in File, idmap[g] # None, idmap[g] # ext[g]
          PROVE  \E q \in Thread : th'[q].pc \in Dealing /\ th'[q].file = g /\ th'[q].blk = idmap[g]
      <4>1. PICK q \in Thread : th[q].pc \in Dealing /\ th[q].file = g /\ th[q].blk = idmap[g]
        BY <3>1 DEF Sound, Tables, Index
      <4> QED  BY <1>1, <1>q, <4>1 DEF Same, Dealing
    <3> QED  BY <1>1, <3>1 DEF Index
  <2>Valid. Valid'
    BY <1>1, <1>3, <1>4 DEF Sound, Tables, Valid
  <2>Empty. Empty'  BY <1>1 DEF Sound, Tables, Empty
  <2>Current. Current'
    <3>1. ASSUME NEW g \in File, ext[g] # None, Counts(g)
          PROVE  IF map'[ext[g]] # None THEN page[map'[ext[g]]].val = content[g]
                 ELSE disk[ext[g]] = content[g] \/ \E q \in Thread : Pending(q)' /\ th'[q].file = g
      <4>1. CASE g = f
        <5>1. CASE th[p].fresh
          BY <1>t, <1>1, <1>2, <1>3, <1>4, <1>f, <4>1, <5>1 DEF Local, Fresh, Pending, Placing
        <5>2. CASE ~th[p].fresh
          <6>1. \A q \in Thread : ~(Pending(q) /\ th[q].file = f)
            BY <1>p, <5>2 DEF Pending
          <6>2. disk[b] = content[f]
            BY <1>1, <1>2, <3>1, <4>1, <6>1 DEF Sound, Tables, Current
          <6> QED  BY <1>2, <1>3, <1>4, <4>1, <5>2, <6>2
        <5> QED  BY <5>1, <5>2
      <4>2. CASE g # f
        <5>1. ext[g] \in Block \ {b}
          BY <1>t, <1>o, <3>1, <4>2
        <5>2. ASSUME NEW q \in Thread, Pending(q), th[q].file = g
              PROVE  Pending(q)' /\ th'[q].file = g
          BY <1>q, <1>f, <4>2, <5>2 DEF Same, Pending
        <5> QED  BY <1>4, <3>1, <5>1, <5>2 DEF Sound, Tables, Current
      <4> QED  BY <4>1, <4>2
    <3> QED  BY <1>1, <3>1 DEF Current, Counts
  <2> QED  BY <2>Owners, <2>Uncached, <2>Index, <2>Valid, <2>Empty, <2>Current DEF Tables
<1>Others. ASSUME NEW q \in Thread \ {p} PROVE Local(q)'
  <2>t. /\ th[q] \in Task /\ Shape(th[q]) /\ Local(q) /\ Same(q)
        /\ (mapping[q] # None => mapping[q].obj \in Page)
    BY <1>q DEF Types, Threads, Sound
  <2>f. /\ th[q].op \in {"read", "write", "map"} => th[q].file \in File
        /\ th[q].pc \in Placing => th[q].blk \in Block
        /\ th[q].obj # None => th[q].obj \in Page
    BY <2>t DEF Shape, Task
  <2> USE DEF Same
  <2>1. Locked(q)'
    BY <1>1, <2>t, LocksStay DEF Mine
  <2>2. Released(q)'
    <3>1. \A r \in Thread : th'[r].pc = "dealloc" => th[r].pc = "dealloc" /\ th'[r].blk = th[r].blk
      BY <1>5, <1>q DEF Moved, Now
    <3> QED  BY <1>1, <2>t, <3>1 DEF Local, Released
  <2>3. Steady(q)'
    BY <1>1, <2>t DEF Local, Steady
  <2>4. Held(q)'
    <3>1. ASSUME th[q].obj # None, th[q].pc # "insert", ~page[th[q].obj].discarded
          PROVE  map'[page[th[q].obj].blk] = th[q].obj
      <4>1. map[page[th[q].obj].blk] = th[q].obj /\ page[th[q].obj].blk \in Block
        <5>1. map[page[th[q].obj].blk] = th[q].obj
          BY <2>t, <3>1 DEF Local, Held
        <5>2. page[th[q].obj].blk \in Block \cup {None} /\ page[th[q].obj].blk # None
          BY <2>f, <3>1 DEF Types, TypeOK, Blocks
        <5> QED  BY <5>1, <5>2
      <4> QED  BY <1>1, <1>4, <1>f, <3>1, <4>1
    <3>2. th[q].pc \in {"count", "zero"} => map'[th[q].blk] = th[q].obj
      <4>1. ASSUME th[q].pc \in {"count", "zero"}
            PROVE  map[th[q].blk] = th[q].obj /\ th[q].blk \in Block \ {b}
        <5>1. map[th[q].blk] = th[q].obj /\ th[q].obj # None /\ th[q].blk \in Block
          BY <2>t, <2>f, <4>1 DEF Local, Held, Shape, Placing
        <5> QED  BY <1>1, <5>1
      <4> QED  BY <1>4, <4>1
    <3> QED  BY <1>1, <2>t, <3>1, <3>2 DEF Held
  <2>5. Loaded(q)'
    <3>1. th[q].pc = "insert" => /\ \A c \in Block : map'[c] # th[q].obj
                                 /\ map'[th[q].blk] = None => map[th[q].blk] = None
      BY <1>2, <1>3, <1>4, <2>t, <2>f DEF Local, Loaded, Placing
    <3>2. \A r \in Thread : th'[r].obj = th[r].obj
      BY <1>5, <1>q DEF Moved, Now
    <3> QED  BY <1>1, <2>t, <3>1, <3>2 DEF Local, Loaded
  <2>6. Uses(q)'
    <3>1. th[q].op \in {"read", "write"} /\ th[q].pc \in {"have", "wrote"} =>
             ext[th[q].file] # None /\ map'[ext[th[q].file]] = th[q].obj
      BY <1>t, <1>1, <1>4, <1>f, <2>t, <2>f DEF Local, Uses, Shape
    <3>2. th[q].op = "map" /\ th[q].pc = "have" => th[q].obj \in Page
      BY <2>t DEF Shape, Task
    <3> QED  BY <1>1, <1>a, <2>t, <2>f, <3>1, <3>2 DEF Local, Uses
  <2>7. Published(q)' /\ Seen(q)'
    BY <1>1, <2>t DEF Local, Published, Seen
  <2>8. Fresh(q)'
    <3>1. Pending(q) => th[q].blk \in Block \ {b}
      BY <1>o, <1>p, <2>t, <2>f DEF Local, Steady, Pending, Shape
    <3> QED  BY <1>1, <1>4, <2>t, <3>1 DEF Local, Fresh, Pending
  <2> QED  BY <2>1, <2>2, <2>3, <2>4, <2>5, <2>6, <2>7, <2>8 DEF Local
<1>Own. Local(p)'
  <2>1. /\ th'[p].pc = "count" /\ th'[p].op = th[p].op /\ th'[p].file = f /\ th'[p].blk = b
        /\ th'[p].obj = o /\ th'[p].fresh = th[p].fresh
    BY <1>5, <1>f DEF Moved, Now
  <2>2. Locked(p)' /\ Released(p)' /\ Steady(p)' /\ Loaded(p)' /\ Fresh(p)' /\ Seen(p)'
    BY <1>t, <1>1, <1>f, <1>5, <2>1 DEF Local, Locked, Released, Steady, Loaded, Fresh, Seen,
       Pending, Placing, Dealing
  <2>3. Held(p)'
    BY <1>1, <1>3, <1>4, <2>1 DEF Held
  <2>4. Uses(p)' /\ Published(p)'
    <3>1. mapping[p] # None => mapping[p].obj \in Page
      BY DEF Types, Threads
    <3> QED  BY <1>t, <1>1, <1>a, <1>f, <2>1, <3>1 DEF Local, Uses, Published
  <2> QED  BY <2>2, <2>3, <2>4 DEF Local
<1> QED  BY <1>Tables, <1>Others, <1>Own DEF Sound

\* The size of a file that has a block is published.
LEMMA WriteEndStep ==
    ASSUME Types, Types', Sound, Orderly, NEW p \in Thread, Frame(p), Grip(p), WriteEnd(p)
    PROVE  Sound'
<1> DEFINE f == th[p].file
<1>t. /\ th \in [Thread -> Task] /\ th[p] \in Task /\ Shape(th[p]) /\ Local(p)
      /\ ext \in [File -> Block \cup {None}] /\ map \in [Block -> Page \cup {None}]
      /\ len \in [File -> BOOLEAN] /\ wlock \in [File -> Thread \cup {None}]
  BY DEF Types, TypeOK, Threads, Sound
<1>1. /\ UNCHANGED <<can, ext, free, idmap, map, mapping, bmlock, mlock, content>>
      /\ th[p].pc = "wrote" /\ th[p].op = "write" /\ f \in File /\ "write" \in can.ops
      /\ len' = [len EXCEPT ![f] = TRUE] /\ wlock' = [wlock EXCEPT ![f] = None]
  BY <1>t DEF WriteEnd, ghosts, At, Shape, Task
<1>2. ext[f] # None /\ wlock[f] = p
  BY <1>t, <1>1 DEF Local, Uses, Locked
<1>3. Rests(p)
  BY <1>t, IdleNow DEF WriteEnd
<1>4. Writeback
  BY <1>t, <1>1, SyncedWriteback DEF WriteEnd, Drop, Local
<1>5. len'[f] /\ \A g \in File \ {f} : len'[g] = len[g]
  BY <1>t, <1>1
<1>6. Mine(p) /\ ~Pending(p)
  BY <1>t, <1>1, <1>2 DEF Mine, Pending, Placing
<1>m. "map" \in can.ops => "truncate" \notin can.ops
  BY <1>1 DEF Orderly
<1>q. \A q \in Thread \ {p} : Same(q)
  BY DEF Frame
<1>a. ASSUME NEW x \in Page, NEW g \in File, len[g], Attached(x, g) PROVE Attached(x, g)'
  BY <1>1, <1>4, <1>a DEF Attached, Writeback
<1>f. th[p].file = f
  OBVIOUS
<1> HIDE DEF f
<1>Tables. Tables'
  <2>Owners. Owners'  BY <1>1 DEF Sound, Tables, Owners
  <2>Uncached. Uncached'
    <3>1. ASSUME NEW q \in Thread, th[q].pc = "discard" PROVE th'[q].pc = "discard" /\ th'[q].blk = th[q].blk
      BY <1>1, <1>q, <3>1 DEF Same
    <3> QED  BY SMTT(60), <1>1, <3>1 DEF Sound, Tables, Uncached
  <2>Index. Index'
    <3>1. ASSUME NEW q \in Thread, th[q].pc \in Dealing PROVE Same(q)
      BY <1>1, <1>q, <3>1 DEF Dealing
    <3> QED  BY SMTT(60), <1>1, <3>1 DEF Sound, Tables, Index, Same
  <2>Valid. Valid'  BY <1>t, <1>1, <1>4 DEF Sound, Tables, Valid, Writeback
  <2>Empty. Empty'  BY <1>1, <1>2, <1>5 DEF Sound, Tables, Empty
  <2>Current. Current'
    <3>1. ASSUME NEW g \in File, ext[g] # None, Counts(g)'
          PROVE  IF map[ext[g]] # None THEN page'[map[ext[g]]].val = content[g]
                 ELSE disk'[ext[g]] = content[g] \/ \E q \in Thread : Pending(q)' /\ th'[q].file = g
      <4>1. Counts(g)
        BY <1>1, <1>5, <1>m, <3>1 DEF Counts
      <4>2. ASSUME NEW q \in Thread, Pending(q), th[q].file = g
            PROVE  Pending(q)' /\ th'[q].file = g
        BY <1>6, <1>q, <4>2 DEF Same, Pending
      <4>3. ext[g] \in Block
        BY <1>t, <3>1
      <4> QED  BY <1>t, <1>4, <3>1, <4>1, <4>2, <4>3 DEF Sound, Tables, Current, Writeback, Device
    <3> QED  BY <1>1, <3>1 DEF Current
  <2> QED  BY <2>Owners, <2>Uncached, <2>Index, <2>Valid, <2>Empty, <2>Current DEF Tables
<1>Others. ASSUME NEW q \in Thread \ {p} PROVE Local(q)'
  <2>t. /\ th[q] \in Task /\ Shape(th[q]) /\ Local(q) /\ Same(q)
        /\ (mapping[q] # None => mapping[q].file \in File /\ mapping[q].obj \in Page /\ "map" \in can.ops)
    BY <1>q DEF Types, Threads, Sound
  <2>f. /\ th[q].op \in {"read", "map"} => th[q].file \in File
        /\ th[q].op = "map" => "map" \in can.ops
        /\ th[q].pc = "insert" => th[q].blk \in Block /\ th[q].obj # None
        /\ th[q].obj # None => th[q].obj \in Page
        /\ th[q].op = "map" /\ th[q].pc = "have" => th[q].obj # None
    BY <2>t DEF Shape, Task, Placing
  <2> USE DEF Same
  <2>1. Locked(q)'
    BY <1>6, <2>t, LocksStay
  <2>2. Released(q)'
    <3>1. \A r \in Thread : th'[r].pc = "dealloc" => th[r].pc = "dealloc" /\ th'[r].blk = th[r].blk
      BY <1>3, <1>q DEF Rests, Now
    <3> QED  BY <1>1, <2>t, <3>1 DEF Local, Released
  <2>3. Steady(q)'
    BY <1>1, <2>t DEF Local, Steady
  <2>4. Held(q)'
    BY <1>1, <1>4, <2>t, <2>f DEF Local, Held, Writeback
  <2>5. Loaded(q)'
    <3>1. \A r \in Thread : th'[r].obj = th[r].obj \/ th'[r].obj = None
      BY <1>3, <1>q DEF Rests, Now
    <3> QED  BY <1>1, <1>4, <2>t, <2>f, <3>1 DEF Local, Loaded, Writeback, Device
  <2>6. Uses(q)'
    <3>1. th[q].op = "map" => len[th[q].file]
      BY <1>m, <2>t, <2>f DEF Local, Published
    <3>2. mapping[q] # None => len[mapping[q].file]
      BY <1>m, <2>t DEF Local, Published
    <3> QED  BY <1>1, <1>a, <2>t, <2>f, <3>1, <3>2 DEF Local, Uses
  <2>7. Published(q)' /\ Seen(q)'
    BY <1>1, <1>5, <2>t, <2>f DEF Local, Published, Seen
  <2>8. Fresh(q)'
    <3>1. Pending(q) => th[q].file \in File \ {f}
      BY <1>1, <1>f, <2>t, WriteAlone DEF Shape, Task, Pending
    <3> QED  BY <1>1, <1>5, <2>t, <3>1 DEF Local, Fresh, Pending
  <2> QED  BY <2>1, <2>2, <2>3, <2>4, <2>5, <2>6, <2>7, <2>8 DEF Local
<1>Own. Local(p)'
  <2>1. None \notin {"read", "write", "map", "unmap", "truncate"}
    BY NoneFresh DEF Ops
  <2>2. Locked(p)' /\ Released(p)' /\ Steady(p)' /\ Held(p)' /\ Loaded(p)' /\ Fresh(p)' /\ Seen(p)'
    BY <1>3, <2>1 DEF Rests, Now, Locked, Released, Steady, Held, Loaded, Fresh, Seen, Pending, Placing,
       Dealing
  <2>3. mapping[p] # None => /\ mapping[p].file \in File /\ mapping[p].obj \in Page
                             /\ len[mapping[p].file] /\ "truncate" \notin can.ops
    BY SMTT(60), <1>t, <1>m DEF Types, Threads, Local, Published
  <2>4. Uses(p)' /\ Published(p)'
    BY <1>t, <1>1, <1>3, <1>5, <1>a, <2>1, <2>3 DEF Rests, Now, Local, Uses, Published
  <2> QED  BY <2>2, <2>4 DEF Local
<1> QED  BY <1>Tables, <1>Others, <1>Own DEF Sound

\* Beside a truncation nobody else is at work on the block of the file.
LEMMA TruncateAlone ==
    ASSUME Types, Sound, Orderly, NEW p \in Thread, th[p].pc = "cut", NEW q \in Thread \ {p},
           \/ th[q].pc \in Placing \/ (th[q].pc = "peek" /\ th[q].op # "unmap")
           \/ th[q].op \in {"read", "write"} /\ th[q].pc \in {"have", "wrote"}
    PROVE  th[q].file # th[p].file /\ th[q].op # "read"
<1>1. Shape(th[p]) /\ Shape(th[q]) /\ Locked(p) /\ Locked(q)
  BY DEF Types, Threads, Sound, Local
<1>2. "truncate" \in can.ops /\ wlock[th[p].file] = p /\ bmlock[th[p].file] = p
  BY <1>1 DEF Shape, Locked
<1>3. th[q].op # "read"
  BY <1>1, <1>2 DEF Shape, Orderly
<1>4. CASE th[q].op = "write"
  BY <1>1, <1>2, <1>4 DEF Locked
<1>5. CASE th[q].op = "map"
  BY <1>1, <1>2, <1>5 DEF Locked
<1> QED  BY <1>1, <1>3, <1>4, <1>5 DEF Shape, Placing

\* The extent is cut: the block is only in the hands of the truncation.
LEMMA CutStep ==
    ASSUME Types, Types', Sound, Orderly, NEW p \in Thread, Frame(p), Grip(p), Cut(p)
    PROVE  Sound'
<1> DEFINE f == th[p].file  b == ext[f]
<1>t. /\ th \in [Thread -> Task] /\ th[p] \in Task /\ Shape(th[p]) /\ Local(p)
      /\ ext \in [File -> Block \cup {None}] /\ map \in [Block -> Page \cup {None}]
      /\ len \in [File -> BOOLEAN] /\ content \in [File -> 0 .. can.writes]
  BY DEF Types, TypeOK, Threads, Sound
<1>1. /\ UNCHANGED <<can, free, disk, idmap, map, page, mapping, wlock, bmlock, mlock>>
      /\ th[p].pc = "cut" /\ th[p].op = "truncate" /\ f \in File /\ "truncate" \in can.ops
      /\ ext' = [ext EXCEPT ![f] = None] /\ len' = [len EXCEPT ![f] = FALSE]
      /\ content' = [content EXCEPT ![f] = 0]
  BY <1>t DEF Cut, locks, At, Shape, Task, Contents
<1>2. /\ ext'[f] = None /\ ~len'[f] /\ content'[f] = 0
      /\ \A g \in File \ {f} : ext'[g] = ext[g] /\ len'[g] = len[g] /\ content'[g] = content[g]
  BY <1>t, <1>1
<1>3. /\ Now(p, IF b # None THEN "dealloc" ELSE "unlock", "truncate", f, b, th[p].obj) /\ th'[p].fresh = th[p].fresh
      /\ \A q \in Thread : th'[q].file = f => 0 \in th'[q].seen
  BY CutNow
<1>4. b \notin free /\ \A g \in File : b # None => ext'[g] # b
  BY SMTT(60), <1>1, <1>2, OneOwner DEF Sound, Tables, Owners
<1>q. \A q \in Thread \ {p} : Same(q)
  BY DEF Frame
<1>a. ASSUME NEW x \in Page, NEW g \in File, Attached(x, g) PROVE Attached(x, g)'
  BY <1>1, <1>2, <1>a DEF Attached
<1>d. ASSUME NEW q \in Thread, th[q].pc \in Dealing PROVE th[q].blk # b /\ q # p
  BY <1>1, <1>d DEF Sound, Local, Released, Dealing
<1>f. th[p].file = f /\ b \in Block \cup {None} /\ b = ext[f]
  BY <1>t, <1>1
<1> HIDE DEF f, b
<1>Tables. Tables'
  <2>Owners. Owners'
    <3>1. None \notin free
      BY NoneFresh DEF Types, TypeOK
    <3>2. \A g, h \in File : g # h /\ ext'[g] # None => ext'[g] # ext'[h]
      BY <1>2 DEF Sound, Tables, Owners
    <3>3. \A g \in File : ext'[g] \notin free
      BY <1>2, <3>1 DEF Sound, Tables, Owners
    <3> QED  BY <1>1, <3>2, <3>3 DEF Owners
  <2>Uncached. Uncached'
    <3>1. ASSUME NEW q \in Thread, th[q].pc = "discard" PROVE th'[q].pc = "discard" /\ th'[q].blk = th[q].blk
      BY <1>1, <1>q, <3>1 DEF Same
    <3> QED  BY SMTT(60), <1>1, <3>1 DEF Sound, Tables, Uncached
  <2>Index. Index'
    <3>1. ASSUME NEW g \in File, idmap[g] # None, idmap[g] # ext'[g]
          PROVE  \E q \in Thread : th'[q].pc \in Dealing /\ th'[q].file = g /\ th'[q].blk = idmap[g]
      <4>1. CASE idmap[g] = ext[g]
        <5>1. g = f /\ b # None /\ idmap[g] = b
          BY <1>2, <1>f, <3>1, <4>1
        <5> QED  BY <1>3, <5>1 DEF Now, Dealing
      <4>2. CASE idmap[g] # ext[g]
        <5>1. PICK q \in Thread : th[q].pc \in Dealing /\ th[q].file = g /\ th[q].blk = idmap[g]
          BY <3>1, <4>2 DEF Sound, Tables, Index
        <5> QED  BY <1>d, <1>q, <5>1 DEF Same
      <4> QED  BY <4>1, <4>2
    <3> QED  BY <1>1, <3>1 DEF Index
  <2>Valid. Valid'  BY <1>1 DEF Sound, Tables, Valid
  <2>Empty. Empty'  BY <1>2 DEF Sound, Tables, Empty
  <2>Current. Current'
    <3>1. ASSUME NEW g \in File, ext'[g] # None, Counts(g)'
          PROVE  IF map[ext'[g]] # None THEN page[map[ext'[g]]].val = content'[g]
                 ELSE disk[ext'[g]] = content'[g] \/ \E q \in Thread : Pending(q)' /\ th'[q].file = g
      <4>1. g # f /\ Counts(g)
        BY <1>1, <1>2, <3>1 DEF Counts
      <4>2. ASSUME NEW q \in Thread, Pending(q), th[q].file = g
            PROVE  Pending(q)' /\ th'[q].file = g
        BY <1>1, <1>q, <4>2 DEF Same, Pending, Placing
      <4> QED  BY <1>2, <3>1, <4>1, <4>2 DEF Sound, Tables, Current
    <3> QED  BY <1>1, <3>1 DEF Current
  <2> QED  BY <2>Owners, <2>Uncached, <2>Index, <2>Valid, <2>Empty, <2>Current DEF Tables
<1>Others. ASSUME NEW q \in Thread \ {p} PROVE Local(q)'
  <2>t. /\ th[q] \in Task /\ Shape(th[q]) /\ Local(q) /\ Same(q)
        /\ (mapping[q] # None => mapping[q].file \in File /\ mapping[q].obj \in Page)
    BY <1>q DEF Types, Threads, Sound
  <2>f. /\ th[q].op \in {"read", "write", "map"} => th[q].file \in File
        /\ th[q].op = "map" /\ th[q].pc = "have" => th[q].obj \in Page
    BY <2>t DEF Shape, Task
  <2> USE DEF Same
  <2>1. Locked(q)'
    BY <1>1, <2>t, LocksStay DEF Mine
  <2>2. Released(q)'
    <3>1. ASSUME NEW r \in Thread \ {q}, th[q].pc = "dealloc", th'[r].pc = "dealloc"
          PROVE  th'[r].blk # th[q].blk
      <4>1. CASE r = p
        BY <1>3, <1>d, <3>1, <4>1 DEF Now, Dealing
      <4>2. CASE r # p
        BY <1>q, <2>t, <3>1, <4>2 DEF Local, Released
      <4> QED  BY <4>1, <4>2
    <3>2. th[q].pc \in Dealing => \A g \in File : ext'[g] # th[q].blk
      <4>1. th[q].pc \in Dealing => th[q].blk # None
        BY <2>t DEF Shape
      <4> QED  BY <1>2, <2>t, <4>1 DEF Local, Released
    <3> QED  BY <1>1, <2>t, <3>1, <3>2 DEF Local, Released
  <2>3. Steady(q)'
    BY SMTT(60), <1>1, <1>2, <1>f, <2>t, <2>f, TruncateAlone DEF Local, Steady, Shape
  <2>4. Held(q)'
    BY <1>1, <2>t DEF Local, Held
  <2>5. Loaded(q)'
    <3>1. \A r \in Thread : th'[r].obj = th[r].obj
      BY <1>3, <1>q DEF Now
    <3>2. Loaded(q)
      BY <2>t DEF Local
    <3> QED  BY <1>1, <2>t, <3>1, <3>2 DEF Loaded
  <2>6. Uses(q)'
    <3>1. th[q].op \in {"read", "write"} /\ th[q].pc \in {"have", "wrote"} =>
             ext'[th[q].file] = ext[th[q].file]
      BY <1>1, <1>2, <1>f, <2>f, TruncateAlone
    <3> QED  BY <1>1, <1>a, <2>t, <2>f, <3>1 DEF Local, Uses
  <2>7. Published(q)'
    BY <1>1 DEF Published
  <2>8. Fresh(q)'
    <3>1. Pending(q) => th[q].file \in File
      BY <2>t DEF Shape, Task, Pending
    <3> QED  BY <1>1, <1>2, <2>t, <3>1 DEF Local, Fresh, Pending
  <2>9. Seen(q)'
    BY <1>2, <1>3, <2>t, <2>f DEF Local, Seen
  <2> QED  BY <2>1, <2>2, <2>3, <2>4, <2>5, <2>6, <2>7, <2>8, <2>9 DEF Local
<1>Own. Local(p)'
  <2>1. /\ th'[p].pc = (IF b # None THEN "dealloc" ELSE "unlock") /\ th'[p].op = "truncate"
        /\ th'[p].file = f /\ th'[p].blk = b /\ th'[p].obj = th[p].obj
    BY <1>3 DEF Now
  <2>2. Locked(p)' /\ Steady(p)' /\ Loaded(p)' /\ Fresh(p)' /\ Seen(p)'
    BY <1>t, <1>1, <1>f, <2>1 DEF Local, Locked, Steady, Loaded, Fresh, Seen, Pending, Placing, Dealing
  <2>3. Released(p)'
    BY <1>1, <1>4, <1>d, <1>q, <2>1 DEF Released, Same, Dealing
  <2>4. Held(p)'
    BY <1>t, <1>1, <2>1 DEF Local, Held
  <2>5. Uses(p)' /\ Published(p)'
    <3>1. mapping[p] # None => mapping[p].file \in File /\ mapping[p].obj \in Page
      BY DEF Types, Threads
    <3> QED  BY <1>t, <1>1, <1>a, <2>1, <3>1 DEF Local, Uses, Published
  <2> QED  BY <2>2, <2>3, <2>4, <2>5 DEF Local
<1> QED  BY <1>Tables, <1>Others, <1>Own DEF Sound

\* The block is free again, and its page is still to be discarded.
LEMMA DeallocStep ==
    ASSUME Types, Types', Sound, NEW p \in Thread, Frame(p), Grip(p), Dealloc(p)
    PROVE  Sound'
<1> DEFINE b == th[p].blk
<1>t. /\ th \in [Thread -> Task] /\ th[p] \in Task /\ Shape(th[p]) /\ Local(p)
  BY DEF Types, TypeOK, Threads, Sound
<1>1. /\ UNCHANGED <<can, ext, len, disk, idmap, map, page, mapping, wlock, bmlock, content>>
      /\ th[p].pc = "dealloc" /\ th[p].op = "truncate" /\ b \in Block
      /\ mlock = None /\ mlock' = p /\ free' = free \cup {b}
  BY <1>t DEF Dealloc, ghosts, At, Shape, Task, Dealing
<1>2. /\ \A g \in File : ext[g] # b
      /\ \A q \in Thread \ {p} : th[q].pc = "dealloc" => th[q].blk # b
  BY <1>t, <1>1 DEF Local, Released, Dealing
<1>3. Moved(p, "discard") /\ th'[p].seen = th[p].seen
  BY <1>t, GotoNow DEF Dealloc, Goto, Task
<1>4. \A q \in Thread : th[q].pc \notin {"discard", "forget"}
  BY <1>1, NoneFresh DEF Sound, Local, Locked
<1>q. \A q \in Thread \ {p} : Same(q)
  BY DEF Frame
<1>f. th[p].blk = b
  OBVIOUS
<1>a. ASSUME NEW x, NEW g, Attached(x, g) PROVE Attached(x, g)'
  BY <1>1, <1>a DEF Attached
<1> HIDE DEF b
<1>Tables. Tables'
  <2>Owners. Owners'  BY <1>1, <1>2 DEF Sound, Tables, Owners
  <2>Uncached. Uncached'
    <3>1. th'[p].pc = "discard" /\ th'[p].blk = b
      BY <1>3, <1>f DEF Moved, Now
    <3>2. \A c \in free : map[c] = None
      BY <1>4 DEF Sound, Tables, Uncached
    <3> QED  BY <1>1, <3>1, <3>2 DEF Uncached
  <2>Index. Index'
    <3>1. ASSUME NEW q \in Thread, th[q].pc \in Dealing
          PROVE  th'[q].pc \in Dealing /\ th'[q].file = th[q].file /\ th'[q].blk = th[q].blk
      BY <1>3, <1>q, <3>1 DEF Same, Moved, Now, Dealing
    <3> QED  BY SMTT(60), <1>1, <3>1 DEF Sound, Tables, Index
  <2>Valid. Valid'  BY <1>1 DEF Sound, Tables, Valid
  <2>Empty. Empty'  BY <1>1 DEF Sound, Tables, Empty
  <2>Current. Current'
    <3>1. ASSUME NEW q \in Thread, Pending(q) PROVE Pending(q)' /\ th'[q].file = th[q].file
      BY <1>1, <1>q, <3>1 DEF Same, Pending, Placing
    <3> QED  BY <1>1, <3>1 DEF Sound, Tables, Current, Counts
  <2> QED  BY <2>Owners, <2>Uncached, <2>Index, <2>Valid, <2>Empty, <2>Current DEF Tables
<1>Others. ASSUME NEW q \in Thread \ {p} PROVE Local(q)'
  <2>t. th[q] \in Task /\ Shape(th[q]) /\ Local(q) /\ Same(q)
    BY <1>q DEF Types, Threads, Sound
  <2>o. \A r \in Thread : th'[r].obj = th[r].obj
    BY <1>3, <1>q DEF Same, Moved, Now
  <2> USE DEF Same
  <2>1. Locked(q)'
    BY <1>1, <2>t, LocksStay DEF Mine
  <2>2. Released(q)'
    <3>1. \A r \in Thread : th'[r].pc = "dealloc" => th[r].pc = "dealloc" /\ th'[r].blk = th[r].blk
      BY <1>3, <1>q DEF Moved, Now
    <3> QED  BY <1>1, <1>2, <1>4, <2>t, <3>1 DEF Local, Released
  <2>3. Steady(q)' /\ Held(q)' /\ Published(q)' /\ Fresh(q)' /\ Seen(q)'
    BY <1>1, <2>t DEF Local, Steady, Held, Published, Fresh, Pending, Seen
  <2>4. Loaded(q)'
    BY <1>1, <2>t, <2>o DEF Local, Loaded
  <2>5. Uses(q)'
    BY <1>1, <1>a, <2>t DEF Local, Uses
  <2> QED  BY <2>1, <2>2, <2>3, <2>4, <2>5 DEF Local
<1>Own. Local(p)'
  <2>1. /\ th'[p].pc = "discard" /\ th'[p].op = th[p].op /\ th'[p].file = th[p].file /\ th'[p].blk = b
        /\ th'[p].obj = th[p].obj
    BY <1>3, <1>f DEF Moved, Now
  <2>2. Locked(p)' /\ Released(p)' /\ Steady(p)' /\ Loaded(p)' /\ Fresh(p)' /\ Seen(p)'
    BY <1>t, <1>1, <1>2, <2>1 DEF Local, Locked, Released, Steady, Loaded, Fresh, Seen, Pending,
       Placing, Dealing
  <2>3. Held(p)'
    BY <1>t, <1>1, <2>1 DEF Local, Held
  <2>4. Uses(p)' /\ Published(p)'
    BY <1>t, <1>1, <1>a, <2>1 DEF Local, Uses, Published
  <2> QED  BY <2>2, <2>3, <2>4 DEF Local
<1> QED  BY <1>Tables, <1>Others, <1>Own DEF Sound

\* The page of a free block is discarded: no file and no thread at work on a file
\* depends on it.
LEMMA DiscardStep ==
    ASSUME Types, Types', Sound, NEW p \in Thread, Frame(p), Grip(p), Discard(p)
    PROVE  Sound'
<1> DEFINE b == th[p].blk  o == map[b]
<1>t. /\ th \in [Thread -> Task] /\ th[p] \in Task /\ Shape(th[p]) /\ Local(p)
      /\ map \in [Block -> Page \cup {None}] /\ ext \in [File -> Block \cup {None}]
      /\ page \in [Page -> [blk : Block \cup {None}, val : 0 .. can.writes, dirty : BOOLEAN,
                            discarded : BOOLEAN]]
  BY DEF Types, TypeOK, Threads, Sound
<1>1. /\ UNCHANGED <<can, ext, len, free, disk, idmap, mapping, wlock, bmlock, mlock, content>>
      /\ th[p].pc = "discard" /\ th[p].op = "truncate" /\ b \in Block /\ o \in Page \cup {None}
      /\ map' = [map EXCEPT ![b] = None]
  BY <1>t DEF Discard, files, locks, ghosts, At, Shape, Task, Dealing
<1>2. b \in free /\ \A g \in File : ext[g] # b
  BY <1>t, <1>1 DEF Local, Released, Dealing
<1>3. Moved(p, "forget") /\ th'[p].seen = th[p].seen
  BY <1>t, GotoNow DEF Discard, Goto, Task
<1>4. map'[b] = None /\ \A c \in Block \ {b} : map'[c] = map[c]
  BY <1>t, <1>1
<1>5. /\ \A x \in Page : page'[x].blk = page[x].blk /\ page'[x].val = page[x].val
      /\ \A x \in Page \ {o} : page'[x].discarded = page[x].discarded
      /\ o # None => page'[o].discarded
  <2>1. CASE o = None
    BY <2>1 DEF Discard
  <2>2. CASE o # None
    <3>1. page' = [page EXCEPT ![o].discarded = TRUE]
      BY <2>2 DEF Discard
    <3> HIDE DEF o
    <3> QED  BY <1>t, <1>1, <2>2, <3>1
  <2> QED  BY <2>1, <2>2
<1>6. \A c \in Block \ {b} : map[c] # None => map[c] \in Page \ {o}
  BY <1>t, <1>1, OnePage
<1>q. \A q \in Thread \ {p} : Same(q)
  BY DEF Frame
<1>f. th[p].blk = b /\ map[b] = o
  OBVIOUS
<1> HIDE DEF b, o
<1>7. \A x \in Page : page[x].discarded => page'[x].discarded
  BY <1>5, NoneFresh
<1>b. ASSUME NEW x \in Page, page[x].blk # None, map[page[x].blk] = x
      PROVE  page'[x].discarded \/ map'[page'[x].blk] = x
  <2>1. page[x].blk \in Block
    BY <1>t, <1>b
  <2>2. CASE page[x].blk = b
    BY <1>5, <1>b, <1>f, <2>2, NoneFresh
  <2>3. CASE page[x].blk # b
    BY <1>4, <1>5, <1>b, <2>1, <2>3
  <2> QED  BY <2>2, <2>3
<1>a. ASSUME NEW x \in Page, NEW g \in File, Attached(x, g) PROVE Attached(x, g)'
  <2>1. CASE page[x].discarded /\ ~len[g]
    BY <1>1, <1>7, <2>1 DEF Attached
  <2>2. CASE ~(page[x].discarded /\ ~len[g])
    <3>1. /\ page[x].blk # None /\ map[page[x].blk] = x
          /\ \A h \in File : ext[h] = page[x].blk => h = g
          /\ len[g] => ext[g] = page[x].blk
      BY <1>a, <2>2 DEF Attached
    <3>2. page[x].blk \in Block
      BY <1>t, <3>1
    <3>3. CASE page[x].blk = b
      <4>1. ~len[g]
        BY <1>2, <3>1, <3>3
      <4>2. page'[x].discarded
        BY <1>5, <1>f, <3>1, <3>3, NoneFresh
      <4> QED  BY <1>1, <4>1, <4>2 DEF Attached
    <3>4. CASE page[x].blk # b
      BY <1>1, <1>4, <1>5, <3>1, <3>2, <3>4 DEF Attached
    <3> QED  BY <3>3, <3>4
  <2> QED  BY <2>1, <2>2
<1>Tables. Tables'
  <2>Owners. Owners'  BY <1>1 DEF Sound, Tables, Owners
  <2>Uncached. Uncached'
    <3>1. ASSUME NEW c \in free, map'[c] # None
          PROVE  \E q \in Thread : th'[q].pc = "discard" /\ th'[q].blk = c
      <4>1. c \in Block /\ c # b /\ map[c] # None
        BY <1>4, <3>1 DEF Types, TypeOK
      <4>2. PICK q \in Thread : th[q].pc = "discard" /\ th[q].blk = c
        BY <4>1 DEF Sound, Tables, Uncached
      <4>3. q # p
        BY <1>f, <4>1, <4>2
      <4> QED  BY <1>q, <4>2, <4>3 DEF Same
    <3> QED  BY <1>1, <3>1 DEF Uncached
  <2>Index. Index'
    <3>1. ASSUME NEW q \in Thread, th[q].pc \in Dealing
          PROVE  th'[q].pc \in Dealing /\ th'[q].file = th[q].file /\ th'[q].blk = th[q].blk
      BY <1>3, <1>q, <3>1 DEF Same, Moved, Now, Dealing
    <3> QED  BY SMTT(60), <1>1, <3>1 DEF Sound, Tables, Index
  <2>Valid. Valid'
    <3>1. ASSUME NEW c \in Block, map'[c] # None PROVE ~page'[map'[c]].discarded
      <4>1. c # b /\ map'[c] = map[c] /\ map[c] \in Page \ {o}
        BY <1>4, <1>6, <3>1
      <4> QED  BY <1>5, <3>1, <4>1 DEF Sound, Tables, Valid
    <3> QED  BY <3>1 DEF Valid
  <2>Empty. Empty'  BY <1>1 DEF Sound, Tables, Empty
  <2>Current. Current'
    <3>1. ASSUME NEW q \in Thread, Pending(q) PROVE Pending(q)' /\ th'[q].file = th[q].file
      BY <1>1, <1>q, <3>1 DEF Same, Pending, Placing
    <3>2. ASSUME NEW g \in File, ext[g] # None
          PROVE  /\ map'[ext[g]] = map[ext[g]]
                 /\ map[ext[g]] # None => page'[map[ext[g]]].val = page[map[ext[g]]].val
      <4>1. ext[g] \in Block \ {b}
        BY <1>t, <1>2, <3>2
      <4> QED  BY <1>4, <1>5, <1>6, <4>1
    <3>3. \A g \in File : Counts(g)' = Counts(g)
      BY <1>1 DEF Counts
    <3> QED  BY SMTT(60), <1>1, <3>1, <3>2, <3>3 DEF Sound, Tables, Current
  <2> QED  BY <2>Owners, <2>Uncached, <2>Index, <2>Valid, <2>Empty, <2>Current DEF Tables
<1>Others. ASSUME NEW q \in Thread \ {p} PROVE Local(q)'
  <2>t. /\ th[q] \in Task /\ Shape(th[q]) /\ Local(q) /\ Same(q)
        /\ (mapping[q] # None => mapping[q].file \in File /\ mapping[q].obj \in Page)
    BY <1>q DEF Types, Threads, Sound
  <2>f. /\ th[q].op \in {"read", "write", "map"} => th[q].file \in File
        /\ th[q].op = "map" /\ th[q].pc = "have" => th[q].obj \in Page
    BY <2>t DEF Shape, Task
  <2>b. th[q].pc \in Placing => th[q].blk \in Block \ {b}
    BY <1>2, <2>t, <2>f DEF Shape, Task, Local, Steady
  <2> USE DEF Same
  <2>1. Locked(q)'
    BY <1>1, <2>t, LocksStay DEF Mine
  <2>2. Released(q)'
    <3>1. \A r \in Thread : th'[r].pc = "dealloc" => th[r].pc = "dealloc" /\ th'[r].blk = th[r].blk
      BY <1>3, <1>q DEF Moved, Now
    <3> QED  BY <1>1, <2>t, <3>1 DEF Local, Released
  <2>3. Steady(q)' /\ Published(q)' /\ Seen(q)'
    BY <1>1, <2>t DEF Local, Steady, Published, Seen
  <2>4. Held(q)'
    <3>1. ASSUME th[q].obj # None, th[q].pc # "insert"
          PROVE  page'[th[q].obj].discarded \/ map'[page'[th[q].obj].blk] = th[q].obj
      <4>1. th[q].obj \in Page /\ page[th[q].obj].blk # None
        BY <2>t, <3>1 DEF Task, Types, Blocks
      <4>2. page[th[q].obj].discarded \/ map[page[th[q].obj].blk] = th[q].obj
        BY <2>t, <3>1 DEF Local, Held
      <4> QED  BY <1>7, <1>b, <4>1, <4>2
    <3>2. th[q].pc \in {"count", "zero"} => map'[th[q].blk] = th[q].obj
      BY <1>4, <2>b, <2>t DEF Local, Held, Placing
    <3> QED  BY <2>t, <3>1, <3>2 DEF Held
  <2>5. Loaded(q)'
    <3>1. ASSUME th[q].pc = "insert"
          PROVE  /\ ~page'[th[q].obj].discarded
                 /\ \A c \in Block : map'[c] # th[q].obj
                 /\ \A r \in Thread \ {q} : th'[r].obj # th[q].obj
                 /\ \A r \in Thread : mapping[r] # None => mapping[r].obj # th[q].obj
                 /\ map'[th[q].blk] = None =>
                       page'[th[q].obj].val = IF th[q].fresh THEN 0 ELSE disk[th[q].blk]
      <4>1. th[q].obj \in Page /\ th[q].obj # None /\ th[q].blk \in Block \ {b}
        BY <2>b, <2>t, <3>1 DEF Shape, Task, Placing
      <4>2. /\ ~page[th[q].obj].discarded /\ \A c \in Block : map[c] # th[q].obj
            /\ \A r \in Thread \ {q} : th[r].obj # th[q].obj
            /\ \A r \in Thread : mapping[r] # None => mapping[r].obj # th[q].obj
            /\ map[th[q].blk] = None =>
                  page[th[q].obj].val = IF th[q].fresh THEN 0 ELSE disk[th[q].blk]
        BY <2>t, <3>1 DEF Local, Loaded
      <4>3. ~page'[th[q].obj].discarded
        BY <1>1, <1>5, <1>f, <4>1, <4>2
      <4>4. \A c \in Block : map'[c] # th[q].obj
        BY <1>4, <4>1, <4>2
      <4>5. \A r \in Thread \ {q} : th'[r].obj # th[q].obj
        BY <1>3, <1>q, <4>2 DEF Moved, Now
      <4>6. map'[th[q].blk] = None =>
               page'[th[q].obj].val = IF th[q].fresh THEN 0 ELSE disk[th[q].blk]
        BY <1>4, <1>5, <4>1, <4>2
      <4> QED  BY <4>2, <4>3, <4>4, <4>5, <4>6
    <3> QED  BY <1>1, <2>t, <3>1 DEF Loaded
  <2>6. Uses(q)'
    <3>1. th[q].op \in {"read", "write"} /\ th[q].pc \in {"have", "wrote"} =>
             ext[th[q].file] # None /\ map'[ext[th[q].file]] = th[q].obj
      BY <1>t, <1>2, <1>4, <2>t, <2>f DEF Local, Uses
    <3> QED  BY <1>1, <1>a, <2>t, <2>f, <3>1 DEF Local, Uses
  <2>7. Fresh(q)'
    BY <1>1, <1>4, <2>b, <2>t DEF Local, Fresh, Pending
  <2> QED  BY <2>1, <2>2, <2>3, <2>4, <2>5, <2>6, <2>7 DEF Local
<1>Own. Local(p)'
  <2>1. /\ th'[p].pc = "forget" /\ th'[p].op = th[p].op /\ th'[p].file = th[p].file /\ th'[p].blk = b
        /\ th'[p].obj = th[p].obj
    BY <1>3, <1>f DEF Moved, Now
  <2>2. Locked(p)' /\ Released(p)' /\ Steady(p)' /\ Loaded(p)' /\ Fresh(p)' /\ Seen(p)'
    BY <1>t, <1>1, <1>2, <2>1 DEF Local, Locked, Released, Steady, Loaded, Fresh, Seen, Pending,
       Placing, Dealing
  <2>3. Held(p)'
    <3>1. ASSUME th[p].obj # None
          PROVE  page'[th[p].obj].discarded \/ map'[page'[th[p].obj].blk] = th[p].obj
      <4>1. th[p].obj \in Page /\ page[th[p].obj].blk # None
        BY <1>t, <3>1 DEF Task, Types, Blocks
      <4>2. page[th[p].obj].discarded \/ map[page[th[p].obj].blk] = th[p].obj
        BY <1>t, <1>1, <3>1 DEF Local, Held
      <4> QED  BY <1>7, <1>b, <4>1, <4>2
    <3> QED  BY <2>1, <3>1 DEF Held
  <2>4. Uses(p)' /\ Published(p)'
    <3>1. mapping[p] # None => mapping[p].file \in File /\ mapping[p].obj \in Page
      BY DEF Types, Threads
    <3> QED  BY <1>t, <1>1, <1>a, <2>1, <3>1 DEF Local, Uses, Published
  <2> QED  BY <2>2, <2>3, <2>4 DEF Local
<1> QED  BY <1>Tables, <1>Others, <1>Own DEF Sound

-----------------------------------------------------------------------------
(* The invariant is inductive.                                             *)

\* Under an orderly mix nothing is evicted.
LEMMA NoEviction ==
    ASSUME Types, Orderly, NEW p \in Thread
    PROVE  ~(BeginEvict(p) \/ EvictSync(p) \/ EvictFrame(p) \/ EvictRemove(p))
<1>1. Shape(th[p])
  BY DEF Types, Threads
<1> QED  BY <1>1 DEF Orderly, Shape, BeginEvict, EvictSync, EvictFrame, EvictRemove, At

\* Every step of a thread keeps the tables, and what holds of each thread.
LEMMA SoundStep ==
    ASSUME Types, Types', Sound, Orderly, NEW p \in Thread, Act(p)
    PROVE  Sound'
<1>f. Frame(p)
  BY FrameStep
<1>g. Load(p) \/ Grip(p)
  BY ShapeStep
<1>h. Harmless(p) /\ Local(p)' => Sound'
  BY <1>f, HarmlessStep
<1>1. CASE Load(p)
  BY <1>1, <1>f, <1>h, LoadStep
<1>2. CASE ~Load(p)
  <2> USE <1>f
  <2>g. Grip(p)
    BY <1>2, <1>g
  <2> HIDE DEF Grip, Frame
  <2>1. CASE BeginRead(p) \/ BeginWrite(p) \/ BeginMap(p) \/ BeginUnmap(p) \/ BeginTruncate(p)
    BY <1>h, <2>g, <2>1, BeginStep
  <2>2. CASE ReadHole(p) \/ NoSpace(p) \/ Read(p) \/ DropPage(p) \/ TruncateEnd(p)
    BY <1>h, <2>g, <2>2, EndStep
  <2>3. CASE InsertId(p) \/ PhysMiss(p) \/ Sync(p) \/ Unmap(p)
    BY <1>h, <2>3, GoesOnStep
  <2>4. CASE Peek(p) \/ PhysHit(p) \/ Count(p)
    BY <1>h, <2>g, <2>4, FoundStep
  <2>5. CASE LockBlockMap(p)
    BY <1>h, <2>g, <2>5, LockStep
  <2>6. CASE BeginSync(p)
    BY <1>h, <2>g, <2>6, BeginSyncStep
  <2>7. CASE Map(p)
    BY <1>h, <2>g, <2>7, MapStep
  <2>8. CASE Look(p)
    BY <1>h, <2>g, <2>8, LookStep
  <2>9. CASE ExtentHit(p)
    BY <1>h, <2>g, <2>9, ExtentStep
  <2>10. CASE InsertLate(p)
    BY <1>h, <2>g, <2>10, InsertLateStep
  <2>11. CASE DeallocEnd(p)
    BY <1>h, <2>g, <2>11, DeallocEndStep
  <2>12. CASE Allocate(p) \/ Zero(p) \/ Store(p) \/ Dealloc(p) \/ Discard(p)
    BY <2>g, <2>12, AllocateStep, ZeroStep, StoreStep, DeallocStep, DiscardStep
  <2>13. CASE Insert(p) \/ Write(p) \/ WriteEnd(p) \/ Cut(p)
    BY <2>g, <2>13, InsertStep, WriteStep, WriteEndStep, CutStep
  <2> QED
    BY <1>2, <2>1, <2>2, <2>3, <2>4, <2>5, <2>6, <2>7, <2>8, <2>9, <2>10, <2>11, <2>12, <2>13,
       NoEviction DEF Act
<1> QED  BY <1>1, <1>2

\* The cache starts out empty, and every file is on the device.
LEMMA InitInv == Init => IInv
<1> SUFFICES ASSUME Init PROVE IInv
  OBVIOUS
<1>t. /\ th = [p \in Thread |-> Idle] /\ mapping = [p \in Thread |-> None]
      /\ can \in Scenes /\ can.writes \in Nat
  BY SceneTypes DEF Init
<1>i. \A p \in Thread : /\ th[p] \in Task /\ th[p].pc = "idle" /\ th[p].op = None
                        /\ th[p].obj = None /\ th[p].fresh = FALSE
  BY <1>t DEF Idle, Doing, Task, PC
<1>n. \A p \in Thread : th[p].op \notin {"read", "write", "map", "unmap", "truncate", "evict", "sync"}
  BY <1>i, NoneFresh DEF Ops
<1>1. TypeOK
  BY SMTT(60), <1>t, NoneFresh DEF Init, TypeOK
<1>2. Threads
  <2>1. \A p \in Thread : Shape(th[p])
    BY <1>i, <1>n DEF Shape, Placing, Dealing
  <2>2. th \in [Thread -> Task]
    BY <1>t, <1>i
  <2> QED  BY <1>t, <2>1, <2>2 DEF Threads
<1>3. Blocks
  BY <1>i DEF Blocks, Init
<1>4. Tables
  <2>1. Owners /\ Empty /\ Uncached /\ Index /\ Valid
    BY NoneFresh DEF Init, Owners, Empty, Uncached, Index, Valid
  <2>2. Current
    BY <1>1 DEF Init, Current, TypeOK
  <2> QED  BY <2>1, <2>2 DEF Tables
<1>5. ASSUME NEW p \in Thread PROVE Local(p)
  <2>1. Locked(p) /\ Released(p) /\ Steady(p) /\ Loaded(p) /\ Seen(p) /\ Fresh(p)
    BY <1>i, <1>n DEF Locked, Released, Steady, Loaded, Seen, Fresh, Pending, Placing, Dealing
  <2>2. Held(p) /\ Uses(p) /\ Published(p)
    BY <1>i, <1>n, <1>t DEF Held, Uses, Published
  <2> QED  BY <2>1, <2>2 DEF Local
<1> QED  BY <1>1, <1>2, <1>3, <1>4, <1>5 DEF IInv, Types, Sound

\* Every step keeps the invariant.
LEMMA NextInv == IInv /\ [Next]_vars => IInv'
<1> SUFFICES ASSUME IInv, [Next]_vars PROVE IInv'
  OBVIOUS
<1>1. CASE Next
  <2>1. PICK p \in Thread : Act(p)
    BY <1>1 DEF Next, Act
  <2>2. Types' /\ can' = can
    BY <2>1, TypesStep, FileTypesStep DEF IInv
  <2>3. Orderly' => Orderly
    BY <2>2 DEF Orderly
  <2>4. Orderly => Sound'
    BY <2>1, <2>2, SoundStep DEF IInv
  <2> QED  BY <2>2, <2>3, <2>4 DEF IInv
<1>2. CASE UNCHANGED vars
  <2> USE <1>2 DEF vars
  <2>1. Types'
    <3>1. TypeOK'  BY DEF IInv, Types, TypeOK
    <3>2. Threads'  BY DEF IInv, Types, Threads, Shape
    <3>3. Blocks'  BY DEF IInv, Types, Blocks
    <3> QED  BY <3>1, <3>2, <3>3 DEF Types
  <2>2. Orderly' => Sound
    BY DEF Orderly, IInv
  <2>3. Sound => Tables'
    BY SMTT(60) DEF Sound, Tables, Owners, Uncached, Index, Valid, Empty, Current, Counts, Pending
  <2>4. ASSUME Sound, NEW p \in Thread PROVE Local(p)'
    <3>1. Locked(p)' /\ Released(p)' /\ Steady(p)'
      BY <2>4 DEF Sound, Local, Locked, Released, Steady
    <3>2. Held(p)' /\ Loaded(p)' /\ Uses(p)'
      BY <2>4 DEF Sound, Local, Held, Loaded, Uses, Attached
    <3>3. Published(p)' /\ Fresh(p)' /\ Seen(p)'
      BY <2>4 DEF Sound, Local, Published, Fresh, Pending, Seen
    <3> QED  BY <3>1, <3>2, <3>3 DEF Local
  <2> QED  BY <2>1, <2>2, <2>3, <2>4 DEF IInv, Sound
<1> QED  BY <1>1, <1>2

\* Whatever threads read, write, map, truncate, sync and evict, the types hold; and
\* under an orderly mix so does what the files, the tables and the threads know of
\* each other.
THEOREM CacheInvariant == Spec => []IInv
BY InitInv, NextInv, PTL DEF Spec

-----------------------------------------------------------------------------
(* What it is for.                                                         *)

\* The contents count for a write under every orderly mix.
LEMMA WriteCounts ==
    ASSUME Orderly, "write" \in can.ops, NEW f PROVE Counts(f)
BY DEF Orderly, Counts

\* read_at shows what the file contained at some time since it began, and write_at
\* changes the page of the file, which holds the file's contents.
THEOREM CacheServesFile == Spec => []CacheOwn
<1>1. ASSUME IInv PROVE ReadsOwn
  <2> SUFFICES ASSUME can.ops \cap {"truncate", "evict"} = {},
                      NEW p \in Thread, th[p].op = "read"
               PROVE  /\ At(p, "have") => page[th[p].obj].val \in th[p].seen
                      /\ At(p, "extent") /\ ext[th[p].file] = None => 0 \in th[p].seen
    BY DEF ReadsOwn
  <2>1. Sound /\ "truncate" \notin can.ops
    BY <1>1 DEF IInv, Orderly
  <2>2. th[p] \in Task /\ Shape(th[p]) /\ Local(p)
    BY <1>1, <2>1 DEF IInv, Types, Threads, Sound
  <2>3. th[p].file \in File /\ content[th[p].file] \in th[p].seen /\ Counts(th[p].file)
    BY <2>1, <2>2 DEF Shape, Task, Local, Seen, Counts
  <2>4. At(p, "have") => page[th[p].obj].val = content[th[p].file]
    BY <2>1, <2>2, <2>3 DEF At, Shape, Local, Uses, Sound, Tables, Current
  <2>5. ext[th[p].file] = None => content[th[p].file] = 0
    BY <2>1, <2>3 DEF Sound, Tables, Empty
  <2> QED  BY <2>3, <2>4, <2>5
<1>2. ASSUME IInv PROVE WritesOwn
  <2> SUFFICES ASSUME Orderly, NEW p \in Thread, At(p, "have"), th[p].op = "write"
               PROVE  /\ page[th[p].obj].blk = ext[th[p].file]
                      /\ map[ext[th[p].file]] = th[p].obj
                      /\ page[th[p].obj].val = content[th[p].file]
    BY DEF WritesOwn
  <2>1. Sound /\ th[p] \in Task /\ Shape(th[p]) /\ Local(p)
    BY <1>2 DEF IInv, Types, Threads, Sound
  <2>2. th[p].file \in File /\ th[p].obj # None /\ "write" \in can.ops
    BY <2>1 DEF Shape, Task, At
  <2>3. ext[th[p].file] # None /\ map[ext[th[p].file]] = th[p].obj
    BY <2>1 DEF Local, Uses, At
  <2>4. ext[th[p].file] \in Block
    BY <1>2, <2>2, <2>3 DEF IInv, Types, TypeOK
  <2>5. page[th[p].obj].blk = ext[th[p].file]
    BY <1>2, <2>2, <2>3, <2>4 DEF IInv, Types, TypeOK
  <2>6. page[th[p].obj].val = content[th[p].file]
    BY <2>1, <2>2, <2>3, WriteCounts DEF Sound, Tables, Current
  <2> QED  BY <2>3, <2>5, <2>6
<1>3. IInv => CacheOwn
  BY <1>1, <1>2 DEF CacheOwn
<1> QED  BY <1>3, CacheInvariant, PTL

\* When every thread is done, the contents of a published file are in its page, and
\* without one on the device.
THEOREM NoUpdateIsLost == Spec => []NothingLost
<1>1. IInv => NothingLost
  <2> SUFFICES ASSUME IInv PROVE NothingLost
    OBVIOUS
  <2>1. TypeOK
    BY DEF IInv, Types
  <2>2. ASSUME Orderly, Quiet, NEW f \in File, ext[f] # None, len[f]
        PROVE  content[f] = IF map[ext[f]] # None THEN page[map[ext[f]]].val ELSE disk[ext[f]]
    <3>1. Sound /\ Counts(f)
      BY <2>2 DEF IInv, Counts
    <3>2. \A p \in Thread : ~Pending(p)
      BY <2>2 DEF Quiet, At, Pending, Placing
    <3> QED  BY <2>2, <3>1, <3>2 DEF Sound, Tables, Current
  <2> QED  BY <2>1, <2>2 DEF NothingLost
<1> QED  BY <1>1, CacheInvariant, PTL
=============================================================================
