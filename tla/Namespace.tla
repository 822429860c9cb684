----------------------------- MODULE Namespace ------------------------------
(***************************************************************************)
(* The dentry cache (fs/file_tree.rs) and the calls that change the name   *)
(* space: create, symlinkat, mount_child, unlinkat and renameat2.          *)
(*                                                                         *)
(* find_child reads mounts, positive and negative entries one after the    *)
(* other without the namespace lock and only then takes it.  A call that   *)
(* changes names holds the lock of each directory concerned, changes the   *)
(* backing file system and then publishes to the caches one lock at a      *)
(* time: its todo list.                                                    *)
(***************************************************************************)
EXTENDS Integers, Sequences, FiniteSets

CONSTANTS
    Dir,         \* directories, positive integers ordered by address
    Cacheable,   \* those whose inode says cache_lookup_results
    Names,       \* names
    Objects,     \* backing inodes, positive integers
    MaxDentry,   \* bound on dentries made
    NegLimit,    \* NEGATIVE_DENTRY_LIMIT
    Walker,      \* threads in find_child
    Changer,     \* threads in a call that changes names
    Can,         \* calls of this instance
    MaxCalls     \* bound on changing calls

VARIABLES
    disk,        \* backing file system: [Dir -> [Names -> object or 0]]
    mounts,      \* mounted_children: dentry or 0
    children,    \* positive cache: dentry or 0
    negative,    \* negative cache: set of names
    dentry,      \* dentries made: sequence of [obj, unlinked]
    walk,        \* find_child of each walker
    call,        \* call of each changer
    truth,       \* history: bindings a lookup may report now
    ncalls

nsvars == <<disk, mounts, children, negative, dentry, walk, call, truth, ncalls>>

Free == [pc |-> "idle"]
NewDentry(obj) == [obj |-> obj, unlinked |-> FALSE]
NextId == Len(dentry) + 1

\* Threads holding a directory's namespace lock.
LockFree(d) ==
    /\ \A t \in Changer : ~(call[t].pc # "idle" /\ d \in call[t].dirs)
    /\ \A t \in Walker : ~(walk[t].pc = "publish" /\ walk[t].dir = d)

\* Object behind a dentry; 0 behind none.
Obj(e) == IF e = 0 THEN 0 ELSE dentry[e].obj

\* remember_negative_locked.
WithNegative(d, n) ==
    [negative EXCEPT ![d] = (IF Cardinality(@) >= NegLimit THEN {} ELSE @) \cup {n}]

---------------------------------------------------------------------------
(* find_child *)

\* Finishing a lookup: the answer must have been admissible during it.
Answer(t, e) == [pc |-> "done", dir |-> walk[t].dir, name |-> walk[t].name,
                 seen |-> walk[t].seen, got |-> e]

Walking(t, p) == walk[t].pc = p

FindChild(t, d, n) ==
    /\ walk[t].pc \in {"idle", "done"}
    /\ walk' = [walk EXCEPT ![t] =
         [pc |-> "mounted", dir |-> d, name |-> n, seen |-> truth[d][n], got |-> 0]]
    /\ UNCHANGED <<disk, mounts, children, negative, dentry, call, truth, ncalls>>

FastMounted(t) ==
    LET e == mounts[walk[t].dir][walk[t].name]
    IN  /\ Walking(t, "mounted")
        /\ walk' = [walk EXCEPT ![t] = IF e # 0 THEN Answer(t, e) ELSE
             [@ EXCEPT !.pc = IF walk[t].dir \in Cacheable THEN "children" ELSE "slow"]]
        /\ UNCHANGED <<disk, mounts, children, negative, dentry, call, truth, ncalls>>

FastChildren(t) ==
    LET e == children[walk[t].dir][walk[t].name]
    IN  /\ Walking(t, "children")
        /\ walk' = [walk EXCEPT ![t] = IF e # 0 THEN Answer(t, e)
                                       ELSE [@ EXCEPT !.pc = "negative"]]
        /\ UNCHANGED <<disk, mounts, children, negative, dentry, call, truth, ncalls>>

FastNegative(t) ==
    /\ Walking(t, "negative")
    /\ walk' = [walk EXCEPT ![t] = IF @.name \in negative[@.dir] THEN Answer(t, 0)
                                   ELSE [@ EXCEPT !.pc = "slow"]]
    /\ UNCHANGED <<disk, mounts, children, negative, dentry, call, truth, ncalls>>

\* Mutant: the positive cache is not looked at again.
KnownMounted(d, n) == mounts[d][n]

\* The dentry the namespace already has for a name, or 0.
Known(d, n) ==
    IF mounts[d][n] # 0 THEN mounts[d][n]
    ELSE IF d \in Cacheable THEN children[d][n] ELSE 0

\* Under the lock both caches are looked at again before the backing file
\* system is asked.  A miss is remembered; a hit gets a dentry, whose
\* publication lockless readers may overtake.
FindLowerChild(t) ==
    LET d == walk[t].dir
        n == walk[t].name
        known == Known(d, n)
    IN  /\ Walking(t, "slow")
        /\ LockFree(d)
        /\ \/ /\ known # 0 \/ (d \in Cacheable /\ n \in negative[d])
              /\ walk' = [walk EXCEPT ![t] = Answer(t, known)]
              /\ UNCHANGED <<negative, dentry>>
           \/ /\ known = 0 /\ ~(d \in Cacheable /\ n \in negative[d])
              /\ disk[d][n] = 0
              /\ walk' = [walk EXCEPT ![t] = Answer(t, 0)]
              /\ negative' = IF d \in Cacheable THEN WithNegative(d, n) ELSE negative
              /\ UNCHANGED dentry
           \/ /\ known = 0 /\ ~(d \in Cacheable /\ n \in negative[d])
              /\ disk[d][n] # 0
              /\ NextId <= MaxDentry
              /\ dentry' = Append(dentry, NewDentry(disk[d][n]))
              /\ walk' = [walk EXCEPT ![t] =
                   IF d \in Cacheable THEN [@ EXCEPT !.pc = "publish", !.got = NextId]
                   ELSE Answer(t, NextId)]
              /\ negative' = IF d \in Cacheable THEN [negative EXCEPT ![d] = @ \ {n}]
                             ELSE negative
        /\ UNCHANGED <<disk, mounts, children, call, truth, ncalls>>

\* The backing lookup fails: nothing is remembered, and the caller cannot
\* tell it from a miss.
FindLowerFailed(t) ==
    /\ "failed" \in Can
    /\ Walking(t, "slow")
    /\ LockFree(walk[t].dir)
    /\ mounts[walk[t].dir][walk[t].name] = 0
    /\ walk[t].dir \in Cacheable =>
         children[walk[t].dir][walk[t].name] = 0 /\ walk[t].name \notin negative[walk[t].dir]
    /\ walk' = [walk EXCEPT ![t] = Free]
    /\ UNCHANGED <<disk, mounts, children, negative, dentry, call, truth, ncalls>>

PublishFound(t) ==
    /\ Walking(t, "publish")
    /\ children' = [children EXCEPT ![walk[t].dir][walk[t].name] = walk[t].got]
    /\ walk' = [walk EXCEPT ![t] = Answer(t, @.got)]
    /\ UNCHANGED <<disk, mounts, negative, dentry, call, truth, ncalls>>

---------------------------------------------------------------------------
(* Calls that change names.  change is the set of <<directory, name, new   *)
(* object>> of the call; todo what is left to publish.                     *)

ClearNegative(d, n) == [do |-> "negative", dir |-> d, name |-> n, e |-> 0]
PutChild(d, n, e) == [do |-> "child", dir |-> d, name |-> n, e |-> e]
Mark(e) == [do |-> "mark", dir |-> 0, name |-> 0, e |-> e]

\* History: while a call runs, a lookup may report the old or the new binding.
Visible(d, n) == IF mounts[d][n] # 0 THEN dentry[mounts[d][n]].obj ELSE disk[d][n]

Begin(t, dirs, change, todo) ==
    LET hit(d, n) == {c \in change : c[1] = d /\ c[2] = n}
        then(d, n) == {c[3] : c \in hit(d, n)}
    IN  /\ disk' = [d \in Dir |-> [n \in Names |->
              IF hit(d, n) = {} THEN disk[d][n] ELSE CHOOSE o \in then(d, n) : TRUE]]
        /\ truth' = [d \in Dir |-> [n \in Names |->
              IF mounts[d][n] # 0 THEN truth[d][n] ELSE truth[d][n] \cup then(d, n)]]
        /\ walk' = [w \in Walker |->
              IF walk[w].pc \in {"idle", "done"} THEN walk[w]
              ELSE [walk[w] EXCEPT !.seen = @ \cup then(walk[w].dir, walk[w].name)]]
        /\ call' = [call EXCEPT ![t] = [pc |-> "publish", dirs |-> dirs, todo |-> todo]]
        /\ ncalls' = ncalls + 1

Ready(t, dirs) ==
    /\ call[t].pc = "idle"
    /\ ncalls < MaxCalls
    /\ \A d \in dirs : LockFree(d)

\* create_file_in_dentry, create_dir_in_dentry and symlinkat: an existing
\* mount or cached child is returned (or refused); the backing create fails
\* on a name that exists, which the callers' lookup has excluded.
CreateInDentry(t, d, n) ==
    /\ "create" \in Can
    /\ Ready(t, {d})
    /\ mounts[d][n] = 0 /\ children[d][n] = 0
    /\ disk[d][n] = 0
    /\ NextId <= MaxDentry
    /\ \E o \in Objects :
         /\ \A e \in DOMAIN dentry : dentry[e].obj # o
         /\ \A x \in Dir, m \in Names : disk[x][m] # o
         /\ \A o2 \in 1 .. o - 1 : (\E e \in DOMAIN dentry : dentry[e].obj = o2)
                                    \/ \E x \in Dir, m \in Names : disk[x][m] = o2
         /\ dentry' = Append(dentry, NewDentry(o))
         /\ Begin(t, {d}, {<<d, n, o>>}, <<ClearNegative(d, n), PutChild(d, n, NextId)>>)
    /\ UNCHANGED <<mounts, children, negative>>

\* mount_child: an overlay over whatever the backing directory has.
MountChild(t, d, n, o) ==
    /\ "mount" \in Can
    /\ Ready(t, {d})
    /\ mounts[d][n] = 0
    /\ NextId <= MaxDentry
    /\ \A e \in DOMAIN dentry : dentry[e].obj # o
    /\ \A x \in Dir, m \in Names : disk[x][m] # o
    /\ dentry' = Append(dentry, NewDentry(o))
    /\ mounts' = [mounts EXCEPT ![d][n] = NextId]
    /\ negative' = [negative EXCEPT ![d] = @ \ {n}]
    /\ truth' = [truth EXCEPT ![d][n] = {o}]
    /\ walk' = [w \in Walker |->
         IF walk[w].pc \in {"idle", "done"} \/ walk[w].dir # d \/ walk[w].name # n THEN walk[w]
         ELSE [walk[w] EXCEPT !.seen = @ \cup {o}]]
    /\ ncalls' = ncalls + 1
    /\ UNCHANGED <<disk, children, call>>

\* unlinkat: the final component is looked up under the lock; an uncached
\* one is given a dentry first, as by a lookup.
Unlinkat(t, d, n) ==
    LET cached == d \in Cacheable /\ children[d][n] # 0
        e == IF cached THEN children[d][n] ELSE NextId
    IN  /\ "unlink" \in Can
        /\ Ready(t, {d})
        /\ mounts[d][n] = 0
        /\ disk[d][n] # 0
        /\ NextId <= MaxDentry
        /\ dentry' = IF cached THEN dentry ELSE Append(dentry, NewDentry(disk[d][n]))
        /\ negative' = IF cached THEN negative ELSE [negative EXCEPT ![d] = @ \ {n}]
        /\ children' = IF d \in Cacheable THEN [children EXCEPT ![d][n] = e] ELSE children
        /\ Begin(t, {d}, {<<d, n, 0>>}, <<Mark(e), PutChild(d, n, 0), ClearNegative(d, n)>>)
        /\ UNCHANGED mounts

\* renameat2: an uncached source gets a dentry that is not yet published.
\* Within one directory the positive cache changes under one lock hold; the
\* model's list keeps those edits together.
Renameat2(t, d, n, e, m) ==
    LET cached == children[d][n] # 0
        src == IF cached THEN children[d][n] ELSE NextId
        over == children[e][m]
        edits == <<ClearNegative(d, n), ClearNegative(e, m), PutChild(d, n, 0)>>
                 \o (IF over # 0 THEN <<Mark(over), PutChild(e, m, 0)>> ELSE <<>>)
                 \o <<PutChild(e, m, src)>>
    IN  /\ "rename" \in Can
        /\ Ready(t, {d, e})
        /\ <<d, n>> # <<e, m>>
        /\ mounts[d][n] = 0 /\ mounts[e][m] = 0
        /\ disk[d][n] # 0
        /\ NextId <= MaxDentry
        /\ dentry' = IF cached THEN dentry ELSE Append(dentry, NewDentry(disk[d][n]))
        /\ Begin(t, {d, e}, {<<d, n, 0>>, <<e, m, disk[d][n]>>}, edits)
        /\ UNCHANGED <<mounts, children, negative>>

\* Edits of one directory's positive cache under one hold of its lock.
Grouped(t) ==
    LET todo == call[t].todo
        stop == {k \in DOMAIN todo : todo[k].do = "negative"}
        one == Cardinality(call[t].dirs) = 1
    IN  IF todo[1].do = "negative" \/ ~one THEN 1
        ELSE IF stop = {} THEN Len(todo) ELSE (CHOOSE k \in stop : \A j \in stop : k <= j) - 1

Publish(t) ==
    LET k == Grouped(t)
        now == SubSeq(call[t].todo, 1, k)
        left == SubSeq(call[t].todo, k + 1, Len(call[t].todo))
        dirs == call[t].dirs
        at(d, n) == {j \in 1 .. k : now[j].do = "child" /\ now[j].dir = d /\ now[j].name = n}
        last(S) == CHOOSE j \in S : \A i \in S : i <= j
    IN  /\ call[t].pc = "publish"
        /\ children' = [d \in Dir |-> [n \in Names |->
              IF at(d, n) = {} THEN children[d][n] ELSE now[last(at(d, n))].e]]
        /\ negative' = [d \in Dir |-> negative[d] \
              {now[j].name : j \in {j \in 1 .. k : now[j].do = "negative" /\ now[j].dir = d}}]
        /\ dentry' = [e \in DOMAIN dentry |->
              IF \E j \in 1 .. k : now[j].do = "mark" /\ now[j].e = e
              THEN [dentry[e] EXCEPT !.unlinked = TRUE] ELSE dentry[e]]
        /\ call' = [call EXCEPT ![t] = IF left = <<>> THEN Free ELSE [@ EXCEPT !.todo = left]]
        /\ truth' = IF left # <<>> THEN truth
                    ELSE [d \in Dir |-> [n \in Names |->
                            IF d \in dirs THEN {Visible(d, n)} ELSE truth[d][n]]]
        /\ UNCHANGED <<disk, mounts, walk, ncalls>>

---------------------------------------------------------------------------
NsInit ==
    /\ disk \in {[d \in Dir |-> [n \in Names |-> 0]],
                 [d \in Dir |-> [n \in Names |->
                    IF d = 1 /\ n = CHOOSE x \in Names : TRUE THEN 1 ELSE 0]]}
    /\ mounts = [d \in Dir |-> [n \in Names |-> 0]]
    /\ children = mounts
    /\ negative = [d \in Dir |-> {}]
    /\ dentry = <<>>
    /\ walk = [t \in Walker |-> Free]
    /\ call = [t \in Changer |-> Free]
    /\ truth = [d \in Dir |-> [n \in Names |-> {disk[d][n]}]]
    /\ ncalls = 0

NsNext ==
    \/ \E t \in Walker :
         \/ \E d \in Dir, n \in Names : FindChild(t, d, n)
         \/ FastMounted(t) \/ FastChildren(t) \/ FastNegative(t)
         \/ FindLowerChild(t) \/ FindLowerFailed(t) \/ PublishFound(t)
    \/ \E t \in Changer :
         \/ \E d \in Dir, n \in Names :
              \/ CreateInDentry(t, d, n) \/ Unlinkat(t, d, n)
              \/ \E o \in Objects : MountChild(t, d, n, o)
              \/ \E e \in Dir, m \in Names : Renameat2(t, d, n, e, m)
         \/ Publish(t)

NsSpec == NsInit /\ [][NsNext]_nsvars

---------------------------------------------------------------------------
\* A lookup that overlaps creations, unlinks, mounts and renames reports a
\* binding the name had at some time during it, although it reads the caches
\* without the namespace lock; and all openers of a file in a cached
\* directory share one dentry (and with it the file's lock table), which is
\* marked unlinked exactly when the file has lost its name.
DentryExact ==
    /\ \A t \in Walker : walk[t].pc = "done" => Obj(walk[t].got) \in walk[t].seen
    /\ Cacheable = Dir =>
         \A e, f \in DOMAIN dentry : dentry[e].obj = dentry[f].obj => e = f
    /\ (\A t \in Changer : call[t].pc = "idle") /\ Cacheable = Dir =>
         \A e \in DOMAIN dentry :
             dentry[e].unlinked <=> ~\E d \in Dir, n \in Names :
                 disk[d][n] = dentry[e].obj \/ Obj(mounts[d][n]) = dentry[e].obj
=============================================================================
