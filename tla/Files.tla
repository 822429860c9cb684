------------------------------- MODULE Files --------------------------------
(***************************************************************************)
(* Descriptor tables, open file descriptions and file locks                *)
(* (process/task/files.rs, fs/inode.rs, syscall/fs.rs).                    *)
(*                                                                         *)
(* A table maps descriptors to open file descriptions (OSInode objects); a *)
(* thread's calls look the description up under the table's lock and use   *)
(* it after releasing it.  read and write hold the description's own lock  *)
(* from taking the offset to storing the new one.  Offsets and sizes are   *)
(* counted in small units; a file's contents are its size.                 *)
(***************************************************************************)
EXTENDS Integers, Sequences, FiniteSets, FiniteSetsExt

CONSTANTS
    Thread,      \* threads, and the two processes they belong to:
    Parent,      \*   threads of process 1; the rest belong to process 2,
                 \*   which starts as a fork of process 1
    Fds,         \* descriptors below the limit, 0 .. n
    Descriptions,\* names of open file descriptions, positive integers
    FileIds,     \* regular files
    MaxSize,     \* bound on file sizes
    Amounts,     \* amounts transferred by one call
    Ranges,      \* byte ranges of record locks: [from, to)
    CallSets,    \* sets of calls; a behaviour uses one of them
    MaxCall      \* bound on calls

VARIABLES
    calls,       \* the set of calls of this behaviour
    table,       \* [1 .. 2 -> [Fds -> description or 0]]
    cloexec,     \* descriptors marked close-on-exec, per table
    forked,      \* process 2 exists
    ofd,         \* open descriptions: file, offset, append, holder of its lock
    size,        \* file sizes
    locks,       \* record and whole-file locks of each file
    doing,       \* the call a thread is in
    due,         \* history: where the next transfer of a description starts
    count

filevars == <<calls, table, cloexec, forked, ofd, size, locks, doing, due, count>>

Pid(t) == IF t \in Parent THEN 1 ELSE 2
Idle == [pc |-> "idle"]
Unused == [file |-> "none", off |-> 0, append |-> FALSE, by |-> "none"]

\* A description lives while a table or a running call refers to it.
Refs(tb, dg) ==
    {tb[p][fd] : p \in 1 .. 2, fd \in Fds}
    \cup UNION {{dg[t].o, dg[t].out} : t \in {t \in Thread : dg[t].pc # "idle"}}

\* Descriptions nobody refers to any more are dropped.
Dropped(o, tb, dg) ==
    [d \in Descriptions |-> IF d \in Refs(tb, dg) THEN o[d] ELSE Unused]

Begins(t) ==
    /\ doing[t].pc = "idle"
    /\ count < MaxCall
    /\ t \notin Parent => forked
    /\ count' = count + 1

Bound(t, fd) == table[Pid(t)][fd]

---------------------------------------------------------------------------
(* The table *)

\* alloc_fd: the lowest free slot below the limit.
AllocFd(p) == {fd \in Fds : table[p][fd] = 0 /\ \A g \in Fds : g < fd => table[p][g] # 0}

Install(p, fd, d, flag) ==
    /\ table' = [table EXCEPT ![p][fd] = d]
    /\ cloexec' = [cloexec EXCEPT ![p] = IF flag THEN @ \cup {fd} ELSE @ \ {fd}]

\* openat: truncation comes before the descriptor is allocated, so a full
\* table leaves the file empty.
Openat(t, f, append, trunc, flag) ==
    /\ "open" \in calls
    /\ Begins(t)
    /\ \E d \in Descriptions :
         /\ d \notin Refs(table, doing) /\ \A e \in 1 .. d - 1 : e \in Refs(table, doing)
         /\ IF AllocFd(Pid(t)) = {} THEN UNCHANGED <<table, cloexec, ofd, due>>
            ELSE /\ \E fd \in AllocFd(Pid(t)) : Install(Pid(t), fd, d, flag)
                 /\ ofd' = [ofd EXCEPT ![d] =
                      [file |-> f, off |-> 0, append |-> append, by |-> "none"]]
                 /\ due' = [due EXCEPT ![d] = 0]
    /\ size' = IF trunc THEN [size EXCEPT ![f] = 0] ELSE size
    /\ UNCHANGED <<calls, forked, locks, doing>>

Close(t, fd) ==
    /\ "table" \in calls
    /\ Begins(t)
    /\ Bound(t, fd) # 0
    /\ Install(Pid(t), fd, 0, FALSE)
    /\ ofd' = Dropped(ofd, table', doing)
    /\ UNCHANGED <<calls, forked, size, locks, doing, due>>

Dup(t, fd) ==
    /\ "table" \in calls
    /\ Begins(t)
    /\ Bound(t, fd) # 0
    /\ \E to \in AllocFd(Pid(t)) : Install(Pid(t), to, Bound(t, fd), FALSE)
    /\ UNCHANGED <<calls, forked, ofd, size, locks, doing, due>>

\* F_DUPFD and F_DUPFD_CLOEXEC take the lowest free descriptor not below
\* from; F_SETFD only changes the mark.
Fcntl(t, fd, from, flag) ==
    LET free == {g \in Fds : g >= from /\ table[Pid(t)][g] = 0}
    IN  /\ "table" \in calls
        /\ Begins(t)
        /\ Bound(t, fd) # 0
        /\ \/ free # {} /\ Install(Pid(t), Min(free), Bound(t, fd), flag)
           \/ Install(Pid(t), fd, Bound(t, fd), flag)
        /\ UNCHANGED <<calls, forked, ofd, size, locks, doing, due>>

\* dup3: what the target held is dropped.
Dup3(t, fd, to, flag) ==
    /\ "table" \in calls
    /\ Begins(t)
    /\ Bound(t, fd) # 0
    /\ fd # to
    /\ Install(Pid(t), to, Bound(t, fd), flag)
    /\ ofd' = Dropped(ofd, table', doing)
    /\ UNCHANGED <<calls, forked, size, locks, doing, due>>

\* fork without CLONE_FILES copies the table; the descriptions are shared.
Fork(t) ==
    /\ ~forked
    /\ t \in Parent
    /\ Begins(t)
    /\ forked' = TRUE
    /\ table' = [table EXCEPT ![2] = table[1]]
    /\ cloexec' = [cloexec EXCEPT ![2] = cloexec[1]]
    /\ UNCHANGED <<calls, ofd, size, locks, doing, due>>

\* exec drops the descriptors marked close-on-exec.
Exec(t) ==
    /\ "table" \in calls
    /\ t \notin Parent
    /\ Begins(t)
    /\ table' = [table EXCEPT ![Pid(t)] = [fd \in Fds |-> IF fd \in cloexec[Pid(t)] THEN 0 ELSE @[fd]]]
    /\ cloexec' = [cloexec EXCEPT ![Pid(t)] = {}]
    /\ ofd' = Dropped(ofd, table', doing)
    /\ UNCHANGED <<calls, forked, size, locks, doing, due>>

---------------------------------------------------------------------------
(* Transfers *)

\* The call a thread is in: pieces still to move, each with a read or write
\* of description o; out is where sendfile writes what it has read.
InCall(o, op, pieces, out) ==
    [pc |-> "cloned", o |-> o, op |-> op, pieces |-> pieces, at |-> 0, out |-> out]

\* Every transfer clones the description out of the table.
Transfer(t, fd, op, pieces, out) ==
    /\ "io" \in calls
    /\ Begins(t)
    /\ Bound(t, fd) # 0
    /\ doing' = [doing EXCEPT ![t] = InCall(Bound(t, fd), op, pieces, out)]
    /\ UNCHANGED <<calls, table, cloexec, forked, ofd, size, locks, due>>

Read(t, fd, n) == Transfer(t, fd, "read", <<n>>, 0)

Write(t, fd, n) == Transfer(t, fd, "write", <<n>>, 0)

\* One read or write of the file per vector: others may get in between.
Readv(t, fd, n) == Transfer(t, fd, "read", <<n, n>>, 0)

Writev(t, fd, n) == Transfer(t, fd, "write", <<n, n>>, 0)

Sendfile(t, fd, out, n) ==
    /\ Bound(t, out) # 0
    /\ Transfer(t, fd, "read", <<n>>, Bound(t, out))

\* Mutant: the offset is taken without the description's lock.
TakeOffsetUnlocked(t) ==
    LET c == doing[t]
        d == ofd[c.o]
    IN  /\ c.pc = "cloned"
        /\ ofd' = [ofd EXCEPT ![c.o].by = t]
        /\ doing' = [doing EXCEPT ![t].pc = "locked",
              ![t].at = IF c.op = "write" /\ d.append THEN size[d.file] ELSE d.off]
        /\ UNCHANGED <<calls, table, cloexec, forked, size, locks, due, count>>

\* OSInode::read and write take the description's lock and the offset; an
\* appending write takes the size of the file instead.
TakeOffset(t) ==
    LET c == doing[t]
        d == ofd[c.o]
    IN  /\ c.pc = "cloned"
        /\ d.by = "none"
        /\ ofd' = [ofd EXCEPT ![c.o].by = t]
        /\ doing' = [doing EXCEPT ![t].pc = "locked",
              ![t].at = IF c.op = "write" /\ d.append THEN size[d.file] ELSE d.off]
        /\ UNCHANGED <<calls, table, cloexec, forked, size, locks, due, count>>

\* Bytes the inode moves for the piece at hand.
Moved(t) ==
    LET c == doing[t]
        have == size[ofd[c.o].file] - c.at
    IN  IF c.op = "write" THEN Min({Head(c.pieces), MaxSize - c.at})
        ELSE IF have <= 0 THEN 0 ELSE Min({Head(c.pieces), have})

\* The offset moves on by what was moved and the lock goes.  sendfile goes
\* on to write what it read, a vectored call to its next vector unless this
\* one fell short.
StoreOffset(t) ==
    LET c == doing[t]
        d == ofd[c.o]
        n == Moved(t)
        next == IF c.out # 0 /\ n > 0 THEN InCall(c.out, "write", <<n>>, 0)
                ELSE IF n < Head(c.pieces) \/ Len(c.pieces) = 1 THEN Idle
                ELSE InCall(c.o, c.op, Tail(c.pieces), 0)
    IN  /\ c.pc = "locked"
        /\ size' = IF c.op = "write" /\ n > 0
                   THEN [size EXCEPT ![d.file] = Max({@, c.at + n})] ELSE size
        /\ doing' = [doing EXCEPT ![t] = next]
        /\ ofd' = Dropped([ofd EXCEPT ![c.o].off = @ + n, ![c.o].by = "none"], table, doing')
        /\ due' = [due EXCEPT ![c.o] = @ + n]
        /\ UNCHANGED <<calls, table, cloexec, forked, locks, count>>

\* lseek waits for the description's lock while it holds the table's.
Lseek(t, fd, to) ==
    /\ "seek" \in calls
    /\ Begins(t)
    /\ Bound(t, fd) # 0
    /\ ofd[Bound(t, fd)].by = "none"
    /\ ofd' = [ofd EXCEPT ![Bound(t, fd)].off = to]
    /\ due' = [due EXCEPT ![Bound(t, fd)] = to]
    /\ UNCHANGED <<calls, table, cloexec, forked, size, locks, doing>>

\* pwrite64 and ftruncate leave the offset alone and need no lock on it.
Pwrite64(t, fd, at, n) ==
    LET f == ofd[Bound(t, fd)].file
    IN  /\ "seek" \in calls
        /\ Begins(t)
        /\ Bound(t, fd) # 0
        /\ at + n <= MaxSize
        /\ size' = [size EXCEPT ![f] = Max({@, at + n})]
        /\ UNCHANGED <<calls, table, cloexec, forked, ofd, locks, doing, due>>

Ftruncate(t, fd, to) ==
    /\ "seek" \in calls
    /\ Begins(t)
    /\ Bound(t, fd) # 0
    /\ size' = [size EXCEPT ![ofd[Bound(t, fd)].file] = to]
    /\ UNCHANGED <<calls, table, cloexec, forked, ofd, locks, doing, due>>

---------------------------------------------------------------------------
(* Locks *)

Overlap(a, b) == a[1] < b[2] /\ b[1] < a[2]

Conflict(l, excl, range) == (l.excl \/ excl) /\ Overlap(l.range, range)

\* F_SETLK and F_SETLKW: refused, or tried again until it succeeds, while
\* another process's lock conflicts; the caller's overlapping locks go whole.
\* Closing or exiting releases nothing.
Own(t, l) == ~l.flock /\ l.pid = Pid(t)

SetLock(t, fd, excl, range) ==
    LET f == ofd[Bound(t, fd)].file
    IN  /\ "lock" \in calls
        /\ Begins(t)
        /\ Bound(t, fd) # 0
        /\ ~\E l \in locks[f] : ~l.flock /\ l.pid # Pid(t) /\ Conflict(l, excl, range)
        /\ locks' = [locks EXCEPT ![f] =
             {l \in @ : ~(Own(t, l) /\ Overlap(l.range, range))}
             \cup {[flock |-> FALSE, pid |-> Pid(t), fd |-> 0, excl |-> excl, range |-> range]}]
        /\ UNCHANGED <<calls, table, cloexec, forked, ofd, size, doing, due>>

Unlock(t, fd, range) ==
    LET f == ofd[Bound(t, fd)].file
    IN  /\ "lock" \in calls
        /\ Begins(t)
        /\ Bound(t, fd) # 0
        /\ locks' = [locks EXCEPT ![f] = {l \in @ : ~(Own(t, l) /\ Overlap(l.range, range))}]
        /\ UNCHANGED <<calls, table, cloexec, forked, ofd, size, doing, due>>

Whole == <<0, MaxSize + 1>>

\* flock: owned by process and descriptor number.  An owner that already has
\* a lock just gets its type changed; anyone else waits for no conflict.
Flock(t, fd, how) ==
    LET f == ofd[Bound(t, fd)].file
        mine == {l \in locks[f] : l.flock /\ l.pid = Pid(t) /\ l.fd = fd}
        new == [flock |-> TRUE, pid |-> Pid(t), fd |-> fd, excl |-> how = "ex",
                range |-> Whole]
    IN  /\ "lock" \in calls
        /\ Begins(t)
        /\ Bound(t, fd) # 0
        /\ \/ /\ how = "un"
              /\ locks' = [locks EXCEPT ![f] = @ \ mine]
           \/ /\ how # "un"
              /\ mine # {} \/ ~\E l \in locks[f] : l.flock /\ Conflict(l, how = "ex", Whole)
              /\ locks' = [locks EXCEPT ![f] = (@ \ mine) \cup {new}]
        /\ UNCHANGED <<calls, table, cloexec, forked, ofd, size, doing, due>>

---------------------------------------------------------------------------
FilesInit ==
    /\ calls \in CallSets
    /\ table = [p \in 1 .. 2 |-> [fd \in Fds |-> IF p = 1 /\ fd = 0 THEN 1 ELSE 0]]
    /\ cloexec = [p \in 1 .. 2 |-> {}]
    /\ forked = FALSE
    /\ ofd = [d \in Descriptions |->
         IF d = 1 THEN [file |-> CHOOSE f \in FileIds : TRUE, off |-> 0, append |-> FALSE,
                        by |-> "none"]
         ELSE Unused]
    /\ size = [f \in FileIds |-> 2]
    /\ locks = [f \in FileIds |-> {}]
    /\ doing = [t \in Thread |-> Idle]
    /\ due = [d \in Descriptions |-> 0]
    /\ count = 0

FilesNext ==
    \E t \in Thread :
        \/ TakeOffset(t) \/ StoreOffset(t)
        \/ Fork(t) \/ Exec(t)
        \/ \E f \in FileIds, append, trunc, flag \in BOOLEAN : Openat(t, f, append, trunc, flag)
        \/ \E fd \in Fds :
             \/ Close(t, fd) \/ Dup(t, fd)
             \/ \E to \in Fds, flag \in BOOLEAN : Fcntl(t, fd, to, flag) \/ Dup3(t, fd, to, flag)
             \/ \E n \in Amounts :
                  \/ Read(t, fd, n) \/ Write(t, fd, n) \/ Readv(t, fd, n) \/ Writev(t, fd, n)
                  \/ \E g \in Fds : Sendfile(t, fd, g, n)
             \/ \E to \in {0, MaxSize} : Lseek(t, fd, to) \/ Ftruncate(t, fd, to)
             \/ \E n \in Amounts : Pwrite64(t, fd, 1, n)
             \/ \E excl \in BOOLEAN, r \in Ranges : SetLock(t, fd, excl, r)
             \/ \E r \in Ranges : Unlock(t, fd, r)
             \/ \E how \in {"sh", "ex", "un"} : Flock(t, fd, how)

FilesSpec == FilesInit /\ [][FilesNext]_filevars

---------------------------------------------------------------------------
\* Whoever shares an open description by dup or fork, each transfer starts
\* where the last one or the last seek ended: no byte is delivered twice or
\* skipped, whatever is closed or exec'ed meanwhile.
OffsetsExact ==
    \A t \in Thread :
        LET c == doing[t]
        IN  c.pc = "locked" /\ ~(c.op = "write" /\ ofd[c.o].append) => c.at = due[c.o]

\* Record locks of different processes on one file never conflict.
LocksExclusive ==
    \A f \in FileIds : \A k, l \in locks[f] :
        ~k.flock /\ ~l.flock /\ k.pid # l.pid => ~Conflict(k, l.excl, l.range)

FilesExact == OffsetsExact /\ LocksExclusive
=============================================================================
