----------------------------- MODULE MCObjects -----------------------------
(***************************************************************************)
(* What processes reach through descriptors, paths and keys: open files,   *)
(* tmpfs, the directory tree, the extents and directories of the ext4 file *)
(* system, TCP and Unix sockets, System V IPC, and the drivers of the      *)
(* disks and of the network card.  They share no state; a behaviour is     *)
(* about one of them.                                                      *)
(***************************************************************************)
EXTENDS Naturals

CONSTANTS t1, t2

VARIABLES
    part,   \* the component that a behaviour is about; the others rest
    calls, table, cloexec, forked, ofd, size, locks, doing, due, count,   \* Files
    page, fsize, reading, expect, result, tcalls,   \* Tmpfs
    disk, mounts, children, negative, dentry, walk, call, truth, ncalls,   \* Namespace
    inode, node, blockBits, inodeBits, held, panicked, mapped, writes,   \* Ext4Blocks
    blocks, cache, generation, op, lister, links, changes,   \* Ext4Dir
    tcp, queue, orphan, sock, fds, tcpCall, tcpNcalls,   \* TcpSockets
    kind, recvQueue, recvBytes, open, wcall, rcall, sent, got,   \* UnixSockets
    uses, msgId, shmId, ipcQueue, keyToId, shm, attachments, space, detaching,
    history, ipcCalls,   \* SysvIpc
    lock, sataCall, reg, hdr, buf, hba, sataDisk, sataSent, info, ops,   \* Ahci
    sdLock, sdCall, ctl, card, sdDisk, start, sdOps,   \* SdCard
    pc, tx, rx, at, hw, given, wire, heard, macGot, tally   \* DwMac

FileCalls == {{"open", "table", "io", "seek"}, {"lock"}}

Files == INSTANCE Files WITH
    Thread <- {"t1", "t2", "t3"}, Parent <- {"t1", "t2"}, Fds <- {0, 1}, Descriptions <- {1, 2},
    FileIds <- {"f"}, MaxSize <- 3, Amounts <- {1, 2}, Ranges <- {<<0, 1>>, <<0, 2>>, <<1, 2>>},
    CallSets <- FileCalls, MaxCall <- 3

Tmp == INSTANCE Tmpfs WITH
    Pages <- 2, PageLen <- 2, Values <- {1, 2}, Thread <- {"t", "u"}, MaxTmp <- 4

Names == INSTANCE Namespace WITH
    Dir <- {1, 2}, Cacheable <- {1, 2}, Names <- {"a"}, Objects <- {1, 2, 3}, MaxDentry <- 3,
    NegLimit <- 1, Walker <- {"w", "v"}, Changer <- {"c"},
    Can <- {"create", "unlink", "rename", "mount", "failed"}, MaxCalls <- 2

Blk == INSTANCE Ext4Blocks WITH
    Inodes <- {1, 2}, Top <- 3, Blocks <- 1 .. 7, RootMax <- 2, NodeMax <- 2, MaxLen <- 2,
    MaxWrites <- 4, AnyStart <- FALSE

Dir == INSTANCE Ext4Dir WITH
    Dirs <- {"d"}, Name <- {"a", "b", "c"},
    Need <- [n \in {"a", "b", "c"} |-> IF n = "b" THEN 2 ELSE 1], Inos <- {1, 2, 3},
    BlockLen <- 2, MaxBlocks <- 2, CacheCap <- 2, Thread <- {"t"}, Lister <- {"s"}, Emit <- 6,
    MaxChanges <- 3

Tcp == INSTANCE TcpSockets WITH
    Thread <- {t1, t2}, Handles <- 5, Sockets <- 4, Fds <- 3, Backlog <- 2, Room <- 1,
    MaxCalls <- 4, call <- tcpCall, ncalls <- tcpNcalls

Unix == INSTANCE UnixSockets WITH
    Writer <- {t1, t2}, Kinds <- {"stream", "dgram"}, Sizes <- {1, 2}, RecvLimit <- 2,
    MaxSent <- 4

Ipc == INSTANCE SysvIpc WITH
    Process <- {1, 2}, Root <- {2}, Keys <- {7}, Types <- {1, 2}, Lengths <- {1, 2},
    QueueMax <- 2, QBytes <- {2, 3}, Addresses <- 2, CallSets <- {{"msg"}, {"shm"}},
    MaxIpc <- 4, queue <- ipcQueue, calls <- ipcCalls

Sata == INSTANCE Ahci WITH
    Cpus <- {"c1", "c2"}, Blocks <- {"b1", "b2"}, Value <- {"v", "w"}, MaxOps <- 2,
    call <- sataCall, disk <- sataDisk, sent <- sataSent

Sd == INSTANCE SdCard WITH
    Cpus <- {"c1", "c2"}, Blocks <- {1, 2}, Value <- {"v"}, HighCapacity <- FALSE, Ext4 <- {2},
    Depth <- 1, MaxOps <- 2, lock <- sdLock, call <- sdCall, disk <- sdDisk, ops <- sdOps

Mac == INSTANCE DwMac WITH
    RingSize <- 3, MaxTx <- 4, MaxRx <- 4, got <- macGot

FilesVars == <<calls, table, cloexec, forked, ofd, size, locks, doing, due, count>>
TmpVars == <<page, fsize, reading, expect, result, tcalls>>
NamesVars == <<disk, mounts, children, negative, dentry, walk, call, truth, ncalls>>
BlkVars == <<inode, node, blockBits, inodeBits, held, panicked, mapped, writes>>
DirVars == <<blocks, cache, generation, op, lister, links, changes>>
TcpVars == <<tcp, queue, orphan, sock, fds, tcpCall, tcpNcalls>>
UnixVars == <<kind, recvQueue, recvBytes, open, wcall, rcall, sent, got>>
IpcVars == <<uses, msgId, shmId, ipcQueue, keyToId, shm, attachments, space, detaching, history,
             ipcCalls>>
SataVars == <<lock, sataCall, reg, hdr, buf, hba, sataDisk, sataSent, info, ops>>
SdVars == <<sdLock, sdCall, ctl, card, sdDisk, start, sdOps>>
MacVars == <<pc, tx, rx, at, hw, given, wire, heard, macGot, tally>>

vars == <<part, FilesVars, TmpVars, NamesVars, BlkVars, DirVars, TcpVars, UnixVars, IpcVars,
          SataVars, SdVars, MacVars>>

OnlyFiles == part = "files" /\ UNCHANGED <<part, TmpVars, NamesVars, BlkVars, DirVars, TcpVars,
        UnixVars, IpcVars, SataVars, SdVars, MacVars>>
OnlyTmp == part = "tmpfs" /\ UNCHANGED <<part, FilesVars, NamesVars, BlkVars, DirVars, TcpVars,
        UnixVars, IpcVars, SataVars, SdVars, MacVars>>
OnlyNames == part = "names" /\ UNCHANGED <<part, FilesVars, TmpVars, BlkVars, DirVars, TcpVars,
        UnixVars, IpcVars, SataVars, SdVars, MacVars>>
OnlyBlk == part = "blocks" /\ UNCHANGED <<part, FilesVars, TmpVars, NamesVars, DirVars, TcpVars,
        UnixVars, IpcVars, SataVars, SdVars, MacVars>>
OnlyDir == part = "dir" /\ UNCHANGED <<part, FilesVars, TmpVars, NamesVars, BlkVars, TcpVars,
        UnixVars, IpcVars, SataVars, SdVars, MacVars>>
OnlyTcp == part = "tcp" /\ UNCHANGED <<part, FilesVars, TmpVars, NamesVars, BlkVars, DirVars,
        UnixVars, IpcVars, SataVars, SdVars, MacVars>>
OnlyUnix == part = "unix" /\ UNCHANGED <<part, FilesVars, TmpVars, NamesVars, BlkVars, DirVars,
        TcpVars, IpcVars, SataVars, SdVars, MacVars>>
OnlyIpc == part = "ipc" /\ UNCHANGED <<part, FilesVars, TmpVars, NamesVars, BlkVars, DirVars,
        TcpVars, UnixVars, SataVars, SdVars, MacVars>>
OnlySata == part = "ahci" /\ UNCHANGED <<part, FilesVars, TmpVars, NamesVars, BlkVars, DirVars,
        TcpVars, UnixVars, IpcVars, SdVars, MacVars>>
OnlySd == part = "sd" /\ UNCHANGED <<part, FilesVars, TmpVars, NamesVars, BlkVars, DirVars,
        TcpVars, UnixVars, IpcVars, SataVars, MacVars>>
OnlyMac == part = "mac" /\ UNCHANGED <<part, FilesVars, TmpVars, NamesVars, BlkVars, DirVars,
        TcpVars, UnixVars, IpcVars, SataVars, SdVars>>

\* A component that rests stays in one of its initial states.
Init ==
    /\ part \in {"files", "tmpfs", "names", "blocks", "dir", "tcp", "unix", "ipc", "ahci", "sd",
                 "mac"}
    /\ Files!FilesInit
    /\ part # "files" => calls = {"lock"}
    /\ Tmp!TmpInit
    /\ Names!NsInit
    /\ part # "names" => disk = [d \in {1, 2} |-> [n \in {"a"} |-> 0]]
    /\ Blk!Ext4Init
    /\ Dir!DirInit
    /\ Tcp!TcpInit
    /\ Unix!UnixInit
    /\ part # "unix" => kind = "stream"
    /\ Ipc!IpcInit
    /\ part # "ipc" => uses = {"msg"}
    /\ Sata!AhciInit
    /\ part # "ahci" => reg.ci = FALSE
    /\ Sd!SdInit
    /\ Mac!MacInit

Next ==
    \/ OnlyFiles /\ Files!FilesNext
    \/ OnlyTmp /\ Tmp!TmpNext
    \/ OnlyNames /\ Names!NsNext
    \/ OnlyBlk /\ Blk!Ext4Next
    \/ OnlyDir /\ Dir!DirNext
    \/ OnlyTcp /\ Tcp!TcpNext
    \/ OnlyUnix /\ Unix!UnixNext
    \/ OnlyIpc /\ Ipc!IpcNext
    \/ OnlySata /\ Sata!AhciNext
    \/ OnlySd /\ Sd!SdNext
    \/ OnlyMac /\ Mac!MacNext

Spec == Init /\ [][Next]_vars

-----------------------------------------------------------------------------
\* Open files (process/task/files.rs, syscall/fs.rs, fs/inode.rs): concurrent
\* reads and writes through one description use disjoint stretches, the offset
\* ends where the transfers end, and record locks exclude each other.  Files in
\* tmpfs return what was last written, even across truncation.
FilesExact == (part = "files" => Files!FilesExact) /\ (part = "tmpfs" => Tmp!TmpReads)

\* The directory tree (fs/file_tree.rs): a lookup that returns an object, or
\* that there is none, is right for some moment of the lookup, whatever is
\* created, renamed, mounted or removed meanwhile.
DentryExact == part = "names" => Names!DentryExact

\* The extent tree (ext4fs/ext4inode.rs): a block belongs to one place of one
\* file, to one tree node, or is free; every logical block that was mapped is
\* found again, and none that was not.
BlocksExact == part = "blocks" => Blk!BlocksExact

\* Directories (ext4fs/ext4inode.rs, vfs.rs): the lookup cache never
\* contradicts the directory, a listing contains every entry that was there
\* throughout, and a link count is that of the entries.
DirExact == part = "dir" => Dir!DirExact

\* TCP handles (net/socket.rs): a handle that a socket in use refers to is
\* never removed, none is shared, and none outlives its socket but as an
\* orphan.
HandlesOwned == part = "tcp" => Tcp!HandlesOwned

\* Unix socket pairs (UnixSocket::read, write): bytes arrive in order, once,
\* and the count that bounds the queue is exact.
StreamIntact == part = "unix" => Unix!StreamIntact

\* System V IPC (ipc/msg.rs, ipc/shm.rs): identifiers and keys lead to the
\* object they were handed out for, and msgrcv takes the message that its type
\* asks for.
IpcExact == part = "ipc" => Ipc!IpcExact

\* Drivers (sata_blk.rs, sdcard.rs, dwmac.rs): a block that a read returns is
\* the block on the disk, whole, and a write that returns is on the disk,
\* whatever commands timed out or were repeated before; frames leave and arrive
\* in order, once and unchanged, also around sends that timed out.
DevicesExact ==
    /\ part = "ahci" => Sata!DiskExact
    /\ part = "sd" => Sd!CardExact
    /\ part = "mac" => Mac!RingsExact
=============================================================================
