----------------------------- MODULE TcpSockets -----------------------------
(***************************************************************************)
(* TCP sockets (net/socket.rs, net/mod.rs, syscall/net.rs) above smoltcp.  *)
(* A TcpSocket is a file that owns one handle of the global SOCKET_SET, or *)
(* several while it listens: one handle takes one connection, so a backlog *)
(* is a set of handles listening on one port.  accept hands the handle of  *)
(* the established connection to a new file, or, when it is the first one, *)
(* keeps the file for the connection and puts a new listener in its place. *)
(* A closed socket whose connection is not over lives on as an orphan that *)
(* net_poll, called by everybody, removes once the protocol has ended.     *)
(*                                                                         *)
(* smoltcp is external: the state machine of a connection over loopback,   *)
(* driven to rest by each poll.  Data are counts of segments.              *)
(***************************************************************************)
EXTENDS Integers, FiniteSets, FiniteSetsExt

CONSTANTS Thread, Handles, Sockets, Fds,   \* numbers of handles, sockets and descriptors
          Backlog,     \* the argument of listen
          Room,        \* segments that a buffer holds
          MaxCalls     \* bound on the number of system calls

VARIABLES tcp,     \* SOCKET_SET: the smoltcp socket of each handle
          queue,   \* the handles with an entry in SOCKET_WAIT_QUEUES
          orphan,  \* ORPHANED_TCP_SOCKETS
          sock,    \* the TcpSocket objects
          fds,     \* the descriptor table: a socket, or 0
          call,    \* the system call each thread is in
          ncalls

tcpVars == <<tcp, queue, orphan, sock, fds, call, ncalls>>

Handle == 1 .. Handles
Fd == 1 .. Fds
Port == 1
NoSocket == [st |-> "gone", peer |-> 0, tx |-> 0, rx |-> 0]
NewSocket == [NoSocket EXCEPT !.st = "Closed"]
Blank == [h |-> 0, backlog |-> {}, listener |-> FALSE]
NoCall == [at |-> "user", s |-> 0, fd |-> 0, h |-> 0]

-----------------------------------------------------------------------------
(* smoltcp: one poll of a handle.                                          *)
Listeners(T) == {l \in Handle : T[l].st = "Listen"}
Advance(T, h) ==
    LET s == T[h]
        p == s.peer
        q == IF p = 0 THEN NoSocket ELSE T[p]
        moved == Min({s.tx, Room - q.rx})
    IN CASE s.st = "SynSent" /\ Listeners(T) = {} -> [T EXCEPT ![h] = NewSocket]
         [] s.st = "SynSent" /\ Listeners(T) # {} ->
              LET l == Min(Listeners(T)) IN
              [T EXCEPT ![h].st = "Established", ![h].peer = l, ![l].st = "Established", ![l].peer = h]
         [] p # 0 /\ moved > 0 -> [T EXCEPT ![h].tx = @ - moved, ![p].rx = @ + moved]
         [] s.st = "FinWait1" /\ s.tx = 0 /\ q.st = "Established" -> [T EXCEPT ![h].st = "FinWait2", ![p].st = "CloseWait"]
         [] s.st = "FinWait1" /\ s.tx = 0 /\ q.st = "FinWait1" -> [T EXCEPT ![h].st = "TimeWait", ![p].st = "TimeWait"]
         [] s.st = "LastAck" /\ s.tx = 0 -> [T EXCEPT ![h] = NewSocket, ![p].st = "TimeWait", ![p].peer = 0]
         [] OTHER -> T
Close(T, h) ==
    [T EXCEPT ![h] = CASE @.st \in {"Listen", "SynSent"} -> NewSocket
                       [] @.st = "Established" -> [@ EXCEPT !.st = "FinWait1"]
                       [] @.st = "CloseWait" -> [@ EXCEPT !.st = "LastAck"]
                       [] OTHER -> @]
MayRecv(s) == s.st \in {"Established", "FinWait1", "FinWait2"} \/ (s.st = "CloseWait" /\ s.rx > 0)
MaySend(s) == s.st \in {"Established", "CloseWait"}
AtEof(s) == ~MayRecv(s) \/ s.st \in {"CloseWait", "Closed", "TimeWait", "LastAck"}

-----------------------------------------------------------------------------
(* net_poll: the interfaces are polled until nothing moves, and a closed   *)
(* socket is removed if it is an orphan or has no wait queue.  The timer   *)
(* of a connection in TimeWait may have expired.                           *)
Rounds == 4
Polled(T) ==
    LET after[i \in 0 .. Rounds * Handles] ==
            IF i = 0 THEN T ELSE Advance(after[i - 1], (i % Handles) + 1)
    IN after[Rounds * Handles]
Expired(T) == [h \in Handle |-> IF T[h].st = "TimeWait" THEN NewSocket ELSE T[h]]
NetPoll(T, Q, O) ==
    \E U \in {Polled(T), Polled(Expired(T))} :
        LET dead == {h \in Handle : U[h].st = "Closed" /\ (h \in O \/ h \notin Q)} IN
        /\ tcp' = [h \in Handle |-> IF h \in dead THEN NoSocket ELSE U[h]]
        /\ orphan' = O \ dead
        /\ queue' = Q

(* The objects that descriptors and running calls refer to.                *)
Alive(F, C) == ({F[d] : d \in Fd} \cup {C[t].s : t \in Thread}) \ {0}
Owned(k) == k.backlog \cup {k.h}

\* Mutant: a connection that is not over is closed but not remembered.
DropForgets(k, T, Q) ==
    LET gone == UNION {Owned(x) : x \in k}
        ended == {h \in gone : T[h].st \in {"Closed", "Listen"}}
        left == {h \in gone : T[h].st \notin {"gone", "Closed", "Listen"}}
    IN NetPoll([h \in Handle |-> IF h \in ended THEN NoSocket ELSE IF h \in left THEN Close(T, h)[h] ELSE T[h]],
               Q \ gone, orphan \ ended)

(* Drop for the TcpSocket objects k, with the poll at its end.             *)
Drop(k, T, Q) ==
    LET gone == UNION {Owned(x) : x \in k}
        ended == {h \in gone : T[h].st \in {"Closed", "Listen"}}
        left == {h \in gone : T[h].st \notin {"gone", "Closed", "Listen"}}
    IN NetPoll([h \in Handle |-> IF h \in ended THEN NoSocket ELSE IF h \in left THEN Close(T, h)[h] ELSE T[h]],
               Q \ gone, (orphan \ ended) \cup left)

(* A step leaves descriptors F, calls C, sockets K, handles T with queues  *)
(* Q; an object that nothing refers to any more is dropped.                *)
Settle(F, C, K, T, Q) ==
    LET lost == {s \in DOMAIN K : K[s] # Blank /\ s \notin Alive(F, C)} IN
    /\ fds' = F /\ call' = C
    /\ sock' = [s \in DOMAIN K |-> IF s \in lost THEN Blank ELSE K[s]]
    /\ IF lost = {} THEN tcp' = T /\ queue' = Q /\ UNCHANGED orphan ELSE Drop({K[s] : s \in lost}, T, Q)
Leave(F, C) == Settle(F, C, sock, tcp, queue)

FreeHandle == {h \in Handle : tcp[h].st = "gone"}
FreeSock == {s \in DOMAIN sock : sock[s] = Blank}
FreeFd(F) == {d \in Fd : F[d] = 0}
Return(t) == [call EXCEPT ![t] = NoCall]
At(t, where) == call[t].at = where
Mine(t) == tcp[sock[call[t].s].h]

-----------------------------------------------------------------------------
(* Entering a call: the descriptor is looked up and the file is held.      *)
Enter(t, where) ==
    /\ At(t, "user") /\ ncalls < MaxCalls
    /\ ncalls' = ncalls + 1
    /\ \E d \in Fd : fds[d] # 0 /\ call' = [call EXCEPT ![t] = [at |-> where, s |-> fds[d], fd |-> d, h |-> 0]]
    /\ UNCHANGED <<tcp, queue, orphan, sock, fds>>

(* sys_socket, TcpSocket::new, allocate_handle: the handle and its queue   *)
(* appear together.                                                        *)
NewObject(s, h) == sock' = [sock EXCEPT ![s] = [h |-> h, backlog |-> {}, listener |-> FALSE]]
SysSocket(t) ==
    /\ At(t, "user") /\ ncalls < MaxCalls
    /\ FreeFd(fds) # {} /\ FreeHandle # {} /\ FreeSock # {}
    /\ LET h == Min(FreeHandle)
           s == Min(FreeSock)
       IN /\ tcp' = [tcp EXCEPT ![h] = NewSocket]
          /\ queue' = queue \cup {h}
          /\ NewObject(s, h)
          /\ fds' = [fds EXCEPT ![Min(FreeFd(fds))] = s]
    /\ ncalls' = ncalls + 1
    /\ UNCHANGED <<orphan, call>>

(* sys_listen, then add_backlog_listener for each further slot.            *)
ListenOn(T, h) == [T EXCEPT ![h] = [NewSocket EXCEPT !.st = "Listen"]]
SysListen(t) ==
    /\ At(t, "listen") /\ UNCHANGED ncalls
    /\ LET s == call[t].s IN
       IF Mine(t).st \in {"Closed", "Listen"}
       THEN /\ tcp' = [tcp EXCEPT ![sock[s].h].st = "Listen"]
            /\ sock' = [sock EXCEPT ![s].listener = TRUE]
            /\ call' = [call EXCEPT ![t].at = "slots", ![t].h = 1]
            /\ UNCHANGED <<queue, orphan, fds>>
       ELSE Leave(fds, Return(t))
AddBacklogListener(t) ==
    /\ At(t, "slots") /\ UNCHANGED ncalls
    /\ IF call[t].h = Backlog
       THEN Leave(fds, Return(t))
       ELSE /\ FreeHandle # {}
            /\ LET h == Min(FreeHandle) IN
               /\ tcp' = ListenOn(tcp, h)
               /\ queue' = queue \cup {h}
               /\ sock' = [sock EXCEPT ![call[t].s].backlog = @ \cup {h}]
            /\ call' = [call EXCEPT ![t].h = @ + 1]
            /\ UNCHANGED <<orphan, fds>>

(* sys_connect: TcpSocket::connect starts the handshake; the loop returns  *)
(* once it sees the connection established or closed.                      *)
SysConnect(t) ==
    /\ At(t, "connect")
    /\ IF Mine(t).st = "Closed"
       THEN /\ tcp' = [tcp EXCEPT ![sock[call[t].s].h].st = "SynSent"]
            /\ call' = [call EXCEPT ![t].at = "connecting"]
            /\ UNCHANGED <<queue, orphan, sock, fds>>
       ELSE Leave(fds, Return(t))
    /\ UNCHANGED ncalls
Connecting(t) ==
    /\ At(t, "connecting")
    /\ IF Mine(t).st \in {"Established", "Closed"}
       THEN Leave(fds, Return(t))
       ELSE NetPoll(tcp, queue, orphan) /\ UNCHANGED <<sock, fds, call>>
    /\ UNCHANGED ncalls

(* sys_accept: poll and look for a handle with a connection, in one step   *)
(* for each; taking it is another step, under the lock of the descriptors. *)
Acceptable(s) == {h \in Owned(sock[s]) : tcp[h].st \in {"Established", "CloseWait"}}
First(s) == IF sock[s].h \in Acceptable(s) THEN sock[s].h ELSE Min(Acceptable(s))
AcceptPoll(t) ==
    /\ At(t, "accept")
    /\ NetPoll(tcp, queue, orphan)
    /\ call' = [call EXCEPT ![t].at = "scan"]
    /\ UNCHANGED <<sock, fds, ncalls>>
AcceptScan(t) ==
    /\ At(t, "scan")
    /\ call' = IF Acceptable(call[t].s) = {} THEN [call EXCEPT ![t].at = "accept"]
               ELSE [call EXCEPT ![t].at = "take", ![t].h = First(call[t].s)]
    /\ UNCHANGED <<tcp, queue, orphan, sock, fds, ncalls>>
AcceptTake(t) ==
    LET c == call[t]
        s == c.s
        d == Min(FreeFd(fds))
        h == Min(FreeHandle)
        n == Min(FreeSock)
        keep == c.h = sock[s].h
        F == IF keep THEN [fds EXCEPT ![c.fd] = n, ![d] = s] ELSE [fds EXCEPT ![d] = n]
        K == IF keep
             THEN [sock EXCEPT ![n] = [h |-> h, backlog |-> sock[s].backlog, listener |-> TRUE],
                               ![s] = [@ EXCEPT !.backlog = {}, !.listener = FALSE]]
             ELSE [sock EXCEPT ![n] = [Blank EXCEPT !.h = c.h], ![s].backlog = (@ \ {c.h}) \cup {h}]
    IN /\ At(t, "take") /\ UNCHANGED ncalls
       /\ IF FreeFd(fds) = {}
          THEN Leave(fds, Return(t))
          ELSE FreeHandle # {} /\ FreeSock # {} /\ Settle(F, Return(t), K, ListenOn(tcp, h), queue \cup {h})

(* TcpSocket::read and write; a poll follows a transfer and comes between  *)
(* two attempts.                                                           *)
SysRead(t) ==
    /\ At(t, "read")
    /\ LET h == sock[call[t].s].h IN
       \/ /\ tcp[h].rx > 0
          /\ tcp' = [tcp EXCEPT ![h].rx = @ - 1]
          /\ call' = [call EXCEPT ![t].at = "poll"]
          /\ UNCHANGED <<queue, orphan, sock, fds>>
       \/ tcp[h].rx = 0 /\ AtEof(tcp[h]) /\ Leave(fds, Return(t))
       \/ tcp[h].rx = 0 /\ ~AtEof(tcp[h]) /\ NetPoll(tcp, queue, orphan) /\ UNCHANGED <<sock, fds, call>>
    /\ UNCHANGED ncalls
WritePoll(t) ==
    /\ At(t, "write")
    /\ NetPoll(tcp, queue, orphan)
    /\ call' = [call EXCEPT ![t].at = "send"]
    /\ UNCHANGED <<sock, fds, ncalls>>
SysWrite(t) ==
    /\ At(t, "send")
    /\ LET h == sock[call[t].s].h IN
       \/ ~MaySend(tcp[h]) /\ Leave(fds, Return(t))
       \/ /\ MaySend(tcp[h]) /\ tcp[h].tx < Room
          /\ tcp' = [tcp EXCEPT ![h].tx = @ + 1]
          /\ call' = [call EXCEPT ![t].at = "poll"]
          /\ UNCHANGED <<queue, orphan, sock, fds>>
       \/ MaySend(tcp[h]) /\ tcp[h].tx = Room /\ call' = [call EXCEPT ![t].at = "write"] /\ UNCHANGED <<tcp, queue, orphan, sock, fds>>
    /\ UNCHANGED ncalls
(* The last poll of a call, and the poll of the network worker.            *)
LastPoll(t) ==
    /\ At(t, "poll")
    /\ NetPoll(tcp, queue, orphan)
    /\ call' = [call EXCEPT ![t].at = "return"]
    /\ UNCHANGED <<sock, fds, ncalls>>
SysReturn(t) == At(t, "return") /\ Leave(fds, Return(t)) /\ UNCHANGED ncalls
NetWorker == NetPoll(tcp, queue, orphan) /\ UNCHANGED <<sock, fds, call, ncalls>>

(* A signal ends a call that waits.                                        *)
Interrupted(t) ==
    /\ call[t].at \in {"connecting", "accept", "read", "write"}
    /\ Leave(fds, Return(t))
    /\ UNCHANGED ncalls

(* sys_shutdown and connect with AF_UNSPEC; close of a descriptor.         *)
SysShutdown(t) ==
    /\ At(t, "shutdown")
    /\ tcp' = Close(tcp, sock[call[t].s].h)
    /\ call' = [call EXCEPT ![t].at = "poll"]
    /\ UNCHANGED <<queue, orphan, sock, fds, ncalls>>
SysClose(t) ==
    /\ At(t, "user") /\ ncalls < MaxCalls
    /\ ncalls' = ncalls + 1
    /\ \E d \in Fd : fds[d] # 0 /\ Leave([fds EXCEPT ![d] = 0], call)

(* A socket that listens, and one that has been made.                      *)
TcpInit ==
    /\ tcp = [h \in Handle |-> IF h = 1 THEN [NewSocket EXCEPT !.st = "Listen"] ELSE IF h = 2 THEN NewSocket ELSE NoSocket]
    /\ queue = {1, 2} /\ orphan = {}
    /\ sock = [s \in 1 .. Sockets |-> IF s <= 2 THEN [Blank EXCEPT !.h = s, !.listener = (s = 1)] ELSE Blank]
    /\ fds = [d \in Fd |-> IF d <= 2 THEN d ELSE 0]
    /\ call = [t \in Thread |-> NoCall]
    /\ ncalls = 0

(* One thread at a time accepts connections.                               *)
Accepting == {t \in Thread : call[t].at \in {"accept", "scan", "take"}}
TcpNext ==
    \/ NetWorker
    \/ \E t \in Thread :
        \/ \E where \in {"listen", "connect", "read", "write", "shutdown"} : Enter(t, where)
        \/ Accepting = {} /\ Enter(t, "accept")
        \/ SysSocket(t) \/ SysListen(t) \/ AddBacklogListener(t) \/ SysConnect(t) \/ Connecting(t)
        \/ AcceptPoll(t) \/ AcceptScan(t) \/ AcceptTake(t) \/ SysRead(t) \/ WritePoll(t) \/ SysWrite(t) \/ LastPoll(t)
        \/ SysReturn(t) \/ Interrupted(t) \/ SysShutdown(t) \/ SysClose(t)

TcpSpec == TcpInit /\ [][TcpNext]_tcpVars

-----------------------------------------------------------------------------
(* Every handle that a socket in use refers to exists, has a wait queue    *)
(* and is no orphan, so that no poll removes it and no call finds it gone; *)
(* no two sockets share one; and every handle in the set either belongs to *)
(* a socket in use or is an orphan that a poll will remove.                *)
HandlesOwned ==
    LET alive == Alive(fds, call) IN
    /\ \A s \in alive : \A h \in Owned(sock[s]) : tcp[h].st # "gone" /\ h \in queue /\ h \notin orphan
    /\ \A s, r \in alive : s # r => Owned(sock[s]) \cap Owned(sock[r]) = {}
    /\ \A h \in Handle : tcp[h].st # "gone" => h \in orphan \/ \E s \in alive : h \in Owned(sock[s])
    /\ queue = UNION {Owned(sock[s]) : s \in alive}
=============================================================================
