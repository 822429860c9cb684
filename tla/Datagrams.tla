----------------------------- MODULE Datagrams -----------------------------
(***************************************************************************)
(* UDP and raw sockets (net/socket.rs, sys_sendto and sys_recvfrom).  A    *)
(* thread that finds nothing to read polls the network and then blocks     *)
(* without looking again: a datagram that another thread's poll delivers   *)
(* in between wakes nobody.  What repairs this is that net_poll wakes a    *)
(* waiter whenever the socket is ready, not when it becomes so, and that   *)
(* a kernel worker polls for ever.                                         *)
(*                                                                         *)
(* smoltcp is external: each poll moves what was sent to the first socket  *)
(* bound to the port, and drops what has no socket or no room.             *)
(***************************************************************************)
EXTENDS Naturals, Sequences, FiniteSets, FiniteSetsExt, SequencesExt

CONSTANTS Thread, Sockets, Port, None,
          RxRoom, TxRoom,  \* packets that a receive and a send buffer hold
          MaxCalls,        \* bound on the number of calls
          Scenes           \* who makes which calls, on sockets that are connected or new

VARIABLES dscene,   \* the scene of this behaviour
          udp,      \* the UDP sockets: port, peer, buffers
          rxq, txq, \* SOCKET_WAIT_QUEUES: tasks asleep on a socket
          localRx,  \* local_rx_buffer of the raw socket
          dcall,    \* the call each thread is in
          dcount, dgot   \* number of calls; history: packets received

dgramVars == <<dscene, udp, rxq, txq, localRx, dcall, dcount, dgot>>

Socket == 1 .. Sockets
Raw == 0
DIdle == [at |-> "user", s |-> Raw, p |-> 0]
Waiting(t) == (\E s \in DOMAIN rxq : t \in Range(rxq[s])) \/ (\E s \in Socket : t \in Range(txq[s]))
Runs(t, where) == dcall[t].at = where /\ ~Waiting(t)
Goto(t, where) == dcall' = [dcall EXCEPT ![t].at = where]
Done(t) == dcall' = [dcall EXCEPT ![t] = DIdle]

(* net_poll: packets move, and one reader and one writer of every socket   *)
(* that is ready are woken.                                                *)
Receiver(s) == LET to == {r \in Socket : udp[r].port = udp[s].peer} IN IF to = {} THEN Raw ELSE Min(to)
Moved ==
    [r \in Socket |->
        LET upto[n \in 0 .. Sockets] ==
                IF n = 0 THEN udp[r].rx
                ELSE upto[n - 1] \o (IF udp[n].tx # << >> /\ Receiver(n) = r THEN udp[n].tx ELSE << >>)
            all == upto[Sockets]
        IN [udp[r] EXCEPT !.tx = << >>, !.rx = SubSeq(all, 1, Min({RxRoom, Len(all)}))]]
WakeOne(q) == IF q = << >> THEN q ELSE Tail(q)
\* Mutant: a reader is woken when its socket becomes ready, not while it is.
NetPollEdge ==
    LET moved == Moved IN
    /\ udp' = moved
    /\ rxq' = [s \in DOMAIN rxq |->
                   IF s \in Socket /\ moved[s].rx # << >> /\ udp[s].rx = << >> THEN WakeOne(rxq[s]) ELSE rxq[s]]
    /\ txq' = [s \in Socket |-> IF moved[s].port # None /\ Len(moved[s].tx) < TxRoom THEN WakeOne(txq[s]) ELSE txq[s]]
NetPoll ==
    LET moved == Moved IN
    /\ udp' = moved
    /\ rxq' = [s \in DOMAIN rxq |-> IF s \in Socket /\ moved[s].rx # << >> THEN WakeOne(rxq[s]) ELSE rxq[s]]
    /\ txq' = [s \in Socket |-> IF moved[s].port # None /\ Len(moved[s].tx) < TxRoom THEN WakeOne(txq[s]) ELSE txq[s]]

-----------------------------------------------------------------------------
Enter(t, where) ==
    /\ Runs(t, "user") /\ dcount < MaxCalls
    /\ dcount' = dcount + 1
    /\ \E s \in Socket : dcall' = [dcall EXCEPT ![t] = [at |-> where, s |-> s, p |-> dcount + 1]]
    /\ UNCHANGED <<dscene, udp, rxq, txq, localRx, dgot>>

(* UdpSocket::bind and connect, which binds to an unused port.             *)
Unused == Min({p \in Port : \A s \in Socket : udp[s].port # p})
Bind(t) ==
    /\ Runs(t, "bind")
    /\ \E p \in Port :
        udp' = [udp EXCEPT ![dcall[t].s].port = IF @ = None THEN p ELSE @]
    /\ Done(t)
    /\ UNCHANGED <<dscene, rxq, txq, localRx, dcount, dgot>>
Connect(t) ==
    /\ Runs(t, "connect")
    /\ \E p \in Port :
        udp' = [udp EXCEPT ![dcall[t].s].peer = p,
                           ![dcall[t].s].port = IF @ = None THEN Unused ELSE @]
    /\ Done(t)
    /\ UNCHANGED <<dscene, rxq, txq, localRx, dcount, dgot>>

(* UdpSocket::write (and sendto, which yields instead of blocking).        *)
Write(t) ==
    /\ Runs(t, "write")
    /\ LET s == dcall[t].s IN
       \/ udp[s].peer = None /\ Done(t) /\ UNCHANGED udp
       \/ /\ udp[s].peer # None /\ Len(udp[s].tx) < TxRoom
          /\ udp' = [udp EXCEPT ![s].tx = Append(@, dcall[t].p)]
          /\ Goto(t, "sent")
       \/ udp[s].peer # None /\ Len(udp[s].tx) = TxRoom /\ Goto(t, "full") /\ UNCHANGED udp
    /\ UNCHANGED <<dscene, rxq, txq, localRx, dcount, dgot>>
WriteSent(t) ==
    /\ Runs(t, "sent")
    /\ NetPoll /\ Done(t)
    /\ UNCHANGED <<dscene, localRx, dcount, dgot>>
WriteFull(t) ==
    /\ Runs(t, "full")
    /\ NetPoll /\ Goto(t, "block tx")
    /\ UNCHANGED <<dscene, localRx, dcount, dgot>>
BlockTx(t) ==
    /\ Runs(t, "block tx")
    /\ txq' = [txq EXCEPT ![dcall[t].s] = Append(@, t)]
    /\ Goto(t, "write")
    /\ UNCHANGED <<dscene, udp, rxq, localRx, dcount, dgot>>

(* UdpSocket::read.                                                        *)
Read(t) ==
    /\ Runs(t, "read")
    /\ LET s == dcall[t].s IN
       IF udp[s].rx # << >>
       THEN /\ dgot' = Append(dgot, Head(udp[s].rx))
            /\ udp' = [udp EXCEPT ![s].rx = Tail(@)]
            /\ Goto(t, "sent")
       ELSE Goto(t, "empty") /\ UNCHANGED <<udp, dgot>>
    /\ UNCHANGED <<dscene, rxq, txq, localRx, dcount>>
ReadEmpty(t) ==
    /\ Runs(t, "empty")
    /\ NetPoll /\ Goto(t, "block rx")
    /\ UNCHANGED <<dscene, localRx, dcount, dgot>>
BlockRx(t) ==
    /\ Runs(t, "block rx")
    /\ rxq' = [rxq EXCEPT ![dcall[t].s] = Append(@, t)]
    /\ Goto(t, "read")
    /\ UNCHANGED <<dscene, udp, txq, localRx, dcount, dgot>>

(* sys_recvfrom polls, looks and yields; it gives up when the descriptor   *)
(* does not block, at its deadline, or for a signal.                       *)
RecvFrom(t) ==
    /\ Runs(t, "recvfrom")
    /\ NetPoll
    /\ Goto(t, "look")
    /\ UNCHANGED <<dscene, localRx, dcount, dgot>>
RecvLook(t) ==
    /\ Runs(t, "look")
    /\ LET s == dcall[t].s IN
       \/ /\ udp[s].rx # << >>
          /\ dgot' = Append(dgot, Head(udp[s].rx))
          /\ udp' = [udp EXCEPT ![s].rx = Tail(@)]
          /\ Done(t)
       \/ udp[s].rx = << >> /\ (Goto(t, "recvfrom") \/ Done(t)) /\ UNCHANGED <<udp, dgot>>
    /\ UNCHANGED <<dscene, rxq, txq, localRx, dcount>>

(* RawSocket::send_packet to an address of this machine, and read.  All    *)
(* sleepers are woken.                                                     *)
RawSend(t) ==
    /\ Runs(t, "user") /\ dcount < MaxCalls
    /\ dcount' = dcount + 1
    /\ localRx' = Append(localRx, dcount')
    /\ rxq' = [rxq EXCEPT ![Raw] = << >>]
    /\ UNCHANGED <<dscene, udp, txq, dcall, dgot>>
RawRead(t) ==
    /\ Runs(t, "user") \/ Runs(t, "raw read")
    /\ IF localRx # << >>
       THEN /\ dgot' = Append(dgot, Head(localRx))
            /\ localRx' = Tail(localRx)
            /\ Done(t)
       ELSE Goto(t, "raw empty") /\ UNCHANGED <<localRx, dgot>>
    /\ UNCHANGED <<dscene, udp, rxq, txq, dcount>>
RawEmpty(t) ==
    /\ Runs(t, "raw empty")
    /\ NetPoll /\ Goto(t, "raw block")
    /\ UNCHANGED <<dscene, localRx, dcount, dgot>>
RawBlock(t) ==
    /\ Runs(t, "raw block")
    /\ rxq' = [rxq EXCEPT ![Raw] = Append(@, t)]
    /\ Goto(t, "raw read")
    /\ UNCHANGED <<dscene, udp, txq, localRx, dcount, dgot>>

(* net_kernel_worker.                                                      *)
NetWorker == NetPoll /\ UNCHANGED <<dscene, localRx, dcall, dcount, dgot>>

DgramInit ==
    /\ dscene \in Scenes
    /\ udp = [s \in Socket |-> [port |-> IF dscene.linked THEN s ELSE None,
                                 peer |-> IF dscene.linked THEN (s % Sockets) + 1 ELSE None,
                                 rx |-> << >>, tx |-> << >>]]
    /\ rxq = [s \in Socket \cup {Raw} |-> << >>]
    /\ txq = [s \in Socket |-> << >>]
    /\ localRx = << >>
    /\ dcall = [t \in Thread |-> DIdle]
    /\ dcount = 0 /\ dgot = << >>

Step(t) ==
    /\ dcall[t].at # "user" /\ ~Waiting(t)
    /\ \/ Bind(t) \/ Connect(t) \/ Write(t) \/ WriteSent(t) \/ WriteFull(t) \/ BlockTx(t) \/ Read(t)
       \/ ReadEmpty(t) \/ BlockRx(t) \/ RecvFrom(t) \/ RecvLook(t) \/ RawEmpty(t) \/ RawBlock(t)
DgramNext ==
    \/ NetWorker
    \/ \E t \in Thread : Step(t) \/ (t \in dscene.threads /\ \E where \in dscene.calls : Enter(t, where))
    \/ \E t \in Thread : dscene.raw /\ t \in dscene.threads /\ (RawSend(t) \/ RawRead(t))

DgramFair == WF_dgramVars(NetWorker) /\ \A t \in Thread : WF_dgramVars(Step(t))
DgramSpec == DgramInit /\ [][DgramNext]_dgramVars /\ DgramFair

-----------------------------------------------------------------------------
(* While datagrams that have arrived are bounded, none stays at a socket   *)
(* on which a thread is reading, whoever delivered it and whenever; and    *)
(* no writer waits for room for ever.                                      *)
Reading(s) == {t \in Thread : dcall[t].s = s /\ dcall[t].at \in {"read", "empty", "block rx"}}
Unread == \E s \in Socket : udp[s].rx # << >> /\ Reading(s) # {}
Unsent == \E t \in Thread : dcall[t].at \in {"write", "full", "block tx"}
DatagramRead == (Unread ~> ~Unread) /\ (Unsent ~> ~Unsent)
=============================================================================
