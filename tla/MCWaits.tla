------------------------------ MODULE MCWaits ------------------------------
(***************************************************************************)
(* Waiting: three threads contending for one reader-writer lock, the       *)
(* readers and writers of datagram sockets, and the calls that wait for    *)
(* several files at once.  A behaviour is about one of them.               *)
(***************************************************************************)
EXTENDS RwLock, Naturals

CONSTANTS p1, p2, p3, t1, t2, None

VARIABLES
    part,   \* the component that a behaviour is about; the others rest
    dscene, udp, rxq, txq, localRx, dcall, dcount, dgot,   \* Datagrams
    use, ready, waitq, interest, lastReady, disabled, scanning, poll, pollState,
    wakePending, sleepers, expired, signal, waker, fresh, reports, events, waits   \* Readiness

Contenders == {p1, p2, p3}

DatagramScene(c, th, l, r) == [calls |-> c, threads |-> th, linked |-> l, raw |-> r]

\* Connected sockets that two threads use; sockets bound and connected on the
\* way; the raw socket.
DatagramScenes ==
    {DatagramScene({"write", "read"}, {t1, t2}, TRUE, FALSE),
     DatagramScene({"bind", "connect", "write", "recvfrom"}, {t1, t2}, FALSE, FALSE),
     DatagramScene({}, {t1, t2}, FALSE, TRUE)}

PollUse(c, s, k, t, g) == [callers |-> c, sources |-> s, call |-> k, timed |-> t, signals |-> g]

\* The three calls, with and without timeouts and signals; a shared epoll file.
PollUses ==
    {PollUse({"t1"}, {1, 2}, "ppoll", {FALSE, TRUE}, TRUE),
     PollUse({"t1"}, {1}, "select", {FALSE, TRUE}, TRUE),
     PollUse({"t1"}, {1, 2}, "epoll", {FALSE}, FALSE),
     PollUse({"t1", "t2"}, {1}, "epoll", {FALSE}, FALSE)}

Dgram == INSTANCE Datagrams WITH
    Thread <- {t1, t2}, Sockets <- 2, Port <- {1, 2}, None <- None, RxRoom <- 1, TxRoom <- 1,
    MaxCalls <- 3, Scenes <- DatagramScenes

Poll == INSTANCE Readiness WITH
    Caller <- {"t1", "t2"}, Source <- {1, 2}, Agent <- {"a"}, Modes <- {"level", "oneshot"},
    CtlAnytime <- FALSE, Uses <- PollUses, MaxEvents <- 2, state <- pollState

LockVars == <<state, asked_write, pc, seen>>
DgramVars == <<dscene, udp, rxq, txq, localRx, dcall, dcount, dgot>>
PollVars == <<use, ready, waitq, interest, lastReady, disabled, scanning, poll, pollState,
              wakePending, sleepers, expired, signal, waker, fresh, reports, events, waits>>

all == <<part, LockVars, DgramVars, PollVars>>

OnlyLock == part = "lock" /\ UNCHANGED <<part, DgramVars, PollVars>>
OnlyDgram == part = "dgram" /\ UNCHANGED <<part, LockVars, PollVars>>
OnlyPoll == part = "poll" /\ UNCHANGED <<part, LockVars, DgramVars>>

\* A component that rests stays in one of its initial states.
AllInit ==
    /\ part \in {"lock", "dgram", "poll"}
    /\ Init
    /\ Dgram!DgramInit
    /\ part # "dgram" => dscene = CHOOSE s \in DatagramScenes : TRUE
    /\ Poll!ReadyInit
    /\ part # "poll" => use = CHOOSE u \in PollUses : TRUE

AllNext ==
    \/ OnlyLock /\ Next
    \/ OnlyDgram /\ Dgram!DgramNext
    \/ OnlyPoll /\ Poll!ReadyNext

AllFair ==
    /\ \A p \in Proc : WF_all(OnlyLock /\ Step(p))
    /\ WF_all(OnlyDgram /\ Dgram!NetWorker)
    /\ \A t \in {t1, t2} : WF_all(OnlyDgram /\ Dgram!Step(t))
    /\ \A t \in {"t1", "t2"} : WF_all(OnlyPoll /\ Poll!CallStep(t))
    /\ \A a \in {"a", "timer"} : WF_all(OnlyPoll /\ Poll!Waking(a))
    /\ WF_all(OnlyPoll /\ Poll!Tick)

AllSpec == AllInit /\ [][AllNext]_all /\ AllFair

-----------------------------------------------------------------------------
\* UDP and raw sockets (UdpSocket::read, net_poll): a datagram at a socket with
\* a reader is read, and a writer gets its room.
DatagramRead == Dgram!DatagramRead

\* ppoll, pselect6 and epoll_wait (syscall/process.rs): a caller for which
\* something is ready, a signal is pending or the time is up returns, and a
\* one-shot registration reports once.
Reported == Poll!Reported
=============================================================================
