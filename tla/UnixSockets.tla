---------------------------- MODULE UnixSockets ----------------------------
(***************************************************************************)
(* Pairs of Unix sockets (UnixSocket of net/socket.rs, sys_socketpair): a  *)
(* queue of packets per end, bounded by a count of bytes.  A reader takes  *)
(* a packet and, when its buffer is smaller, puts the rest back in a later *)
(* critical section (stream) or loses it (datagram); a writer looks for    *)
(* room in one critical section and appends in another.                    *)
(*                                                                         *)
(* One direction of one pair, several threads writing and one reading.  A  *)
(* byte is the thread that wrote it and its number.                        *)
(***************************************************************************)
EXTENDS Naturals, Sequences, SequencesExt

CONSTANTS Writer,
          Kinds,      \* of "stream" and "dgram"
          Sizes,      \* of user buffers
          RecvLimit,  \* UNIX_SOCKET_RECV_LIMIT
          MaxSent     \* bound on the bytes written

VARIABLES kind,       \* socket_type
          recvQueue, recvBytes,
          open,       \* the ends whose inner structure is alive
          wcall,      \* what each writer does
          rcall,      \* what the reader does
          sent, got   \* history: what was appended, what was read

unixVars == <<kind, recvQueue, recvBytes, open, wcall, rcall, sent, got>>

Idle == [at |-> "user", n |-> 0]
Total(s) == FoldLeft(LAMBDA a, p : a + Len(p), 0, s)
Lesser(m, n) == IF m < n THEN m ELSE n

(* UnixSocket::write: the peer is looked up first and kept alive; then     *)
(* room is waited for; then the packet is appended.                        *)
WriteStart(w) ==
    /\ wcall[w].at = "user" /\ "left" \in open
    /\ \E n \in Sizes :
        wcall' = [wcall EXCEPT ![w] = IF "right" \in open THEN [at |-> "room", n |-> n] ELSE Idle]
    /\ UNCHANGED <<kind, recvQueue, recvBytes, open, rcall, sent, got>>
WriteRoom(w) ==
    /\ wcall[w].at = "room" /\ recvBytes < RecvLimit
    /\ wcall' = [wcall EXCEPT ![w] = [at |-> "append", n |-> Lesser(@.n, RecvLimit - recvBytes)]]
    /\ UNCHANGED <<kind, recvQueue, recvBytes, open, rcall, sent, got>>
WriteAppend(w) ==
    /\ wcall[w].at = "append" /\ Len(sent) + wcall[w].n <= MaxSent
    /\ LET p == [i \in 1 .. wcall[w].n |-> <<w, Len(sent) + i>>] IN
       /\ recvQueue' = Append(recvQueue, p)
       /\ recvBytes' = recvBytes + Len(p)
       /\ sent' = sent \o p
    /\ wcall' = [wcall EXCEPT ![w] = Idle]
    /\ UNCHANGED <<kind, open, rcall, got>>
(* A signal ends the wait.                                                 *)
WriteInterrupted(w) ==
    /\ wcall[w].at = "room" /\ recvBytes >= RecvLimit
    /\ wcall' = [wcall EXCEPT ![w] = Idle]
    /\ UNCHANGED <<kind, recvQueue, recvBytes, open, rcall, sent, got>>

(* UnixSocket::read.                                                       *)
ReadPop ==
    /\ rcall.at = "user" /\ "right" \in open /\ recvQueue # << >>
    /\ \E n \in Sizes : rcall' = [at |-> "copy", n |-> n, packet |-> Head(recvQueue)]
    /\ recvQueue' = Tail(recvQueue)
    /\ recvBytes' = recvBytes - Len(Head(recvQueue))
    /\ UNCHANGED <<kind, open, wcall, sent, got>>
\* Mutant: the rest of a packet goes to the back of the queue.
ReadCopyBack ==
    LET n == Lesser(rcall.n, Len(rcall.packet))
        rest == SubSeq(rcall.packet, n + 1, Len(rcall.packet))
        keep == kind = "stream" /\ rest # << >>
    IN /\ rcall.at = "copy"
       /\ got' = got \o (IF kind = "stream" THEN SubSeq(rcall.packet, 1, n) ELSE rcall.packet)
       /\ recvQueue' = IF keep THEN Append(recvQueue, rest) ELSE recvQueue
       /\ recvBytes' = IF keep THEN recvBytes + Len(rest) ELSE recvBytes
       /\ rcall' = Idle
       /\ UNCHANGED <<kind, open, wcall, sent>>
ReadCopy ==
    LET n == Lesser(rcall.n, Len(rcall.packet))
        rest == SubSeq(rcall.packet, n + 1, Len(rcall.packet))
        keep == kind = "stream" /\ rest # << >>
    IN /\ rcall.at = "copy"
       /\ got' = got \o (IF kind = "stream" THEN SubSeq(rcall.packet, 1, n) ELSE rcall.packet)
       /\ recvQueue' = IF keep THEN <<rest>> \o recvQueue ELSE recvQueue
       /\ recvBytes' = IF keep THEN recvBytes + Len(rest) ELSE recvBytes
       /\ rcall' = Idle
       /\ UNCHANGED <<kind, open, wcall, sent>>
(* The end of the stream: nothing queued, and the other end cannot be      *)
(* upgraded.  With the reader gone the inner structure lives until the     *)
(* last writer in a call lets go of it.                                    *)
ReadEof ==
    /\ rcall.at = "user" /\ "right" \in open
    /\ recvQueue = << >> /\ "left" \notin open
    /\ rcall' = [at |-> "eof", n |-> 0]
    /\ UNCHANGED <<kind, recvQueue, recvBytes, open, wcall, sent, got>>

(* Drop of an end; no call is running on it.                               *)
CloseLeft ==
    /\ "left" \in open /\ \A w \in Writer : wcall[w].at = "user"
    /\ open' = open \ {"left"}
    /\ UNCHANGED <<kind, recvQueue, recvBytes, wcall, rcall, sent, got>>
CloseRight ==
    /\ "right" \in open /\ rcall.at \in {"user", "eof"}
    /\ open' = open \ {"right"}
    /\ UNCHANGED <<kind, recvQueue, recvBytes, wcall, rcall, sent, got>>

(* UnixSocket::pair.                                                       *)
UnixInit ==
    /\ kind \in Kinds
    /\ recvQueue = << >> /\ recvBytes = 0
    /\ open = {"left", "right"}
    /\ wcall = [w \in Writer |-> Idle]
    /\ rcall = Idle
    /\ sent = << >> /\ got = << >>

UnixNext ==
    \/ \E w \in Writer : WriteStart(w) \/ WriteRoom(w) \/ WriteAppend(w) \/ WriteInterrupted(w)
    \/ ReadPop \/ ReadCopy \/ ReadEof \/ CloseLeft \/ CloseRight

UnixSpec == UnixInit /\ [][UnixNext]_unixVars

-----------------------------------------------------------------------------
(* Although a packet leaves the queue before it is known to fit, and room  *)
(* is found in another critical section than it is used in, the reader of  *)
(* a pair sees the bytes in the order in which they were appended, with    *)
(* none lost or repeated; the count of queued bytes that the limit is      *)
(* checked against is exact; and end of file is reported only after        *)
(* everything has been read.                                               *)
StreamIntact ==
    LET inHand == IF rcall.at = "copy" THEN rcall.packet ELSE << >> IN
    /\ got \o inHand \o FlattenSeq(recvQueue) = sent
    /\ recvBytes = Total(recvQueue)
    /\ rcall.at = "eof" => got = sent
=============================================================================
