------------------------------- MODULE DwMac -------------------------------
(***************************************************************************)
(* The Ethernet controller of the VisionFive 2 board, as the TCP/IP stack  *)
(* uses it: a transmit ring and a receive ring of descriptors, each owned  *)
(* by the driver or, while its OWN bit is set, by the controller.  A send  *)
(* that times out leaves its descriptor with the controller and moves on.  *)
(*                                                                         *)
(* The controller is external (Hw...): it works through each ring in       *)
(* order, takes descriptors whose OWN bit is set, stops at the tail of the *)
(* receive ring, may be slow, and may store a frame with an error.         *)
(***************************************************************************)
EXTENDS Integers, SequencesExt

CONSTANTS
    RingSize,
    MaxTx,         \* bound: frames the stack sends
    MaxRx          \* bound: frames that arrive

Slots == 0..(RingSize - 1)
NextSlot(i) == (i + 1) % RingSize
Test == 0          \* the frame of the self test; the others are numbered from 1

VARIABLES
    pc,            \* where the one user of the device is (NET_IFACE is locked)
    tx,            \* the transmit ring: [own, frame]
    rx,            \* the receive ring: [own, frame, bad]
    at,            \* tx_index, rx_index, and the slot of the send in progress
    hw,            \* the controller: its place in each ring, the receive tail, loopback
    given,         \* ghost: the frames that were put into the transmit ring
    wire,          \* ghost: the frames that were sent
    heard,         \* ghost: the intact frames that were stored since the boot
    got,           \* ghost: the frames that the stack received
    tally          \* frames so far: [tx, rx]

vars == <<pc, tx, rx, at, hw, given, wire, heard, got, tally>>

TxRing == [i \in Slots |-> [own |-> FALSE, frame |-> Test]]
RxRing == [i \in Slots |-> [own |-> TRUE, frame |-> Test, bad |-> FALSE]]

MacInit ==
    /\ pc = "boot"
    /\ tx = TxRing
    /\ rx = [i \in Slots |-> [own |-> FALSE, frame |-> Test, bad |-> FALSE]]
    /\ at = [tx |-> 0, rx |-> 0, slot |-> 0]
    /\ hw = [on |-> FALSE, tx |-> 0, rx |-> 0, tail |-> 0, loop |-> FALSE]
    /\ given = <<>> /\ wire = <<>> /\ heard = <<>> /\ got = <<>>
    /\ tally = [tx |-> 0, rx |-> 0]

----------------------------------------------------------------------------
(* Bringing the device up.                                                  *)

\* init_dma_rings: the transmit ring is the driver's, the receive ring the controller's up
\* to its last descriptor.
InitDmaRings(loop) ==
    /\ tx' = TxRing
    /\ rx' = RxRing
    /\ hw' = [on |-> TRUE, tx |-> 0, rx |-> 0, tail |-> RingSize - 1, loop |-> loop]

\* Clocks and resets; a reset that does not finish within 1 ms panics.
EnablePlatform ==
    /\ pc = "boot"
    /\ pc' \in {"dma", "panicked"}
    /\ UNCHANGED <<tx, rx, at, hw, given, wire, heard, got, tally>>

InitRawDma ==
    /\ pc = "dma"
    /\ InitDmaRings(FALSE)
    /\ pc' = "test"
    /\ UNCHANGED <<at, given, wire, heard, got, tally>>

\* A broadcast frame in loopback mode, through slot 0 of both rings.
RawTransmitTest ==
    /\ pc = "test"
    /\ tx' = [tx EXCEPT ![0] = [own |-> TRUE, frame |-> Test]]
    /\ hw' = [hw EXCEPT !.loop = TRUE]
    /\ pc' = "testing"
    /\ UNCHANGED <<rx, at, given, wire, heard, got, tally>>

\* Both directions are waited for, a second each at most; a second without the transmit
\* already ends loopback mode.
RawTransmitted ==
    /\ pc = "testing"
    /\ hw' = [hw EXCEPT !.loop = ~tx[0].own]
    /\ pc' = "tested"
    /\ UNCHANGED <<tx, rx, at, given, wire, heard, got, tally>>

RawReceiveTest ==
    /\ pc = "tested"
    /\ hw' = [hw EXCEPT !.loop = FALSE]
    /\ pc' = "reset"
    /\ UNCHANGED <<tx, rx, at, given, wire, heard, got, tally>>

\* Fresh rings for the stack, whatever the test left in them.
ResetRuntimeRings ==
    /\ pc = "reset"
    /\ InitDmaRings(FALSE)
    /\ pc' = "idle"
    /\ UNCHANGED <<at, given, wire, heard, got, tally>>

----------------------------------------------------------------------------
(* The two operations of the stack.                                         *)

CanSend == ~tx[at.tx].own
CanRecv == ~rx[at.rx].own

\* Mutant: the descriptor is not looked at.
SendBlind ==
    /\ pc = "idle" /\ tally.tx < MaxTx
    /\ tally' = [tally EXCEPT !.tx = @ + 1]
    /\ tx' = [tx EXCEPT ![at.tx] = [own |-> TRUE, frame |-> tally.tx + 1]]
    /\ given' = Append(given, tally.tx + 1)
    /\ at' = [at EXCEPT !.tx = NextSlot(@), !.slot = at.tx]
    /\ pc' = "sending"
    /\ UNCHANGED <<rx, hw, wire, heard, got>>

\* send: a busy descriptor refuses the frame (it is logged and lost); otherwise the frame
\* is copied, the descriptor handed over and the index advanced before the wait.
Send ==
    /\ pc = "idle" /\ tally.tx < MaxTx
    /\ tally' = [tally EXCEPT !.tx = @ + 1]
    /\ IF CanSend
       THEN /\ tx' = [tx EXCEPT ![at.tx] = [own |-> TRUE, frame |-> tally.tx + 1]]
            /\ given' = Append(given, tally.tx + 1)
            /\ at' = [at EXCEPT !.tx = NextSlot(@), !.slot = at.tx]
            /\ pc' = "sending"
       ELSE UNCHANGED <<tx, given, at, pc>>
    /\ UNCHANGED <<rx, hw, wire, heard, got>>

\* The wait of send: the descriptor came back, or a second has passed.
Sent ==
    /\ pc = "sending"
    /\ pc' = IF tx[at.slot].own THEN "idle" ELSE "sent"
    /\ UNCHANGED <<tx, rx, at, hw, given, wire, heard, got, tally>>

SendReturns ==
    /\ pc = "sent"
    /\ pc' = "idle"
    /\ UNCHANGED <<tx, rx, at, hw, given, wire, heard, got, tally>>

RecycleRx(i) ==
    /\ rx' = [rx EXCEPT ![i] = [own |-> TRUE, frame |-> Test, bad |-> FALSE]]
    /\ hw' = [hw EXCEPT !.tail = i]
    /\ at' = [at EXCEPT !.rx = NextSlot(i)]

\* recv: a frame with an error, or one that is not whole, is dropped; otherwise it is copied
\* out; either way the descriptor goes back to the controller.
Recv ==
    /\ pc = "idle" /\ CanRecv
    /\ got' = IF rx[at.rx].bad THEN got ELSE Append(got, rx[at.rx].frame)
    /\ RecycleRx(at.rx)
    /\ UNCHANGED <<pc, tx, given, wire, heard, tally>>

----------------------------------------------------------------------------
(* The controller (external).                                               *)

Booted == pc \in {"idle", "sending", "sent"}

\* A free descriptor before the tail receives a frame.
Store(f, bad) ==
    /\ rx[hw.rx].own /\ hw.rx # hw.tail
    /\ rx' = [rx EXCEPT ![hw.rx] = [own |-> FALSE, frame |-> f, bad |-> bad]]
    /\ heard' = IF Booted /\ ~bad THEN Append(heard, f) ELSE heard

HwTransmit ==
    /\ hw.on /\ tx[hw.tx].own
    /\ tx' = [tx EXCEPT ![hw.tx].own = FALSE]
    /\ wire' = IF Booted THEN Append(wire, tx[hw.tx].frame) ELSE wire
    /\ \/ /\ hw.loop /\ Store(Test, FALSE)
          /\ hw' = [hw EXCEPT !.tx = NextSlot(@), !.rx = NextSlot(@)]
       \/ /\ UNCHANGED <<rx, heard>>
          /\ hw' = [hw EXCEPT !.tx = NextSlot(@)]
    /\ UNCHANGED <<pc, at, given, got, tally>>

HwReceive ==
    /\ hw.on /\ tally.rx < MaxRx
    /\ tally' = [tally EXCEPT !.rx = @ + 1]
    /\ \E bad \in BOOLEAN : Store(tally.rx + 1, bad)
    /\ hw' = [hw EXCEPT !.rx = NextSlot(@)]
    /\ UNCHANGED <<pc, tx, at, given, wire, got>>

Boot == EnablePlatform \/ InitRawDma \/ RawTransmitTest \/ RawTransmitted \/ RawReceiveTest
          \/ ResetRuntimeRings

MacNext == Boot \/ Send \/ Sent \/ SendReturns \/ Recv \/ HwTransmit \/ HwReceive

MacSpec == MacInit /\ [][MacNext]_vars

----------------------------------------------------------------------------
\* Frames leave in the order in which they entered the ring, each once and unchanged, also
\* after sends that timed out with their descriptors still queued; a send that reports
\* success has left; the stack receives the intact frames in the order of their arrival,
\* each once, and nothing of the self test.
RingsExact ==
    /\ IsPrefix(wire, given)
    /\ pc = "sent" => Last(given) \in ToSet(wire)
    /\ IsPrefix(got, heard)
    /\ Test \notin ToSet(got)
============================================================================
