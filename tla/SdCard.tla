------------------------------ MODULE SdCard ------------------------------
(***************************************************************************)
(* The SD card of the VisionFive 2 board, driven by polling and programmed *)
(* I/O: the commands that bring the card to its transfer state, the search *)
(* for the ext4 partition, and the block reads and writes, each a sequence *)
(* of sector transfers through a small FIFO under one mutex.               *)
(*                                                                         *)
(* The card and the controller are external (Card...).  Data may enter the *)
(* FIFO before the command is reported done, the FIFO may overrun, any     *)
(* command and any transfer may fail, and some controllers report the end  *)
(* of a read as a host timeout (HTO) in place of DATA_OVER.  A transfer    *)
(* that the driver has given up sends nothing more.                        *)
(***************************************************************************)
EXTENDS Integers, Sequences, FiniteSetsExt

CONSTANTS
    Cpus,          \* callers of raw_read_block and raw_write_block
    Blocks,        \* blocks of the partition that callers use
    Value,         \* what callers write
    HighCapacity,  \* SDHC or SDXC
    Ext4,          \* the entries of the partition table that hold ext4
    Depth,         \* entries of the FIFO
    MaxOps         \* bound: block calls in a behaviour

Words == 1..2      \* FIFO entries of a sector
SectorsPerBlock == 2
Parts == 1..2      \* entries of the partition table; 0 stands for the whole device
None == "none"
NoPart == 0 - 1

\* The sectors that matter: the partition table, superblocks, and those of the blocks.
Mbr == <<"mbr", 0, 0>>
Super(p) == <<"super", p, 0>>
SectorOf(b, i) == <<"block", b, i>>
Sectors == {Mbr} \cup {Super(p) : p \in {0} \cup Parts}
             \cup {SectorOf(b, i) : b \in Blocks, i \in 1..SectorsPerBlock}

Content(v, s) == [w \in Words |-> <<v, s, w>>]

VARIABLES
    lock,          \* the CPU that holds the card, or None
    call,          \* what each CPU is doing
    ctl,           \* the controller: FIFO, RINTSTS (done, over, hto, err), the byte counters
    card,          \* the state of the card and the transfer it is in
    disk,          \* what the card holds
    start,         \* partition_start_sector: the partition, NoPart before boot is over
    ops

vars == <<lock, call, ctl, card, disk, start, ops>>

Quiet == [fifo |-> <<>>, done |-> FALSE, over |-> FALSE, hto |-> FALSE, err |-> FALSE,
          count |-> 0]
NoCall == [pc |-> "idle", i |-> 1, op |-> None, sec |-> Mbr, val |-> None, got |-> <<>>,
           put |-> 0, done |-> FALSE, ints |-> Quiet, blk |-> None, data |-> <<>>]

SdInit ==
    /\ lock = None
    /\ LET first == CHOOSE c \in Cpus : TRUE IN
       call = [c \in Cpus |-> [NoCall EXCEPT !.pc = IF c = first THEN "boot" ELSE "idle"]]
    /\ ctl = Quiet
    /\ card = [state |-> "off", op |-> None, sec |-> Mbr, sent |-> 0, taken |-> <<>>,
               acked |-> TRUE, refused |-> {}]
    /\ disk = [s \in Sectors |-> Content("old", s)]
    /\ start = NoPart
    /\ ops = 0

Goto(c, pc) == call' = [call EXCEPT ![c].pc = pc]

\* expect and unwrap_or_else panic with the guard of the card alive: the lock stays taken.
Panic(c) == Goto(c, "panicked")

----------------------------------------------------------------------------
(* Bringing the card up.                                                    *)

\* The commands of SdCard::init, and what each does to a card that obeys it.
Script ==
    <<"cmd0", "cmd8", "cmd55", "acmd41", "cmd2", "cmd3", "cmd7", "cmd55", "acmd6", "clock">>
      \o (IF HighCapacity THEN <<>> ELSE <<"cmd16">>)

Obeyed(s, cmd) ==
    CASE cmd = "cmd0" -> "idle"
      [] cmd = "acmd41" /\ s = "idle" -> "ready"
      [] cmd = "cmd2" /\ s = "ready" -> "ident"
      [] cmd = "cmd3" /\ s = "ident" -> "stby"
      [] cmd = "cmd7" /\ s = "stby" -> "tran"
      [] OTHER -> s

\* prepare_controller: polling, no DMA, an empty FIFO; no card is an error.
PrepareController(c) ==
    /\ call[c].pc = "boot"
    /\ lock' = c
    /\ ctl' = Quiet
    /\ Goto(c, "init") \/ Panic(c)
    /\ UNCHANGED <<card, disk, start, ops>>

\* send_cmd: the response arrives, or an error does.  A card that is still powering up
\* answers ACMD41 with the busy bit and is asked again, CMD55 first.
SendCmd(c) ==
    /\ call[c].pc = "init" /\ call[c].i <= Len(Script)
    /\ LET cmd == Script[call[c].i] IN
       \/ /\ card' = [card EXCEPT !.state = Obeyed(@, cmd)]
          /\ call' = [call EXCEPT ![c].i = @ + 1]
       \/ /\ cmd = "acmd41"
          /\ call' = [call EXCEPT ![c].i = @ - 1]
          /\ UNCHANGED card
       \/ Panic(c) /\ UNCHANGED card
    /\ UNCHANGED <<lock, ctl, disk, start, ops>>

----------------------------------------------------------------------------
(* One sector.                                                              *)

\* read_sector up to the command: reset_fifo, a clean RINTSTS, CMD17.
Transfer(op, s) ==
    /\ ctl' = Quiet
    /\ card' = [card EXCEPT !.op = op, !.sec = s, !.sent = 0, !.taken = <<>>,
                           !.acked = FALSE, !.refused = @ \ {s}]

StartRead(c) ==
    /\ call[c].pc = "read"
    /\ Transfer("read", call[c].sec)
    /\ call' = [call EXCEPT ![c].pc = "drain", ![c].got = <<>>, ![c].done = FALSE]
    /\ UNCHANGED <<lock, disk, start, ops>>

\* Each round of the loop empties the FIFO first, so that data that arrives before the
\* command is reported done is not lost.
Drain(c) ==
    /\ call[c].pc = "drain"
    /\ LET n == Min({Len(ctl.fifo), Cardinality(Words) - Len(call[c].got)}) IN
       /\ call' = [call EXCEPT ![c].pc = "ints", ![c].got = @ \o SubSeq(ctl.fifo, 1, n)]
       /\ ctl' = [ctl EXCEPT !.fifo = SubSeq(@, n + 1, Len(@))]
    /\ UNCHANGED <<lock, card, disk, start, ops>>

\* What a failed read means: the search for the partition goes on, anything else panics.
Failed(c) ==
    IF call[c].op = "probe" THEN call' = [call EXCEPT ![c].pc = "next"] ELSE Panic(c)

\* Then RINTSTS is read once, and every later decision of the round uses that value.
ReadInts(c) ==
    /\ call[c].pc = "ints"
    /\ IF ctl.err
       THEN Failed(c) /\ UNCHANGED ctl
       ELSE /\ call' = [call EXCEPT ![c].pc = "end", ![c].ints = [ctl EXCEPT !.fifo = <<>>],
                                    ![c].done = @ \/ ctl.done]
            /\ ctl' = [ctl EXCEPT !.done = FALSE]
    /\ UNCHANGED <<lock, card, disk, start, ops>>

\* The sector is complete when the command is done, all of it was read, the FIFO is empty
\* and the value of RINTSTS shows DATA_OVER, or HTO with both byte counters at the end.
Complete(c) ==
    /\ call[c].done /\ Len(call[c].got) = Cardinality(Words) /\ ctl.fifo = <<>>
    /\ call[c].ints.over \/ (call[c].ints.hto /\ ctl.count = Cardinality(Words))

EndRound(c) ==
    /\ call[c].pc = "end"
    /\ IF Complete(c) THEN Goto(c, "sector")
       ELSE IF call[c].ints.hto THEN Failed(c) ELSE Goto(c, "drain")
    /\ UNCHANGED <<lock, ctl, card, disk, start, ops>>

\* wait_card_ready: CMD13 until the card is back in its transfer state.
CardReady == card.state = "tran"

StartWrite(c) ==
    /\ call[c].pc = "write" /\ CardReady
    /\ Transfer("write", call[c].sec)
    /\ call' = [call EXCEPT ![c].pc = "wints", ![c].put = 0, ![c].done = FALSE]
    /\ UNCHANGED <<lock, disk, start, ops>>

\* A round of write_sector: errors first, then as many words as the FIFO has room for.
WriteInts(c) ==
    /\ call[c].pc = "wints"
    /\ IF ctl.err \/ ctl.hto
       THEN Panic(c) /\ UNCHANGED ctl
       ELSE /\ call' = [call EXCEPT ![c].pc = "push", ![c].done = @ \/ ctl.done]
            /\ ctl' = [ctl EXCEPT !.done = FALSE]
    /\ UNCHANGED <<lock, card, disk, start, ops>>

Push(c) ==
    /\ call[c].pc = "push"
    /\ LET n == Min({Depth - Len(ctl.fifo), Cardinality(Words) - call[c].put}) IN
       /\ ctl' = [ctl EXCEPT !.fifo = @ \o SubSeq(Content(call[c].val, call[c].sec),
                                                  call[c].put + 1, call[c].put + n)]
       /\ call' = [call EXCEPT ![c].pc = "over", ![c].put = @ + n]
    /\ UNCHANGED <<lock, card, disk, start, ops>>

\* DATA_OVER is looked for in a second reading of RINTSTS, and only DATA_OVER.
WriteOver(c) ==
    /\ call[c].pc = "over"
    /\ Goto(c, IF call[c].done /\ call[c].put = Cardinality(Words) /\ ctl.over
               THEN "settle" ELSE "wints")
    /\ UNCHANGED <<lock, ctl, card, disk, start, ops>>

\* Mutant: the card is not waited for.
SettleAtOnce(c) ==
    /\ call[c].pc = "settle"
    /\ Goto(c, "sector")
    /\ UNCHANGED <<lock, ctl, card, disk, start, ops>>

Settle(c) ==
    /\ call[c].pc = "settle" /\ CardReady
    /\ Goto(c, "sector")
    /\ UNCHANGED <<lock, ctl, card, disk, start, ops>>

\* The loops have a limit of rounds.
GiveUp(c) ==
    /\ \/ call[c].pc \in {"drain", "wints"}
       \/ call[c].pc \in {"write", "settle"} /\ ~CardReady
    /\ IF call[c].pc = "drain" THEN Failed(c) ELSE Panic(c)
    /\ UNCHANGED <<lock, ctl, card, disk, start, ops>>

----------------------------------------------------------------------------
(* The block device.                                                        *)

\* SdBlockDevice::new after init: the partition table is read ...
ReadMbr(c) ==
    /\ call[c].pc = "init" /\ call[c].i > Len(Script)
    /\ call' = [call EXCEPT ![c].pc = "read", ![c].op = "mbr", ![c].sec = Mbr, ![c].i = 0]
    /\ UNCHANGED <<lock, ctl, card, disk, start, ops>>

\* ... then the superblocks that its entries point to, and at last that of a file system
\* without a partition table (find_ext4_partition_lba); a superblock that cannot be read is
\* passed over.
FindExt4(c) ==
    /\ \/ call[c].pc = "sector" /\ call[c].op = "mbr"
       \/ call[c].pc = "sector" /\ call[c].op = "probe" /\ call[c].i \notin Ext4
       \/ call[c].pc = "next"
    /\ IF call[c].op = "probe" /\ call[c].i = 0
       THEN Panic(c)
       ELSE LET p == IF call[c].i + 1 \in Parts THEN call[c].i + 1 ELSE 0 IN
            call' = [call EXCEPT ![c].pc = "read", ![c].op = "probe", ![c].i = p,
                                 ![c].sec = Super(p)]
    /\ UNCHANGED <<lock, ctl, card, disk, start, ops>>

\* The superblock of the one that was found is read once more.
CheckExt4(c) ==
    /\ call[c].pc = "sector" /\ call[c].op \in {"probe", "check"} /\ call[c].i \in Ext4
    /\ IF call[c].op = "probe"
       THEN call' = [call EXCEPT ![c].pc = "read", ![c].op = "check"] /\ UNCHANGED <<lock, start>>
       ELSE /\ start' = call[c].i
            /\ lock' = None
            /\ call' = [call EXCEPT ![c] = NoCall]
    /\ UNCHANGED <<ctl, card, disk, ops>>

RawReadBlock(c, b) ==
    /\ call[c].pc = "idle" /\ lock = None /\ start # NoPart /\ ops < MaxOps
    /\ ops' = ops + 1
    /\ lock' = c
    /\ call' = [call EXCEPT ![c] = [NoCall EXCEPT !.pc = "read", !.op = "read", !.blk = b,
                                                  !.sec = SectorOf(b, 1)]]
    /\ UNCHANGED <<ctl, card, disk, start>>

RawWriteBlock(c, b, v) ==
    /\ call[c].pc = "idle" /\ lock = None /\ start # NoPart /\ ops < MaxOps
    /\ ops' = ops + 1
    /\ lock' = c
    /\ call' = [call EXCEPT ![c] = [NoCall EXCEPT !.pc = "write", !.op = "write", !.blk = b,
                                                  !.val = v, !.sec = SectorOf(b, 1)]]
    /\ UNCHANGED <<ctl, card, disk, start>>

\* The next sector of the block, or the end of the call.
NextSector(c) ==
    /\ call[c].pc = "sector" /\ call[c].op \in {"read", "write"}
    /\ call' = [call EXCEPT
         ![c].data = Append(@, IF call[c].op = "read" THEN call[c].got ELSE card.taken),
         ![c].i = @ + 1,
         ![c].sec = SectorOf(call[c].blk, Min({call[c].i + 1, SectorsPerBlock})),
         ![c].pc = IF call[c].i = SectorsPerBlock THEN "returned" ELSE call[c].op]
    /\ UNCHANGED <<lock, ctl, card, disk, start, ops>>

Return(c) ==
    /\ call[c].pc = "returned"
    /\ lock' = None
    /\ call' = [call EXCEPT ![c] = NoCall]
    /\ UNCHANGED <<ctl, card, disk, start, ops>>

----------------------------------------------------------------------------
(* The card and the controller (external).                                  *)

CardDone ==
    /\ ~card.acked
    /\ ctl' = [ctl EXCEPT !.done = TRUE]
    /\ card' = [card EXCEPT !.acked = TRUE]
    /\ UNCHANGED <<lock, call, disk, start, ops>>

CardSend ==
    /\ card.op = "read" /\ card.sent < Cardinality(Words)
    /\ IF Len(ctl.fifo) = Depth
       THEN ctl' = [ctl EXCEPT !.err = TRUE] /\ UNCHANGED card
       ELSE /\ ctl' = [ctl EXCEPT !.fifo = Append(@, disk[card.sec][card.sent + 1]),
                                  !.count = @ + 1]
            /\ card' = [card EXCEPT !.sent = @ + 1]
    /\ UNCHANGED <<lock, call, disk, start, ops>>

CardSent ==
    /\ card.op = "read" /\ card.sent = Cardinality(Words)
    /\ \/ ctl' = [ctl EXCEPT !.over = TRUE]
       \/ ctl' = [ctl EXCEPT !.hto = TRUE]
    /\ card' = [card EXCEPT !.op = None]
    /\ UNCHANGED <<lock, call, disk, start, ops>>

CardTake ==
    /\ card.op = "write" /\ ctl.fifo # <<>>
    /\ ctl' = [ctl EXCEPT !.fifo = Tail(@), !.count = @ + 1]
    /\ card' = [card EXCEPT !.taken = Append(@, Head(ctl.fifo))]
    /\ UNCHANGED <<lock, call, disk, start, ops>>

\* All words have arrived: the card programs them, or refuses them with an error.
CardTaken ==
    /\ card.op = "write" /\ Len(card.taken) = Cardinality(Words)
    /\ \/ /\ ctl' = [ctl EXCEPT !.over = TRUE]
          /\ card' = [card EXCEPT !.op = None, !.state = "prg"]
       \/ /\ ctl' = [ctl EXCEPT !.over = TRUE, !.err = TRUE]
          /\ card' = [card EXCEPT !.op = None, !.refused = @ \cup {card.sec}]
    /\ UNCHANGED <<lock, call, disk, start, ops>>

CardProgrammed ==
    /\ card.state = "prg"
    /\ disk' = [disk EXCEPT ![card.sec] = card.taken]
    /\ card' = [card EXCEPT !.state = "tran"]
    /\ UNCHANGED <<lock, call, ctl, start, ops>>

CardError ==
    /\ card.op # None
    /\ ctl' = [ctl EXCEPT !.err = TRUE]
    /\ card' = [card EXCEPT !.op = None]
    /\ UNCHANGED <<lock, call, disk, start, ops>>

Step(c) ==
    \/ PrepareController(c) \/ SendCmd(c) \/ ReadMbr(c) \/ FindExt4(c) \/ CheckExt4(c)
    \/ StartRead(c) \/ Drain(c) \/ ReadInts(c) \/ EndRound(c)
    \/ StartWrite(c) \/ WriteInts(c) \/ Push(c) \/ WriteOver(c) \/ Settle(c)
    \/ GiveUp(c) \/ NextSector(c) \/ Return(c)

SdNext ==
    \/ \E c \in Cpus : Step(c)
    \/ \E c \in Cpus, b \in Blocks : RawReadBlock(c, b)
    \/ \E c \in Cpus, b \in Blocks, v \in Value : RawWriteBlock(c, b, v)
    \/ CardDone \/ CardSend \/ CardSent \/ CardTake \/ CardTaken \/ CardProgrammed \/ CardError

SdSpec == SdInit /\ [][SdNext]_vars

----------------------------------------------------------------------------
\* A block read that returns holds the sectors of that block as the card has them, in order
\* and whole, whatever the order in which FIFO, flags and counters were seen; a block write
\* that returns has handed every word to the card, and every sector the card did not refuse
\* is programmed; a transfer is only started on a card in its transfer state; and the
\* partition in use holds ext4.
CardExact ==
    /\ \A c \in Cpus : call[c].pc = "returned" =>
         LET want(i) == SectorOf(call[c].blk, i) IN
         /\ call[c].op = "read" =>
              call[c].data = [i \in 1..SectorsPerBlock |-> disk[want(i)]]
         /\ call[c].op = "write" =>
              /\ call[c].data = [i \in 1..SectorsPerBlock |-> Content(call[c].val, want(i))]
              /\ \A i \in 1..SectorsPerBlock : want(i) \notin card.refused =>
                   disk[want(i)] = Content(call[c].val, want(i))
    /\ card.op # None => card.state = "tran"
    /\ start # NoPart => start \in Ext4
============================================================================
