------------------------------- MODULE Ahci -------------------------------
(***************************************************************************)
(* The SATA block device of the LoongArch 2K1000 board: one AHCI           *)
(* controller behind one mutex, one command slot, one 4 KiB DMA data       *)
(* buffer that every command of the port uses.  The driver polls.  A       *)
(* caller whose command fails spins for ever in its own loop, but it has   *)
(* released the mutex by then, so the next CPU uses the port while the     *)
(* failed command may still be running in the controller.                  *)
(*                                                                         *)
(* The controller and the disk are external (Hba...).  What the driver     *)
(* tolerates of them is what the model lets them do: a read may complete   *)
(* with part of its data missing or still under way, PRDBC (the count of   *)
(* transferred bytes) may be written back late or not at all, DPS and DHRS *)
(* may come late or never, a command may end in an error or not end.  What *)
(* it relies on: data and counts that are late land before the next        *)
(* command is prepared, and a write whose count stays 0 moved all its data.*)
(***************************************************************************)
EXTENDS Integers, FiniteSets

CONSTANTS
    Cpus,          \* callers of read_block and write_block
    Blocks,        \* blocks inside the capacity IDENTIFY reported
    Value,         \* what callers write
    MaxOps         \* bound: calls in a behaviour

Chunks == 1..2     \* a transfer, in two parts that the controller moves apart
Beyond == "beyond" \* a block past the end of the disk
None == "none"
Full == Cardinality(Chunks)

VARIABLES
    lock,          \* the CPU that holds AHCI_CONTROLLER, or None
    call,          \* the call of each CPU
    reg,           \* PxCMD (on, running), PxCI, PxIS (dps, dhrs, err), PxTFD.BSY
    hdr,           \* slot 0: the command header and table
    buf,           \* the data buffer of the port
    hba,           \* the command that the controller executes
    disk,          \* what the disk holds
    sent,          \* ghost: the values ever written to a block
    info,          \* identify_info of the port is there
    ops

vars == <<lock, call, reg, hdr, buf, hba, disk, sent, info, ops>>

Old(b) == IF b = CHOOSE x \in Blocks : TRUE THEN "old1" ELSE "old2"
Whole(v) == [k \in Chunks |-> v]
NoCall == [pc |-> "idle", op |-> None, blk |-> None, val |-> None, verify |-> FALSE,
           first |-> Whole(None), got |-> Whole(None)]

\* U-Boot leaves the port running, perhaps in the middle of a command of its own.
AhciInit ==
    /\ lock = None
    /\ LET first == CHOOSE c \in Cpus : TRUE IN
       call = [c \in Cpus |-> [NoCall EXCEPT !.pc = IF c = first THEN "boot" ELSE "idle"]]
    /\ \E busy \in BOOLEAN :
         /\ reg = [on |-> TRUE, running |-> TRUE, ci |-> busy, bsy |-> busy,
                   dps |-> FALSE, dhrs |-> FALSE, err |-> FALSE]
         /\ hba = [op |-> IF busy THEN "uboot" ELSE None, blk |-> None, left |-> {},
                   late |-> {}, owed |-> FALSE]
    /\ hdr = [op |-> None, blk |-> None, prdbc |-> 0]
    /\ buf = Whole(None)
    /\ disk = [b \in Blocks |-> Whole(Old(b))]
    /\ sent = [b \in Blocks |-> {Old(b)}]
    /\ info = FALSE
    /\ ops = 0

----------------------------------------------------------------------------
(* The driver.                                                              *)

Goto(c, pc) == call' = [call EXCEPT ![c].pc = pc]

\* read_block and write_block return false and their caller loops without the lock; a
\* port that cannot be initialised stops the boot.
Fail(c) ==
    /\ Goto(c, "stopped")
    /\ lock' = IF lock = c THEN None ELSE lock

StopPortEngine(r) == [r EXCEPT !.on = FALSE]
StartPortEngine(r) == [r EXCEPT !.on = TRUE, !.running = TRUE]
ClearPortStatus(r) == [r EXCEPT !.dps = FALSE, !.dhrs = FALSE, !.err = FALSE]
PreparePortDma == Whole("zero")
ProgramPortDma == [op |-> None, blk |-> None, prdbc |-> 0]

\* SataBlock::new: the first port with an active ATA disk, and the start of init_port:
\* stop_port_engine clears PxCMD.ST.
InitPort(c) ==
    /\ call[c].pc = "boot" /\ lock = None
    /\ lock' = c
    /\ reg' = StopPortEngine(reg)
    /\ Goto(c, "stopping")
    /\ UNCHANGED <<hdr, buf, hba, disk, sent, info, ops>>

\* PxCMD.CR stays set for 500 ms: init_port fails.
StopTimeout(c) ==
    /\ call[c].pc = "stopping" /\ reg.running
    /\ Fail(c)
    /\ UNCHANGED <<reg, hdr, buf, hba, disk, sent, info, ops>>

\* The rest of init_port up to IDENTIFY DEVICE: the engine has stopped; a command that is
\* still pending is an error; otherwise the state of the port is cleared, its DMA area
\* zeroed and made known to the controller, and the engine started.
StartPort(c) ==
    /\ call[c].pc = "stopping" /\ ~reg.running
    /\ IF reg.ci
       THEN Fail(c) /\ UNCHANGED <<reg, hdr, buf>>
       ELSE /\ reg' = StartPortEngine(ClearPortStatus(reg))
            /\ hdr' = ProgramPortDma
            /\ buf' = PreparePortDma
            /\ call' = [call EXCEPT ![c].pc = "issue", ![c].op = "identify"]
            /\ UNCHANGED lock
    /\ UNCHANGED <<hba, disk, sent, info, ops>>

\* validate_io_request.  SATA_BLOCK, a lazy static, makes every caller wait for the boot.
Valid(b) == b \in Blocks

ReadSectors(c, b) ==
    /\ call[c].pc = "idle" /\ lock = None /\ info /\ ops < MaxOps
    /\ ops' = ops + 1
    /\ IF Valid(b)
       THEN /\ lock' = c
            /\ call' = [call EXCEPT ![c] = [NoCall EXCEPT !.pc = "issue", !.op = "read",
                                                          !.blk = b, !.verify = TRUE]]
       ELSE Fail(c)
    /\ UNCHANGED <<reg, hdr, buf, hba, disk, sent, info>>

WriteSectors(c, b, v) ==
    /\ call[c].pc = "idle" /\ lock = None /\ info /\ ops < MaxOps
    /\ ops' = ops + 1
    /\ IF Valid(b)
       THEN /\ lock' = c
            /\ call' = [call EXCEPT ![c] = [NoCall EXCEPT !.pc = "fill", !.op = "write",
                                                          !.blk = b, !.val = v]]
            /\ sent' = [sent EXCEPT ![b] = @ \cup {v}]
       ELSE Fail(c) /\ UNCHANGED sent
    /\ UNCHANGED <<reg, hdr, buf, hba, disk, info>>

\* wait_command_ready.
CommandReady == ~reg.ci /\ ~reg.bsy

\* A variant that copies at once.
FillBufferEager(c) ==
    /\ call[c].pc = "fill"
    /\ buf' = Whole(call[c].val)
    /\ hba' = [hba EXCEPT !.late = {}, !.owed = FALSE]
    /\ Goto(c, "issue")
    /\ UNCHANGED <<lock, reg, hdr, disk, sent, info, ops>>

\* write_sectors overwrites the shared buffer only when the port is free: a command that
\* timed out earlier may still be reading it.
FillBuffer(c) ==
    /\ call[c].pc = "fill" /\ CommandReady
    /\ buf' = Whole(call[c].val)
    /\ hba' = [hba EXCEPT !.late = {}, !.owed = FALSE]
    /\ Goto(c, "issue")
    /\ UNCHANGED <<lock, reg, hdr, disk, sent, info, ops>>

\* issue_ata_command_once up to PxCI: a READ DMA EXT is preceded by a sentinel in the whole
\* buffer, 0xA5 for the first attempt and 0x5A for the one that verifies it; then the
\* command table, the header with PRDBC = 0, and a clean PxIS.
Prepare(c) ==
    /\ call[c].pc = "issue" /\ CommandReady
    /\ buf' = IF call[c].op = "read" THEN Whole(IF call[c].verify THEN "A5" ELSE "5A") ELSE buf
    /\ hdr' = [op |-> call[c].op, blk |-> call[c].blk, prdbc |-> 0]
    /\ reg' = ClearPortStatus(reg)
    /\ hba' = [hba EXCEPT !.late = {}, !.owed = FALSE]
    /\ Goto(c, "submit")
    /\ UNCHANGED <<lock, disk, sent, info, ops>>

Submit(c) ==
    /\ call[c].pc = "submit"
    /\ reg' = [reg EXCEPT !.ci = TRUE]
    /\ Goto(c, "poll")
    /\ UNCHANGED <<lock, hdr, buf, hba, disk, sent, info, ops>>

\* The polling loop has seen the end of the command: PxCI is clear and, for a read, DPS and
\* DHRS are set.
Completed(c) == ~reg.ci /\ (call[c].op = "read" => reg.dps /\ reg.dhrs)

Poll(c) ==
    /\ call[c].pc = "poll"
    /\ reg.err \/ Completed(c)
    /\ \/ reg.err /\ Fail(c) /\ reg' = ClearPortStatus(reg)
       \/ /\ ~reg.err
          /\ UNCHANGED reg
          /\ CASE hdr.prdbc = Full -> Goto(c, "verified") /\ UNCHANGED lock
               [] hdr.prdbc # Full /\ call[c].op = "read" -> Goto(c, "grace") /\ UNCHANGED lock
               [] hdr.prdbc = 0 /\ call[c].op = "write" -> Goto(c, "verified") /\ UNCHANGED lock
               [] OTHER -> Fail(c)          \* ShortTransfer
    /\ UNCHANGED <<hdr, buf, hba, disk, sent, info, ops>>

\* 10 ms of grace for the count of a read.  Without it the first attempt keeps what it has
\* and reads again; the second attempt is taken as it is.
Grace(c) ==
    /\ call[c].pc = "grace"
    /\ IF hdr.prdbc = Full \/ ~call[c].verify
       THEN Goto(c, "verified") /\ UNCHANGED reg
       ELSE /\ call' = [call EXCEPT ![c].pc = "issue", ![c].verify = FALSE, ![c].first = buf]
            /\ reg' = [reg EXCEPT !.dps = FALSE, !.dhrs = FALSE]
    /\ UNCHANGED <<lock, hdr, buf, hba, disk, sent, info, ops>>

\* A variant that believes the second attempt.
VerifiedBlind(c) ==
    /\ call[c].pc = "verified"
    /\ Goto(c, "copy")
    /\ UNCHANGED <<lock, reg, hdr, buf, hba, disk, sent, info, ops>>

\* The attempt succeeded.  Two attempts must agree, or the CPU spins with the lock held.
Verified(c) ==
    /\ call[c].pc = "verified"
    /\ Goto(c, IF call[c].op = "read" /\ ~call[c].verify /\ buf # call[c].first
               THEN "hung" ELSE "copy")
    /\ UNCHANGED <<lock, reg, hdr, buf, hba, disk, sent, info, ops>>

\* parse_identify_data: a disk without sectors is refused.
Parsed(raw) == raw = Whole("info")

\* identify_device copies the buffer out and keeps what it says of the disk; init_port, and
\* with it the boot, fails without it.
IdentifyDevice(c) ==
    /\ call[c].pc = "copy" /\ call[c].op = "identify"
    /\ info' = Parsed(buf)
    /\ IF Parsed(buf) THEN lock' = None /\ call' = [call EXCEPT ![c] = NoCall] ELSE Fail(c)
    /\ UNCHANGED <<reg, hdr, buf, hba, disk, sent, ops>>

\* The end of read_sectors and write_sectors: a read copies the buffer out.
CopyOut(c) ==
    /\ call[c].pc = "copy" /\ call[c].op # "identify"
    /\ call' = [call EXCEPT ![c].pc = "returned", ![c].got = buf]
    /\ UNCHANGED <<lock, reg, hdr, buf, hba, disk, sent, info, ops>>

Return(c) ==
    /\ call[c].pc = "returned"
    /\ lock' = None
    /\ call' = [call EXCEPT ![c] = NoCall]
    /\ UNCHANGED <<reg, hdr, buf, hba, disk, sent, info, ops>>

\* 5 s have passed: before the command could be issued, or after it was.
Timeout(c) ==
    /\ \/ call[c].pc \in {"fill", "issue"} /\ ~CommandReady
       \/ call[c].pc = "poll" /\ ~reg.err /\ ~Completed(c)
    /\ Fail(c)
    /\ UNCHANGED <<reg, hdr, buf, hba, disk, sent, info, ops>>

----------------------------------------------------------------------------
(* The controller and the disk (external).                                  *)

\* Without PxCMD.ST the engine stops in its own time and drops what it was doing.
HbaStop ==
    /\ ~reg.on /\ reg.running
    /\ \E pending \in BOOLEAN :
         reg' = [reg EXCEPT !.running = FALSE, !.ci = reg.ci /\ pending, !.bsy = FALSE]
    /\ hba' = [hba EXCEPT !.op = None]
    /\ UNCHANGED <<lock, call, hdr, buf, disk, sent, info, ops>>

HbaStart ==
    /\ reg.running /\ reg.ci /\ hba.op = None
    /\ hba' = [op |-> hdr.op, blk |-> hdr.blk, left |-> Chunks, late |-> {}, owed |-> FALSE]
    /\ reg' = [reg EXCEPT !.bsy = TRUE]
    /\ UNCHANGED <<lock, call, hdr, buf, disk, sent, info, ops>>

HbaMove(k) ==
    /\ k \in hba.left
    /\ \/ /\ hba.op = "write"
          /\ disk' = [disk EXCEPT ![hba.blk][k] = buf[k]]
          /\ UNCHANGED buf
       \/ /\ hba.op \in {"read", "identify"}
          /\ \E i \in {"info", "bad"} :
               buf' = [buf EXCEPT ![k] = IF hba.op = "read" THEN disk[hba.blk][k] ELSE i]
          /\ UNCHANGED disk
    /\ hba' = [hba EXCEPT !.left = @ \ {k}]
    /\ UNCHANGED <<lock, call, reg, hdr, sent, info, ops>>

\* The command ends: PxCI clears, the flags and the count come now, later or never.
HbaFinish ==
    /\ hba.op \in {"read", "write", "identify"}
    /\ \E flags \in BOOLEAN, counted \in BOOLEAN, late \in SUBSET hba.left :
         LET moved == Full - Cardinality(hba.left) IN
         /\ hba.op = "write" => late = {} /\ (hba.left = {} \/ (counted /\ moved > 0))
         /\ hba.op = "identify" => hba.left = {} /\ late = {}
         /\ reg' = [reg EXCEPT !.ci = FALSE, !.bsy = FALSE, !.dps = flags, !.dhrs = flags]
         /\ hdr' = IF counted THEN [hdr EXCEPT !.prdbc = moved] ELSE hdr
         /\ hba' = [hba EXCEPT !.op = None, !.left = hba.left \ late, !.late = late,
                               !.owed = ~flags \/ ~counted]
    /\ UNCHANGED <<lock, call, buf, disk, sent, info, ops>>

\* Data of a finished read that was still on its way.
HbaLand(k) ==
    /\ k \in hba.late
    /\ buf' = [buf EXCEPT ![k] = disk[hba.blk][k]]
    /\ hba' = [hba EXCEPT !.late = @ \ {k}]
    /\ UNCHANGED <<lock, call, reg, hdr, disk, sent, info, ops>>

\* The flags and the count of a finished command that were still on their way.
HbaReport ==
    /\ hba.op = None /\ hba.owed /\ hba.late = {}
    /\ reg' = [reg EXCEPT !.dps = TRUE, !.dhrs = TRUE]
    /\ hdr' = [hdr EXCEPT !.prdbc = Full - Cardinality(hba.left)]
    /\ hba' = [hba EXCEPT !.owed = FALSE]
    /\ UNCHANGED <<lock, call, buf, disk, sent, info, ops>>

\* An error: the controller stops processing, with PxCI set or not.
HbaError ==
    /\ hba.op \in {"read", "write", "identify"}
    /\ \E pending \in BOOLEAN :
         reg' = [reg EXCEPT !.err = TRUE, !.ci = pending, !.bsy = FALSE]
    /\ hba' = [hba EXCEPT !.op = "halted", !.left = {}]
    /\ UNCHANGED <<lock, call, hdr, buf, disk, sent, info, ops>>

Step(c) ==
    \/ InitPort(c) \/ StopTimeout(c) \/ StartPort(c)
    \/ FillBuffer(c) \/ Prepare(c) \/ Submit(c) \/ Poll(c) \/ Grace(c)
    \/ Verified(c) \/ IdentifyDevice(c) \/ CopyOut(c) \/ Return(c) \/ Timeout(c)

AhciNext ==
    \/ \E c \in Cpus : Step(c)
    \/ \E c \in Cpus, b \in Blocks \cup {Beyond} : ReadSectors(c, b)
    \/ \E c \in Cpus, b \in Blocks \cup {Beyond}, v \in Value : WriteSectors(c, b, v)
    \/ HbaStop \/ HbaStart \/ HbaFinish \/ HbaReport \/ HbaError
    \/ \E k \in Chunks : HbaMove(k) \/ HbaLand(k)

AhciSpec == AhciInit /\ [][AhciNext]_vars

----------------------------------------------------------------------------
\* A read that reports success returns what the disk holds, whatever the controller left
\* out or counted wrongly; a write that reports success is on the disk; and no block ever
\* holds data that was written to another one, even when a CPU uses the port while the
\* command of a CPU that gave up is still running.
DiskExact ==
    /\ \A c \in Cpus : call[c].pc = "returned" =>
         /\ call[c].op = "read" => call[c].got = disk[call[c].blk]
         /\ call[c].op = "write" => disk[call[c].blk] = Whole(call[c].val)
    /\ \A b \in Blocks, k \in Chunks : disk[b][k] \in sent[b]
============================================================================
