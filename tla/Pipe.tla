-------------------------------- MODULE Pipe --------------------------------
(***************************************************************************)
(* A pipe (fs/pipe.rs): a ring buffer under its own lock, a queue of       *)
(* sleeping readers and one of sleeping writers, each under a lock, and    *)
(* two counted end objects.  Whether the other side is gone is asked with  *)
(* Weak::upgrade, which owns a reference of the other end for a moment;    *)
(* the end's destructor, which wakes every sleeper, runs in whoever drops  *)
(* the last reference.  Sleeping and waking a task are single steps        *)
(* (TaskLife).                                                             *)
(***************************************************************************)
EXTENDS Naturals, Sequences, FiniteSets, Functions

CONSTANTS None,
          Reader, Writer, \* the threads that read and that write
          Size,           \* RING_BUFFER_SIZE
          Modulus,        \* bytes are numbered modulo this
          Setups          \* who takes part and which calls they make: records with
                          \* the threads, the lengths of their read and of their
                          \* write calls, whether they may close an end, and a bound
                          \* on the signals sent

Thread == Reader \cup Writer
Ends == {"read", "write"}

ASSUME ThreadTypes ==
    /\ IsFiniteSet(Reader) /\ IsFiniteSet(Writer)
    /\ Reader \cap Writer = {} /\ None \notin Thread
ASSUME RingTypes == Size \in Nat \ {0} /\ Modulus \in Nat /\ Size <= Modulus
ASSUME SetupTypes ==
    Setups \subseteq [threads : SUBSET Thread, reads : SUBSET Nat, writes : SUBSET (Nat \ {0}),
                      close : BOOLEAN, signals : Nat]

VARIABLES
    setup,    \* the member of Setups that this behaviour is about
    mem, head, tail, status, \* the ring buffer
    refs,     \* strong counts of the "read" and the "write" end
    lock,     \* the holders of the locks "buffer", "read" and "write"
    waiters,  \* read_waiters and write_waiters
    asleep,   \* the threads off the CPU
    pending,  \* threads with a deliverable signal
    kicks,    \* threads a signal sender is about to wake
    signals,  \* signals sent so far
    pc,       \* where each thread is
    left,     \* bytes its call has still to move
    done,     \* bytes its call has moved
    closed,   \* what all_..._ends_closed returned
    cont,     \* where it goes on after looking at the other end
    wake,     \* the wake_up_one or wake_all it is in
    sent, got, \* bytes written and read so far, modulo Modulus
    torn       \* a byte was read that is not the next one written

ring  == <<mem, head, tail, status, sent, got, torn>>
sig   == <<pending, kicks, signals>>
local == <<left, done, closed, cont, wake>>
vars  == <<setup, ring, sig, refs, lock, waiters, asleep, pc, local>>

NoWake == [queue |-> None, all |-> FALSE, task |-> None, then |-> None]

Init ==
    /\ setup \in Setups
    /\ mem = [i \in 0 .. Size - 1 |-> 0]
    /\ head = 0 /\ tail = 0 /\ status = "Empty"
    /\ sent = 0 /\ got = 0 /\ torn = FALSE
    /\ refs = [e \in Ends |-> Cardinality(setup.threads \cap IF e = "read" THEN Reader ELSE Writer)]
    /\ lock = [l \in Ends \cup {"buffer"} |-> None]
    /\ waiters = [e \in Ends |-> << >>]
    /\ asleep = {}
    /\ pending = {} /\ kicks = {} /\ signals = 0
    /\ pc = [t \in Thread |-> IF t \in setup.threads THEN "user" ELSE "closed"]
    /\ left = [t \in Thread |-> 0]
    /\ done = [t \in Thread |-> 0]
    /\ closed = [t \in Thread |-> FALSE]
    /\ cont = [t \in Thread |-> None]
    /\ wake = [t \in Thread |-> NoWake]

-----------------------------------------------------------------------------
(* PipeRingBuffer.                                                         *)

AvailableRead ==
    IF status = "Empty" THEN 0
    ELSE IF tail > head THEN tail - head ELSE tail + Size - head

AvailableWrite == IF status = "Full" THEN 0 ELSE Size - AvailableRead

eadBytesNoEmpty(n) ==
    /\ head' = (head + n) % Size
    /\ status' = "Normal"
    /\ got' = (got + n) % Modulus
    /\ torn' = (torn \/ \E i \in 0 .. n - 1 : mem[(head + i) % Size] # (got + i) % Modulus)
    /\ UNCHANGED <<mem, tail, sent>>

\* read_byte, n times.
ReadBytes(n) ==
    /\ head' = (head + n) % Size
    /\ status' = IF n = 0 THEN status ELSE IF head' = tail THEN "Empty" ELSE "Normal"
    /\ got' = (got + n) % Modulus
    /\ torn' = (torn \/ \E i \in 0 .. n - 1 : mem[(head + i) % Size] # (got + i) % Modulus)
    /\ UNCHANGED <<mem, tail, sent>>

WriteByte ==
    /\ mem' = [mem EXCEPT ![tail] = sent]
    /\ tail' = (tail + 1) % Size
    /\ status' = IF tail' = head THEN "Full" ELSE "Normal"
    /\ sent' = (sent + 1) % Modulus
    /\ UNCHANGED <<head, got, torn>>

-----------------------------------------------------------------------------
(* What readers and writers share.                                         *)

Mine(t)  == IF t \in Reader THEN "read" ELSE "write"
Other(t) == IF t \in Reader THEN "write" ELSE "read"

\* A reader finds nothing to read, a writer no room.
Stuck(t) == IF t \in Reader THEN AvailableRead = 0 ELSE AvailableWrite = 0

Goto(t, l) == pc' = [pc EXCEPT ![t] = l]

Free(l) == lock[l] = None

Smaller(m, n) == IF m < n THEN m ELSE n

\* A call of wake_up_one, or of wake_all, on the queue of end e.
Waking(t, e, all, then) ==
    /\ wake' = [wake EXCEPT ![t] = [queue |-> e, all |-> all, task |-> None, then |-> then]]
    /\ Goto(t, "wake_pop")

WakePop(t) ==
    LET e == wake[t].queue
    IN  /\ pc[t] = "wake_pop"
        /\ Free(e)
        /\ IF waiters[e] = << >>
           THEN /\ Goto(t, wake[t].then)
                /\ wake' = [wake EXCEPT ![t] = NoWake]
                /\ UNCHANGED waiters
           ELSE /\ waiters' = [waiters EXCEPT ![e] = Tail(@)]
                /\ wake' = [wake EXCEPT ![t].task = Head(waiters[e])]
                /\ Goto(t, "wake_look")
        /\ UNCHANGED <<setup, ring, sig, refs, lock, asleep, left, done, closed, cont>>

\* An entry of a task that is not asleep is stale: the next one is taken.
WakeLook(t) ==
    /\ pc[t] = "wake_look"
    /\ Goto(t, IF wake[t].task \in asleep THEN "wake_task" ELSE "wake_pop")
    /\ UNCHANGED <<setup, ring, sig, refs, lock, waiters, asleep, local>>

WakeTask(t) ==
    /\ pc[t] = "wake_task"
    /\ asleep' = asleep \ {wake[t].task}
    /\ IF wake[t].all THEN Goto(t, "wake_pop") /\ UNCHANGED wake
       ELSE Goto(t, wake[t].then) /\ wake' = [wake EXCEPT ![t] = NoWake]
    /\ UNCHANGED <<setup, ring, sig, refs, lock, waiters, left, done, closed, cont>>

\* A reference of end e is dropped; with the last one the destructor runs.
DropEnd(t, e, then) ==
    /\ refs' = [refs EXCEPT ![e] = @ - 1]
    /\ IF refs[e] = 1
       THEN Waking(t, IF e = "read" THEN "write" ELSE "read", TRUE, then)
       ELSE Goto(t, then) /\ UNCHANGED wake

\* all_write_ends_closed or all_read_ends_closed: Weak::upgrade ...
Upgrade(t) ==
    /\ pc[t] = "upgrade"
    /\ closed' = [closed EXCEPT ![t] = refs[Other(t)] = 0]
    /\ IF refs[Other(t)] = 0 THEN Goto(t, cont[t]) /\ UNCHANGED refs
       ELSE Goto(t, "downgrade") /\ refs' = [refs EXCEPT ![Other(t)] = @ + 1]
    /\ UNCHANGED <<setup, ring, sig, lock, waiters, asleep, left, done, cont, wake>>

\* ... and the end of the temporary reference.
Downgrade(t) ==
    /\ pc[t] = "downgrade"
    /\ DropEnd(t, Other(t), cont[t])
    /\ UNCHANGED <<setup, ring, sig, lock, waiters, asleep, left, done, closed, cont>>

\* block_current_and_run_next_if: the queue's lock, then the condition, which
\* takes the buffer's lock and looks again.
BlockLock(t) ==
    /\ pc[t] = "block" /\ Free(Mine(t))
    /\ lock' = [lock EXCEPT ![Mine(t)] = t]
    /\ Goto(t, "block_look")
    /\ UNCHANGED <<setup, ring, sig, refs, waiters, asleep, local>>

BlockLook(t) ==
    /\ pc[t] = "block_look" /\ Free("buffer")
    /\ IF Stuck(t)
       THEN /\ lock' = [lock EXCEPT !["buffer"] = t]
            /\ cont' = [cont EXCEPT ![t] = "block_sleep"]
            /\ Goto(t, "upgrade")
       ELSE /\ lock' = [lock EXCEPT ![Mine(t)] = None]
            /\ Goto(t, "again")
            /\ UNCHANGED cont
    /\ UNCHANGED <<setup, ring, sig, refs, waiters, asleep, left, done, closed, wake>>

BlockSleep(t) ==
    /\ pc[t] = "block_sleep"
    /\ lock' = [lock EXCEPT !["buffer"] = None, ![Mine(t)] = None]
    /\ IF closed[t] THEN Goto(t, "again") /\ UNCHANGED <<waiters, asleep>>
       ELSE /\ waiters' = [waiters EXCEPT ![Mine(t)] = Append(@, t)]
            /\ asleep' = asleep \cup {t}
            /\ Goto(t, "asleep")
    /\ UNCHANGED <<setup, ring, sig, refs, local>>

\* remove_by_tid.  A task is in a queue at most once (TypeOK), so what retain
\* keeps is the queue without that one place.
Without(q, t) ==
    IF t \notin Range(q) THEN q
    ELSE LET at == CHOOSE i \in DOMAIN q : q[i] = t
         IN  [i \in 1 .. Len(q) - 1 |-> q[IF i < at THEN i ELSE i + 1]]

\* Awake again: remove_by_tid, in case the waker was not a wake_up_one.
BlockEnd(t) ==
    /\ pc[t] = "asleep" /\ t \notin asleep /\ Free(Mine(t))
    /\ waiters' = [waiters EXCEPT ![Mine(t)] = Without(@, t)]
    /\ Goto(t, IF t \in Reader THEN "woken" ELSE "again")
    /\ UNCHANGED <<setup, ring, sig, refs, lock, asleep, local>>

-----------------------------------------------------------------------------
(* read_for_syscall.                                                       *)

ReadCall(t, n) ==
    /\ pc[t] = "user"
    /\ left' = [left EXCEPT ![t] = n]
    /\ done' = [done EXCEPT ![t] = 0]
    /\ Goto(t, "again")
    /\ UNCHANGED <<setup, ring, sig, refs, lock, waiters, asleep, closed, cont, wake>>

eadSilent(t) ==
    LET n == Smaller(left[t], AvailableRead)
    IN  /\ pc[t] = "again" /\ t \in Reader /\ Free("buffer")
        /\ ~Stuck(t)
        /\ ReadBytes(n)
        /\ done' = [done EXCEPT ![t] = n]
        /\ Goto(t, "return")
        /\ UNCHANGED <<setup, sig, refs, lock, waiters, asleep, left, closed, cont, wake>>

\* Data: as much as fits is taken under the lock, and one writer is woken.
Read(t) ==
    LET n == Smaller(left[t], AvailableRead)
    IN  /\ pc[t] = "again" /\ t \in Reader /\ Free("buffer")
        /\ ~Stuck(t)
        /\ ReadBytes(n)
        /\ done' = [done EXCEPT ![t] = n]
        /\ Waking(t, "write", FALSE, "return")
        /\ UNCHANGED <<setup, sig, refs, lock, waiters, asleep, left, closed, cont>>

\* No data: is this the end of the file?
ReadEmpty(t) ==
    /\ pc[t] = "again" /\ t \in Reader /\ Free("buffer")
    /\ Stuck(t)
    /\ lock' = [lock EXCEPT !["buffer"] = t]
    /\ cont' = [cont EXCEPT ![t] = "read_eof"]
    /\ Goto(t, "upgrade")
    /\ UNCHANGED <<setup, ring, sig, refs, waiters, asleep, left, done, closed, wake>>

ReadEof(t) ==
    /\ pc[t] = "read_eof"
    /\ lock' = [lock EXCEPT !["buffer"] = None]
    /\ Goto(t, IF closed[t] THEN "eof" ELSE "block")
    /\ UNCHANGED <<setup, ring, sig, refs, waiters, asleep, local>>

\* After a sleep: data come first, then the end of the file, then signals.
ReadWoken(t) ==
    /\ pc[t] = "woken" /\ Free("buffer")
    /\ lock' = [lock EXCEPT !["buffer"] = t]
    /\ cont' = [cont EXCEPT ![t] = IF Stuck(t) THEN "read_signal" ELSE "read_data"]
    /\ Goto(t, "upgrade")
    /\ UNCHANGED <<setup, ring, sig, refs, waiters, asleep, left, done, closed, wake>>

\* Mutant: the end of the file comes before the data.
ReadDecideEofFirst(t) ==
    /\ pc[t] \in {"read_data", "read_signal"}
    /\ lock' = [lock EXCEPT !["buffer"] = None]
    /\ Goto(t, IF closed[t] THEN "eof"
               ELSE IF pc[t] = "read_signal" /\ t \in pending THEN "return" ELSE "again")
    /\ UNCHANGED <<setup, ring, sig, refs, waiters, asleep, local>>

ReadDecide(t) ==
    /\ pc[t] \in {"read_data", "read_signal"}
    /\ lock' = [lock EXCEPT !["buffer"] = None]
    /\ Goto(t, IF pc[t] = "read_data" THEN "again"
               ELSE IF closed[t] THEN "eof"
               ELSE IF t \in pending THEN "return" ELSE "again")
    /\ UNCHANGED <<setup, ring, sig, refs, waiters, asleep, local>>

-----------------------------------------------------------------------------
(* write.                                                                  *)

WriteCall(t, n) ==
    /\ pc[t] = "user"
    /\ left' = [left EXCEPT ![t] = n]
    /\ done' = [done EXCEPT ![t] = 0]
    /\ Goto(t, "again")
    /\ UNCHANGED <<setup, ring, sig, refs, lock, waiters, asleep, closed, cont, wake>>

\* The buffer is locked; every byte, and the full buffer, look at the readers.
WriteLock(t) ==
    /\ pc[t] = "again" /\ t \in Writer /\ Free("buffer")
    /\ lock' = [lock EXCEPT !["buffer"] = t]
    /\ cont' = [cont EXCEPT ![t] = IF Stuck(t) THEN "write_full" ELSE "write_byte"]
    /\ Goto(t, "upgrade")
    /\ UNCHANGED <<setup, ring, sig, refs, waiters, asleep, left, done, closed, wake>>

\* The last byte of the call wakes one reader; a full buffer ends the round.
Write(t) ==
    /\ pc[t] = "write_byte" /\ ~closed[t]
    /\ WriteByte
    /\ left' = [left EXCEPT ![t] = @ - 1]
    /\ done' = [done EXCEPT ![t] = @ + 1]
    /\ IF left[t] = 1
       THEN lock' = [lock EXCEPT !["buffer"] = None] /\ Waking(t, "read", FALSE, "return")
       ELSE IF status' = "Full"
       THEN lock' = [lock EXCEPT !["buffer"] = None] /\ Goto(t, "again") /\ UNCHANGED wake
       ELSE Goto(t, "upgrade") /\ UNCHANGED <<lock, wake>>
    /\ UNCHANGED <<setup, sig, refs, waiters, asleep, closed, cont>>

\* broken_pipe_error: SIGPIPE, and the call returns.
WriteBroken(t) ==
    /\ pc[t] \in {"write_byte", "write_full"} /\ closed[t]
    /\ lock' = [lock EXCEPT !["buffer"] = None]
    /\ pending' = pending \cup {t}
    /\ Goto(t, "return")
    /\ UNCHANGED <<setup, ring, kicks, signals, refs, waiters, asleep, local>>

\* Mutant: a writer goes to sleep without announcing what it wrote.
WriteFullSilent(t) ==
    /\ pc[t] = "write_full" /\ ~closed[t]
    /\ lock' = [lock EXCEPT !["buffer"] = None]
    /\ Goto(t, "write_signal")
    /\ UNCHANGED <<setup, ring, sig, refs, waiters, asleep, local>>

\* Full: what has been written so far wakes one reader first.
WriteFull(t) ==
    /\ pc[t] = "write_full" /\ ~closed[t]
    /\ lock' = [lock EXCEPT !["buffer"] = None]
    /\ IF done[t] > 0 THEN Waking(t, "read", FALSE, "write_signal")
       ELSE Goto(t, "write_signal") /\ UNCHANGED wake
    /\ UNCHANGED <<setup, ring, sig, refs, waiters, asleep, left, done, closed, cont>>

WriteSignal(t) ==
    /\ pc[t] = "write_signal"
    /\ Goto(t, IF t \in pending THEN "return" ELSE "block")
    /\ UNCHANGED <<setup, ring, sig, refs, lock, waiters, asleep, local>>

-----------------------------------------------------------------------------
\* Back in user space; signals have been handled on the way.
Return(t) ==
    /\ pc[t] \in {"return", "eof"}
    /\ pending' = pending \ {t}
    /\ left' = [left EXCEPT ![t] = 0]
    /\ done' = [done EXCEPT ![t] = 0]
    /\ closed' = [closed EXCEPT ![t] = FALSE]
    /\ cont' = [cont EXCEPT ![t] = None]
    /\ Goto(t, "user")
    /\ UNCHANGED <<setup, ring, kicks, signals, refs, lock, waiters, asleep, wake>>

\* close, or the exit of the thread: its reference of its end goes.
Close(t) ==
    /\ setup.close /\ pc[t] = "user"
    /\ DropEnd(t, Mine(t), "closed")
    /\ UNCHANGED <<setup, ring, sig, lock, waiters, asleep, left, done, closed, cont>>

\* A signal is made pending, and its sender then wakes the thread.
Signal(t) ==
    /\ signals < setup.signals /\ pc[t] # "closed"
    /\ signals' = signals + 1
    /\ pending' = pending \cup {t}
    /\ kicks' = kicks \cup {t}
    /\ UNCHANGED <<setup, ring, refs, lock, waiters, asleep, pc, local>>

Kick(t) ==
    /\ t \in kicks
    /\ kicks' = kicks \ {t}
    /\ asleep' = asleep \ {t}
    /\ UNCHANGED <<setup, ring, pending, signals, refs, lock, waiters, pc, local>>

Step(t) ==
    \/ WakePop(t) \/ WakeLook(t) \/ WakeTask(t) \/ Upgrade(t) \/ Downgrade(t)
    \/ BlockLock(t) \/ BlockLook(t) \/ BlockSleep(t) \/ BlockEnd(t)
    \/ Read(t) \/ ReadEmpty(t) \/ ReadEof(t) \/ ReadWoken(t) \/ ReadDecide(t)
    \/ WriteLock(t) \/ Write(t) \/ WriteBroken(t) \/ WriteFull(t) \/ WriteSignal(t)
    \/ Return(t)

Call(t) ==
    \/ t \in Reader /\ \E n \in setup.reads : ReadCall(t, n)
    \/ t \in Writer /\ \E n \in setup.writes : WriteCall(t, n)

Next == \E t \in Thread : Step(t) \/ Call(t) \/ Close(t) \/ Signal(t) \/ Kick(t)

Spec == Init /\ [][Next]_vars

\* Threads in the kernel run on and senders of signals finish; nobody has to
\* read, write or close.  A spin lock is granted in the end to a thread that
\* keeps trying, hence strong fairness.
FairSpec == Spec /\ \A t \in Thread : SF_vars(Step(t)) /\ WF_vars(Kick(t))

-----------------------------------------------------------------------------
(* Properties.                                                             *)

\* Every variable has its type (part of InOrder).
TypeOK ==
    /\ head \in 0 .. Size - 1 /\ tail \in 0 .. Size - 1
    /\ status \in {"Empty", "Normal", "Full"}
    /\ refs \in [Ends -> 0 .. 2 * Cardinality(Thread)]
    /\ lock \in [Ends \cup {"buffer"} -> Thread \cup {None}]
    /\ asleep \subseteq Thread
    /\ \A e \in Ends : IsInjective(waiters[e]) /\ Range(waiters[e]) \subseteq Thread
    /\ left \in [Thread -> Nat] /\ done \in [Thread -> Nat]
    /\ \A t \in Thread : left[t] + done[t] > 0 =>
           \E n \in setup.reads \cup setup.writes : left[t] <= n /\ done[t] <= n

\* head, tail and status describe exactly the bytes written and not yet read,
\* and every byte read is the next one written, however calls interleave.
InOrder == TypeOK /\ ~torn /\ (got + AvailableRead) % Modulus = sent

\* read returns 0 only at the real end of the file: nothing is buffered and no
\* reference of the write end is left.
EofExact == \A t \in Thread : pc[t] = "eof" => AvailableRead = 0 /\ refs["write"] = 0

\* An only reader does not stay asleep beside data that nobody takes.  (Of two
\* readers one may: a write wakes one of them, and the bytes that one leaves
\* are announced to nobody.)
DataWakes ==
    LET Readers == Reader \cap setup.threads
    IN  (Cardinality(Readers) = 1 /\ Readers \subseteq asleep /\ AvailableRead > 0)
            ~> (Readers \cap asleep = {} \/ AvailableRead = 0)

\* A writer does not stay asleep beside free space that nobody fills.
RoomWakes ==
    \A t \in Writer : (t \in asleep /\ AvailableWrite > 0) ~> (t \notin asleep \/ AvailableWrite = 0)

\* What is read is what was written, up to the real end.
PipeExact == InOrder /\ EofExact

\* Neither side sleeps beside what it waits for.
PipeWakes == DataWakes /\ RoomWakes
=============================================================================
