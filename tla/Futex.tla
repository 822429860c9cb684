-------------------------------- MODULE Futex --------------------------------
(***************************************************************************)
(* The futex calls (process/scheduler/futex.rs and sys_futex).  A global   *)
(* map holds one counted queue object per key in use; a queue is created   *)
(* by the first waiter and retired by whoever finds it empty and held by   *)
(* nobody else.  A waiter remembers the queue it is in, so that it can     *)
(* leave after a deadline or a signal even when FUTEX_REQUEUE moved it.    *)
(* Sleeping and waking a task are single steps here (TaskLife).            *)
(*                                                                         *)
(* An action is what happens under one acquisition of the map's lock or of *)
(* a queue's lock, which is the grain at which threads can interleave.     *)
(***************************************************************************)
EXTENDS Naturals, Sequences, FiniteSets, SequencesExt

CONSTANTS Thread, None,
          Key,       \* futex keys
          Value,     \* values of a futex word
          Bits,      \* the bits of a bitset
          Queue,     \* identities of queue objects: 1 .. n
          Wakes,     \* the numbers callers ask to wake
          MaxCount,  \* what a caller asks who wants to wake everybody
          Setups     \* what the calls are about: records with the threads that
                     \* wait, those that store, wake and requeue, the keys, the values
                     \* of the words, the bitsets, the relative timeouts (or None),
                     \* the numbers of waiters to requeue (none: no requeue), and
                     \* bounds on the clock and on the signals sent

VARIABLES
    setup,       \* the member of Setups that this behaviour is about
    word,        \* the futex words in user memory
    queues,      \* FUTEX_WAIT_QUEUES: the queue object of each key, or None
    queue,       \* what each queue object holds
    location,    \* FutexWaiter.location: [key, queue] or None
    asleep,      \* the threads off the CPU
    sleepers,    \* deadlines in the sleep queue, or None
    now,         \* the monotonic clock
    calls,       \* wake_up_task calls of timers and signals on their way
    pending,     \* threads with a deliverable signal
    interrupted, \* signal_interrupted
    signals,     \* signals sent so far
    pc,          \* where each thread is in its call
    arg,         \* the arguments of its call
    held,        \* the queue objects it holds an Arc of
    removed,     \* what remove_futex_waiter found: [key, queue] or None
    taken        \* waiters it has popped and not yet woken

uvars == <<word, now, sleepers, calls, pending, interrupted, signals>>
kvars == <<queues, queue, location, asleep>>
tvars == <<pc, arg, held, removed, taken>>
vars  == <<setup, uvars, kvars, tvars>>

NoArg == [key |-> None, val |-> None, bits |-> {}, deadline |-> None,
          queue |-> None, dst |-> None, wake |-> 0, move |-> 0, same |-> FALSE]

Place(k, q) == [key |-> k, queue |-> q]

Init ==
    /\ setup \in Setups
    /\ word \in [Key -> setup.values] /\ \A k \in Key \ setup.keys : word[k] = 0
    /\ queues = [k \in Key |-> None]
    /\ queue = [q \in Queue |-> << >>]
    /\ location = [t \in Thread |-> None]
    /\ asleep = {}
    /\ sleepers = [t \in Thread |-> None]
    /\ now = 0
    /\ calls = [t \in Thread |-> 0]
    /\ pending = {}
    /\ interrupted = {}
    /\ signals = 0
    /\ pc = [t \in Thread |-> "user"]
    /\ arg = [t \in Thread |-> NoArg]
    /\ held = [t \in Thread |-> {}]
    /\ removed = [t \in Thread |-> None]
    /\ taken = [t \in Thread |-> << >>]

-----------------------------------------------------------------------------
Smaller(m, n) == IF m < n THEN m ELSE n

Without(s, gone) == SelectSeq(s, LAMBDA t : t \notin Range(gone))

\* FutexWaitQueue::pop_matching, n times.
PopMatching(s, n, b) ==
    LET hit == SelectSeq(s, LAMBDA t : arg[t].bits \cap b # {})
    IN  SubSeq(hit, 1, Smaller(n, Len(hit)))

\* FutexWaitQueue::pop_front, n times.
PopFront(s, n) == SubSeq(s, 1, Smaller(n, Len(s)))

\* Somebody owns an Arc of the queue object: Weak::upgrade succeeds.
Alive(q) == (\E k \in Key : queues[k] = q) \/ (\E t \in Thread : q \in held[t])

\* A Weak in a location keeps the address from being used again.
Unused(q) == ~Alive(q) /\ \A t \in Thread : location[t] # None => location[t].queue # q

New == CHOOSE q \in Queue : Unused(q) /\ \A r \in Queue : Unused(r) => q <= r

\* entry(key).or_insert_with(...)
Entry(k) == IF queues[k] = None THEN New ELSE queues[k]

\* Arc::strong_count is 2: the map's Arc and the caller's.
OnlyMine(t, q) == \A u \in Thread \ {t} : q \notin held[u]

Goto(t, l) == pc' = [pc EXCEPT ![t] = l]

\* The call returns to user space; its Arcs are dropped.
Finish(t) ==
    /\ Goto(t, "user")
    /\ arg' = [arg EXCEPT ![t] = NoArg]
    /\ held' = [held EXCEPT ![t] = {}]
    /\ removed' = [removed EXCEPT ![t] = None]
    /\ taken' = [taken EXCEPT ![t] = << >>]

\* wake_up_task: a thread that is not asleep is left alone.
WakeUp(t) == asleep' = asleep \ {t}

\* Mutant: a queue somebody waits in is retired.
RetireBusy(t, k, q) ==
    queues' = IF queues[k] = q THEN [queues EXCEPT ![k] = None] ELSE queues

\* retire_futex_wait_queue_if_unused
Retire(t, k, q) ==
    queues' = IF q # None /\ queues[k] = q /\ OnlyMine(t, q) /\ queue[q] = << >>
              THEN [queues EXCEPT ![k] = None] ELSE queues

-----------------------------------------------------------------------------
(* FUTEX_WAIT and FUTEX_WAIT_BITSET.                                       *)

\* The first look at the word and at the signals; a caller that finds
\* another value or a signal returns at once and changes nothing.
WaitCall(t, k, v, b, d) ==
    /\ pc[t] = "user"
    /\ word[k] = v
    /\ t \notin pending
    /\ interrupted' = interrupted \ {t}
    /\ arg' = [arg EXCEPT ![t] = [NoArg EXCEPT !.key = k, !.val = v, !.bits = b,
                                     !.deadline = IF d = None THEN None ELSE now + d]]
    /\ Goto(t, "block")
    /\ UNCHANGED <<setup, word, now, sleepers, calls, pending, signals, kvars, held, removed, taken>>

\* Mutant: the word is not read again under the lock.
WaitBlockUnchecked(t) ==
    LET a == arg[t]
        q == Entry(a.key)
    IN  /\ pc[t] = "block"
        /\ queues' = [queues EXCEPT ![a.key] = q]
        /\ queue' = [queue EXCEPT ![q] = Append(@, t)]
        /\ location' = [location EXCEPT ![t] = Place(a.key, q)]
        /\ asleep' = asleep \cup {t}
        /\ sleepers' = IF a.deadline = None THEN sleepers
                       ELSE [sleepers EXCEPT ![t] = a.deadline]
        /\ arg' = [arg EXCEPT ![t].queue = q]
        /\ held' = [held EXCEPT ![t] = @ \cup {q}]
        /\ Goto(t, "asleep")
        /\ UNCHANGED <<setup, word, now, calls, pending, interrupted, signals, removed, taken>>

\* block_current_on_futex_if, under the map's and the queue's lock.
WaitBlock(t) ==
    LET a == arg[t]
        q == Entry(a.key)
    IN  /\ pc[t] = "block"
        /\ word[a.key] = a.val
        /\ queues' = [queues EXCEPT ![a.key] = q]
        /\ queue' = [queue EXCEPT ![q] = Append(@, t)]
        /\ location' = [location EXCEPT ![t] = Place(a.key, q)]
        /\ asleep' = asleep \cup {t}
        /\ sleepers' = IF a.deadline = None THEN sleepers
                       ELSE [sleepers EXCEPT ![t] = a.deadline]
        /\ arg' = [arg EXCEPT ![t].queue = q]
        /\ held' = [held EXCEPT ![t] = @ \cup {q}]
        /\ Goto(t, "asleep")
        /\ UNCHANGED <<setup, word, now, calls, pending, interrupted, signals, removed, taken>>

\* The word has changed: an empty queue goes, whoever else holds it.
WaitChanged(t) ==
    LET k == arg[t].key
    IN  /\ pc[t] = "block"
        /\ word[k] # arg[t].val
        /\ queues' = IF queues[k] = None \/ queue[queues[k]] # << >> THEN queues
                     ELSE [queues EXCEPT ![k] = None]
        /\ Finish(t)
        /\ UNCHANGED <<setup, uvars, queue, location, asleep>>

\* remove_futex_waiter reads the location and takes an Arc of that queue.
Locate(t) ==
    /\ pc[t] \in {"asleep", "locate"}
    /\ t \notin asleep
    /\ IF location[t] # None /\ Alive(location[t].queue)
       THEN /\ removed' = [removed EXCEPT ![t] = location[t]]
            /\ held' = [held EXCEPT ![t] = @ \cup {location[t].queue}]
            /\ Goto(t, "unlink")
       ELSE Goto(t, "retire_moved") /\ UNCHANGED <<held, removed>>
    /\ UNCHANGED <<setup, uvars, kvars, arg, taken>>

\* Under that queue's lock.
Unlink(t) ==
    LET q == removed[t].queue
    IN  /\ pc[t] = "unlink"
        /\ IF t \in Range(queue[q])
           THEN /\ queue' = [queue EXCEPT ![q] = Without(@, <<t>>)]
                /\ location' = [location EXCEPT ![t] = None]
                /\ Goto(t, "retire_moved")
           ELSE Goto(t, "recheck") /\ UNCHANGED <<queue, location>>
        /\ UNCHANGED <<setup, uvars, queues, asleep, arg, held, removed, taken>>

\* Not there any more: popped by a wake, or moved; then the loop goes on.
Recheck(t) ==
    /\ pc[t] = "recheck"
    /\ held' = [held EXCEPT ![t] = {arg[t].queue}]
    /\ removed' = [removed EXCEPT ![t] = None]
    /\ Goto(t, IF location[t] = None THEN "retire_moved" ELSE "locate")
    /\ UNCHANGED <<setup, uvars, kvars, arg, taken>>

\* Cancels the deadline and retires the queue it was moved to.
RetireMoved(t) ==
    LET r == removed[t]
    IN  /\ pc[t] = "retire_moved"
        /\ sleepers' = [sleepers EXCEPT ![t] = IF arg[t].deadline = None THEN @ ELSE None]
        /\ IF r # None /\ r.queue # arg[t].queue
           THEN Retire(t, r.key, r.queue) ELSE UNCHANGED queues
        /\ held' = [held EXCEPT ![t] = {arg[t].queue}]
        /\ Goto(t, "retire_own")
        /\ UNCHANGED <<setup, word, now, calls, pending, interrupted, signals,
                       queue, location, asleep, arg, removed, taken>>

RetireOwn(t) ==
    /\ pc[t] = "retire_own"
    /\ Retire(t, arg[t].key, arg[t].queue)
    /\ Goto(t, "result")
    /\ UNCHANGED <<setup, uvars, queue, location, asleep, arg, held, removed, taken>>

\* Signals are handled on the way back to user space.
WaitReturn(t) ==
    /\ pc[t] = "result"
    /\ interrupted' = interrupted \ {t}
    /\ pending' = pending \ {t}
    /\ Finish(t)
    /\ UNCHANGED <<setup, word, now, sleepers, calls, signals, kvars>>

-----------------------------------------------------------------------------
(* FUTEX_WAKE and FUTEX_WAKE_BITSET; FUTEX_WAKE_OP is one of them for each *)
(* address, and a thread that exits stores 0 in its clear_child_tid word   *)
(* and wakes one waiter.                                                   *)

WakeArgs(k, n, b) == [NoArg EXCEPT !.key = k, !.wake = n, !.bits = b]

\* User code changes the word and then calls FUTEX_WAKE for every waiter.
Store(t, k, v) ==
    /\ pc[t] = "user"
    /\ word[k] # v
    /\ word' = [word EXCEPT ![k] = v]
    /\ arg' = [arg EXCEPT ![t] = WakeArgs(k, MaxCount, Bits)]
    /\ Goto(t, "lookup")
    /\ UNCHANGED <<setup, now, sleepers, calls, pending, interrupted, signals, kvars, held, removed, taken>>

WakeCall(t, k, n, b) ==
    /\ pc[t] = "user"
    /\ arg' = [arg EXCEPT ![t] = WakeArgs(k, n, b)]
    /\ Goto(t, "lookup")
    /\ UNCHANGED <<setup, uvars, kvars, held, removed, taken>>

\* The queue is cloned out of the map, whose lock is then released.
WakeLookup(t) ==
    LET q == queues[arg[t].key]
    IN  /\ pc[t] = "lookup"
        /\ IF q = None THEN Finish(t)
           ELSE /\ held' = [held EXCEPT ![t] = @ \cup {q}]
                /\ arg' = [arg EXCEPT ![t].queue = q]
                /\ Goto(t, "pop")
                /\ UNCHANGED <<removed, taken>>
        /\ UNCHANGED <<setup, uvars, kvars>>

\* Mutant: one waiter more is popped than is put on the list.
WakePopShort(t) ==
    LET q   == arg[t].queue
        hit == PopMatching(queue[q], arg[t].wake, arg[t].bits)
    IN  /\ pc[t] = "pop"
        /\ queue' = [queue EXCEPT ![q] = Without(@, hit)]
        /\ location' = [u \in Thread |-> IF u \in Range(hit) THEN None ELSE location[u]]
        /\ taken' = [taken EXCEPT ![t] = IF hit = << >> THEN hit ELSE Tail(hit)]
        /\ Goto(t, "wake")
        /\ UNCHANGED <<setup, uvars, queues, asleep, arg, held, removed>>

\* wake_futex_waiters: the waiters are popped under the queue's lock ...
WakePop(t) ==
    LET q   == arg[t].queue
        hit == PopMatching(queue[q], arg[t].wake, arg[t].bits)
    IN  /\ pc[t] = "pop"
        /\ queue' = [queue EXCEPT ![q] = Without(@, hit)]
        /\ location' = [u \in Thread |-> IF u \in Range(hit) THEN None ELSE location[u]]
        /\ taken' = [taken EXCEPT ![t] = hit]
        /\ Goto(t, "wake")
        /\ UNCHANGED <<setup, uvars, queues, asleep, arg, held, removed>>

\* ... and woken, one after the other, outside it.
WakeNext(t) ==
    /\ pc[t] \in {"wake", "requeue_wake"}
    /\ taken[t] # << >>
    /\ WakeUp(Head(taken[t]))
    /\ taken' = [taken EXCEPT ![t] = Tail(@)]
    /\ UNCHANGED <<setup, uvars, queues, queue, location, pc, arg, held, removed>>

WakeRetire(t) ==
    /\ pc[t] = "wake"
    /\ taken[t] = << >>
    /\ Retire(t, arg[t].key, arg[t].queue)
    /\ Goto(t, "drop")
    /\ UNCHANGED <<setup, uvars, queue, location, asleep, arg, held, removed, taken>>

WakeReturn(t) == pc[t] = "drop" /\ Finish(t) /\ UNCHANGED <<setup, uvars, kvars>>

-----------------------------------------------------------------------------
(* FUTEX_REQUEUE and FUTEX_CMP_REQUEUE.                                    *)

\* The word is compared with val3 before any lock is taken; whether it was
\* equal is all the later steps know.
RequeueCall(t, k, j, n, m, v) ==
    /\ pc[t] = "user"
    /\ arg' = [arg EXCEPT ![t] = [NoArg EXCEPT !.key = k, !.dst = j, !.wake = n, !.move = m,
                                     !.same = (v = None \/ word[k] = v)]]
    /\ Goto(t, "requeue")
    /\ UNCHANGED <<setup, uvars, kvars, held, removed, taken>>

\* Mutant: moved waiters keep the location of the source queue.
RequeueOldPlace(t) ==
    LET a     == arg[t]
        src   == queues[a.key]
        dst   == Entry(a.dst)
        moved == IF a.same /\ src # dst THEN PopFront(queue[src], a.move) ELSE << >>
    IN  /\ pc[t] = "requeue" /\ src # None
        /\ queues' = IF a.move > 0 THEN [queues EXCEPT ![a.dst] = dst] ELSE queues
        /\ queue' = [q \in Queue |-> IF q = src THEN Without(queue[q], moved)
                                     ELSE IF a.move > 0 /\ q = dst THEN queue[q] \o moved
                                     ELSE queue[q]]
        /\ held' = [held EXCEPT ![t] = {src}]
        /\ Goto(t, "requeue_wake")
        /\ UNCHANGED <<setup, uvars, location, asleep, arg, removed, taken>>

\* Mutant: moved waiters do not arrive.
RequeueDropsMoved(t) ==
    LET a     == arg[t]
        src   == queues[a.key]
        dst   == Entry(a.dst)
        moved == IF a.same /\ src # dst THEN PopFront(queue[src], a.move) ELSE << >>
    IN  /\ pc[t] = "requeue" /\ src # None
        /\ queue' = [queue EXCEPT ![src] = Without(@, moved)]
        /\ location' = [u \in Thread |-> IF u \in Range(moved) THEN None ELSE location[u]]
        /\ held' = [held EXCEPT ![t] = {src}]
        /\ Goto(t, "requeue_wake")
        /\ UNCHANGED <<setup, uvars, queues, asleep, arg, removed, taken>>

\* requeue_futex_waiters, under the map's lock and both queues' locks.
Requeue(t) ==
    LET a     == arg[t]
        src   == queues[a.key]
        dst   == Entry(a.dst)
        hit   == IF a.same THEN PopFront(queue[src], a.wake) ELSE << >>
        rest  == Without(queue[src], hit)
        moved == IF a.same /\ src # dst THEN PopFront(rest, a.move) ELSE << >>
    IN  /\ pc[t] = "requeue" /\ src # None
        /\ queues' = IF a.move > 0 THEN [queues EXCEPT ![a.dst] = dst] ELSE queues
        /\ queue' = [q \in Queue |->
                        IF q = src THEN Without(rest, moved)
                        ELSE IF a.move > 0 /\ q = dst THEN queue[q] \o moved
                        ELSE queue[q]]
        /\ location' = [u \in Thread |-> IF u \in Range(hit) THEN None
                                         ELSE IF u \in Range(moved) THEN Place(a.dst, dst)
                                         ELSE location[u]]
        /\ taken' = [taken EXCEPT ![t] = hit]
        /\ held' = IF a.same THEN [held EXCEPT ![t] = {src} \cup (IF a.move > 0 THEN {dst} ELSE {})]
                   ELSE held
        /\ Goto(t, IF a.same THEN "requeue_wake" ELSE "retire_src")
        /\ UNCHANGED <<setup, uvars, asleep, arg, removed>>

\* No queue for the source key: nothing to wake or to move.
RequeueNone(t) ==
    /\ pc[t] = "requeue" /\ queues[arg[t].key] = None
    /\ Goto(t, "retire_src")
    /\ UNCHANGED <<setup, uvars, kvars, arg, held, removed, taken>>

RequeueDrop(t) ==
    /\ pc[t] = "requeue_wake" /\ taken[t] = << >>
    /\ held' = [held EXCEPT ![t] = {}]
    /\ Goto(t, "retire_src")
    /\ UNCHANGED <<setup, uvars, kvars, arg, removed, taken>>

\* retire_futex_wait_queue_by_key_if_unused, for the source ...
RetireSrc(t) ==
    /\ pc[t] = "retire_src"
    /\ Retire(t, arg[t].key, queues[arg[t].key])
    /\ Goto(t, IF arg[t].move > 0 THEN "retire_dst" ELSE "drop")
    /\ UNCHANGED <<setup, uvars, queue, location, asleep, arg, held, removed, taken>>

\* ... and for the destination.
RetireDst(t) ==
    /\ pc[t] = "retire_dst"
    /\ Retire(t, arg[t].dst, queues[arg[t].dst])
    /\ Finish(t)
    /\ UNCHANGED <<setup, uvars, queue, location, asleep>>

-----------------------------------------------------------------------------
(* The rest of the kernel: the clock, the sleep queue and signals.         *)

Tick ==
    /\ now < setup.time
    /\ now' = now + 1
    /\ UNCHANGED <<setup, word, sleepers, calls, pending, interrupted, signals, kvars, tvars>>

Due == {t \in Thread : sleepers[t] # None /\ sleepers[t] <= now}

\* wake_expired_sleep_tasks pops what is due under the sleep queue's lock and
\* wakes it later, outside the lock.
Expire ==
    /\ Due # {}
    /\ sleepers' = [t \in Thread |-> IF t \in Due THEN None ELSE sleepers[t]]
    /\ calls' = [t \in Thread |-> IF t \in Due THEN calls[t] + 1 ELSE calls[t]]
    /\ UNCHANGED <<setup, word, now, pending, interrupted, signals, kvars, tvars>>

\* sys_tkill and sys_kill.  A blocked or ignored signal is not deliverable,
\* yet sys_kill wakes the thread; only sys_tkill sets signal_interrupted,
\* and only when it finds the thread off the CPU.
Signal(t, deliverable, flagged) ==
    /\ signals < setup.signals
    /\ signals' = signals + 1
    /\ flagged => deliverable /\ t \in asleep
    /\ pending' = IF deliverable THEN pending \cup {t} ELSE pending
    /\ interrupted' = IF flagged THEN interrupted \cup {t} ELSE interrupted
    /\ calls' = [calls EXCEPT ![t] = @ + 1]
    /\ UNCHANGED <<setup, word, now, sleepers, kvars, tvars>>

Deliver(t) ==
    /\ calls[t] > 0
    /\ calls' = [calls EXCEPT ![t] = @ - 1]
    /\ WakeUp(t)
    /\ UNCHANGED <<setup, word, now, sleepers, pending, interrupted, signals,
                   queues, queue, location, tvars>>

-----------------------------------------------------------------------------
\* The steps of a call under way.
Step(t) ==
    \/ WaitBlock(t) \/ WaitChanged(t) \/ Locate(t) \/ Unlink(t) \/ Recheck(t)
    \/ RetireMoved(t) \/ RetireOwn(t) \/ WaitReturn(t)
    \/ WakeLookup(t) \/ WakePop(t) \/ WakeNext(t) \/ WakeRetire(t) \/ WakeReturn(t)
    \/ Requeue(t) \/ RequeueNone(t) \/ RequeueDrop(t) \/ RetireSrc(t) \/ RetireDst(t)

Call(t) ==
    \/ /\ t \in setup.waiters
       /\ \E k \in setup.keys, v \in setup.values, b \in setup.bitsets, d \in setup.timeouts :
             WaitCall(t, k, v, b, d)
    \/ /\ t \in setup.callers
       /\ \/ \E k \in setup.keys, v \in setup.values : Store(t, k, v)
          \/ \E k \in setup.keys, n \in Wakes, b \in setup.bitsets : WakeCall(t, k, n, b)
          \/ \E k, j \in setup.keys, n \in Wakes \cup {0}, m \in setup.moves,
                v \in setup.values \cup {None} :
                RequeueCall(t, k, j, n, m, v)

Next ==
    \/ \E t \in Thread : Step(t) \/ Call(t) \/ Deliver(t)
    \/ \E t \in setup.waiters, d, f \in BOOLEAN : Signal(t, d, f)
    \/ Tick
    \/ Expire

Spec == Init /\ [][Next]_vars

\* A thread in the kernel runs on, and a wakeup on its way arrives; nothing
\* makes user code call, the clock move or anybody send a signal.
FairSpec == Spec /\ \A t \in Thread : WF_vars(Step(t)) /\ WF_vars(Deliver(t))

-----------------------------------------------------------------------------
(* Properties.                                                             *)

Labels == {"user", "block", "asleep", "locate", "unlink", "recheck", "retire_moved",
           "retire_own", "result", "lookup", "pop", "wake", "drop", "requeue",
           "requeue_wake", "retire_src", "retire_dst"}

Places == {Place(k, q) : k \in Key, q \in Queue}

\* Every variable has its type, and there is always a fresh queue object to
\* create, so the bound on Queue hides no behaviour (part of LocationExact).
TypeOK ==
    /\ word \in [Key -> Value]
    /\ queues \in [Key -> Queue \cup {None}]
    /\ \A q \in Queue : Range(queue[q]) \subseteq Thread
    /\ location \in [Thread -> Places \cup {None}]
    /\ asleep \subseteq Thread
    /\ pc \in [Thread -> Labels]
    /\ \A t \in Thread : held[t] \subseteq Queue /\ Range(taken[t]) \subseteq Thread
    /\ removed \in [Thread -> Places \cup {None}]
    /\ \E q \in Queue : Unused(q)

\* FutexWaiter.location is exact: a waiter is in the queue its location names,
\* once, and in no other, at every moment a lock is free.
LocationExact ==
    /\ TypeOK
    /\ \A q \in Queue :
        /\ IsInjective(queue[q])
        /\ \A t \in Thread :
              t \in Range(queue[q]) <=> location[t] # None /\ location[t].queue = q

\* A queue with waiters is the one the map has for their key: a later
\* FUTEX_WAKE or FUTEX_REQUEUE finds them, whatever was retired, recreated or
\* moved in between.
WaitersReachable ==
    \A t \in Thread : location[t] # None => queues[location[t].key] = location[t].queue

\* Both: a waiter's location leads to it, and so does its key.
WaitersFound == LocationExact /\ WaitersReachable

\* A store and a FUTEX_WAKE for everybody get every waiter up that was waiting
\* for the old value, whatever deadlines, bitsets and other wakes do meanwhile.
ChangedWordWakes ==
    \A t \in Thread :
        (t \in asleep /\ location[t] # None /\ word[arg[t].key] # arg[t].val) ~> t \notin asleep

-----------------------------------------------------------------------------
(* The abstract futex.                                                     *)

Waiting ==
    [k \in Key |-> IF queues[k] = None THEN << >>
                   ELSE [i \in DOMAIN queue[queues[k]] |->
                            LET t == queue[queues[k]][i]
                            IN  [thread |-> t, val |-> arg[t].val, bits |-> arg[t].bits]]]

Abstract == INSTANCE FutexSpec WITH
    waiting <- Waiting,
    owed    <- UNION {Range(taken[u]) : u \in Thread}

\* Creating, retiring and recreating queue objects, the location that a waiter
\* keeps, and waking outside the locks are invisible: the calls behave like
\* atomic operations on one queue per key, and a waiter that a wake has taken
\* gets up.
Refinement == Abstract!FairSpec
==============================================================================
