----------------------------- MODULE Readiness ------------------------------
(***************************************************************************)
(* Waiting for several files at once: ppoll, epoll and pselect6            *)
(* (syscall/process.rs, fs/epoll.rs), over files with a readiness level    *)
(* and a queue of poll waiters, as eventfd has.                            *)
(*                                                                         *)
(* A caller scans the files one by one, registers with every queue, scans  *)
(* again and only then switches away; a wake that comes in between is      *)
(* remembered in wake_pending.  Wakes are two steps: the queue is emptied, *)
(* then its tasks are woken one at a time.                                 *)
(***************************************************************************)
EXTENDS Integers, FiniteSets, FiniteSetsExt

CONSTANTS
    Caller,      \* threads that wait
    Source,      \* watched files, a set of integers
    Agent,       \* threads that write, signal or change registrations
    Modes,       \* registrations: subset of {"level", "oneshot", "edge"}
    CtlAnytime,  \* registrations may change between a caller's scan and its
                 \* registration with the queues
    Uses,        \* what a behaviour uses: callers, sources and calls
    MaxEvents    \* bound on what agents do; each caller waits once

VARIABLES
    use,         \* the member of Uses this behaviour uses
    ready,       \* [Source -> BOOLEAN], the eventfd's count is not 0
    waitq,       \* [Source \cup {0} -> set of callers]; 0 is the epoll's own queue
    interest,    \* [Source -> mode or "none"], the epoll's interest list
    lastReady,   \* sources seen ready by the last scan
    disabled,    \* one-shot sources already delivered
    scanning,    \* the caller inside the epoll's locks
    poll,        \* the call each caller is in
    state,       \* task state: "running", "saving" or "blocked"
    wakePending,
    sleepers,    \* callers in the timer's sleep queue
    expired,     \* callers whose deadline has passed
    signal,      \* callers with a signal that interrupts
    waker,       \* [Agent \cup {"timer"} -> tasks it has still to wake, or a queue to empty]
    fresh,       \* history: sources that turned ready since last delivered
    reports,     \* history: deliveries of a one-shot source since it was armed
    events, waits

rvars == <<use, ready, waitq, interest, lastReady, disabled, scanning, poll, state, wakePending,
           sleepers, expired, signal, waker, fresh, reports, events, waits>>

Nowhere == [pc |-> "out"]
Free == [queue |-> -1, tasks |-> {}]
Queues == Source \cup {0}

Watched(t) == IF poll[t].kind = "epoll" THEN {f \in Source : interest[f] # "none"} ELSE use.sources

\* The queues found by a scan that delivered nothing.
QueuesOf(t) == Watched(t) \cup (IF poll[t].kind = "epoll" THEN {0} ELSE {})

At(t, pc) == poll[t].pc = pc

Goto(t, pc) == poll' = [poll EXCEPT ![t].pc = pc]

---------------------------------------------------------------------------
(* Waking *)

\* wake_up_task: a blocked task runs again, one about to block remembers.
Wake(t) ==
    /\ state' = IF state[t] = "blocked" THEN [state EXCEPT ![t] = "running"] ELSE state
    /\ wakePending' = IF state[t] = "saving" THEN [wakePending EXCEPT ![t] = TRUE] ELSE wakePending

\* wake_up_all_mp, first half: empty the queue.
EmptyQueue(a) ==
    /\ waker[a].queue # -1
    /\ waker' = [waker EXCEPT ![a] = [queue |-> -1, tasks |-> waitq[waker[a].queue]]]
    /\ waitq' = [waitq EXCEPT ![waker[a].queue] = {}]
    /\ UNCHANGED <<use, ready, interest, lastReady, disabled, scanning, poll, state, wakePending,
                   sleepers, expired, signal, fresh, reports, events, waits>>

WakeNext(a) ==
    \E t \in waker[a].tasks :
        /\ Wake(t)
        /\ waker' = [waker EXCEPT ![a].tasks = @ \ {t}]
        /\ UNCHANGED <<use, ready, waitq, interest, lastReady, disabled, scanning, poll, sleepers,
                       expired, signal, fresh, reports, events, waits>>

---------------------------------------------------------------------------
(* What happens to the files and the callers *)

Acts(a) ==
    /\ waker[a] = Free
    /\ events < MaxEvents
    /\ events' = events + 1

\* EventFile::write: the count first, the waiters after.
EventWrite(a, f) ==
    /\ f \in use.sources
    /\ Acts(a)
    /\ ready' = [ready EXCEPT ![f] = TRUE]
    /\ fresh' = fresh \cup {f}
    /\ waker' = [waker EXCEPT ![a].queue = f]
    /\ UNCHANGED <<use, waitq, interest, lastReady, disabled, scanning, poll, state, wakePending,
                   sleepers, expired, signal, reports, waits>>

\* EventFile::read takes the whole count; it spins while the count is 0.
EventRead(a, f) ==
    /\ Acts(a)
    /\ ready[f]
    /\ ready' = [ready EXCEPT ![f] = FALSE]
    /\ fresh' = fresh \ {f}
    /\ UNCHANGED <<use, waitq, interest, lastReady, disabled, scanning, poll, state, wakePending,
                   sleepers, expired, signal, waker, reports, waits>>

\* epoll_ctl: ADD, MOD and DEL differ in what they refuse; each clears the
\* edge and one-shot state and wakes the epoll's waiters.
EpollCtl(a, f, mode) ==
    /\ use.call = "epoll"
    /\ f \in use.sources
    /\ Acts(a)
    /\ scanning = "none"
    /\ CtlAnytime \/ \A t \in Caller : poll[t].pc \notin {"prepare", "register"}
    /\ mode = "none" => interest[f] # "none"
    /\ interest' = [interest EXCEPT ![f] = mode]
    /\ lastReady' = lastReady \ {f}
    /\ disabled' = disabled \ {f}
    /\ reports' = [reports EXCEPT ![f] = 0]
    /\ waker' = [waker EXCEPT ![a].queue = 0]
    /\ UNCHANGED <<use, ready, waitq, scanning, poll, state, wakePending, sleepers, expired, signal,
                   fresh, waits>>

\* A signal is queued, then its target woken.
SendSignal(a, t) ==
    /\ Acts(a)
    /\ t \notin signal
    /\ use.signals
    /\ poll[t].pc # "out"
    /\ signal' = signal \cup {t}
    /\ waker' = [waker EXCEPT ![a].tasks = {t}]
    /\ UNCHANGED <<use, ready, waitq, interest, lastReady, disabled, scanning, poll, state,
                   wakePending, sleepers, expired, fresh, reports, waits>>

Deadline(t) ==
    /\ poll[t].pc # "out" /\ poll[t].timed
    /\ t \notin expired
    /\ expired' = expired \cup {t}
    /\ UNCHANGED <<use, ready, waitq, interest, lastReady, disabled, scanning, poll, state,
                   wakePending, sleepers, signal, waker, fresh, reports, events, waits>>

\* wake_expired_sleep_tasks: the timer worker takes every expired sleeper out
\* of the queue and then wakes them.
Tick ==
    /\ waker["timer"] = Free
    /\ sleepers \cap expired # {}
    /\ waker' = [waker EXCEPT !["timer"].tasks = sleepers \cap expired]
    /\ sleepers' = sleepers \ expired
    /\ UNCHANGED <<use, ready, waitq, interest, lastReady, disabled, scanning, poll, state,
                   wakePending, expired, signal, fresh, reports, events, waits>>

---------------------------------------------------------------------------
(* The call *)

Enter(t, timed) ==
    /\ At(t, "out")
    /\ t \in use.callers
    /\ timed \in use.timed
    /\ waits < Cardinality(use.callers)
    /\ waits' = waits + 1
    /\ poll' = [poll EXCEPT ![t] =
         [pc |-> "signal", kind |-> use.call, timed |-> timed, left |-> {}, found |-> {}, queues |-> {}]]
    /\ expired' = expired \ {t}
    /\ UNCHANGED <<use, ready, waitq, interest, lastReady, disabled, scanning, state, wakePending,
                   sleepers, signal, waker, fresh, reports, events>>

Return(t) == poll' = [poll EXCEPT ![t] = Nowhere]

\* has_interrupting_signal at the head of the loop.
CheckSignal(t) ==
    /\ At(t, "signal")
    /\ IF t \in signal THEN Return(t) /\ signal' = signal \ {t}
       ELSE Goto(t, "scan") /\ UNCHANGED signal
    /\ UNCHANGED <<use, ready, waitq, interest, lastReady, disabled, scanning, state, wakePending,
                   sleepers, expired, waker, fresh, reports, events, waits>>

\* The epoll's locks are held for the whole of a scan.
ScanStart(t) ==
    /\ poll[t].pc \in {"scan", "rescan"}
    /\ poll[t].kind = "epoll" => scanning = "none"
    /\ scanning' = IF poll[t].kind = "epoll" THEN t ELSE scanning
    /\ poll' = [poll EXCEPT ![t].pc = IF @ = "scan" THEN "scanning" ELSE "rescanning",
                            ![t].left = Watched(t), ![t].found = {}]
    /\ UNCHANGED <<use, ready, waitq, interest, lastReady, disabled, state, wakePending, sleepers,
                   expired, signal, waker, fresh, reports, events, waits>>

\* One file: what ppoll and pselect6 report is its level; epoll reports it
\* unless it is a spent one-shot, or edge-triggered and ready last time too.
Delivers(t, f) ==
    /\ ready[f]
    /\ poll[t].kind = "epoll" =>
         /\ interest[f] = "oneshot" => f \notin disabled
         /\ interest[f] = "edge" => f \notin lastReady

ScanFile(t) ==
    LET f == Min(poll[t].left)
        hit == Delivers(t, f)
        ep == poll[t].kind = "epoll"
    IN  /\ poll[t].pc \in {"scanning", "rescanning"}
        /\ poll[t].left # {}
        /\ poll' = [poll EXCEPT ![t].left = @ \ {f},
                                ![t].found = IF hit THEN @ \cup {f} ELSE @]
        /\ lastReady' = IF ~ep THEN lastReady
                        ELSE IF ready[f] THEN lastReady \cup {f} ELSE lastReady \ {f}
        /\ disabled' = IF ep /\ hit /\ interest[f] = "oneshot" THEN disabled \cup {f} ELSE disabled
        /\ reports' = IF ep /\ hit /\ interest[f] = "oneshot"
                      THEN [reports EXCEPT ![f] = @ + 1] ELSE reports
        /\ fresh' = IF ep /\ hit THEN fresh \ {f} ELSE fresh
        /\ UNCHANGED <<use, ready, waitq, interest, scanning, state, wakePending, sleepers, expired,
                       signal, waker, events, waits>>

\* End of the first scan: return with what was found, or at the deadline, or
\* go on to block; pselect6 yields and starts over.
ScanEnd(t) ==
    /\ At(t, "scanning")
    /\ poll[t].left = {}
    /\ scanning' = IF scanning = t THEN "none" ELSE scanning
    /\ \/ poll[t].found # {} /\ Return(t)
       \/ poll[t].found = {} /\ poll[t].timed /\ t \in expired /\ Return(t)
       \/ /\ poll[t].found = {} /\ ~(poll[t].timed /\ t \in expired)
          /\ poll' = [poll EXCEPT ![t].pc = IF poll[t].kind = "select" THEN "signal" ELSE "prepare",
                                  ![t].queues = QueuesOf(t)]
    /\ UNCHANGED <<use, ready, waitq, interest, lastReady, disabled, state, wakePending, sleepers,
                   expired, signal, waker, fresh, reports, events, waits>>

Prepare(t) ==
    /\ At(t, "prepare")
    /\ state' = [state EXCEPT ![t] = "saving"]
    /\ wakePending' = [wakePending EXCEPT ![t] = FALSE]
    /\ poll' = [poll EXCEPT ![t].pc = "register", ![t].left = poll[t].queues]
    /\ sleepers' = IF poll[t].timed THEN sleepers \cup {t} ELSE sleepers
    /\ UNCHANGED <<use, ready, waitq, interest, lastReady, disabled, scanning, expired, signal, waker,
                   fresh, reports, events, waits>>

Register(t) ==
    /\ At(t, "register")
    /\ IF poll[t].left = {} THEN Goto(t, "rescan") /\ UNCHANGED waitq
       ELSE LET q == Min(poll[t].left)
            IN  /\ waitq' = [waitq EXCEPT ![q] = @ \cup {t}]
                /\ poll' = [poll EXCEPT ![t].left = @ \ {q}]
    /\ UNCHANGED <<use, ready, interest, lastReady, disabled, scanning, state, wakePending, sleepers,
                   expired, signal, waker, fresh, reports, events, waits>>

\* cancel_sleep_task and unregister_poll_waiter.
Unregistered(t) ==
    /\ sleepers' = sleepers \ {t}
    /\ waitq' = [q \in Queues |-> IF q \in poll[t].queues THEN waitq[q] \ {t} ELSE waitq[q]]

\* End of the second scan: a result or a signal takes the registration back,
\* otherwise the task switches away.
RescanEnd(t) ==
    /\ At(t, "rescanning")
    /\ poll[t].left = {}
    /\ scanning' = IF scanning = t THEN "none" ELSE scanning
    /\ IF poll[t].found # {} \/ t \in signal
       THEN /\ Unregistered(t)
            /\ state' = [state EXCEPT ![t] = "running"]
            /\ wakePending' = [wakePending EXCEPT ![t] = FALSE]
            /\ IF poll[t].found # {} THEN Return(t) ELSE Goto(t, "signal")
       ELSE Goto(t, "switch") /\ UNCHANGED <<sleepers, waitq, state, wakePending>>
    /\ UNCHANGED <<use, ready, interest, lastReady, disabled, expired, signal, waker, fresh, reports,
                   events, waits>>

\* Mutant: a wake that came before the switch is ignored.
SwitchDeaf(t) ==
    /\ At(t, "switch")
    /\ state' = [state EXCEPT ![t] = "blocked"]
    /\ Goto(t, "asleep")
    /\ UNCHANGED <<use, ready, waitq, interest, lastReady, disabled, scanning, wakePending, sleepers,
                   expired, signal, waker, fresh, reports, events, waits>>

\* The scheduler parks the task, or queues it again when a wake is pending.
Switch(t) ==
    /\ At(t, "switch")
    /\ state' = [state EXCEPT ![t] = IF wakePending[t] THEN "running" ELSE "blocked"]
    /\ Goto(t, "asleep")
    /\ UNCHANGED <<use, ready, waitq, interest, lastReady, disabled, scanning, wakePending, sleepers,
                   expired, signal, waker, fresh, reports, events, waits>>

Resume(t) ==
    /\ At(t, "asleep")
    /\ state[t] = "running"
    /\ Unregistered(t)
    /\ Goto(t, "signal")
    /\ UNCHANGED <<use, ready, interest, lastReady, disabled, scanning, state, wakePending, expired,
                   signal, waker, fresh, reports, events, waits>>

---------------------------------------------------------------------------
ReadyInit ==
    /\ use \in Uses
    /\ ready = [f \in Source |-> FALSE]
    /\ waitq = [q \in Queues |-> {}]
    /\ interest = [f \in Source |->
         IF use.call = "epoll" /\ f \in use.sources THEN CHOOSE m \in Modes : TRUE ELSE "none"]
    /\ lastReady = {} /\ disabled = {} /\ scanning = "none"
    /\ poll = [t \in Caller |-> Nowhere]
    /\ state = [t \in Caller |-> "running"]
    /\ wakePending = [t \in Caller |-> FALSE]
    /\ sleepers = {} /\ expired = {} /\ signal = {}
    /\ waker = [a \in Agent \cup {"timer"} |-> Free]
    /\ fresh = {}
    /\ reports = [f \in Source |-> 0]
    /\ events = 0 /\ waits = 0

CallStep(t) ==
    \/ CheckSignal(t) \/ ScanStart(t) \/ ScanFile(t) \/ ScanEnd(t)
    \/ Prepare(t) \/ Register(t) \/ RescanEnd(t) \/ Switch(t) \/ Resume(t)

Waking(a) == EmptyQueue(a) \/ WakeNext(a)

ReadyNext ==
    \/ \E t \in Caller :
         \/ CallStep(t) \/ Deadline(t)
         \/ \E timed \in BOOLEAN : Enter(t, timed)
    \/ \E a \in Agent \cup {"timer"} : Waking(a)
    \/ Tick
    \/ \E a \in Agent :
         \/ \E f \in Source :
              \/ EventWrite(a, f) \/ EventRead(a, f)
              \/ \E mode \in Modes \cup {"none"} : EpollCtl(a, f, mode)
         \/ \E t \in Caller : SendSignal(a, t)

\* Every thread in the kernel runs on, the timer worker included.
ReadyFair ==
    /\ \A t \in Caller : WF_rvars(CallStep(t))
    /\ \A a \in Agent \cup {"timer"} : WF_rvars(Waking(a))
    /\ WF_rvars(Tick)

ReadySpec == ReadyInit /\ [][ReadyNext]_rvars /\ ReadyFair

---------------------------------------------------------------------------
\* Something that should end t's wait.
Reason(t) ==
    \/ t \in signal
    \/ poll[t].timed /\ t \in expired
    \/ \E f \in Watched(t) :
         /\ ready[f]
         /\ poll[t].kind = "epoll" => /\ interest[f] = "oneshot" => f \notin disabled
                                      /\ interest[f] = "edge" => f \in fresh

\* No caller waits for ever beside a reason to return: a ready file, a
\* signal, a deadline or a new registration is never lost between the scan,
\* the registration and the switch.
WaitEnds == \A t \in Caller : []<>~(poll[t].pc # "out" /\ Reason(t))

\* A one-shot file is delivered at most once until it is armed again, even
\* to several callers of one epoll.
OneShotOnce == \A f \in Source : reports[f] <= 1

Reported == []OneShotOnce /\ WaitEnds
=============================================================================
