------------------------------- MODULE Timers -------------------------------
(***************************************************************************)
(* Alarms (timer.rs), POSIX timers (process/timer.rs) and sleeping         *)
(* (process/scheduler/nanosleep.rs, nanosleep_impl), with the exit and     *)
(* creation of the processes that own them.  check_timers is called by the *)
(* timer worker and by every loop that waits for a TCP socket.  It copies  *)
(* what has expired under one lock and signals the owners, found again by  *)
(* their number, after it has let go of it.                                *)
(*                                                                         *)
(* Time is a small number.  The realtime clock is the monotonic one plus   *)
(* an offset that clock_settime changes.                                   *)
(***************************************************************************)
EXTENDS Integers, Sequences, FiniteSets, FiniteSetsExt, SequencesExt

CONSTANTS Tids,      \* how many thread identifiers there are
          Checker,   \* the callers of check_timers
          Delays, Intervals,
          TimerIds,  \* bound on the number of POSIX timers created
          MaxTime,   \* the last moment
          MaxOps,    \* bound on the number of system calls
          Plays      \* the mixes of calls that behaviours are made of

VARIABLES play,      \* the mix of calls of this behaviour
          now, offset,
          thread,    \* of each identifier: its process and what it does
          spare,     \* PID_ALLOCATOR: recycled identifiers, last one first
          events, pidMap,     \* TimerManager
          timer,     \* POSIX_TIMERS
          check,     \* what each caller of check_timers holds
          sleepers,  \* SLEEP_QUEUE: thread to deadline
          pending,   \* threads with a signal that is deliverable
          serial,    \* history: number of the next arming
          armed,     \* history: the arming an alarm belongs to
          fired,     \* history: signals sent for each one-shot arming
          dropped,   \* history: one-shot armings given up before they expired
          ops

timeVars == <<play, now, offset, thread, spare, events, pidMap, timer, check, sleepers, pending,
              serial, armed, fired, dropped, ops>>

Tid == 1 .. Tids
Time == 0 .. MaxTime
Free == [st |-> "free", pid |-> 0, until |-> 0]
NoTimer == [pid |-> 0]
Quiet == [at |-> "idle", items |-> << >>]
Live(t) == thread[t].st \notin {"free", "dead"}
Group(p) == {t \in Tid : Live(t) /\ thread[t].pid = p}
Clock(c) == IF c = "realtime" THEN now + offset ELSE now
Call(kind) == kind \in play /\ ops < MaxOps /\ ops' = ops + 1

-----------------------------------------------------------------------------
(* TimerManager.  An absent entry is an empty list or 0.                   *)
Cancelled(E, M, p) ==
    IF M[p] = 0 THEN E ELSE [E EXCEPT ![M[p]] = SelectSeq(@, LAMBDA q : q # p)]
CancelAlarm(p) ==
    /\ events' = Cancelled(events, pidMap, p)
    /\ pidMap' = [pidMap EXCEPT ![p] = 0]
GivenUp(p) == IF pidMap[p] = 0 THEN {} ELSE {armed[p]}

\* Mutant: an old alarm is not cancelled first.
SetAlarmTwice(t, d) ==
    LET p == thread[t].pid
        at == now + d
    IN /\ thread[t].st = "run" /\ Call("alarm") /\ at \in Time
       /\ events' = IF d = 0 THEN events ELSE [events EXCEPT ![at] = Append(@, p)]
       /\ pidMap' = [pidMap EXCEPT ![p] = IF d = 0 THEN 0 ELSE at]
       /\ armed' = [armed EXCEPT ![p] = serial]
       /\ serial' = serial + 1
       /\ dropped' = dropped \cup GivenUp(p) \cup (IF d = 0 THEN {serial} ELSE {})
       /\ UNCHANGED <<play, now, offset, thread, spare, timer, check, sleepers, pending, fired>>
(* sys_setitimer, set_alarm: delay 0 only cancels.                         *)
SetAlarm(t, d) ==
    LET p == thread[t].pid
        E == Cancelled(events, pidMap, p)
        at == now + d
    IN /\ thread[t].st = "run" /\ Call("alarm") /\ at \in Time
       /\ events' = IF d = 0 THEN E ELSE [E EXCEPT ![at] = Append(@, p)]
       /\ pidMap' = [pidMap EXCEPT ![p] = IF d = 0 THEN 0 ELSE at]
       /\ armed' = [armed EXCEPT ![p] = serial]
       /\ serial' = serial + 1
       /\ dropped' = dropped \cup GivenUp(p) \cup (IF d = 0 THEN {serial} ELSE {})
       /\ UNCHANGED <<play, now, offset, thread, spare, timer, check, sleepers, pending, fired>>

(* TimerManager::tick.                                                     *)
Due == {at \in Time : at <= now /\ events[at] # << >>}
DuePids ==
    LET upto[at \in -1 .. MaxTime] ==
            IF at = -1 THEN << >> ELSE upto[at - 1] \o (IF at \in Due THEN events[at] ELSE << >>)
    IN upto[MaxTime]
Tick(c) ==
    /\ check[c].at = "idle" /\ (Due # {} \/ \E i \in TimerIds : timer[i] # NoTimer)
    /\ check' = [check EXCEPT ![c] =
                    [at |-> "posix",
                     items |-> [i \in DOMAIN DuePids |->
                                   [notify |-> "signal", pid |-> DuePids[i], target |-> 0,
                                    arm |-> armed[DuePids[i]]]]]]
    /\ events' = [at \in Time |-> IF at \in Due THEN << >> ELSE events[at]]
    /\ pidMap' = [p \in Tid |-> IF p \in Range(DuePids) THEN 0 ELSE pidMap[p]]
    /\ UNCHANGED <<play, now, offset, thread, spare, timer, sleepers, pending, serial, armed,
                   fired, dropped, ops>>

-----------------------------------------------------------------------------
(* sys_timer_create, add_posix_timer: not armed yet.  SIGEV_THREAD_ID may  *)
(* name any thread of the process.                                         *)
TimerCreate(t, c, notify, target) ==
    LET fresh == {i \in TimerIds : timer[i] = NoTimer}
        p == thread[t].pid
    IN /\ thread[t].st = "run" /\ Call("posix") /\ fresh # {}
       /\ notify = "thread" => target \in Group(p)
       /\ timer' = [timer EXCEPT ![Min(fresh)] =
                       [pid |-> p, clock |-> c, notify |-> notify, target |-> target, expires |-> -1,
                        interval |-> 0, arm |-> 0]]
       /\ UNCHANGED <<play, now, offset, thread, spare, events, pidMap, check, sleepers, pending,
                      serial, armed, fired, dropped>>

\* The arming that ends when this timer is set again or removed.
OneShot(r) == IF r # NoTimer /\ r.expires # -1 /\ r.interval = 0 THEN {r.arm} ELSE {}

(* sys_timer_settime, set_posix_timer: the owner alone, absolute or not.   *)
TimerSettime(t, i, v, interval, absolute) ==
    LET r == timer[i]
        at == IF absolute THEN v ELSE Clock(r.clock) + v
    IN /\ thread[t].st = "run" /\ Call("posix")
       /\ IF r # NoTimer /\ r.pid = thread[t].pid
          THEN /\ timer' = [timer EXCEPT ![i] = [r EXCEPT !.interval = interval, !.arm = serial,
                                                           !.expires = IF v = 0 THEN -1 ELSE at]]
               /\ dropped' = dropped \cup OneShot(r) \cup (IF v = 0 \/ interval # 0 THEN {serial} ELSE {})
               /\ serial' = serial + 1
          ELSE UNCHANGED <<timer, dropped, serial>>
       /\ UNCHANGED <<play, now, offset, thread, spare, events, pidMap, check, sleepers, pending,
                      armed, fired>>
TimerDelete(t, i) ==
    /\ thread[t].st = "run" /\ Call("posix")
    /\ IF timer[i] # NoTimer /\ timer[i].pid = thread[t].pid
       THEN timer' = [timer EXCEPT ![i] = NoTimer] /\ dropped' = dropped \cup OneShot(timer[i])
       ELSE UNCHANGED <<timer, dropped>>
    /\ UNCHANGED <<play, now, offset, thread, spare, events, pidMap, check, sleepers, pending,
                   serial, armed, fired>>

(* check_posix_timers, first half: what has expired is copied, a timer     *)
(* that repeats moves to its next moment after now, another is disarmed.   *)
Expired(r) == r # NoTimer /\ r.expires # -1 /\ r.expires <= Clock(r.clock)
NextExpiry(r) ==
    IF r.interval = 0 THEN -1
    ELSE r.expires + ((Clock(r.clock) - r.expires) \div r.interval + 1) * r.interval
CollectPosix(c) ==
    LET hit == {i \in TimerIds : Expired(timer[i])}
        order == SetToSeq(hit)
    IN /\ check[c].at = "posix"
       /\ check' = [check EXCEPT ![c] =
                       [at |-> "deliver",
                        items |-> [n \in DOMAIN order |->
                                      LET r == timer[order[n]] IN
                                      [notify |-> r.notify, pid |-> r.pid, target |-> r.target,
                                       arm |-> IF r.interval = 0 THEN r.arm ELSE 0]] \o @.items]]
       /\ timer' = [i \in TimerIds |-> IF i \in hit THEN [timer[i] EXCEPT !.expires = NextExpiry(timer[i])] ELSE timer[i]]
       /\ UNCHANGED <<play, now, offset, thread, spare, events, pidMap, sleepers, pending, serial,
                      armed, fired, dropped, ops>>

(* Second half, and the end of check_timers: the owner is looked up by its *)
(* number; queue_timer_signal sets the signal pending for each of its      *)
(* threads and wakes one that sleeps.                                      *)
Receivers(item) ==
    CASE item.notify = "none" -> {}
      [] item.notify = "thread" -> {t \in {item.target} : Live(t)}
      [] item.notify = "signal" -> Group(item.pid)
Deliver(c) ==
    /\ check[c].at = "deliver"
    /\ IF check[c].items = << >>
       THEN check' = [check EXCEPT ![c] = Quiet] /\ UNCHANGED <<thread, pending, fired>>
       ELSE LET item == Head(check[c].items)
                to == Receivers(item)
            IN /\ check' = [check EXCEPT ![c].items = Tail(@)]
               /\ pending' = pending \cup to
               /\ thread' = [t \in Tid |-> IF t \in to /\ thread[t].st = "sleep"
                                            THEN [thread[t] EXCEPT !.st = "check"] ELSE thread[t]]
               /\ fired' = [fired EXCEPT ![item.arm] = @ + 1]
    /\ UNCHANGED <<play, now, offset, spare, events, pidMap, timer, sleepers, serial, armed,
                   dropped, ops>>

-----------------------------------------------------------------------------
(* nanosleep_impl: each time round the loop the deadline and the pending   *)
(* signals are looked at; sleep_current_until then marks the thread        *)
(* blocked and registers it.  A thread that leaves early keeps its entry.  *)
Nanosleep(t, d) ==
    /\ thread[t].st = "run" /\ Call("sleep") /\ now + d \in Time
    /\ thread' = [thread EXCEPT ![t].st = "check", ![t].until = now + d]
    /\ UNCHANGED <<play, now, offset, spare, events, pidMap, timer, check, sleepers, pending,
                   serial, armed, fired, dropped>>
SleepLook(t) ==
    /\ thread[t].st = "check"
    /\ thread' = [thread EXCEPT ![t].st = IF now >= thread[t].until \/ t \in pending THEN "run" ELSE "block"]
    /\ UNCHANGED <<play, now, offset, spare, events, pidMap, timer, check, sleepers, pending,
                   serial, armed, fired, dropped, ops>>

\* Mutant: the thread is registered before it is marked blocked.
RegisterFirst(t) ==
    /\ thread[t].st \in {"block", "registered"}
    /\ thread' = [thread EXCEPT ![t].st = IF @ = "block" THEN "registered" ELSE "sleep"]
    /\ sleepers' = IF thread[t].st = "block" THEN [sleepers EXCEPT ![t] = thread[t].until] ELSE sleepers
    /\ UNCHANGED <<play, now, offset, spare, events, pidMap, timer, check, pending, serial, armed,
                   fired, dropped, ops>>
SleepCurrentUntil(t) ==
    /\ thread[t].st = "block"
    /\ thread' = [thread EXCEPT ![t].st = "sleep"]
    /\ sleepers' = [sleepers EXCEPT ![t] = thread[t].until]
    /\ UNCHANGED <<play, now, offset, spare, events, pidMap, timer, check, pending, serial, armed,
                   fired, dropped, ops>>

(* wake_expired_sleep_tasks, from the timer interrupt.                     *)
WakeExpired ==
    LET hit == {t \in Tid : sleepers[t] # 0 /\ sleepers[t] <= now}
    IN /\ hit # {}
       /\ sleepers' = [t \in Tid |-> IF t \in hit THEN 0 ELSE sleepers[t]]
       /\ thread' = [t \in Tid |-> IF t \in hit /\ thread[t].st = "sleep"
                                    THEN [thread[t] EXCEPT !.st = "check"] ELSE thread[t]]
       /\ UNCHANGED <<play, now, offset, spare, events, pidMap, timer, check, pending, serial,
                      armed, fired, dropped, ops>>

(* The return to the user takes the pending signal.                        *)
TakeSignal(t) ==
    /\ thread[t].st = "run" /\ t \in pending
    /\ pending' = pending \ {t}
    /\ UNCHANGED <<play, now, offset, thread, spare, events, pidMap, timer, check, sleepers,
                   serial, armed, fired, dropped, ops>>

-----------------------------------------------------------------------------
(* fork and clone take the identifier given back last.                     *)
Clone(t, newProcess) ==
    LET new == Head(spare)
    IN /\ thread[t].st = "run" /\ spare # << >> /\ Call("clone")
       /\ thread' = [thread EXCEPT ![new] =
                        [st |-> "run", pid |-> IF newProcess THEN new ELSE thread[t].pid,
                         until |-> 0]]
       /\ spare' = Tail(spare)
       /\ UNCHANGED <<play, now, offset, events, pidMap, timer, check, sleepers, pending, serial,
                      dropped, armed, fired>>

(* sys_exit and exit_current_and_run_next: every thread that exits cancels *)
(* the alarm of its process, the last one removes the timers too.  The     *)
(* first process does not end, and a leader leaves last.                   *)
Exit(t) ==
    LET p == thread[t].pid
        last == Group(p) = {t}
        mine == {i \in TimerIds : timer[i] # NoTimer /\ timer[i].pid = p}
    IN /\ thread[t].st = "run" /\ t # 1 /\ (t = p => last) /\ Call("exit")
       /\ CancelAlarm(p)
       /\ timer' = IF last THEN [i \in TimerIds |-> IF i \in mine THEN NoTimer ELSE timer[i]] ELSE timer
       /\ dropped' = dropped \cup GivenUp(p) \cup (IF last THEN UNION {OneShot(timer[i]) : i \in mine} ELSE {})
       /\ thread' = [thread EXCEPT ![t].st = "dead"]
       /\ pending' = pending \ {t}
       /\ UNCHANGED <<play, now, offset, spare, check, sleepers, serial, armed, fired>>

(* The identifier is given back with the last reference to the thread; the *)
(* sleep queue holds one.                                                  *)
Recycle(t) ==
    /\ thread[t].st = "dead" /\ sleepers[t] = 0
    /\ thread' = [thread EXCEPT ![t] = Free]
    /\ spare' = <<t>> \o spare
    /\ UNCHANGED <<play, now, offset, events, pidMap, timer, check, sleepers, pending, serial,
                   armed, fired, dropped, ops>>

(* clock_settime moves the realtime clock; the monotonic one runs on.      *)
ClockSettime(o) ==
    /\ Call("clock") /\ offset # o
    /\ offset' = o
    /\ UNCHANGED <<play, now, thread, spare, events, pidMap, timer, check, sleepers, pending,
                   serial, armed, fired, dropped>>
Advance ==
    /\ now < MaxTime
    /\ now' = now + 1
    /\ UNCHANGED <<play, offset, thread, spare, events, pidMap, timer, check, sleepers, pending,
                   serial, armed, fired, dropped, ops>>

-----------------------------------------------------------------------------
TimersInit ==
    /\ play \in Plays
    /\ now = 0 /\ offset = 0 /\ serial = 2 /\ ops = 0
    /\ thread = [t \in Tid |-> IF t = 1 THEN [st |-> "run", pid |-> 1, until |-> 0] ELSE Free]
    /\ spare = [i \in 1 .. Tids - 1 |-> i + 1]
    /\ events = [at \in Time |-> << >>] /\ pidMap = [p \in Tid |-> 0]
    /\ timer = [i \in TimerIds |-> NoTimer]
    /\ check = [c \in Checker |-> Quiet]
    /\ sleepers = [t \in Tid |-> 0] /\ pending = {}
    /\ armed = [p \in Tid |-> 0]
    /\ fired = [s \in 0 .. MaxOps + 1 |-> 0] /\ dropped = {0, 1}

Sleeping(t) == SleepLook(t) \/ SleepCurrentUntil(t)
TimersNext ==
    \/ \E t \in Tid :
        \/ \E d \in Delays : SetAlarm(t, d) \/ (d # 0 /\ Nanosleep(t, d))
        \/ \E c \in {"realtime", "monotonic"}, n \in {"none", "signal", "thread"}, to \in Tid : TimerCreate(t, c, n, to)
        \/ \E i \in TimerIds, v \in Delays, int \in Intervals, abs \in BOOLEAN : TimerSettime(t, i, v, int, abs)
        \/ \E i \in TimerIds : TimerDelete(t, i)
        \/ Sleeping(t) \/ TakeSignal(t) \/ Exit(t) \/ Recycle(t)
        \/ \E new \in BOOLEAN : Clone(t, new)
    \/ \E c \in Checker : Tick(c) \/ CollectPosix(c) \/ Deliver(c)
    \/ \E o \in {0, 1, 2} : ClockSettime(o)
    \/ WakeExpired \/ Advance

TimersSpec == TimersInit /\ [][TimersNext]_timeVars

-----------------------------------------------------------------------------
Copies(s) ==
    LET held(c) == Cardinality({i \in DOMAIN check[c].items : check[c].items[i].arm = s})
        sum == MapThenSumSet(held, Checker)
    IN sum
Waiting(s) ==
      Cardinality({p \in Tid : pidMap[p] # 0 /\ armed[p] = s})
    + Cardinality({i \in TimerIds : s \in OneShot(timer[i])})

(* Every one-shot arming of an alarm or a timer is in exactly one place:   *)
(* it waits, it has been copied by one call of check_timers, it has been   *)
(* signalled once, or its owner gave it up (by arming again, deleting or   *)
(* exiting).  However many callers run check_timers at once, none is lost  *)
(* and none is delivered twice.                                            *)
ArmingsKept ==
    \A s \in 1 .. serial - 1 :
        Waiting(s) + Copies(s) + fired[s] + (IF s \in dropped THEN 1 ELSE 0) = 1

(* The two indexes of the TimerManager agree: a process is listed at one   *)
(* moment, once, and it is the moment its own entry names; and no entry or *)
(* POSIX timer belongs to a process that has ended.                        *)
IndexesAgree ==
    /\ \A p \in Tid, at \in Time :
          Cardinality({i \in DOMAIN events[at] : events[at][i] = p}) = (IF pidMap[p] = at /\ at # 0 THEN 1 ELSE 0)
    /\ \A p \in Tid : pidMap[p] # 0 => Live(p)
    /\ \A i \in TimerIds : timer[i] # NoTimer => Live(timer[i].pid)

(* A thread in nanosleep leaves it: while it sleeps it is registered for   *)
(* its own deadline, so an expiry between its last look at the clock and   *)
(* the switch is not lost, whatever signals wake it meanwhile.             *)
SleepEnds ==
    \A t \in Tid : thread[t].st = "sleep" => sleepers[t] = thread[t].until

(* All three.                                                              *)
TimersKept == ArmingsKept /\ IndexesAgree /\ SleepEnds
=============================================================================
