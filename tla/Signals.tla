------------------------------ MODULE Signals -------------------------------
(***************************************************************************)
(* Signals of one thread group (process/signal, syscall/process.rs):       *)
(* sending, blocking, waiting with rt_sigsuspend and rt_sigtimedwait,      *)
(* delivery on the way back to user mode and sigreturn.                    *)
(*                                                                         *)
(* A thread's own pending set, mask and saved masks are under its lock,    *)
(* the shared pending set is under the lock of the group's Signal, which a *)
(* delivery takes twice: to look and to take.                              *)
(***************************************************************************)
EXTENDS Integers, Sequences, FiniteSets, FiniteSetsExt, SequencesExt

CONSTANTS
    Member,      \* the threads of the group
    Sig,         \* signal numbers, without SIGKILL and SIGSTOP
    HandlerMask, \* what a handler blocks besides its own signal
    Sender,
    Groups       \* what a behaviour uses: threads, signals, the dispositions they
                 \* have, the system calls, and bounds on calls and on sends

VARIABLES
    group,       \* the member of Groups this behaviour uses
    shared,      \* signals pending for the group
    pending,     \* signals pending for a thread
    blocked,     \* signal mask
    saved,       \* sigsuspend_saved_mask, or Unsaved
    frames,      \* masks in the signal frames on the thread's stack
    disposition, \* "dfl" (terminates), "ignored" (SIG_IGN), "quiet" (ignored by
                 \* default), "handler" or "nodefer"
    term,        \* threads with term_signal set
    mode,        \* what each thread is doing
    tstate,      \* "running", "saving" or "blocked"
    wakeup,      \* threads with wake_pending
    send,        \* what each sender has still to do
    want,        \* history: masks a thread asked for, one per handler it is in
    sent,        \* how often a signal was sent to the group
    done

sigvars == <<group, shared, pending, blocked, saved, frames, disposition, term, mode, tstate,
             wakeup, send, want, sent, done>>

Unsaved == {0}   \* Option::None; signals are numbered from 1
Ready == [todo |-> {}, force |-> FALSE]

Raw(t) == pending[t] \cup shared
Deliverable(t) == Raw(t) \ blocked[t]

Is(t, pc) == mode[t].pc = pc

Calls(t) ==
    /\ Is(t, "user")
    /\ done < group.calls
    /\ done' = done + 1

---------------------------------------------------------------------------
(* Sending *)

\* kill: the signal is made pending for the group, then every thread is
\* visited; one whose default action terminates marks them all.
Kill(k, s) ==
    /\ send[k] = Ready
    /\ sent[s] < group.sends
    /\ sent' = [sent EXCEPT ![s] = @ + 1]
    /\ shared' = shared \cup {s}
    /\ send' = [send EXCEPT ![k] = [todo |-> group.members, force |-> disposition[s] = "dfl"]]
    /\ UNCHANGED <<group, pending, blocked, saved, frames, disposition, term, mode, tstate, wakeup,
                   want, done>>

\* tkill: no wake when the target blocks the signal.
Tkill(k, t, s) ==
    /\ send[k] = Ready
    /\ sent[s] < group.sends
    /\ sent' = [sent EXCEPT ![s] = @ + 1]
    /\ pending' = [pending EXCEPT ![t] = @ \cup {s}]
    /\ send' = [send EXCEPT ![k].todo = IF s \in blocked[t] THEN {} ELSE {t}]
    /\ UNCHANGED <<group, shared, blocked, saved, frames, disposition, term, mode, tstate, wakeup,
                   want, done>>

\* Mark one thread and wake it (wake_up_task).
Visit(k) ==
    \E t \in send[k].todo :
        /\ send' = [send EXCEPT ![k] = IF @.todo = {t} THEN Ready ELSE [@ EXCEPT !.todo = @ \ {t}]]
        /\ term' = IF send[k].force THEN term \cup {t} ELSE term
        /\ tstate' = IF tstate[t] = "blocked" THEN [tstate EXCEPT ![t] = "running"] ELSE tstate
        /\ wakeup' = IF tstate[t] = "saving" THEN wakeup \cup {t} ELSE wakeup
        /\ UNCHANGED <<group, shared, pending, blocked, saved, frames, disposition, mode, want,
                       sent, done>>

---------------------------------------------------------------------------
(* Delivery *)

Trap(t) ==
    /\ Is(t, "user")
    /\ Deliverable(t) # {} \/ t \in term
    /\ mode' = [mode EXCEPT ![t] = [pc |-> "return"]]
    /\ UNCHANGED <<group, shared, pending, blocked, saved, frames, disposition, term, tstate,
                   wakeup, send, want, sent, done>>

\* handle_signals, first half: choose the lowest signal that is not blocked;
\* without one, the mask of an rt_sigsuspend is put back.
HandleSignals(t) ==
    /\ Is(t, "return")
    /\ IF Deliverable(t) = {}
       THEN /\ mode' = [mode EXCEPT ![t] = [pc |-> "leave"]]
            /\ blocked' = IF saved[t] = Unsaved THEN blocked ELSE [blocked EXCEPT ![t] = saved[t]]
            /\ saved' = [saved EXCEPT ![t] = Unsaved]
       ELSE /\ mode' = [mode EXCEPT ![t] = [pc |-> "chosen", sig |-> Min(Deliverable(t))]]
            /\ UNCHANGED <<blocked, saved>>
    /\ UNCHANGED <<group, shared, pending, frames, disposition, term, tstate, wakeup, send, want,
                   sent, done>>

\* Second half and call_signal_handler: the signal is taken from the thread's
\* own set if it is there and from the group's otherwise, and acted upon.
Taken(t, s) ==
    IF s \in pending[t]
    THEN /\ pending' = [pending EXCEPT ![t] = @ \ {s}]
         /\ UNCHANGED shared
    ELSE /\ shared' = shared \ {s}
         /\ UNCHANGED pending

CallSignalHandler(t) ==
    LET s == mode[t].sig
        how == disposition[s]
        back == IF saved[t] = Unsaved THEN blocked[t] ELSE saved[t]
        during == blocked[t] \cup HandlerMask \cup (IF how = "nodefer" THEN {} ELSE {s})
    IN  /\ Is(t, "chosen")
        /\ Taken(t, s)
        /\ saved' = [saved EXCEPT ![t] = Unsaved]
        /\ \/ /\ how \in {"handler", "nodefer"}
              /\ frames' = [frames EXCEPT ![t] = Append(@, back)]
              /\ blocked' = [blocked EXCEPT ![t] = during]
              /\ want' = [want EXCEPT ![t] = Append(@, during)]
              /\ UNCHANGED term
           \/ /\ how \in {"ignored", "quiet", "dfl"}
              /\ blocked' = [blocked EXCEPT ![t] = back]
              /\ term' = IF how = "dfl" THEN term \cup {t} ELSE term
              /\ UNCHANGED <<frames, want>>
        /\ mode' = [mode EXCEPT ![t] = [pc |-> "leave"]]
        /\ UNCHANGED <<group, disposition, tstate, wakeup, send, sent, done>>

\* trap_return: a marked thread exits instead.
TrapReturn(t) ==
    /\ Is(t, "leave")
    /\ mode' = [mode EXCEPT ![t] = [pc |-> IF t \in term THEN "dead" ELSE "user"]]
    /\ UNCHANGED <<group, shared, pending, blocked, saved, frames, disposition, term, tstate,
                   wakeup, send, want, sent, done>>

\* sigreturn takes the mask from the frame; the backups go with it.
Sigreturn(t) ==
    /\ Is(t, "user")
    /\ frames[t] # <<>>
    /\ blocked' = [blocked EXCEPT ![t] = Last(frames[t])]
    /\ frames' = [frames EXCEPT ![t] = Front(@)]
    /\ want' = [want EXCEPT ![t] = Front(@)]
    /\ mode' = [mode EXCEPT ![t] = [pc |-> "return"]]
    /\ UNCHANGED <<group, shared, pending, saved, disposition, term, tstate, wakeup, send, sent,
                   done>>

---------------------------------------------------------------------------
(* Masks, dispositions and waiting *)

Sigprocmask(t, m) ==
    /\ "mask" \in group.does
    /\ Calls(t)
    /\ blocked' = [blocked EXCEPT ![t] = m]
    /\ want' = [want EXCEPT ![t] = Append(Front(@), m)]
    /\ mode' = [mode EXCEPT ![t] = [pc |-> "return"]]
    /\ UNCHANGED <<group, shared, pending, saved, frames, disposition, term, tstate, wakeup, send,
                   sent>>

Sigaction(t, s, how) ==
    /\ "action" \in group.does
    /\ Calls(t)
    /\ how # disposition[s]
    /\ disposition' = [disposition EXCEPT ![s] = how]
    /\ mode' = [mode EXCEPT ![t] = [pc |-> "return"]]
    /\ UNCHANGED <<group, shared, pending, blocked, saved, frames, term, tstate, wakeup, send,
                   want, sent>>

Sigsuspend(t, m) ==
    /\ "suspend" \in group.does
    /\ Calls(t)
    /\ blocked' = [blocked EXCEPT ![t] = m]
    /\ mode' = [mode EXCEPT ![t] = [pc |-> "suspend", mask |-> blocked[t]]]
    /\ UNCHANGED <<group, shared, pending, saved, frames, disposition, term, tstate, wakeup, send,
                   want, sent>>

\* Mutant: a signal ends the suspension without the old mask being kept.
SuspendCheckForgets(t) ==
    /\ Is(t, "suspend")
    /\ tstate[t] = "running"
    /\ IF Deliverable(t) = {}
       THEN /\ tstate' = [tstate EXCEPT ![t] = "saving"]
            /\ wakeup' = wakeup \ {t}
            /\ UNCHANGED mode
       ELSE /\ mode' = [mode EXCEPT ![t] = [pc |-> "return"]]
            /\ UNCHANGED <<tstate, wakeup>>
    /\ UNCHANGED <<group, shared, pending, blocked, saved, frames, disposition, term, send, want,
                   sent, done>>

\* The test for a signal and the change to BlockSaving are under the
\* thread's lock.
SuspendCheck(t) ==
    /\ Is(t, "suspend")
    /\ tstate[t] = "running"
    /\ IF Deliverable(t) = {}
       THEN /\ tstate' = [tstate EXCEPT ![t] = "saving"]
            /\ wakeup' = wakeup \ {t}
            /\ UNCHANGED <<saved, mode>>
       ELSE /\ saved' = [saved EXCEPT ![t] = mode[t].mask]
            /\ mode' = [mode EXCEPT ![t] = [pc |-> "return"]]
            /\ UNCHANGED <<tstate, wakeup>>
    /\ UNCHANGED <<group, shared, pending, blocked, frames, disposition, term, send, want, sent,
                   done>>

Schedule(t) ==
    /\ tstate[t] = "saving"
    /\ tstate' = [tstate EXCEPT ![t] = IF t \in wakeup THEN "running" ELSE "blocked"]
    /\ UNCHANGED <<group, shared, pending, blocked, saved, frames, disposition, term, mode, wakeup,
                   send, want, sent, done>>

\* rt_sigtimedwait: look at both sets, under one lock after the other, then
\* take the signal; it yields between attempts.
Sigtimedwait(t, set) ==
    /\ "wait" \in group.does
    /\ Calls(t)
    /\ mode' = [mode EXCEPT ![t] = [pc |-> "wait", set |-> set]]
    /\ UNCHANGED <<group, shared, pending, blocked, saved, frames, disposition, term, tstate,
                   wakeup, send, want, sent>>

WaitLook(t) ==
    LET hit == Raw(t) \cap mode[t].set
    IN  /\ Is(t, "wait")
        /\ \/ /\ hit # {}
              /\ mode' = [mode EXCEPT ![t] = [pc |-> "waited", sig |-> Min(hit)]]
           \/ /\ hit = {}
              /\ mode' = [mode EXCEPT ![t] = [pc |-> "return"]]   \* EINTR or timeout
        /\ UNCHANGED <<group, shared, pending, blocked, saved, frames, disposition, term, tstate,
                       wakeup, send, want, sent, done>>

WaitTake(t) ==
    /\ Is(t, "waited")
    /\ Taken(t, mode[t].sig)
    /\ mode' = [mode EXCEPT ![t] = [pc |-> "return"]]
    /\ UNCHANGED <<group, blocked, saved, frames, disposition, term, tstate, wakeup, send, want,
                   sent, done>>

---------------------------------------------------------------------------
SigInit ==
    /\ group \in Groups
    /\ shared = {}
    /\ pending = [t \in Member |-> {}]
    /\ blocked = [t \in Member |-> {}]
    /\ saved = [t \in Member |-> Unsaved]
    /\ frames = [t \in Member |-> <<>>]
    /\ disposition \in [Sig -> group.actions]
    /\ term = {}
    /\ mode = [t \in Member |-> [pc |-> "user"]]
    /\ tstate = [t \in Member |-> "running"]
    /\ wakeup = {}
    /\ send = [k \in Sender |-> Ready]
    /\ want = [t \in Member |-> <<{}>>]
    /\ sent = [s \in Sig |-> 0]
    /\ done = 0

KernelStep(t) ==
    \/ Trap(t) \/ HandleSignals(t) \/ CallSignalHandler(t) \/ TrapReturn(t)
    \/ SuspendCheck(t) \/ Schedule(t) \/ WaitLook(t) \/ WaitTake(t)

SigNext ==
    \/ \E t \in group.members :
         \/ KernelStep(t) \/ Sigreturn(t)
         \/ \E m \in group.masks : Sigprocmask(t, m) \/ Sigsuspend(t, m) \/ Sigtimedwait(t, m)
         \/ \E s \in group.sigs, how \in group.actions : Sigaction(t, s, how)
    \/ \E k \in Sender :
         \/ Visit(k)
         \/ \E s \in group.sigs : Kill(k, s) \/ \E t \in group.members : Tkill(k, t, s)

SigSpec == SigInit /\ [][SigNext]_sigvars

---------------------------------------------------------------------------
\* In user mode a thread's mask is the one it asked for at the level of
\* handlers it is in: an rt_sigsuspend's temporary mask is gone, whichever
\* signal ended it, and every handler puts back what it interrupted.
MaskRestored ==
    \A t \in Member : Is(t, "user") =>
        /\ blocked[t] = Last(want[t])
        /\ Len(frames[t]) = Len(want[t]) - 1

\* A thread in rt_sigsuspend with a signal it does not block gets out: when
\* it sleeps or is about to, a sender has yet to visit it or has left a wake.
SuspendEnds ==
    \A t \in Member : Is(t, "suspend") /\ tstate[t] # "running" /\ Deliverable(t) # {} =>
        \/ tstate[t] = "saving" /\ t \in wakeup
        \/ \E k \in Sender : t \in send[k].todo

\* Both: masks come back, and a signal cannot slip between the test for it
\* and the sleep.
SignalsKept == MaskRestored /\ SuspendEnds
=============================================================================
