------------------------------ MODULE TaskLife ------------------------------
(***************************************************************************)
(* What the scheduler promises the rest of the kernel: going to sleep and  *)
(* being woken are each one step.  There is no window between them, a task *)
(* runs on at most one CPU, and a task whose event has been posted does    *)
(* not stay asleep.  Every blocking primitive is written against this      *)
(* interface; Scheduler shows how BlockSaving and wake_pending provide it. *)
(***************************************************************************)
CONSTANTS Task, Cpu, None

VARIABLES life,     \* "unborn", "ready", "running", "asleep" or "dead"
          running,  \* the task each CPU executes, or None
          event     \* what the task waits for has happened and is unconsumed

vars == <<life, running, event>>

Init ==
    /\ life \in [Task -> {"unborn", "ready"}]
    /\ running = [c \in Cpu |-> None]
    /\ event = [t \in Task |-> FALSE]

Becomes(t, from, to) == life[t] = from /\ life' = [life EXCEPT ![t] = to]

Spawn(t) == Becomes(t, "unborn", "ready") /\ UNCHANGED <<running, event>>

\* Never before the CPU that ran it last has let go of it.
Run(c, t) ==
    /\ running[c] = None
    /\ \A d \in Cpu : running[d] # t
    /\ Becomes(t, "ready", "running")
    /\ running' = [running EXCEPT ![c] = t]
    /\ UNCHANGED event

\* The CPU is handed back once the task's context is saved.
Leave(c) ==
    /\ running[c] # None
    /\ running' = [running EXCEPT ![c] = None]
    /\ UNCHANGED <<life, event>>

Yield(t) == Becomes(t, "running", "ready") /\ UNCHANGED <<running, event>>

Sleep(t) == Becomes(t, "running", "asleep") /\ UNCHANGED <<running, event>>

\* A task that announced a sleep looks again and goes on instead.
Resume(t) ==
    /\ event[t]
    /\ \E c \in Cpu : running[c] = t
    /\ Becomes(t, "asleep", "running") \/ Becomes(t, "ready", "running")
    /\ UNCHANGED <<running, event>>

Wake(t) == Becomes(t, "asleep", "ready") /\ UNCHANGED <<running, event>>

Post(t) == event' = [event EXCEPT ![t] = TRUE] /\ UNCHANGED <<life, running>>

Take(t) ==
    /\ life[t] = "running" /\ event[t]
    /\ event' = [event EXCEPT ![t] = FALSE]
    /\ UNCHANGED <<life, running>>

Exit(t) == Becomes(t, "running", "dead") /\ UNCHANGED <<running, event>>

Next ==
    \/ \E t \in Task : \/ Spawn(t) \/ Yield(t) \/ Sleep(t) \/ Resume(t)
                       \/ Wake(t) \/ Post(t) \/ Take(t) \/ Exit(t)
    \/ \E c \in Cpu : Leave(c) \/ \E t \in Task : Run(c, t)

Spec == Init /\ [][Next]_vars

\* A posted event gets the sleeper up.
WakeOwed(t) == event[t] /\ Wake(t)

FairSpec == Spec /\ \A t \in Task : WF_vars(WakeOwed(t))
=============================================================================
