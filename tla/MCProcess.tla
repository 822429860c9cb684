----------------------------- MODULE MCProcess -----------------------------
(* A few threads and the calls each of them makes.                          *)
EXTENDS Process

Four == 1 .. 4

\* Two generations of single-threaded processes; either may end first.
Families == <<{"fork", "waitid"}, {"fork", "wait4", "exit"}, {"exit"}, {"exit"}>>

\* A thread group that its parent waits for.
Threads ==
    <<{"fork", "wait4"}, {"clone", "exit"}, {"exec"}, {"exit_group"}>>

\* A thread group with a vfork that loses its parent.
Groups == <<{"fork"}, {"clone", "vfork"}, {"exit_group"}, {"exec", "exit"}>>

\* A thread waits for a child that does not end; another one executes.
Waiting == <<{"fork"}, {"clone", "fork", "wait4"}, {"exec"}, {}>>

SafetyPrograms == {Families, Threads, Groups}
WaitingProgram == {Waiting}
=============================================================================
