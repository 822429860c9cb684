------------------------------ MODULE MCFutex ------------------------------
(* A few threads on one or two futex words.                                 *)
EXTENDS Futex, TLC

CONSTANTS t1, t2, t3, k1, k2, b1, b2

TwoThreads == {t1, t2}
ThreeThreads == {t1, t2, t3}
Keys == {k1, k2}
Words == {0, 1}
TwoBits == {b1, b2}
Objects == 1 .. 5
One == {1}

Moving(waiters, callers) ==
    [waiters |-> waiters, callers |-> callers, keys |-> {k1, k2}, values |-> {0},
     bitsets |-> {Bits}, timeouts |-> {None}, moves |-> {1}, time |-> 0, signals |-> 1]

Timed ==
    [waiters |-> {t1, t2}, callers |-> {t1, t2}, keys |-> {k1}, values |-> {0, 1},
     bitsets |-> {Bits, {b1}}, timeouts |-> {None, 1}, moves |-> {}, time |-> 1, signals |-> 0]

\* Two waiters are requeued and signalled.
Moves == {Moving({t1, t2}, {t3})}

\* One waiter is, and words change under deadlines.
Both == {Moving({t1}, {t2}), Timed}

SwapBoth == {p @@ q : p \in Permutations(Key), q \in Permutations({t1, t2})}
=============================================================================
