------------------------------ MODULE FutexSpec ------------------------------
(***************************************************************************)
(* What the futex calls promise user space: one queue of waiters for each  *)
(* key, a wait that compares the word and joins the queue in one step, a   *)
(* wake that takes the longest waiters first, a requeue that moves them in *)
(* order, and a waiter that may leave for a deadline or a signal.  A       *)
(* waiter that a wake has taken is woken in the end.                       *)
(***************************************************************************)
EXTENDS Naturals, Sequences, SequencesExt

CONSTANTS Thread, Key, Value, Bits,
          MaxCount  \* the largest number a call asks to wake or to move

VARIABLES word,     \* the futex word of each key
          waiting,  \* the waiters of each key and their bitsets, the longest first
          asleep,   \* the threads off the CPU
          owed      \* taken by a wake that has not reached them yet

vars == <<word, waiting, asleep, owed>>

Init ==
    /\ word \in [Key -> Value]
    /\ waiting = [k \in Key |-> << >>]
    /\ asleep = {}
    /\ owed = {}

Waits(t) == \E k \in Key : \E i \in DOMAIN waiting[k] : waiting[k][i].thread = t

First(q, n) == SubSeq(q, 1, IF n < Len(q) THEN n ELSE Len(q))

Without(q, gone) == SelectSeq(q, LAMBDA w : w \notin Range(gone))

Threads(q) == {w.thread : w \in Range(q)}

Store(k, v) == word' = [word EXCEPT ![k] = v] /\ UNCHANGED <<waiting, asleep, owed>>

\* The waiter found the value it expects in the word.
Wait(t, k, v, b) ==
    /\ t \notin asleep /\ ~Waits(t)
    /\ word[k] = v
    /\ waiting' = [waiting EXCEPT ![k] = Append(@, [thread |-> t, val |-> v, bits |-> b])]
    /\ asleep' = asleep \cup {t}
    /\ UNCHANGED <<word, owed>>

Wake(k, n, b) ==
    LET taken == First(SelectSeq(waiting[k], LAMBDA w : w.bits \cap b # {}), n)
    IN  /\ waiting' = [waiting EXCEPT ![k] = Without(@, taken)]
        /\ owed' = owed \cup Threads(taken)
        /\ UNCHANGED <<word, asleep>>

Requeue(k, j, n, m) ==
    LET taken == First(waiting[k], n)
        rest  == Without(waiting[k], taken)
        moved == First(rest, m)
    IN  /\ waiting' = IF j = k THEN [waiting EXCEPT ![k] = rest]
                      ELSE [waiting EXCEPT ![k] = Without(rest, moved), ![j] = @ \o moved]
        /\ owed' = owed \cup Threads(taken)
        /\ UNCHANGED <<word, asleep>>

\* A wake reaches the thread, or a deadline or a signal does.
Rouse(t) ==
    /\ asleep' = asleep \ {t}
    /\ owed' \in {owed, owed \ {t}}
    /\ UNCHANGED <<word, waiting>>

\* A waiter nobody took leaves the queue it is in by now.
Leave(t) ==
    /\ t \notin asleep
    /\ waiting' = [k \in Key |-> SelectSeq(waiting[k], LAMBDA w : w.thread # t)]
    /\ UNCHANGED <<word, asleep, owed>>

Next ==
    \/ \E k \in Key, v \in Value : Store(k, v)
    \/ \E t \in Thread, k \in Key, v \in Value, b \in SUBSET Bits : Wait(t, k, v, b)
    \/ \E k \in Key, n \in 1 .. MaxCount, b \in SUBSET Bits : Wake(k, n, b)
    \/ \E k, j \in Key, n, m \in 0 .. MaxCount : Requeue(k, j, n, m)
    \/ \E t \in Thread : Rouse(t) \/ Leave(t)

Spec == Init /\ [][Next]_vars

\* A waiter that a wake has taken does not sleep on.
RouseOwed(t) == t \in owed /\ t \in asleep /\ Rouse(t)

FairSpec == Spec /\ \A t \in Thread : WF_vars(RouseOwed(t))
==============================================================================
