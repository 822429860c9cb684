------------------------------- MODULE MCPipe -------------------------------
(* A ring of two bytes between a writer and one or two readers.             *)
EXTENDS Pipe, TLC

CONSTANTS r1, r2, w1

BothReaders == {r1, r2}
Writers == {w1}

\* A signal meets long writes; an end closes; two readers share the data.
Scenes ==
    {[threads |-> {r1, w1}, reads |-> {1, 2}, writes |-> {3}, close |-> FALSE, signals |-> 1],
     [threads |-> {r1, w1}, reads |-> {1, 2}, writes |-> {1, 3}, close |-> TRUE, signals |-> 0],
     [threads |-> {r1, r2, w1}, reads |-> {1}, writes |-> {2}, close |-> FALSE, signals |-> 0]}
=============================================================================
