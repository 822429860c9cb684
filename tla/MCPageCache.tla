----------------------------- MODULE MCPageCache -----------------------------
(* Two threads, two files of a page and two blocks.                        *)
EXTENDS PageCache, TLC

CONSTANTS p1, p2, f1, f2, b1, b2, o1, o2, o3, o4

Symmetry == Permutations({p1, p2}) \cup Permutations({f1, f2}) \cup Permutations({b1, b2})
            \cup Permutations({o1, o2, o3, o4})

Scene(ops, n) == [ops |-> ops, writes |-> n, full |-> FALSE]

\* Reading, writing and mapping; blocks that change hands; pages that go.
Mixes ==
    {Scene({"read", "write", "map", "sync"}, 1), Scene({"read", "write", "sync"}, 2),
     Scene({"write", "map"}, 2), Scene({"write", "truncate", "sync"}, 2),
     Scene({"map", "truncate"}, 1), Scene({"map", "evict"}, 1),
     Scene({"read", "truncate", "evict"}, 0),
     [Scene({"read", "write", "map"}, 1) EXCEPT !.full = TRUE]}

\* A read beside a truncation and a write that gets the freed block.
Reuse == {Scene({"read", "write", "truncate"}, 1)}
=============================================================================
