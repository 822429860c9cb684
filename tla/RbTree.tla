------------------------------- MODULE RbTree -------------------------------
(***************************************************************************)
(* RbRootCached (process/scheduler/rbtree.rs), the red-black tree in an    *)
(* arena that holds the CFS and deadline queues.  Nodes are slots of a     *)
(* vector, 0 stands for None.  The code writes every case of the two       *)
(* repairs twice, once for each side; here the side is a parameter.        *)
(***************************************************************************)
EXTENDS Integers, Sequences, FiniteSets

CONSTANTS Keys,      \* the keys that are inserted, each at most once at a time
          MaxRemoves \* bound on the number of removals

VARIABLES tree,      \* root, leftmost, the arena, the free slots and the length
          held,      \* history: the keys that should be in the tree
          removes

rbVars == <<tree, held, removes>>

Nil == [key |-> 0, parent |-> 0, left |-> 0, right |-> 0, color |-> "none"]
Other(side) == IF side = "left" THEN "right" ELSE "left"
Color(T, i) == IF i = 0 THEN "black" ELSE T.nodes[i].color
Child(T, i, side) == IF i = 0 THEN 0 ELSE T.nodes[i][side]
SetColor(T, i, c) == IF i = 0 THEN T ELSE [T EXCEPT !.nodes[i].color = c]
SetParent(T, i, p) == IF i = 0 THEN T ELSE [T EXCEPT !.nodes[i].parent = p]

RECURSIVE Minimum(_, _)
Minimum(T, i) == IF T.nodes[i].left = 0 THEN i ELSE Minimum(T, T.nodes[i].left)

(* The parent of old, or the root, is made to point to new.                *)
Relink(T, old, new) ==
    LET p == T.nodes[old].parent
    IN IF p = 0 THEN [T EXCEPT !.root = new]
       ELSE [T EXCEPT !.nodes[p][IF T.nodes[p].left = old THEN "left" ELSE "right"] = new]
Transplant(T, node, replacement) ==
    SetParent(Relink(T, node, replacement), replacement, T.nodes[node].parent)

(* rotate_left and rotate_right: the child on the other side comes up.     *)
Rotate(T, node, side) ==
    LET pivot == T.nodes[node][Other(side)]
        inner == T.nodes[pivot][side]
        moved == SetParent([T EXCEPT !.nodes[node][Other(side)] = inner], inner, node)
        up == SetParent(Relink(moved, node, pivot), pivot, T.nodes[node].parent)
    IN [up EXCEPT !.nodes[pivot][side] = node, !.nodes[node].parent = pivot]

RECURSIVE InsertFixup(_, _)
InsertFixup(T, node) ==
    LET parent == T.nodes[node].parent
    IN IF Color(T, parent) = "black" THEN SetColor(T, T.root, "black")
       ELSE LET grandparent == T.nodes[parent].parent
                side == IF T.nodes[grandparent].left = parent THEN "left" ELSE "right"
                uncle == T.nodes[grandparent][Other(side)]
            IN IF Color(T, uncle) = "red"
               THEN InsertFixup(SetColor(SetColor(SetColor(T, parent, "black"), uncle, "black"), grandparent, "red"),
                                grandparent)
               ELSE LET bent == T.nodes[parent][Other(side)] = node
                        T1 == IF bent THEN Rotate(T, parent, side) ELSE T
                        low == IF bent THEN parent ELSE node
                        mid == T1.nodes[low].parent
                        top == T1.nodes[mid].parent
                    IN InsertFixup(Rotate(SetColor(SetColor(T1, mid, "black"), top, "red"), top, Other(side)), low)

RECURSIVE Descend(_, _)
Descend(T, path) ==   \* path = <<where the key is looked for, key>>; the last node on the way
    LET n == T.nodes[path[1]]
        next == IF path[2] < n.key THEN n.left ELSE n.right
    IN IF next = 0 THEN path[1] ELSE Descend(T, <<next, path[2]>>)

(* insert.  A freed slot is used again before the arena grows.             *)
Inserted(T, key) ==
    LET parent == IF T.root = 0 THEN 0 ELSE Descend(T, <<T.root, key>>)
        reuse == T.free # << >>
        index == IF reuse THEN T.free[Len(T.free)] ELSE Len(T.nodes) + 1
        node == [key |-> key, parent |-> parent, left |-> 0, right |-> 0, color |-> "red"]
        placed == [T EXCEPT !.nodes = IF reuse THEN [@ EXCEPT ![index] = node] ELSE Append(@, node),
                            !.free = IF reuse THEN SubSeq(@, 1, Len(@) - 1) ELSE @,
                            !.leftmost = IF @ = 0 \/ key < T.nodes[@].key THEN index ELSE @,
                            !.len = @ + 1]
        linked == IF parent = 0 THEN [placed EXCEPT !.root = index]
                  ELSE [placed EXCEPT !.nodes[parent][IF key < T.nodes[parent].key THEN "left" ELSE "right"] = index]
    IN InsertFixup(linked, index)

-----------------------------------------------------------------------------
(* delete_fixup: node may be an empty leaf, so its parent is passed too.   *)
RECURSIVE DeleteFixup(_, _, _)
DeleteFixup(T, node, parent) ==
    IF node = T.root \/ Color(T, node) = "red" \/ parent = 0 THEN SetColor(T, node, "black")
    ELSE LET side == IF node = T.nodes[parent].left THEN "left" ELSE "right"
             far == Other(side)
             first == T.nodes[parent][far]
             T1 == IF Color(T, first) = "red"
                   THEN Rotate(SetColor(SetColor(T, first, "black"), parent, "red"), parent, side) ELSE T
             sibling == T1.nodes[parent][far]
         IN IF Color(T1, Child(T1, sibling, side)) = "black" /\ Color(T1, Child(T1, sibling, far)) = "black"
            THEN DeleteFixup(SetColor(T1, sibling, "red"), parent, T1.nodes[parent].parent)
            ELSE LET near == Color(T1, Child(T1, sibling, far)) = "black"
                     T2 == IF near THEN Rotate(SetColor(SetColor(T1, Child(T1, sibling, side), "black"), sibling, "red"),
                                               sibling, far)
                           ELSE T1
                     last == T2.nodes[parent][far]
                     T3 == SetColor(SetColor(SetColor(T2, last, Color(T2, parent)), parent, "black"),
                                    Child(T2, last, far), "black")
                     T4 == Rotate(T3, parent, side)
                 IN SetColor(T4, T4.root, "black")

(* remove: a node with two children is replaced by its successor.          *)
Unlinked(T, target) ==
    LET n == T.nodes[target]
        lone == IF n.left = 0 THEN n.right ELSE n.left
        moved == Minimum(T, n.right)
        after == T.nodes[moved].right
        direct == T.nodes[moved].parent = target
        T1 == IF direct THEN SetParent(T, after, moved)
              ELSE LET freed == Transplant(T, moved, after)
                       right == freed.nodes[target].right
                   IN SetParent([freed EXCEPT !.nodes[moved].right = right], right, moved)
        T2 == Transplant(T1, target, moved)
        T3 == SetParent([T2 EXCEPT !.nodes[moved].left = T2.nodes[target].left], T2.nodes[target].left, moved)
    IN IF n.left = 0 \/ n.right = 0
       THEN [T |-> Transplant(T, target, lone), at |-> lone, parent |-> n.parent, color |-> n.color]
       ELSE [T |-> SetColor(T3, moved, n.color), at |-> after,
             parent |-> IF direct THEN moved ELSE T.nodes[moved].parent, color |-> T.nodes[moved].color]

\* Mutant: the leftmost node is not looked for again.
RemovedStale(T, key) ==
    LET target == CHOOSE i \in DOMAIN T.nodes : T.nodes[i].key = key
        U == Unlinked(T, target)
        cleared == [U.T EXCEPT !.nodes[target] = Nil, !.free = Append(@, target), !.len = @ - 1]
        L == [cleared EXCEPT !.leftmost = IF @ = target THEN U.at ELSE @]
    IN IF U.color = "black" THEN DeleteFixup(L, U.at, U.parent) ELSE L
Removed(T, key) ==
    LET target == CHOOSE i \in DOMAIN T.nodes : T.nodes[i].key = key
        U == Unlinked(T, target)
        cleared == [U.T EXCEPT !.nodes[target] = Nil, !.free = Append(@, target), !.len = @ - 1]
        L == [cleared EXCEPT !.leftmost = IF cleared.root = 0 THEN 0 ELSE Minimum(cleared, cleared.root)]
    IN IF U.color = "black" THEN DeleteFixup(L, U.at, U.parent) ELSE L

-----------------------------------------------------------------------------
Insert(key) ==
    /\ key \notin held
    /\ tree' = Inserted(tree, key)
    /\ held' = held \cup {key}
    /\ UNCHANGED removes
Remove(key) ==
    /\ removes < MaxRemoves /\ key \in held
    /\ tree' = Removed(tree, key)
    /\ held' = held \ {key}
    /\ removes' = removes + 1
PopFirst ==
    /\ removes < MaxRemoves /\ tree.leftmost # 0
    /\ LET key == tree.nodes[tree.leftmost].key
       IN /\ tree' = Removed(tree, key)
          /\ held' = held \ {key}
    /\ removes' = removes + 1

RbInit ==
    /\ tree = [root |-> 0, leftmost |-> 0, nodes |-> << >>, free |-> << >>, len |-> 0]
    /\ held = {} /\ removes = 0
RbNext == (\E key \in Keys : Insert(key) \/ Remove(key)) \/ PopFirst
RbSpec == RbInit /\ [][RbNext]_rbVars

-----------------------------------------------------------------------------
RECURSIVE InOrder(_, _)
InOrder(T, i) ==
    IF i = 0 THEN << >> ELSE InOrder(T, T.nodes[i].left) \o <<T.nodes[i].key>> \o InOrder(T, T.nodes[i].right)
RECURSIVE BlackHeights(_, _)
BlackHeights(T, i) ==
    IF i = 0 THEN {0}
    ELSE {h + (IF T.nodes[i].color = "black" THEN 1 ELSE 0) :
             h \in BlackHeights(T, T.nodes[i].left) \cup BlackHeights(T, T.nodes[i].right)}

(* After any sequence of insertions and removals the tree holds exactly    *)
(* the keys put in and not taken out, in order; first() is the least of    *)
(* them; no red node has a red child and every path to a leaf has as many  *)
(* black nodes; every node knows its parent; and a slot of the arena is    *)
(* either a node of the tree or free, once.                                *)
TreeExact ==
    LET order == InOrder(tree, tree.root)
        used == {i \in DOMAIN tree.nodes : tree.nodes[i] # Nil}
    IN /\ {order[i] : i \in DOMAIN order} = held /\ Len(order) = Cardinality(held) /\ tree.len = Len(order)
       /\ \A i, j \in DOMAIN order : i < j => order[i] < order[j]
       /\ IF held = {} THEN tree.leftmost = 0 ELSE tree.nodes[tree.leftmost].key = order[1]
       /\ Color(tree, tree.root) = "black" /\ Cardinality(BlackHeights(tree, tree.root)) = 1
       /\ \A i \in used, side \in {"left", "right"} :
             LET c == tree.nodes[i][side]
             IN c # 0 => /\ tree.nodes[c].parent = i
                         /\ ~ (tree.nodes[i].color = "red" /\ tree.nodes[c].color = "red")
       /\ Len(order) + Len(tree.free) = Len(tree.nodes)
       /\ used \cup {tree.free[i] : i \in DOMAIN tree.free} = DOMAIN tree.nodes
=============================================================================
