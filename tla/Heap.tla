---------------------------------- MODULE Heap ----------------------------------
(***************************************************************************)
(* The heap that timers wait in: heap-inl.h, a complete binary tree of     *)
(* nodes that point to their children and their parent.  heap_insert and   *)
(* heap_remove find the end of the bottom row by the bits of nelts and     *)
(* then exchange nodes, not keys, since a node is part of its timer.       *)
(*                                                                         *)
(* Timer takes the heap as the set of started timers and heap_min as the   *)
(* least of them; the properties here say that it may.                     *)
(***************************************************************************)
EXTENDS Integers, Sequences, SequencesExt, FiniteSets

CONSTANT MaxNodes     \* bound: nodes, which less_than orders by their numbers

VARIABLE tree

Nodes == 1..MaxNodes
NULL == 0

\* heap_init; in are the nodes inserted and not removed (history).  What a node that is not in
\* the heap points to is never read, and NULL here.
Init == tree =
    [min |-> NULL, nelts |-> 0, left |-> [n \in Nodes |-> NULL], right |-> [n \in Nodes |-> NULL],
     parent |-> [n \in Nodes |-> NULL], in |-> {}]

-----------------------------------------------------------------------------
(* Places: place 1 is heap->min, below place k are 2k on the left and 2k + 1 on the right *)

\* Mutant: the path is walked from its last turn to its first.
BitsBackwards(k) ==
    LET turn[n \in 1..k] == IF n = 1 THEN <<>> ELSE <<n % 2>> \o turn[n \div 2] IN turn[k]

\* The turns from the root to a place, as the loops over `path` compute and take them.
Bits(k) ==
    LET turn[n \in 1..k] == IF n = 1 THEN <<>> ELSE Append(turn[n \div 2], n % 2) IN turn[k]

\* The node that the turns lead to.
Follow(h, turns) ==
    FoldLeft(LAMBDA n, bit : IF n = NULL THEN NULL ELSE IF bit = 1 THEN h.right[n] ELSE h.left[n],
             h.min, turns)

\* *child = n or *max = NULL, the pointer at the end of the turns.
Put(h, turns, n) ==
    IF turns = <<>> THEN [h EXCEPT !.min = n]
    ELSE LET p == Follow(h, Front(turns))
         IN IF Last(turns) = 1 THEN [h EXCEPT !.right[p] = n] ELSE [h EXCEPT !.left[p] = n]

\* The pointer to a node that stood where p points up to: heap->min or one of its parent's.
Hang(h, up, old, new) ==
    CASE up = NULL -> [h EXCEPT !.min = new]
      [] up # NULL /\ h.left[up] = old -> [h EXCEPT !.left[up] = new]
      [] OTHER -> [h EXCEPT !.right[up] = new]

\* The parent of the nodes in S, but for NULL, is now p.
Under(h, S, p) == [h EXCEPT !.parent = [n \in Nodes |-> IF n \in S THEN p ELSE @[n]]]

\* Mutant: the other child of the parent keeps its old parent.
SiblingForgotten(h, p, c) ==
    LET onLeft == h.left[p] = c
        up == h.parent[p]
        below == {h.left[c], h.right[c]}
        g == [h EXCEPT !.left = [@ EXCEPT ![p] = h.left[c], ![c] = IF onLeft THEN p ELSE h.left[p]],
                       !.right = [@ EXCEPT ![p] = h.right[c], ![c] = IF onLeft THEN h.right[p] ELSE p]]
    IN Hang(Under(Under(Under(g, {p}, c), {c}, up), below, p), up, p, c)

\* heap_node_swap: p goes where its child c was.
Swap(h, p, c) ==
    LET onLeft == h.left[p] = c
        up == h.parent[p]
        sibling == IF onLeft THEN h.right[p] ELSE h.left[p]
        below == {h.left[c], h.right[c]}
        g == [h EXCEPT !.left = [@ EXCEPT ![p] = h.left[c], ![c] = IF onLeft THEN p ELSE sibling],
                       !.right = [@ EXCEPT ![p] = h.right[c], ![c] = IF onLeft THEN sibling ELSE p]]
    IN Hang(Under(Under(Under(g, {p, sibling}, c), {c}, up), below, p), up, p, c)

\* As many turns as a loop along a path can take.
Turns == [i \in Nodes |-> i]

\* while (n->parent != NULL && less_than(n, n->parent))
WalkUp(h, n) ==
    FoldLeft(LAMBDA g, i : IF g.parent[n] # NULL /\ n < g.parent[n] THEN Swap(g, g.parent[n], n) ELSE g,
             h, Turns)

\* The loop that exchanges a node with the smallest of its children.
WalkDown(h, n) ==
    LET Smallest(g) == CHOOSE m \in {n, g.left[n], g.right[n]} \ {NULL} :
                           \A k \in {n, g.left[n], g.right[n]} \ {NULL} : m <= k
    IN FoldLeft(LAMBDA g, i : IF Smallest(g) = n THEN g ELSE Swap(g, n, Smallest(g)), h, Turns)

-----------------------------------------------------------------------------
(* Operations *)

\* heap_insert
HeapInsert(n) ==
    /\ n \notin tree.in
    /\ LET turns == Bits(tree.nelts + 1)
           p == IF turns = <<>> THEN tree.min ELSE Follow(tree, Front(turns))
           h == [tree EXCEPT !.left[n] = NULL, !.right[n] = NULL, !.parent[n] = p,
                             !.nelts = @ + 1, !.in = @ \union {n}]
       IN tree' = WalkUp(Put(h, turns, n), n)

\* Mutant: the last node is taken for the greatest, so it can only be too far up.
OnlyDown(h, c) == WalkDown(h, c)

\* The node that took another's place, from another part of the tree, may be too far up or down.
BothWays(h, c) == WalkUp(WalkDown(h, c), c)

\* The node c, unlinked, takes the place of n.
Replaced(h, n, c) ==
    LET g == [h EXCEPT !.left[c] = h.left[n], !.right[c] = h.right[n], !.parent[c] = h.parent[n]]
    IN BothWays(Hang(Under(g, {h.left[n], h.right[n]}, c), h.parent[n], n, c), c)

\* heap_remove (and heap_dequeue, with heap->min for n).
HeapRemove(n) ==
    /\ n \in tree.in
    /\ LET turns == Bits(tree.nelts)
           c == Follow(tree, turns)
           h == Put([tree EXCEPT !.nelts = @ - 1, !.in = @ \ {n}], turns, NULL)
           g == IF c = n THEN h ELSE Replaced(h, n, c)
       IN tree' = [g EXCEPT !.left[n] = NULL, !.right[n] = NULL, !.parent[n] = NULL]

Next == \E n \in Nodes : HeapInsert(n) \/ HeapRemove(n)

Spec == Init /\ [][Next]_tree

-----------------------------------------------------------------------------
(* Properties *)

\* Every pointer is to a node or NULL; nelts is a count of them.
TypeOK ==
    /\ tree.min \in Nodes \union {NULL} /\ tree.nelts \in 0..MaxNodes /\ tree.in \subseteq Nodes
    /\ \A f \in {tree.left, tree.right, tree.parent} : f \in [Nodes -> Nodes \union {NULL}]

At(k) == Follow(tree, Bits(k))

\* The tree is complete: the places 1..nelts hold the inserted nodes, each once, no other place
\* holds one, and every node knows its parent.
CountsAreExact ==
    /\ tree.nelts = Cardinality(tree.in)
    /\ {At(k) : k \in 1..tree.nelts} = tree.in
    /\ \A n \in tree.in : n \notin {tree.left[n], tree.right[n], tree.parent[n]}
    /\ \A k \in tree.nelts + 1..2 * tree.nelts + 1 : At(k) = NULL
    /\ \A k \in 2..tree.nelts : tree.parent[At(k)] = At(k \div 2)
    /\ tree.min # NULL => tree.parent[tree.min] = NULL

\* No node is less than its parent, so heap_min is the least of all.
InOrder ==
    /\ \A n \in tree.in : tree.parent[n] # NULL => tree.parent[n] < n
    /\ \A n \in tree.in : tree.min <= n
=============================================================================
