------------------------------- MODULE Queues -------------------------------
(***************************************************************************)
(* The intrusive queues of libuv (private/queue.h) as sequences.           *)
(* uv__queue_insert_tail is Append, uv__queue_head is Head, taking the     *)
(* head off is Tail, and uv__queue_move empties one queue into another.    *)
(***************************************************************************)
EXTENDS Integers, Sequences, Functions

\* uv__queue_remove: the element leaves the queue it is linked in.
Unlink(q, x) ==
    IF \E i \in 1..Len(q) : q[i] = x
    THEN LET i == CHOOSE i \in 1..Len(q) : q[i] = x
         IN SubSeq(q, 1, i - 1) \o SubSeq(q, i + 1, Len(q))
    ELSE q

\* The queue begins with what is in p.
Begins(q, p) == Len(p) <= Len(q) /\ p = SubSeq(q, 1, Len(p))

\* No element is linked twice.
Distinct(q) == \A i, j \in 1..Len(q) : q[i] = q[j] => i = j

\* What the elements of a queue have of f, together.
Total(q, f) ==
    LET upTo[i \in 0..Len(q)] == IF i = 0 THEN 0 ELSE upTo[i - 1] + f[q[i]]
    IN upTo[Len(q)]
=============================================================================
