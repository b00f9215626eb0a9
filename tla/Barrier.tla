--------------------------------- MODULE Barrier ---------------------------------
(***************************************************************************)
(* Barriers: src/source/main/cpp/thread-common.c, as compiled where pthread *)
(* has none (Darwin, Windows): a mutex, a condition variable and two        *)
(* counters.  Each action is one stretch of a thread under the mutex.       *)
(***************************************************************************)
EXTENDS Integers, FiniteSets

CONSTANTS
    Workers,   \* the threads that meet at the barrier, barrier->threshold of them
    Rounds     \* bound: how often each of them comes to the barrier

VARIABLE bar

\* at says where a thread is: outside, asleep in the first wait ("drain") or the second
\* ("meet") or in uv_barrier_destroy ("ending"), or woken from one of them.  round counts the
\* returns of a thread; serial those of them that returned 1, for each round.
Init == bar =
    [in |-> 0, out |-> 0, at |-> [w \in Workers |-> "out"], destroyed |-> FALSE,
     round |-> [w \in Workers |-> 0], serial |-> [r \in 1..Rounds |-> 0]]

Threshold == Cardinality(Workers)

\* uv_cond_broadcast.
Woken(at) == [w \in Workers |-> CASE at[w] = "meet" -> "met"
                                  [] at[w] = "drain" -> "drained"
                                  [] at[w] = "ending" -> "ended"
                                  [] OTHER -> at[w]]

\* Mutant: a thread that comes while the last round is leaving is let in.
NobodyInside == bar.in = Threshold

\* The first loop of uv_barrier_wait waits while the last round is leaving.
Draining == bar.out # 0

\* The end of uv_barrier_wait, the mutex held: the last to leave returns 1, and wakes those
\* who wait for the next round or to destroy the barrier.
Left(b, w) ==
    LET last == b.out = 1
    IN [b EXCEPT !.out = @ - 1, !.round[w] = @ + 1,
                 !.serial[b.round[w] + 1] = IF last THEN @ + 1 ELSE @,
                 !.at = [(IF last THEN Woken(@) ELSE @) EXCEPT ![w] = "out"]]

\* uv_barrier_wait from its call, or from a wakeup of the first loop; the thread that makes
\* the round full lets the others through and leaves.
Enter(w) ==
    /\ \/ bar.at[w] = "out" /\ bar.round[w] < Rounds
       \/ bar.at[w] = "drained"
    /\ bar' = IF Draining THEN [bar EXCEPT !.at[w] = "drain"]
              ELSE IF bar.in + 1 # Threshold
              THEN [bar EXCEPT !.in = @ + 1, !.at[w] = "meet"]
              ELSE Left([bar EXCEPT !.in = 0, !.out = Threshold, !.at = Woken(@)], w)

\* Mutant: a wakeup is taken for the end of the round.
AnyWakeup == TRUE

\* The second loop goes on until the round is full.
RoundFull == bar.in = 0

Leave(w) ==
    /\ bar.at[w] = "met"
    /\ bar' = IF RoundFull THEN Left(bar, w) ELSE [bar EXCEPT !.at[w] = "meet"]

\* Mutant: uv_barrier_destroy waits for nobody.
NoneEntering == bar.in = 0

\* uv_barrier_destroy waits for those who are still leaving.
NoneLeaving == bar.out = 0

\* A thread that came through its last round destroys the barrier, without knowing whether
\* the others have left it.
Destroy(w) ==
    /\ ~bar.destroyed
    /\ \/ bar.at[w] = "out" /\ bar.round[w] = Rounds /\ \A v \in Workers : bar.at[v] \notin {"ending", "ended"}
       \/ bar.at[w] = "ended"
    /\ bar' = IF NoneLeaving THEN [bar EXCEPT !.at[w] = "out", !.destroyed = TRUE]
              ELSE [bar EXCEPT !.at[w] = "ending"]

\* pthread_cond_wait may return without a signal.
Spurious(w) ==
    /\ bar.at[w] \in {"meet", "drain", "ending"}
    /\ bar' = [bar EXCEPT !.at[w] = Woken(bar.at)[w]]

Thread(w) == Enter(w) \/ Leave(w) \/ Destroy(w)

Next == \E w \in Workers : Thread(w) \/ Spurious(w)

Spec == Init /\ [][Next]_bar

FairSpec == Spec /\ \A w \in Workers : WF_bar(Thread(w))

-----------------------------------------------------------------------------
(* Properties *)

\* The types of the state.
TypeOK ==
    /\ bar.in \in 0..Threshold /\ bar.out \in 0..Threshold /\ bar.destroyed \in BOOLEAN
    /\ bar.at \in [Workers -> {"out", "meet", "met", "drain", "drained", "ending", "ended"}]
    /\ bar.round \in [Workers -> 0..Rounds]

\* `in` counts the threads that wait for the round to fill and `out` those that have still to
\* leave a full one; never both, so no thread laps another; one thread of a round gets 1.
CountsAreExact ==
    LET inside == {w \in Workers : bar.at[w] \in {"meet", "met"}}
    IN /\ bar.in = 0 \/ bar.out = 0
       /\ bar.in + bar.out = Cardinality(inside)
       /\ \A w, v \in Workers : bar.round[w] <= bar.round[v] + 1
       /\ \A r \in 1..Rounds :
            bar.serial[r] = IF \A w \in Workers : bar.round[w] >= r THEN 1 ELSE 0

\* Nobody sleeps in a wait whose condition is over: who waits for the round to fill is not
\* asleep when it is full, nor who waits for it to drain when it is empty.
NothingStranded ==
    \A w \in Workers :
        /\ bar.at[w] = "meet" => bar.in # 0
        /\ bar.at[w] \in {"drain", "ending"} => bar.out # 0

\* uv_barrier_destroy frees the barrier when no thread is inside, and its assertion that no
\* thread is entering holds.
ClosedIsClean ==
    /\ bar.destroyed => \A w \in Workers : bar.at[w] = "out" /\ bar.round[w] = Rounds
    /\ (\E w \in Workers : bar.at[w] \in {"ending", "ended"}) => bar.in = 0

\* Everybody gets through every round, and the barrier is destroyed.
AllPass == <>bar.destroyed
=================================================================================
