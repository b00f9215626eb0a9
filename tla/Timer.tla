--------------------------------- MODULE Timer ---------------------------------
(***************************************************************************)
(* Timers: src/source/main/cpp/timer.c, driven by the part of uv_run that  *)
(* concerns them (poll, update the time, run the timers).                  *)
(*                                                                         *)
(* Callbacks may start, stop, restart and close any timer, also one that   *)
(* waits in the ready queue of uv__run_timers.  The heap is the set of     *)
(* started timers, ordered by timeout and then by start; that heap-inl.h   *)
(* keeps the least of them at its root is taken for granted here.          *)
(***************************************************************************)
EXTENDS Integers, FiniteSets, QueueProofs

CONSTANTS
    Timers,
    MaxTime,   \* (uint64_t) -1
    IntMax,    \* INT_MAX
    Timeouts,  \* the timeouts the program asks for
    Repeats    \* the repeat intervals the program asks for

ASSUME TimerAssumption ==
    /\ IsFiniteSet(Timers)
    /\ MaxTime \in Nat /\ IntMax \in 1..MaxTime
    /\ Timeouts \subseteq 0..MaxTime /\ Repeats \subseteq 0..MaxTime

VARIABLES
    time,      \* loop->time
    heap,      \* the timers in the loop's heap
    order,     \* the started and the ready timers by start_id, the latest last
    timeout,   \* [Timers]: handle->timeout
    repeat,    \* [Timers]: handle->repeat
    hasCb,     \* [Timers]: handle->timer_cb # NULL
    closing,   \* [Timers]: uv__is_closing(handle)
    ready,     \* the ready queue on the stack of uv__run_timers
    pc,        \* "program", "collect", "fire", "callback"
    due,       \* history [Timers]: when the armed timer is to fire, or -1
    waiting    \* history: the timers that were due when this pass of uv__run_timers began
               \* and that have not fired, stopped or restarted since

config == <<repeat, hasCb, closing>>
vars == <<time, heap, order, timeout, config, ready, pc, due, waiting>>

Init ==
    /\ time = 0
    /\ heap = {} /\ order = <<>> /\ ready = <<>>
    /\ timeout = [t \in Timers |-> 0]
    /\ repeat = [t \in Timers |-> 0]
    /\ hasCb = [t \in Timers |-> FALSE]
    /\ closing = [t \in Timers |-> FALSE]
    /\ pc = "program"
    /\ due = [t \in Timers |-> -1]
    /\ waiting = {}

-----------------------------------------------------------------------------
(* The heap and the clock *)

Earlier(t, u) == \E i, j \in DOMAIN order : order[i] = t /\ order[j] = u /\ i < j

\* Mutant: timers with the same timeout in no particular order.
LessThanByTimeout(t, u) == timeout[t] <= timeout[u]

\* timer_less_than: by timeout, then by start_id.
LessThan(t, u) ==
    \/ timeout[t] < timeout[u]
    \/ timeout[t] = timeout[u] /\ Earlier(t, u)

\* heap_min
HeapMin == CHOOSE t \in heap : \A u \in heap \ {t} : LessThan(t, u)

\* Mutant: the sum of two uint64_t is taken as it comes.
TimeoutWrapped(now, d) == (now + d) % (MaxTime + 1)

\* clamped_timeout: the sum of two uint64_t, or the largest of them if it wraps.
ClampedTimeout(now, d) ==
    LET sum == (now + d) % (MaxTime + 1) IN IF sum < d THEN MaxTime ELSE sum

\* Mutant: the distance is not limited to an int.
NextTimeoutWide ==
    IF heap = {} THEN -1
    ELSE IF timeout[HeapMin] <= time THEN 0 ELSE timeout[HeapMin] - time

\* Mutant: a timer further away than an int can say is like none.
NextTimeoutForEver ==
    IF heap = {} \/ timeout[HeapMin] - time > IntMax THEN -1
    ELSE IF timeout[HeapMin] <= time THEN 0 ELSE timeout[HeapMin] - time

\* Mutant: the time to wake up at, not the time to wait.
NextTimeoutAbsolute ==
    IF heap = {} THEN -1
    ELSE IF timeout[HeapMin] <= time THEN 0
    ELSE IF timeout[HeapMin] > IntMax THEN IntMax ELSE timeout[HeapMin]

\* uv__next_timeout: -1 is for ever, else milliseconds in an int.
NextTimeout ==
    IF heap = {} THEN -1
    ELSE IF timeout[HeapMin] <= time THEN 0
    ELSE IF timeout[HeapMin] - time > IntMax THEN IntMax ELSE timeout[HeapMin] - time

-----------------------------------------------------------------------------
(* The timer functions, called by the program between two polls and from    *)
(* callbacks.                                                                *)

Program == pc \in {"program", "callback"}

\* Mutant: a timer that is not in the heap is left where it is.
OutOfHeapOnly(t) ==
    /\ heap' = heap \ {t}
    /\ order' = IF t \in heap THEN Unlink(order, t) ELSE order
    /\ UNCHANGED ready

\* uv_timer_stop: out of the heap or out of the ready queue.
Out(t) ==
    /\ heap' = heap \ {t}
    /\ ready' = Unlink(ready, t)
    /\ order' = Unlink(order, t)

\* What uv_timer_start leaves behind.
Armed(t, d) ==
    /\ heap' = heap \union {t}
    /\ timeout' = [timeout EXCEPT ![t] = ClampedTimeout(time, d)]
    /\ order' = Append(Unlink(order, t), t)
    /\ due' = [due EXCEPT ![t] = IF time + d > MaxTime THEN MaxTime ELSE time + d]

\* uv_timer_start; refused for a closing handle.
Start(t, d, r) ==
    /\ Program /\ ~closing[t]
    /\ ready' = Unlink(ready, t)
    /\ Armed(t, d)
    /\ repeat' = [repeat EXCEPT ![t] = r]
    /\ hasCb' = [hasCb EXCEPT ![t] = TRUE]
    /\ waiting' = waiting \ {t}
    /\ UNCHANGED <<time, closing, pc>>

\* uv_timer_stop
Stop(t) ==
    /\ Program /\ ~closing[t]
    /\ Out(t)
    /\ due' = [due EXCEPT ![t] = -1]
    /\ waiting' = waiting \ {t}
    /\ UNCHANGED <<time, timeout, config, pc>>

\* uv_timer_again: nothing for a timer that does not repeat.
Again(t) ==
    /\ Program /\ hasCb[t] /\ repeat[t] # 0 /\ ~closing[t]
    /\ ready' = Unlink(ready, t)
    /\ Armed(t, repeat[t])
    /\ waiting' = waiting \ {t}
    /\ UNCHANGED <<time, config, pc>>

\* uv_timer_set_repeat
SetRepeat(t, r) ==
    /\ Program
    /\ repeat' = [repeat EXCEPT ![t] = r]
    /\ UNCHANGED <<time, heap, order, timeout, hasCb, closing, ready, pc, due, waiting>>

\* uv_close, uv__timer_close
Close(t) ==
    /\ Program /\ ~closing[t]
    /\ closing' = [closing EXCEPT ![t] = TRUE]
    /\ Out(t)
    /\ due' = [due EXCEPT ![t] = -1]
    /\ waiting' = waiting \ {t}
    /\ UNCHANGED <<time, timeout, repeat, hasCb, pc>>

\* uv_update_time
UpdateTime ==
    /\ Program
    /\ \E now \in time..MaxTime : time' = now
    /\ UNCHANGED <<heap, order, timeout, config, ready, pc, due, waiting>>

-----------------------------------------------------------------------------
(* The loop *)

\* uv__io_poll has returned, uv__update_time, and into uv__run_timers.
RunTimersAt(now) ==
    /\ time' = now
    /\ waiting' = {t \in heap : timeout[t] <= now}
    /\ pc' = "collect"
    /\ UNCHANGED <<heap, order, timeout, config, ready, due>>

\* The poll has waited as long as it was told, or longer.
PollTimesOut ==
    /\ pc = "program" /\ NextTimeout # -1
    /\ \E now \in time..MaxTime : now >= time + NextTimeout /\ RunTimersAt(now)

\* The poll ends early for some other event.
PollEvent ==
    /\ pc = "program"
    /\ \E now \in time..MaxTime : RunTimersAt(now)

\* uv__run_timers, first loop: the timers that are due move to the ready queue.
Collect ==
    /\ pc = "collect"
    /\ heap # {} /\ timeout[HeapMin] <= time
    /\ heap' = heap \ {HeapMin}
    /\ ready' = Append(ready, HeapMin)
    /\ UNCHANGED <<time, order, timeout, config, pc, due, waiting>>

\* Mutant: a timer that is due right now is left for the next pass.
CollectedEarly ==
    /\ pc = "collect"
    /\ ~(heap # {} /\ timeout[HeapMin] < time)
    /\ pc' = "fire"
    /\ UNCHANGED <<time, heap, order, timeout, config, ready, due, waiting>>

Collected ==
    /\ pc = "collect"
    /\ ~(heap # {} /\ timeout[HeapMin] <= time)
    /\ pc' = "fire"
    /\ UNCHANGED <<time, heap, order, timeout, config, ready, due, waiting>>

\* Mutant: a repeating timer goes back to the ready queue if it is due again.
FireAgainAtOnce ==
    /\ pc = "fire" /\ ready # <<>>
    /\ LET t == Head(ready) IN
       /\ IF repeat[t] # 0
          THEN /\ timeout' = [timeout EXCEPT ![t] = ClampedTimeout(time, repeat[t])]
               /\ due' = [due EXCEPT ![t] = ClampedTimeout(time, repeat[t])]
               /\ order' = Append(Unlink(order, t), t)
               /\ IF timeout'[t] <= time
                  THEN ready' = Append(Tail(ready), t) /\ UNCHANGED heap
                  ELSE ready' = Tail(ready) /\ heap' = heap \union {t}
          ELSE /\ due' = [due EXCEPT ![t] = -1]
               /\ ready' = Tail(ready)
               /\ order' = Unlink(order, t)
               /\ UNCHANGED <<heap, timeout>>
       /\ waiting' = waiting \ {t}
    /\ pc' = "callback"
    /\ UNCHANGED <<time, config>>

\* Second loop: the timer is unlinked, uv_timer_again starts it anew if it
\* repeats, and its callback is called.
Fire ==
    /\ pc = "fire" /\ ready # <<>>
    /\ LET t == Head(ready) IN
       /\ ready' = Tail(ready)
       /\ IF repeat[t] # 0
          THEN Armed(t, repeat[t])
          ELSE /\ due' = [due EXCEPT ![t] = -1]
               /\ order' = Unlink(order, t)
               /\ UNCHANGED <<heap, timeout>>
       /\ waiting' = waiting \ {t}
    /\ pc' = "callback"
    /\ UNCHANGED <<time, config>>

CallbackReturns ==
    /\ pc = "callback"
    /\ pc' = "fire"
    /\ UNCHANGED <<time, heap, order, timeout, config, ready, due, waiting>>

\* uv__run_timers returns.
Ran ==
    /\ pc = "fire" /\ ready = <<>>
    /\ pc' = "program"
    /\ UNCHANGED <<time, heap, order, timeout, config, ready, due, waiting>>

-----------------------------------------------------------------------------
Loop ==
    \/ PollTimesOut \/ PollEvent \/ Collect \/ Collected \/ Fire \/ CallbackReturns \/ Ran

Next ==
    \/ \E t \in Timers : Stop(t) \/ Again(t) \/ Close(t)
    \/ \E t \in Timers, d \in Timeouts, r \in Repeats : Start(t, d, r)
    \/ \E t \in Timers, r \in Repeats : SetRepeat(t, r)
    \/ UpdateTime
    \/ Loop

Spec == Init /\ [][Next]_vars

(***************************************************************************)
(* uv_run goes on: callbacks return and the loop polls while a timer is    *)
(* started.  A loop that polls again and again sees its clock advance: a   *)
(* turn takes time, and the clock is monotonic.  The program does not have *)
(* to do anything, and no other event has to end a poll.                   *)
(***************************************************************************)
Fairness ==
    /\ WF_vars(PollTimesOut \/ Collect \/ Collected \/ Fire \/ CallbackReturns \/ Ran)
    /\ SF_vars(PollTimesOut /\ time' > time)

FairSpec == Spec /\ Fairness

-----------------------------------------------------------------------------
(* Properties *)

\* Every variable has its type, and what uv__next_timeout returns is an int.
TypeOK ==
    /\ time \in 0..MaxTime
    /\ heap \subseteq Timers /\ waiting \subseteq Timers
    /\ order \in Seq(Timers) /\ ready \in Seq(Timers)
    /\ timeout \in [Timers -> 0..MaxTime]
    /\ repeat \in [Timers -> 0..MaxTime]
    /\ hasCb \in [Timers -> BOOLEAN] /\ closing \in [Timers -> BOOLEAN]
    /\ pc \in {"program", "collect", "fire", "callback"}
    /\ due \in [Timers -> -1..MaxTime]
    /\ NextTimeout \in -1..IntMax

\* uv__run_timers calls the callback of a timer only if the program wants it:
\* started, not stopped or closed since by an earlier callback of the same
\* pass, its time has come, and at most once in a pass.
FiresWhatIsDue ==
    [][pc = "fire" /\ pc' = "callback" =>
        LET t == Head(ready) IN
        t \in waiting /\ due[t] \in 0..time /\ ~closing[t]]_vars

\* When uv__run_timers returns, every timer that was due when it began has
\* fired, unless a callback stopped or restarted it.
PassOwesNothing == pc = "program" => waiting = {}

\* Timers fire in the order of their times, and those of the same time in the
\* order they were started in (timer.c:50-52), whatever callbacks do meanwhile.
FiredInOrder ==
    \A i, j \in DOMAIN ready : i < j =>
        \/ due[ready[i]] < due[ready[j]]
        \/ due[ready[i]] = due[ready[j]] /\ Earlier(ready[i], ready[j])

\* The loop does not sleep beyond the first timer, and it does not spin: it
\* polls without waiting only when a timer is due.
WakesInTime ==
    /\ \A t \in heap : NextTimeout # -1 /\ (NextTimeout > 0 => time + NextTimeout <= due[t])
    /\ NextTimeout = 0 => \E t \in heap : due[t] <= time

\* What a program relies on when it sets a timer: a pass forgets none, keeps their order, and the
\* loop is awake when the next is due, whatever callbacks do to the timers of the pass under way.
TimersAreKept == PassOwesNothing /\ FiredInOrder /\ WakesInTime

\* A pass of uv__run_timers ends, although callbacks start timers that are due
\* at once and repeating timers restart themselves.
PassEnds == (pc = "collect") ~> (pc = "program")

\* A started timer is taken out of the heap, to fire, unless it is restarted,
\* even if its timeout is further away than the largest int of milliseconds.
ArmedTimersFire ==
    \A t \in Timers, d \in 0..MaxTime :
        (t \in heap /\ due[t] = d) ~> (t \notin heap \/ due[t] # d)

-----------------------------------------------------------------------------
(* Proofs.  Safety for any number of timers and any clock: what a pass of   *)
(* uv__run_timers fires, in which order, and what it leaves behind, and     *)
(* that the time the loop may sleep is right.                              *)

USE TimerAssumption DEF TimerAssumption

-----------------------------------------------------------------------------
(* The inductive invariant *)

Typed ==
    /\ time \in 0..MaxTime
    /\ heap \subseteq Timers /\ waiting \subseteq Timers
    /\ order \in Seq(Timers) /\ ready \in Seq(Timers)
    /\ timeout \in [Timers -> 0..MaxTime]
    /\ repeat \in [Timers -> 0..MaxTime]
    /\ hasCb \in [Timers -> BOOLEAN] /\ closing \in [Timers -> BOOLEAN]
    /\ pc \in {"program", "collect", "fire", "callback"}
    /\ due \in [Timers -> -1..MaxTime]

\* A timer is in the heap or in the ready queue, once, and has a start_id then.
Linked ==
    /\ Distinct(order) /\ Distinct(ready)
    /\ \A t \in Timers : Contains(order, t) <=> t \in heap \/ Contains(ready, t)
    /\ \A t \in heap : ~Contains(ready, t)

\* A started timer is open and its timeout is what the program asked for.
Dated ==
    \A t \in Timers : t \in heap \/ Contains(ready, t) => due[t] = timeout[t] /\ ~closing[t]

\* The pass still owes what is in the ready queue, and what it has yet to collect.
Owed ==
    /\ \A t \in Timers : Contains(ready, t) => timeout[t] <= time
    /\ \A t \in Timers : t \in waiting <=>
         Contains(ready, t) \/ (pc = "collect" /\ t \in heap /\ timeout[t] <= time)
    /\ pc = "program" => ready = <<>>

\* The ready queue is sorted, and while it is filled the heap comes after it.
Sorted ==
    /\ \A x, y \in Timers : Before(ready, x, y) => LessThan(x, y)
    /\ pc = "collect" => \A x \in Timers, y \in heap : Contains(ready, x) => LessThan(x, y)

IInv == Typed /\ Linked /\ Dated /\ Owed /\ Sorted

-----------------------------------------------------------------------------
(* The clock and the heap *)

USE DEF config

LEMMA Remainder ==
    ASSUME NEW b \in Nat, NEW a \in 0..(b - 1) PROVE a % b = a /\ (a + b) % b = a
  OBVIOUS

\* The sum of a time and a distance, or the latest time there is.
LEMMA ClampedSum ==
    ASSUME NEW now \in 0..MaxTime, NEW d \in 0..MaxTime
    PROVE  /\ ClampedTimeout(now, d) = IF now + d > MaxTime THEN MaxTime ELSE now + d
           /\ ClampedTimeout(now, d) \in 0..MaxTime
<1> DEFINE b == MaxTime + 1
           sum == (now + d) % b
<1>0. b \in Nat /\ MaxTime \in Nat
  BY DEF TimerAssumption
<1>1. CASE now + d > MaxTime
  <2>1. now + d - b \in 0..(b - 1) /\ (now + d - b) + b = now + d
    BY <1>0, <1>1
  <2>2. sum = now + d - b
    BY <1>0, <2>1, Remainder
  <2>3. sum < d
    BY <1>0, <2>2
  <2> QED BY <1>0, <1>1, <2>3 DEF ClampedTimeout
<1>2. CASE now + d <= MaxTime
  <2>1. sum = now + d
    BY <1>0, <1>2, Remainder
  <2> QED BY <1>0, <1>2, <2>1 DEF ClampedTimeout
<1> QED BY <1>0, <1>1, <1>2

LEMMA EarlierIsBefore ==
    ASSUME Typed, NEW x, NEW y PROVE Earlier(x, y) <=> Before(order, x, y)
  BY LenProperties DEF Typed, Earlier, Before

\* heap_min finds the least timer of a heap that is not empty: no other is due
\* before it, and none of the same timeout was started before it.
LEMMA HeapMinIsLeast ==
    ASSUME Typed, Linked, heap # {}
    PROVE  /\ HeapMin \in heap
           /\ \A u \in heap \ {HeapMin} : LessThan(HeapMin, u)
           /\ \A u \in heap : timeout[HeapMin] <= timeout[u]
<1>1. \E t \in heap : \A u \in heap \ {t} : LessThan(t, u)
  <2> DEFINE times == {timeout[t] : t \in heap}
  <2>1. times \subseteq Nat /\ times # {}
    BY DEF Typed
  <2>2. PICK m \in times : \A n \in times : m <= n
    BY <2>1, LeastNumber
  <2> DEFINE first == {i \in 1..Len(order) : order[i] \in heap /\ timeout[order[i]] = m}
  <2>3. PICK t \in heap : timeout[t] = m
    BY <2>2
  <2>4. Len(order) \in Nat /\ \A u \in heap : \E i \in 1..Len(order) : order[i] = u
    BY LenProperties DEF Typed, Linked, Contains
  <2>5. first \subseteq Nat /\ first # {}
    BY <2>3, <2>4
  <2>6. PICK k \in first : \A i \in first : k <= i
    BY <2>5, LeastNumber
  <2>7. ASSUME NEW u \in heap \ {order[k]} PROVE LessThan(order[k], u)
    <3>1. m <= timeout[u] /\ timeout[u] \in Nat /\ m \in Nat
      BY <2>1, <2>2, <2>7 DEF Typed
    <3>2. CASE timeout[u] = m
      <4>1. PICK i \in 1..Len(order) : order[i] = u
        BY <2>4, <2>7
      <4>2. i \in first /\ i # k
        BY <2>7, <3>2, <4>1
      <4>3. k < i
        BY <2>4, <2>6, <4>2
      <4>4. Before(order, order[k], u)
        BY <4>1, <4>3 DEF Before
      <4> QED BY <2>6, <3>2, <4>4, EarlierIsBefore DEF LessThan
    <3>3. CASE timeout[u] # m
      BY <2>6, <3>1, <3>3 DEF LessThan
    <3> QED BY <3>2, <3>3
  <2> QED BY <2>6, <2>7
<1>2. HeapMin \in heap /\ \A u \in heap \ {HeapMin} : LessThan(HeapMin, u)
  BY <1>1 DEF HeapMin
<1>3. \A u \in heap : timeout[HeapMin] <= timeout[u]
  <2> DEFINE h == HeapMin
  <2>1. h \in heap /\ \A u \in heap \ {h} : timeout[h] <= timeout[u]
    <3>1. \A u \in heap : timeout[u] \in Nat
      BY DEF Typed
    <3> QED BY <1>2, <3>1 DEF LessThan
  <2> HIDE DEF h
  <2>2. timeout[h] <= timeout[h]
    BY <2>1 DEF Typed
  <2> QED BY <2>1, <2>2 DEF h
<1> QED BY <1>2, <1>3

\* uv__next_timeout: an int; for ever without timers, at once when one is due,
\* and never longer than until the first is.
LEMMA NextTimeoutIsRight ==
    ASSUME Typed, Linked
    PROVE  /\ NextTimeout \in -1..IntMax
           /\ NextTimeout = -1 <=> heap = {}
           /\ \A t \in heap : NextTimeout > 0 => time + NextTimeout <= timeout[t]
           /\ NextTimeout = 0 => \E t \in heap : timeout[t] <= time
<1>0. IntMax \in Nat /\ IntMax >= 1 /\ MaxTime \in Nat
  BY DEF TimerAssumption
<1>1. CASE heap = {}
  BY <1>0, <1>1 DEF NextTimeout
<1>2. CASE heap # {}
  <2> DEFINE h == HeapMin
  <2>1. h \in heap /\ h \in Timers /\ \A u \in heap : timeout[h] <= timeout[u]
    BY <1>2, HeapMinIsLeast DEF Typed
  <2>2. timeout[h] \in Nat /\ time \in Nat /\ \A u \in heap : timeout[u] \in Nat
    BY <2>1 DEF Typed
  <2>3. NextTimeout = IF timeout[h] <= time THEN 0
                      ELSE IF timeout[h] - time > IntMax THEN IntMax ELSE timeout[h] - time
    BY <1>2 DEF NextTimeout
  <2> HIDE DEF h
  <2> QED BY <1>0, <1>2, <2>1, <2>2, <2>3
<1> QED BY <1>1, <1>2

-----------------------------------------------------------------------------
(* The initial state and the steps *)

LEMMA InitInv == Init => IInv
<1> SUFFICES ASSUME Init PROVE IInv
  OBVIOUS
<1>1. Typed
  BY EmptyQueue DEF Init, Typed
<1>2. Linked /\ Dated /\ Owed
  BY EmptyQueue DEF Init, Linked, Dated, Owed
<1>3. \A x, y : ~Before(<<>>, x, y)
  BY DEF Before
<1>4. Sorted
  BY <1>3 DEF Init, Sorted
<1> QED BY <1>1, <1>2, <1>4 DEF IInv

\* What a step leaves of the ready queue when timer t leaves it, if it is there.
Without(t) ==
    /\ ready' \in Seq(Timers) /\ Distinct(ready')
    /\ \A y : Contains(ready', y) <=> Contains(ready, y) /\ y # t
    /\ \A x, y : Before(ready', x, y) => Before(ready, x, y)

LEMMA UnlinkReady ==
    ASSUME IInv, NEW t \in Timers, ready' = Unlink(ready, t) PROVE Without(t)
<1>1. ready \in Seq(Timers) /\ Distinct(ready)
  BY DEF IInv, Typed, Linked
<1> QED BY <1>1, UnlinkDistinct, UnlinkOrder DEF Without

LEMMA TailReady ==
    ASSUME IInv, ready # <<>>, ready' = Tail(ready)
    PROVE  Head(ready) \in Timers /\ Contains(ready, Head(ready)) /\ Without(Head(ready))
<1>1. ready \in Seq(Timers) /\ Distinct(ready)
  BY DEF IInv, Typed, Linked
<1>2. /\ Head(ready) \in Timers /\ Contains(ready, Head(ready)) /\ ready' \in Seq(Timers)
      /\ \A y : Contains(ready, y) <=> Contains(ready', y) \/ y = Head(ready)
      /\ Distinct(ready') /\ ~Contains(ready', Head(ready))
  BY <1>1, TailQueue
<1>3. \A x, y : Before(ready', x, y) => Before(ready, x, y)
  BY <1>1, TailOrder
<1> QED BY <1>2, <1>3 DEF Without

\* The timers that are not concerned keep their place in the order.
LEMMA OrderKept ==
    ASSUME Typed, Typed', Linked, NEW t \in Timers,
           order' = Unlink(order, t) \/ order' = Append(Unlink(order, t), t),
           NEW x \in Timers \ {t}, NEW y \in Timers \ {t},
           timeout'[x] = timeout[x], timeout'[y] = timeout[y],
           LessThan(x, y)
    PROVE  LessThan(x, y)'
<1>1. order \in Seq(Timers) /\ Distinct(order)
  BY DEF Typed, Linked
<1>2. Before(order, x, y) => Before(order', x, y)
  <2> DEFINE u == Unlink(order, t)
  <2>1. u \in Seq(Timers) /\ (Before(order, x, y) => Before(u, x, y))
    BY <1>1, UnlinkQueue, UnlinkOrder
  <2>2. order' = u \/ order' = Append(u, t)
    OBVIOUS
  <2> HIDE DEF u
  <2>3. \A q \in Seq(Timers) : Before(q, x, y) => Before(Append(q, t), x, y)
    BY AppendOrder
  <2> QED BY <2>1, <2>2, <2>3
<1>3. Earlier(x, y) => Earlier(x, y)'
  <2>1. Earlier(x, y) <=> Before(order, x, y)
    BY EarlierIsBefore
  <2>2. Before(order', x, y) => Earlier(x, y)'
    BY LenProperties DEF Typed, Earlier, Before
  <2> QED BY <1>2, <2>1, <2>2
<1> QED BY <1>3 DEF LessThan

\* uv_timer_start and uv_timer_again, from the program and from uv__run_timers.
LEMMA ArmStep ==
    ASSUME IInv, NEW t \in Timers, NEW d \in 0..MaxTime, ~closing[t], Armed(t, d), Without(t),
           repeat' \in [Timers -> 0..MaxTime], hasCb' \in [Timers -> BOOLEAN],
           UNCHANGED <<time, closing>>, waiting' = waiting \ {t},
           pc \in {"program", "fire", "callback"}, pc' \in {"program", "callback"},
           pc' = "program" => pc = "program"
    PROVE  IInv'
<1>0. Typed /\ Linked /\ Dated /\ Owed /\ Sorted
  BY DEF IInv
<1>1. /\ heap' = heap \union {t} /\ order' = Append(Unlink(order, t), t)
      /\ timeout' = [timeout EXCEPT ![t] = ClampedTimeout(time, d)]
      /\ due' = [due EXCEPT ![t] = IF time + d > MaxTime THEN MaxTime ELSE time + d]
  BY DEF Armed
<1>2. ClampedTimeout(time, d) \in 0..MaxTime
      /\ ClampedTimeout(time, d) = IF time + d > MaxTime THEN MaxTime ELSE time + d
  BY <1>0, ClampedSum DEF Typed
<1>3. /\ order' \in Seq(Timers) /\ Distinct(order')
      /\ \A y : Contains(order', y) <=> Contains(order, y) \/ y = t
  <2> DEFINE u == Unlink(order, t)
  <2>1. u \in Seq(Timers) /\ Distinct(u) /\ \A y : Contains(u, y) <=> Contains(order, y) /\ y # t
    BY <1>0, UnlinkDistinct DEF Typed, Linked
  <2>2. order' = Append(u, t)
    BY <1>1
  <2> HIDE DEF u
  <2> QED BY <2>1, <2>2, AppendQueue
<1>4. Typed'
  BY SMTT(30), <1>0, <1>1, <1>2, <1>3 DEF Typed, Without, TimerAssumption
<1>5. Linked'
  BY <1>0, <1>1, <1>3 DEF Linked, Without
<1>6. \A s \in Timers : IF s = t THEN due'[s] = timeout'[s]
                        ELSE due'[s] = due[s] /\ timeout'[s] = timeout[s]
  BY <1>0, <1>1, <1>2 DEF Typed
<1>7. Dated'
  BY <1>0, <1>1, <1>6 DEF Dated, Without
<1>8. Owed'
  <2>1. ready = <<>> => ready' = <<>>
    BY EmptyQueue, RangeQueue DEF Without
  <2> QED BY <1>0, <1>6, <2>1 DEF Owed, Without
<1>9. Sorted'
  <2>1. \A x, y \in Timers : Before(ready', x, y) => x # t /\ y # t
    BY DEF Without, Before, Contains
  <2>2. \A x, y \in Timers : Before(ready', x, y) => LessThan(x, y)'
    BY <1>0, <1>1, <1>4, <1>6, <2>1, OrderKept DEF Sorted, Without
  <2> QED BY <2>2 DEF Sorted
<1> QED BY <1>4, <1>5, <1>7, <1>8, <1>9 DEF IInv

\* uv_timer_stop and uv_close, and a timer that fires and does not repeat.
LEMMA DisarmStep ==
    ASSUME IInv, NEW t \in Timers, Without(t),
           heap' = heap \ {t}, order' = Unlink(order, t),
           due' = [due EXCEPT ![t] = -1], waiting' = waiting \ {t},
           UNCHANGED <<time, timeout, repeat, hasCb>>,
           closing' \in [Timers -> BOOLEAN], \A s \in Timers \ {t} : closing'[s] = closing[s],
           pc \in {"program", "fire", "callback"}, pc' \in {"program", "callback"},
           pc' = "program" => pc = "program"
    PROVE  IInv'
<1>0. Typed /\ Linked /\ Dated /\ Owed /\ Sorted
  BY DEF IInv
<1>3. /\ order' \in Seq(Timers) /\ Distinct(order')
      /\ \A y : Contains(order', y) <=> Contains(order, y) /\ y # t
  BY <1>0, UnlinkDistinct DEF Typed, Linked
<1>4. Typed'
  <2>1. due' \in [Timers -> -1..MaxTime]
    BY <1>0 DEF Typed, TimerAssumption
  <2> QED BY <1>0, <1>3, <2>1 DEF Typed, Without
<1>5. Linked'
  BY <1>0, <1>3 DEF Linked, Without
<1>6. \A s \in Timers \ {t} : due'[s] = due[s]
  BY <1>0 DEF Typed
<1>7. Dated'
  BY <1>0, <1>6 DEF Dated, Without
<1>8. Owed'
  <2>1. ready = <<>> => ready' = <<>>
    BY EmptyQueue, RangeQueue DEF Without
  <2> QED BY <1>0, <2>1 DEF Owed, Without
<1>9. Sorted'
  <2>1. \A x, y \in Timers : Before(ready', x, y) => x # t /\ y # t
    BY DEF Without, Before, Contains
  <2>2. \A x, y \in Timers : Before(ready', x, y) => LessThan(x, y)'
    BY <1>0, <1>4, <2>1, OrderKept DEF Sorted, Without
  <2> QED BY <2>2 DEF Sorted
<1> QED BY <1>4, <1>5, <1>7, <1>8, <1>9 DEF IInv

LEMMA ProgramStep ==
    ASSUME IInv, NEW t \in Timers,
           \/ \E d \in Timeouts, r \in Repeats : Start(t, d, r)
           \/ Stop(t) \/ Again(t) \/ Close(t)
    PROVE  IInv'
<1>0. Typed /\ Timeouts \subseteq 0..MaxTime /\ Repeats \subseteq 0..MaxTime
  BY DEF IInv, TimerAssumption
<1>1. ASSUME NEW d \in Timeouts, NEW r \in Repeats, Start(t, d, r) PROVE IInv'
  <2>1. Without(t) /\ repeat' \in [Timers -> 0..MaxTime] /\ hasCb' \in [Timers -> BOOLEAN]
    BY <1>0, <1>1, UnlinkReady DEF Start, Typed
  <2> QED BY <1>0, <1>1, <2>1, ArmStep DEF Start, Program
<1>2. ASSUME Again(t) PROVE IInv'
  <2>1. Without(t) /\ repeat[t] \in 0..MaxTime
    BY <1>0, <1>2, UnlinkReady DEF Again, Typed
  <2> QED BY <1>0, <1>2, <2>1, ArmStep DEF Again, Program, Typed
<1>3. ASSUME Stop(t) PROVE IInv'
  <2>1. Without(t)
    BY <1>3, UnlinkReady DEF Stop, Out
  <2> QED BY <1>0, <1>3, <2>1, DisarmStep DEF Stop, Out, Program, Typed
<1>4. ASSUME Close(t) PROVE IInv'
  <2>1. Without(t)
    BY <1>4, UnlinkReady DEF Close, Out
  <2>2. closing' \in [Timers -> BOOLEAN] /\ \A s \in Timers \ {t} : closing'[s] = closing[s]
    BY <1>0, <1>4 DEF Close, Typed
  <2> QED BY <1>4, <2>1, <2>2, DisarmStep DEF Close, Out, Program
<1> QED BY <1>1, <1>2, <1>3, <1>4

LEMMA SettingStep ==
    ASSUME IInv, \/ \E t \in Timers, r \in Repeats : SetRepeat(t, r)
                 \/ UpdateTime \/ CallbackReturns \/ Ran \/ UNCHANGED vars
    PROVE  IInv'
<1>1. /\ UNCHANGED <<heap, order, timeout, hasCb, closing, ready, due, waiting>>
      /\ pc' = pc \/ (pc = "callback" /\ pc' = "fire")
           \/ (pc = "fire" /\ pc' = "program" /\ ready = <<>>)
      /\ time' = time \/ (pc # "collect" /\ time' \in time..MaxTime)
  BY DEF SetRepeat, UpdateTime, Program, CallbackReturns, Ran, vars
<1>2. repeat' \in [Timers -> 0..MaxTime]
  BY DEF IInv, Typed, SetRepeat, UpdateTime, CallbackReturns, Ran, vars, TimerAssumption
<1>3. Typed'
  <2>1. time' \in 0..MaxTime /\ pc' \in {"program", "collect", "fire", "callback"}
    BY <1>1 DEF IInv, Typed, TimerAssumption
  <2> QED BY <1>1, <1>2, <2>1 DEF IInv, Typed
<1>4. Linked' /\ Dated'
  BY <1>1 DEF IInv, Linked, Dated
<1>5. Owed'
  BY <1>1 DEF IInv, Typed, Owed
<1>6. Sorted'
  BY <1>1 DEF IInv, Sorted, LessThan, Earlier
<1> QED BY <1>3, <1>4, <1>5, <1>6 DEF IInv

\* The pass begins: it owes the timers of the heap that are due.
LEMMA PollStep ==
    ASSUME IInv, PollTimesOut \/ PollEvent PROVE IInv'
<1>1. PICK now \in time..MaxTime : pc = "program" /\ RunTimersAt(now)
  BY DEF PollTimesOut, PollEvent
<1>2. /\ UNCHANGED <<heap, order, timeout, config, ready, due>> /\ pc' = "collect"
      /\ time' = now /\ waiting' = {t \in heap : timeout[t] <= now}
  BY <1>1 DEF RunTimersAt
<1>3. ready = <<>> /\ \A x : ~Contains(ready, x)
  BY <1>1, EmptyQueue DEF IInv, Owed
<1>4. Typed'
  BY <1>2 DEF IInv, Typed, TimerAssumption
<1>5. Linked' /\ Dated'
  BY <1>2 DEF IInv, Linked, Dated
<1>6. Owed'
  BY <1>2, <1>3 DEF IInv, Typed, Owed
<1>7. Sorted'
  BY <1>2, <1>3 DEF Sorted, Before
<1> QED BY <1>4, <1>5, <1>6, <1>7 DEF IInv

LEMMA CollectStep ==
    ASSUME IInv, Collect PROVE IInv'
<1>0. Typed /\ Linked /\ Dated /\ Owed /\ Sorted
  BY DEF IInv
<1>1. PICK h \in heap : h = HeapMin /\ h \in Timers /\ \A u \in heap \ {h} : LessThan(h, u)
  BY <1>0, HeapMinIsLeast DEF Collect, Typed
<1>2. /\ pc = "collect" /\ timeout[h] <= time
      /\ heap' = heap \ {h} /\ ready' = Append(ready, h)
      /\ UNCHANGED <<time, order, timeout, config, pc, due, waiting>>
  BY <1>1 DEF Collect
<1>3. ready \in Seq(Timers) /\ ~Contains(ready, h) /\ Distinct(ready)
  BY <1>0, <1>1 DEF Typed, Linked
<1>4. /\ ready' \in Seq(Timers) /\ Distinct(ready')
      /\ \A y : Contains(ready', y) <=> Contains(ready, y) \/ y = h
  BY <1>1, <1>2, <1>3, AppendQueue
<1>5. \A x, y : Before(ready', x, y) <=> Before(ready, x, y) \/ (Contains(ready, x) /\ y = h)
  BY <1>1, <1>2, <1>3, AppendOrder
<1>6. Typed'
  BY <1>0, <1>2, <1>4 DEF Typed
<1>7. Linked' /\ Dated'
  BY <1>0, <1>1, <1>2, <1>4 DEF Linked, Dated
<1>8. Owed'
  BY <1>0, <1>1, <1>2, <1>4 DEF Owed
<1>9. Sorted'
  <2>1. \A x, y : LessThan(x, y)' <=> LessThan(x, y)
    BY <1>2 DEF LessThan, Earlier
  <2> QED BY <1>0, <1>1, <1>2, <1>4, <1>5, <2>1 DEF Sorted
<1> QED BY <1>6, <1>7, <1>8, <1>9 DEF IInv

\* The pass has collected everything that is due: the first timer left is not.
LEMMA CollectedStep ==
    ASSUME IInv, Collected PROVE IInv'
<1>0. Typed /\ Linked /\ Dated /\ Owed /\ Sorted
  BY DEF IInv
<1>1. pc' = "fire" /\ UNCHANGED <<time, heap, order, timeout, config, ready, due, waiting>>
  BY DEF Collected
<1>2. \A t \in heap : ~(timeout[t] <= time)
  <2>1. CASE heap # {}
    <3> DEFINE h == HeapMin
    <3>1. h \in heap /\ (\A u \in heap : timeout[h] <= timeout[u]) /\ ~(timeout[h] <= time)
      BY <1>0, <2>1, HeapMinIsLeast DEF Collected
    <3>2. (\A u \in heap : timeout[u] \in Nat) /\ time \in Nat
      BY <1>0 DEF Typed
    <3> HIDE DEF h
    <3> QED BY <3>1, <3>2
  <2> QED BY <2>1
<1>3. Typed'
  BY <1>0, <1>1 DEF Typed
<1>4. Linked' /\ Dated'
  BY <1>0, <1>1 DEF Linked, Dated
<1>5. Owed'
  BY <1>0, <1>1, <1>2 DEF Owed
<1>6. Sorted'
  BY <1>0, <1>1 DEF Sorted, LessThan, Earlier
<1> QED BY <1>3, <1>4, <1>5, <1>6 DEF IInv

LEMMA FireStep ==
    ASSUME IInv, Fire PROVE IInv'
<1>0. Typed /\ Linked /\ Dated /\ Owed /\ Sorted
  BY DEF IInv
<1>1. PICK t \in Timers : t = Head(ready) /\ Contains(ready, t) /\ Without(t)
  BY TailReady DEF Fire
<1>2. /\ pc = "fire" /\ pc' = "callback" /\ waiting' = waiting \ {t} /\ UNCHANGED <<time, config>>
      /\ IF repeat[t] # 0 THEN Armed(t, repeat[t])
         ELSE /\ due' = [due EXCEPT ![t] = -1] /\ order' = Unlink(order, t)
              /\ UNCHANGED <<heap, timeout>>
  BY <1>1 DEF Fire
<1>3. ~closing[t] /\ t \notin heap /\ repeat[t] \in 0..MaxTime
  BY <1>0, <1>1 DEF Typed, Linked, Dated
<1>4. repeat' \in [Timers -> 0..MaxTime] /\ hasCb' \in [Timers -> BOOLEAN] /\ closing' \in [Timers -> BOOLEAN]
  BY <1>0, <1>2 DEF Typed
<1>5. CASE repeat[t] # 0
  BY <1>1, <1>2, <1>3, <1>4, <1>5, ArmStep
<1>6. CASE repeat[t] = 0
  <2>1. heap' = heap \ {t}
    BY <1>2, <1>3, <1>6
  <2> QED BY <1>1, <1>2, <1>4, <1>6, <2>1, DisarmStep
<1> QED BY <1>5, <1>6

LEMMA NextInv ==
    ASSUME IInv, [Next]_vars PROVE IInv'
  BY ProgramStep, SettingStep, PollStep, CollectStep, CollectedStep, FireStep DEF Next, Loop

-----------------------------------------------------------------------------
(* The theorems *)

\* The invariant holds of every behaviour.
THEOREM Invariance == Spec => []IInv
<1>1. IInv /\ [Next]_vars => IInv'
  BY NextInv
<1> QED BY <1>1, InitInv, PTL DEF Spec

\* Every variable keeps its type, whatever the sums of two uint64_t wrap to, and
\* what uv__next_timeout returns is an int.
THEOREM TypeCorrect == Spec => []TypeOK
<1>1. IInv => TypeOK
  BY NextTimeoutIsRight DEF IInv, Typed, TypeOK
<1> QED BY <1>1, Invariance, PTL

\* uv__run_timers calls the callback only of a timer that is started, open and
\* due, and that has not fired in this pass.
THEOREM FiresOnlyWhatIsDue == Spec => FiresWhatIsDue
<1> DEFINE Fires == pc = "fire" /\ pc' = "callback" =>
                      LET t == Head(ready) IN t \in waiting /\ due[t] \in 0..time /\ ~closing[t]
<1>1. IInv /\ [Next]_vars => [Fires]_vars
  <2> SUFFICES ASSUME IInv, Next, pc = "fire", pc' = "callback"
               PROVE  LET t == Head(ready) IN t \in waiting /\ due[t] \in 0..time /\ ~closing[t]
    OBVIOUS
  <2>1. Fire
    BY DEF Next, Loop, Start, Stop, Again, SetRepeat, Close, UpdateTime, PollTimesOut, PollEvent,
           RunTimersAt, Collect, Collected, CallbackReturns, Ran
  <2>2. PICK t \in Timers : t = Head(ready) /\ Contains(ready, t)
    BY <2>1, TailQueue DEF Fire, IInv, Typed
  <2>3. t \in waiting /\ due[t] = timeout[t] /\ timeout[t] <= time /\ ~closing[t]
    BY <2>2 DEF IInv, Owed, Dated
  <2>4. timeout[t] \in Nat /\ time \in Nat
    BY DEF IInv, Typed
  <2> QED BY <2>2, <2>3, <2>4
<1> QED BY <1>1, Invariance, PTL DEF Spec, FiresWhatIsDue

\* When uv__run_timers returns, nothing that was due when it began is left.
THEOREM PassIsComplete == Spec => []PassOwesNothing
<1>1. IInv => PassOwesNothing
  BY EmptyQueue DEF IInv, Typed, Owed, PassOwesNothing
<1> QED BY <1>1, Invariance, PTL

\* The timers of a pass fire in the order of their times, and those of the same
\* time in the order they were started in.
THEOREM FiresInOrder == Spec => []FiredInOrder
<1>1. IInv => FiredInOrder
  <2> SUFFICES ASSUME IInv, NEW i \in DOMAIN ready, NEW j \in DOMAIN ready, i < j
               PROVE  \/ due[ready[i]] < due[ready[j]]
                      \/ due[ready[i]] = due[ready[j]] /\ Earlier(ready[i], ready[j])
    BY DEF FiredInOrder
  <2>1. i \in 1..Len(ready) /\ j \in 1..Len(ready) /\ ready[i] \in Timers /\ ready[j] \in Timers
    BY LenProperties, ElementOfSeq DEF IInv, Typed
  <2>2. Before(ready, ready[i], ready[j]) /\ Contains(ready, ready[i]) /\ Contains(ready, ready[j])
    BY <2>1 DEF Before, Contains
  <2>3. LessThan(ready[i], ready[j])
    BY <2>1, <2>2 DEF IInv, Sorted
  <2>4. due[ready[i]] = timeout[ready[i]] /\ due[ready[j]] = timeout[ready[j]]
    BY <2>1, <2>2 DEF IInv, Dated
  <2> QED BY <2>3, <2>4 DEF LessThan
<1> QED BY <1>1, Invariance, PTL

\* The loop does not sleep beyond the first timer, and it polls without waiting only when a timer
\* is due.
THEOREM WakesUpInTime == Spec => []WakesInTime
<1>1. IInv => WakesInTime
  BY NextTimeoutIsRight DEF IInv, Typed, Dated, WakesInTime
<1> QED BY <1>1, Invariance, PTL

\* Together: no timer of a pass is forgotten, none fires out of order, and the loop does not
\* sleep through the next one.
THEOREM KeepsItsTimers == Spec => []TimersAreKept
<1>1. PassOwesNothing /\ FiredInOrder /\ WakesInTime => TimersAreKept
  BY DEF TimersAreKept
<1> QED BY <1>1, PassIsComplete, FiresInOrder, WakesUpInTime, PTL
=============================================================================
