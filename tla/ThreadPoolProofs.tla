--------------------------- MODULE ThreadPoolProofs ---------------------------
(***************************************************************************)
(* Safety of the worker pool for any number of threads, loops and          *)
(* requests, with forks and shutdown.  The inductive invariant says where  *)
(* a request can be and what its link and w->work look like there: it is   *)
(* from these two fields that uv_cancel decides.                           *)
(***************************************************************************)
EXTENDS ThreadPool, QueueProofs, FiniteSetTheorems

USE PoolAssumption DEF PoolAssumption

-----------------------------------------------------------------------------
(* The inductive invariant *)

Sleepers == {w \in Workers : pc[w] \in {"waiting", "woken"}}
SlowHolders == {w \in Workers : isSlow[w]}
Registered(l) == {r \in Reqs : Owner[r] = l /\ life[r] \in {"submitted", "lost"}}

\* The counters bound, or are, the sets they stand for.
Counters ==
    /\ Cardinality(Sleepers) <= idle
    /\ Cardinality(SlowHolders) <= slowRunning /\ slowRunning <= Threshold
    /\ \A l \in Loops : activeReqs[l] = Cardinality(Registered(l))
    /\ \A w \in Workers : pc[w] = "working" /\ cur[w] \in SlowReqs => isSlow[w]

FastEntries == (Reqs \ SlowReqs) \union {SLOW, EXIT}

\* Each queue holds what belongs there, once.
Queued ==
    /\ wq \in Seq(FastEntries) /\ Distinct(wq)
    /\ slowPending \in Seq(SlowReqs) /\ Distinct(slowPending)
    /\ \A l \in Loops : Distinct(loopWq[l]) /\ Distinct(local[l])
    /\ \A l \in Loops, r \in Reqs : ~(Contains(loopWq[l], r) /\ Contains(local[l], r))
    /\ shutdown \in {"no", "called"} => ~Contains(wq, EXIT)
    /\ once /\ slowPending # <<>> => Contains(wq, SLOW)

\* What a request looks like where it is.
Waits(r) == life[r] = "submitted" /\ work[r] = "fn" /\ node[r] = "linked"
Executes(r) == life[r] = "submitted" /\ work[r] = "fn" /\ node[r] = "init"
Returns(r) == life[r] = "submitted" /\ work[r] # "fn" /\ node[r] = "linked"

Members ==
    /\ once => \A r \in Reqs : Contains(wq, r) \/ Contains(slowPending, r) => Waits(r)
    /\ ~once => \A w \in Workers : pc[w] \in {"none", "gone"}
    /\ \A w \in Workers : pc[w] \in {"working", "send"} => cur[w] \in Reqs
    /\ \A w \in Workers : pc[w] = "working" => Executes(cur[w])
    /\ \A w, v \in Workers :
         pc[w] = "working" /\ pc[v] = "working" /\ cur[w] = cur[v] => w = v
    /\ \A l \in Loops, r \in Reqs :
         (Contains(loopWq[l], r) \/ Contains(local[l], r)) => Owner[r] = l /\ Returns(r)

\* What has happened to a submitted request, and to a delivered one.
Account(r) ==
      /\ life[r] = "submitted" =>
           /\ dones[r] = 0
           /\ ~InFlight(Owner[r], r) => node[r] # "loose"
           /\ runs[r] = IF node[r] = "init" \/ work[r] = "null" THEN 1 ELSE 0
           /\ work[r] = "cancelled" => node[r] # "init"
           /\ ~InFlight(Owner[r], r) => (cancelled[r] <=> work[r] = "cancelled")
           /\ InFlight(Owner[r], r) => work[r] # "null" /\ node[r] = "loose"
      /\ life[r] = "done" =>
           /\ dones[r] = 1
           /\ cancelled[r] <=> verdict[r] = "canceled"
           /\ runs[r] = IF cancelled[r] THEN 0 ELSE 1

Accounts == \A r \in Reqs : Account(r)

\* A loop thread inside uv_cancel has a submitted request of its own in hand.
Caller(l) ==
      /\ lpc[l] \in {"cancelCheck", "cancelPublish"} =>
           /\ creq[l] \in Reqs /\ Owner[creq[l]] = l /\ life[creq[l]] = "submitted"
           /\ back[l] \in {"program", "callback"}
      /\ \/ lpc[l] \in {"program", "drain"}
         \/ lpc[l] \in {"cancelCheck", "cancelPublish"} /\ back[l] = "program"
         => local[l] = <<>>

Callers == \A l \in Loops : Caller(l)

IInv == TypeOK /\ Counters /\ Queued /\ Members /\ Accounts /\ Callers

-----------------------------------------------------------------------------
(* Facts about single pieces *)

USE DEF pool, threads, links, loopVars, process, history

LEMMA Finite ==
    /\ \A S \in SUBSET Workers : IsFiniteSet(S) /\ Cardinality(S) \in Nat
    /\ \A S \in SUBSET Reqs : IsFiniteSet(S) /\ Cardinality(S) \in Nat
    /\ Threshold \in Nat /\ Threshold >= 1
<1>1. /\ \A S \in SUBSET Workers : IsFiniteSet(S)
      /\ \A S \in SUBSET Reqs : IsFiniteSet(S)
  BY FS_Subset DEF PoolAssumption
<1>2. \A S : IsFiniteSet(S) => Cardinality(S) \in Nat
  BY FS_CardinalityType
<1>3. Cardinality(Workers) \in Nat /\ Cardinality(Workers) # 0
  BY <1>1, <1>2, FS_EmptySet DEF PoolAssumption
<1>4. Threshold \in Nat /\ Threshold >= 1
  BY <1>3 DEF Threshold
<1> QED BY <1>1, <1>2, <1>4

\* A signal changes one thread at most, from waiting to woken.
Woken(p, q) ==
    /\ q \in [Workers -> PcStates]
    /\ \A w \in Workers : q[w] = p[w] \/ (p[w] = "waiting" /\ q[w] = "woken")

LEMMA SignalWakes ==
    ASSUME NEW p \in [Workers -> PcStates], NEW q,
           q \in Signalled(p) \/ q \in SignalledIfIdle(p) \/ q = p
    PROVE  Woken(p, q)
  BY DEF Woken, Signalled, SignalledIfIdle, PcStates

LEMMA PoolPcType ==
    ASSUME TypeOK PROVE PoolPc \in [Workers -> PcStates]
  BY DEF TypeOK, PoolPc, PcStates

\* What post does to the two queues and the threads.
LEMMA PostFacts ==
    ASSUME TypeOK, Queued, Members,
           NEW x \in Reqs \union {EXIT}, Post(x),
           x \in Reqs => life[x] # "submitted",
           x = EXIT => once /\ shutdown = "called"
    PROVE  /\ Woken(PoolPc, pc')
           /\ wq' \in Seq(FastEntries) /\ Distinct(wq')
           /\ slowPending' \in Seq(SlowReqs) /\ Distinct(slowPending')
           /\ slowPending' # <<>> => Contains(wq', SLOW)
           /\ \A y : Contains(wq', y) \/ Contains(slowPending', y) =>
                \/ y = x \/ y = SLOW
                \/ once /\ (Contains(wq, y) \/ Contains(slowPending, y))
           /\ Contains(wq', EXIT) => x = EXIT \/ Contains(wq, EXIT)
<1>1. /\ <<>> \in Seq(FastEntries) /\ <<>> \in Seq(SlowReqs)
      /\ \A y : ~Contains(<<>>, y)
      /\ Distinct(<<>>)
  BY EmptySeq DEF Contains, Distinct
<1>2. /\ PoolWq \in Seq(FastEntries) /\ Distinct(PoolWq)
      /\ PoolSlow \in Seq(SlowReqs) /\ Distinct(PoolSlow)
      /\ PoolSlow # <<>> => Contains(PoolWq, SLOW)
      /\ \A y : Contains(PoolWq, y) \/ Contains(PoolSlow, y) =>
           once /\ (Contains(wq, y) \/ Contains(slowPending, y))
      /\ Contains(PoolWq, EXIT) => Contains(wq, EXIT)
  BY <1>1 DEF Queued, PoolWq, PoolSlow
<1>3. ~Contains(PoolWq, x) /\ ~Contains(PoolSlow, x)
  <2>1. CASE x \in Reqs
    BY <1>2, <2>1 DEF Members, Waits
  <2>2. CASE x = EXIT
    <3>1. ~Contains(PoolWq, EXIT)
      BY <1>2, <2>2 DEF Queued
    <3>2. ~Contains(PoolSlow, EXIT)
      BY <1>2, PoolAssumption, ElementOfSeq DEF Contains, PoolAssumption
    <3> QED BY <2>2, <3>1, <3>2
  <2> QED BY <2>1, <2>2
<1>4. Woken(PoolPc, pc')
  BY PoolPcType, SignalWakes DEF Post
<1>5. CASE x \in SlowReqs
  <2>1. slowPending' = Append(PoolSlow, x)
    BY <1>5 DEF Post
  <2>2. /\ slowPending' \in Seq(SlowReqs) /\ Distinct(slowPending')
        /\ \A y : Contains(slowPending', y) <=> Contains(PoolSlow, y) \/ y = x
    BY <1>2, <1>3, <1>5, <2>1, AppendQueue
  <2>3. IF Contains(PoolWq, SLOW) THEN wq' = PoolWq ELSE wq' = Append(PoolWq, SLOW)
    BY <1>5 DEF Post
  <2>4. /\ wq' \in Seq(FastEntries) /\ Distinct(wq') /\ Contains(wq', SLOW)
        /\ \A y : Contains(wq', y) => Contains(PoolWq, y) \/ y = SLOW
    <3>1. SLOW \in FastEntries
      BY DEF FastEntries
    <3>2. CASE Contains(PoolWq, SLOW)
      BY <1>2, <2>3, <3>2
    <3>3. CASE ~Contains(PoolWq, SLOW)
      <4>1. /\ Append(PoolWq, SLOW) \in Seq(FastEntries) /\ Distinct(Append(PoolWq, SLOW))
            /\ \A y : Contains(Append(PoolWq, SLOW), y) <=> Contains(PoolWq, y) \/ y = SLOW
        BY <1>2, <3>1, <3>3, AppendQueue
      <4>2. wq' = Append(PoolWq, SLOW)
        BY <2>3, <3>3
      <4> HIDE DEF PoolWq
      <4> QED BY <4>1, <4>2
    <3> QED BY <3>2, <3>3
  <2> QED BY <1>2, <1>4, <2>2, <2>4 DEF PoolAssumption
<1>6. CASE x \notin SlowReqs
  <2>1. slowPending' = PoolSlow /\ wq' = Append(PoolWq, x)
    BY <1>6 DEF Post
  <2>2. x \in FastEntries
    BY <1>6 DEF FastEntries
  <2>3. /\ wq' \in Seq(FastEntries) /\ Distinct(wq')
        /\ \A y : Contains(wq', y) <=> Contains(PoolWq, y) \/ y = x
    BY <1>2, <1>3, <2>1, <2>2, AppendQueue
  <2> QED BY <1>2, <1>4, <2>1, <2>3
<1> QED BY <1>5, <1>6

-----------------------------------------------------------------------------
(* The initial state *)

LEMMA InitInv == Init => IInv
<1> SUFFICES ASSUME Init PROVE IInv
  OBVIOUS
<1>1. /\ <<>> \in Seq(FastEntries) /\ <<>> \in Seq(SlowReqs) /\ <<>> \in Seq(Reqs) /\ <<>> \in Seq(Entries)
      /\ \A y : ~Contains(<<>>, y)
      /\ Distinct(<<>>)
  BY EmptySeq DEF Contains, Distinct
<1>2. TypeOK
  BY <1>1 DEF Init, TypeOK, PcStates, LpcStates
<1>3. Counters
  <2>1. Sleepers = {} /\ SlowHolders = {} /\ \A l \in Loops : Registered(l) = {}
    BY DEF Init, Sleepers, SlowHolders, Registered
  <2> QED BY <2>1, FS_EmptySet, Finite DEF Init, Counters
<1>4. Queued /\ Members
  BY <1>1 DEF Init, Queued, Members
<1>5. Accounts /\ Callers
  BY DEF Init, Accounts, Account, Callers, Caller
<1> QED BY <1>2, <1>3, <1>4, <1>5 DEF IInv

-----------------------------------------------------------------------------
(* The steps of a pool thread *)

\* What the steps that leave the requests and the loops alone preserve.
LEMMA RequestsUntouched ==
    ASSUME Accounts, Callers, UNCHANGED <<links, history, lpc, back, creq, local>>
    PROVE  Accounts' /\ Callers'
  BY DEF Accounts, Account, Callers, Caller, InFlight

LEMMA LockStep ==
    ASSUME IInv, NEW w \in Workers, Lock(w) PROVE IInv'
<1>1. TypeOK'
  <2>1. slowRunning' \in Nat
    <3>2. IsFiniteSet(SlowHolders) /\ Cardinality(SlowHolders) \in Nat
      BY Finite DEF SlowHolders
    <3>1. isSlow[w] => Cardinality(SlowHolders) >= 1
      <4>1. isSlow[w] => SlowHolders # {}
        BY DEF SlowHolders
      <4> QED BY <3>2, <4>1, FS_EmptySet
    <3> QED BY <3>1, <3>2 DEF Lock, IInv, TypeOK, Counters
  <2> QED BY <2>1 DEF Lock, IInv, TypeOK, PcStates
<1>2. Counters'
  <2>1. Sleepers' = Sleepers /\ \A l \in Loops : Registered(l)' = Registered(l)
    BY DEF Lock, IInv, TypeOK, Sleepers, Registered
  <2>2. SlowHolders' = SlowHolders \ {w}
    BY DEF Lock, IInv, TypeOK, SlowHolders
  <2>3. Cardinality(SlowHolders') = IF isSlow[w] THEN Cardinality(SlowHolders) - 1 ELSE Cardinality(SlowHolders)
    BY <2>2, Finite, FS_RemoveElement DEF SlowHolders
  <2>4. Cardinality(SlowHolders) \in Nat
    BY Finite DEF SlowHolders
  <2>5. /\ Cardinality(SlowHolders') <= slowRunning' /\ slowRunning' <= Threshold
    BY <2>3, <2>4, Finite DEF Lock, IInv, TypeOK, Counters
  <2>6. \A v \in Workers : pc'[v] = "working" /\ cur'[v] \in SlowReqs => isSlow'[v]
    BY DEF Lock, IInv, TypeOK, Counters
  <2> QED BY <2>1, <2>5, <2>6 DEF Lock, IInv, Counters
<1>3. Queued' /\ Members'
  BY DEF Lock, IInv, TypeOK, Queued, Members, Waits, Executes, Returns
<1>4. Accounts' /\ Callers'
  BY RequestsUntouched DEF Lock, IInv
<1> QED BY <1>1, <1>2, <1>3, <1>4 DEF IInv

LEMMA SleepStep ==
    ASSUME IInv, NEW w \in Workers, Sleep(w) PROVE IInv'
<1>1. TypeOK'
  BY DEF Sleep, IInv, TypeOK, PcStates
<1>2. Counters'
  <2>1. SlowHolders' = SlowHolders /\ \A l \in Loops : Registered(l)' = Registered(l)
    BY DEF Sleep, SlowHolders, Registered
  <2>2. Sleepers' = Sleepers \union {w} /\ w \notin Sleepers
    BY DEF Sleep, IInv, TypeOK, Sleepers
  <2>3. Cardinality(Sleepers') = Cardinality(Sleepers) + 1 /\ Cardinality(Sleepers) \in Nat
    BY <2>2, Finite, FS_AddElement DEF Sleepers
  <2>4. Cardinality(Sleepers') <= idle'
    BY <2>3 DEF Sleep, IInv, TypeOK, Counters
  <2>5. \A v \in Workers : pc'[v] = "working" /\ cur'[v] \in SlowReqs => isSlow'[v]
    BY DEF Sleep, IInv, TypeOK, Counters
  <2> QED BY <2>1, <2>4, <2>5 DEF Sleep, IInv, Counters
<1>3. Queued' /\ Members'
  BY DEF Sleep, IInv, TypeOK, Queued, Members, Waits, Executes, Returns
<1>4. Accounts' /\ Callers'
  BY RequestsUntouched DEF Sleep, IInv
<1> QED BY <1>1, <1>2, <1>3, <1>4 DEF IInv

LEMMA SpuriousWakeupStep ==
    ASSUME IInv, NEW w \in Workers, SpuriousWakeup(w) PROVE IInv'
<1>1. TypeOK'
  BY DEF SpuriousWakeup, IInv, TypeOK, PcStates
<1>2. Counters'
  <2>1. /\ SlowHolders' = SlowHolders /\ Sleepers' = Sleepers
        /\ \A l \in Loops : Registered(l)' = Registered(l)
    BY DEF SpuriousWakeup, IInv, TypeOK, SlowHolders, Sleepers, Registered
  <2>2. \A v \in Workers : pc'[v] = "working" /\ cur'[v] \in SlowReqs => isSlow'[v]
    BY DEF SpuriousWakeup, IInv, TypeOK, Counters
  <2> QED BY <2>1, <2>2 DEF SpuriousWakeup, IInv, Counters
<1>3. Queued' /\ Members'
  <2>1. \A v \in Workers : /\ pc'[v] = "working" => pc[v] = "working"
                           /\ pc'[v] = "send" => pc[v] = "send"
    BY DEF SpuriousWakeup, IInv, TypeOK
  <2>2. once
    BY DEF SpuriousWakeup, IInv, Members
  <2> QED BY <2>1, <2>2 DEF SpuriousWakeup, IInv, Queued, Members, Waits, Executes, Returns
<1>4. Accounts' /\ Callers'
  BY RequestsUntouched DEF SpuriousWakeup, IInv
<1> QED BY <1>1, <1>2, <1>3, <1>4 DEF IInv

LEMMA WakeStep ==
    ASSUME IInv, NEW w \in Workers, Wake(w) PROVE IInv'
<1>1. w \in Sleepers /\ Sleepers' = Sleepers \ {w}
  BY DEF Wake, IInv, TypeOK, Sleepers
<1>2. /\ Cardinality(Sleepers') = Cardinality(Sleepers) - 1
      /\ Cardinality(Sleepers) \in Nat /\ Cardinality(Sleepers) >= 1
  <2>1. IsFiniteSet(Sleepers) /\ Cardinality(Sleepers) \in Nat
    BY Finite DEF Sleepers
  <2>2. Cardinality(Sleepers') = Cardinality(Sleepers) - 1
    BY <1>1, <2>1, FS_RemoveElement
  <2>3. Cardinality(Sleepers) # 0
    BY <1>1, <2>1, FS_EmptySet
  <2> QED BY <2>1, <2>2, <2>3
<1>3. idle' \in Nat /\ Cardinality(Sleepers') <= idle'
  BY <1>2 DEF Wake, IInv, TypeOK, Counters
<1>4. TypeOK'
  BY <1>3 DEF Wake, IInv, TypeOK, PcStates
<1>5. Counters'
  <2>1. SlowHolders' = SlowHolders /\ \A l \in Loops : Registered(l)' = Registered(l)
    BY DEF Wake, SlowHolders, Registered
  <2>2. \A v \in Workers : pc'[v] = "working" /\ cur'[v] \in SlowReqs => isSlow'[v]
    BY DEF Wake, IInv, TypeOK, Counters
  <2> QED BY <1>3, <2>1, <2>2 DEF Wake, IInv, Counters
<1>6. Queued' /\ Members'
  BY DEF Wake, IInv, TypeOK, Queued, Members, Waits, Executes, Returns
<1>7. Accounts' /\ Callers'
  BY RequestsUntouched DEF Wake, IInv
<1> QED BY <1>4, <1>5, <1>6, <1>7 DEF IInv

LEMMA ExitStep ==
    ASSUME IInv, NEW w \in Workers, Exit(w) PROVE IInv'
<1> DEFINE p == [pc EXCEPT ![w] = "exited"]
<1>1. p \in [Workers -> PcStates]
  BY DEF IInv, TypeOK, PcStates
<1>2. Woken(p, pc')
  BY <1>1, SignalWakes DEF Exit
<1>3. pc[w] = "top"
  BY DEF Exit, AtHead
<1>4. TypeOK'
  BY <1>2 DEF Exit, IInv, TypeOK, Woken
<1>5. Counters'
  <2>1. /\ SlowHolders' = SlowHolders /\ Sleepers' = Sleepers
        /\ \A l \in Loops : Registered(l)' = Registered(l)
    BY <1>2, <1>3 DEF Exit, IInv, TypeOK, Woken, SlowHolders, Sleepers, Registered
  <2>2. \A v \in Workers : pc'[v] = "working" /\ cur'[v] \in SlowReqs => isSlow'[v]
    BY ZenonT(60), <1>2 DEF Exit, IInv, TypeOK, Counters, Woken
  <2> QED BY <2>1, <2>2 DEF Exit, IInv, Counters
<1>6. Queued' /\ Members'
  <2>1. \A v \in Workers : /\ pc'[v] = "working" => pc[v] = "working"
                           /\ pc'[v] = "send" => pc[v] = "send"
    BY <1>2 DEF IInv, TypeOK, Woken
  <2>2. once
    BY <1>3 DEF IInv, Members
  <2> QED BY <2>1, <2>2 DEF Exit, IInv, Queued, Members, Waits, Executes, Returns
<1>7. Accounts' /\ Callers'
  BY RequestsUntouched DEF Exit, IInv
<1> QED BY <1>4, <1>5, <1>6, <1>7 DEF IInv

\* A request that waits in a queue is in no other hands, and has not run.
LEMMA WaitingRequest ==
    ASSUME IInv, once, NEW r \in Reqs, Contains(wq, r) \/ Contains(slowPending, r)
    PROVE  /\ Waits(r) /\ runs[r] = 0 /\ ~cancelled[r]
           /\ \A l \in Loops : ~InFlight(l, r)
           /\ \A l \in Loops : ~Contains(loopWq[l], r) /\ ~Contains(local[l], r)
           /\ \A w \in Workers : pc[w] = "working" => cur[w] # r
<1>1. Waits(r)
  BY DEF IInv, Members
<1>2. \A l \in Loops : ~InFlight(l, r)
  BY <1>1 DEF IInv, Callers, Caller, Accounts, Account, Account, InFlight, Waits
<1>3. runs[r] = 0 /\ ~cancelled[r]
  BY <1>1, <1>2 DEF IInv, Accounts, Account, Waits, TypeOK
<1>4. \A l \in Loops : ~Contains(loopWq[l], r) /\ ~Contains(local[l], r)
  BY <1>1 DEF IInv, Members, Waits, Returns
<1>5. \A w \in Workers : pc[w] = "working" => cur[w] # r
  BY <1>1 DEF IInv, Members, Waits, Executes
<1> QED BY <1>1, <1>2, <1>3, <1>4, <1>5

\* What Execute makes of the requests and the loops, for a waiting request
\* that has left its queue.
LEMMA ExecuteFacts ==
    ASSUME IInv, NEW w \in Workers, NEW r \in Reqs, once,
           Contains(wq, r) \/ Contains(slowPending, r),
           Execute(w, r),
           pc' \in [Workers -> PcStates], pc[w] = "top", pc'[w] = "working",
           \A v \in Workers \ {w} : pc'[v] = pc[v] \/ (pc[v] = "waiting" /\ pc'[v] = "woken"),
           \A y \in Reqs : Contains(wq', y) \/ Contains(slowPending', y) =>
              y # r /\ (Contains(wq, y) \/ Contains(slowPending, y))
    PROVE  Members' /\ Accounts' /\ Callers'
<1>0. /\ Waits(r) /\ runs[r] = 0 /\ ~cancelled[r]
      /\ \A l \in Loops : ~InFlight(l, r)
      /\ \A l \in Loops : ~Contains(loopWq[l], r) /\ ~Contains(local[l], r)
      /\ \A v \in Workers : pc[v] = "working" => cur[v] # r
  BY WaitingRequest
<1>1. /\ node' = [node EXCEPT ![r] = "init"] /\ cur' = [cur EXCEPT ![w] = r]
      /\ runs' = [runs EXCEPT ![r] = @ + 1]
      /\ UNCHANGED <<once, work, life, loopWq, local, lpc, back, creq, dones, verdict, cancelled>>
  BY DEF Execute
<1>2. Members'
  <2>1. \A y \in Reqs : Contains(wq', y) \/ Contains(slowPending', y) => Waits(y)'
    BY <1>1 DEF IInv, TypeOK, Members, Waits
  <2>2. \A v \in Workers : pc'[v] \in {"working", "send"} => cur'[v] \in Reqs
    BY <1>1 DEF IInv, TypeOK, Members
  <2>3. \A v \in Workers : pc'[v] = "working" => Executes(cur[v])'
    <3> SUFFICES ASSUME NEW v \in Workers, pc'[v] = "working" PROVE Executes(cur[v])'
      OBVIOUS
    <3>1. CASE v = w
      BY <1>0, <1>1, <3>1 DEF IInv, TypeOK, Waits, Executes
    <3>2. CASE v # w
      <4>1. pc[v] = "working" /\ cur'[v] = cur[v] /\ cur[v] \in Reqs /\ cur[v] # r
        BY <1>0, <1>1, <3>2 DEF IInv, TypeOK, Members
      <4> QED BY <1>1, <4>1 DEF IInv, TypeOK, Members, Executes
    <3> QED BY <3>1, <3>2
  <2>4. \A u, v \in Workers :
          pc'[u] = "working" /\ pc'[v] = "working" /\ cur'[u] = cur'[v] => u = v
    BY <1>0, <1>1 DEF IInv, TypeOK, Members
  <2>5. \A l \in Loops, y \in Reqs :
          (Contains(loopWq'[l], y) \/ Contains(local'[l], y)) => Owner[y] = l /\ Returns(y)'
    BY <1>0, <1>1 DEF IInv, TypeOK, Members, Returns
  <2> QED BY <1>1, <2>1, <2>2, <2>3, <2>4, <2>5 DEF Members
<1>3. Accounts'
  <2> SUFFICES ASSUME NEW y \in Reqs PROVE Account(y)'
    BY DEF Accounts
  <2>1. CASE y = r
    BY <1>0, <1>1, <2>1 DEF IInv, TypeOK, Accounts, Account, Waits, InFlight
  <2>2. CASE y # r
    BY <1>1, <2>2 DEF IInv, TypeOK, Accounts, Account, InFlight
  <2> QED BY <2>1, <2>2
<1>4. Callers'
  BY <1>1 DEF IInv, Callers, Caller
<1> QED BY <1>2, <1>3, <1>4

LEMMA HeadFacts ==
    ASSUME IInv, NEW w \in Workers, NEW x, AtHead(w, x)
    PROVE  /\ once /\ pc[w] = "top" /\ Contains(wq, x)
           /\ Tail(wq) \in Seq(FastEntries) /\ Distinct(Tail(wq)) /\ ~Contains(Tail(wq), x)
           /\ \A y : Contains(wq, y) <=> Contains(Tail(wq), y) \/ y = x
<1>1. pc[w] = "top" /\ wq # <<>> /\ Head(wq) = x
  BY DEF AtHead, MustWait
<1>2. once
  BY <1>1 DEF IInv, Members
<1>3. wq \in Seq(FastEntries) /\ Distinct(wq)
  BY DEF IInv, Queued
<1> QED BY <1>1, <1>2, <1>3, TailQueue

\* The counters after a thread at the top of its loop took a request.
LEMMA TakeCounters ==
    ASSUME IInv, NEW w \in Workers, pc[w] = "top",
           Woken([pc EXCEPT ![w] = "working"], pc'),
           UNCHANGED <<idle, activeReqs, life>>
    PROVE  /\ Cardinality(Sleepers') <= idle'
           /\ \A l \in Loops : activeReqs'[l] = Cardinality(Registered(l)')
<1>1. Sleepers' = Sleepers /\ \A l \in Loops : Registered(l)' = Registered(l)
  BY DEF IInv, TypeOK, Woken, Sleepers, Registered
<1> QED BY <1>1 DEF IInv, Counters

LEMMA TakeFastStep ==
    ASSUME IInv, NEW w \in Workers, TakeFast(w) PROVE IInv'
<1>1. PICK r \in Reqs :
         /\ AtHead(w, r) /\ wq' = Tail(wq) /\ pc' = [pc EXCEPT ![w] = "working"]
         /\ Execute(w, r) /\ UNCHANGED <<slowPending, slowRunning, isSlow>>
  BY DEF TakeFast
<1>2. /\ once /\ pc[w] = "top" /\ Contains(wq, r)
      /\ Tail(wq) \in Seq(FastEntries) /\ Distinct(Tail(wq)) /\ ~Contains(Tail(wq), r)
      /\ \A y : Contains(wq, y) <=> Contains(Tail(wq), y) \/ y = r
  BY <1>1, HeadFacts
<1>3. r \notin SlowReqs
  BY <1>2, ElementOfSeq DEF IInv, Queued, Contains, FastEntries
<1>4. ~Contains(slowPending, r)
  BY <1>3, ElementOfSeq DEF IInv, Queued, Contains
<1>5. pc' \in [Workers -> PcStates] /\ Woken([pc EXCEPT ![w] = "working"], pc')
  BY <1>1 DEF IInv, TypeOK, PcStates, Woken
<1>6. TypeOK'
  <2>1. wq' \in Seq(Entries)
    BY <1>1, <1>2, SeqMonotonic DEF Entries, FastEntries
  <2>2. /\ r \in Reqs
        /\ node' = [node EXCEPT ![r] = "init"] /\ cur' = [cur EXCEPT ![w] = r]
        /\ runs' = [runs EXCEPT ![r] = @ + 1] /\ mutex' = None
        /\ UNCHANGED <<slowPending, slowRunning, isSlow, once, idle, work, loopVars, process,
                       life, submits, dones, verdict, cancelled>>
    BY <1>1 DEF Execute
  <2>3. /\ node' \in [Reqs -> {"linked", "init", "loose"}]
        /\ cur' \in [Workers -> Reqs \union {None}] /\ runs' \in [Reqs -> Nat]
    BY <2>2 DEF IInv, TypeOK
  <2> QED BY <1>5, <2>1, <2>2, <2>3 DEF IInv, TypeOK
<1>7. Counters'
  <2>1. SlowHolders' = SlowHolders
    BY <1>1 DEF SlowHolders
  <2>2. \A v \in Workers : pc'[v] = "working" /\ cur'[v] \in SlowReqs => isSlow'[v]
    BY <1>1, <1>3 DEF Execute, IInv, TypeOK, Counters
  <2>3. UNCHANGED <<idle, activeReqs, life>>
    BY <1>1 DEF Execute
  <2>4. /\ Cardinality(Sleepers') <= idle'
        /\ \A l \in Loops : activeReqs'[l] = Cardinality(Registered(l)')
    BY <1>2, <1>5, <2>3, TakeCounters
  <2> QED BY <1>1, <2>1, <2>2, <2>4 DEF IInv, Counters
<1>8. Queued'
  <2>1. once /\ slowPending # <<>> => Contains(Tail(wq), SLOW)
    BY <1>2 DEF IInv, Queued
  <2> QED BY <1>1, <1>2, <2>1 DEF Execute, IInv, Queued
<1>9. Members' /\ Accounts' /\ Callers'
  <2>1. \A y \in Reqs : Contains(wq', y) \/ Contains(slowPending', y) =>
              y # r /\ (Contains(wq, y) \/ Contains(slowPending, y))
    BY <1>1, <1>2, <1>4
  <2>2. pc'[w] = "working" /\ \A v \in Workers \ {w} : pc'[v] = pc[v]
    BY <1>1 DEF IInv, TypeOK
  <2> QED BY <1>1, <1>2, <1>5, <2>1, <2>2, ExecuteFacts
<1> QED BY <1>6, <1>7, <1>8, <1>9 DEF IInv

LEMMA TakeSlowStep ==
    ASSUME IInv, NEW w \in Workers, TakeSlow(w) PROVE IInv'
<1> DEFINE r == Head(slowPending)
           p == [pc EXCEPT ![w] = "working"]
<1>1. /\ AtHead(w, SLOW) /\ ~AtThreshold /\ slowPending # <<>>
      /\ slowRunning' = slowRunning + 1
      /\ slowPending' = Tail(slowPending)
      /\ isSlow' = [isSlow EXCEPT ![w] = TRUE]
      /\ Execute(w, r)
  BY DEF TakeSlow
<1>2. /\ once /\ pc[w] = "top"
      /\ Tail(wq) \in Seq(FastEntries) /\ Distinct(Tail(wq)) /\ ~Contains(Tail(wq), SLOW)
      /\ \A y : Contains(wq, y) <=> Contains(Tail(wq), y) \/ y = SLOW
  BY <1>1, HeadFacts
<1>3. /\ r \in SlowReqs /\ Contains(slowPending, r)
      /\ Tail(slowPending) \in Seq(SlowReqs) /\ Distinct(Tail(slowPending))
      /\ ~Contains(Tail(slowPending), r)
      /\ \A y : Contains(slowPending, y) <=> Contains(Tail(slowPending), y) \/ y = r
  <2>1. slowPending \in Seq(SlowReqs) /\ Distinct(slowPending)
    BY DEF IInv, Queued
  <2> QED BY <1>1, <2>1, TailQueue
<1> HIDE DEF r
<1>4. /\ Woken(p, pc')
      /\ wq' \in Seq(FastEntries) /\ Distinct(wq')
      /\ \A y : Contains(wq', y) => Contains(wq, y)
      /\ slowPending' # <<>> => Contains(wq', SLOW)
  <2>1. p \in [Workers -> PcStates]
    BY DEF IInv, TypeOK, PcStates
  <2>2. CASE Tail(slowPending) # <<>>
    <3>1. wq' = Append(Tail(wq), SLOW) /\ pc' \in SignalledIfIdle(p)
      BY <2>2 DEF TakeSlow
    <3>2. /\ wq' \in Seq(FastEntries) /\ Distinct(wq')
          /\ \A y : Contains(wq', y) <=> Contains(Tail(wq), y) \/ y = SLOW
      <4> DEFINE t == Tail(wq)
      <4>1. SLOW \in FastEntries
        BY DEF FastEntries
      <4>2. t \in Seq(FastEntries) /\ Distinct(t) /\ ~Contains(t, SLOW)
        BY <1>2
      <4> HIDE DEF t
      <4>3. /\ Append(t, SLOW) \in Seq(FastEntries) /\ Distinct(Append(t, SLOW))
            /\ \A y : Contains(Append(t, SLOW), y) <=> Contains(t, y) \/ y = SLOW
        BY <4>1, <4>2, AppendQueue
      <4> QED BY <3>1, <4>3 DEF t
    <3>3. Woken(p, pc')
      BY <2>1, <3>1, SignalWakes
    <3> QED BY <1>2, <3>2, <3>3
  <2>3. CASE Tail(slowPending) = <<>>
    <3>1. wq' = Tail(wq) /\ pc' = p
      BY <2>3 DEF TakeSlow
    <3>2. Woken(p, pc')
      BY <2>1, <3>1, SignalWakes
    <3> QED BY <1>1, <1>2, <2>3, <3>1, <3>2
  <2> QED BY <2>2, <2>3
<1>5. r \in Reqs /\ ~Contains(wq, r)
  BY <1>3, ElementOfSeq DEF IInv, Queued, Contains, FastEntries
<1>6. pc' \in [Workers -> PcStates]
  BY <1>4 DEF Woken
<1>7. TypeOK'
  <2>1. wq' \in Seq(Entries)
    BY <1>4, SeqMonotonic DEF Entries, FastEntries
  <2>2. slowPending' \in Seq(Reqs)
    BY <1>1, <1>3, SeqMonotonic
  <2>3. /\ slowRunning' \in Nat /\ isSlow' \in [Workers -> BOOLEAN]
        /\ mutex' = None
    BY <1>1 DEF Execute, IInv, TypeOK
  <2>4. /\ node' \in [Reqs -> {"linked", "init", "loose"}]
        /\ cur' \in [Workers -> Reqs \union {None}] /\ runs' \in [Reqs -> Nat]
    <3>1. /\ node' = [node EXCEPT ![r] = "init"] /\ cur' = [cur EXCEPT ![w] = r]
          /\ runs' = [runs EXCEPT ![r] = runs[r] + 1]
      BY <1>1 DEF Execute
    <3>2. /\ node \in [Reqs -> {"linked", "init", "loose"}] /\ runs \in [Reqs -> Nat]
          /\ cur \in [Workers -> Reqs \union {None}] /\ r \in Reqs
      BY <1>5 DEF IInv, TypeOK
    <3>3. runs[r] + 1 \in Nat
      BY <3>2
    <3> QED BY <3>1, <3>2, <3>3
  <2>5. UNCHANGED <<once, idle, work, loopVars, process, life, submits, dones, verdict, cancelled>>
    BY <1>1 DEF Execute
  <2> HIDE DEF p
  <2> QED BY <1>6, <2>1, <2>2, <2>3, <2>4, <2>5 DEF IInv, TypeOK
<1>8. Counters'
  <2>1. SlowHolders' = SlowHolders \union {w}
    BY <1>1 DEF SlowHolders, IInv, TypeOK
  <2>2. Cardinality(SlowHolders') <= Cardinality(SlowHolders) + 1 /\ Cardinality(SlowHolders) \in Nat
    <3>1. IsFiniteSet(SlowHolders) /\ Cardinality(SlowHolders) \in Nat
      BY Finite DEF SlowHolders
    <3>2. Cardinality(SlowHolders \union {w}) =
            IF w \in SlowHolders THEN Cardinality(SlowHolders) ELSE Cardinality(SlowHolders) + 1
      BY <3>1, FS_AddElement
    <3> QED BY <2>1, <3>1, <3>2
  <2>3. \A v \in Workers : pc'[v] = "working" /\ cur'[v] \in SlowReqs => isSlow'[v]
    BY ZenonT(60), <1>1, <1>4 DEF Execute, IInv, TypeOK, Counters, Woken
  <2>4. UNCHANGED <<idle, activeReqs, life>>
    BY <1>1 DEF Execute
  <2>5. /\ Cardinality(Sleepers') <= idle'
        /\ \A l \in Loops : activeReqs'[l] = Cardinality(Registered(l)')
    BY <1>2, <1>4, <2>4, TakeCounters
  <2>6. Cardinality(SlowHolders') <= slowRunning' /\ slowRunning' <= Threshold
    <3>1. Cardinality(SlowHolders') \in Nat
      BY Finite DEF SlowHolders
    <3> QED BY <1>1, <2>2, <3>1, Finite DEF IInv, TypeOK, Counters, AtThreshold
  <2> QED BY <2>3, <2>5, <2>6 DEF Counters
<1>9. Queued'
  BY <1>1, <1>3, <1>4 DEF Execute, IInv, Queued
<1>10. Members' /\ Accounts' /\ Callers'
  <2>1. \A y \in Reqs : Contains(wq', y) \/ Contains(slowPending', y) =>
              y # r /\ (Contains(wq, y) \/ Contains(slowPending, y))
    BY <1>1, <1>3, <1>4, <1>5
  <2>2. /\ pc'[w] = "working"
        /\ \A v \in Workers \ {w} : pc'[v] = pc[v] \/ (pc[v] = "waiting" /\ pc'[v] = "woken")
    BY <1>4 DEF IInv, TypeOK, Woken
  <2> QED BY <1>1, <1>2, <1>3, <1>5, <1>6, <2>1, <2>2, ExecuteFacts
<1> QED BY <1>7, <1>8, <1>9, <1>10 DEF IInv

LEMMA MarkerStep ==
    ASSUME IInv, NEW w \in Workers, Requeue(w) \/ DropMarker(w) PROVE IInv'
<1>1. /\ AtHead(w, SLOW)
      /\ UNCHANGED <<once, mutex, slowPending, idle, slowRunning, threads, links, loopVars, process, history>>
  BY DEF Requeue, DropMarker
<1>2. /\ once
      /\ Tail(wq) \in Seq(FastEntries) /\ Distinct(Tail(wq)) /\ ~Contains(Tail(wq), SLOW)
      /\ \A y : Contains(wq, y) <=> Contains(Tail(wq), y) \/ y = SLOW
  BY <1>1, HeadFacts
<1>3. /\ wq' \in Seq(FastEntries) /\ Distinct(wq')
      /\ \A y : Contains(wq', y) => Contains(wq, y)
      /\ slowPending # <<>> => Contains(wq', SLOW)
  <2>1. CASE Requeue(w)
    <3> DEFINE t == Tail(wq)
    <3>1. SLOW \in FastEntries /\ wq' = Append(t, SLOW)
      BY <2>1 DEF FastEntries, Requeue
    <3>2. t \in Seq(FastEntries) /\ Distinct(t) /\ ~Contains(t, SLOW)
      BY <1>2
    <3>3. \A y : Contains(wq, y) <=> Contains(t, y) \/ y = SLOW
      BY <1>2
    <3> HIDE DEF t
    <3>4. /\ Append(t, SLOW) \in Seq(FastEntries) /\ Distinct(Append(t, SLOW))
          /\ \A y : Contains(Append(t, SLOW), y) <=> Contains(t, y) \/ y = SLOW
      BY <3>1, <3>2, AppendQueue
    <3> QED BY <3>1, <3>3, <3>4
  <2>2. CASE DropMarker(w)
    BY <1>2, <2>2 DEF DropMarker
  <2> QED BY <2>1, <2>2
<1>4. TypeOK'
  <2>1. wq' \in Seq(Entries)
    BY <1>3, SeqMonotonic DEF Entries, FastEntries
  <2> QED BY <1>1, <2>1 DEF IInv, TypeOK
<1>5. Counters'
  BY <1>1 DEF IInv, Counters, Sleepers, SlowHolders, Registered
<1>6. Queued' /\ Members'
  BY <1>1, <1>2, <1>3 DEF IInv, Queued, Members, Waits, Executes, Returns
<1>7. Accounts' /\ Callers'
  BY <1>1, RequestsUntouched DEF IInv
<1> QED BY <1>4, <1>5, <1>6, <1>7 DEF IInv

LEMMA FinishStep ==
    ASSUME IInv, NEW w \in Workers, Finish(w) PROVE IInv'
<1> DEFINE r == cur[w]
           l == Owner[r]
<1>1. /\ pc[w] = "working" /\ once
      /\ r \in Reqs /\ l \in Loops /\ Executes(r)
      /\ \A v \in Workers : v # w /\ pc[v] = "working" => cur[v] # r
  BY DEF Finish, IInv, Members
<1>2. /\ wqMutex' = [wqMutex EXCEPT ![l] = w]
      /\ work' = [work EXCEPT ![r] = "null"] /\ node' = [node EXCEPT ![r] = "linked"]
      /\ loopWq' = [loopWq EXCEPT ![l] = Append(loopWq[l], r)]
      /\ pc' = [pc EXCEPT ![w] = "send"]
      /\ UNCHANGED <<pool, cur, isSlow, asyncPending, local, lpc, back, creq, activeReqs, process, history>>
  BY DEF Finish
<1> HIDE DEF r, l
<1>3. /\ loopWq[l] \in Seq(Reqs) /\ Distinct(loopWq[l])
      /\ \A k \in Loops : ~Contains(loopWq[k], r) /\ ~Contains(local[k], r)
  BY <1>1 DEF IInv, TypeOK, Queued, Members, Executes, Returns
<1>4. /\ Append(loopWq[l], r) \in Seq(Reqs) /\ Distinct(Append(loopWq[l], r))
      /\ \A y : Contains(Append(loopWq[l], r), y) <=> Contains(loopWq[l], y) \/ y = r
  <2> DEFINE q == loopWq[l]
  <2>1. q \in Seq(Reqs) /\ Distinct(q) /\ ~Contains(q, r)
    BY <1>1, <1>3
  <2> HIDE DEF q
  <2>2. /\ Append(q, r) \in Seq(Reqs) /\ Distinct(Append(q, r))
        /\ \A y : Contains(Append(q, r), y) <=> Contains(q, y) \/ y = r
    BY <1>1, <2>1, AppendQueue
  <2> QED BY <2>2 DEF q
<1>5. TypeOK'
  BY <1>1, <1>2, <1>4 DEF IInv, TypeOK, PcStates
<1>6. Counters'
  <2>1. SlowHolders' = SlowHolders /\ Sleepers' = Sleepers /\ \A k \in Loops : Registered(k)' = Registered(k)
    BY <1>1, <1>2 DEF IInv, TypeOK, SlowHolders, Sleepers, Registered
  <2> QED BY <1>2, <2>1 DEF IInv, TypeOK, Counters
<1>7. \A k \in Loops, y \in Reqs : Contains(loopWq'[k], y) <=>
         Contains(loopWq[k], y) \/ (k = l /\ y = r)
  BY <1>1, <1>2, <1>4 DEF IInv, TypeOK
<1>8. Queued'
  <2>1. \A k \in Loops : Distinct(loopWq'[k])
    BY <1>1, <1>2, <1>4 DEF IInv, TypeOK, Queued
  <2> QED BY <1>2, <1>3, <1>7, <2>1 DEF IInv, Queued
<1>9. Members'
  <2>1. \A y \in Reqs : Contains(wq, y) \/ Contains(slowPending, y) => Waits(y)'
    <3> SUFFICES ASSUME NEW y \in Reqs, Contains(wq, y) \/ Contains(slowPending, y)
                 PROVE  Waits(y)'
      OBVIOUS
    <3>1. Waits(y) /\ y # r
      BY <1>1 DEF IInv, Members, Waits, Executes
    <3> QED BY <1>2, <3>1 DEF IInv, TypeOK, Waits
  <2>2. \A v \in Workers : pc'[v] = "working" => Executes(cur[v])'
    BY <1>1, <1>2 DEF IInv, TypeOK, Members, Executes
  <2>3. \A k \in Loops, y \in Reqs :
          (Contains(loopWq'[k], y) \/ Contains(local[k], y)) => Owner[y] = k /\ Returns(y)'
    <3> SUFFICES ASSUME NEW k \in Loops, NEW y \in Reqs, Contains(loopWq'[k], y) \/ Contains(local[k], y)
                 PROVE  Owner[y] = k /\ Returns(y)'
      OBVIOUS
    <3>1. CASE y = r
      BY <1>1, <1>2, <1>3, <1>7, <3>1 DEF IInv, TypeOK, Executes, Returns, l
    <3>2. CASE y # r
      BY <1>2, <1>7, <3>2 DEF IInv, TypeOK, Members, Returns
    <3> QED BY <3>1, <3>2
  <2>4. /\ \A v \in Workers : pc'[v] \in {"working", "send"} => cur[v] \in Reqs
        /\ \A u, v \in Workers : pc'[u] = "working" /\ pc'[v] = "working" /\ cur[u] = cur[v] => u = v
    BY SMTT(30), <1>1, <1>2 DEF IInv, TypeOK, Members
  <2> QED BY <1>1, <1>2, <2>1, <2>2, <2>3, <2>4 DEF Members
<1>10. Accounts'
  <2> SUFFICES ASSUME NEW y \in Reqs PROVE Account(y)'
    BY DEF Accounts
  <2>1. CASE y = r
    BY <1>1, <1>2, <2>1 DEF IInv, TypeOK, Accounts, Account, Executes, InFlight
  <2>2. CASE y # r
    BY <1>2, <2>2 DEF IInv, TypeOK, Accounts, Account, InFlight
  <2> QED BY <2>1, <2>2
<1>11. Callers'
  BY <1>2 DEF IInv, Callers, Caller
<1> QED BY <1>5, <1>6, <1>8, <1>9, <1>10, <1>11 DEF IInv

LEMMA AnnounceStep ==
    ASSUME IInv, NEW w \in Workers, Announce(w) PROVE IInv'
<1>1. /\ pc[w] = "send" /\ cur[w] \in Reqs /\ Owner[cur[w]] \in Loops /\ once
  BY DEF Announce, IInv, Members
<1>2. TypeOK'
  BY <1>1 DEF Announce, IInv, TypeOK, PcStates
<1>3. Counters'
  <2>1. SlowHolders' = SlowHolders /\ Sleepers' = Sleepers /\ \A k \in Loops : Registered(k)' = Registered(k)
    BY <1>1 DEF Announce, IInv, TypeOK, SlowHolders, Sleepers, Registered
  <2>2. \A v \in Workers : pc'[v] = "working" /\ cur'[v] \in SlowReqs => isSlow'[v]
    BY DEF Announce, IInv, TypeOK, Counters
  <2> QED BY <2>1, <2>2 DEF Announce, IInv, Counters
<1>4. \A v \in Workers : /\ pc'[v] = "working" => pc[v] = "working" /\ cur'[v] = cur[v]
                         /\ pc'[v] = "send" => pc[v] = "send" /\ cur'[v] = cur[v]
  BY DEF Announce, IInv, TypeOK
<1>5. Queued' /\ Members'
  BY <1>1, <1>4 DEF Announce, IInv, Queued, Members, Waits, Executes, Returns
<1>6. Accounts' /\ Callers'
  BY RequestsUntouched DEF Announce, IInv
<1> QED BY <1>2, <1>3, <1>5, <1>6 DEF IInv

-----------------------------------------------------------------------------
(* The steps of a loop thread *)

\* The steps in which uv__work_done moves on and nothing else changes.
LEMMA DeliverStep ==
    ASSUME IInv, NEW l \in Loops, AsyncFire(l) \/ Return(l) \/ WorkDone(l) PROVE IInv'
<1>1. /\ UNCHANGED <<pool, threads, links, wqMutex, loopWq, local, back, creq, activeReqs, process, history>>
      /\ \/ lpc[l] = "program" /\ lpc' = [lpc EXCEPT ![l] = "drain"]
         \/ lpc[l] = "callback" /\ lpc' = [lpc EXCEPT ![l] = "next"]
         \/ lpc[l] = "next" /\ local[l] = <<>> /\ lpc' = [lpc EXCEPT ![l] = "program"]
      /\ asyncPending' \in [Loops -> BOOLEAN]
  BY DEF AsyncFire, Return, WorkDone, IInv, TypeOK
<1>2. TypeOK'
  <2>1. lpc' \in [Loops -> LpcStates]
    BY <1>1 DEF IInv, TypeOK, LpcStates
  <2>2. /\ UNCHANGED <<once, mutex, wqMutex, wq, slowPending, idle, slowRunning, pc, cur, isSlow, work,
                       node, loopWq, local, back, creq, activeReqs, shutdown, forks>>
        /\ UNCHANGED <<life, submits, runs, dones, verdict, cancelled>>
    BY <1>1 DEF pool, threads, links, process, history
  <2> QED BY <1>1, <2>1, <2>2 DEF IInv, TypeOK
<1>3. Counters' /\ Queued' /\ Members'
  BY <1>1 DEF IInv, Counters, Queued, Members, Sleepers, SlowHolders, Registered, Waits, Executes, Returns
<1>4. \A k \in Loops, r \in Reqs : InFlight(k, r)' <=> InFlight(k, r)
  BY <1>1 DEF IInv, TypeOK, InFlight
<1>5. Accounts'
  BY <1>1, <1>4 DEF IInv, TypeOK, Accounts, Account
<1>6. Callers'
  <2> SUFFICES ASSUME NEW k \in Loops PROVE Caller(k)'
    BY DEF Callers
  <2>1. Caller(k)
    BY DEF IInv, Callers
  <2>2. lpc'[k] = lpc[k] \/ (k = l /\ lpc'[k] \in {"drain", "next", "program"})
    BY <1>1 DEF IInv, TypeOK
  <2>3. k = l /\ lpc'[k] \in {"drain", "program"} => local[k] = <<>>
    BY <1>1, <2>1 DEF IInv, TypeOK, Caller
  <2> QED BY <1>1, <2>1, <2>2, <2>3 DEF Caller
<1> QED BY <1>2, <1>3, <1>5, <1>6 DEF IInv

LEMMA DrainStep ==
    ASSUME IInv, NEW l \in Loops, Drain(l) PROVE IInv'
<1>1. /\ lpc[l] = "drain" /\ local[l] = <<>>
      /\ local' = [local EXCEPT ![l] = loopWq[l]] /\ loopWq' = [loopWq EXCEPT ![l] = <<>>]
      /\ lpc' = [lpc EXCEPT ![l] = "next"]
      /\ UNCHANGED <<pool, threads, links, wqMutex, asyncPending, back, creq, activeReqs, process, history>>
  BY DEF Drain, IInv, Callers, Caller
<1>2. <<>> \in Seq(Reqs) /\ Distinct(<<>>) /\ \A y : ~Contains(<<>>, y)
  BY EmptySeq DEF Distinct, Contains
<1>3. TypeOK'
  BY <1>1, <1>2 DEF IInv, TypeOK, LpcStates
<1>4. Counters'
  BY <1>1 DEF IInv, Counters, Sleepers, SlowHolders, Registered
<1>5. \A k \in Loops, y \in Reqs :
        /\ Contains(local'[k], y) => Contains(loopWq[k], y) \/ Contains(local[k], y)
        /\ Contains(loopWq'[k], y) => Contains(loopWq[k], y)
        /\ ~(Contains(loopWq'[k], y) /\ Contains(local'[k], y))
  BY <1>1, <1>2 DEF IInv, TypeOK, Queued
<1>6. Queued'
  <2>1. \A k \in Loops : Distinct(loopWq'[k]) /\ Distinct(local'[k])
    BY <1>1, <1>2 DEF IInv, TypeOK, Queued
  <2> QED BY <1>1, <1>5, <2>1 DEF IInv, Queued
<1>7. Members'
  BY <1>1, <1>5 DEF IInv, Members, Waits, Executes, Returns
<1>8. \A k \in Loops, r \in Reqs : InFlight(k, r)' <=> InFlight(k, r)
  BY <1>1 DEF IInv, TypeOK, InFlight
<1>9. Accounts'
  BY <1>1, <1>8 DEF IInv, TypeOK, Accounts, Account
<1>10. Callers'
  <2> SUFFICES ASSUME NEW k \in Loops PROVE Caller(k)'
    BY DEF Callers
  <2>1. Caller(k)
    BY DEF IInv, Callers
  <2>2. CASE k = l
    BY <1>1, <2>2 DEF IInv, TypeOK, Caller
  <2>3. CASE k # l
    <3>1. lpc'[k] = lpc[k] /\ local'[k] = local[k]
      BY <1>1, <2>3 DEF IInv, TypeOK
    <3> QED BY <1>1, <2>1, <3>1 DEF Caller
  <2> QED BY <2>2, <2>3
<1> QED BY <1>3, <1>4, <1>6, <1>7, <1>9, <1>10 DEF IInv

LEMMA CompleteStep ==
    ASSUME IInv, NEW l \in Loops, Complete(l) PROVE IInv'
<1> DEFINE q == local[l]
           r == Head(q)
<1>1. /\ lpc[l] = "next" /\ q # <<>>
      /\ node' = [node EXCEPT ![r] = "loose"]
      /\ verdict' = [verdict EXCEPT ![r] = IF work[r] = "cancelled" THEN "canceled" ELSE "ok"]
      /\ dones' = [dones EXCEPT ![r] = dones[r] + 1]
      /\ life' = [life EXCEPT ![r] = "done"]
      /\ local' = [local EXCEPT ![l] = Tail(q)]
      /\ activeReqs' = [activeReqs EXCEPT ![l] = activeReqs[l] - 1]
      /\ lpc' = [lpc EXCEPT ![l] = "callback"]
      /\ UNCHANGED <<pool, threads, work, wqMutex, loopWq, asyncPending, back, creq,
                     process, submits, runs, cancelled>>
  BY DEF Complete
<1>2. /\ r \in Reqs /\ Contains(q, r) /\ Tail(q) \in Seq(Reqs)
      /\ \A y : Contains(q, y) <=> Contains(Tail(q), y) \/ y = r
      /\ Distinct(Tail(q)) /\ ~Contains(Tail(q), r)
  <2>1. q \in Seq(Reqs) /\ Distinct(q)
    BY DEF IInv, TypeOK, Queued
  <2> HIDE DEF q
  <2> QED BY <1>1, <2>1, TailQueue
<1>3. /\ Owner[r] = l /\ Returns(r) /\ ~Contains(loopWq[l], r)
      /\ \A k \in Loops : ~InFlight(k, r)
  BY <1>2 DEF IInv, Members, Queued, Accounts, Account, Returns, InFlight, Callers, Caller
<1> HIDE DEF r
<1>4. /\ r \in Registered(l) /\ Registered(l)' = Registered(l) \ {r}
      /\ \A k \in Loops : k # l => Registered(k)' = Registered(k)
  BY <1>1, <1>2, <1>3 DEF IInv, TypeOK, Registered, Returns
<1>5. /\ Cardinality(Registered(l)') = Cardinality(Registered(l)) - 1
      /\ Cardinality(Registered(l)) \in Nat /\ Cardinality(Registered(l)') \in Nat
  <2>1. IsFiniteSet(Registered(l)) /\ Cardinality(Registered(l)) \in Nat
    BY Finite DEF Registered
  <2>2. Cardinality(Registered(l)') \in Nat
    BY Finite DEF Registered
  <2> QED BY <1>4, <2>1, <2>2, FS_RemoveElement
<1>6. \A k \in Loops : activeReqs'[k] = Cardinality(Registered(k)')
  BY <1>1, <1>4, <1>5 DEF IInv, TypeOK, Counters
<1>7. TypeOK'
  <2>1. activeReqs' \in [Loops -> Nat]
    BY <1>1, <1>5, <1>6 DEF IInv, TypeOK, Counters
  <2>2. /\ dones' \in [Reqs -> Nat] /\ node' \in [Reqs -> {"linked", "init", "loose"}]
        /\ life' \in [Reqs -> {"fresh", "submitted", "done", "lost"}]
        /\ verdict' \in [Reqs -> {"none", "ok", "canceled"}]
    <3>1. /\ dones \in [Reqs -> Nat] /\ node \in [Reqs -> {"linked", "init", "loose"}]
          /\ life \in [Reqs -> {"fresh", "submitted", "done", "lost"}]
          /\ verdict \in [Reqs -> {"none", "ok", "canceled"}] /\ r \in Reqs
      BY <1>2 DEF IInv, TypeOK
    <3>2. dones[r] + 1 \in Nat
      BY <3>1
    <3> QED BY <1>1, <3>1, <3>2
  <2>3. local' \in [Loops -> Seq(Reqs)] /\ lpc' \in [Loops -> LpcStates]
    BY <1>1, <1>2 DEF IInv, TypeOK, LpcStates
  <2> QED BY <1>1, <2>1, <2>2, <2>3 DEF IInv, TypeOK
<1>8. Counters'
  BY <1>1, <1>6 DEF IInv, Counters, Sleepers, SlowHolders
<1>9. \A k \in Loops, y \in Reqs : Contains(local'[k], y) => Contains(local[k], y) /\ y # r
  <2>1. \A k \in Loops : k # l => ~Contains(local[k], r)
    BY <1>2, <1>3 DEF IInv, Members
  <2>2. \A k \in Loops : local'[k] = IF k = l THEN Tail(q) ELSE local[k]
    BY <1>1 DEF IInv, TypeOK
  <2> HIDE DEF q
  <2>3. \A y \in Reqs : Contains(Tail(q), y) => Contains(local[l], y) /\ y # r
    BY <1>2 DEF q
  <2> QED BY <2>1, <2>2, <2>3
<1>10. Queued'
  <2>1. \A k \in Loops : Distinct(local'[k])
    BY <1>1, <1>2 DEF IInv, TypeOK, Queued
  <2> QED BY <1>1, <1>9, <2>1 DEF IInv, Queued
<1>11. Members'
  <2>1. once => \A y \in Reqs : Contains(wq, y) \/ Contains(slowPending, y) => Waits(y)'
    <3> SUFFICES ASSUME once, NEW y \in Reqs, Contains(wq, y) \/ Contains(slowPending, y)
                 PROVE  Waits(y)'
      OBVIOUS
    <3>1. Waits(y) /\ y # r
      BY <1>3 DEF IInv, Members, Waits, Returns
    <3> QED BY <1>1, <3>1 DEF IInv, TypeOK, Waits
  <2>2. \A v \in Workers : pc[v] = "working" => Executes(cur[v])'
    <3> SUFFICES ASSUME NEW v \in Workers, pc[v] = "working" PROVE Executes(cur[v])'
      OBVIOUS
    <3>1. Executes(cur[v]) /\ cur[v] # r /\ cur[v] \in Reqs
      BY <1>3 DEF IInv, Members, Executes, Returns
    <3> QED BY <1>1, <3>1 DEF IInv, TypeOK, Executes
  <2>3. \A k \in Loops, y \in Reqs :
          (Contains(loopWq[k], y) \/ Contains(local'[k], y)) => Owner[y] = k /\ Returns(y)'
    <3> SUFFICES ASSUME NEW k \in Loops, NEW y \in Reqs, Contains(loopWq[k], y) \/ Contains(local'[k], y)
                 PROVE  Owner[y] = k /\ Returns(y)'
      OBVIOUS
    <3>1. Owner[y] = k /\ Returns(y)
      BY <1>9 DEF IInv, Members
    <3>2. y # r
      BY <1>3, <1>9, <3>1
    <3> QED BY <1>1, <3>1, <3>2 DEF IInv, TypeOK, Returns
  <2> QED BY <1>1, <2>1, <2>2, <2>3 DEF IInv, Members
<1>12. \A k \in Loops, y \in Reqs : InFlight(k, y)' <=> InFlight(k, y)
  BY <1>1 DEF IInv, TypeOK, InFlight
<1>13. Accounts'
  <2> SUFFICES ASSUME NEW y \in Reqs PROVE Account(y)'
    BY DEF Accounts
  <2>1. CASE y = r
    <3>1. /\ life'[r] = "done" /\ dones'[r] = dones[r] + 1
          /\ verdict'[r] = IF work[r] = "cancelled" THEN "canceled" ELSE "ok"
      BY <1>1, <1>2 DEF IInv, TypeOK
    <3>2. /\ dones[r] = 0 /\ (cancelled[r] <=> work[r] = "cancelled")
          /\ runs[r] = IF work[r] = "null" THEN 1 ELSE 0
          /\ work[r] \in {"null", "cancelled"}
      BY <1>2, <1>3 DEF IInv, TypeOK, Accounts, Account, Returns
    <3> QED BY <1>1, <2>1, <3>1, <3>2 DEF Account
  <2>2. CASE y # r
    <3>1. /\ life'[y] = life[y] /\ dones'[y] = dones[y]
          /\ verdict'[y] = verdict[y] /\ node'[y] = node[y]
      BY <1>1, <2>2 DEF IInv, TypeOK
    <3>2. Account(y) /\ Owner[y] \in Loops
      BY DEF IInv, Accounts
    <3> QED BY <1>1, <1>12, <3>1, <3>2 DEF Account
  <2> QED BY <2>1, <2>2
<1>14. Callers'
  <2> SUFFICES ASSUME NEW k \in Loops PROVE Caller(k)'
    BY DEF Callers
  <2>1. CASE k = l
    BY <1>1, <2>1 DEF IInv, TypeOK, Caller
  <2>2. CASE k # l
    <3>1. lpc'[k] = lpc[k] /\ local'[k] = local[k]
      BY <1>1, <2>2 DEF IInv, TypeOK
    <3>2. ASSUME lpc[k] \in {"cancelCheck", "cancelPublish"} PROVE life'[creq[k]] = life[creq[k]]
      <4>1. creq[k] \in Reqs /\ Owner[creq[k]] = k
        BY <3>2 DEF IInv, Callers, Caller
      <4>2. creq[k] # r
        BY <1>3, <2>2, <4>1
      <4> QED BY <1>1, <4>1, <4>2 DEF IInv, TypeOK
    <3> QED BY <1>1, <3>1, <3>2 DEF IInv, Callers, Caller
  <2> QED BY <2>1, <2>2
<1> QED BY <1>7, <1>8, <1>10, <1>11, <1>13, <1>14 DEF IInv

\* Queues and threads after uv_once, for a caller that posts nothing.
LEMMA OnceFacts ==
    ASSUME TypeOK, Queued, Members,
           once' = TRUE, wq' = PoolWq, slowPending' = PoolSlow, pc' = PoolPc
    PROVE  /\ wq' \in Seq(FastEntries) /\ Distinct(wq')
           /\ slowPending' \in Seq(SlowReqs) /\ Distinct(slowPending')
           /\ pc' \in [Workers -> PcStates]
           /\ \A y : Contains(wq', y) \/ Contains(slowPending', y) =>
                once /\ (Contains(wq, y) \/ Contains(slowPending, y))
           /\ Contains(wq', EXIT) => Contains(wq, EXIT)
           /\ slowPending' # <<>> => Contains(wq', SLOW)
<1>1. /\ <<>> \in Seq(FastEntries) /\ <<>> \in Seq(SlowReqs)
      /\ \A y : ~Contains(<<>>, y)
      /\ Distinct(<<>>)
  BY EmptySeq DEF Contains, Distinct
<1> QED BY <1>1, PoolPcType DEF Queued, PoolWq, PoolSlow

\* The threads that uv_once starts hold nothing.
LEMMA PoolPcFacts ==
    ASSUME IInv, Woken(PoolPc, pc')
    PROVE  /\ {w \in Workers : pc'[w] \in {"waiting", "woken"}} = Sleepers
           /\ \A w \in Workers : /\ pc'[w] = "working" => pc[w] = "working"
                                 /\ pc'[w] = "send" => pc[w] = "send"
<1>1. PoolPc \in [Workers -> PcStates]
  BY PoolPcType DEF IInv
<1>2. \A w \in Workers :
        /\ PoolPc[w] \in {"waiting", "woken"} <=> pc[w] \in {"waiting", "woken"}
        /\ PoolPc[w] = "working" => pc[w] = "working"
        /\ PoolPc[w] = "send" => pc[w] = "send"
  BY DEF IInv, TypeOK, Members, PoolPc
<1>3. \A w \in Workers : pc'[w] \in {"waiting", "woken"} <=> pc[w] \in {"waiting", "woken"}
  BY <1>1, <1>2 DEF Woken
<1> QED BY <1>2, <1>3 DEF Woken, Sleepers

\* What the threads have in hand stays what it is while they stay there.
LEMMA HandsKept ==
    ASSUME Counters, Members, cur' = cur, isSlow' = isSlow,
           \A w \in Workers : pc'[w] = "working" => pc[w] = "working",
           \A w \in Workers : pc'[w] = "send" => pc[w] = "send"
    PROVE  /\ \A w \in Workers : pc'[w] = "working" /\ cur'[w] \in SlowReqs => isSlow'[w]
           /\ \A w \in Workers : pc'[w] \in {"working", "send"} => cur'[w] \in Reqs
           /\ \A w \in Workers : pc'[w] = "working" => Executes(cur[w]) /\ cur[w] \in Reqs
           /\ \A w, v \in Workers :
                pc'[w] = "working" /\ pc'[v] = "working" /\ cur'[w] = cur'[v] => w = v
<1>1. \A w \in Workers : pc'[w] = "working" /\ cur'[w] \in SlowReqs => isSlow'[w]
  BY DEF Counters
<1>2. \A w \in Workers : pc'[w] \in {"working", "send"} => cur'[w] \in Reqs
  BY DEF Members
<1>3. \A w \in Workers : pc'[w] = "working" => Executes(cur[w]) /\ cur[w] \in Reqs
  BY DEF Members
<1>4. \A w, v \in Workers :
        pc'[w] = "working" /\ pc'[v] = "working" /\ cur'[w] = cur'[v] => w = v
  BY DEF Members
<1> QED BY <1>1, <1>2, <1>3, <1>4

LEMMA CancelLockStep ==
    ASSUME IInv, CancelScope = {"submitted"}, NEW r \in Reqs, CancelLock(r) PROVE IInv'
<1> DEFINE l == Owner[r]
<1>1. /\ l \in Loops /\ lpc[l] \in {"program", "callback"} /\ life[r] = "submitted"
      /\ once' = TRUE /\ mutex' = l
      /\ wq' = PoolWq /\ slowPending' = PoolSlow /\ pc' = PoolPc
      /\ creq' = [creq EXCEPT ![l] = r] /\ back' = [back EXCEPT ![l] = lpc[l]]
      /\ lpc' = [lpc EXCEPT ![l] = "cancelCheck"]
      /\ UNCHANGED <<idle, slowRunning, cur, isSlow, links, wqMutex, loopWq,
                     asyncPending, local, activeReqs, process, history>>
  BY DEF CancelLock, Program
<1> HIDE DEF l
<1>2. /\ wq' \in Seq(FastEntries) /\ Distinct(wq')
      /\ slowPending' \in Seq(SlowReqs) /\ Distinct(slowPending')
      /\ pc' \in [Workers -> PcStates]
      /\ \A y : Contains(wq', y) \/ Contains(slowPending', y) =>
           once /\ (Contains(wq, y) \/ Contains(slowPending, y))
      /\ Contains(wq', EXIT) => Contains(wq, EXIT)
      /\ slowPending' # <<>> => Contains(wq', SLOW)
  BY <1>1, OnceFacts DEF IInv
<1>3. TypeOK'
  <2>1. wq' \in Seq(Entries) /\ slowPending' \in Seq(Reqs)
    BY <1>2, SeqMonotonic DEF Entries, FastEntries
  <2>2. /\ lpc' \in [Loops -> LpcStates] /\ back' \in [Loops -> LpcStates]
        /\ creq' \in [Loops -> Reqs \union {None}]
    BY <1>1 DEF IInv, TypeOK, LpcStates
  <2> QED BY <1>1, <1>2, <2>1, <2>2 DEF IInv, TypeOK
<1>4. Sleepers' = Sleepers
  BY <1>1, <1>2, PoolPcFacts DEF Woken, Sleepers
<1>hands. /\ \A w \in Workers : pc'[w] = "working" /\ cur'[w] \in SlowReqs => isSlow'[w]
          /\ \A w \in Workers : pc'[w] \in {"working", "send"} => cur'[w] \in Reqs
          /\ \A w \in Workers : pc'[w] = "working" => Executes(cur[w]) /\ cur[w] \in Reqs
          /\ \A w, v \in Workers :
               pc'[w] = "working" /\ pc'[v] = "working" /\ cur'[w] = cur'[v] => w = v
  <2>1. /\ \A w \in Workers : pc'[w] = "working" => pc[w] = "working"
        /\ \A w \in Workers : pc'[w] = "send" => pc[w] = "send"
    BY <1>1, <1>2, PoolPcFacts DEF Woken
  <2>2. Counters /\ Members /\ cur' = cur /\ isSlow' = isSlow
    BY <1>1 DEF IInv
  <2> QED BY <2>1, <2>2, HandsKept
<1>5. Counters'
  <2>1. SlowHolders' = SlowHolders /\ \A k \in Loops : Registered(k)' = Registered(k)
    BY <1>1 DEF SlowHolders, Registered
  <2>2. \A w \in Workers : pc'[w] = "working" /\ cur'[w] \in SlowReqs => isSlow'[w]
    BY <1>hands
  <2> QED BY <1>1, <1>4, <2>1, <2>2 DEF IInv, Counters
<1>6. Queued'
  BY <1>1, <1>2 DEF IInv, Queued
<1>7. Members'
  <2>1. \A y \in Reqs : Contains(wq', y) \/ Contains(slowPending', y) => Waits(y)'
    BY <1>1, <1>2 DEF IInv, Members, Waits
  <2>2. /\ \A w \in Workers : pc'[w] \in {"working", "send"} => cur'[w] \in Reqs
        /\ \A w \in Workers : pc'[w] = "working" => Executes(cur[w])'
        /\ \A w, v \in Workers :
             pc'[w] = "working" /\ pc'[v] = "working" /\ cur'[w] = cur'[v] => w = v
    BY <1>1, <1>hands DEF Executes
  <2>3. \A k \in Loops, y \in Reqs :
          (Contains(loopWq'[k], y) \/ Contains(local'[k], y)) => Owner[y] = k /\ Returns(y)'
    BY <1>1 DEF IInv, Members, Returns
  <2> QED BY <1>1, <2>1, <2>2, <2>3 DEF Members
<1>8. \A k \in Loops, y \in Reqs : InFlight(k, y)' <=> InFlight(k, y)
  BY <1>1 DEF IInv, TypeOK, InFlight
<1>9. Accounts'
  BY <1>1, <1>8 DEF IInv, Accounts, Account
<1>10. Callers'
  <2> SUFFICES ASSUME NEW k \in Loops PROVE Caller(k)'
    BY DEF Callers
  <2>1. Caller(k)
    BY DEF IInv, Callers
  <2>2. CASE k = l
    BY <1>1, <2>1, <2>2 DEF IInv, TypeOK, Caller, l
  <2>3. CASE k # l
    BY <1>1, <2>1, <2>3 DEF IInv, TypeOK, Caller
  <2> QED BY <2>2, <2>3
<1> QED BY <1>3, <1>5, <1>6, <1>7, <1>9, <1>10 DEF IInv

LEMMA CancelPublishStep ==
    ASSUME IInv, NEW l \in Loops, CancelPublish(l) PROVE IInv'
<1> DEFINE r == creq[l]
           q == loopWq[l]
<1>1. /\ lpc[l] = "cancelPublish"
      /\ work' = [work EXCEPT ![r] = "cancelled"]
      /\ node' = [node EXCEPT ![r] = "linked"]
      /\ loopWq' = [loopWq EXCEPT ![l] = Append(q, r)]
      /\ cancelled' = [cancelled EXCEPT ![r] = TRUE]
      /\ asyncPending' = [asyncPending EXCEPT ![l] = TRUE]
      /\ lpc' = [lpc EXCEPT ![l] = back[l]]
      /\ creq' = [creq EXCEPT ![l] = None]
      /\ UNCHANGED <<pool, threads, wqMutex, local, back, activeReqs, process,
                     life, submits, runs, dones, verdict>>
  BY DEF CancelPublish
<1>2. /\ r \in Reqs /\ Owner[r] = l /\ life[r] = "submitted" /\ InFlight(l, r)
      /\ back[l] \in {"program", "callback"}
      /\ work[r] # "null" /\ node[r] = "loose"
  BY <1>1 DEF IInv, Callers, Caller, InFlight, Accounts, Account
<1>3. /\ \A k \in Loops : ~Contains(loopWq[k], r) /\ ~Contains(local[k], r)
      /\ once => ~Contains(wq, r) /\ ~Contains(slowPending, r)
      /\ \A v \in Workers : pc[v] = "working" => cur[v] # r
  BY <1>2 DEF IInv, Members, Waits, Executes, Returns
<1>4. /\ Append(q, r) \in Seq(Reqs) /\ Distinct(Append(q, r))
      /\ \A y : Contains(Append(q, r), y) <=> Contains(q, y) \/ y = r
  <2>1. q \in Seq(Reqs) /\ Distinct(q) /\ ~Contains(q, r) /\ r \in Reqs
    BY <1>2, <1>3 DEF IInv, TypeOK, Queued
  <2> HIDE DEF q, r
  <2> QED BY <2>1, AppendQueue
<1> HIDE DEF r
<1>5. TypeOK'
  <2>1. loopWq' \in [Loops -> Seq(Reqs)]
    BY <1>1, <1>4 DEF IInv, TypeOK
  <2>2. /\ work' \in [Reqs -> {"fn", "null", "cancelled"}] /\ cancelled' \in [Reqs -> BOOLEAN]
        /\ node' \in [Reqs -> {"linked", "init", "loose"}] /\ asyncPending' \in [Loops -> BOOLEAN]
        /\ lpc' \in [Loops -> LpcStates] /\ creq' \in [Loops -> Reqs \union {None}]
    BY <1>1, <1>2 DEF IInv, TypeOK, LpcStates
  <2> QED BY <1>1, <2>1, <2>2 DEF IInv, TypeOK
<1>6. Counters'
  BY <1>1 DEF IInv, Counters, Sleepers, SlowHolders, Registered
<1>7. \A k \in Loops, y \in Reqs : Contains(loopWq'[k], y) <=>
         Contains(loopWq[k], y) \/ (k = l /\ y = r)
  <2>1. \A k \in Loops : loopWq'[k] = IF k = l THEN Append(q, r) ELSE loopWq[k]
    BY <1>1 DEF IInv, TypeOK
  <2> QED BY <1>4, <2>1
<1>8. Queued'
  <2>1. \A k \in Loops : Distinct(loopWq'[k])
    BY <1>1, <1>4 DEF IInv, TypeOK, Queued
  <2> QED BY <1>1, <1>3, <1>7, <2>1 DEF IInv, Queued
<1>9. \A y \in Reqs : y # r => work'[y] = work[y] /\ node'[y] = node[y] /\ cancelled'[y] = cancelled[y]
  BY <1>1 DEF IInv, TypeOK
<1>10. work'[r] = "cancelled" /\ node'[r] = "linked" /\ cancelled'[r] = TRUE
  BY <1>1, <1>2 DEF IInv, TypeOK
<1>11. Members'
  <2>1. once => \A y \in Reqs : Contains(wq, y) \/ Contains(slowPending, y) => Waits(y)'
    BY <1>1, <1>3, <1>9 DEF IInv, Members, Waits
  <2>2. \A v \in Workers : pc[v] = "working" => Executes(cur[v])'
    BY <1>1, <1>3, <1>9 DEF IInv, Members, Executes
  <2>3. \A k \in Loops, y \in Reqs :
          (Contains(loopWq'[k], y) \/ Contains(local[k], y)) => Owner[y] = k /\ Returns(y)'
    <3> SUFFICES ASSUME NEW k \in Loops, NEW y \in Reqs, Contains(loopWq'[k], y) \/ Contains(local[k], y)
                 PROVE  Owner[y] = k /\ Returns(y)'
      OBVIOUS
    <3>1. CASE y = r
      BY <1>1, <1>2, <1>3, <1>7, <1>10, <3>1 DEF Returns
    <3>2. CASE y # r
      BY <1>1, <1>7, <1>9, <3>2 DEF IInv, Members, Returns
    <3> QED BY <3>1, <3>2
  <2> QED BY <1>1, <2>1, <2>2, <2>3 DEF IInv, Members
<1>12. \A k \in Loops, y \in Reqs : InFlight(k, y)' <=> InFlight(k, y) /\ k # l
  BY <1>1, <1>2 DEF IInv, TypeOK, InFlight
<1>13. Accounts'
  <2> SUFFICES ASSUME NEW y \in Reqs PROVE Account(y)'
    BY DEF Accounts
  <2>0. Account(y) /\ Owner[y] \in Loops
    BY DEF IInv, Accounts
  <2>1. CASE y = r
    BY <1>1, <1>2, <1>10, <1>12, <2>0, <2>1 DEF Account
  <2>2. CASE y # r
    <3>1. InFlight(Owner[y], y)' <=> InFlight(Owner[y], y)
      BY <1>12, <2>0, <2>2 DEF InFlight, r
    <3> QED BY <1>1, <1>9, <2>0, <2>2, <3>1 DEF Account
  <2> QED BY <2>1, <2>2
<1>14. Callers'
  <2> SUFFICES ASSUME NEW k \in Loops PROVE Caller(k)'
    BY DEF Callers
  <2>0. Caller(k)
    BY DEF IInv, Callers
  <2>1. CASE k = l
    BY <1>1, <1>2, <2>0, <2>1 DEF IInv, TypeOK, Caller
  <2>2. CASE k # l
    BY <1>1, <2>0, <2>2 DEF IInv, TypeOK, Caller
  <2> QED BY <2>1, <2>2
<1> QED BY <1>5, <1>6, <1>8, <1>11, <1>13, <1>14 DEF IInv

LEMMA CancelCheckStep ==
    ASSUME IInv, NEW l \in Loops, CancelCheck(l) PROVE IInv'
<1> DEFINE r == creq[l]
<1>1. /\ lpc[l] = "cancelCheck" /\ mutex' = None
      /\ r \in Reqs /\ Owner[r] = l /\ life[r] = "submitted" /\ ~InFlight(l, r)
      /\ back[l] \in {"program", "callback"}
      /\ UNCHANGED <<once, idle, slowRunning, threads, work, wqMutex, asyncPending,
                     back, activeReqs, process, history>>
  BY DEF CancelCheck, IInv, Callers, Caller, InFlight
<1>2. CASE ~Cancellable(r)
  <2>1. /\ lpc' = [lpc EXCEPT ![l] = back[l]] /\ creq' = [creq EXCEPT ![l] = None]
        /\ UNCHANGED <<wq, slowPending, loopWq, local, node>>
    BY <1>2 DEF CancelCheck
  <2>2. TypeOK'
    BY <1>1, <2>1 DEF IInv, TypeOK, LpcStates
  <2>3. Counters' /\ Queued' /\ Members'
    BY <1>1, <2>1 DEF IInv, Counters, Queued, Members, Sleepers, SlowHolders, Registered,
                      Waits, Executes, Returns
  <2>4. \A k \in Loops, y \in Reqs : InFlight(k, y)' <=> InFlight(k, y)
    BY <1>1, <2>1 DEF IInv, TypeOK, InFlight
  <2>5. Accounts'
    BY <1>1, <2>1, <2>4 DEF IInv, Accounts, Account
  <2>6. Callers'
    <3> SUFFICES ASSUME NEW k \in Loops PROVE Caller(k)'
      BY DEF Callers
    <3>0. Caller(k)
      BY DEF IInv, Callers
    <3>1. CASE k = l
      BY <1>1, <2>1, <3>0, <3>1 DEF IInv, TypeOK, Caller
    <3>2. CASE k # l
      BY <1>1, <2>1, <3>0, <3>2 DEF IInv, TypeOK, Caller
    <3> QED BY <3>1, <3>2
  <2> QED BY <2>2, <2>3, <2>5, <2>6 DEF IInv
<1>3. CASE Cancellable(r)
  <2>1. /\ wq' = Unlink(wq, r) /\ slowPending' = Unlink(slowPending, r)
        /\ loopWq' = [loopWq EXCEPT ![l] = Unlink(loopWq[l], r)]
        /\ local' = [local EXCEPT ![l] = Unlink(local[l], r)]
        /\ node' = [node EXCEPT ![r] = "loose"]
        /\ lpc' = [lpc EXCEPT ![l] = "cancelPublish"]
        /\ creq' = creq
    BY <1>3 DEF CancelCheck
  <2>2. node[r] # "init" /\ work[r] # "null"
    BY <1>3 DEF Cancellable
  <2> HIDE DEF r
  <2>3. /\ wq' \in Seq(FastEntries) /\ Distinct(wq')
        /\ \A y : Contains(wq', y) => Contains(wq, y) /\ y # r
        /\ \A y : Contains(wq, y) /\ y # r => Contains(wq', y)
    <3>1. wq \in Seq(FastEntries) /\ Distinct(wq)
      BY DEF IInv, Queued
    <3> QED BY <2>1, <3>1, UnlinkQueue
  <2>4. /\ slowPending' \in Seq(SlowReqs) /\ Distinct(slowPending')
        /\ \A y : Contains(slowPending', y) => Contains(slowPending, y) /\ y # r
        /\ slowPending' # <<>> => slowPending # <<>>
    <3>1. slowPending \in Seq(SlowReqs) /\ Distinct(slowPending)
      BY DEF IInv, Queued
    <3>2. slowPending = <<>> => Unlink(slowPending, r) = <<>>
      BY EmptySeq DEF Unlink, Contains
    <3> QED BY <2>1, <3>1, <3>2, UnlinkQueue
  <2>5. /\ loopWq' \in [Loops -> Seq(Reqs)]
        /\ \A k \in Loops : Distinct(loopWq'[k])
        /\ \A k \in Loops : \A y : Contains(loopWq'[k], y) => Contains(loopWq[k], y) /\ (k = l => y # r)
    <3>1. loopWq[l] \in Seq(Reqs) /\ Distinct(loopWq[l])
      BY DEF IInv, TypeOK, Queued
    <3>2. /\ Unlink(loopWq[l], r) \in Seq(Reqs) /\ Distinct(Unlink(loopWq[l], r))
          /\ \A y : Contains(Unlink(loopWq[l], r), y) => Contains(loopWq[l], y) /\ y # r
      BY <3>1, UnlinkQueue
    <3> QED BY <2>1, <3>2 DEF IInv, TypeOK, Queued
  <2>6. /\ local' \in [Loops -> Seq(Reqs)]
        /\ \A k \in Loops : Distinct(local'[k])
        /\ \A k \in Loops : \A y : Contains(local'[k], y) => Contains(local[k], y) /\ (k = l => y # r)
        /\ \A k \in Loops : local[k] = <<>> => local'[k] = <<>>
    <3>1. local[l] \in Seq(Reqs) /\ Distinct(local[l])
      BY DEF IInv, TypeOK, Queued
    <3>2. /\ Unlink(local[l], r) \in Seq(Reqs) /\ Distinct(Unlink(local[l], r))
          /\ \A y : Contains(Unlink(local[l], r), y) => Contains(local[l], y) /\ y # r
      BY <3>1, UnlinkQueue
    <3>3. local[l] = <<>> => Unlink(local[l], r) = <<>>
      BY EmptySeq DEF Unlink, Contains
    <3> QED BY <2>1, <3>2, <3>3 DEF IInv, TypeOK, Queued
  <2>7. TypeOK'
    <3>1. wq' \in Seq(Entries) /\ slowPending' \in Seq(Reqs)
      BY <2>3, <2>4, SeqMonotonic DEF Entries, FastEntries
    <3>2. node' \in [Reqs -> {"linked", "init", "loose"}] /\ lpc' \in [Loops -> LpcStates]
      BY <1>1, <2>1 DEF IInv, TypeOK, LpcStates, r
    <3> QED BY <1>1, <2>1, <2>5, <2>6, <3>1, <3>2 DEF IInv, TypeOK
  <2>8. Counters'
    BY <1>1 DEF IInv, Counters, Sleepers, SlowHolders, Registered
  <2>9. Queued'
    <3>1. once /\ slowPending' # <<>> => Contains(wq', SLOW)
      BY <1>1, <2>3, <2>4 DEF IInv, Queued
    <3>2. shutdown \in {"no", "called"} => ~Contains(wq', EXIT)
      BY <2>3 DEF IInv, Queued
    <3> QED BY <1>1, <2>3, <2>4, <2>5, <2>6, <3>1, <3>2 DEF IInv, Queued
  <2>10. \A y \in Reqs : y # r => node'[y] = node[y]
    BY <2>1 DEF IInv, TypeOK
  <2>11. Members'
    <3>1. once => \A y \in Reqs : Contains(wq', y) \/ Contains(slowPending', y) => Waits(y)'
      BY <1>1, <2>3, <2>4, <2>10 DEF IInv, Members, Waits
    <3>2. \A v \in Workers : pc[v] = "working" => Executes(cur[v])'
      BY <1>1, <2>2, <2>10 DEF IInv, Members, Executes
    <3>3. \A k \in Loops, y \in Reqs :
            (Contains(loopWq'[k], y) \/ Contains(local'[k], y)) => Owner[y] = k /\ Returns(y)'
      <4> SUFFICES ASSUME NEW k \in Loops, NEW y \in Reqs, Contains(loopWq'[k], y) \/ Contains(local'[k], y)
                   PROVE  Owner[y] = k /\ Returns(y)'
        OBVIOUS
      <4>1. Owner[y] = k /\ Returns(y)
        BY <2>5, <2>6 DEF IInv, Members
      <4>2. y # r
        BY <1>1, <2>5, <2>6, <4>1 DEF r
      <4> QED BY <1>1, <2>10, <4>1, <4>2 DEF Returns
    <3> QED BY <1>1, <3>1, <3>2, <3>3 DEF IInv, Members
  <2>12. \A k \in Loops, y \in Reqs : InFlight(k, y)' <=> InFlight(k, y) \/ (k = l /\ y = r)
    BY <1>1, <2>1 DEF IInv, TypeOK, InFlight, r
  <2>13. Accounts'
    <3> SUFFICES ASSUME NEW y \in Reqs PROVE Account(y)'
      BY DEF Accounts
    <3>0. Account(y) /\ Owner[y] \in Loops
      BY DEF IInv, Accounts
    <3>1. CASE y = r
      <4>1. node'[y] = "loose" /\ InFlight(Owner[y], y)' /\ ~InFlight(Owner[y], y)
        BY <1>1, <2>1, <2>12, <3>1 DEF IInv, TypeOK, r
      <4> QED BY <1>1, <2>2, <3>0, <3>1, <4>1 DEF Account
    <3>2. CASE y # r
      <4>1. InFlight(Owner[y], y)' <=> InFlight(Owner[y], y)
        BY <2>12, <3>0, <3>2
      <4> QED BY <1>1, <2>10, <3>0, <3>2, <4>1 DEF Account
    <3> QED BY <3>1, <3>2
  <2>14. Callers'
    <3> SUFFICES ASSUME NEW k \in Loops PROVE Caller(k)'
      BY DEF Callers
    <3>0. Caller(k)
      BY DEF IInv, Callers
    <3>1. CASE k = l
      BY <1>1, <2>1, <2>6, <3>0, <3>1 DEF IInv, TypeOK, Caller
    <3>2. CASE k # l
      BY <1>1, <2>1, <2>6, <3>0, <3>2 DEF IInv, TypeOK, Caller
    <3> QED BY <3>1, <3>2
  <2> QED BY <2>7, <2>8, <2>9, <2>11, <2>13, <2>14 DEF IInv
<1> QED BY <1>2, <1>3

LEMMA SubmitStep ==
    ASSUME IInv, NEW r \in Reqs, Submit(r) PROVE IInv'
<1> DEFINE l == Owner[r]
<1>1. /\ l \in Loops /\ lpc[l] \in {"program", "callback"} /\ life[r] \in {"fresh", "done"}
      /\ once' = TRUE /\ mutex' = None /\ Post(r)
      /\ work' = [work EXCEPT ![r] = "fn"] /\ node' = [node EXCEPT ![r] = "linked"]
      /\ activeReqs' = [activeReqs EXCEPT ![l] = activeReqs[l] + 1]
      /\ life' = [life EXCEPT ![r] = "submitted"]
      /\ submits' = [submits EXCEPT ![r] = submits[r] + 1]
      /\ runs' = [runs EXCEPT ![r] = 0] /\ dones' = [dones EXCEPT ![r] = 0]
      /\ verdict' = [verdict EXCEPT ![r] = "none"]
      /\ cancelled' = [cancelled EXCEPT ![r] = FALSE]
      /\ UNCHANGED <<idle, slowRunning, cur, isSlow, wqMutex, loopWq, asyncPending,
                     local, lpc, back, creq, process>>
  BY DEF Submit, Program
<1> HIDE DEF l
<1>2. /\ Woken(PoolPc, pc')
      /\ wq' \in Seq(FastEntries) /\ Distinct(wq')
      /\ slowPending' \in Seq(SlowReqs) /\ Distinct(slowPending')
      /\ slowPending' # <<>> => Contains(wq', SLOW)
      /\ \A y : Contains(wq', y) \/ Contains(slowPending', y) =>
           \/ y = r \/ y = SLOW
           \/ once /\ (Contains(wq, y) \/ Contains(slowPending, y))
      /\ Contains(wq', EXIT) => r = EXIT \/ Contains(wq, EXIT)
  <2>1. r \in Reqs \union {EXIT} /\ (r \in Reqs => life[r] # "submitted") /\ r # EXIT
    BY <1>1
  <2> QED BY <1>1, <2>1, PostFacts DEF IInv
<1>3. Sleepers' = Sleepers
  BY <1>2, PoolPcFacts DEF Sleepers
<1>hands. /\ \A w \in Workers : pc'[w] = "working" /\ cur'[w] \in SlowReqs => isSlow'[w]
          /\ \A w \in Workers : pc'[w] \in {"working", "send"} => cur'[w] \in Reqs
          /\ \A w \in Workers : pc'[w] = "working" => Executes(cur[w]) /\ cur[w] \in Reqs
          /\ \A w, v \in Workers :
               pc'[w] = "working" /\ pc'[v] = "working" /\ cur'[w] = cur'[v] => w = v
  <2>1. /\ \A w \in Workers : pc'[w] = "working" => pc[w] = "working"
        /\ \A w \in Workers : pc'[w] = "send" => pc[w] = "send"
    BY <1>2, PoolPcFacts
  <2>2. Counters /\ Members /\ cur' = cur /\ isSlow' = isSlow
    BY <1>1 DEF IInv
  <2> QED BY <2>1, <2>2, HandsKept
<1>4. /\ \A k \in Loops : ~Contains(loopWq[k], r) /\ ~Contains(local[k], r)
      /\ \A v \in Workers : pc[v] = "working" => cur[v] # r
      /\ \A k \in Loops : lpc[k] \in {"cancelCheck", "cancelPublish"} => creq[k] # r
  BY <1>1 DEF IInv, Members, Waits, Executes, Returns, Callers, Caller
<1>5. /\ Registered(l)' = Registered(l) \union {r} /\ r \notin Registered(l)
      /\ \A k \in Loops : k # l => Registered(k)' = Registered(k)
  BY <1>1 DEF IInv, TypeOK, Registered, l
<1>6. Cardinality(Registered(l)') = Cardinality(Registered(l)) + 1
  <2>1. IsFiniteSet(Registered(l)) /\ Cardinality(Registered(l)) \in Nat
    BY Finite DEF Registered
  <2> QED BY <1>5, <2>1, FS_AddElement
<1>7. /\ life'[r] = "submitted" /\ work'[r] = "fn" /\ node'[r] = "linked"
      /\ runs'[r] = 0 /\ dones'[r] = 0 /\ cancelled'[r] = FALSE
      /\ \A y \in Reqs : y # r =>
           /\ life'[y] = life[y] /\ work'[y] = work[y] /\ node'[y] = node[y] /\ runs'[y] = runs[y]
           /\ dones'[y] = dones[y] /\ verdict'[y] = verdict[y] /\ cancelled'[y] = cancelled[y]
  BY <1>1 DEF IInv, TypeOK
<1>8. TypeOK'
  <2>1. wq' \in Seq(Entries) /\ slowPending' \in Seq(Reqs)
    BY <1>2, SeqMonotonic DEF Entries, FastEntries
  <2>2. activeReqs' \in [Loops -> Nat] /\ submits' \in [Reqs -> Nat]
    <3>1. /\ activeReqs \in [Loops -> Nat] /\ submits \in [Reqs -> Nat]
      BY DEF IInv, TypeOK
    <3>2. activeReqs[l] + 1 \in Nat /\ submits[r] + 1 \in Nat
      BY <1>1, <3>1
    <3> QED BY <1>1, <3>1, <3>2
  <2>3. /\ work' \in [Reqs -> {"fn", "null", "cancelled"}]
        /\ node' \in [Reqs -> {"linked", "init", "loose"}]
        /\ life' \in [Reqs -> {"fresh", "submitted", "done", "lost"}]
        /\ runs' \in [Reqs -> Nat] /\ dones' \in [Reqs -> Nat]
        /\ verdict' \in [Reqs -> {"none", "ok", "canceled"}] /\ cancelled' \in [Reqs -> BOOLEAN]
    BY <1>1 DEF IInv, TypeOK
  <2>4. pc' \in [Workers -> PcStates]
    BY <1>2 DEF Woken
  <2> QED BY <1>1, <2>1, <2>2, <2>3, <2>4 DEF IInv, TypeOK
<1>9. Counters'
  <2>1. SlowHolders' = SlowHolders
    BY <1>1 DEF SlowHolders
  <2>2. \A w \in Workers : pc'[w] = "working" /\ cur'[w] \in SlowReqs => isSlow'[w]
    BY <1>hands
  <2>3. \A k \in Loops : activeReqs'[k] = Cardinality(Registered(k)')
    BY <1>1, <1>5, <1>6 DEF IInv, TypeOK, Counters
  <2> QED BY <1>1, <1>3, <2>1, <2>2, <2>3 DEF IInv, Counters
<1>10. Queued'
  <2>1. shutdown \in {"no", "called"} => ~Contains(wq', EXIT)
    BY <1>2 DEF IInv, Queued
  <2> QED BY <1>1, <1>2, <2>1 DEF IInv, Queued
<1>11. Members'
  <2>1. \A y \in Reqs : Contains(wq', y) \/ Contains(slowPending', y) => Waits(y)'
    <3> SUFFICES ASSUME NEW y \in Reqs, Contains(wq', y) \/ Contains(slowPending', y) PROVE Waits(y)'
      OBVIOUS
    <3>1. CASE y = r
      BY <1>7, <3>1 DEF Waits
    <3>2. CASE y # r
      <4>1. Waits(y)
        BY <1>2, <3>2 DEF IInv, Members
      <4> QED BY <1>7, <3>2, <4>1 DEF Waits
    <3> QED BY <3>1, <3>2
  <2>2. \A w \in Workers : pc'[w] = "working" => Executes(cur[w])'
    <3> SUFFICES ASSUME NEW w \in Workers, pc'[w] = "working" PROVE Executes(cur[w])'
      OBVIOUS
    <3>1. Executes(cur[w]) /\ cur[w] # r /\ cur[w] \in Reqs
      BY <1>1, <1>hands DEF Executes
    <3> QED BY <1>1, <1>7, <3>1 DEF Executes
  <2>3. /\ \A w \in Workers : pc'[w] \in {"working", "send"} => cur'[w] \in Reqs
        /\ \A w, v \in Workers :
             pc'[w] = "working" /\ pc'[v] = "working" /\ cur'[w] = cur'[v] => w = v
    BY <1>hands
  <2>4. \A k \in Loops, y \in Reqs :
          (Contains(loopWq'[k], y) \/ Contains(local'[k], y)) => Owner[y] = k /\ Returns(y)'
    BY <1>1, <1>4, <1>7 DEF IInv, Members, Returns
  <2> QED BY <1>1, <2>1, <2>2, <2>3, <2>4 DEF Members
<1>12. \A k \in Loops, y \in Reqs : InFlight(k, y)' <=> InFlight(k, y)
  BY <1>1 DEF InFlight
<1>13. Accounts'
  <2> SUFFICES ASSUME NEW y \in Reqs PROVE Account(y)'
    BY DEF Accounts
  <2>0. Account(y) /\ Owner[y] \in Loops
    BY DEF IInv, Accounts
  <2>1. CASE y = r
    <3>1. ~InFlight(Owner[y], y)'
      BY <1>4, <1>12, <2>0, <2>1 DEF InFlight
    <3> QED BY <1>7, <2>1, <3>1 DEF Account
  <2>2. CASE y # r
    BY <1>7, <1>12, <2>0, <2>2 DEF Account
  <2> QED BY <2>1, <2>2
<1>14. Callers'
  <2> SUFFICES ASSUME NEW k \in Loops PROVE Caller(k)'
    BY DEF Callers
  <2>0. Caller(k)
    BY DEF IInv, Callers
  <2> QED BY <1>1, <1>4, <1>7, <2>0 DEF Caller
<1> QED BY <1>8, <1>9, <1>10, <1>11, <1>13, <1>14 DEF IInv

-----------------------------------------------------------------------------
(* The steps of the process *)

\* In a process that has started its threads the exit message is posted like a request.
LEMMA PostExitPosts ==
    ASSUME IInv, PostExit, once PROVE Post(EXIT)
  BY DEF PostExit, Post, PoolWq, PoolSlow, PoolPc

LEMMA PostExitInPool ==
    ASSUME IInv, PostExit, once PROVE IInv'
<1>1. /\ shutdown = "called" /\ once /\ Post(EXIT) /\ shutdown' = "posted"
      /\ UNCHANGED <<once, mutex, idle, slowRunning, cur, isSlow, links, loopVars, forks, history>>
  BY PostExitPosts DEF PostExit
<1>2. /\ Woken(PoolPc, pc')
      /\ wq' \in Seq(FastEntries) /\ Distinct(wq')
      /\ slowPending' \in Seq(SlowReqs) /\ Distinct(slowPending')
      /\ slowPending' # <<>> => Contains(wq', SLOW)
      /\ \A y : Contains(wq', y) \/ Contains(slowPending', y) =>
           \/ y = EXIT \/ y = SLOW
           \/ once /\ (Contains(wq, y) \/ Contains(slowPending, y))
  BY <1>1, PostFacts DEF IInv
<1>3. Sleepers' = Sleepers
  BY <1>2, PoolPcFacts DEF Sleepers
<1>4. /\ \A w \in Workers : pc'[w] = "working" /\ cur'[w] \in SlowReqs => isSlow'[w]
      /\ \A w \in Workers : pc'[w] \in {"working", "send"} => cur'[w] \in Reqs
      /\ \A w \in Workers : pc'[w] = "working" => Executes(cur[w]) /\ cur[w] \in Reqs
      /\ \A w, v \in Workers :
           pc'[w] = "working" /\ pc'[v] = "working" /\ cur'[w] = cur'[v] => w = v
  <2>1. /\ \A w \in Workers : pc'[w] = "working" => pc[w] = "working"
        /\ \A w \in Workers : pc'[w] = "send" => pc[w] = "send"
    BY <1>2, PoolPcFacts
  <2>2. Counters /\ Members /\ cur' = cur /\ isSlow' = isSlow
    BY <1>1 DEF IInv
  <2> QED BY <2>1, <2>2, HandsKept
<1>5. TypeOK'
  <2>1. wq' \in Seq(Entries) /\ slowPending' \in Seq(Reqs)
    BY <1>2, SeqMonotonic DEF Entries, FastEntries
  <2>2. pc' \in [Workers -> PcStates]
    BY <1>2 DEF Woken
  <2> QED BY <1>1, <2>1, <2>2 DEF IInv, TypeOK
<1>6. Counters'
  <2>1. SlowHolders' = SlowHolders /\ \A k \in Loops : Registered(k)' = Registered(k)
    BY <1>1 DEF SlowHolders, Registered
  <2> QED BY <1>1, <1>3, <1>4, <2>1 DEF IInv, Counters
<1>7. Queued'
  BY <1>1, <1>2 DEF IInv, Queued
<1>8. Members'
  <2>1. \A y \in Reqs : Contains(wq', y) \/ Contains(slowPending', y) => Waits(y)'
    BY <1>1, <1>2 DEF IInv, Members, Waits
  <2>2. \A w \in Workers : pc'[w] = "working" => Executes(cur[w])'
    BY <1>1, <1>4 DEF Executes
  <2>3. \A k \in Loops, y \in Reqs :
          (Contains(loopWq'[k], y) \/ Contains(local'[k], y)) => Owner[y] = k /\ Returns(y)'
    BY <1>1 DEF IInv, Members, Returns
  <2> QED BY <1>1, <1>4, <2>1, <2>2, <2>3 DEF Members
<1>9. Accounts' /\ Callers'
  BY <1>1, RequestsUntouched DEF IInv
<1> QED BY <1>5, <1>6, <1>7, <1>8, <1>9 DEF IInv

\* In a forked child without threads nobody waits, and the message only joins the queue.
LEMMA PostExitToNobody ==
    ASSUME IInv, PostExit, ~once PROVE IInv'
<1>1. /\ shutdown = "called" /\ shutdown' = "posted" /\ wq' = Append(wq, EXIT)
      /\ UNCHANGED <<once, mutex, slowPending, idle, slowRunning, cur, isSlow, links, loopVars, forks, history>>
  BY DEF PostExit
<1>2. pc' = pc
  <2>1. \A w \in Workers : pc[w] # "waiting"
    BY DEF IInv, Members
  <2> QED BY <2>1 DEF PostExit, SignalledIfIdle, Signalled
<1>3. wq' \in Seq(FastEntries) /\ Distinct(wq')
  <2>1. wq \in Seq(FastEntries) /\ Distinct(wq) /\ ~Contains(wq, EXIT) /\ EXIT \in FastEntries
    BY <1>1 DEF IInv, Queued, FastEntries
  <2> QED BY <1>1, <2>1, AppendQueue
<1>4. TypeOK'
  <2>1. wq' \in Seq(Entries)
    BY <1>3, SeqMonotonic DEF Entries, FastEntries
  <2> QED BY <1>1, <1>2, <2>1 DEF IInv, TypeOK
<1>5. Counters'
  BY <1>1, <1>2 DEF IInv, Counters, Sleepers, SlowHolders, Registered
<1>6. Queued'
  BY <1>1, <1>3 DEF IInv, Queued
<1>7. Members'
  BY <1>1, <1>2 DEF IInv, Members, Waits, Executes, Returns
<1>8. Accounts' /\ Callers'
  BY <1>1, RequestsUntouched DEF IInv
<1> QED BY <1>4, <1>5, <1>6, <1>7, <1>8 DEF IInv

LEMMA PostExitStep ==
    ASSUME IInv, PostExit PROVE IInv'
  BY PostExitInPool, PostExitToNobody

\* The other steps of uv_library_shutdown, which touch nothing of the pool.
LEMMA ShutdownStep ==
    ASSUME IInv, Cleanup \/ Join \/ Abort PROVE IInv'
<1>1. /\ shutdown \in {"no", "posted"} /\ shutdown' \in {"called", "joined", "aborted"}
      /\ shutdown' = "called" => shutdown = "no"
      /\ UNCHANGED <<pool, threads, links, loopVars, forks, history>>
  BY DEF Cleanup, Join, Abort
<1>2. TypeOK' /\ Queued'
  BY <1>1 DEF IInv, TypeOK, Queued
<1>3. Counters' /\ Members'
  BY <1>1 DEF IInv, Counters, Sleepers, SlowHolders, Registered,
              Members, Waits, Executes, Returns
<1>4. Accounts' /\ Callers'
  BY <1>1, RequestsUntouched DEF IInv
<1> QED BY <1>2, <1>3, <1>4 DEF IInv

\* In the child only the loop's own queue is left; what was elsewhere is lost.
LEMMA ForkChildStep ==
    ASSUME IInv, NEW l \in Loops, ForkChild(l) PROVE IInv'
<1>1. /\ shutdown = "no" /\ lpc[l] = "program" /\ Loops = {l}
      /\ forks' = forks + 1 /\ once' = FALSE
      /\ pc' = [w \in Workers |-> IF pc[w] = "none" THEN "none" ELSE "gone"]
      /\ cur' = [w \in Workers |-> None]
      /\ isSlow' = [w \in Workers |-> FALSE]
      /\ asyncPending' = [asyncPending EXCEPT ![l] = FALSE]
      /\ life' = [r \in Reqs |->
            IF life[r] = "submitted" /\ ~Contains(loopWq[l], r) THEN "lost" ELSE life[r]]
      /\ UNCHANGED <<mutex, wq, slowPending, idle, slowRunning, links, wqMutex, loopWq, local, lpc,
                     back, creq, activeReqs, shutdown, submits, runs, dones, verdict, cancelled>>
  BY DEF ForkChild
<1>2. local[l] = <<>> /\ \A y : ~Contains(local[l], y)
  <2>1. local[l] = <<>>
    BY <1>1 DEF IInv, Callers, Caller
  <2>2. \A y : ~Contains(<<>>, y)
    BY EmptySeq DEF Contains
  <2> QED BY <2>1, <2>2
<1>3. TypeOK'
  <2>1. /\ pc' \in [Workers -> PcStates] /\ cur' \in [Workers -> Reqs \union {None}]
        /\ isSlow' \in [Workers -> BOOLEAN]
    BY <1>1 DEF PcStates
  <2>2. asyncPending' \in [Loops -> BOOLEAN] /\ forks' \in Nat
    BY <1>1 DEF IInv, TypeOK
  <2>3. life' \in [Reqs -> {"fresh", "submitted", "done", "lost"}]
    BY <1>1 DEF IInv, TypeOK
  <2>4. once' \in BOOLEAN /\ mutex' \in Workers \union Loops \union {None}
    BY <1>1 DEF IInv, TypeOK
  <2> QED BY <1>1, <2>1, <2>2, <2>3, <2>4 DEF IInv, TypeOK
<1>4. Counters'
  <2>1. Sleepers' = {} /\ SlowHolders' = {}
    BY <1>1 DEF Sleepers, SlowHolders
  <2>2. Cardinality({}) = 0
    BY FS_EmptySet
  <2>3. \A k \in Loops : Registered(k)' = Registered(k)
    BY <1>1 DEF Registered
  <2>4. idle >= 0 /\ slowRunning >= 0
    BY DEF IInv, TypeOK
  <2>5. Cardinality(Sleepers') <= idle'
    BY <1>1, <2>1, <2>2, <2>4
  <2>6. Cardinality(SlowHolders') <= slowRunning' /\ slowRunning' <= Threshold
    BY <1>1, <2>1, <2>2, <2>4 DEF IInv, Counters
  <2>7. \A k \in Loops : activeReqs'[k] = Cardinality(Registered(k)')
    BY <1>1, <2>3 DEF IInv, Counters
  <2>8. \A w \in Workers : pc'[w] # "working"
    BY <1>1
  <2> QED BY <2>5, <2>6, <2>7, <2>8 DEF Counters
<1>5. Queued'
  BY <1>1 DEF IInv, Queued
<1>6. Members'
  <2>1. \A w \in Workers : pc'[w] \in {"none", "gone"}
    BY <1>1
  <2>2. \A k \in Loops, y \in Reqs :
          (Contains(loopWq'[k], y) \/ Contains(local'[k], y)) => Owner[y] = k /\ Returns(y)'
    BY <1>1, <1>2 DEF IInv, Members, Returns
  <2> QED BY <1>1, <2>1, <2>2 DEF Members
<1>7. Accounts'
  <2> SUFFICES ASSUME NEW y \in Reqs PROVE Account(y)'
    BY DEF Accounts
  <2>1. Account(y)
    BY DEF IInv, Accounts
  <2>2. /\ life'[y] = "submitted" => life[y] = "submitted"
        /\ life'[y] = "done" => life[y] = "done"
    BY <1>1
  <2>3. InFlight(Owner[y], y)' <=> InFlight(Owner[y], y)
    BY <1>1 DEF InFlight
  <2> QED BY <1>1, <2>1, <2>2, <2>3 DEF Account
<1>8. Callers'
  BY <1>1, <1>2 DEF Callers, Caller
<1> QED BY <1>3, <1>4, <1>5, <1>6, <1>7, <1>8 DEF IInv

-----------------------------------------------------------------------------
(* The theorems *)

LEMMA StutterStep ==
    ASSUME IInv, UNCHANGED vars PROVE IInv'
<1>1. TypeOK' /\ Queued'
  BY DEF vars, IInv, TypeOK, Queued
<1>4. Counters'
  BY DEF vars, IInv, Counters, Sleepers, SlowHolders, Registered
<1>2. Members'
  BY DEF vars, IInv, Members, Waits, Executes, Returns
<1>3. Accounts' /\ Callers'
  BY RequestsUntouched DEF vars, IInv
<1> QED BY <1>1, <1>2, <1>3, <1>4 DEF IInv

LEMMA NextInv ==
    ASSUME CancelScope = {"submitted"}, IInv, [Next]_vars PROVE IInv'
<1>1. ASSUME NEW w \in Workers, Worker(w) PROVE IInv'
  BY <1>1, LockStep, SleepStep, WakeStep, ExitStep, TakeFastStep, MarkerStep, TakeSlowStep,
     FinishStep, AnnounceStep DEF Worker
<1>2. ASSUME NEW w \in Workers, SpuriousWakeup(w) PROVE IInv'
  BY <1>2, SpuriousWakeupStep
<1>3. ASSUME NEW r \in Reqs, Submit(r) \/ CancelLock(r) PROVE IInv'
  BY <1>3, SubmitStep, CancelLockStep
<1>4. ASSUME NEW l \in Loops, CancelCheck(l) \/ CancelPublish(l) \/ ForkChild(l) PROVE IInv'
  BY <1>4, CancelCheckStep, CancelPublishStep, ForkChildStep
<1>5. ASSUME NEW l \in Loops, Deliver(l) PROVE IInv'
  BY <1>5, DeliverStep, DrainStep, CompleteStep DEF Deliver
<1>6. CASE Cleanup \/ PostExit \/ Join \/ Abort
  BY <1>6, PostExitStep, ShutdownStep
<1>7. CASE UNCHANGED vars
  BY <1>7, StutterStep
<1> QED BY <1>1, <1>2, <1>3, <1>4, <1>5, <1>6, <1>7 DEF Next

\* The invariant holds of every behaviour in which the program cancels only
\* requests it has submitted and not yet been called back for.
THEOREM Invariance ==
    ASSUME CancelScope = {"submitted"} PROVE Spec => []IInv
<1>1. Init => IInv
  BY InitInv
<1>2. IInv /\ [Next]_vars => IInv'
  BY NextInv
<1> QED BY <1>1, <1>2, PTL DEF Spec

\* Every variable keeps its type; in particular neither idle_threads nor
\* slow_io_work_running, which are unsigned in threadpool.c, goes below zero.
THEOREM TypeCorrect ==
    ASSUME CancelScope = {"submitted"} PROVE Spec => []TypeOK
<1>1. IInv => TypeOK
  BY DEF IInv
<1> QED BY <1>1, Invariance, PTL

\* The done callback reports UV_ECANCELED exactly when uv_cancel returned 0,
\* and then the work function has not run; otherwise it has run once.
THEOREM CancelIsHonest ==
    ASSUME CancelScope = {"submitted"} PROVE Spec => []CancelHonest
<1>1. IInv => CancelHonest
  BY DEF IInv, Accounts, Account, CancelHonest
<1> QED BY <1>1, Invariance, PTL

\* Slow I/O is counted while it runs, and is never executed by more than half
\* of the threads, rounded up.
THEOREM SlowIsLimited ==
    ASSUME CancelScope = {"submitted"} PROVE Spec => []SlowLimit
<1>1. IInv => SlowLimit
  <2> SUFFICES ASSUME IInv PROVE SlowLimit
    OBVIOUS
  <2>1. SlowExecuting \subseteq SlowHolders
    BY DEF IInv, Counters, SlowExecuting, SlowHolders
  <2>2. IsFiniteSet(SlowHolders) /\ Cardinality(SlowHolders) \in Nat
    BY Finite DEF SlowHolders
  <2>3. Cardinality(SlowExecuting) \in Nat
    BY Finite DEF SlowExecuting
  <2>4. Cardinality(SlowExecuting) <= Cardinality(SlowHolders)
    BY <2>1, <2>2, FS_Subset
  <2> QED BY <2>2, <2>3, <2>4 DEF IInv, TypeOK, Counters, SlowLimit
<1> QED BY <1>1, Invariance, PTL

\* While slow I/O waits there is exactly one marker for it in the shared queue.
THEOREM SlowIsAnnounced ==
    ASSUME CancelScope = {"submitted"} PROVE Spec => []SlowAnnounced
<1>1. IInv => SlowAnnounced
  BY DEF IInv, Queued, Distinct, SlowAnnounced
<1> QED BY <1>1, Invariance, PTL

\* uv__req_unregister never finds the count of active requests at zero.
THEOREM RegisteredWhenDone ==
    ASSUME CancelScope = {"submitted"} PROVE Spec => []DoneWhileRegistered
<1>1. IInv => DoneWhileRegistered
  BY DEF IInv, TypeOK, DoneWhileRegistered
<1> QED BY <1>1, Invariance, PTL

-----------------------------------------------------------------------------
(* No submitted request is lost *)

Somewhere(r) ==
    LET l == Owner[r] IN
    \/ once /\ (Contains(wq, r) \/ Contains(slowPending, r))
    \/ \E w \in Workers : pc[w] = "working" /\ cur[w] = r
    \/ Contains(loopWq[l], r) \/ Contains(local[l], r)
    \/ InFlight(l, r)

Kept == \A r \in Reqs : life[r] = "submitted" => Somewhere(r)

\* A step that moves x at most keeps the other requests where they are.
LEMMA KeptElsewhere ==
    ASSUME Kept, NEW x,
           \A r \in Reqs \ {x} :
             /\ life'[r] = "submitted" => life[r] = "submitted"
             /\ once /\ (Contains(wq, r) \/ Contains(slowPending, r)) =>
                  once' /\ (Contains(wq', r) \/ Contains(slowPending', r))
             /\ \A w \in Workers : pc[w] = "working" /\ cur[w] = r => pc'[w] = "working" /\ cur'[w] = r
             /\ Contains(loopWq[Owner[r]], r) \/ Contains(local[Owner[r]], r) =>
                  Contains(loopWq'[Owner[r]], r) \/ Contains(local'[Owner[r]], r)
             /\ InFlight(Owner[r], r) => InFlight(Owner[r], r)',
           x \in Reqs /\ life'[x] = "submitted" => Somewhere(x)'
    PROVE  Kept'
<1> SUFFICES ASSUME NEW r \in Reqs, life'[r] = "submitted" PROVE Somewhere(r)'
  BY DEF Kept
<1>1. CASE r = x
  BY <1>1
<1>2. CASE r # x
  <2>1. Somewhere(r)
    BY <1>2 DEF Kept
  <2> QED BY <1>2, <2>1 DEF Somewhere
<1> QED BY <1>1, <1>2

LEMMA KeptStep ==
    ASSUME IInv, Kept, [Next]_vars PROVE Kept'
<1> SUFFICES Kept'
  OBVIOUS
<1>0. TypeOK /\ Queued /\ Members /\ Callers
  BY DEF IInv
\* Steps of one thread that leave the requests where they are.
<1>1. ASSUME NEW w \in Workers, pc[w] # "working", pc' \in [Workers -> PcStates],
             \A v \in Workers \ {w} : pc[v] = "working" => pc'[v] = "working" /\ cur'[v] = cur[v],
             \A r \in Reqs : Contains(wq, r) => Contains(wq', r),
             UNCHANGED <<once, slowPending, loopWq, local, lpc, creq, life>>
      PROVE  Kept'
  BY <1>1, KeptElsewhere DEF InFlight, Kept, Somewhere
<1>2. ASSUME NEW w \in Workers, Lock(w) \/ Sleep(w) \/ Wake(w) \/ SpuriousWakeup(w) PROVE Kept'
  <2>1. PICK p \in PcStates : pc' = [pc EXCEPT ![w] = p]
    BY <1>2 DEF Lock, Sleep, Wake, SpuriousWakeup, PcStates
  <2>2. pc[w] # "working" /\ UNCHANGED <<once, wq, slowPending, loopWq, local, lpc, creq, life, cur>>
    BY <1>2 DEF Lock, Sleep, Wake, SpuriousWakeup
  <2>3. pc' \in [Workers -> PcStates] /\ \A v \in Workers \ {w} : pc'[v] = pc[v]
    BY <1>0, <2>1 DEF TypeOK
  <2> QED BY <1>1, <2>2, <2>3
<1>3. ASSUME NEW w \in Workers, Exit(w) PROVE Kept'
  <2> DEFINE p == [pc EXCEPT ![w] = "exited"]
  <2>1. p \in [Workers -> PcStates]
    BY <1>0 DEF TypeOK, PcStates
  <2>2. Woken(p, pc')
    BY <1>3, <2>1, SignalWakes DEF Exit
  <2>3. pc[w] # "working" /\ UNCHANGED <<once, wq, slowPending, loopWq, local, lpc, creq, life, cur>>
    BY <1>3 DEF Exit, AtHead
  <2>4. pc' \in [Workers -> PcStates] /\ \A v \in Workers \ {w} : pc[v] = "working" => pc'[v] = "working"
    BY <1>0, <2>2 DEF Woken, TypeOK
  <2> QED BY <1>1, <2>3, <2>4
<1>4. ASSUME NEW w \in Workers, TakeFast(w) PROVE Kept'
  <2>1. PICK r \in Reqs :
         /\ AtHead(w, r) /\ wq' = Tail(wq) /\ pc' = [pc EXCEPT ![w] = "working"]
         /\ Execute(w, r) /\ UNCHANGED slowPending
    BY <1>4 DEF TakeFast
  <2>2. /\ once /\ pc[w] = "top" /\ \A y : Contains(wq, y) <=> Contains(Tail(wq), y) \/ y = r
    BY <2>1, HeadFacts
  <2>3. cur' = [cur EXCEPT ![w] = r] /\ UNCHANGED <<once, loopWq, local, lpc, creq, life>>
    BY <2>1 DEF Execute
  <2>4. Somewhere(r)'
    BY <1>0, <2>1, <2>3 DEF Somewhere, TypeOK
  <2>5. \A v \in Workers \ {w} : pc'[v] = pc[v] /\ cur'[v] = cur[v]
    BY <1>0, <2>1, <2>3 DEF TypeOK
  <2> QED BY <2>1, <2>2, <2>3, <2>4, <2>5, KeptElsewhere DEF InFlight
<1>5. ASSUME NEW w \in Workers, TakeSlow(w) PROVE Kept'
  <2> DEFINE p == [pc EXCEPT ![w] = "working"]
  <2>1. /\ AtHead(w, SLOW) /\ slowPending # <<>> /\ slowPending' = Tail(slowPending)
        /\ wq' = Tail(wq) \/ wq' = Append(Tail(wq), SLOW)
        /\ pc' = p \/ pc' \in SignalledIfIdle(p)
        /\ Execute(w, Head(slowPending))
    BY <1>5 DEF TakeSlow
  <2>2. PICK r \in Reqs : r = Head(slowPending)
    BY <1>0, <2>1, TailQueue DEF TypeOK
  <2>3. /\ once /\ pc[w] = "top" /\ Tail(wq) \in Seq(FastEntries)
        /\ \A y : Contains(wq, y) <=> Contains(Tail(wq), y) \/ y = SLOW
    BY <2>1, HeadFacts
  <2>4. \A y \in Reqs : Contains(wq, y) => Contains(wq', y)
    <3>0. SLOW \in FastEntries
      BY DEF FastEntries
    <3>1. \A y : Contains(Append(Tail(wq), SLOW), y) <=> Contains(Tail(wq), y) \/ y = SLOW
      <4>1. \A q \in Seq(FastEntries) : \A y : Contains(Append(q, SLOW), y) <=> Contains(q, y) \/ y = SLOW
        BY <3>0, AppendQueue
      <4> QED BY <2>3, <4>1
    <3> QED BY <2>1, <2>3, <3>1
  <2>5. \A y : Contains(slowPending, y) <=> Contains(slowPending', y) \/ y = r
    BY <1>0, <2>1, <2>2, TailQueue DEF TypeOK
  <2>6. cur' = [cur EXCEPT ![w] = r] /\ UNCHANGED <<once, loopWq, local, lpc, creq, life>>
    BY <2>1, <2>2 DEF Execute
  <2>7. p \in [Workers -> PcStates] /\ p[w] = "working" /\ \A v \in Workers \ {w} : p[v] = pc[v]
    BY <1>0 DEF TypeOK, PcStates
  <2>8. Woken(p, pc')
    BY <2>1, <2>7, SignalWakes
  <2> HIDE DEF p
  <2>9. /\ pc'[w] = "working" /\ cur'[w] = r
        /\ \A v \in Workers \ {w} : /\ cur'[v] = cur[v]
                                    /\ pc[v] = "working" => pc'[v] = "working"
    BY <1>0, <2>6, <2>7, <2>8 DEF Woken, TypeOK
  <2>10. Somewhere(r)'
    BY <2>9 DEF Somewhere
  <2> QED BY <2>3, <2>4, <2>5, <2>6, <2>9, <2>10, KeptElsewhere DEF InFlight
<1>6. ASSUME NEW w \in Workers, Requeue(w) \/ DropMarker(w) PROVE Kept'
  <2>1. UNCHANGED <<once, slowPending, pc, cur, loopWq, local, lpc, creq, life>>
    BY <1>6 DEF Requeue, DropMarker
  <2>2. /\ pc[w] = "top" /\ Tail(wq) \in Seq(FastEntries)
        /\ \A y : Contains(wq, y) <=> Contains(Tail(wq), y) \/ y = SLOW
    BY <1>6, HeadFacts DEF Requeue, DropMarker
  <2>3. \A y : Contains(Append(Tail(wq), SLOW), y) <=> Contains(Tail(wq), y) \/ y = SLOW
    <3>1. SLOW \in FastEntries
      BY DEF FastEntries
    <3>2. \A q \in Seq(FastEntries) : \A y : Contains(Append(q, SLOW), y) <=> Contains(q, y) \/ y = SLOW
      BY <3>1, AppendQueue
    <3> QED BY <2>2, <3>2
  <2>4. \A y \in Reqs : Contains(wq, y) => Contains(wq', y)
    BY <1>6, <2>2, <2>3 DEF Requeue, DropMarker
  <2> QED BY <1>0, <1>1, <2>1, <2>2, <2>4 DEF TypeOK
<1>7. ASSUME NEW w \in Workers, Finish(w) PROVE Kept'
  <2>1. PICK r \in Reqs : r = cur[w] /\ pc[w] = "working" /\ Owner[r] \in Loops
    BY <1>0, <1>7 DEF Finish, Members
  <2>2. /\ loopWq' = [loopWq EXCEPT ![Owner[r]] = Append(@, r)] /\ pc' = [pc EXCEPT ![w] = "send"]
        /\ UNCHANGED <<once, wq, slowPending, cur, local, lpc, creq, life>>
    BY <1>7, <2>1 DEF Finish
  <2>3. /\ loopWq[Owner[r]] \in Seq(Reqs)
        /\ loopWq'[Owner[r]] = Append(loopWq[Owner[r]], r)
        /\ \A l \in Loops : l # Owner[r] => loopWq'[l] = loopWq[l]
    BY <1>0, <2>1, <2>2 DEF TypeOK
  <2>4. \A y : Contains(Append(loopWq[Owner[r]], r), y) <=> Contains(loopWq[Owner[r]], y) \/ y = r
    BY <2>3, AppendQueue
  <2>5. \A l \in Loops, y \in Reqs : Contains(loopWq[l], y) => Contains(loopWq'[l], y)
    BY <2>3, <2>4
  <2>6. Somewhere(r)'
    BY <2>3, <2>4 DEF Somewhere
  <2>7. \A v \in Workers : cur[v] # r /\ pc[v] = "working" => pc'[v] = "working"
    BY <1>0, <2>1, <2>2 DEF TypeOK
  <2> QED BY <2>2, <2>5, <2>6, <2>7, KeptElsewhere DEF InFlight
<1>8. ASSUME NEW w \in Workers, Announce(w) PROVE Kept'
  <2>1. /\ pc[w] = "send" /\ pc' = [pc EXCEPT ![w] = "lock"] /\ cur' = [cur EXCEPT ![w] = None]
        /\ UNCHANGED <<once, wq, slowPending, loopWq, local, lpc, creq, life>>
    BY <1>8 DEF Announce
  <2>2. /\ pc' \in [Workers -> PcStates]
        /\ \A v \in Workers \ {w} : pc'[v] = pc[v] /\ cur'[v] = cur[v]
    BY <1>0, <2>1 DEF TypeOK, PcStates
  <2> QED BY <1>1, <2>1, <2>2
\* What post adds, and what the first uv_once makes of the queues.
<1>9. ASSUME NEW x \in Reqs \union {EXIT}, Post(x) PROVE
         /\ once => \A y \in Reqs : /\ Contains(wq, y) => Contains(wq', y)
                                    /\ Contains(slowPending, y) => Contains(slowPending', y)
         /\ Contains(wq', x) \/ Contains(slowPending', x)
         /\ \A v \in Workers : pc[v] = "working" => pc'[v] = "working"
  <2>1. /\ PoolWq \in Seq(FastEntries) /\ PoolSlow \in Seq(SlowReqs)
        /\ once => PoolWq = wq /\ PoolSlow = slowPending
    BY <1>0, EmptySeq DEF PoolWq, PoolSlow, Queued
  <2>2. \A v \in Workers : pc[v] = "working" => pc'[v] = "working"
    <3>1. Woken(PoolPc, pc')
      BY <1>0, <1>9, PoolPcType, SignalWakes DEF Post
    <3>2. \A v \in Workers : pc[v] = "working" => PoolPc[v] = "working"
      BY <1>0 DEF PoolPc, Members
    <3> QED BY <3>1, <3>2 DEF Woken
  <2> HIDE DEF PoolWq, PoolSlow
  <2>3. CASE x \in SlowReqs
    <3>1. \A y : Contains(Append(PoolSlow, x), y) <=> Contains(PoolSlow, y) \/ y = x
      BY <2>1, <2>3, AppendQueue
    <3>2. \A y : Contains(Append(PoolWq, SLOW), y) <=> Contains(PoolWq, y) \/ y = SLOW
      BY <2>1, AppendQueue DEF FastEntries
    <3>3. slowPending' = Append(PoolSlow, x) /\ (wq' = PoolWq \/ wq' = Append(PoolWq, SLOW))
      BY <1>9, <2>3 DEF Post
    <3> QED BY <2>1, <2>2, <3>1, <3>2, <3>3
  <2>4. CASE x \notin SlowReqs
    <3>1. \A y : Contains(Append(PoolWq, x), y) <=> Contains(PoolWq, y) \/ y = x
      BY <2>1, <2>4, AppendQueue DEF FastEntries
    <3>2. slowPending' = PoolSlow /\ wq' = Append(PoolWq, x)
      BY <1>9, <2>4 DEF Post
    <3> QED BY <2>1, <2>2, <3>1, <3>2
  <2> QED BY <2>3, <2>4
<1>10. ASSUME NEW r \in Reqs, Submit(r) PROVE Kept'
  <2>1. /\ Post(r) /\ once' = TRUE /\ life' = [life EXCEPT ![r] = "submitted"]
        /\ UNCHANGED <<cur, loopWq, local, lpc, creq>>
    BY <1>10 DEF Submit
  <2>2. /\ once => \A y \in Reqs : /\ Contains(wq, y) => Contains(wq', y)
                                   /\ Contains(slowPending, y) => Contains(slowPending', y)
        /\ Contains(wq', r) \/ Contains(slowPending', r)
        /\ \A v \in Workers : pc[v] = "working" => pc'[v] = "working"
    BY <1>9, <2>1
  <2>3. Somewhere(r)'
    BY <2>1, <2>2 DEF Somewhere
  <2>4. \A y \in Reqs \ {r} : life'[y] = life[y]
    BY <1>0, <2>1 DEF TypeOK
  <2> QED BY <2>1, <2>2, <2>3, <2>4, KeptElsewhere DEF InFlight
<1>11. CASE PostExit
  <2>1. once' = once /\ UNCHANGED <<cur, loopWq, local, lpc, creq, life>>
    BY <1>11 DEF PostExit
  <2>2. CASE once
    <3>1. Post(EXIT)
      BY <1>11, <2>2, PostExitPosts
    <3>2. /\ \A y \in Reqs : /\ Contains(wq, y) => Contains(wq', y)
                             /\ Contains(slowPending, y) => Contains(slowPending', y)
          /\ \A v \in Workers : pc[v] = "working" => pc'[v] = "working"
      BY <1>9, <2>1, <2>2, <3>1
    <3> QED BY <2>1, <2>2, <3>2, KeptElsewhere DEF InFlight
  <2>3. CASE ~once
    <3>1. \A v \in Workers : pc[v] # "working"
      BY <1>0, <2>3 DEF Members
    <3> QED BY <2>1, <2>3, <3>1, KeptElsewhere DEF InFlight, Kept, Somewhere
  <2> QED BY <2>2, <2>3
<1>12. ASSUME NEW r \in Reqs, CancelLock(r) PROVE Kept'
  <2>1. /\ lpc[Owner[r]] \in {"program", "callback"} /\ once' = TRUE
        /\ wq' = PoolWq /\ slowPending' = PoolSlow /\ pc' = PoolPc
        /\ creq' = [creq EXCEPT ![Owner[r]] = r]
        /\ lpc' = [lpc EXCEPT ![Owner[r]] = "cancelCheck"]
        /\ UNCHANGED <<cur, loopWq, local, life>>
    BY <1>12 DEF CancelLock, Program
  <2>2. once => wq' = wq /\ slowPending' = slowPending
    BY <2>1 DEF PoolWq, PoolSlow
  <2>3. \A v \in Workers : pc[v] = "working" => pc'[v] = "working"
    BY <1>0, <2>1 DEF PoolPc, Members
  <2>4. \A l \in Loops, y \in Reqs : InFlight(l, y) => InFlight(l, y)'
    BY <1>0, <2>1 DEF InFlight, TypeOK
  <2>5. \A y \in Reqs : Owner[y] \in Loops
    OBVIOUS
  <2> QED BY <2>1, <2>2, <2>3, <2>4, <2>5, KeptElsewhere DEF Kept, Somewhere
<1>13. ASSUME NEW l \in Loops, CancelCheck(l) PROVE Kept'
  <2>1. PICK r \in Reqs : r = creq[l] /\ Owner[r] = l
    BY <1>0, <1>13 DEF CancelCheck, Callers, Caller
  <2>2. lpc[l] = "cancelCheck" /\ UNCHANGED <<once, pc, cur, life>>
    BY <1>13 DEF CancelCheck
  <2>3. CASE ~Cancellable(r)
    <3>1. /\ lpc' = [lpc EXCEPT ![l] = back[l]] /\ creq' = [creq EXCEPT ![l] = None]
          /\ UNCHANGED <<wq, slowPending, loopWq, local>>
      BY <1>13, <2>1, <2>3 DEF CancelCheck
    <3>2. \A k \in Loops, y \in Reqs : InFlight(k, y) => InFlight(k, y)'
      BY <1>0, <2>2, <3>1 DEF InFlight, TypeOK
    <3> QED BY <2>2, <3>1, <3>2, KeptElsewhere DEF Kept, Somewhere
  <2>4. CASE Cancellable(r)
    <3>1. /\ wq' = Unlink(wq, r) /\ slowPending' = Unlink(slowPending, r)
          /\ loopWq' = [loopWq EXCEPT ![l] = Unlink(loopWq[l], r)]
          /\ local' = [local EXCEPT ![l] = Unlink(local[l], r)]
          /\ lpc' = [lpc EXCEPT ![l] = "cancelPublish"] /\ creq' = creq
      BY <1>13, <2>1, <2>4 DEF CancelCheck
    <3>2. /\ \A y : Contains(wq, y) /\ y # r => Contains(wq', y)
          /\ \A y : Contains(slowPending, y) /\ y # r => Contains(slowPending', y)
      BY <1>0, <3>1, UnlinkQueue DEF TypeOK
    <3>3. /\ \A y : Contains(loopWq[l], y) /\ y # r => Contains(Unlink(loopWq[l], r), y)
          /\ \A y : Contains(local[l], y) /\ y # r => Contains(Unlink(local[l], r), y)
      BY <1>0, UnlinkQueue DEF TypeOK
    <3>4. \A k \in Loops, y \in Reqs \ {r} :
             /\ Contains(loopWq[k], y) => Contains(loopWq'[k], y)
             /\ Contains(local[k], y) => Contains(local'[k], y)
      BY <1>0, <3>1, <3>3 DEF TypeOK
    <3>5. \A k \in Loops, y \in Reqs : InFlight(k, y) => InFlight(k, y)'
      BY <1>0, <2>2, <3>1 DEF InFlight, TypeOK
    <3>6. Somewhere(r)'
      BY <1>0, <2>1, <3>1 DEF Somewhere, InFlight, TypeOK
    <3> QED BY <2>2, <3>2, <3>4, <3>5, <3>6, KeptElsewhere
  <2> QED BY <2>3, <2>4
<1>14. ASSUME NEW l \in Loops, CancelPublish(l) PROVE Kept'
  <2>1. PICK r \in Reqs : r = creq[l] /\ Owner[r] = l
    BY <1>0, <1>14 DEF CancelPublish, Callers, Caller
  <2>2. /\ loopWq' = [loopWq EXCEPT ![l] = Append(loopWq[l], r)]
        /\ lpc' = [lpc EXCEPT ![l] = back[l]] /\ creq' = [creq EXCEPT ![l] = None]
        /\ UNCHANGED <<once, wq, slowPending, pc, cur, local, life>>
    BY <1>14, <2>1 DEF CancelPublish
  <2>3. \A y : Contains(Append(loopWq[l], r), y) <=> Contains(loopWq[l], y) \/ y = r
    BY <1>0, AppendQueue DEF TypeOK
  <2>4. /\ \A k \in Loops, y \in Reqs : Contains(loopWq[k], y) => Contains(loopWq'[k], y)
        /\ Contains(loopWq'[l], r)
    BY <1>0, <2>2, <2>3 DEF TypeOK
  <2>5. \A k \in Loops, y \in Reqs \ {r} : InFlight(k, y) => InFlight(k, y)'
    BY <1>0, <2>1, <2>2 DEF InFlight, TypeOK
  <2>6. Somewhere(r)'
    BY <2>1, <2>4 DEF Somewhere
  <2> QED BY <2>2, <2>4, <2>5, <2>6, KeptElsewhere
<1>15. ASSUME NEW l \in Loops, Drain(l) PROVE Kept'
  <2>1. /\ lpc[l] = "drain" /\ local' = [local EXCEPT ![l] = loopWq[l]]
        /\ loopWq' = [loopWq EXCEPT ![l] = <<>>] /\ lpc' = [lpc EXCEPT ![l] = "next"]
        /\ UNCHANGED <<once, wq, slowPending, pc, cur, creq, life>>
    BY <1>15 DEF Drain
  <2>2. local[l] = <<>>
    BY <1>0, <2>1 DEF Callers, Caller
  <2>3. \A y : ~Contains(<<>>, y)
    BY EmptySeq DEF Contains
  <2>4. \A k \in Loops, y \in Reqs :
           Contains(loopWq[k], y) \/ Contains(local[k], y) =>
             Contains(loopWq'[k], y) \/ Contains(local'[k], y)
    BY <1>0, <2>1, <2>2, <2>3 DEF TypeOK
  <2>5. \A k \in Loops, y \in Reqs : InFlight(k, y) => InFlight(k, y)'
    BY <1>0, <2>1 DEF InFlight, TypeOK
  <2> QED BY <2>1, <2>4, <2>5, KeptElsewhere DEF Kept, Somewhere
<1>16. ASSUME NEW l \in Loops, Complete(l) PROVE Kept'
  <2>1. PICK r \in Reqs : r = Head(local[l]) /\ lpc[l] = "next" /\ local[l] # <<>>
    <3>1. local[l] \in Seq(Reqs) /\ lpc[l] = "next" /\ local[l] # <<>>
      BY <1>0, <1>16 DEF Complete, TypeOK
    <3> QED BY <3>1, TailQueue
  <2>2. /\ life' = [life EXCEPT ![r] = "done"] /\ local' = [local EXCEPT ![l] = Tail(local[l])]
        /\ lpc' = [lpc EXCEPT ![l] = "callback"]
        /\ UNCHANGED <<once, wq, slowPending, pc, cur, creq, loopWq>>
    BY <1>16, <2>1 DEF Complete
  <2>3. \A y : Contains(local[l], y) <=> Contains(Tail(local[l]), y) \/ y = r
    BY <1>0, <2>1, TailQueue DEF TypeOK
  <2>4. \A k \in Loops, y \in Reqs \ {r} : Contains(local[k], y) => Contains(local'[k], y)
    BY <1>0, <2>2, <2>3 DEF TypeOK
  <2>5. \A k \in Loops, y \in Reqs : InFlight(k, y) => InFlight(k, y)'
    BY <1>0, <2>1, <2>2 DEF InFlight, TypeOK
  <2>6. life'[r] = "done" /\ \A y \in Reqs \ {r} : life'[y] = life[y]
    BY <1>0, <2>2 DEF TypeOK
  <2> QED BY <2>2, <2>4, <2>5, <2>6, KeptElsewhere
<1>17. ASSUME NEW l \in Loops, AsyncFire(l) \/ Return(l) \/ WorkDone(l) PROVE Kept'
  <2>1. /\ lpc[l] # "cancelPublish" /\ \A k \in Loops \ {l} : lpc'[k] = lpc[k]
        /\ UNCHANGED <<once, wq, slowPending, pc, cur, loopWq, local, creq, life>>
    BY <1>0, <1>17 DEF AsyncFire, Return, WorkDone, TypeOK
  <2>2. \A k \in Loops, y \in Reqs : InFlight(k, y) => InFlight(k, y)'
    BY <2>1 DEF InFlight
  <2> QED BY <2>1, <2>2, KeptElsewhere DEF Kept, Somewhere
<1>18. ASSUME NEW l \in Loops, ForkChild(l) PROVE Kept'
  <2>1. /\ loopWq' = loopWq /\ Loops = {l}
        /\ life' = [r \in Reqs |->
              IF life[r] = "submitted" /\ ~Contains(loopWq[l], r) THEN "lost" ELSE life[r]]
    BY <1>18 DEF ForkChild
  <2>2. ASSUME NEW r \in Reqs, life'[r] = "submitted" PROVE Contains(loopWq'[Owner[r]], r)
    BY <2>1, <2>2
  <2> QED BY <2>2 DEF Kept, Somewhere
<1>19. CASE Cleanup \/ Join \/ Abort \/ UNCHANGED vars
  <2>1. UNCHANGED <<once, wq, slowPending, pc, cur, loopWq, local, lpc, creq, life>>
    BY <1>19 DEF Cleanup, Join, Abort, vars
  <2> QED BY <2>1 DEF Kept, Somewhere, InFlight
<1> QED BY <1>2, <1>3, <1>4, <1>5, <1>6, <1>7, <1>8, <1>10, <1>11, <1>12, <1>13, <1>14, <1>15,
           <1>16, <1>17, <1>18, <1>19 DEF Next, Worker, Deliver

LEMMA DistinctCount ==
    ASSUME NEW S, NEW q \in Seq(S), Distinct(q), NEW x
    PROVE  Cardinality(Occurrences(q, x)) = IF Contains(q, x) THEN 1 ELSE 0
<1>0. Len(q) \in Nat /\ DOMAIN q = 1..Len(q)
  BY LenProperties
<1>1. CASE Contains(q, x)
  <2>1. PICK i \in 1..Len(q) : q[i] = x
    BY <1>0, <1>1 DEF Contains
  <2>2. \A j \in 1..Len(q) : q[j] = x => j = i
    BY <2>1 DEF Distinct
  <2>3. Occurrences(q, x) = {i}
    BY <1>0, <2>1, <2>2 DEF Occurrences
  <2> QED BY <1>1, <2>3, FS_Singleton
<1>2. CASE ~Contains(q, x)
  <2>1. Occurrences(q, x) = {}
    BY <1>0, <1>2 DEF Occurrences, Contains
  <2> QED BY <1>2, <2>1, FS_EmptySet
<1> QED BY <1>1, <1>2

\* A request has one place at most, and by Kept it has one.
LEMMA PlacesCount ==
    ASSUME IInv, Kept PROVE Placement
<1> SUFFICES ASSUME NEW r \in Reqs PROVE Places(r) = IF life[r] = "submitted" THEN 1 ELSE 0
  BY DEF Placement
<1> DEFINE l == Owner[r]
           Here == {w \in Workers : cur[w] = r /\ pc[w] = "working"}
           a == IF once /\ Contains(wq, r) THEN 1 ELSE 0
           b == IF once /\ Contains(slowPending, r) THEN 1 ELSE 0
           c == IF Here # {} THEN 1 ELSE 0
           d == IF Contains(loopWq[l], r) THEN 1 ELSE 0
           e == IF Contains(local[l], r) THEN 1 ELSE 0
           f == IF InFlight(l, r) THEN 1 ELSE 0
<1>1. /\ Cardinality(Occurrences(wq, r)) = IF Contains(wq, r) THEN 1 ELSE 0
      /\ Cardinality(Occurrences(slowPending, r)) = IF Contains(slowPending, r) THEN 1 ELSE 0
      /\ Cardinality(Occurrences(loopWq[l], r)) = d
      /\ Cardinality(Occurrences(local[l], r)) = e
  <2>1. /\ wq \in Seq(FastEntries) /\ Distinct(wq)
        /\ slowPending \in Seq(SlowReqs) /\ Distinct(slowPending)
        /\ loopWq[l] \in Seq(Reqs) /\ Distinct(loopWq[l])
        /\ local[l] \in Seq(Reqs) /\ Distinct(local[l])
    BY DEF IInv, TypeOK, Queued
  <2> QED BY <2>1, DistinctCount
<1>2. Cardinality(Here) = c
  <2>1. CASE Here = {}
    BY <2>1, FS_EmptySet
  <2>2. CASE Here # {}
    <3>1. PICK w \in Workers : cur[w] = r /\ pc[w] = "working"
      BY <2>2
    <3>2. Here = {w}
      BY <3>1 DEF IInv, Members
    <3> QED BY <2>2, <3>2, FS_Singleton
  <2> QED BY <2>1, <2>2
<1>3. Places(r) = a + b + c + d + e + f
  <2>1. Places(r) =
            (IF once THEN Cardinality(Occurrences(wq, r)) + Cardinality(Occurrences(slowPending, r))
                     ELSE 0)
          + Cardinality(Here) + Cardinality(Occurrences(loopWq[l], r))
          + Cardinality(Occurrences(local[l], r)) + (IF InFlight(l, r) THEN 1 ELSE 0)
    BY DEF Places
  <2> HIDE DEF Here, l
  <2> QED BY <1>1, <1>2, <2>1
\* The places exclude each other, by what the request looks like there.
<1>4. ~(Contains(wq, r) /\ Contains(slowPending, r))
  <2>1. Contains(wq, r) => r \in FastEntries
    BY ElementOfSeq DEF IInv, Queued, Contains
  <2>2. Contains(slowPending, r) => r \in SlowReqs
    BY ElementOfSeq DEF IInv, Queued, Contains
  <2> QED BY <2>1, <2>2 DEF FastEntries
<1>5. ~(Contains(loopWq[l], r) /\ Contains(local[l], r))
  BY DEF IInv, Queued
<1>6. /\ once /\ (Contains(wq, r) \/ Contains(slowPending, r)) => Waits(r)
      /\ Here # {} => Executes(r)
      /\ Contains(loopWq[l], r) \/ Contains(local[l], r) => Returns(r)
      /\ InFlight(l, r) => life[r] = "submitted" /\ node[r] = "loose"
  <2>1. InFlight(l, r) => life[r] = "submitted"
    BY DEF IInv, Callers, Caller, InFlight
  <2>2. InFlight(l, r) /\ life[r] = "submitted" => node[r] = "loose"
    BY DEF IInv, Accounts, Account
  <2> QED BY <2>1, <2>2 DEF IInv, Members
<1>7. life[r] = "submitted" =>
        \/ once /\ (Contains(wq, r) \/ Contains(slowPending, r))
        \/ Here # {}
        \/ Contains(loopWq[l], r) \/ Contains(local[l], r)
        \/ InFlight(l, r)
  BY DEF Kept, Somewhere
<1> HIDE DEF Here, l
<1> QED BY <1>3, <1>4, <1>5, <1>6, <1>7 DEF Waits, Executes, Returns

\* Whatever thread moves it, a submitted request is in exactly one place, and a request that is
\* not submitted is nowhere.
THEOREM EverythingInItsPlace ==
    ASSUME CancelScope = {"submitted"} PROVE Spec => []Placement
<1>1. Init => Kept
  BY DEF Init, Kept
<1>2. IInv /\ Kept /\ [Next]_vars => Kept'
  BY KeptStep
<1>3. IInv /\ Kept => Placement
  BY PlacesCount
<1> QED BY <1>1, <1>2, <1>3, Invariance, PTL DEF Spec

-----------------------------------------------------------------------------
(* No wakeup is lost *)

\* A thread that has executed slow I/O and will count it off when it gets the mutex: what waits
\* at the threshold can be executed then, so it is not inductive to discount it.
Returning == \E w \in Workers : pc[w] = "lock" /\ isSlow[w]
Wanted == Len(wq) - (IF Contains(wq, SLOW) /\ AtThreshold /\ ~Returning THEN 1 ELSE 0)
Asleep(p) == \E w \in Workers : p[w] = "waiting"
Manned == once /\ Asleep(pc) => Wanted <= Cardinality(Awake)

AwakeIn(p) == {w \in Workers : p[w] \in {"lock", "top", "woken"}}

LEMMA WantedFacts ==
    ASSUME TypeOK
    PROVE  /\ Wanted \in Int /\ Len(wq) \in Nat /\ Wanted <= Len(wq) /\ Len(wq) - 1 <= Wanted
           /\ ~AtThreshold \/ Returning \/ ~Contains(wq, SLOW) => Wanted = Len(wq)
           /\ IsFiniteSet(Awake) /\ Cardinality(Awake) \in Nat
<1>1. Len(wq) \in Nat
  BY LenProperties DEF TypeOK
<1>2. IsFiniteSet(Awake) /\ Cardinality(Awake) \in Nat
  BY Finite DEF Awake
<1> QED BY <1>1, <1>2 DEF Wanted

\* n entries more in the queue are n more that are wanted, while what holds slow I/O back stays.
LEMMA WantedMore ==
    ASSUME TypeOK, TypeOK', NEW n \in Int, Len(wq') <= Len(wq) + n,
           Contains(wq, SLOW) => Contains(wq', SLOW), AtThreshold => AtThreshold',
           Returning' => Returning
    PROVE  Wanted' <= Wanted + n
<1>1. Len(wq) \in Nat /\ Len(wq') \in Nat
  BY LenProperties DEF TypeOK
<1> DEFINE held == IF Contains(wq, SLOW) /\ AtThreshold /\ ~Returning THEN 1 ELSE 0
           held2 == IF Contains(wq', SLOW) /\ AtThreshold' /\ ~Returning' THEN 1 ELSE 0
<1>2. held <= held2 /\ held \in {0, 1} /\ held2 \in {0, 1}
  OBVIOUS
<1>3. Wanted = Len(wq) - held /\ Wanted' = Len(wq') - held2
  BY DEF Wanted
<1> HIDE DEF held, held2
<1> QED BY <1>1, <1>2, <1>3

LEMMA AwakeFacts ==
    ASSUME NEW p \in [Workers -> PcStates], NEW w \in Workers
    PROVE  /\ IsFiniteSet(AwakeIn(p)) /\ Cardinality(AwakeIn(p)) \in Nat
           /\ \A s \in {"working", "waiting", "send", "exited"} :
                p[w] \in {"lock", "top", "woken"} =>
                  Cardinality(AwakeIn([p EXCEPT ![w] = s])) = Cardinality(AwakeIn(p)) - 1
           /\ \A s \in {"lock", "top", "woken"} :
                p[w] \notin {"lock", "top", "woken"} =>
                  Cardinality(AwakeIn([p EXCEPT ![w] = s])) = Cardinality(AwakeIn(p)) + 1
           /\ \A s \in {"lock", "top", "woken"} :
                p[w] \in {"lock", "top", "woken"} => AwakeIn([p EXCEPT ![w] = s]) = AwakeIn(p)
<1>1. IsFiniteSet(AwakeIn(p)) /\ Cardinality(AwakeIn(p)) \in Nat
  BY Finite DEF AwakeIn
<1>2. ASSUME NEW s \in {"working", "waiting", "send", "exited"}, p[w] \in {"lock", "top", "woken"}
      PROVE  Cardinality(AwakeIn([p EXCEPT ![w] = s])) = Cardinality(AwakeIn(p)) - 1
  <2>1. AwakeIn([p EXCEPT ![w] = s]) = AwakeIn(p) \ {w} /\ w \in AwakeIn(p)
    BY <1>2 DEF AwakeIn
  <2>2. Cardinality(AwakeIn(p) \ {w}) = Cardinality(AwakeIn(p)) - 1
    BY <1>1, <2>1, FS_RemoveElement
  <2> QED BY <2>1, <2>2
<1>3. ASSUME NEW s \in {"lock", "top", "woken"}, p[w] \notin {"lock", "top", "woken"}
      PROVE  Cardinality(AwakeIn([p EXCEPT ![w] = s])) = Cardinality(AwakeIn(p)) + 1
  <2>1. AwakeIn([p EXCEPT ![w] = s]) = AwakeIn(p) \union {w} /\ w \notin AwakeIn(p)
    BY <1>3 DEF AwakeIn
  <2> QED BY <1>1, <2>1, FS_AddElement
<1>4. ASSUME NEW s \in {"lock", "top", "woken"}, p[w] \in {"lock", "top", "woken"}
      PROVE  AwakeIn([p EXCEPT ![w] = s]) = AwakeIn(p)
  BY <1>4 DEF AwakeIn
<1> QED BY <1>1, <1>2, <1>3, <1>4

\* If somebody still sleeps after a signal, the signal has woken one thread.
LEMMA OneMoreAwake ==
    ASSUME NEW p \in [Workers -> PcStates], NEW q \in Signalled(p), Asleep(q)
    PROVE  /\ Cardinality(AwakeIn(q)) = Cardinality(AwakeIn(p)) + 1 /\ Asleep(p)
           /\ \A w \in Workers : q[w] = "lock" => p[w] = "lock"
<1>1. Asleep(p)
  <2>1. CASE Asleep(p)
    BY <2>1
  <2>2. CASE ~Asleep(p)
    <3>1. q = p
      BY <2>2 DEF Signalled, Asleep
    <3> QED BY <3>1
  <2> QED BY <2>1, <2>2
<1>2. PICK v \in Workers : p[v] = "waiting" /\ q = [p EXCEPT ![v] = "woken"]
  BY <1>1 DEF Signalled, Asleep
<1>3. Cardinality(AwakeIn(q)) = Cardinality(AwakeIn(p)) + 1
  BY <1>2, AwakeFacts
<1> QED BY <1>1, <1>2, <1>3

\* idle_threads counts the threads that wait, so that "if (idle_threads > 0)" misses none.
LEMMA SignalIsSent ==
    ASSUME TypeOK, Counters, NEW p \in [Workers -> PcStates],
           \A w \in Workers : p[w] = "waiting" => pc[w] = "waiting",
           NEW q \in SignalledIfIdle(p), Asleep(q)
    PROVE  q \in Signalled(p)
<1>1. Woken(p, q)
  BY SignalWakes
<1>2. PICK w \in Workers : q[w] = "waiting"
  BY DEF Asleep
<1>3. w \in Sleepers
  BY <1>1, <1>2 DEF Woken, Sleepers
<1>4. IsFiniteSet(Sleepers) /\ Cardinality(Sleepers) \in Nat
  BY Finite DEF Sleepers
<1>5. Cardinality(Sleepers) # 0
  BY <1>3, <1>4, FS_EmptySet
<1>6. idle > 0
  BY <1>4, <1>5 DEF Counters, TypeOK
<1> QED BY <1>6 DEF SignalledIfIdle

LEMMA MannedStep ==
    ASSUME IInv, CancelScope = {"submitted"}, Manned, [Next]_vars PROVE Manned'
<1> SUFFICES ASSUME once', Asleep(pc') PROVE Wanted' <= Cardinality(Awake)'
  BY DEF Manned
<1>0. TypeOK /\ TypeOK' /\ Counters /\ Queued /\ Members
  BY NextInv DEF IInv
<1>1. /\ pc \in [Workers -> PcStates] /\ pc' \in [Workers -> PcStates]
      /\ Awake = AwakeIn(pc) /\ Awake' = AwakeIn(pc')
      /\ wq \in Seq(Entries) /\ Len(wq) \in Nat /\ Len(wq') \in Nat
      /\ Cardinality(Awake) \in Nat /\ Cardinality(Awake)' \in Nat
      /\ Wanted \in Int /\ Wanted' \in Int
      /\ Wanted <= Len(wq) /\ Wanted' <= Len(wq') /\ Len(wq) - 1 <= Wanted
      /\ ~AtThreshold \/ Returning \/ ~Contains(wq, SLOW) => Wanted = Len(wq)
      /\ ~AtThreshold' \/ Returning' \/ ~Contains(wq', SLOW) => Wanted' = Len(wq')
  <2>1. /\ Len(wq') \in Nat /\ Cardinality(Awake)' \in Nat
    <3>1. Cardinality(AwakeIn(pc')) \in Nat
      BY Finite DEF AwakeIn
    <3> QED BY <1>0, <3>1, LenProperties DEF TypeOK, Awake, AwakeIn
  <2>2. /\ Wanted' \in Int /\ Wanted' <= Len(wq')
        /\ ~AtThreshold' \/ Returning' \/ ~Contains(wq', SLOW) => Wanted' = Len(wq')
    BY <2>1 DEF Wanted
  <2> QED BY <1>0, <2>1, <2>2, WantedFacts DEF TypeOK, Awake, AwakeIn
<1>2. once /\ Asleep(pc) => Wanted <= Cardinality(Awake)
  BY DEF Manned
\* A thread between its states: nobody falls asleep, and as many stay awake as entries stay wanted.
<1>3. ASSUME once, Asleep(pc), NEW n \in Int, Len(wq') <= Len(wq) + n,
             Contains(wq, SLOW) => Contains(wq', SLOW), AtThreshold => AtThreshold',
             Returning' => Returning, Cardinality(Awake)' >= Cardinality(Awake) + n
      PROVE  Wanted' <= Cardinality(Awake)'
  <2>1. Wanted' <= Wanted + n
    BY <1>0, <1>3, WantedMore
  <2> QED BY <1>1, <1>2, <1>3, <2>1
<1>4. ASSUME NEW w \in Workers, Lock(w) PROVE Wanted' <= Cardinality(Awake)'
  <2>1. /\ pc[w] = "lock" /\ pc' = [pc EXCEPT ![w] = "top"] /\ isSlow' = [isSlow EXCEPT ![w] = FALSE]
        /\ slowRunning' = IF isSlow[w] THEN slowRunning - 1 ELSE slowRunning
        /\ wq' = wq /\ once' = once
    BY <1>4 DEF Lock
  <2>2. Asleep(pc) /\ Awake' = Awake
    <3>1. AwakeIn([pc EXCEPT ![w] = "top"]) = AwakeIn(pc)
      BY <1>1, <2>1, AwakeFacts
    <3> QED BY <1>1, <2>1, <3>1 DEF Asleep
  <2>3. CASE isSlow[w]
    <3>1. Returning
      BY <2>1, <2>3 DEF Returning
    <3> QED BY <1>1, <1>2, <2>1, <2>2, <3>1
  <2>4. CASE ~isSlow[w]
    <3>1. Returning' => Returning
      BY <1>0, <2>1, <2>4 DEF Returning, TypeOK
    <3>2. Len(wq') <= Len(wq) + 0 /\ Cardinality(Awake)' >= Cardinality(Awake) + 0
      BY <1>1, <2>1, <2>2
    <3>3. AtThreshold => AtThreshold'
      BY <2>1, <2>4 DEF AtThreshold
    <3> QED BY <1>3, <2>1, <2>2, <3>1, <3>2, <3>3
  <2> QED BY <2>3, <2>4
<1>5. ASSUME NEW w \in Workers, Sleep(w) PROVE Wanted' <= Cardinality(Awake)'
  <2>0. wq = <<>> \/ (wq = <<SLOW>> /\ AtThreshold)
    BY <1>5 DEF Sleep, MustWait
  <2>1. wq' = wq /\ isSlow' = isSlow /\ slowRunning' = slowRunning
    BY <1>5 DEF Sleep
  <2>2. CASE wq = <<>>
    BY <1>1, <2>1, <2>2, EmptySeq
  <2>3. CASE wq = <<SLOW>> /\ AtThreshold /\ ~Returning'
    <3>1. Contains(wq', SLOW) /\ Len(wq') = 1 /\ AtThreshold'
      BY <2>1, <2>3 DEF Contains, AtThreshold
    <3>2. Wanted' = 0
      BY <2>3, <3>1 DEF Wanted
    <3> QED BY <1>1, <3>2
  <2>4. CASE wq = <<SLOW>> /\ Returning'
    <3>1. Len(wq') = 1
      BY <2>1, <2>4
    <3>2. Awake' # {}
      BY <2>4 DEF Returning, Awake
    <3>3. IsFiniteSet(Awake') /\ Cardinality(Awake') # 0
      <4>1. IsFiniteSet(Awake')
        BY Finite DEF Awake
      <4> QED BY <3>2, <4>1, FS_EmptySet
    <3> QED BY <1>1, <3>1, <3>3
  <2> QED BY <2>0, <2>2, <2>3, <2>4
<1>6. ASSUME NEW w \in Workers, Wake(w) \/ SpuriousWakeup(w) PROVE Wanted' <= Cardinality(Awake)'
  <2>1. PICK s \in {"top", "woken"} :
          /\ pc' = [pc EXCEPT ![w] = s]
          /\ wq' = wq /\ isSlow' = isSlow /\ slowRunning' = slowRunning /\ once' = once
    BY <1>6 DEF Wake, SpuriousWakeup
  <2>2. pc[w] \in {"waiting", "woken"}
    BY <1>6 DEF Wake, SpuriousWakeup
  <2>3. Asleep(pc) /\ (Returning' => Returning)
    BY <1>1, <2>1 DEF Asleep, Returning
  <2>4. Cardinality(Awake)' >= Cardinality(Awake) + 0
    <3>1. CASE pc[w] = "waiting"
      <4>1. pc[w] \notin {"lock", "top", "woken"}
        BY <3>1
      <4>2. Cardinality(AwakeIn(pc')) = Cardinality(AwakeIn(pc)) + 1
        BY <1>1, <2>1, <4>1, AwakeFacts
      <4> QED BY <1>1, <4>2
    <3>2. CASE pc[w] = "woken"
      <4>1. AwakeIn(pc') = AwakeIn(pc)
        BY <1>1, <2>1, <3>2, AwakeFacts
      <4> QED BY <1>1, <4>1
    <3> QED BY <2>2, <3>1, <3>2
  <2>5. Len(wq') <= Len(wq) + 0 /\ (AtThreshold => AtThreshold')
    BY <1>1, <2>1 DEF AtThreshold
  <2> QED BY <1>3, <2>1, <2>3, <2>4, <2>5
<1>7. ASSUME NEW w \in Workers, Exit(w) PROVE Wanted' <= Cardinality(Awake)'
  <2> DEFINE p == [pc EXCEPT ![w] = "exited"]
  <2>1. /\ pc[w] = "top" /\ pc' \in Signalled(p)
        /\ wq' = wq /\ isSlow' = isSlow /\ slowRunning' = slowRunning /\ once' = once
    BY <1>7 DEF Exit, AtHead
  <2>2. /\ p \in [Workers -> PcStates] /\ Cardinality(AwakeIn(p)) = Cardinality(AwakeIn(pc)) - 1
        /\ \A v \in Workers : p[v] \in {"lock", "waiting"} => pc[v] = p[v]
    BY <1>1, <2>1, AwakeFacts DEF PcStates
  <2> HIDE DEF p
  <2>3. /\ Cardinality(AwakeIn(pc')) = Cardinality(AwakeIn(p)) + 1 /\ Asleep(p)
        /\ \A v \in Workers : pc'[v] = "lock" => p[v] = "lock"
    BY <2>1, <2>2, OneMoreAwake
  <2>4. Asleep(pc) /\ (Returning' => Returning)
    BY <2>1, <2>2, <2>3 DEF Asleep, Returning
  <2>5. Cardinality(Awake)' >= Cardinality(Awake) + 0
    BY <1>1, <2>2, <2>3
  <2>6. Len(wq') <= Len(wq) + 0 /\ (AtThreshold => AtThreshold')
    BY <1>1, <2>1 DEF AtThreshold
  <2> QED BY <1>3, <2>1, <2>4, <2>5, <2>6
<1>8. ASSUME NEW w \in Workers, TakeFast(w) PROVE Wanted' <= Cardinality(Awake)'
  <2>1. PICK r \in Reqs :
          /\ AtHead(w, r) /\ wq' = Tail(wq) /\ pc' = [pc EXCEPT ![w] = "working"]
          /\ isSlow' = isSlow /\ slowRunning' = slowRunning
    BY <1>8 DEF TakeFast
  <2>2. /\ once /\ pc[w] = "top" /\ \A y : Contains(wq, y) <=> Contains(Tail(wq), y) \/ y = r
    BY <2>1, HeadFacts
  <2>3. Len(wq') <= Len(wq) + (0 - 1)
    BY <1>1, <2>1, HeadTailProperties, EmptySeq DEF AtHead, MustWait
  <2>4. Cardinality(AwakeIn(pc')) = Cardinality(AwakeIn(pc)) - 1
    BY <1>1, <2>1, <2>2, AwakeFacts
  <2>5. Asleep(pc) /\ (Returning' => Returning)
    BY <1>1, <2>1, <2>2 DEF Asleep, Returning
  <2>6. /\ Cardinality(Awake)' >= Cardinality(Awake) + (0 - 1) /\ (AtThreshold => AtThreshold')
        /\ Contains(wq, SLOW) => Contains(wq', SLOW) /\ 0 - 1 \in Int
    BY <1>1, <2>1, <2>2, <2>4 DEF AtThreshold
  <2> QED BY <1>3, <2>2, <2>3, <2>5, <2>6
<1>9. ASSUME NEW w \in Workers, TakeSlow(w) PROVE Wanted' <= Cardinality(Awake)'
  <2> DEFINE p == [pc EXCEPT ![w] = "working"]
  <2>1. /\ AtHead(w, SLOW) /\ ~AtThreshold /\ pc[w] = "top" /\ once
        /\ IF Tail(slowPending) # <<>>
           THEN wq' = Append(Tail(wq), SLOW) /\ pc' \in SignalledIfIdle(p)
           ELSE wq' = Tail(wq) /\ pc' = p
    BY <1>9, HeadFacts DEF TakeSlow
  <2>2. /\ p \in [Workers -> PcStates] /\ Cardinality(AwakeIn(p)) = Cardinality(AwakeIn(pc)) - 1
        /\ \A v \in Workers : p[v] \in {"lock", "waiting"} => pc[v] = p[v]
    BY <1>1, <2>1, AwakeFacts DEF PcStates
  <2> HIDE DEF p
  <2>3. /\ Tail(wq) \in Seq(Entries) /\ Len(Tail(wq)) = Len(wq) - 1
        /\ Len(Append(Tail(wq), SLOW)) = Len(wq)
    <3>1. wq # <<>> /\ SLOW \in Entries
      BY <2>1 DEF AtHead, MustWait, Entries
    <3>2. Tail(wq) \in Seq(Entries) /\ Len(Tail(wq)) = Len(wq) - 1
      BY <1>1, <3>1, HeadTailProperties
    <3>3. \A q \in Seq(Entries) : Len(Append(q, SLOW)) = Len(q) + 1
      BY <3>1, AppendProperties
    <3>4. Len(wq) \in Nat
      BY <1>1
    <3>5. Len(Append(Tail(wq), SLOW)) = Len(Tail(wq)) + 1
      BY <3>2, <3>3
    <3> QED BY <3>2, <3>4, <3>5
  <2>4. Wanted = Len(wq)
    BY <1>1, <2>1
  <2>5. CASE Tail(slowPending) = <<>>
    <3>1. wq' = Tail(wq) /\ pc' = p
      BY <2>1, <2>5
    <3>2. Asleep(pc)
      BY <2>2, <3>1 DEF Asleep
    <3>3. Wanted' <= Len(wq) - 1 /\ Len(wq) <= Cardinality(Awake)
      <4>1. Wanted' <= Len(wq')
        BY <1>1
      <4>2. Len(wq') = Len(wq) - 1
        BY <2>3, <3>1
      <4>3. Wanted <= Cardinality(Awake)
        BY <1>2, <2>1, <3>2
      <4> QED BY <2>4, <4>1, <4>2, <4>3
    <3>4. Cardinality(Awake)' = Cardinality(Awake) - 1
      BY <1>1, <2>2, <3>1
    <3> QED BY <1>1, <3>3, <3>4
  <2>6. CASE Tail(slowPending) # <<>>
    <3>1. wq' = Append(Tail(wq), SLOW) /\ pc' \in SignalledIfIdle(p)
      BY <2>1, <2>6
    <3>2. pc' \in Signalled(p)
      BY <1>0, <2>2, <3>1, SignalIsSent
    <3>3. Cardinality(AwakeIn(pc')) = Cardinality(AwakeIn(p)) + 1 /\ Asleep(p)
      BY <2>2, <3>2, OneMoreAwake
    <3>4. Asleep(pc)
      BY <2>2, <3>3 DEF Asleep
    <3>5. Wanted' <= Len(wq) /\ Len(wq) <= Cardinality(Awake)
      <4>1. Wanted' <= Len(wq')
        BY <1>1
      <4>2. Len(wq') = Len(wq)
        BY <2>3, <3>1
      <4>3. Wanted <= Cardinality(Awake)
        BY <1>2, <2>1, <3>4
      <4> QED BY <2>4, <4>1, <4>2, <4>3
    <3>6. Cardinality(Awake)' = Cardinality(Awake)
      BY <1>1, <2>2, <3>3
    <3> QED BY <1>1, <3>5, <3>6
  <2> QED BY <2>5, <2>6
<1>10. ASSUME NEW w \in Workers, Requeue(w) \/ DropMarker(w) PROVE Wanted' <= Cardinality(Awake)'
  <2>1. /\ AtHead(w, SLOW) /\ once /\ UNCHANGED <<pc, isSlow, slowRunning>>
        /\ Tail(wq) \in Seq(FastEntries)
    BY <1>10, HeadFacts DEF Requeue, DropMarker
  <2>2. Asleep(pc) /\ (Returning' <=> Returning) /\ (AtThreshold' <=> AtThreshold) /\ Awake' = Awake
    BY <2>1 DEF Asleep, Returning, AtThreshold, Awake
  <2>3. SLOW \in FastEntries /\ Len(Tail(wq)) = Len(wq) - 1
    <3>1. wq # <<>>
      BY <2>1 DEF AtHead, MustWait
    <3> QED BY <1>1, <3>1, HeadTailProperties DEF FastEntries
  <2>4. CASE Requeue(w)
    <3>1. wq' = Append(Tail(wq), SLOW)
      BY <2>4 DEF Requeue
    <3>2. Contains(wq', SLOW) /\ Len(wq') = Len(wq)
      <4>1. /\ \A q \in Seq(FastEntries) : Contains(Append(q, SLOW), SLOW)
            /\ \A q \in Seq(FastEntries) : Len(Append(q, SLOW)) = Len(q) + 1
        BY <2>3, AppendQueue, AppendProperties
      <4>2. Contains(Append(Tail(wq), SLOW), SLOW)
        BY <2>1, <4>1
      <4>3. Len(Append(Tail(wq), SLOW)) = Len(Tail(wq)) + 1
        BY <2>1, <4>1
      <4> QED BY <1>1, <2>3, <3>1, <4>2, <4>3
    <3>3. Len(wq') <= Len(wq) + 0 /\ Cardinality(Awake)' >= Cardinality(Awake) + 0
      BY <1>1, <2>2, <3>2
    <3> QED BY <1>3, <2>1, <2>2, <3>2, <3>3
  <2>5. CASE DropMarker(w)
    <3>1. wq' = Tail(wq) /\ ~AtThreshold
      BY <2>5 DEF DropMarker
    <3> QED BY <1>1, <1>2, <2>1, <2>2, <2>3, <3>1
  <2> QED BY <1>10, <2>4, <2>5
<1>11. ASSUME NEW w \in Workers, Finish(w) PROVE Wanted' <= Cardinality(Awake)'
  <2>1. /\ pc[w] = "working" /\ pc' = [pc EXCEPT ![w] = "send"]
        /\ UNCHANGED <<once, wq, isSlow, slowRunning>>
    BY <1>11 DEF Finish
  <2>2. Asleep(pc) /\ (Returning' => Returning) /\ (AtThreshold => AtThreshold') /\ Awake' = Awake
    BY <1>1, <2>1 DEF Asleep, Returning, AtThreshold, Awake
  <2>3. Len(wq') <= Len(wq) + 0 /\ Cardinality(Awake)' >= Cardinality(Awake) + 0
    BY <1>1, <2>1, <2>2
  <2> QED BY <1>3, <2>1, <2>2, <2>3
<1>12. ASSUME NEW w \in Workers, Announce(w) PROVE Wanted' <= Cardinality(Awake)'
  <2>1. /\ pc[w] = "send" /\ pc' = [pc EXCEPT ![w] = "lock"] /\ wq' = wq /\ once' = once
    BY <1>12 DEF Announce
  <2>2. Asleep(pc)
    BY <1>1, <2>1 DEF Asleep
  <2>3. Cardinality(AwakeIn(pc')) = Cardinality(AwakeIn(pc)) + 1
    BY <1>1, <2>1, AwakeFacts
  <2> QED BY <1>1, <1>2, <2>1, <2>2, <2>3
<1>13. ASSUME NEW x \in Reqs \union {EXIT}, Post(x), UNCHANGED <<isSlow, slowRunning>>
       PROVE  Wanted' <= Cardinality(Awake)'
  <2>1. Woken(PoolPc, pc')
    BY <1>0, <1>13, PoolPcType, SignalWakes DEF Post
  <2>2. once
    <3>1. CASE ~once
      <4>1. PoolPc = [w \in Workers |-> "lock"]
        BY <3>1 DEF PoolPc
      <4>2. \A w \in Workers : pc'[w] = "lock"
        BY <2>1, <4>1 DEF Woken
      <4> QED BY <4>2 DEF Asleep
    <3> QED BY <3>1
  <2>3. PoolPc = pc /\ PoolWq = wq
    BY <2>2 DEF PoolPc, PoolWq
  <2>4. \/ wq' = wq /\ pc' = pc
        \/ \E y \in {x, SLOW} : wq' = Append(wq, y) /\ pc' \in SignalledIfIdle(pc)
    BY <1>13, <2>3 DEF Post
  <2>5. Asleep(pc) /\ (Returning' => Returning) /\ (AtThreshold => AtThreshold')
    BY <1>13, <2>1, <2>3 DEF Asleep, Returning, AtThreshold, Woken
  <2>6. CASE wq' = wq /\ pc' = pc
    <3>1. Len(wq') <= Len(wq) + 0 /\ Cardinality(Awake)' >= Cardinality(Awake) + 0
      BY <1>1, <2>6
    <3> QED BY <1>3, <2>2, <2>5, <2>6, <3>1
  <2>7. ASSUME NEW y \in {x, SLOW}, wq' = Append(wq, y), pc' \in SignalledIfIdle(pc)
        PROVE  Wanted' <= Cardinality(Awake)'
    <3>1. pc' \in Signalled(pc)
      BY <1>0, <1>1, <2>7, SignalIsSent
    <3>2. Cardinality(AwakeIn(pc')) = Cardinality(AwakeIn(pc)) + 1
      BY <1>1, <3>1, OneMoreAwake
    <3>3. y \in Entries
      BY <2>7 DEF Entries
    <3>4. Len(wq') = Len(wq) + 1 /\ (Contains(wq, SLOW) => Contains(wq', SLOW))
      BY <1>1, <2>7, <3>3, AppendQueue, AppendProperties
    <3>5. Len(wq') <= Len(wq) + 1 /\ Cardinality(Awake)' >= Cardinality(Awake) + 1
      BY <1>1, <3>2, <3>4
    <3> QED BY <1>3, <2>2, <2>5, <3>4, <3>5
  <2> QED BY <2>4, <2>6, <2>7
<1>14. ASSUME NEW r \in Reqs, Submit(r) PROVE Wanted' <= Cardinality(Awake)'
  BY <1>13, <1>14 DEF Submit
<1>15. CASE PostExit
  <2>1. once /\ UNCHANGED <<isSlow, slowRunning>>
    BY <1>15 DEF PostExit
  <2> QED BY <1>13, <1>15, <2>1, PostExitPosts
\* What leaves the threads alone.
<1>16. ASSUME once, UNCHANGED <<pc, isSlow, slowRunning>>, Len(wq') <= Len(wq),
              Contains(wq, SLOW) => Contains(wq', SLOW)
       PROVE  Wanted' <= Cardinality(Awake)'
  <2>1. Asleep(pc) /\ (Returning' => Returning) /\ (AtThreshold => AtThreshold')
    BY <1>16 DEF Asleep, Returning, AtThreshold
  <2>2. Len(wq') <= Len(wq) + 0 /\ Cardinality(Awake)' >= Cardinality(Awake) + 0
    BY <1>1, <1>16
  <2> QED BY <1>3, <1>16, <2>1, <2>2
<1>17. ASSUME NEW r \in Reqs, CancelLock(r) PROVE Wanted' <= Cardinality(Awake)'
  <2>1. wq' = PoolWq /\ pc' = PoolPc /\ UNCHANGED <<isSlow, slowRunning>>
    BY <1>17 DEF CancelLock
  <2>2. once
    <3>1. CASE ~once
      BY <2>1, <3>1 DEF PoolPc, Asleep
    <3> QED BY <3>1
  <2>3. wq' = wq /\ pc' = pc
    BY <2>1, <2>2 DEF PoolWq, PoolPc
  <2> QED BY <1>1, <1>16, <2>1, <2>2, <2>3
<1>18. ASSUME NEW l \in Loops, CancelCheck(l) PROVE Wanted' <= Cardinality(Awake)'
  <2>1. UNCHANGED <<once, pc, isSlow, slowRunning>> /\ (wq' = wq \/ wq' = Unlink(wq, creq[l]))
    BY <1>18 DEF CancelCheck
  <2>2. creq[l] # SLOW
    BY <1>0, <1>18 DEF CancelCheck, IInv, Callers, Caller
  <2>3. Len(wq') <= Len(wq) /\ (Contains(wq, SLOW) => Contains(wq', SLOW))
    BY <1>1, <2>1, <2>2, UnlinkQueue
  <2> QED BY <1>16, <2>1, <2>3
<1>19. CASE \/ \E l \in Loops : CancelPublish(l) \/ Deliver(l)
            \/ Cleanup \/ Join \/ Abort \/ UNCHANGED vars
  <2>1. UNCHANGED <<once, pc, isSlow, slowRunning, wq>>
    BY <1>19 DEF CancelPublish, Deliver, AsyncFire, Drain, Complete, Return, WorkDone,
           Cleanup, Join, Abort, vars
  <2> QED BY <1>1, <1>16, <2>1
<1>20. ASSUME NEW l \in Loops, ForkChild(l) PROVE Wanted' <= Cardinality(Awake)'
  BY <1>20 DEF ForkChild
<1> QED BY <1>4, <1>5, <1>6, <1>7, <1>8, <1>9, <1>10, <1>11, <1>12, <1>14, <1>15, <1>17, <1>18,
           <1>19, <1>20 DEF Next, Worker

\* While a thread sleeps unsignalled at least as many are on their way to the queue as it has
\* entries that can be executed.
THEOREM NoWakeupIsLost ==
    ASSUME CancelScope = {"submitted"} PROVE Spec => []WorkConserving
<1>1. Init => Manned
  BY DEF Init, Manned
<1>2. IInv /\ Manned /\ [Next]_vars => Manned'
  BY MannedStep
<1>3. IInv /\ Manned => WorkConserving
  <2> SUFFICES ASSUME IInv, Manned, once, \E w \in Workers : pc[w] = "waiting"
               PROVE  Runnable <= Cardinality(Awake)
    BY DEF WorkConserving
  <2>1. Wanted <= Cardinality(Awake)
    BY DEF Manned, Asleep
  <2>2. Wanted \in Int /\ Len(wq) \in Nat /\ Cardinality(Awake) \in Nat
    BY WantedFacts DEF IInv
  <2>3. Runnable <= Wanted
    BY <2>2 DEF Runnable, Wanted
  <2> QED BY <2>1, <2>2, <2>3 DEF Runnable
<1> QED BY <1>1, <1>2, <1>3, Invariance, PTL DEF Spec

-----------------------------------------------------------------------------
(* The pool implements WorkRequest *)

\* A thread keeps the request it has executed until it has announced it, and
\* holds wq_mutex of its loop from the one to the other: the request cannot be
\* delivered and submitted again while w still points to it.
Held ==
    \A w \in Workers :
        /\ cur[w] # None => pc[w] \in {"working", "send"}
        /\ pc[w] = "send" =>
             LET l == Owner[cur[w]] IN
             wqMutex[l] = w /\ Contains(loopWq[l], cur[w]) /\ work[cur[w]] = "null"

\* Steps that touch neither the requests a thread may hold nor wq_mutex.
LEMMA HeldElsewhere ==
    ASSUME TypeOK, Held,
           UNCHANGED <<cur, wqMutex, loopWq, work>>,
           \A w \in Workers :
             \/ pc'[w] = pc[w]
             \/ pc[w] \notin {"working", "send"} /\ pc'[w] # "send"
    PROVE  Held'
<1> SUFFICES ASSUME NEW w \in Workers
             PROVE  /\ cur[w] # None => pc'[w] \in {"working", "send"}
                    /\ pc'[w] = "send" =>
                         LET l == Owner[cur[w]] IN
                         wqMutex[l] = w /\ Contains(loopWq[l], cur[w]) /\ work[cur[w]] = "null"
  BY DEF Held
<1>1. CASE pc'[w] = pc[w]
  BY <1>1 DEF Held
<1>2. CASE pc[w] \notin {"working", "send"} /\ pc'[w] # "send"
  BY <1>2 DEF Held
<1> QED BY <1>1, <1>2

LEMMA HeldStep ==
    ASSUME IInv, CancelScope = {"submitted"}, Held, [Next]_vars PROVE Held'
<1> USE DEF IInv
<1>1. ASSUME NEW w \in Workers, Lock(w) \/ Sleep(w) \/ SpuriousWakeup(w) \/ Wake(w)
                                 \/ Requeue(w) \/ DropMarker(w)
      PROVE  Held'
  BY <1>1, HeldElsewhere DEF Lock, Sleep, SpuriousWakeup, Wake, Requeue, DropMarker, AtHead, TypeOK
<1>2. ASSUME NEW w \in Workers, Exit(w) PROVE Held'
  <2> DEFINE p == [pc EXCEPT ![w] = "exited"]
  <2>1. p \in [Workers -> PcStates] /\ pc[w] = "top"
    BY <1>2 DEF TypeOK, PcStates, Exit, AtHead
  <2>2. Woken(p, pc')
    BY <1>2, <2>1, SignalWakes DEF Exit
  <2>3. \A v \in Workers : \/ pc'[v] = pc[v]
                           \/ pc[v] \notin {"working", "send"} /\ pc'[v] # "send"
    BY <2>1, <2>2 DEF Woken, TypeOK
  <2> QED BY <1>2, <2>3, HeldElsewhere DEF Exit
<1>3. ASSUME NEW w \in Workers, TakeFast(w) \/ TakeSlow(w) PROVE Held'
  <2>1. /\ pc[w] = "top" /\ UNCHANGED <<wqMutex, loopWq, work>>
        /\ \E r \in Reqs : cur' = [cur EXCEPT ![w] = r]
    <3>1. CASE TakeFast(w)
      BY <3>1 DEF TakeFast, AtHead, Execute
    <3>2. CASE TakeSlow(w)
      <4>1. Head(slowPending) \in Reqs
        BY <3>2, HeadFacts DEF TakeSlow, TypeOK
      <4> QED BY <3>2, <4>1 DEF TakeSlow, AtHead, Execute
    <3> QED BY <1>3, <3>1, <3>2
  <2> DEFINE p == [pc EXCEPT ![w] = "working"]
  <2>2. p \in [Workers -> PcStates] /\ p[w] = "working"
    BY DEF TypeOK, PcStates
  <2>3. pc' \in SignalledIfIdle(p) \/ pc' = p
    BY <1>3 DEF TakeFast, TakeSlow
  <2>4. Woken(p, pc')
    BY <2>2, <2>3, SignalWakes
  <2>5. pc'[w] = "working"
    BY <2>2, <2>4 DEF Woken
  <2>6. \A v \in Workers \ {w} :
           cur'[v] = cur[v] /\ (pc'[v] = pc[v] \/ (pc[v] = "waiting" /\ pc'[v] = "woken"))
    BY <2>1, <2>4 DEF Woken, TypeOK
  <2> QED BY <2>1, <2>5, <2>6 DEF Held
<1>4. ASSUME NEW w \in Workers, Finish(w) PROVE Held'
  <2> DEFINE r == cur[w]
             l == Owner[cur[w]]
  <2>1. /\ pc[w] = "working" /\ r \in Reqs /\ l \in Loops /\ wqMutex[l] = None
        /\ wqMutex' = [wqMutex EXCEPT ![l] = w]
        /\ work' = [work EXCEPT ![r] = "null"]
        /\ loopWq' = [loopWq EXCEPT ![l] = Append(@, r)]
        /\ pc' = [pc EXCEPT ![w] = "send"] /\ cur' = cur
    BY <1>4 DEF Finish, Members
  <2>2. loopWq[l] \in Seq(Reqs) /\ loopWq'[l] = Append(loopWq[l], r)
    BY <2>1 DEF TypeOK
  <2>3. \A y : Contains(loopWq'[l], y) <=> Contains(loopWq[l], y) \/ y = r
    <3>1. \A q \in Seq(Reqs) : \A y : Contains(Append(q, r), y) <=> Contains(q, y) \/ y = r
      BY <2>1, AppendQueue
    <3> QED BY <2>2, <3>1
  <2>4. /\ wqMutex'[l] = w /\ work'[r] = "null" /\ pc'[w] = "send"
        /\ Contains(loopWq'[l], r)
    BY <2>1, <2>3 DEF TypeOK
  <2>5. ASSUME NEW v \in Workers, v # w, pc[v] = "send"
        PROVE  /\ cur[v] \in Reqs /\ Owner[cur[v]] \in Loops /\ Owner[cur[v]] # l
               /\ wqMutex'[Owner[cur[v]]] = v /\ work'[cur[v]] = "null"
               /\ Contains(loopWq'[Owner[cur[v]]], cur[v])
    <3>1. /\ cur[v] \in Reqs /\ Owner[cur[v]] \in Loops
          /\ wqMutex[Owner[cur[v]]] = v /\ Contains(loopWq[Owner[cur[v]]], cur[v])
          /\ work[cur[v]] = "null"
      BY <2>5 DEF Members, Held
    <3>2. Owner[cur[v]] # l
      BY <2>1, <3>1
    <3> QED BY <2>1, <3>1, <3>2 DEF TypeOK
  <2>6. ASSUME NEW v \in Workers, v # w PROVE pc'[v] = pc[v]
    BY <2>1, <2>6 DEF TypeOK
  <2> QED BY <2>1, <2>4, <2>5, <2>6 DEF Held
<1>5. ASSUME NEW w \in Workers, Announce(w) PROVE Held'
  <2> DEFINE l == Owner[cur[w]]
  <2>1. /\ pc[w] = "send" /\ cur[w] \in Reqs /\ l \in Loops /\ wqMutex[l] = w
        /\ wqMutex' = [wqMutex EXCEPT ![l] = None]
        /\ pc' = [pc EXCEPT ![w] = "lock"] /\ cur' = [cur EXCEPT ![w] = None]
        /\ work' = work /\ loopWq' = loopWq
    BY <1>5 DEF Announce, Members, Held
  <2>2. cur'[w] = None /\ pc'[w] = "lock"
    BY <2>1 DEF TypeOK
  <2>3. ASSUME NEW v \in Workers, v # w PROVE pc'[v] = pc[v] /\ cur'[v] = cur[v]
    BY <2>1, <2>3 DEF TypeOK
  <2>4. ASSUME NEW v \in Workers, v # w, pc[v] = "send"
        PROVE  /\ wqMutex'[Owner[cur[v]]] = v /\ work'[cur[v]] = "null"
               /\ Contains(loopWq'[Owner[cur[v]]], cur[v])
    <3>1. /\ cur[v] \in Reqs /\ Owner[cur[v]] \in Loops
          /\ wqMutex[Owner[cur[v]]] = v /\ Contains(loopWq[Owner[cur[v]]], cur[v])
          /\ work[cur[v]] = "null"
      BY <2>4 DEF Members, Held
    <3>2. Owner[cur[v]] # l
      BY <2>1, <2>4, <3>1
    <3> QED BY <2>1, <3>1, <3>2 DEF TypeOK
  <2> QED BY <2>2, <2>3, <2>4 DEF Held
\* What a thread at "send" holds, and what the steps of a loop may not touch.
<1>6. \A w \in Workers : pc[w] = "send" =>
        LET l == Owner[cur[w]] IN
        /\ cur[w] \in Reqs /\ l \in Loops /\ wqMutex[l] = w
        /\ life[cur[w]] = "submitted" /\ work[cur[w]] = "null"
        /\ Contains(loopWq[l], cur[w])
  BY DEF Held, Members, Returns
<1>7. ASSUME UNCHANGED <<cur, wqMutex>>,
             pc' \in [Workers -> PcStates],
             \A w \in Workers : \/ pc'[w] = pc[w]
                                \/ pc[w] \notin {"working", "send"} /\ pc'[w] # "send",
             \A w \in Workers : pc[w] = "send" =>
               LET l == Owner[cur[w]] IN
               loopWq'[l] = loopWq[l] /\ work'[cur[w]] = work[cur[w]]
      PROVE  Held'
  BY <1>6, <1>7 DEF Held
<1>8. \A q \in [Workers -> PcStates] : Woken(PoolPc, q) =>
        \A w \in Workers : \/ q[w] = pc[w]
                           \/ pc[w] \notin {"working", "send"} /\ q[w] # "send"
  <2>1. once => PoolPc = pc
    BY DEF PoolPc
  <2>2. ~once => \A w \in Workers : pc[w] \in {"none", "gone"} /\ PoolPc[w] = "lock"
    BY DEF PoolPc, Members
  <2> QED BY <2>1, <2>2 DEF Woken
<1>9. ASSUME NEW r \in Reqs, Submit(r) PROVE Held'
  <2>1. /\ UNCHANGED <<cur, wqMutex, loopWq>> /\ work' = [work EXCEPT ![r] = "fn"]
        /\ Post(r) /\ life[r] # "submitted"
    BY <1>9 DEF Submit
  <2>2. Woken(PoolPc, pc')
    BY <2>1, PoolPcType, SignalWakes DEF Post
  <2>3. \A w \in Workers : pc[w] = "send" => cur[w] # r /\ work'[cur[w]] = work[cur[w]]
    BY <1>6, <2>1 DEF TypeOK
  <2> QED BY <1>7, <1>8, <2>1, <2>2, <2>3 DEF Woken
<1>10. ASSUME NEW r \in Reqs, CancelLock(r) PROVE Held'
  <2>1. UNCHANGED <<cur, wqMutex, loopWq, work>> /\ pc' = PoolPc
    BY <1>10 DEF CancelLock
  <2>2. Woken(PoolPc, pc')
    BY <2>1, PoolPcType DEF Woken
  <2> QED BY <1>7, <1>8, <2>1, <2>2 DEF Woken
<1>11. ASSUME NEW l \in Loops, CancelCheck(l) PROVE Held'
  <2>1. UNCHANGED <<cur, wqMutex, work, pc>> /\ wqMutex[l] = None
    BY <1>11 DEF CancelCheck
  <2>2. \A k \in Loops \ {l} : loopWq'[k] = loopWq[k]
    BY <1>11 DEF CancelCheck, TypeOK
  <2>3. \A w \in Workers : pc[w] = "send" => Owner[cur[w]] \in Loops \ {l}
    BY <1>6, <2>1
  <2> QED BY <1>7, <2>1, <2>2, <2>3 DEF TypeOK
<1>12. ASSUME NEW l \in Loops, CancelPublish(l) PROVE Held'
  <2>1. /\ UNCHANGED <<cur, wqMutex, pc>> /\ wqMutex[l] = None
        /\ creq[l] \in Reqs /\ Owner[creq[l]] = l
    BY <1>12 DEF CancelPublish, Callers, Caller
  <2>2. /\ \A k \in Loops \ {l} : loopWq'[k] = loopWq[k]
        /\ \A r \in Reqs \ {creq[l]} : work'[r] = work[r]
    BY <1>12, <2>1 DEF CancelPublish, TypeOK
  <2>3. \A w \in Workers : pc[w] = "send" => Owner[cur[w]] \in Loops \ {l} /\ cur[w] \in Reqs \ {creq[l]}
    BY <1>6, <2>1
  <2> QED BY <1>7, <2>1, <2>2, <2>3 DEF TypeOK
<1>13. ASSUME NEW l \in Loops, Drain(l) PROVE Held'
  <2>1. UNCHANGED <<cur, wqMutex, work, pc>> /\ wqMutex[l] = None
    BY <1>13 DEF Drain
  <2>2. \A k \in Loops \ {l} : loopWq'[k] = loopWq[k]
    BY <1>13 DEF Drain, TypeOK
  <2>3. \A w \in Workers : pc[w] = "send" => Owner[cur[w]] \in Loops \ {l}
    BY <1>6, <2>1
  <2> QED BY <1>7, <2>1, <2>2, <2>3 DEF TypeOK
<1>14. ASSUME NEW l \in Loops, AsyncFire(l) \/ Complete(l) \/ Return(l) \/ WorkDone(l)
       PROVE  Held'
  BY <1>14, HeldElsewhere DEF AsyncFire, Complete, Return, WorkDone
<1>15. CASE PostExit
  <2>1. UNCHANGED <<cur, wqMutex, loopWq, work>> /\ pc' \in SignalledIfIdle(pc)
    BY <1>15 DEF PostExit
  <2>2. Woken(pc, pc')
    BY <2>1, SignalWakes DEF TypeOK
  <2>3. \A w \in Workers : \/ pc'[w] = pc[w]
                           \/ pc[w] \notin {"working", "send"} /\ pc'[w] # "send"
    BY <2>2 DEF Woken
  <2> QED BY <2>1, <2>3, HeldElsewhere
<1>16. CASE Cleanup \/ Join \/ Abort \/ UNCHANGED vars
  BY <1>16, HeldElsewhere DEF Cleanup, Join, Abort, vars
<1>17. ASSUME NEW l \in Loops, ForkChild(l) PROVE Held'
  BY <1>17 DEF ForkChild, Held
<1> QED BY <1>1, <1>2, <1>3, <1>4, <1>5, <1>9, <1>10, <1>11, <1>12, <1>13, <1>14, <1>15, <1>16, <1>17
        DEF Next, Worker, Deliver

\* The phase of a request depends on its life, on w->work and on who holds it.
Holds(r) == \E w \in Workers : cur[w] = r

LEMMA PhaseKept ==
    ASSUME NEW r \in Reqs, life'[r] = life[r], work'[r] = work[r],
           InFlight(Owner[r], r)' <=> InFlight(Owner[r], r),
           life[r] = "submitted" /\ work[r] = "fn" => (Holds(r)' <=> Holds(r)),
           work[r] \in {"fn", "null", "cancelled"},
           life[r] \in {"fresh", "submitted", "done", "lost"}
    PROVE  Phase(r)' = Phase(r)
<1> DEFINE inFlight == InFlight(Owner[r], r)
<1>1. inFlight' <=> inFlight
  OBVIOUS
<1> HIDE DEF inFlight
<1>2. CASE life[r] \in {"fresh", "done", "lost"}
  BY <1>2 DEF Phase
<1>3. CASE life[r] = "submitted" /\ work[r] = "null"
  BY <1>3 DEF Phase
<1>4. CASE life[r] = "submitted" /\ work[r] = "cancelled"
  BY <1>4 DEF Phase
<1>5. CASE life[r] = "submitted" /\ work[r] = "fn"
  BY <1>1, <1>5 DEF Phase, Holds, inFlight
<1> QED BY <1>2, <1>3, <1>4, <1>5

LEMMA PhaseIs ==
    ASSUME IInv, Held, NEW r \in Reqs
    PROVE  /\ life[r] = "fresh" => Phase(r) = "idle"
           /\ life[r] = "done" => Phase(r) = "delivered"
           /\ life[r] = "lost" => Phase(r) = "lost"
           /\ life[r] = "submitted" =>
                /\ Phase(r) \in {"queued", "running", "finished", "cancelled"}
                /\ work[r] = "null" => Phase(r) = "finished"
                /\ work[r] = "cancelled" => Phase(r) = "cancelled"
                /\ InFlight(Owner[r], r) => Phase(r) = "cancelled"
           /\ life[r] # "submitted" => ~Holds(r)
           /\ Waits(r) => Phase(r) = "queued" /\ ~Holds(r)
           /\ Executes(r) /\ Holds(r) => Phase(r) = "running"
<1>0. Account(r)
  BY DEF IInv, Accounts
<1>1. InFlight(Owner[r], r) => life[r] # "submitted" \/ (work[r] # "null" /\ node[r] = "loose")
  BY <1>0 DEF Account
<1>2. Holds(r) => life[r] = "submitted" /\ (work[r] = "null" \/ Executes(r))
  BY DEF Holds, Held, IInv, Members, Executes, Returns
<1>3. Waits(r) => ~Holds(r) /\ ~InFlight(Owner[r], r)
  BY <1>1, <1>2 DEF Waits, Executes
<1>4. Executes(r) => ~InFlight(Owner[r], r)
  BY <1>1 DEF Executes
<1>5. work[r] \in {"fn", "null", "cancelled"} /\ life[r] \in {"fresh", "submitted", "done", "lost"}
  BY DEF IInv, TypeOK
<1>6. /\ life[r] = "fresh" => Phase(r) = "idle"
      /\ life[r] = "done" => Phase(r) = "delivered"
      /\ life[r] = "lost" => Phase(r) = "lost"
  BY DEF Phase
<1>7. life[r] = "submitted" =>
        /\ Phase(r) \in {"queued", "running", "finished", "cancelled"}
        /\ work[r] = "null" => Phase(r) = "finished"
        /\ work[r] = "cancelled" => Phase(r) = "cancelled"
  BY DEF Phase
<1>8. life[r] = "submitted" /\ InFlight(Owner[r], r) => Phase(r) = "cancelled"
  BY <1>1 DEF Phase
<1>9. Waits(r) => Phase(r) = "queued"
  BY <1>3 DEF Waits, Phase, Holds
<1>10. Executes(r) /\ Holds(r) => Phase(r) = "running"
  BY <1>4 DEF Executes, Phase, Holds
<1> QED BY <1>2, <1>3, <1>6, <1>7, <1>8, <1>9, <1>10



\* A step of WorkRequest, as the pool's steps have to map to it.
RequestStep == [Request!Next]_<<[r \in Reqs |-> Phase(r)], verdict>>

LEMMA NothingMoves ==
    ASSUME \A r \in Reqs : Phase(r)' = Phase(r), verdict' = verdict PROVE RequestStep
  BY DEF RequestStep

LEMMA OneMoves ==
    ASSUME NEW r \in Reqs, NEW from, NEW to, Phase(r) = from, Phase(r)' = to,
           \A s \in Reqs \ {r} : Phase(s)' = Phase(s)
    PROVE  Request!Move(r, from, to)
  BY DEF Request!Move

LEMMA StepRefines ==
    ASSUME IInv, CancelScope = {"submitted"}, Held, Held', [Next]_vars PROVE RequestStep
<1>0. /\ \A r \in Reqs : /\ work[r] \in {"fn", "null", "cancelled"}
                         /\ life[r] \in {"fresh", "submitted", "done", "lost"}
      /\ TypeOK
  BY DEF IInv, TypeOK
\* Steps that touch neither the requests nor who holds them.
<1>1. ASSUME UNCHANGED <<life, work, cur, verdict>>,
             \A l \in Loops : lpc[l] = "cancelPublish" \/ lpc'[l] = "cancelPublish" =>
                                lpc'[l] = lpc[l] /\ creq'[l] = creq[l]
      PROVE  RequestStep
  <2>1. \A r \in Reqs : Owner[r] \in Loops /\ (InFlight(Owner[r], r)' <=> InFlight(Owner[r], r))
    BY <1>1 DEF InFlight
  <2>2. \A r \in Reqs : Holds(r)' <=> Holds(r)
    BY <1>1 DEF Holds
  <2>3. \A r \in Reqs : Phase(r)' = Phase(r)
    BY <1>0, <1>1, <2>1, <2>2, PhaseKept
  <2> QED BY <1>1, <2>3, NothingMoves
<1>2. ASSUME NEW w \in Workers,
             Lock(w) \/ Sleep(w) \/ SpuriousWakeup(w) \/ Wake(w) \/ Exit(w) \/ Requeue(w) \/ DropMarker(w)
      PROVE  RequestStep
  BY <1>1, <1>2 DEF Lock, Sleep, SpuriousWakeup, Wake, Exit, Requeue, DropMarker
<1>3. CASE Cleanup \/ PostExit \/ Join \/ Abort \/ UNCHANGED vars
  BY <1>1, <1>3 DEF Cleanup, PostExit, Join, Abort, vars
<1>4. ASSUME NEW l \in Loops, AsyncFire(l) \/ Drain(l) \/ Return(l) \/ WorkDone(l)
      PROVE  RequestStep
  <2>1. /\ UNCHANGED <<life, work, cur, verdict, creq>> /\ lpc[l] # "cancelPublish"
        /\ \E k \in {"program", "drain", "next"} : lpc' = [lpc EXCEPT ![l] = k]
    BY <1>4 DEF AsyncFire, Drain, Return, WorkDone
  <2> QED BY <1>0, <1>1, <2>1 DEF TypeOK
<1>5. ASSUME NEW r \in Reqs, CancelLock(r) PROVE RequestStep
  BY <1>0, <1>1, <1>5 DEF CancelLock, Program, TypeOK
\* A worker takes a request that waits.
<1>6. ASSUME NEW w \in Workers, NEW r \in Reqs, Waits(r), pc[w] = "top",
             cur' = [cur EXCEPT ![w] = r], UNCHANGED <<life, work, verdict, lpc, creq>>,
             node'[r] = "init"
      PROVE  RequestStep
  <2>1. \A s \in Reqs : InFlight(Owner[s], s)' <=> InFlight(Owner[s], s)
    BY <1>6 DEF InFlight
  <2>2. cur[w] = None
    BY <1>6 DEF Held
  <2>3. \A s \in Reqs \ {r} : Holds(s)' <=> Holds(s)
    BY <1>0, <1>6, <2>2 DEF Holds, TypeOK
  <2>4. \A s \in Reqs \ {r} : Phase(s)' = Phase(s)
    BY <1>0, <1>6, <2>1, <2>3, PhaseKept
  <2>5. Phase(r) = "queued" /\ ~InFlight(Owner[r], r)
    BY <1>6, PhaseIs DEF Waits, IInv, Accounts, Account
  <2>6. Phase(r)' = "running"
    <3>1. life'[r] = "submitted" /\ work'[r] = "fn" /\ ~InFlight(Owner[r], r)' /\ \E v \in Workers : cur'[v] = r
      BY <1>0, <1>6, <2>1, <2>5 DEF Waits, TypeOK
    <3> QED BY <3>1 DEF Phase
  <2>7. Request!Start(r)
    BY <1>6, <2>4, <2>5, <2>6, OneMoves DEF Request!Start
  <2> QED BY <2>7 DEF RequestStep, Request!Next
<1>7. ASSUME NEW w \in Workers, TakeFast(w) PROVE RequestStep
  <2>1. PICK r \in Reqs : AtHead(w, r) /\ Execute(w, r)
    BY <1>7 DEF TakeFast
  <2>2. Waits(r) /\ pc[w] = "top"
    BY <2>1, HeadFacts, WaitingRequest DEF IInv, Members, AtHead
  <2> QED BY <1>0, <1>6, <2>1, <2>2 DEF Execute, TypeOK
<1>8. ASSUME NEW w \in Workers, TakeSlow(w) PROVE RequestStep
  <2>1. AtHead(w, SLOW) /\ slowPending # <<>> /\ Execute(w, Head(slowPending))
    BY <1>8 DEF TakeSlow
  <2>2. PICK r \in Reqs : r = Head(slowPending) /\ Contains(slowPending, r)
    BY <1>0, <2>1, TailQueue DEF TypeOK
  <2>3. once /\ pc[w] = "top"
    BY <2>1, HeadFacts
  <2>4. Waits(r)
    BY <2>2, <2>3 DEF IInv, Members
  <2> QED BY <1>0, <1>6, <2>1, <2>2, <2>3, <2>4 DEF Execute, TypeOK
<1>9. ASSUME NEW w \in Workers, Finish(w) PROVE RequestStep
  <2> DEFINE r == cur[w]
  <2>1. /\ pc[w] = "working" /\ r \in Reqs /\ Executes(r)
        /\ work' = [work EXCEPT ![r] = "null"]
        /\ UNCHANGED <<life, cur, lpc, creq, verdict>>
    BY <1>9 DEF Finish, IInv, Members
  <2>2. \A s \in Reqs : /\ InFlight(Owner[s], s)' <=> InFlight(Owner[s], s)
                        /\ Holds(s)' <=> Holds(s)
    BY <2>1 DEF InFlight, Holds
  <2>3. \A s \in Reqs \ {r} : Phase(s)' = Phase(s)
    BY <1>0, <2>1, <2>2, PhaseKept DEF TypeOK
  <2>4. Phase(r) = "running"
    BY <2>1, PhaseIs DEF Holds
  <2>5. Phase(r)' = "finished"
    BY <1>0, <2>1 DEF Executes, Phase, TypeOK
  <2>6. Request!Finish(r)
    BY <2>1, <2>3, <2>4, <2>5, OneMoves DEF Request!Finish
  <2> QED BY <2>1, <2>6 DEF RequestStep, Request!Next
<1>10. ASSUME NEW w \in Workers, Announce(w) PROVE RequestStep
  <2>1. /\ cur' = [cur EXCEPT ![w] = None] /\ cur[w] \in Reqs /\ work[cur[w]] = "null"
        /\ UNCHANGED <<life, work, lpc, creq, verdict>>
    BY <1>10 DEF Announce, IInv, Members, Held
  <2>2. \A s \in Reqs : /\ InFlight(Owner[s], s)' <=> InFlight(Owner[s], s)
                        /\ work[s] = "fn" => (Holds(s)' <=> Holds(s))
    BY <1>0, <2>1 DEF InFlight, Holds, TypeOK
  <2>3. \A s \in Reqs : Phase(s)' = Phase(s)
    BY <1>0, <2>1, <2>2, PhaseKept
  <2> QED BY <2>1, <2>3, NothingMoves
<1>11. ASSUME NEW r \in Reqs, Submit(r) PROVE RequestStep
  <2>1. /\ life[r] \in {"fresh", "done"} /\ lpc[Owner[r]] # "cancelPublish"
        /\ life' = [life EXCEPT ![r] = "submitted"] /\ work' = [work EXCEPT ![r] = "fn"]
        /\ verdict' = [verdict EXCEPT ![r] = "none"]
        /\ UNCHANGED <<cur, lpc, creq>>
    BY <1>11 DEF Submit, Program
  <2>2. \A s \in Reqs : /\ InFlight(Owner[s], s)' <=> InFlight(Owner[s], s)
                        /\ Holds(s)' <=> Holds(s)
    BY <2>1 DEF InFlight, Holds
  <2>3. \A s \in Reqs \ {r} : Phase(s)' = Phase(s)
    BY <1>0, <2>1, <2>2, PhaseKept DEF TypeOK
  <2>4. Phase(r) \in {"idle", "delivered"} /\ ~Holds(r)
    BY <2>1, PhaseIs
  <2>5. Phase(r)' = "queued"
    <3>1. /\ life'[r] = "submitted" /\ work'[r] = "fn" /\ ~InFlight(Owner[r], r)'
          /\ ~\E v \in Workers : cur'[v] = r
      BY <1>0, <2>1, <2>4 DEF InFlight, Holds, TypeOK
    <3> QED BY <3>1 DEF Phase
  <2>6. Request!Move(r, "idle", "queued") \/ Request!Move(r, "delivered", "queued")
    BY <2>3, <2>4, <2>5, OneMoves
  <2>7. Request!Submit(r)
    BY <2>1, <2>6 DEF Request!Submit
  <2> QED BY <2>7 DEF RequestStep, Request!Next
<1>12. ASSUME NEW l \in Loops, CancelCheck(l) PROVE RequestStep
  <2>0. PICK r \in Reqs : r = creq[l]
    BY <1>12 DEF CancelCheck, IInv, Callers, Caller
  <2>1. /\ lpc[l] = "cancelCheck" /\ UNCHANGED <<life, work, cur, verdict>>
        /\ Owner[r] = l /\ life[r] = "submitted"
        /\ back[l] \in {"program", "callback"}
    BY <1>12, <2>0 DEF CancelCheck, IInv, Callers, Caller
  <2>2. CASE ~Cancellable(r)
    <3>1. lpc' = [lpc EXCEPT ![l] = back[l]] /\ creq' = [creq EXCEPT ![l] = None]
      BY <1>12, <2>0, <2>2 DEF CancelCheck
    <3> QED BY <1>0, <1>1, <2>1, <3>1 DEF TypeOK
  <2>3. CASE Cancellable(r)
    <3>1. lpc' = [lpc EXCEPT ![l] = "cancelPublish"] /\ UNCHANGED creq
      BY <1>12, <2>0, <2>3 DEF CancelCheck
    <3>2. \A s \in Reqs : Holds(s)' <=> Holds(s)
      BY <2>1 DEF Holds
    <3>3. \A s \in Reqs \ {r} : InFlight(Owner[s], s)' <=> InFlight(Owner[s], s)
      BY <1>0, <2>0, <2>1, <3>1 DEF InFlight, TypeOK
    <3>4. \A s \in Reqs \ {r} : Phase(s)' = Phase(s)
      BY <1>0, <2>1, <3>2, <3>3, PhaseKept
    <3>5. InFlight(Owner[r], r)' /\ ~InFlight(Owner[r], r)
      BY <1>0, <2>0, <2>1, <3>1 DEF InFlight, TypeOK
    <3>6. node[r] # "init" /\ work[r] # "null" /\ node[r] = "linked"
      BY <1>0, <2>1, <2>3, <3>5 DEF Cancellable, IInv, Accounts, Account, TypeOK
    <3>7. Phase(r)' = "cancelled"
      BY <2>1, <3>5, <3>6 DEF Phase
    <3>8. CASE work[r] = "cancelled"
      <4>1. Phase(r) = "cancelled"
        BY <2>1, <3>8, PhaseIs
      <4> QED BY <2>1, <3>4, <3>7, <4>1, NothingMoves
    <3>9. CASE work[r] = "fn"
      <4>1. Phase(r) = "queued"
        BY <2>1, <3>6, <3>9, PhaseIs DEF Waits
      <4>2. Request!Cancel(r)
        BY <2>1, <3>4, <3>7, <4>1, OneMoves DEF Request!Cancel
      <4> QED BY <2>1, <4>2 DEF RequestStep, Request!Next
    <3> QED BY <1>0, <2>1, <3>6, <3>8, <3>9
  <2> QED BY <2>2, <2>3
<1>13. ASSUME NEW l \in Loops, CancelPublish(l) PROVE RequestStep
  <2>0. PICK r \in Reqs : r = creq[l]
    BY <1>13 DEF CancelPublish, IInv, Callers, Caller
  <2>1. /\ lpc[l] = "cancelPublish" /\ Owner[r] = l /\ life[r] = "submitted"
        /\ back[l] \in {"program", "callback"}
        /\ work' = [work EXCEPT ![r] = "cancelled"]
        /\ lpc' = [lpc EXCEPT ![l] = back[l]] /\ creq' = [creq EXCEPT ![l] = None]
        /\ UNCHANGED <<life, cur, verdict>>
    BY <1>13, <2>0 DEF CancelPublish, IInv, Callers, Caller
  <2>2. \A s \in Reqs : Holds(s)' <=> Holds(s)
    BY <2>1 DEF Holds
  <2>3. \A s \in Reqs \ {r} : InFlight(Owner[s], s)' <=> InFlight(Owner[s], s)
    BY <1>0, <2>0, <2>1 DEF InFlight, TypeOK
  <2>4. \A s \in Reqs \ {r} : Phase(s)' = Phase(s)
    BY <1>0, <2>1, <2>2, <2>3, PhaseKept DEF TypeOK
  <2>5. Phase(r) = "cancelled"
    <3>1. InFlight(Owner[r], r)
      BY <2>0, <2>1 DEF InFlight
    <3> QED BY <2>1, <3>1, PhaseIs
  <2>6. Phase(r)' = "cancelled"
    BY <1>0, <2>1 DEF Phase, TypeOK
  <2> QED BY <2>1, <2>4, <2>5, <2>6, NothingMoves
<1>14. ASSUME NEW l \in Loops, Complete(l) PROVE RequestStep
  <2>1. lpc[l] = "next" /\ local[l] # <<>> /\ local[l] \in Seq(Reqs)
    BY <1>0, <1>14 DEF Complete, TypeOK
  <2>2. PICK r \in Reqs : r = Head(local[l]) /\ Contains(local[l], r)
    BY <2>1, TailQueue
  <2>3. life[r] = "submitted" /\ work[r] \in {"null", "cancelled"} /\ Owner[r] = l
    BY <1>0, <2>2 DEF IInv, Members, Returns
  <2>4. /\ verdict' = [verdict EXCEPT ![r] = IF work[r] = "cancelled" THEN "canceled" ELSE "ok"]
        /\ life' = [life EXCEPT ![r] = "done"] /\ lpc' = [lpc EXCEPT ![l] = "callback"]
        /\ UNCHANGED <<work, cur, creq>>
    BY <1>14, <2>2 DEF Complete
  <2>5. \A s \in Reqs : /\ InFlight(Owner[s], s)' <=> InFlight(Owner[s], s)
                        /\ Holds(s)' <=> Holds(s)
    BY <1>0, <2>1, <2>4 DEF InFlight, Holds, TypeOK
  <2>6. \A s \in Reqs \ {r} : Phase(s)' = Phase(s)
    BY <1>0, <2>4, <2>5, PhaseKept DEF TypeOK
  <2>7. Phase(r)' = "delivered"
    BY <1>0, <2>4 DEF Phase, TypeOK
  <2>8. CASE work[r] = "null"
    <3>1. Request!Move(r, "finished", "delivered") /\ verdict' = [verdict EXCEPT ![r] = "ok"]
      BY <2>3, <2>4, <2>6, <2>7, <2>8, PhaseIs, OneMoves
    <3> QED BY <3>1 DEF RequestStep, Request!Next, Request!Deliver
  <2>9. CASE work[r] = "cancelled"
    <3>1. Request!Move(r, "cancelled", "delivered") /\ verdict' = [verdict EXCEPT ![r] = "canceled"]
      BY <2>3, <2>4, <2>6, <2>7, <2>9, PhaseIs, OneMoves
    <3> QED BY <3>1 DEF RequestStep, Request!Next, Request!Deliver
  <2> QED BY <2>3, <2>8, <2>9
<1>15. ASSUME NEW l \in Loops, ForkChild(l) PROVE RequestStep
  <2> DEFINE S == {r \in Reqs : life[r] = "submitted" /\ ~Contains(loopWq[l], r)}
  <2>1. /\ \A r \in Reqs : life'[r] = IF r \in S THEN "lost" ELSE life[r]
        /\ UNCHANGED <<work, lpc, creq, verdict>>
    BY <1>15 DEF ForkChild
  <2>2. \A r \in Reqs : InFlight(Owner[r], r)' <=> InFlight(Owner[r], r)
    BY <2>1 DEF InFlight
  <2>3. \A r \in Reqs : life[r] = "submitted" /\ r \notin S => work[r] # "fn"
    BY DEF IInv, Members, Returns
  <2>4. \A r \in Reqs \ S : Phase(r)' = Phase(r)
    BY <1>0, <2>1, <2>2, <2>3, PhaseKept
  <2>5. \A r \in S : Phase(r)' = "lost" /\ Phase(r) \in {"queued", "running", "finished", "cancelled"}
    BY <2>1, PhaseIs DEF Phase
  <2>6. Request!Lose(S)
    BY <2>1, <2>4, <2>5 DEF Request!Lose
  <2> QED BY <2>6 DEF RequestStep, Request!Next
<1> QED BY <1>2, <1>3, <1>4, <1>5, <1>7, <1>8, <1>9, <1>10, <1>11, <1>12, <1>13, <1>14, <1>15
        DEF Next, Worker, Deliver

\* Whatever its threads, queues and locks do, the pool takes each request through the life that
\* WorkRequest describes: executed or cancelled, never both, and delivered once with a verdict
\* that says which.
THEOREM PoolImplementsWorkRequest ==
    ASSUME CancelScope = {"submitted"} PROVE Spec => ImplementsWorkRequest
<1>1. Init => Held
  BY DEF Init, Held
<1>2. IInv /\ Held /\ [Next]_vars => Held'
  BY HeldStep
<1>3. Init => Request!Init
  BY DEF Init, Request!Init, Phase
<1>4. IInv /\ Held /\ Held' /\ [Next]_vars
        => [Request!Next]_<<[r \in Reqs |-> Phase(r)], verdict>>
  BY StepRefines DEF RequestStep
<1> QED BY <1>1, <1>2, <1>3, <1>4, Invariance, PTL DEF Spec, ImplementsWorkRequest, Request!Spec
=============================================================================
