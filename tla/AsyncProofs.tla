------------------------------ MODULE AsyncProofs ------------------------------
(***************************************************************************)
(* uv__async_spin does its job for any number of handles and of threads    *)
(* that send: when it has returned, nobody is about to wake the loop for   *)
(* the handle any more.  The argument is in two parts.  The busy word      *)
(* counts the senders that may have set pending (Counted), so at zero none *)
(* of them is before its write; and a handle that is no longer active      *)
(* stays pending (Marked), so none that comes later gets there.            *)
(***************************************************************************)
EXTENDS Async, QueueProofs, FiniteSetTheorems

USE AsyncAssumption DEF AsyncAssumption

Inside(h) == {s \in Senders : target[s] = h /\ spc[s] \in {"exchange", "wake", "leave"}}
Queued(h) == Contains(handles, h) \/ Contains(local, h)

\* The busy word counts the senders between their two updates of it.  (It may
\* be more in a forked child, for a handle that was being closed.)
Counted == \A h \in Handles : Cardinality(Inside(h)) <= busy[h]

Aimed == \A s \in Senders : spc[s] # "idle" => target[s] \in Handles /\ state[target[s]] # "none"

\* A handle that is not active any more stays pending.
Marked == \A h \in Handles : state[h] \in {"spinning", "closing", "closed"} => pending[h] = 1

\* The queues hold the active handles, each once; while the loop closes, those
\* that it has not come to yet.
Placed ==
    /\ Distinct(handles) /\ Distinct(local)
    /\ \A h \in Handles : ~(Contains(handles, h) /\ Contains(local, h))
    /\ lpc \in {"program", "dispatch", "scan", "callback"} =>
         \A h \in Handles : Queued(h) <=> state[h] = "active"
    /\ lpc = "spin" => \A h \in Handles : Queued(h) <=> state[h] = "active" \/ h = closing
    /\ lpc \in {"stop", "stopSpin"} =>
         \A h \in Handles : Contains(local, h) <=> state[h] = "active"
    /\ lpc = "stopped" => \A h \in Handles : state[h] # "active"
    /\ lpc \in {"program", "dispatch"} => local = <<>>
    /\ lpc = "spin" /\ back \in {"program", "dispatch"} => local = <<>>

Waited ==
    /\ lpc \in {"spin", "stopSpin"} => closing \in Handles /\ state[closing] = "spinning"
    /\ \A h \in Handles : state[h] = "spinning" => lpc \in {"spin", "stopSpin"} /\ h = closing
    /\ open <=> lpc # "stopped"

IInv == TypeOK /\ Counted /\ Aimed /\ Marked /\ Placed /\ Waited /\ QuietAfterSpin

USE DEF loop, sender

-----------------------------------------------------------------------------
LEMMA InsideFinite ==
    ASSUME NEW S \in SUBSET Senders PROVE IsFiniteSet(S) /\ Cardinality(S) \in Nat
  BY FS_Subset, FS_CardinalityType

LEMMA InitInv == Init => IInv
<1> SUFFICES ASSUME Init PROVE IInv
  OBVIOUS
<1>1. <<>> \in Seq(Handles) /\ (\A h : ~Contains(<<>>, h)) /\ Distinct(<<>>)
  BY EmptySeq DEF Contains, Distinct
<1>2. /\ handles = Append(<<>>, Internal)
      /\ handles \in Seq(Handles) /\ Distinct(handles)
      /\ \A h : Contains(handles, h) <=> h = Internal
  <2>1. handles = Append(<<>>, Internal)
    BY DEF Init
  <2> QED BY <1>1, <2>1, AppendQueue
<1>3. TypeOK
  BY <1>1, <1>2 DEF Init, TypeOK
<1>4. Counted
  <2>1. \A h \in Handles : Inside(h) = {} /\ busy[h] = 0
    BY DEF Init, Inside
  <2>2. Cardinality({}) = 0
    BY FS_EmptySet
  <2> QED BY <2>1, <2>2 DEF Counted
<1>5. Aimed /\ Marked /\ Waited /\ QuietAfterSpin
  BY DEF Init, Aimed, Marked, Waited, QuietAfterSpin
<1>6. Placed
  BY <1>1, <1>2 DEF Init, Placed, Queued
<1> QED BY <1>3, <1>4, <1>5, <1>6 DEF IInv

-----------------------------------------------------------------------------
(* The senders *)

\* A sender leaves the loop's part of the state alone.
LEMMA LoopUntouched ==
    ASSUME Placed, Waited, UNCHANGED <<open, loop, state>> PROVE Placed' /\ Waited'
  BY DEF Placed, Waited, Queued

LEMMA SendStep ==
    ASSUME IInv, NEW s \in Senders, NEW h \in Handles, Send(s, h) PROVE IInv'
<1>1. TypeOK'
  BY DEF IInv, TypeOK, Send
<1>2. Counted'
  <2>1. \A k \in Handles : Inside(k)' = Inside(k)
    BY DEF IInv, TypeOK, Send, Inside
  <2> QED BY <2>1 DEF IInv, Counted, Send
<1>3. Aimed' /\ Marked' /\ QuietAfterSpin'
  BY DEF IInv, TypeOK, Send, Aimed, Marked, QuietAfterSpin
<1>4. Placed' /\ Waited'
  BY LoopUntouched DEF IInv, Send
<1> QED BY <1>1, <1>2, <1>3, <1>4 DEF IInv

LEMMA EnterStep ==
    ASSUME IInv, NEW s \in Senders, Enter(s) PROVE IInv'
<1>0. target[s] \in Handles
  BY DEF IInv, Aimed, Enter
<1>1. PICK h \in Handles : h = target[s] /\ spc[s] = "enter"
  BY <1>0 DEF Enter
<1>2. TypeOK'
  BY <1>1 DEF IInv, TypeOK, Enter
<1>3. Counted'
  <2>1. Inside(h)' = Inside(h) \union {s} /\ s \notin Inside(h)
    BY <1>1 DEF IInv, TypeOK, Enter, Inside
  <2>2. \A k \in Handles : k # h => Inside(k)' = Inside(k)
    BY <1>1 DEF IInv, TypeOK, Enter, Inside
  <2>3. IsFiniteSet(Inside(h)) /\ Cardinality(Inside(h)) \in Nat
    BY InsideFinite DEF Inside
  <2>4. Cardinality(Inside(h)') = Cardinality(Inside(h)) + 1
    BY <2>1, <2>3, FS_AddElement
  <2>5. /\ busy \in [Handles -> Nat] /\ busy' = [busy EXCEPT ![h] = busy[h] + 1]
        /\ \A k \in Handles : Cardinality(Inside(k)) <= busy[k]
    BY <1>1 DEF IInv, TypeOK, Counted, Enter
  <2>6. Cardinality(Inside(h)') <= busy'[h]
    BY <1>1, <2>3, <2>4, <2>5
  <2>7. \A k \in Handles : k # h => Cardinality(Inside(k)') <= busy'[k]
    BY <2>2, <2>5
  <2> QED BY <2>6, <2>7 DEF Counted
<1>4. Aimed' /\ Marked' /\ QuietAfterSpin'
  BY <1>1 DEF IInv, TypeOK, Enter, Aimed, Marked, QuietAfterSpin
<1>5. Placed' /\ Waited'
  BY LoopUntouched DEF IInv, Enter
<1> QED BY <1>2, <1>3, <1>4, <1>5 DEF IInv

\* Only a sender that finds an active handle not pending goes on to wake.
LEMMA ExchangeStep ==
    ASSUME IInv, NEW s \in Senders, Exchange(s) PROVE IInv'
<1> DEFINE h == target[s]
<1>1. h \in Handles /\ spc[s] = "exchange" /\ state[h] # "none"
  BY DEF IInv, Aimed, Exchange
<1>2. TypeOK'
  BY <1>1 DEF IInv, TypeOK, Exchange
<1>3. Counted'
  <2>1. \A k \in Handles : Inside(k)' = Inside(k)
    BY <1>1 DEF IInv, TypeOK, Exchange, Inside
  <2> QED BY <2>1 DEF IInv, Counted, Exchange
<1>4. Aimed' /\ Marked'
  BY <1>1 DEF IInv, TypeOK, Exchange, Aimed, Marked
<1>5. Placed' /\ Waited'
  BY LoopUntouched DEF IInv, Exchange
<1>6. QuietAfterSpin'
  <2>1. pending[h] = 0 => state[h] = "active"
    <3>1. state[h] \in {"none", "active", "spinning", "closing", "closed"}
      BY <1>1 DEF IInv, TypeOK
    <3> QED BY <1>1, <3>1 DEF IInv, Marked
  <2>2. pending[h] = 0 => open
    BY <1>1, <2>1 DEF IInv, Placed, Waited
  <2> QED BY <1>1, <2>1, <2>2 DEF IInv, TypeOK, Exchange, QuietAfterSpin
<1> QED BY <1>2, <1>3, <1>4, <1>5, <1>6 DEF IInv

LEMMA WakeUpStep ==
    ASSUME IInv, NEW s \in Senders, WakeUp(s) PROVE IInv'
<1>1. spc[s] = "wake" /\ open /\ spc' = [spc EXCEPT ![s] = "leave"]
  BY DEF IInv, QuietAfterSpin, WakeUp
<1>2. TypeOK'
  <2>1. wake' \in Nat
    BY DEF IInv, TypeOK, WakeUp
  <2>2. spc' \in [Senders -> {"idle", "enter", "exchange", "wake", "leave", "aborted"}]
    BY <1>1 DEF IInv, TypeOK
  <2>3. UNCHANGED <<evfiltUser, open, loop, state, pending, busy, target, forks>>
    BY DEF WakeUp
  <2> QED BY <2>1, <2>2, <2>3 DEF IInv, TypeOK
<1>3. Counted'
  <2>1. \A k \in Handles : Inside(k)' = Inside(k)
    BY <1>1 DEF IInv, TypeOK, WakeUp, Inside
  <2> QED BY <2>1 DEF IInv, Counted, WakeUp
<1>4. Aimed' /\ Marked' /\ QuietAfterSpin'
  BY <1>1 DEF IInv, TypeOK, WakeUp, Aimed, Marked, QuietAfterSpin
<1>5. Placed' /\ Waited'
  BY LoopUntouched DEF IInv, WakeUp
<1> QED BY <1>2, <1>3, <1>4, <1>5 DEF IInv

LEMMA LeaveStep ==
    ASSUME IInv, NEW s \in Senders, Leave(s) PROVE IInv'
<1>0. target[s] \in Handles /\ spc[s] = "leave"
  BY DEF IInv, Aimed, Leave
<1>1. PICK h \in Handles : h = target[s] /\ spc[s] = "leave"
  BY <1>0
<1>2. Inside(h)' = Inside(h) \ {s} /\ s \in Inside(h)
  BY <1>1 DEF IInv, TypeOK, Leave, Inside
<1>3. /\ Cardinality(Inside(h)') = Cardinality(Inside(h)) - 1
      /\ Cardinality(Inside(h)) \in Nat /\ Cardinality(Inside(h)) # 0
  <2>1. IsFiniteSet(Inside(h)) /\ Cardinality(Inside(h)) \in Nat
    BY InsideFinite DEF Inside
  <2>2. Cardinality(Inside(h) \ {s}) = Cardinality(Inside(h)) - 1
    BY <1>2, <2>1, FS_RemoveElement
  <2>3. Cardinality(Inside(h)) # 0
    BY <1>2, <2>1, FS_EmptySet
  <2> QED BY <1>2, <2>1, <2>2, <2>3
<1>4. busy[h] - 1 \in Nat
  BY <1>1, <1>3 DEF IInv, TypeOK, Counted
<1>5. TypeOK'
  BY <1>1, <1>4 DEF IInv, TypeOK, Leave
<1>6. Counted'
  <2>1. \A k \in Handles : k # h => Inside(k)' = Inside(k)
    BY <1>1 DEF IInv, TypeOK, Leave, Inside
  <2> QED BY <1>1, <1>3, <2>1 DEF IInv, TypeOK, Counted, Leave
<1>7. Aimed' /\ Marked' /\ QuietAfterSpin'
  BY <1>1 DEF IInv, TypeOK, Leave, Aimed, Marked, QuietAfterSpin
<1>8. Placed' /\ Waited'
  BY LoopUntouched DEF IInv, Leave
<1> QED BY <1>5, <1>6, <1>7, <1>8 DEF IInv

-----------------------------------------------------------------------------
(* The loop *)

\* The loop does not touch the senders nor, but for uv_async_init and a fork,
\* the busy words.
LEMMA CountUntouched ==
    ASSUME Counted, UNCHANGED <<busy, sender>> PROVE Counted'
  BY DEF Counted, Inside

LEMMA DispatchStep ==
    ASSUME IInv, PollWake \/ CallbackReturns \/ ScanEnd PROVE IInv'
<1>1. /\ UNCHANGED <<evfiltUser, open, handles, local, back, closing, state, pending, busy, sender, forks>>
      /\ wake' \in Nat
      /\ \/ lpc = "program" /\ lpc' = "dispatch"
         \/ lpc = "callback" /\ lpc' = "scan"
         \/ lpc = "scan" /\ lpc' = "program" /\ local = <<>>
  BY DEF IInv, TypeOK, PollWake, CallbackReturns, ScanEnd
<1>2. TypeOK'
  BY <1>1 DEF IInv, TypeOK
<1>3. Counted'
  BY <1>1, CountUntouched DEF IInv
<1>4. Aimed' /\ Marked' /\ QuietAfterSpin'
  BY <1>1 DEF IInv, Aimed, Marked, QuietAfterSpin
<1>5. Placed' /\ Waited'
  BY <1>1 DEF IInv, Placed, Waited, Queued
<1> QED BY <1>2, <1>3, <1>4, <1>5 DEF IInv

LEMMA DrainStep ==
    ASSUME IInv, Drain PROVE IInv'
<1>1. /\ lpc = "dispatch"
      /\ UNCHANGED <<evfiltUser, open, back, closing, state, pending, busy, sender, forks>>
      /\ wake' \in Nat
      /\ \/ UNCHANGED <<handles, local, lpc>>
         \/ local' = handles /\ handles' = <<>> /\ lpc' = "scan"
  BY DEF IInv, TypeOK, Drain
<1>2. <<>> \in Seq(Handles) /\ (\A h : ~Contains(<<>>, h)) /\ Distinct(<<>>)
  BY EmptySeq DEF Contains, Distinct
<1>3. TypeOK'
  BY <1>1, <1>2 DEF IInv, TypeOK
<1>4. Counted'
  BY <1>1, CountUntouched DEF IInv
<1>5. Aimed' /\ Marked' /\ QuietAfterSpin'
  BY <1>1 DEF IInv, Aimed, Marked, QuietAfterSpin
<1>6. Placed' /\ Waited'
  <2>1. CASE UNCHANGED <<handles, local, lpc>>
    BY <1>1, <2>1, LoopUntouched DEF IInv
  <2>2. CASE local' = handles /\ handles' = <<>> /\ lpc' = "scan"
    <3>1. local = <<>>
      BY <1>1 DEF IInv, Placed
    <3> QED BY <1>1, <1>2, <2>2, <3>1 DEF IInv, Placed, Waited, Queued
  <2> QED BY <1>1, <2>1, <2>2
<1> QED BY <1>3, <1>4, <1>5, <1>6 DEF IInv

\* The head of the local queue goes back to the loop's queue.
LEMMA MoveHead ==
    ASSUME TypeOK, Distinct(handles), Distinct(local),
           \A h \in Handles : ~(Contains(handles, h) /\ Contains(local, h)),
           local # <<>>,
           local' = Tail(local), handles' = Append(handles, Head(local))
    PROVE  /\ Head(local) \in Handles /\ Contains(local, Head(local))
           /\ handles' \in Seq(Handles) /\ local' \in Seq(Handles)
           /\ Distinct(handles') /\ Distinct(local')
           /\ \A h \in Handles : ~(Contains(handles', h) /\ Contains(local', h))
           /\ \A h : Contains(local', h) <=> Contains(local, h) /\ h # Head(local)
           /\ \A h : Contains(handles', h) <=> Contains(handles, h) \/ h = Head(local)
<1> DEFINE x == Head(local)
<1>1. /\ x \in Handles /\ Contains(local, x)
      /\ Tail(local) \in Seq(Handles) /\ Distinct(Tail(local)) /\ ~Contains(Tail(local), x)
      /\ \A h : Contains(local, h) <=> h = x \/ Contains(Tail(local), h)
  BY TailQueue DEF TypeOK
<1> HIDE DEF x
<1>2. /\ Append(handles, x) \in Seq(Handles) /\ Distinct(Append(handles, x))
      /\ \A h : Contains(Append(handles, x), h) <=> Contains(handles, h) \/ h = x
  BY <1>1, AppendQueue DEF TypeOK
<1> QED BY <1>1, <1>2 DEF x

LEMMA ScanStep ==
    ASSUME IInv, Scan PROVE IInv'
<1> DEFINE h == Head(local)
<1>1. /\ lpc = "scan" /\ local # <<>>
      /\ local' = Tail(local) /\ handles' = Append(handles, h)
      /\ pending' = [pending EXCEPT ![h] = 0]
      /\ lpc' \in {"scan", "callback"}
      /\ UNCHANGED <<evfiltUser, wake, open, back, closing, state, busy, sender, forks>>
  BY DEF Scan
<1>2. /\ h \in Handles /\ Contains(local, h)
      /\ handles' \in Seq(Handles) /\ local' \in Seq(Handles)
      /\ Distinct(handles') /\ Distinct(local')
      /\ \A k \in Handles : ~(Contains(handles', k) /\ Contains(local', k))
      /\ \A k : Contains(local', k) <=> Contains(local, k) /\ k # h
      /\ \A k : Contains(handles', k) <=> Contains(handles, k) \/ k = h
  BY <1>1, MoveHead DEF IInv, Placed
<1> HIDE DEF h
<1>3. TypeOK'
  BY <1>1, <1>2 DEF IInv, TypeOK
<1>4. Counted'
  BY <1>1, CountUntouched DEF IInv
<1>5. state[h] = "active"
  BY <1>1, <1>2 DEF IInv, Placed, Queued
<1>6. Aimed' /\ Marked' /\ QuietAfterSpin'
  BY <1>1, <1>5 DEF IInv, TypeOK, Aimed, Marked, QuietAfterSpin
<1>7. Placed' /\ Waited'
  BY <1>1, <1>2 DEF IInv, Placed, Waited, Queued
<1> QED BY <1>3, <1>4, <1>6, <1>7 DEF IInv

-----------------------------------------------------------------------------
(* The program on the loop thread *)

LEMMA AsyncInitStep ==
    ASSUME IInv, NEW h \in Handles, AsyncInit(h) PROVE IInv'
<1>1. /\ lpc \in {"program", "dispatch", "callback"} /\ state[h] = "none"
      /\ pending' = [pending EXCEPT ![h] = 0] /\ busy' = [busy EXCEPT ![h] = 0]
      /\ handles' = Append(handles, h)
      /\ state' = [state EXCEPT ![h] = "active"]
      /\ UNCHANGED <<evfiltUser, wake, open, local, lpc, back, closing, sender, forks>>
  BY DEF AsyncInit, Program
<1>2. /\ handles' \in Seq(Handles) /\ Distinct(handles')
      /\ \A k : Contains(handles', k) <=> Contains(handles, k) \/ k = h
      /\ ~Contains(local, h)
  <2>1. handles \in Seq(Handles) /\ Distinct(handles) /\ ~Contains(handles, h) /\ ~Contains(local, h)
    BY <1>1 DEF IInv, TypeOK, Placed, Queued
  <2> QED BY <1>1, <2>1, AppendQueue
<1>3. TypeOK'
  BY <1>1, <1>2 DEF IInv, TypeOK
<1>4. Counted'
  <2>1. \A k \in Handles : Inside(k)' = Inside(k)
    BY <1>1 DEF Inside
  <2>2. Inside(h) = {}
    BY <1>1 DEF IInv, Aimed, Inside
  <2>3. Cardinality({}) = 0
    BY FS_EmptySet
  <2>4. busy'[h] = 0 /\ \A k \in Handles : k # h => busy'[k] = busy[k]
    BY <1>1 DEF IInv, TypeOK
  <2>5. \A k \in Handles : Cardinality(Inside(k)) <= busy[k]
    BY DEF IInv, Counted
  <2>6. \A k \in Handles : Cardinality(Inside(k)') <= busy'[k]
    BY <2>1, <2>2, <2>3, <2>4, <2>5
  <2> QED BY <2>6 DEF Counted
<1>5. Aimed' /\ Marked' /\ QuietAfterSpin'
  BY <1>1 DEF IInv, TypeOK, Aimed, Marked, QuietAfterSpin
<1>6. Placed' /\ Waited'
  BY <1>1, <1>2 DEF IInv, TypeOK, Placed, Waited, Queued
<1> QED BY <1>3, <1>4, <1>5, <1>6 DEF IInv

LEMMA CloseStep ==
    ASSUME IInv, NEW h \in Handles, Close(h) PROVE IInv'
<1>1. /\ lpc \in {"program", "dispatch", "callback"} /\ state[h] = "active"
      /\ state' = [state EXCEPT ![h] = "spinning"]
      /\ pending' = [pending EXCEPT ![h] = 1]
      /\ closing' = h /\ back' = lpc /\ lpc' = "spin"
      /\ UNCHANGED <<evfiltUser, wake, open, handles, local, busy, sender, forks>>
  BY DEF Close, Program
<1>2. TypeOK'
  BY <1>1 DEF IInv, TypeOK
<1>3. Counted'
  BY <1>1, CountUntouched DEF IInv
<1>4. Aimed' /\ Marked' /\ QuietAfterSpin'
  BY <1>1 DEF IInv, TypeOK, Aimed, Marked, QuietAfterSpin
<1>5. Placed' /\ Waited'
  BY <1>1 DEF IInv, TypeOK, Placed, Waited, Queued
<1> QED BY <1>2, <1>3, <1>4, <1>5 DEF IInv

\* At a busy count of zero no sender is between its test of pending and its
\* write to the wakeup descriptor.
LEMMA NobodyInside ==
    ASSUME Counted, Aimed, NEW h \in Handles, busy[h] = 0
    PROVE  \A s \in Senders : spc[s] = "wake" => target[s] # h
<1>1. IsFiniteSet(Inside(h)) /\ Cardinality(Inside(h)) = 0
  <2>1. IsFiniteSet(Inside(h)) /\ Cardinality(Inside(h)) \in Nat
    BY InsideFinite DEF Inside
  <2> QED BY <2>1 DEF Counted
<1>2. Inside(h) = {}
  BY <1>1, FS_EmptySet
<1> QED BY <1>2 DEF Inside

LEMMA CloseSpunStep ==
    ASSUME IInv, CloseSpun PROVE IInv'
<1> DEFINE h == closing
<1>1. /\ lpc = "spin" /\ busy[h] = 0
      /\ handles' = Unlink(handles, h) /\ local' = Unlink(local, h)
      /\ state' = [state EXCEPT ![h] = "closing"]
      /\ closing' = None /\ lpc' = back
      /\ UNCHANGED <<evfiltUser, wake, open, back, pending, busy, sender, forks>>
      /\ h \in Handles /\ state[h] = "spinning"
  BY DEF CloseSpun, IInv, Waited
<1>2. /\ handles' \in Seq(Handles) /\ Distinct(handles')
      /\ \A k : Contains(handles', k) <=> Contains(handles, k) /\ k # h
  <2>1. handles \in Seq(Handles) /\ Distinct(handles)
    BY DEF IInv, TypeOK, Placed
  <2> QED BY <1>1, <2>1, UnlinkQueue
<1>3. /\ local' \in Seq(Handles) /\ Distinct(local')
      /\ \A k : Contains(local', k) <=> Contains(local, k) /\ k # h
      /\ local = <<>> => local' = <<>>
  <2>1. local \in Seq(Handles) /\ Distinct(local)
    BY DEF IInv, TypeOK, Placed
  <2>2. local = <<>> => Unlink(local, h) = <<>>
    BY EmptySeq DEF Unlink, Contains
  <2> QED BY <1>1, <2>1, <2>2, UnlinkQueue
<1>4. PICK x \in Handles : x = closing
  BY <1>1
<1>5. TypeOK'
  BY <1>1, <1>2, <1>3 DEF IInv, TypeOK
<1>6. Counted'
  BY <1>1, CountUntouched DEF IInv
<1>7. Aimed' /\ Marked'
  BY <1>1 DEF IInv, TypeOK, Aimed, Marked
<1>8. QuietAfterSpin'
  <2>1. \A s \in Senders : spc[s] = "wake" => target[s] # x /\ target[s] \in Handles
    BY <1>1, <1>4, NobodyInside DEF IInv, Aimed
  <2>2. \A k \in Handles : k # x => state'[k] = state[k]
    BY <1>1, <1>4 DEF IInv, TypeOK
  <2> QED BY <1>1, <2>1, <2>2 DEF IInv, QuietAfterSpin
<1>9. back \in {"program", "dispatch", "callback"}
  BY DEF IInv, TypeOK
<1>10. state' \in [Handles -> {"none", "active", "spinning", "closing", "closed"}]
       /\ \A k \in Handles : state'[k] = IF k = x THEN "closing" ELSE state[k]
  BY <1>1, <1>4 DEF IInv, TypeOK
<1>11. Placed'
  <2>1. \A k \in Handles : ~(Contains(handles', k) /\ Contains(local', k))
    BY <1>2, <1>3 DEF IInv, Placed
  <2>2. \A k \in Handles : (Contains(handles', k) \/ Contains(local', k)) <=> state'[k] = "active"
    BY <1>1, <1>2, <1>3, <1>4, <1>10 DEF IInv, Placed, Queued
  <2>3. lpc' \in {"program", "dispatch"} => local' = <<>>
    BY <1>1, <1>3 DEF IInv, Placed
  <2> QED BY <1>1, <1>2, <1>3, <1>9, <2>1, <2>2, <2>3 DEF Placed, Queued
<1>12. Waited'
  BY <1>1, <1>4, <1>9, <1>10 DEF IInv, Waited
<1> QED BY <1>5, <1>6, <1>7, <1>8, <1>11, <1>12 DEF IInv

LEMMA FinishCloseStep ==
    ASSUME IInv, NEW h \in Handles, FinishClose(h) PROVE IInv'
<1>1. TypeOK' /\ Counted'
  BY CountUntouched DEF IInv, TypeOK, FinishClose
<1>2. Aimed' /\ Marked' /\ QuietAfterSpin'
  BY DEF IInv, TypeOK, Aimed, Marked, QuietAfterSpin, FinishClose
<1>3. Placed' /\ Waited'
  BY DEF IInv, TypeOK, Placed, Waited, Queued, FinishClose
<1> QED BY <1>1, <1>2, <1>3 DEF IInv

LEMMA StopStep ==
    ASSUME IInv, Stop PROVE IInv'
<1>1. /\ lpc = "program" /\ local' = handles /\ handles' = <<>> /\ lpc' = "stop"
      /\ UNCHANGED <<evfiltUser, wake, open, back, closing, state, pending, busy, sender, forks>>
  BY DEF Stop
<1>2. <<>> \in Seq(Handles) /\ (\A h : ~Contains(<<>>, h)) /\ Distinct(<<>>)
  BY EmptySeq DEF Contains, Distinct
<1>3. TypeOK' /\ Counted'
  BY <1>1, <1>2, CountUntouched DEF IInv, TypeOK
<1>4. Aimed' /\ Marked' /\ QuietAfterSpin'
  BY <1>1 DEF IInv, Aimed, Marked, QuietAfterSpin
<1>5. Placed' /\ Waited'
  <2>1. local = <<>>
    BY <1>1 DEF IInv, Placed
  <2> QED BY <1>1, <1>2, <2>1 DEF IInv, Placed, Waited, Queued
<1> QED BY <1>3, <1>4, <1>5 DEF IInv

LEMMA StopSpinStep ==
    ASSUME IInv, StopSpin PROVE IInv'
<1> DEFINE h == Head(local)
<1>1. /\ lpc = "stop" /\ local # <<>>
      /\ local' = Tail(local) /\ handles' = Append(handles, h)
      /\ pending' = [pending EXCEPT ![h] = 1]
      /\ state' = [state EXCEPT ![h] = "spinning"]
      /\ closing' = h /\ lpc' = "stopSpin"
      /\ UNCHANGED <<evfiltUser, wake, open, back, busy, sender, forks>>
  BY DEF StopSpin
<1>2. /\ h \in Handles /\ Contains(local, h)
      /\ handles' \in Seq(Handles) /\ local' \in Seq(Handles)
      /\ Distinct(handles') /\ Distinct(local')
      /\ \A k \in Handles : ~(Contains(handles', k) /\ Contains(local', k))
      /\ \A k : Contains(local', k) <=> Contains(local, k) /\ k # h
  BY <1>1, MoveHead DEF IInv, Placed
<1> HIDE DEF h
<1>3. TypeOK' /\ Counted'
  BY <1>1, <1>2, CountUntouched DEF IInv, TypeOK
<1>4. state[h] = "active"
  BY <1>1, <1>2 DEF IInv, Placed
<1>5. Aimed' /\ Marked' /\ QuietAfterSpin'
  BY <1>1, <1>2, <1>4 DEF IInv, TypeOK, Aimed, Marked, QuietAfterSpin
<1>6. Placed' /\ Waited'
  BY <1>1, <1>2, <1>4 DEF IInv, TypeOK, Placed, Waited
<1> QED BY <1>3, <1>5, <1>6 DEF IInv

LEMMA StopSpunStep ==
    ASSUME IInv, StopSpun PROVE IInv'
<1>1. /\ lpc = "stopSpin" /\ closing \in Handles /\ state[closing] = "spinning"
  BY DEF IInv, Waited, StopSpun
<1>2. PICK x \in Handles : x = closing
  BY <1>1
<1>3. /\ busy[x] = 0 /\ state' = [state EXCEPT ![x] = "closing"]
      /\ closing' = None /\ lpc' = "stop"
      /\ UNCHANGED <<evfiltUser, wake, open, handles, local, back, pending, busy, sender, forks>>
  BY <1>2 DEF StopSpun
<1>4. \A k \in Handles : state'[k] = IF k = x THEN "closing" ELSE state[k]
  BY <1>3 DEF IInv, TypeOK
<1>5. TypeOK' /\ Counted'
  BY <1>3, CountUntouched DEF IInv, TypeOK
<1>6. Aimed' /\ Marked'
  BY <1>1, <1>2, <1>3, <1>4 DEF IInv, Aimed, Marked
<1>7. QuietAfterSpin'
  <2>1. \A s \in Senders : spc[s] = "wake" => target[s] # x /\ target[s] \in Handles
    BY <1>3, NobodyInside DEF IInv, Aimed
  <2> QED BY <1>3, <1>4, <2>1 DEF IInv, QuietAfterSpin
<1>8. Placed' /\ Waited'
  BY <1>1, <1>2, <1>3, <1>4 DEF IInv, Placed, Waited
<1> QED BY <1>5, <1>6, <1>7, <1>8 DEF IInv

\* When the descriptors are closed no handle is active and none is waited for.
LEMMA StoppedStep ==
    ASSUME IInv, Stopped PROVE IInv'
<1>1. /\ lpc = "stop" /\ local = <<>> /\ open' = FALSE /\ wake' = 0 /\ lpc' = "stopped"
      /\ UNCHANGED <<evfiltUser, handles, local, back, closing, state, pending, busy, sender, forks>>
  BY DEF Stopped
<1>2. \A h \in Handles : state[h] # "active" /\ state[h] # "spinning"
  <2>1. \A h : ~Contains(<<>>, h)
    BY EmptySeq DEF Contains
  <2> QED BY <1>1, <2>1 DEF IInv, Placed, Waited
<1>3. TypeOK' /\ Counted'
  BY <1>1, CountUntouched DEF IInv, TypeOK
<1>4. Aimed' /\ Marked'
  BY <1>1 DEF IInv, Aimed, Marked
<1>5. QuietAfterSpin'
  <2>1. \A s \in Senders : spc[s] # "wake"
    BY <1>2 DEF IInv, Aimed, QuietAfterSpin
  <2> QED BY <1>1, <2>1 DEF QuietAfterSpin
<1>6. Placed' /\ Waited'
  BY <1>1, <1>2 DEF IInv, Placed, Waited
<1> QED BY <1>3, <1>4, <1>5, <1>6 DEF IInv

LEMMA ForkStep ==
    ASSUME IInv, Fork PROVE IInv'
<1>1. /\ lpc = "program" /\ forks' = forks + 1 /\ wake' = 0
      /\ spc' = [s \in Senders |-> "idle"] /\ target' = [s \in Senders |-> None]
      /\ pending' = [h \in Handles |-> IF Contains(handles, h) THEN 0 ELSE pending[h]]
      /\ busy' = [h \in Handles |-> IF Contains(handles, h) THEN 0 ELSE busy[h]]
      /\ UNCHANGED <<evfiltUser, open, loop, state>>
  BY DEF Fork
<1>2. TypeOK'
  BY <1>1 DEF IInv, TypeOK
<1>6. Counted'
  <2>1. \A h \in Handles : Inside(h)' = {}
    BY <1>1 DEF Inside
  <2>2. Cardinality({}) = 0
    BY FS_EmptySet
  <2>3. \A h \in Handles : busy'[h] >= 0
    BY <1>2 DEF TypeOK
  <2>4. \A h \in Handles : Cardinality(Inside(h)') <= busy'[h]
    BY <2>1, <2>2, <2>3
  <2> QED BY <2>4 DEF Counted
<1>3. Aimed' /\ QuietAfterSpin'
  BY <1>1 DEF Aimed, QuietAfterSpin
<1>4. Marked'
  BY <1>1 DEF IInv, Marked, Placed, Queued
<1>5. Placed' /\ Waited'
  BY <1>1, LoopUntouched DEF IInv
<1> QED BY <1>2, <1>3, <1>4, <1>5, <1>6 DEF IInv

-----------------------------------------------------------------------------
(* The theorems *)

LEMMA StutterStep ==
    ASSUME IInv, UNCHANGED vars PROVE IInv'
<1>1. TypeOK' /\ Counted' /\ Aimed' /\ Marked' /\ QuietAfterSpin'
  BY DEF vars, IInv, TypeOK, Counted, Inside, Aimed, Marked, QuietAfterSpin
<1>2. Placed' /\ Waited'
  BY LoopUntouched DEF vars, IInv
<1> QED BY <1>1, <1>2 DEF IInv

LEMMA NextInv ==
    ASSUME IInv, [Next]_vars PROVE IInv'
<1>1. ASSUME NEW s \in Senders, Sending(s) PROVE IInv'
  BY <1>1, EnterStep, ExchangeStep, WakeUpStep, LeaveStep DEF Sending
<1>2. ASSUME NEW s \in Senders, NEW h \in Handles, Send(s, h) PROVE IInv'
  BY <1>2, SendStep
<1>3. CASE Loop
  BY <1>3, DispatchStep, DrainStep, ScanStep, CloseSpunStep, StopSpinStep, StopSpunStep,
     StoppedStep DEF Loop
<1>4. ASSUME NEW h \in Handles, AsyncInit(h) \/ Close(h) \/ FinishClose(h) PROVE IInv'
  BY <1>4, AsyncInitStep, CloseStep, FinishCloseStep
<1>5. CASE Stop \/ Fork
  BY <1>5, StopStep, ForkStep
<1>6. CASE UNCHANGED vars
  BY <1>6, StutterStep
<1> QED BY <1>1, <1>2, <1>3, <1>4, <1>5, <1>6 DEF Next

\* The invariant holds of every behaviour.
THEOREM Invariance == Spec => []IInv
<1>1. Init => IInv
  BY InitInv
<1>2. IInv /\ [Next]_vars => IInv'
  BY NextInv
<1> QED BY <1>1, <1>2, PTL DEF Spec

\* Every variable keeps its type; the busy word never goes below zero.
THEOREM TypeCorrect == Spec => []TypeOK
<1>1. IInv => TypeOK
  BY DEF IInv
<1> QED BY <1>1, Invariance, PTL

\* When uv__async_spin has returned no sender is about to wake the loop for
\* the handle, and none is about to wake a loop whose descriptors are closed.
THEOREM SpinIsEnough == Spec => []QuietAfterSpin
<1>1. IInv => QuietAfterSpin
  BY DEF IInv
<1> QED BY <1>1, Invariance, PTL

-----------------------------------------------------------------------------
(* The steps of AsyncEvents *)

\* The senders whose call has not reached pending yet.
Coming(h) == {s \in Senders : target[s] = h /\ spc[s] \in {"enter", "exchange"}}

\* The safety of AsyncEvents, under the mapping of ImplementsAsyncEvents.
phases == [h \in Handles |-> Phase(h)]
unanswered == [h \in Handles |-> Calls(h)]
EventsStep == [Events!Next]_<<phases, unanswered>>

LEMMA CallsAre ==
    ASSUME TypeOK, NEW h \in Handles
    PROVE  /\ Calls(h) = IF state[h] = "active" THEN pending[h] + Cardinality(Coming(h)) ELSE 0
           /\ Calls(h) \in Nat /\ Cardinality(Coming(h)) \in Nat /\ IsFiniteSet(Coming(h))
           /\ pending[h] \in {0, 1}
<1>1. Cardinality(Coming(h)) \in Nat /\ IsFiniteSet(Coming(h))
  BY InsideFinite DEF Coming
<1>2. Calls(h) = IF state[h] = "active" THEN pending[h] + Cardinality(Coming(h)) ELSE 0
  BY DEF Calls, Coming
<1>3. pending[h] \in {0, 1}
  BY DEF TypeOK
<1> QED BY <1>1, <1>2, <1>3

LEMMA NothingHappens ==
    ASSUME \A h \in Handles : Phase(h)' = Phase(h) /\ Calls(h)' = Calls(h) PROVE EventsStep
  BY DEF EventsStep, phases, unanswered

\* A step that changes neither a handle's state nor what is pending, nor who is on the way to it.
LEMMA CallsKept ==
    ASSUME TypeOK, TypeOK', NEW h \in Handles, state'[h] = state[h], Coming(h)' = Coming(h),
           state[h] = "active" => pending'[h] = pending[h]
    PROVE  Phase(h)' = Phase(h) /\ Calls(h)' = Calls(h)
<1>1. Phase(h)' = Phase(h)
  BY DEF Phase
<1>2. Calls(h)' = IF state'[h] = "active" THEN pending'[h] + Cardinality(Coming(h)') ELSE 0
  BY DEF Calls, Coming
<1> QED BY <1>1, <1>2, CallsAre

\* One handle changes: its phase, the calls it has to answer, or both.
LEMMA OneChanges ==
    ASSUME NEW h \in Handles,
           \A g \in Handles \ {h} : Phase(g)' = Phase(g) /\ Calls(g)' = Calls(g)
    PROVE  /\ phases' = [phases EXCEPT ![h] = Phase(h)'] /\ phases[h] = Phase(h)
           /\ unanswered' = [unanswered EXCEPT ![h] = Calls(h)'] /\ unanswered[h] = Calls(h)
  BY DEF phases, unanswered

LEMMA SenderEvents ==
    ASSUME IInv, TypeOK', NEW s \in Senders,
           Sending(s) \/ \E h \in Handles : Send(s, h)
    PROVE  EventsStep
<1>0. TypeOK /\ Aimed
  BY DEF IInv
<1>1. UNCHANGED state /\ spc[s] # "aborted" /\ \A r \in Senders \ {s} : spc'[r] = spc[r] /\ target'[r] = target[r]
  BY <1>0 DEF Sending, Send, Enter, Exchange, WakeUp, Leave, TypeOK
<1>2. ASSUME NEW h \in Handles, Send(s, h) PROVE EventsStep
  <2>1. /\ spc[s] = "idle" /\ spc'[s] = "enter" /\ target'[s] = h /\ pending[h] = 0
        /\ UNCHANGED pending
    BY <1>0, <1>2 DEF Send, TypeOK
  <2>2. \A g \in Handles \ {h} : Coming(g)' = Coming(g)
    BY <1>1, <2>1 DEF Coming
  <2>3. Coming(h)' = Coming(h) \union {s} /\ s \notin Coming(h)
    BY <1>1, <2>1 DEF Coming
  <2>4. \A g \in Handles \ {h} : Phase(g)' = Phase(g) /\ Calls(g)' = Calls(g)
    BY <1>0, <1>1, <2>1, <2>2, CallsKept
  <2>5. Phase(h)' = Phase(h)
    BY <1>1 DEF Phase
  <2>6. CASE state[h] = "active"
    <3>1. Cardinality(Coming(h)') = Cardinality(Coming(h)) + 1
      BY <1>0, <2>3, CallsAre, FS_AddElement
    <3>2. Calls(h)' = pending'[h] + Cardinality(Coming(h)')
      BY <1>1, <2>6 DEF Calls, Coming
    <3>3. Calls(h)' = Calls(h) + 1
      BY <1>0, <2>1, <2>6, <3>1, <3>2, CallsAre
    <3>4. Phase(h) = "open"
      BY <2>6 DEF Phase
    <3>5. Events!Call(h)
      BY <2>4, <2>5, <3>3, <3>4, OneChanges DEF Events!Call, phases, unanswered
    <3> QED BY <3>5 DEF EventsStep, Events!Next, phases, unanswered
  <2>7. CASE state[h] # "active"
    <3>1. Calls(h)' = Calls(h)
      BY <1>1, <2>7 DEF Calls
    <3> QED BY <2>4, <2>5, <3>1, NothingHappens
  <2> QED BY <2>6, <2>7
<1>3. CASE Enter(s) \/ WakeUp(s) \/ Leave(s)
  <2>1. /\ UNCHANGED pending
        /\ \/ spc[s] = "enter" /\ spc'[s] = "exchange" /\ target'[s] = target[s]
           \/ spc[s] \notin {"enter", "exchange"} /\ spc'[s] \notin {"enter", "exchange"}
    BY <1>0, <1>3 DEF Enter, WakeUp, Leave, TypeOK
  <2>2. \A g \in Handles : Coming(g)' = Coming(g)
    BY <1>1, <2>1 DEF Coming
  <2> QED BY <1>0, <1>1, <2>1, <2>2, CallsKept, NothingHappens
<1>4. CASE Exchange(s)
  <2>1. PICK h \in Handles : h = target[s]
    BY <1>0, <1>4 DEF Exchange, Aimed
  <2>2. /\ spc[s] = "exchange" /\ spc'[s] \in {"wake", "leave"} /\ target' = target
        /\ pending'[h] = 1 /\ \A g \in Handles \ {h} : pending'[g] = pending[g]
    BY <1>0, <1>4, <2>1 DEF Exchange, TypeOK
  <2>3. Coming(h)' = Coming(h) \ {s} /\ s \in Coming(h)
    BY <1>1, <2>1, <2>2 DEF Coming
  <2>4. \A g \in Handles \ {h} : Coming(g)' = Coming(g)
    BY <1>1, <2>1, <2>2 DEF Coming
  <2>5. \A g \in Handles \ {h} : Phase(g)' = Phase(g) /\ Calls(g)' = Calls(g)
    BY <1>0, <1>1, <2>2, <2>4, CallsKept
  <2>6. Phase(h)' = Phase(h)
    BY <1>1 DEF Phase
  <2>7. CASE state[h] = "active"
    <3>1. Cardinality(Coming(h)') = Cardinality(Coming(h)) - 1
      BY ZenonT(60), <1>0, <2>3, CallsAre, FS_RemoveElement
    <3>2. Cardinality(Coming(h)) >= 1 /\ Cardinality(Coming(h)) \in Nat
      <4>1. Cardinality(Coming(h)) # 0
        BY <1>0, <2>3, CallsAre, FS_EmptySet
      <4> QED BY <1>0, <4>1, CallsAre
    <3>3. Calls(h)' = 1 + Cardinality(Coming(h)')
      BY <1>1, <2>2, <2>7 DEF Calls, Coming
    <3>4. Calls(h) = pending[h] + Cardinality(Coming(h)) /\ pending[h] \in {0, 1}
      BY <1>0, <2>7, CallsAre
    <3>5. CASE pending[h] = 0
      <4>1. Calls(h)' = Calls(h)
        BY <3>1, <3>2, <3>3, <3>4, <3>5
      <4> QED BY <2>5, <2>6, <4>1, NothingHappens
    <3>6. CASE pending[h] = 1
      <4>1. Calls(h)' = Calls(h) - 1 /\ Calls(h) >= 2
        BY <3>1, <3>2, <3>3, <3>4, <3>6
      <4>2. Phase(h) = "open"
        BY <2>7 DEF Phase
      <4>3. Events!Merge(h)
        BY <2>5, <2>6, <4>1, <4>2, OneChanges DEF Events!Merge, phases, unanswered
      <4> QED BY <4>3 DEF EventsStep, Events!Next, phases, unanswered
    <3> QED BY <3>4, <3>5, <3>6
  <2>8. CASE state[h] # "active"
    <3>1. Calls(h)' = Calls(h)
      BY <1>1, <2>8 DEF Calls
    <3> QED BY <2>5, <2>6, <3>1, NothingHappens
  <2> QED BY <2>7, <2>8
<1> QED BY <1>2, <1>3, <1>4 DEF Sending

LEMMA LoopEvents ==
    ASSUME IInv, TypeOK',
           \/ Loop \/ Stop \/ Fork \/ UNCHANGED vars
           \/ \E h \in Handles : AsyncInit(h) \/ Close(h) \/ FinishClose(h)
    PROVE  EventsStep
<1>0. TypeOK /\ Aimed /\ Placed /\ Waited
  BY DEF IInv
\* Outside uv_loop_fork the loop thread does not concern itself with the senders.
<1>1. ASSUME UNCHANGED sender PROVE \A h \in Handles : Coming(h)' = Coming(h)
  BY <1>1 DEF Coming
<1>2. CASE PollWake \/ Drain \/ CallbackReturns \/ ScanEnd \/ Stop \/ Stopped \/ UNCHANGED vars
  <2>1. UNCHANGED <<sender, state, pending>>
    BY <1>2 DEF PollWake, Drain, CallbackReturns, ScanEnd, Stop, Stopped, vars
  <2> QED BY <1>0, <1>1, <2>1, CallsKept, NothingHappens
<1>3. CASE Scan
  <2>1. PICK h \in Handles : h = Head(local) /\ Contains(local, h)
    BY <1>0, <1>3, TailQueue DEF Scan, TypeOK
  <2>2. state[h] = "active" /\ UNCHANGED <<sender, state>> /\ pending'[h] = 0
    BY <1>0, <1>3, <2>1 DEF Scan, Placed, Queued, TypeOK
  <2>3. \A g \in Handles \ {h} : pending'[g] = pending[g]
    BY <1>0, <1>3, <2>1 DEF Scan, TypeOK
  <2>4. \A g \in Handles \ {h} : Phase(g)' = Phase(g) /\ Calls(g)' = Calls(g)
    BY <1>0, <1>1, <2>2, <2>3, CallsKept
  <2>5. Phase(h)' = Phase(h) /\ Phase(h) = "open"
    BY <2>2 DEF Phase
  <2>6. Calls(h)' = Cardinality(Coming(h)')
    <3>1. Calls(h)' = pending'[h] + Cardinality(Coming(h)')
      BY <2>2 DEF Calls, Coming
    <3>2. Cardinality(Coming(h)') \in Nat
      BY <1>0, <1>1, <2>2, CallsAre
    <3> QED BY <2>2, <3>1, <3>2
  <2>7. Calls(h)' = Calls(h) - pending[h] /\ pending[h] \in {0, 1} /\ Calls(h) >= pending[h]
    BY <1>0, <1>1, <2>2, <2>6, CallsAre
  <2>8. CASE pending[h] = 0
    <3>1. Calls(h)' = Calls(h)
      BY <1>0, <2>7, <2>8, CallsAre
    <3> QED BY <2>4, <2>5, <3>1, NothingHappens
  <2>9. CASE pending[h] = 1
    <3>1. Events!Fire(h)
      BY <2>4, <2>5, <2>7, <2>9, OneChanges DEF Events!Fire, phases, unanswered
    <3> QED BY <3>1 DEF EventsStep, Events!Next, phases, unanswered
  <2> QED BY <2>7, <2>8, <2>9
\* A handle changes its state.
<1>4. ASSUME NEW h \in Handles, NEW st \in {"active", "spinning", "closing", "closed"},
             UNCHANGED sender, state' = [state EXCEPT ![h] = st],
             \A g \in Handles \ {h} : pending'[g] = pending[g]
      PROVE  /\ \A g \in Handles \ {h} : Phase(g)' = Phase(g) /\ Calls(g)' = Calls(g)
             /\ state'[h] = st
             /\ st # "active" => Calls(h)' = 0
  <2>1. \A g \in Handles \ {h} : state'[g] = state[g]
    BY <1>0, <1>4 DEF TypeOK
  <2>2. state'[h] = st
    BY <1>0, <1>4 DEF TypeOK
  <2> QED BY <1>0, <1>1, <1>4, <2>1, <2>2, CallsKept DEF Calls
<1>5. ASSUME NEW h \in Handles, AsyncInit(h) PROVE EventsStep
  <2>1. /\ UNCHANGED sender /\ state' = [state EXCEPT ![h] = "active"] /\ state[h] = "none"
        /\ pending'[h] = 0 /\ \A g \in Handles \ {h} : pending'[g] = pending[g]
    BY <1>0, <1>5 DEF AsyncInit, TypeOK
  <2>2. /\ \A g \in Handles \ {h} : Phase(g)' = Phase(g) /\ Calls(g)' = Calls(g)
        /\ state'[h] = "active"
    BY <1>4, <2>1
  <2>3. Coming(h) = {} /\ Coming(h)' = {}
    BY <1>0, <1>1, <2>1 DEF Aimed, Coming
  <2>4. Calls(h)' = 0 /\ Calls(h) = 0
    <3>1. Calls(h)' = pending'[h] + Cardinality(Coming(h)')
      BY <2>2 DEF Calls, Coming
    <3> QED BY <2>1, <2>3, <3>1, FS_EmptySet DEF Calls
  <2>5. Phase(h) = "new" /\ Phase(h)' = "open"
    BY <2>1, <2>2 DEF Phase
  <2>6. Events!Open(h)
    <3>1. unanswered' = unanswered
      BY <2>2, <2>4 DEF unanswered
    <3> QED BY <2>2, <2>5, <3>1, OneChanges DEF Events!Open, phases, unanswered
  <2> QED BY <2>6 DEF EventsStep, Events!Next, phases, unanswered
\* uv_close, and uv__async_stop for the loop's own handle.
<1>6. ASSUME NEW h \in Handles, state[h] = "active", UNCHANGED sender,
             state' = [state EXCEPT ![h] = "spinning"], pending' = [pending EXCEPT ![h] = 1]
      PROVE  EventsStep
  <2>1. \A g \in Handles \ {h} : pending'[g] = pending[g]
    BY <1>0, <1>6 DEF TypeOK
  <2>2. /\ \A g \in Handles \ {h} : Phase(g)' = Phase(g) /\ Calls(g)' = Calls(g)
        /\ state'[h] = "spinning" /\ Calls(h)' = 0
    BY <1>4, <1>6, <2>1
  <2>3. Phase(h) = "open" /\ Phase(h)' = "closing"
    BY <1>6, <2>2 DEF Phase
  <2>4. Events!Close(h)
    BY <2>2, <2>3, OneChanges DEF Events!Close, phases, unanswered
  <2> QED BY <2>4 DEF EventsStep, Events!Next, phases, unanswered
<1>7. ASSUME NEW h \in Handles, Close(h) PROVE EventsStep
  BY <1>6, <1>7 DEF Close
<1>8. CASE StopSpin
  <2>1. PICK h \in Handles : h = Head(local) /\ Contains(local, h)
    BY <1>0, <1>8, TailQueue DEF StopSpin, TypeOK
  <2>2. state[h] = "active"
    BY <1>0, <1>8, <2>1 DEF StopSpin, Placed
  <2> QED BY <1>6, <1>8, <2>1, <2>2 DEF StopSpin
\* uv__async_spin has returned.
<1>9. CASE CloseSpun \/ StopSpun
  <2>1. PICK h \in Handles : h = closing
    BY <1>0, <1>9 DEF CloseSpun, StopSpun, Waited
  <2>2. /\ state[h] = "spinning" /\ UNCHANGED <<sender, pending>>
        /\ state' = [state EXCEPT ![h] = "closing"]
    BY <1>0, <1>9, <2>1 DEF CloseSpun, StopSpun, Waited
  <2>3. /\ \A g \in Handles \ {h} : Phase(g)' = Phase(g) /\ Calls(g)' = Calls(g)
        /\ state'[h] = "closing" /\ Calls(h)' = 0
    BY <1>4, <2>2
  <2>4. Phase(h)' = Phase(h) /\ Calls(h) = 0
    BY <2>2, <2>3 DEF Phase, Calls
  <2> QED BY <2>3, <2>4, NothingHappens
<1>10. ASSUME NEW h \in Handles, FinishClose(h) PROVE EventsStep
  <2>1. /\ state[h] = "closing" /\ UNCHANGED <<sender, pending>>
        /\ state' = [state EXCEPT ![h] = "closed"]
    BY <1>10 DEF FinishClose
  <2>2. /\ \A g \in Handles \ {h} : Phase(g)' = Phase(g) /\ Calls(g)' = Calls(g)
        /\ state'[h] = "closed" /\ Calls(h)' = 0
    BY <1>4, <2>1
  <2>3. Phase(h) = "closing" /\ Phase(h)' = "closed" /\ Calls(h) = 0
    BY <2>1, <2>2 DEF Phase, Calls
  <2>4. Events!Closed(h)
    <3>1. unanswered' = unanswered
      BY <2>2, <2>3 DEF unanswered
    <3> QED BY <2>2, <2>3, <3>1, OneChanges DEF Events!Closed, phases, unanswered
  <2> QED BY <2>4 DEF EventsStep, Events!Next, phases, unanswered
\* In the child nobody sends any more and nothing is pending.
<1>11. CASE Fork
  <2>1. /\ UNCHANGED state /\ lpc = "program" /\ \A s \in Senders : spc'[s] = "idle"
        /\ \A h \in Handles : Contains(handles, h) => pending'[h] = 0
    BY <1>11 DEF Fork
  <2>2. \A h \in Handles : state[h] = "active" => Contains(handles, h)
    BY <1>0, <2>1, EmptyQueue DEF Placed, Queued
  <2>3. \A h \in Handles : Coming(h)' = {}
    BY <2>1 DEF Coming
  <2>4. \A h \in Handles : Calls(h)' = 0 /\ Phase(h)' = Phase(h)
    <3> SUFFICES ASSUME NEW h \in Handles PROVE Calls(h)' = 0 /\ Phase(h)' = Phase(h)
      OBVIOUS
    <3>1. Calls(h)' = IF state'[h] = "active" THEN pending'[h] + Cardinality(Coming(h)') ELSE 0
      BY DEF Calls, Coming
    <3>2. Phase(h)' = Phase(h)
      BY <2>1 DEF Phase
    <3> QED BY <2>1, <2>2, <2>3, <3>1, <3>2, FS_EmptySet
  <2>5. Events!Forget
    BY <2>4 DEF Events!Forget
  <2> QED BY <2>5 DEF EventsStep, Events!Next, phases, unanswered
<1> QED BY <1>2, <1>3, <1>5, <1>7, <1>8, <1>9, <1>10, <1>11 DEF Loop

\* Callbacks answer calls: every step of the senders and of the loop is one of AsyncEvents, so no
\* callback runs without a call before it, none after uv_close, and calls are only ever merged
\* with others that are still to be answered.
THEOREM OnlyCallsAreAnswered ==
    Spec => Events!Init /\ [][Events!Next]_<<phases, unanswered>>
<1>1. Init => Events!Init
  <2> SUFFICES ASSUME Init PROVE Events!Init
    OBVIOUS
  <2>1. TypeOK
    BY InitInv DEF IInv
  <2>2. \A h \in Handles : Coming(h) = {} /\ pending[h] = 0
    BY DEF Init, Coming
  <2>3. \A h \in Handles : Calls(h) = 0
    BY <2>1, <2>2, CallsAre, FS_EmptySet
  <2>4. \A h \in Handles : Phase(h) \in {"new", "open"}
    BY DEF Init, Phase
  <2> QED BY <2>3, <2>4 DEF Events!Init
<1>2. IInv /\ IInv' /\ [Next]_vars => [Events!Next]_<<phases, unanswered>>
  <2> SUFFICES ASSUME IInv, IInv', [Next]_vars PROVE EventsStep
    BY DEF EventsStep
  <2>1. TypeOK'
    BY DEF IInv
  <2> QED BY <2>1, SenderEvents, LoopEvents DEF Next
<1> QED BY <1>1, <1>2, Invariance, PTL DEF Spec
=============================================================================
