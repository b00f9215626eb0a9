------------------------------- MODULE LoopProofs -------------------------------
(***************************************************************************)
(* What Loop promises, for any number of handles and requests.             *)
(*                                                                         *)
(* A queue of the loop and its part on the stack are one queue cut in two; *)
(* the invariant says of every queue what the two parts hold (Linked), of  *)
(* every phase of a turn which watchers it still owes a call (Owing), and  *)
(* of the local variables of uv_run what they remember (Remembers).        *)
(***************************************************************************)
EXTENDS Loop, QueueProofs

USE LoopAssumption DEF LoopAssumption

\* The part of a queue that is on the stack, if the loop is in one of the phases.
Part(phases) == IF phase \in phases THEN local ELSE <<>>

\* Two parts of one queue hold nothing twice.
Once(p, q) ==
    /\ Distinct(p) /\ Distinct(q)
    /\ \A h \in Handles : ~(Contains(p, h) /\ Contains(q, h))

\* The queue q with its part p on the stack holds h.
Linked(p, q, h) == Contains(p, h) \/ Contains(q, h)

\* What is active is open, and what is owed a call is active.
Living ==
    /\ \A h \in active : life[h] = "open"
    /\ \A h \in owed : h \in active /\ type[h] \in Watched

\* Only a poll has requests on the stack, and where nothing is called the stack
\* is empty.  The timers that are due are open and wait once.
Stacked ==
    /\ phase # "poll" => local \in Seq(Handles)
    /\ phase \in {"outside", "turn"} => local = <<>> /\ ~cb
    /\ phase = "poll" /\ timeout # "woken" => local = <<>> /\ ~cb
    /\ phase \in {"firstTimers", "timers"} =>
         Distinct(local) /\ \A h \in Handles : Contains(local, h) => life[h] = "open"

Watching ==
    \A t \in Watched :
        /\ Once(Part({t}), queue[t])
        /\ \A h \in Handles : Linked(Part({t}), queue[t], h) <=> h \in active /\ type[h] = t

Closing ==
    /\ Once(Part({"closing"}), closingHandles)
    /\ \A h \in Handles : Linked(Part({"closing"}), closingHandles, h) <=> life[h] = "closing"

Pending ==
    /\ Once(Part({"pending", "drain"}), queue["pending"])
    /\ \A h \in Handles :
        Linked(Part({"pending", "drain"}), queue["pending"], h) => life[h] = "open"

\* The watchers that are owed a call: all of them to begin with, then those of the
\* types that are still to come, and of the type whose turn it is those on the stack.
Owing ==
    /\ phase \in Watched => \A h \in owed : type[h] = phase => Contains(local, h)
    /\ phase = "prepare" => \A h \in owed : type[h] # "idle"
    /\ phase \in {"poll", "drain", "check"} => \A h \in owed : type[h] = "check"
    /\ phase \in {"closing", "timers", "turn", "outside", "firstTimers"} => owed = {}

Remembers == phase = "firstTimers" => r /\ mode = "DEFAULT"

IInv ==
    /\ TypeOK /\ CountIsRight /\ Living /\ Stacked
    /\ Watching /\ Closing /\ Pending /\ Owing
    /\ Remembers /\ SleepsForAReason

-----------------------------------------------------------------------------
(* Operators of the model *)

\* Counting the handles that are active and referenced.
LEMMA Counting ==
    ASSUME TypeOK
    PROVE  /\ \A S \in SUBSET Handles : IsFiniteSet(S) /\ Cardinality(S) \in Nat
           /\ \A S \in SUBSET Handles, h \in Handles :
                /\ h \notin S => Cardinality(S \union {h}) = Cardinality(S) + 1
                /\ h \in S => Cardinality(S \ {h}) = Cardinality(S) - 1
<1>1. \A S \in SUBSET Handles : IsFiniteSet(S) /\ Cardinality(S) \in Nat
  BY FS_Subset, FS_CardinalityType
<1>2. \A S \in SUBSET Handles, h \in Handles :
        /\ h \notin S => Cardinality(S \union {h}) = Cardinality(S) + 1
        /\ h \in S => Cardinality(S \ {h}) = Cardinality(S) - 1
  BY <1>1, FS_AddElement, FS_RemoveElement
<1> QED BY <1>1, <1>2

LEMMA StartCounts ==
    ASSUME TypeOK, CountIsRight, NEW h \in Handles, HandleStart(h), ref' = ref
    PROVE  CountIsRight' /\ activeHandles' \in Nat /\ active' \subseteq Handles
<1>1. CASE h \in ref \ active
  <2>1. (active \intersect ref)' = (active \intersect ref) \union {h}
    BY <1>1 DEF HandleStart
  <2>2. active \intersect ref \in SUBSET Handles /\ h \notin active \intersect ref
    BY <1>1 DEF TypeOK
  <2>3. Cardinality((active \intersect ref)') = Cardinality(active \intersect ref) + 1
    BY <2>1, <2>2, Counting
  <2>4. active' \subseteq Handles /\ activeHandles' = activeHandles + 1
    BY <1>1 DEF TypeOK, HandleStart
  <2> QED BY <2>3, <2>4 DEF TypeOK, CountIsRight
<1>2. CASE h \notin ref \ active
  <2>1. (active \intersect ref)' = active \intersect ref
    BY <1>2 DEF HandleStart
  <2> QED BY <1>2, <2>1 DEF TypeOK, CountIsRight, HandleStart
<1> QED BY <1>1, <1>2

LEMMA StopCounts ==
    ASSUME TypeOK, CountIsRight, NEW h \in Handles, HandleStop(h), ref' = ref
    PROVE  CountIsRight' /\ activeHandles' \in Nat /\ active' \subseteq Handles
<1>1. CASE h \in ref \intersect active
  <2>1. (active \intersect ref)' = (active \intersect ref) \ {h}
    BY <1>1 DEF HandleStop
  <2>2. CountIsRight'
    BY <1>1, <2>1, Counting DEF TypeOK, CountIsRight, HandleStop
  <2>3. active' \subseteq Handles /\ (active \intersect ref)' \in SUBSET Handles
    BY DEF TypeOK, HandleStop
  <2>4. Cardinality((active \intersect ref)') \in Nat
    BY <2>3, Counting
  <2> QED BY <2>2, <2>3, <2>4 DEF CountIsRight
<1>2. CASE h \notin ref \intersect active
  <2>1. (active \intersect ref)' = active \intersect ref
    BY <1>2 DEF HandleStop
  <2> QED BY <1>2, <2>1 DEF TypeOK, CountIsRight, HandleStop
<1> QED BY <1>1, <1>2

\* The timers that are due are no longer counted and wait on the stack.
LEMMA TimersCount ==
    ASSUME TypeOK, CountIsRight, NEW p, RunTimers(p), ref' = ref
    PROVE  /\ CountIsRight' /\ activeHandles' \in Nat /\ active' \subseteq active
           /\ \A h \in active \ active' : type[h] = "timer"
           /\ local' \in Seq(Handles) /\ Distinct(local')
           /\ \A h \in Handles : Contains(local', h) => h \in active \ active'
<1>1. PICK due \in SUBSET {h \in active : type[h] = "timer"} :
        /\ \E order \in SetToSeqs(due) : local' = order
        /\ active' = active \ due
        /\ activeHandles' = activeHandles - Cardinality(due \intersect ref)
  BY DEF RunTimers
<1>2. due \subseteq active /\ IsFiniteSet(due) /\ due \subseteq Handles
  BY <1>1, Counting DEF TypeOK
<1>3. local' \in Seq(due) /\ Distinct(local') /\ \A h : Contains(local', h) <=> h \in due
  BY <1>1, <1>2, OrderQueue
<1>4. local' \in Seq(Handles)
  BY <1>2, <1>3, SeqMonotonic
<1>5. /\ IsFiniteSet(active' \intersect ref) /\ IsFiniteSet(due \intersect ref)
      /\ Cardinality(active' \intersect ref) \in Nat /\ Cardinality(due \intersect ref) \in Nat
  <2>1. active' \intersect ref \in SUBSET Handles /\ due \intersect ref \in SUBSET Handles
    BY <1>1, <1>2 DEF TypeOK
  <2> QED BY <2>1, Counting
<1>6. Cardinality(active \intersect ref) =
        Cardinality(active' \intersect ref) + Cardinality(due \intersect ref)
  <2>1. active \intersect ref = (active' \intersect ref) \union (due \intersect ref)
    BY <1>1, <1>2
  <2>2. (active' \intersect ref) \intersect (due \intersect ref) = {}
    BY <1>1
  <2>3. Cardinality({}) = 0
    BY FS_EmptySet
  <2>4. Cardinality((active' \intersect ref) \union (due \intersect ref)) =
          Cardinality(active' \intersect ref) + Cardinality(due \intersect ref)
            - Cardinality((active' \intersect ref) \intersect (due \intersect ref))
    BY <1>5, FS_Union
  <2>5. Cardinality(active \intersect ref) =
          Cardinality((active' \intersect ref) \union (due \intersect ref))
    BY <2>1
  <2>6. Cardinality((active' \intersect ref) \intersect (due \intersect ref)) = 0
    BY <2>2, <2>3
  <2> QED BY <1>5, <2>4, <2>5, <2>6
<1>7. CountIsRight' /\ activeHandles' \in Nat
  BY <1>1, <1>5, <1>6 DEF CountIsRight, TypeOK
<1> QED BY <1>1, <1>3, <1>4, <1>7

-----------------------------------------------------------------------------
(* The count of active handles *)

LEMMA HeadOfStack ==
    ASSUME IInv, local # <<>>
    PROVE  /\ Head(local) \in Handles \union Reqs /\ Contains(local, Head(local))
           /\ phase # "poll" => Head(local) \in Handles
           /\ phase = "closing" => life[Head(local)] = "closing"
           /\ phase \in {"pending", "drain", "firstTimers", "timers"} => life[Head(local)] = "open"
           /\ phase \in Watched => Head(local) \in active /\ type[Head(local)] = phase
<1>1. Head(local) \in Handles \union Reqs /\ Contains(local, Head(local))
  BY TailQueue DEF IInv, TypeOK
<1>2. phase # "poll" => Head(local) \in Handles
  BY TailQueue DEF IInv, Stacked
<1>3. phase = "closing" => life[Head(local)] = "closing"
  BY <1>1, <1>2 DEF IInv, Closing, Part, Linked
<1>4. phase \in {"pending", "drain"} => life[Head(local)] = "open"
  BY <1>1, <1>2 DEF IInv, Pending, Part, Linked
<1>5. phase \in {"firstTimers", "timers"} => life[Head(local)] = "open"
  BY <1>1, <1>2 DEF IInv, Stacked
<1>6. phase \in Watched => Head(local) \in active /\ type[Head(local)] = phase
  BY <1>1, <1>2 DEF IInv, Watching, Part, Linked, Watched
<1> QED BY <1>1, <1>2, <1>3, <1>4, <1>5, <1>6

LEMMA CountStep ==
    ASSUME IInv, [Next]_vars
    PROVE  CountIsRight' /\ activeHandles' \in Nat /\ active' \subseteq Handles
<1>0. TypeOK /\ CountIsRight /\ Living
  BY DEF IInv
<1> DEFINE Goal == CountIsRight' /\ activeHandles' \in Nat /\ active' \subseteq Handles
<1>1. ASSUME active' = active, activeHandles' = activeHandles,
             (active \intersect ref)' = active \intersect ref
      PROVE  Goal
  BY <1>0, <1>1 DEF TypeOK, CountIsRight
<1> SUFFICES Goal
  OBVIOUS
<1> HIDE DEF Goal
<1>2. ASSUME NEW h \in Handles, HandleInit(h) PROVE Goal
  BY <1>0, <1>1, <1>2 DEF HandleInit, Living
<1>3. ASSUME NEW h \in Handles, StartWatcher(h) \/ StartOther(h) PROVE Goal
  <2>1. HandleStart(h) /\ ref' = ref
    BY <1>3 DEF StartWatcher, StartOther
  <2> QED BY <1>0, <2>1, StartCounts DEF Goal
<1>4. ASSUME NEW h \in Handles, Stop(h) \/ Close(h) PROVE Goal
  <2>1. HandleStop(h) /\ ref' = ref
    BY <1>4 DEF Stop, Close
  <2> QED BY <1>0, <2>1, StopCounts DEF Goal
<1>5. ASSUME NEW h \in Handles, Ref(h) PROVE Goal
  <2>1. h \notin ref /\ ref' = ref \union {h} /\ active' = active
    BY <1>5 DEF Ref
  <2>2. CASE h \notin active
    BY <1>1, <1>5, <2>1, <2>2 DEF Ref
  <2>3. CASE h \in active
    <3>1. activeHandles' = activeHandles + 1
      BY <1>5, <2>3, <1>0 DEF Ref, Living
    <3>2. active \intersect ref \in SUBSET Handles /\ h \notin active \intersect ref
      BY <2>1, <1>0 DEF TypeOK
    <3>3. (active \intersect ref)' = (active \intersect ref) \union {h}
      BY <2>1, <2>3
    <3>4. Cardinality((active \intersect ref)') = Cardinality(active \intersect ref) + 1
      BY <1>0, <3>2, <3>3, Counting
    <3> QED BY <1>0, <2>1, <3>1, <3>4 DEF Goal, TypeOK, CountIsRight
  <2> QED BY <2>2, <2>3
<1>6. ASSUME NEW h \in Handles, Unref(h) PROVE Goal
  <2>1. h \in ref /\ ref' = ref \ {h} /\ active' = active
    BY <1>6 DEF Unref
  <2>2. CASE h \notin active
    BY <1>1, <1>6, <2>1, <2>2 DEF Unref
  <2>3. CASE h \in active
    <3>1. activeHandles' = activeHandles - 1
      BY <1>6, <2>3, <1>0 DEF Unref, Living
    <3>2. active \intersect ref \in SUBSET Handles /\ h \in active \intersect ref
      BY <2>1, <2>3, <1>0 DEF TypeOK
    <3>3. (active \intersect ref)' = (active \intersect ref) \ {h}
      BY <2>1
    <3>4. Cardinality((active \intersect ref)') = Cardinality(active \intersect ref) - 1
      BY <1>0, <3>2, <3>3, Counting
    <3>5. CountIsRight'
      BY <1>0, <3>1, <3>4 DEF CountIsRight
    <3>6. (active \intersect ref)' \in SUBSET Handles
      BY <2>1, <1>0 DEF TypeOK
    <3>7. Cardinality((active \intersect ref)') \in Nat
      BY <1>0, <3>6, Counting
    <3> QED BY <1>0, <2>1, <3>5, <3>7 DEF Goal, TypeOK, CountIsRight
  <2> QED BY <2>2, <2>3
<1>7. ASSUME NEW p, RunTimers(p), ref' = ref PROVE Goal
  BY <1>0, <1>7, TimersCount DEF Goal, TypeOK
<1>8. ASSUME NEW m \in Modes, Run(m) PROVE Goal
  BY <1>1, <1>7, <1>8 DEF Run
<1>9. CASE EndClosing
  BY <1>7, <1>9 DEF EndClosing
<1>10. CASE CallClose
  <2>1. Head(local) \notin active
    BY <1>0, <1>10, HeadOfStack DEF CallClose, Waiting, Living
  <2> QED BY <1>1, <1>10, <2>1 DEF CallClose
<1>11. CASE UNCHANGED handleVars
  BY <1>1, <1>11 DEF handleVars
<1>12. ASSUME NEW h \in Handles, Feed(h) PROVE UNCHANGED handleVars
  BY <1>12 DEF Feed
<1>13. ASSUME NEW q \in Reqs, Request(q) PROVE UNCHANGED handleVars
  BY <1>13 DEF Request
<1>14. CASE \/ StopLoop \/ EndFirstTimers \/ BeginTurn \/ EndPending \/ EndIdle \/ EndPrepare
            \/ EndPoll \/ Drain \/ EndCheck \/ EndTimers \/ CallbackReturns \/ PollWakes
            \/ CallPending \/ CallWatcher \/ CallPolled \/ CallRequest \/ CallTimer
  <2>1. UNCHANGED handleVars
    BY <1>14 DEF StopLoop, EndFirstTimers, BeginTurn, EndPending, EndIdle, EndPrepare, EndPoll,
                 Drain, EndCheck, EndTimers, CallbackReturns, PollWakes, CallPending, CallWatcher,
                 CallPolled, CallRequest, CallTimer
  <2> QED BY <1>11, <2>1
<1>15. CASE UNCHANGED vars
  BY <1>11, <1>15 DEF vars
<1> QED BY <1>2, <1>3, <1>4, <1>5, <1>6, <1>8, <1>9, <1>10, <1>11, <1>12, <1>13, <1>14, <1>15
        DEF Next, Running, Call

-----------------------------------------------------------------------------
(* Types *)

LEMMA Sequences ==
    /\ Seq(Handles) \subseteq Seq(Handles \union Reqs)
    /\ \A S : <<>> \in Seq(S)
    /\ \A S : \A q \in Seq(S) : \A x : Unlink(q, x) \in Seq(S)
    /\ \A S : \A q \in Seq(S) : q # <<>> => Tail(q) \in Seq(S) /\ Head(q) \in S
    /\ \A q \in Seq(Handles), h \in Handles :
        Append(q, h) \in Seq(Handles) /\ <<h>> \o q \in Seq(Handles)
<1>1. Seq(Handles) \subseteq Seq(Handles \union Reqs)
  BY SeqMonotonic
<1>2. \A S : <<>> \in Seq(S) /\ (\A q \in Seq(S) : \A x : Unlink(q, x) \in Seq(S))
  BY EmptySeq, UnlinkQueue
<1>3. \A S : \A q \in Seq(S) : q # <<>> => Tail(q) \in Seq(S) /\ Head(q) \in S
  BY TailQueue
<1>4. \A q \in Seq(Handles), h \in Handles :
        Append(q, h) \in Seq(Handles) /\ <<h>> \o q \in Seq(Handles)
  BY AppendQueue, PushQueue
<1> QED BY <1>1, <1>2, <1>3, <1>4

LEMMA TypeStep ==
    ASSUME IInv, [Next]_vars PROVE TypeOK'
<1> SUFFICES TypeOK'
  OBVIOUS
<1>0. TypeOK /\ Stacked
  BY DEF IInv
<1>1. activeHandles' \in Nat /\ active' \subseteq Handles
  BY CountStep
<1> DEFINE Stack == local' \in Seq(Handles \union Reqs)
           Queue == queue' \in [Watched \union {"pending"} -> Seq(Handles)]
<1>2. ASSUME NEW h \in Handles, HandleInit(h) PROVE TypeOK'
  BY <1>0, <1>2 DEF HandleInit, TypeOK, runVars
<1>3. ASSUME NEW h \in Handles, StartWatcher(h) PROVE TypeOK'
  <2>1. queue' = [queue EXCEPT ![type[h]] = <<h>> \o @]
    BY <1>3 DEF StartWatcher
  <2>2. Queue
    BY <1>0, <2>1, Sequences DEF TypeOK
  <2> QED BY <1>0, <1>1, <1>3, <2>2 DEF StartWatcher, TypeOK, runVars
<1>4. ASSUME NEW h \in Handles, StartOther(h) PROVE TypeOK'
  <2>1. Stack
    BY <1>0, <1>4, Sequences DEF StartOther, TypeOK
  <2> QED BY <1>0, <1>1, <1>4, <2>1 DEF StartOther, TypeOK, runVars
<1>5. ASSUME NEW h \in Handles, Stop(h) PROVE TypeOK'
  <2>1. Stack /\ Queue
    BY <1>0, <1>5, Sequences DEF Stop, Out, TypeOK
  <2> QED BY <1>0, <1>1, <1>5, <2>1 DEF Stop, TypeOK, runVars
<1>6. ASSUME NEW h \in Handles, Ref(h) \/ Unref(h) PROVE TypeOK'
  BY <1>0, <1>1, <1>6 DEF Ref, Unref, TypeOK, runVars
<1>7. ASSUME NEW h \in Handles, Feed(h) PROVE TypeOK'
  <2>1. Queue
    BY <1>0, <1>7, Sequences DEF Feed, TypeOK
  <2> QED BY <1>0, <1>7, <2>1 DEF Feed, TypeOK, handleVars, runVars
<1>8. ASSUME NEW h \in Handles, Close(h) PROVE TypeOK'
  <2>1. Stack /\ Queue /\ closingHandles' \in Seq(Handles)
    BY <1>0, <1>8, Sequences DEF Close, TypeOK
  <2> QED BY <1>0, <1>1, <1>8, <2>1 DEF Close, TypeOK, runVars
<1>9. ASSUME NEW q \in Reqs, Request(q) PROVE TypeOK'
  BY <1>0, <1>9 DEF Request, TypeOK, handleVars, runVars
<1>10. CASE StopLoop \/ CallbackReturns
  BY <1>0, <1>10 DEF StopLoop, CallbackReturns, TypeOK, handleVars, runVars
<1>11. ASSUME NEW p, RunTimers(p), ref' = ref PROVE Stack
  BY <1>0, <1>11, TimersCount, Sequences DEF IInv
<1>25. ASSUME NEW q \in Watched \union {"pending"}, MoveQueue(q) PROVE Stack /\ Queue
  <2>1. queue \in [Watched \union {"pending"} -> Seq(Handles)] /\ <<>> \in Seq(Handles)
    BY <1>0, Sequences DEF TypeOK
  <2>2. local' = queue[q] /\ queue' = [queue EXCEPT ![q] = <<>>]
    BY <1>25 DEF MoveQueue
  <2>3. local' \in Seq(Handles)
    BY <2>1, <2>2
  <2>4. Queue
    BY <2>1, <2>2
  <2> QED BY <2>3, <2>4, Sequences
<1>12. LoopAlive \in BOOLEAN
  BY DEF LoopAlive
<1>13. ASSUME NEW m \in Modes, Run(m) PROVE TypeOK'
  <2>1. Stack
    BY <1>0, <1>11, <1>13 DEF Run, TypeOK
  <2>2. phase' \in {"outside", "firstTimers", "turn"} /\ stopFlag' \in BOOLEAN
    BY <1>0, <1>13 DEF Run, Return, RunTimers, TypeOK
  <2> QED BY <1>0, <1>1, <1>12, <1>13, <2>1, <2>2 DEF Run, TypeOK
<1>14. CASE EndFirstTimers
  BY <1>0, <1>14 DEF EndFirstTimers, Return, TypeOK, handleVars, runVars
<1>15. CASE BeginTurn \/ EndPending \/ EndIdle
  <2>1. Stack /\ Queue
    BY <1>25, <1>15 DEF BeginTurn, EndPending, EndIdle, Watched
  <2>2. CASE BeginTurn
    BY <1>0, <2>1, <2>2 DEF BeginTurn, TypeOK, handleVars
  <2>3. CASE EndPending
    BY <1>0, <2>1, <2>3 DEF EndPending, TypeOK, handleVars, runVars, Watched
  <2>4. CASE EndIdle
    BY <1>0, <2>1, <2>4 DEF EndIdle, TypeOK, handleVars, runVars, Watched
  <2> QED BY <1>15, <2>2, <2>3, <2>4
<1>16. CASE EndPrepare
  BY <1>0, <1>16 DEF EndPrepare, BackendTimeout, TypeOK, handleVars
<1>17. CASE PollWakes
  <2>1. PICK events \in SUBSET ({h \in active : type[h] = "io"} \union reqs) :
          \E order \in SetToSeqs(events) : local' = order
    BY <1>17 DEF PollWakes
  <2>2. events \subseteq Handles \union Reqs
    BY <1>0, <2>1 DEF TypeOK
  <2>3. IsFiniteSet(events)
    BY <2>2, FS_Union, FS_Subset
  <2>4. local' \in Seq(events)
    BY <2>1, <2>3, OrderQueue
  <2>5. Stack
    BY <2>2, <2>4, SeqMonotonic
  <2> QED BY <1>0, <1>17, <2>5 DEF PollWakes, TypeOK, handleVars
<1>18. CASE EndPoll
  BY <1>0, <1>18 DEF EndPoll, TypeOK, handleVars
<1>19. CASE Drain
  <2>1. Stack /\ Queue
    BY <1>25, <1>19 DEF Drain, Watched
  <2>2. rounds' \in 0..PendingRounds
    BY <1>0, <1>19 DEF Drain, TypeOK
  <2> QED BY <1>0, <1>19, <2>1, <2>2 DEF Drain, TypeOK, handleVars, Watched
<1>20. CASE EndCheck
  BY <1>0, <1>20, Sequences DEF EndCheck, TypeOK, handleVars, runVars
<1>21. CASE EndClosing
  <2>1. Stack /\ phase' = "timers"
    BY <1>11, <1>21 DEF EndClosing, RunTimers
  <2> QED BY <1>0, <1>1, <1>21, <2>1 DEF EndClosing, TypeOK, runVars
<1>22. CASE EndTimers
  <2>1. phase' \in {"outside", "turn"} /\ stopFlag' \in BOOLEAN
    BY <1>0, <1>22 DEF EndTimers, Return, TypeOK
  <2> QED BY <1>0, <1>12, <1>22, <2>1 DEF EndTimers, TypeOK, handleVars
<1>23. CASE Call
  <2>1. Stack /\ cb' \in BOOLEAN
    <3>1. local \in Seq(Handles \union Reqs) /\ local # <<>> /\ local' = Tail(local)
      BY <1>0, <1>23
      DEF Call, CallPending, CallWatcher, CallPolled, CallRequest, CallClose, CallTimer, Waiting, TypeOK
    <3>2. (Head(local) \in active) \in BOOLEAN
      OBVIOUS
    <3>3. cb' = TRUE \/ cb' = (Head(local) \in active)
      BY <1>23 DEF Call, CallPending, CallWatcher, CallPolled, CallRequest, CallClose, CallTimer
    <3>4. cb' \in BOOLEAN
      BY <3>2, <3>3
    <3> QED BY <3>1, <3>4, Sequences
  <2>2. CASE CallPending \/ CallPolled \/ CallTimer
    BY <1>0, <2>1, <2>2 DEF CallPending, CallPolled, CallTimer, TypeOK, handleVars, runVars
  <2>3. CASE CallWatcher
    <3>1. Head(local) \in Handles
      BY <1>0, <2>3, Sequences DEF CallWatcher, Waiting, Stacked, Watched
    <3>2. Queue
      BY <1>0, <2>3, <3>1, Sequences DEF CallWatcher, TypeOK
    <3> QED BY <1>0, <2>1, <2>3, <3>2 DEF CallWatcher, TypeOK, handleVars, runVars
  <2>4. CASE CallRequest
    BY <1>0, <2>1, <2>4 DEF CallRequest, TypeOK, handleVars, runVars
  <2>5. CASE CallClose
    BY <1>0, <2>1, <2>5 DEF CallClose, TypeOK, runVars
  <2> QED BY <1>23, <2>2, <2>3, <2>4, <2>5 DEF Call
<1>24. CASE UNCHANGED vars
  BY <1>0, <1>24 DEF vars, TypeOK, handleVars, runVars
<1> QED BY <1>2, <1>3, <1>4, <1>5, <1>6, <1>7, <1>8, <1>9, <1>10, <1>13, <1>14, <1>15, <1>16, <1>17,
           <1>18, <1>19, <1>20, <1>21, <1>22, <1>23, <1>24
        DEF Next, Running

-----------------------------------------------------------------------------
(* Operations on a queue in two parts *)

LEMMA UnlinkParts ==
    ASSUME NEW p \in Seq(Handles), NEW q \in Seq(Handles), Once(p, q), NEW h
    PROVE  /\ Once(Unlink(p, h), Unlink(q, h)) /\ Once(Unlink(p, h), q)
           /\ \A g : Linked(Unlink(p, h), Unlink(q, h), g) <=> Linked(p, q, g) /\ g # h
           /\ \A g : Linked(Unlink(p, h), q, g) => Linked(p, q, g)
           /\ \A g : Linked(p, q, g) /\ g # h => Linked(Unlink(p, h), q, g)
BY UnlinkDistinct DEF Once, Linked

LEMMA InsertParts ==
    ASSUME NEW p \in Seq(Handles), NEW q \in Seq(Handles), Once(p, q),
           NEW h \in Handles, ~Linked(p, q, h)
    PROVE  /\ Once(p, <<h>> \o q) /\ Once(p, Append(q, h))
           /\ \A g : Linked(p, <<h>> \o q, g) <=> Linked(p, q, g) \/ g = h
           /\ \A g : Linked(p, Append(q, h), g) <=> Linked(p, q, g) \/ g = h
BY PushQueue, AppendQueue DEF Once, Linked

LEMMA TakeParts ==
    ASSUME NEW p \in Seq(Handles), NEW q \in Seq(Handles), Once(p, q), p # <<>>
    PROVE  /\ Once(Tail(p), q) /\ Once(Tail(p), Append(q, Head(p)))
           /\ \A g : Linked(Tail(p), q, g) <=> Linked(p, q, g) /\ g # Head(p)
           /\ \A g : Linked(Tail(p), Append(q, Head(p)), g) <=> Linked(p, q, g)
<1>1. Head(p) \in Handles /\ Contains(p, Head(p)) /\ ~Contains(q, Head(p))
  BY TailQueue DEF Once
<1>2. /\ Tail(p) \in Seq(Handles) /\ Distinct(Tail(p)) /\ ~Contains(Tail(p), Head(p))
      /\ \A g : Contains(p, g) <=> Contains(Tail(p), g) \/ g = Head(p)
  BY TailQueue DEF Once
<1>3. Once(Tail(p), q) /\ ~Linked(Tail(p), q, Head(p))
  BY <1>1, <1>2 DEF Once, Linked
<1>4. /\ Once(Tail(p), Append(q, Head(p)))
      /\ \A g : Linked(Tail(p), Append(q, Head(p)), g) <=> Linked(Tail(p), q, g) \/ g = Head(p)
  BY <1>1, <1>2, <1>3, InsertParts
<1> QED BY <1>1, <1>2, <1>3, <1>4 DEF Linked

LEMMA MoveParts ==
    ASSUME NEW q PROVE /\ Once(<<>>, q) <=> Once(q, <<>>)
                       /\ \A h : Linked(<<>>, q, h) <=> Linked(q, <<>>, h)
BY EmptyQueue DEF Once, Linked

-----------------------------------------------------------------------------
(* What is active is open *)

LEMMA LivingStep ==
    ASSUME IInv, [Next]_vars PROVE Living' /\ type' = type
<1> SUFFICES Living' /\ type' = type
  OBVIOUS
<1>0. TypeOK /\ Living
  BY DEF IInv
<1>1. ASSUME NEW h \in Handles, HandleInit(h) \/ StartWatcher(h) \/ StartOther(h)
      PROVE  Living' /\ type' = type
  BY <1>0, <1>1 DEF HandleInit, StartWatcher, StartOther, HandleStart, Living, TypeOK
<1>2. ASSUME NEW h \in Handles, Stop(h) \/ Close(h) PROVE Living' /\ type' = type
  BY <1>0, <1>2 DEF Stop, Close, HandleStop, Living, TypeOK
<1>3. ASSUME UNCHANGED <<type, life, active, owed>> PROVE Living' /\ type' = type
  BY <1>0, <1>3 DEF Living
<1>4. ASSUME NEW h \in Handles, Ref(h) \/ Unref(h) \/ Feed(h) PROVE Living' /\ type' = type
  BY <1>3, <1>4 DEF Ref, Unref, Feed, handleVars
<1>5. ASSUME NEW q \in Reqs, Request(q) PROVE Living' /\ type' = type
  BY <1>3, <1>5 DEF Request, handleVars
<1>6. ASSUME NEW p, RunTimers(p), UNCHANGED <<type, life, ref, owed>>
      PROVE  Living' /\ type' = type
  <2>1. active' \subseteq active /\ \A h \in active \ active' : type[h] = "timer"
    BY <1>6, TimersCount DEF IInv
  <2> QED BY <1>0, <1>6, <2>1 DEF Living, Watched
<1>7. ASSUME NEW m \in Modes, Run(m) PROVE Living' /\ type' = type
  BY <1>3, <1>6, <1>7 DEF Run
<1>8. CASE EndClosing
  BY <1>6, <1>8 DEF EndClosing
<1>9. CASE BeginTurn
  BY <1>0, <1>9 DEF BeginTurn, handleVars, Living
<1>10. CASE CallWatcher
  BY <1>0, <1>10 DEF CallWatcher, handleVars, Living
<1>11. CASE CallClose
  <2>1. Head(local) \notin active
    BY <1>0, <1>11, HeadOfStack DEF CallClose, Waiting, Living
  <2> QED BY <1>0, <1>11, <2>1 DEF CallClose, Living, TypeOK
<1>12. CASE \/ StopLoop \/ EndFirstTimers \/ EndPending \/ EndIdle \/ EndPrepare
            \/ EndPoll \/ Drain \/ EndCheck \/ EndTimers \/ CallbackReturns \/ PollWakes
            \/ CallPending \/ CallPolled \/ CallRequest \/ CallTimer
  <2>1. UNCHANGED <<handleVars, owed>>
    BY <1>12 DEF StopLoop, EndFirstTimers, EndPending, EndIdle, EndPrepare, EndPoll,
                 Drain, EndCheck, EndTimers, CallbackReturns, PollWakes, CallPending,
                 CallPolled, CallRequest, CallTimer
  <2> QED BY <1>3, <2>1 DEF handleVars
<1>13. CASE UNCHANGED vars
  BY <1>3, <1>13 DEF vars, handleVars
<1> QED BY <1>1, <1>2, <1>4, <1>5, <1>7, <1>8, <1>9, <1>10, <1>11, <1>12, <1>13
        DEF Next, Running, Call

-----------------------------------------------------------------------------
(* What the program does, in a callback or outside uv_run *)

ProgramActs ==
    \/ \E h \in Handles :
        \/ HandleInit(h) \/ StartWatcher(h) \/ StartOther(h) \/ Stop(h)
        \/ Ref(h) \/ Unref(h) \/ Feed(h) \/ Close(h)
    \/ \E q \in Reqs : Request(q)
    \/ StopLoop

\* It takes at most one handle off the stack, one that is owed no call any more,
\* and takes off what it closes.
LEMMA ProgramFrame ==
    ASSUME IInv, ProgramActs
    PROVE  /\ Program /\ UNCHANGED <<phase, mode, r, canSleep, timeout, rounds, cb>>
           /\ owed' \subseteq owed
           /\ \/ local' = local
              \/ \E h \in Handles : local' = Unlink(local, h) /\ h \notin owed'
           /\ \A h \in Handles :
                life[h] = "open" /\ life'[h] # "open" => local' = Unlink(local, h)
<1> DEFINE Goal ==
        /\ Program /\ UNCHANGED <<phase, mode, r, canSleep, timeout, rounds, cb>>
        /\ owed' \subseteq owed
        /\ \/ local' = local
           \/ \E h \in Handles : local' = Unlink(local, h) /\ h \notin owed'
        /\ \A h \in Handles :
             life[h] = "open" /\ life'[h] # "open" => local' = Unlink(local, h)
<1> SUFFICES Goal
  OBVIOUS
<1>0. TypeOK /\ Living
  BY DEF IInv
<1>1. ASSUME NEW h \in Handles,
             HandleInit(h) \/ StartWatcher(h) \/ Ref(h) \/ Unref(h) \/ Feed(h)
      PROVE  Goal
  BY <1>0, <1>1 DEF HandleInit, StartWatcher, Ref, Unref, Feed, handleVars, runVars, TypeOK
<1>2. ASSUME NEW h \in Handles, StartOther(h) PROVE Goal
  <2>1. h \notin owed \/ type[h] \in Watched
    BY <1>0 DEF Living
  <2>2. Program /\ type[h] \in {"io", "timer"} /\ life' = life /\ owed' = owed
        /\ UNCHANGED <<phase, mode, r, canSleep, timeout, rounds, cb>>
        /\ (local' = local \/ local' = Unlink(local, h))
    BY <1>2 DEF StartOther, runVars
  <2> QED BY <2>1, <2>2 DEF Watched
<1>3. ASSUME NEW h \in Handles, Stop(h) PROVE Goal
  <2>1. Program /\ life' = life /\ owed' = owed \ {h}
        /\ UNCHANGED <<phase, mode, r, canSleep, timeout, rounds, cb>>
        /\ (local' = local \/ local' = Unlink(local, h))
    BY <1>3 DEF Stop, Out, runVars
  <2> QED BY <2>1
<1>4. ASSUME NEW h \in Handles, Close(h) PROVE Goal
  <2>1. Program /\ life' = [life EXCEPT ![h] = "closing"] /\ owed' = owed \ {h}
        /\ UNCHANGED <<phase, mode, r, canSleep, timeout, rounds, cb>>
        /\ local' = Unlink(local, h)
    BY <1>4 DEF Close, runVars
  <2> QED BY <1>0, <2>1 DEF TypeOK
<1>5. ASSUME NEW q \in Reqs, Request(q) PROVE Goal
  BY <1>5 DEF Request, handleVars, runVars
<1>6. CASE StopLoop
  BY <1>6 DEF StopLoop, handleVars, runVars
<1> QED BY <1>1, <1>2, <1>3, <1>4, <1>5, <1>6 DEF ProgramActs

\* Every step is the program's, the beginning of uv_run, or a step of uv_run.
LEMMA NextIsOneOf ==
    ASSUME [Next]_vars
    PROVE  \/ ProgramActs \/ (\E m \in Modes : Run(m)) \/ Running \/ PollWakes \/ UNCHANGED vars
BY DEF Next, ProgramActs

-----------------------------------------------------------------------------
(* The stack *)

LEMMA StackedStep ==
    ASSUME IInv, [Next]_vars PROVE Stacked'
<1> SUFFICES Stacked'
  OBVIOUS
<1>0. TypeOK /\ Stacked /\ Living
  BY DEF IInv
<1>1. CASE ProgramActs
  <2>1. /\ Program /\ UNCHANGED <<phase, timeout, cb>>
        /\ local' = local \/ \E h \in Handles : local' = Unlink(local, h)
        /\ \A h \in Handles : life[h] = "open" /\ life'[h] # "open" => local' = Unlink(local, h)
    BY <1>1, ProgramFrame
  <2>2. phase # "poll" => local' \in Seq(Handles)
    BY <1>0, <2>1, Sequences DEF Stacked
  <2>3. phase \in {"outside", "turn"} => local' = <<>> /\ ~cb'
    BY <1>0, <2>1, EmptyQueue DEF Stacked
  <2>4. ~(phase = "poll" /\ timeout # "woken")
    BY <1>0, <2>1 DEF Stacked, Program
  <2>5. ASSUME phase \in {"firstTimers", "timers"}
        PROVE  Distinct(local') /\ \A h \in Handles : Contains(local', h) => life'[h] = "open"
    <3>1. local \in Seq(Handles) /\ Distinct(local)
          /\ \A h \in Handles : Contains(local, h) => life[h] = "open"
      BY <1>0, <2>5 DEF Stacked
    <3>2. Distinct(local') /\ \A h \in Handles : Contains(local', h) => Contains(local, h)
      BY <2>1, <3>1, UnlinkDistinct
    <3> QED BY <2>1, <3>1, <3>2, UnlinkDistinct
  <2> QED BY <2>1, <2>2, <2>3, <2>4, <2>5 DEF Stacked
<1>2. ASSUME NEW p \in {"firstTimers", "timers"}, RunTimers(p), ref' = ref, cb' = cb, life' = life
      PROVE  Stacked'
  BY <1>0, <1>2, TimersCount DEF IInv, RunTimers, Stacked, Living
<1>3. ASSUME NEW m \in Modes, Run(m) PROVE Stacked'
  <2>1. CASE UNCHANGED local /\ phase' \in {"outside", "turn"}
    BY <1>0, <1>3, <2>1, Sequences DEF Run, Stacked
  <2> QED BY <1>2, <1>3, <2>1 DEF Run, Return
<1>4. CASE EndFirstTimers \/ EndTimers
  BY <1>0, <1>4, Sequences DEF EndFirstTimers, EndTimers, Return, Idle, Stacked
<1>5. ASSUME NEW q \in Watched \union {"pending"}, MoveQueue(q),
             phase' \in Watched \union {"pending", "drain"}
      PROVE  Stacked'
  <2>1. local' \in Seq(Handles)
    BY <1>0, <1>5 DEF MoveQueue, TypeOK
  <2> QED BY <1>5, <2>1 DEF Stacked, Watched
<1>6. CASE BeginTurn \/ EndPending \/ EndIdle \/ Drain
  <2>1. \E q \in Watched \union {"pending"} :
          MoveQueue(q) /\ phase' \in Watched \union {"pending", "drain"}
    BY <1>6 DEF BeginTurn, EndPending, EndIdle, Drain, Idle, Watched
  <2> QED BY <1>5, <2>1
<1>7. CASE EndPrepare \/ EndPoll
  <2>1. local' = <<>> /\ ~cb' /\ phase' \in {"poll", "drain"}
    BY <1>7 DEF EndPrepare, EndPoll, Idle
  <2> QED BY <2>1, Sequences DEF Stacked
<1>8. CASE PollWakes
  BY <1>8 DEF PollWakes, Stacked
<1>9. CASE EndCheck
  BY <1>0, <1>9 DEF EndCheck, TypeOK, Stacked
<1>10. CASE EndClosing
  BY <1>2, <1>10 DEF EndClosing
<1>11. CASE Call
  <2>1. local # <<>> /\ local' = Tail(local) /\ phase' = phase /\ timeout' = timeout
    BY <1>11
    DEF Call, CallPending, CallWatcher, CallPolled, CallRequest, CallClose, CallTimer, Waiting, runVars
  <2>2. phase # "closing" => life' = life
    BY <1>11
    DEF Call, CallPending, CallWatcher, CallPolled, CallRequest, CallClose, CallTimer, handleVars
  <2>3. phase # "poll" => local' \in Seq(Handles)
    BY <1>0, <2>1, Sequences DEF Stacked
  <2>4. ~(phase \in {"outside", "turn"}) /\ ~(phase = "poll" /\ timeout # "woken")
    BY <1>0, <2>1 DEF Stacked
  <2>5. ASSUME phase \in {"firstTimers", "timers"}
        PROVE  Distinct(local') /\ \A h \in Handles : Contains(local', h) => life'[h] = "open"
    BY <1>0, <2>1, <2>2, <2>5, TailQueue DEF Stacked
  <2> QED BY <2>1, <2>3, <2>4, <2>5 DEF Stacked
<1>12. CASE CallbackReturns
  BY <1>0, <1>12 DEF CallbackReturns, handleVars, runVars, Stacked
<1>13. CASE UNCHANGED vars
  BY <1>0, <1>13 DEF vars, handleVars, runVars, Stacked
<1> QED BY <1>1, <1>3, <1>4, <1>6, <1>7, <1>8, <1>9, <1>10, <1>11, <1>12, <1>13, NextIsOneOf
        DEF Running

-----------------------------------------------------------------------------
(* The watchers' queues *)

\* The part of a queue on the stack, when the loop or the program has changed the stack.
LEMMA PartChanges ==
    ASSUME IInv, NEW phases \in SUBSET (Watched \union {"pending", "drain", "closing"})
    PROVE  /\ Part(phases) \in Seq(Handles)
           /\ phase \notin phases => Part(phases) = <<>>
           /\ phase \in phases => Part(phases) = local
           /\ phase' \notin phases => Part(phases)' = <<>>
           /\ phase' \in phases => Part(phases)' = local'
           /\ phase' = phase /\ local' = local => Part(phases)' = Part(phases)
           /\ \A h : phase' = phase /\ local' = Unlink(local, h) =>
                Part(phases)' = Unlink(Part(phases), h)
<1>1. phase \in phases => local \in Seq(Handles)
  BY DEF IInv, Stacked, Watched
<1> QED BY <1>1, EmptyQueue DEF Part

LEMMA WatchingStep ==
    ASSUME IInv, [Next]_vars PROVE Watching'
<1>0. TypeOK /\ Living /\ Watching /\ type' = type
  BY LivingStep DEF IInv
<1> SUFFICES ASSUME NEW t \in Watched
             PROVE  /\ Once(Part({t})', queue'[t])
                    /\ \A h \in Handles : Linked(Part({t})', queue'[t], h) <=>
                                          h \in active' /\ type[h] = t
  BY <1>0 DEF Watching, Once, Linked
<1> DEFINE P == Part({t})
           Q == queue[t]
           Goal == /\ Once(P', Q')
                   /\ \A h \in Handles : Linked(P', Q', h) <=> h \in active' /\ type[h] = t
<1> SUFFICES Goal
  OBVIOUS
<1>1. /\ P \in Seq(Handles) /\ Q \in Seq(Handles) /\ Once(P, Q)
      /\ \A h \in Handles : Linked(P, Q, h) <=> h \in active /\ type[h] = t
  <2>1. {t} \in SUBSET (Watched \union {"pending", "drain", "closing"})
    OBVIOUS
  <2>2. P \in Seq(Handles)
    BY <2>1, PartChanges
  <2>3. Q \in Seq(Handles)
    BY <1>0 DEF TypeOK
  <2> QED BY <1>0, <2>2, <2>3 DEF Watching
<1>2. /\ phase # t => P = <<>>
      /\ phase = t => P = local
      /\ phase' # t => P' = <<>>
      /\ phase' = t => P' = local'
      /\ phase' = phase /\ local' = local => P' = P
      /\ \A h : phase' = phase /\ local' = Unlink(local, h) => P' = Unlink(P, h)
  BY PartChanges
<1> HIDE DEF P, Goal
<1> USE DEF Q
<1>3. ASSUME P' = P, Q' = Q, \A h \in Handles : type[h] = t => (h \in active' <=> h \in active)
      PROVE  Goal
  BY <1>1, <1>3 DEF Goal
<1>4. ASSUME NEW h \in Handles,
             HandleInit(h) \/ Ref(h) \/ Unref(h) \/ Feed(h) PROVE Goal
  <2>1. P' = P /\ Q' = Q /\ active' = active
    BY <1>0, <1>2, <1>4 DEF HandleInit, Ref, Unref, Feed, handleVars, runVars, TypeOK, Watched
  <2> QED BY <1>3, <2>1
<1>5. ASSUME NEW h \in Handles, StartWatcher(h) PROVE Goal
  <2>1. P' = P /\ h \notin active /\ active' = active \union {h}
        /\ queue' = [queue EXCEPT ![type[h]] = <<h>> \o @]
    BY <1>2, <1>5 DEF StartWatcher, HandleStart
  <2>2. CASE type[h] = t
    <3>1. Q' = <<h>> \o Q
      BY <1>0, <2>1, <2>2 DEF TypeOK
    <3>2. ~Linked(P, Q, h)
      BY <1>1, <2>1
    <3>3. Once(P, <<h>> \o Q) /\ \A g : Linked(P, <<h>> \o Q, g) <=> Linked(P, Q, g) \/ g = h
      BY <1>1, <3>2, InsertParts
    <3> QED BY <1>1, <2>1, <2>2, <3>1, <3>3 DEF Goal
  <2>3. CASE type[h] # t
    <3>1. Q' = Q
      BY <1>0, <2>1, <2>3 DEF TypeOK
    <3> QED BY <1>3, <2>1, <2>3, <3>1
  <2> QED BY <2>2, <2>3
<1>6. ASSUME NEW h \in Handles, StartOther(h) PROVE Goal
  <2>1. type[h] # t /\ Q' = Q /\ active' = active \union {h} /\ (P' = P \/ P' = Unlink(P, h))
    BY <1>2, <1>6 DEF StartOther, HandleStart, Watched
  <2>2. CASE P' = P
    BY <1>3, <2>1, <2>2
  <2>3. CASE P' = Unlink(P, h)
    <3>1. Once(P', Q) /\ \A g \in Handles : Linked(P', Q, g) <=> Linked(P, Q, g)
      BY <1>1, <2>1, <2>3, UnlinkParts
    <3> QED BY <1>1, <2>1, <3>1 DEF Goal
  <2> QED BY <2>1, <2>2, <2>3
<1>7. ASSUME NEW h \in Handles, active' = active \ {h},
             P' = Unlink(P, h), Q' = Unlink(Q, h)
      PROVE  Goal
  BY <1>1, <1>7, UnlinkParts DEF Goal
<1>8. ASSUME NEW h \in Handles, active' = active \ {h}, type[h] # t,
             P' \in {P, Unlink(P, h)}, Q' = Q
      PROVE  Goal
  <2>1. Once(P', Q) /\ \A g \in Handles : Linked(P', Q, g) <=> Linked(P, Q, g)
    BY <1>1, <1>8, UnlinkParts
  <2> QED BY <1>1, <1>8, <2>1 DEF Goal
<1>9. ASSUME NEW h \in Handles, Stop(h) PROVE Goal
  <2>1. active' = active \ {h} /\ Out(h) /\ phase' = phase
    BY <1>9 DEF Stop, HandleStop
  <2>2. CASE type[h] = t
    <3>1. P' = Unlink(P, h) /\ Q' = Unlink(Q, h)
      BY <1>0, <1>2, <2>1, <2>2 DEF Out, TypeOK, Watched
    <3> QED BY <1>7, <2>1, <3>1
  <2>3. CASE type[h] # t
    <3>1. P' \in {P, Unlink(P, h)} /\ Q' = Q
      BY <1>0, <1>2, <2>1, <2>3 DEF Out, TypeOK
    <3> QED BY <1>8, <2>1, <2>3, <3>1
  <2> QED BY <2>2, <2>3
<1>10. ASSUME NEW h \in Handles, Close(h) PROVE Goal
  <2>1. active' = active \ {h} /\ P' = Unlink(P, h)
    BY <1>2, <1>10 DEF Close, HandleStop
  <2>2. Q' = Unlink(Q, h)
    BY <1>0, <1>10 DEF Close, TypeOK
  <2> QED BY <1>7, <2>1, <2>2
<1>11. ASSUME P' = P, UNCHANGED <<active, queue>> PROVE Goal
  BY <1>3, <1>11
<1>12. ASSUME NEW q \in Reqs, Request(q) PROVE Goal
  BY <1>2, <1>11, <1>12 DEF Request, handleVars
<1>13. CASE StopLoop \/ CallbackReturns \/ UNCHANGED vars
  BY <1>2, <1>11, <1>13 DEF StopLoop, CallbackReturns, handleVars, vars
<1>14. ASSUME NEW p, RunTimers(p), ref' = ref, P' = P, queue' = queue PROVE Goal
  <2>1. active' \subseteq active /\ \A h \in active \ active' : type[h] = "timer"
    BY <1>14, TimersCount DEF IInv
  <2> QED BY <1>3, <1>14, <2>1 DEF Watched
<1>15. ASSUME NEW m \in Modes, Run(m) PROVE Goal
  <2>1. P' = P
    BY <1>2, <1>15 DEF Run, Return, RunTimers, Watched
  <2> QED BY <1>11, <1>14, <1>15, <2>1 DEF Run
<1>16. CASE EndClosing
  <2>1. P' = P
    BY <1>2, <1>16 DEF EndClosing, Idle, RunTimers, Watched
  <2> QED BY <1>14, <1>16, <2>1 DEF EndClosing
<1>17. ASSUME phase \in {"pending", "idle", "drain"}, local = <<>>, active' = active,
              phase' \in Watched, MoveQueue(phase')
       PROVE  Goal
  <2>1. P = <<>> /\ Once(<<>>, Q)
    BY <1>1, <1>2, <1>17
  <2>2. queue' = [queue EXCEPT ![phase'] = <<>>] /\ local' = queue[phase']
    BY <1>17 DEF MoveQueue
  <2>3. CASE phase' = t
    <3>1. P' = Q /\ Q' = <<>>
      BY <1>0, <1>2, <2>2, <2>3 DEF TypeOK
    <3> QED BY <1>1, <1>17, <2>1, <3>1, MoveParts DEF Goal
  <2>4. CASE phase' # t
    <3>1. P' = P /\ Q' = Q
      BY <1>0, <1>2, <2>1, <2>2, <2>4 DEF TypeOK
    <3> QED BY <1>3, <1>17, <3>1
  <2> QED BY <2>3, <2>4
<1>18. ASSUME phase \notin Watched, phase' \notin Watched, active' = active, MoveQueue("pending")
       PROVE  Goal
  <2>1. P' = P
    BY <1>2, <1>18
  <2>2. Q' = Q
    BY <1>0, <1>18 DEF MoveQueue, TypeOK, Watched
  <2> QED BY <1>3, <1>18, <2>1, <2>2
<1>19. CASE BeginTurn
  BY <1>18, <1>19 DEF BeginTurn, handleVars, Watched
<1>20. CASE EndPending
  BY <1>17, <1>20 DEF EndPending, Idle, handleVars, Watched
<1>21. CASE EndIdle
  BY <1>17, <1>21 DEF EndIdle, Idle, handleVars, Watched
<1>22. CASE Drain
  <2>1. \/ MoveQueue("pending") /\ phase' = phase
        \/ MoveQueue("check") /\ phase' = "check"
    BY <1>22 DEF Drain
  <2>2. phase = "drain" /\ local = <<>> /\ active' = active
    BY <1>22 DEF Drain, Idle, handleVars
  <2> QED BY <1>17, <1>18, <2>1, <2>2 DEF Watched
<1>23. CASE EndFirstTimers \/ EndPrepare \/ EndPoll \/ EndCheck \/ EndTimers
  <2>1. local = <<>> /\ phase' \notin Watched /\ UNCHANGED <<active, queue>>
    BY <1>23 DEF EndFirstTimers, EndPrepare, EndPoll, EndCheck, EndTimers, Idle, Return,
                 handleVars, Watched
  <2> QED BY <1>2, <1>11, <2>1
<1>24. CASE PollWakes
  <2>1. P' = P
    BY <1>2, <1>24 DEF PollWakes, Watched
  <2> QED BY <1>11, <1>24, <2>1 DEF PollWakes, handleVars
<1>25. CASE CallPending \/ CallPolled \/ CallRequest \/ CallClose \/ CallTimer
  <2>1. phase \notin Watched /\ phase' = phase /\ UNCHANGED <<active, queue>>
    BY <1>25 DEF CallPending, CallPolled, CallRequest, CallClose, CallTimer, handleVars, Watched
  <2> QED BY <1>2, <1>11, <2>1
<1>26. CASE CallWatcher
  <2>1. local # <<>> /\ phase' = phase /\ local' = Tail(local) /\ active' = active
        /\ queue' = [queue EXCEPT ![phase] = Append(@, Head(local))]
    BY <1>26 DEF CallWatcher, Waiting, handleVars
  <2>2. CASE phase = t
    <3>1. P # <<>> /\ P' = Tail(P) /\ Q' = Append(Q, Head(P))
      BY <1>0, <1>2, <2>1, <2>2 DEF TypeOK
    <3> QED BY <1>1, <2>1, <3>1, TakeParts DEF Goal
  <2>3. CASE phase # t
    <3>1. P' = P /\ Q' = Q
      BY <1>0, <1>2, <2>1, <2>3 DEF TypeOK
    <3> QED BY <1>3, <2>1, <3>1
  <2> QED BY <2>2, <2>3
<1> QED BY <1>4, <1>5, <1>6, <1>9, <1>10, <1>12, <1>13, <1>15, <1>16, <1>19, <1>20, <1>21, <1>22,
           <1>23, <1>24, <1>25, <1>26
        DEF Next, Running, Call

-----------------------------------------------------------------------------
(* The list of closing handles *)

LEMMA ClosingStep ==
    ASSUME IInv, [Next]_vars PROVE Closing'
<1> DEFINE P == Part({"closing"})
           Q == closingHandles
           Goal == /\ Once(P', Q')
                   /\ \A h \in Handles : Linked(P', Q', h) <=> life'[h] = "closing"
<1> SUFFICES Goal
  BY DEF Closing, Once, Linked
<1>0. TypeOK /\ Stacked /\ Closing
  BY DEF IInv
<1>1. /\ P \in Seq(Handles) /\ Q \in Seq(Handles) /\ Once(P, Q)
      /\ \A h \in Handles : Linked(P, Q, h) <=> life[h] = "closing"
  <2>1. P \in Seq(Handles)
    BY PartChanges
  <2> QED BY <1>0, <2>1 DEF TypeOK, Closing
<1>2. /\ phase # "closing" => P = <<>>
      /\ phase = "closing" => P = local
      /\ phase' # "closing" => P' = <<>>
      /\ phase' = "closing" => P' = local'
      /\ phase' = phase /\ local' = local => P' = P
      /\ \A h : phase' = phase /\ local' = Unlink(local, h) => P' = Unlink(P, h)
  BY PartChanges
<1> HIDE DEF P, Goal
<1> USE DEF Q
<1>3. ASSUME P' = P, Q' = Q, \A h \in Handles : life'[h] = "closing" <=> life[h] = "closing"
      PROVE  Goal
  BY <1>1, <1>3 DEF Goal
<1>4. ASSUME NEW h \in Handles,
             HandleInit(h) \/ StartWatcher(h) \/ Ref(h) \/ Unref(h) \/ Feed(h) PROVE Goal
  <2>1. P' = P /\ Q' = Q /\ (life' = life \/ (life[h] = "closed" /\ life' = [life EXCEPT ![h] = "open"]))
    BY <1>2, <1>4 DEF HandleInit, StartWatcher, Ref, Unref, Feed, handleVars, runVars
  <2> QED BY <1>0, <1>3, <2>1 DEF TypeOK
<1>5. ASSUME NEW h \in Handles, StartOther(h) \/ Stop(h) PROVE Goal
  <2>1. life' = life /\ life[h] = "open" /\ P' \in {P, Unlink(P, h)} /\ Q' = Q
    BY <1>2, <1>5 DEF StartOther, Stop, Out
  <2>2. Once(P', Q) /\ \A g \in Handles : Linked(P', Q, g) <=> Linked(P, Q, g)
    BY <1>1, <2>1, UnlinkParts
  <2> QED BY <1>1, <2>1, <2>2 DEF Goal
<1>6. ASSUME NEW h \in Handles, Close(h) PROVE Goal
  <2>1. /\ life[h] = "open" /\ life' = [life EXCEPT ![h] = "closing"]
        /\ Q' = <<h>> \o Q /\ P' = Unlink(P, h)
    BY <1>2, <1>6 DEF Close
  <2>2. Once(P', Q) /\ \A g \in Handles : Linked(P', Q, g) <=> Linked(P, Q, g)
    BY <1>1, <2>1, UnlinkParts
  <2>3. P' \in Seq(Handles) /\ ~Linked(P', Q, h)
    BY <1>1, <2>1, <2>2, Sequences
  <2>4. Once(P', Q') /\ \A g : Linked(P', Q', g) <=> Linked(P', Q, g) \/ g = h
    BY <1>1, <2>1, <2>2, <2>3, InsertParts
  <2>5. \A g \in Handles : life'[g] = "closing" <=> life[g] = "closing" \/ g = h
    BY <1>0, <2>1 DEF TypeOK
  <2> QED BY <1>1, <2>2, <2>4, <2>5 DEF Goal
<1>7. ASSUME P' = P, UNCHANGED <<life, closingHandles>> PROVE Goal
  BY <1>3, <1>7
<1>8. ASSUME NEW q \in Reqs, Request(q) PROVE Goal
  BY <1>2, <1>7, <1>8 DEF Request, handleVars
<1>9. CASE StopLoop \/ CallbackReturns \/ UNCHANGED vars
  BY <1>2, <1>7, <1>9 DEF StopLoop, CallbackReturns, handleVars, vars
<1>10. ASSUME NEW m \in Modes, Run(m) PROVE Goal
  <2>1. P' = P
    BY <1>2, <1>10 DEF Run, Return, RunTimers
  <2> QED BY <1>7, <1>10, <2>1 DEF Run
<1>11. CASE EndFirstTimers \/ EndPrepare \/ EndPoll \/ EndTimers
  <2>1. local = <<>> /\ phase' # "closing" /\ UNCHANGED <<life, closingHandles>>
    BY <1>11 DEF EndFirstTimers, EndPrepare, EndPoll, EndTimers, Idle, Return, handleVars
  <2> QED BY <1>2, <1>7, <2>1
<1>12. CASE BeginTurn \/ EndPending \/ EndIdle \/ Drain
  <2>1. phase # "closing" /\ phase' # "closing" /\ UNCHANGED <<life, closingHandles>>
    BY <1>12 DEF BeginTurn, EndPending, EndIdle, Drain, Idle, handleVars
  <2> QED BY <1>2, <1>7, <2>1
<1>13. CASE PollWakes
  BY <1>2, <1>7, <1>13 DEF PollWakes, handleVars
<1>14. CASE EndCheck
  <2>1. P = <<>> /\ P' = Q /\ Q' = <<>> /\ life' = life
    BY <1>2, <1>14 DEF EndCheck, Idle, handleVars
  <2> QED BY <1>1, <2>1, MoveParts DEF Goal
<1>15. CASE EndClosing
  <2>1. P = <<>> /\ P' = <<>> /\ UNCHANGED <<life, closingHandles>>
    BY <1>2, <1>15 DEF EndClosing, Idle, RunTimers
  <2> QED BY <1>7, <2>1
<1>16. CASE CallPending \/ CallWatcher \/ CallPolled \/ CallRequest \/ CallTimer
  <2>1. phase # "closing" /\ phase' = phase /\ UNCHANGED <<life, closingHandles>>
    BY <1>16 DEF CallPending, CallWatcher, CallPolled, CallRequest, CallTimer, handleVars, Watched
  <2> QED BY <1>2, <1>7, <2>1
<1>17. CASE CallClose
  <2>1. /\ P # <<>> /\ P' = Tail(P) /\ Q' = Q
        /\ life' = [life EXCEPT ![Head(P)] = "closed"]
    BY <1>2, <1>17 DEF CallClose, Waiting
  <2>2. Head(P) \in Handles
    BY <1>1, <2>1, Sequences
  <2>3. Once(P', Q) /\ \A g : Linked(P', Q, g) <=> Linked(P, Q, g) /\ g # Head(P)
    BY <1>1, <2>1, TakeParts
  <2>4. \A g \in Handles : life'[g] = "closing" <=> life[g] = "closing" /\ g # Head(P)
    BY <1>0, <2>1, <2>2 DEF TypeOK
  <2> QED BY <1>1, <2>1, <2>3, <2>4 DEF Goal
<1> QED BY <1>4, <1>5, <1>6, <1>8, <1>9, <1>10, <1>11, <1>12, <1>13, <1>14, <1>15, <1>16, <1>17
        DEF Next, Running, Call

-----------------------------------------------------------------------------
(* The pending queue *)

LEMMA PendingStep ==
    ASSUME IInv, [Next]_vars PROVE Pending'
<1> DEFINE phases == {"pending", "drain"}
           P == Part(phases)
           Q == queue["pending"]
           Goal == /\ Once(P', Q')
                   /\ \A h \in Handles : Linked(P', Q', h) => life'[h] = "open"
<1> SUFFICES Goal
  BY DEF Pending, Once, Linked
<1>0. TypeOK /\ Stacked /\ Pending
  BY DEF IInv
<1>1. /\ P \in Seq(Handles) /\ Q \in Seq(Handles) /\ Once(P, Q)
      /\ \A h \in Handles : Linked(P, Q, h) => life[h] = "open"
  <2>1. P \in Seq(Handles)
    BY PartChanges
  <2>2. Q \in Seq(Handles)
    BY <1>0 DEF TypeOK
  <2> QED BY <1>0, <2>1, <2>2 DEF Pending
<1>2. /\ phase \notin phases => P = <<>>
      /\ phase \in phases => P = local
      /\ phase' \notin phases => P' = <<>>
      /\ phase' \in phases => P' = local'
      /\ phase' = phase /\ local' = local => P' = P
      /\ \A h : phase' = phase /\ local' = Unlink(local, h) => P' = Unlink(P, h)
  BY PartChanges
<1> HIDE DEF P, Goal
<1> USE DEF Q
<1>3. ASSUME P' = P, Q' = Q, \A h \in Handles : life[h] = "open" => life'[h] = "open"
      PROVE  Goal
  BY <1>1, <1>3 DEF Goal
<1>4. ASSUME NEW h \in Handles, HandleInit(h) \/ Ref(h) \/ Unref(h) PROVE Goal
  <2>1. P' = P /\ Q' = Q /\ (life' = life \/ life' = [life EXCEPT ![h] = "open"])
    BY <1>2, <1>4 DEF HandleInit, Ref, Unref, runVars
  <2> QED BY <1>0, <1>3, <2>1 DEF TypeOK
<1>5. ASSUME NEW h \in Handles, StartWatcher(h) PROVE Goal
  <2>1. P' = P /\ Q' = Q /\ life' = life
    BY <1>0, <1>2, <1>5 DEF StartWatcher, TypeOK, Watched
  <2> QED BY <1>3, <2>1
<1>6. ASSUME NEW h \in Handles, StartOther(h) \/ Stop(h) PROVE Goal
  <2>1. life' = life /\ P' \in {P, Unlink(P, h)}
    BY <1>2, <1>6 DEF StartOther, Stop, Out
  <2>2. Q' = Q
    BY <1>0, <1>6 DEF StartOther, Stop, Out, TypeOK, Watched
  <2>3. Once(P', Q) /\ \A g \in Handles : Linked(P', Q, g) => Linked(P, Q, g)
    BY <1>1, <2>1, UnlinkParts
  <2> QED BY <1>1, <2>1, <2>2, <2>3 DEF Goal
<1>7. ASSUME NEW h \in Handles, Feed(h) PROVE Goal
  <2>1. P' = P /\ Q' = Append(Q, h) /\ life' = life /\ life[h] = "open"
    BY <1>0, <1>2, <1>7 DEF Feed, handleVars, TypeOK
  <2>2. ~Contains(Q, h) /\ ~Contains(P, h)
    BY <1>2, <1>7, EmptyQueue DEF Feed
  <2>3. ~Linked(P, Q, h)
    BY <2>2 DEF Linked
  <2>4. /\ Once(P, Append(Q, h))
        /\ \A g : Linked(P, Append(Q, h), g) <=> Linked(P, Q, g) \/ g = h
    BY <1>1, <2>3, InsertParts
  <2> QED BY <1>1, <2>1, <2>4 DEF Goal
<1>8. ASSUME NEW h \in Handles, Close(h) PROVE Goal
  <2>1. P' = Unlink(P, h) /\ life' = [life EXCEPT ![h] = "closing"]
    BY <1>2, <1>8 DEF Close
  <2>2. Q' = Unlink(Q, h)
    BY <1>0, <1>8 DEF Close, TypeOK
  <2>3. Once(P', Q') /\ \A g : Linked(P', Q', g) <=> Linked(P, Q, g) /\ g # h
    BY <1>1, <2>1, <2>2, UnlinkParts
  <2> QED BY <1>0, <1>1, <2>1, <2>3 DEF Goal, TypeOK
<1>9. ASSUME P' = P, UNCHANGED <<life, queue>> PROVE Goal
  BY <1>3, <1>9
<1>10. ASSUME NEW q \in Reqs, Request(q) PROVE Goal
  BY <1>2, <1>9, <1>10 DEF Request, handleVars
<1>11. CASE StopLoop \/ CallbackReturns \/ UNCHANGED vars
  BY <1>2, <1>9, <1>11 DEF StopLoop, CallbackReturns, handleVars, vars
<1>12. ASSUME NEW m \in Modes, Run(m) PROVE Goal
  <2>1. P' = P
    BY <1>2, <1>12 DEF Run, Return, RunTimers
  <2> QED BY <1>9, <1>12, <2>1 DEF Run
<1>13. CASE EndFirstTimers \/ EndPrepare \/ EndPoll \/ EndCheck \/ EndTimers
  <2>1. local = <<>> /\ UNCHANGED <<life, queue>>
    BY <1>13 DEF EndFirstTimers, EndPrepare, EndPoll, EndCheck, EndTimers, Idle, handleVars
  <2>2. phase \notin phases \/ local = <<>>
    BY <2>1
  <2>3. phase' \notin phases \/ local' = <<>>
    BY <1>13, <2>1 DEF EndFirstTimers, EndPrepare, EndPoll, EndCheck, EndTimers, Return
  <2> QED BY <1>2, <1>9, <2>1, <2>2, <2>3
<1>14. ASSUME P = <<>>, life' = life, MoveQueue("pending"), phase' \in phases PROVE Goal
  <2>1. P' = Q /\ Q' = <<>>
    BY <1>0, <1>2, <1>14 DEF MoveQueue, TypeOK
  <2> QED BY <1>1, <1>14, <2>1, MoveParts DEF Goal
<1>15. ASSUME NEW t \in Watched, P = <<>>, life' = life, MoveQueue(t), phase' = t PROVE Goal
  <2>1. P' = <<>> /\ Q' = Q
    BY <1>0, <1>2, <1>15 DEF MoveQueue, TypeOK, Watched
  <2> QED BY <1>3, <1>15, <2>1
<1>16. CASE BeginTurn
  <2>1. P = <<>>
    BY <1>2, <1>16 DEF BeginTurn
  <2> QED BY <1>14, <1>16, <2>1 DEF BeginTurn, handleVars
<1>17. CASE EndPending \/ EndIdle
  <2>1. P = <<>> /\ life' = life
    BY <1>2, <1>17 DEF EndPending, EndIdle, Idle, handleVars
  <2>2. \E t \in Watched : MoveQueue(t) /\ phase' = t
    BY <1>17 DEF EndPending, EndIdle, Watched
  <2> QED BY <1>15, <2>1, <2>2
<1>18. CASE Drain
  <2>1. P = <<>> /\ life' = life
    BY <1>2, <1>18 DEF Drain, Idle, handleVars
  <2>2. \/ MoveQueue("pending") /\ phase' \in phases
        \/ MoveQueue("check") /\ phase' = "check"
    BY <1>18 DEF Drain, Idle
  <2> QED BY <1>14, <1>15, <2>1, <2>2 DEF Watched
<1>19. CASE PollWakes
  <2>1. P' = P
    BY <1>2, <1>19 DEF PollWakes
  <2> QED BY <1>9, <1>19, <2>1 DEF PollWakes, handleVars
<1>20. CASE EndClosing
  <2>1. P' = P
    BY <1>2, <1>20 DEF EndClosing, Idle, RunTimers
  <2> QED BY <1>9, <1>20, <2>1 DEF EndClosing
<1>21. CASE CallPending
  <2>1. P # <<>> /\ P' = Tail(P) /\ Q' = Q /\ life' = life
    BY <1>2, <1>21 DEF CallPending, Waiting, handleVars
  <2>2. Once(P', Q) /\ \A g : Linked(P', Q, g) <=> Linked(P, Q, g) /\ g # Head(P)
    BY <1>1, <2>1, TakeParts
  <2> QED BY <1>1, <2>1, <2>2 DEF Goal
<1>22. CASE CallWatcher
  <2>1. P' = P /\ life' = life
    BY <1>2, <1>22 DEF CallWatcher, handleVars, Watched
  <2>2. Q' = Q
    BY <1>0, <1>22 DEF CallWatcher, TypeOK, Watched
  <2> QED BY <1>3, <2>1, <2>2
<1>23. CASE CallPolled \/ CallRequest \/ CallTimer
  <2>1. P' = P /\ UNCHANGED <<life, queue>>
    BY <1>2, <1>23 DEF CallPolled, CallRequest, CallTimer, handleVars
  <2> QED BY <1>9, <2>1
<1>24. CASE CallClose
  <2>1. P = <<>> /\ P' = <<>> /\ queue' = queue /\ life' = [life EXCEPT ![Head(local)] = "closed"]
    BY <1>2, <1>24 DEF CallClose
  <2>2. life[Head(local)] # "open"
    BY <1>24, HeadOfStack DEF CallClose, Waiting
  <2> QED BY <1>0, <1>3, <2>1, <2>2 DEF TypeOK
<1> QED BY <1>4, <1>5, <1>6, <1>7, <1>8, <1>10, <1>11, <1>12, <1>13, <1>16, <1>17, <1>18, <1>19,
           <1>20, <1>21, <1>22, <1>23, <1>24
        DEF Next, Running, Call

-----------------------------------------------------------------------------
(* The calls that a turn owes *)

LEMMA OwingStep ==
    ASSUME IInv, [Next]_vars PROVE Owing'
<1> SUFFICES Owing'
  OBVIOUS
<1>0. TypeOK /\ Living /\ Stacked /\ Owing /\ type' = type
  BY LivingStep DEF IInv
<1>1. ASSUME NEW t \in Watched, phase # t, NEW h \in owed, type[h] = t
      PROVE  Contains(queue[t], h)
  <2>1. h \in Handles /\ h \in active
    BY <1>0 DEF TypeOK, Living
  <2>2. Part({t}) = <<>> /\ Linked(Part({t}), queue[t], h)
    BY <1>1, <2>1 DEF IInv, Watching, Part
  <2> QED BY <2>2, EmptyQueue DEF Linked
<1>2. CASE ProgramActs
  <2>1. /\ phase' = phase /\ owed' \subseteq owed
        /\ \/ local' = local
           \/ \E h \in Handles : local' = Unlink(local, h) /\ h \notin owed'
    BY <1>2, ProgramFrame
  <2>2. ASSUME NEW g \in owed', Contains(local, g) PROVE Contains(local', g)
    BY <1>0, <2>1, <2>2, UnlinkQueue DEF TypeOK
  <2> QED BY <1>0, <2>1, <2>2 DEF Owing
<1>3. ASSUME NEW m \in Modes, Run(m) PROVE Owing'
  <2>1. owed' = {} /\ phase' \in {"outside", "firstTimers", "turn"}
    BY <1>0, <1>3 DEF Run, Return, RunTimers, Owing
  <2> QED BY <2>1 DEF Owing, Watched
<1>4. CASE EndFirstTimers \/ EndClosing \/ EndTimers
  <2>1. owed' = {} /\ phase' \in {"outside", "timers", "turn"}
    BY <1>0, <1>4 DEF EndFirstTimers, EndClosing, EndTimers, Idle, Return, RunTimers, Owing
  <2> QED BY <2>1 DEF Owing, Watched
<1>5. CASE BeginTurn
  BY <1>5 DEF BeginTurn, Owing, Watched
<1>6. CASE EndPending
  <2>1. /\ phase = "pending" /\ phase' = "idle" /\ owed' = owed
        /\ local' = queue["idle"]
    BY <1>6 DEF EndPending, Idle, MoveQueue
  <2>2. \A h \in owed : type[h] = "idle" => Contains(local', h)
    BY <1>1, <2>1 DEF Watched
  <2> QED BY <1>0, <2>1, <2>2 DEF Owing
<1>7. CASE EndIdle
  <2>1. /\ phase = "idle" /\ phase' = "prepare" /\ owed' = owed
        /\ local = <<>> /\ local' = queue["prepare"]
    BY <1>7 DEF EndIdle, Idle, MoveQueue
  <2>2. \A h \in owed : type[h] = "prepare" => Contains(local', h)
    BY <1>1, <2>1 DEF Watched
  <2>3. \A h \in owed : type[h] # "idle"
    BY <1>0, <2>1, EmptyQueue DEF Owing, Watched
  <2> QED BY <1>0, <2>1, <2>2, <2>3 DEF Owing
<1>8. CASE EndPrepare
  <2>1. phase = "prepare" /\ phase' = "poll" /\ owed' = owed /\ local = <<>>
    BY <1>8 DEF EndPrepare, Idle
  <2>2. \A h \in owed : type[h] = "check"
    BY <1>0, <2>1, EmptyQueue DEF Owing, Living, Watched
  <2> QED BY <1>0, <2>1, <2>2 DEF Owing, Watched
<1>9. CASE EndPoll
  BY <1>0, <1>9 DEF EndPoll, Idle, Owing, Watched
<1>10. CASE PollWakes
  BY <1>0, <1>10 DEF PollWakes, Owing, Watched
<1>11. CASE Drain
  <2>1. /\ phase = "drain" /\ owed' = owed
        /\ \/ phase' = "drain"
           \/ phase' = "check" /\ local' = queue["check"]
    BY <1>11 DEF Drain, Idle, MoveQueue
  <2>2. \A h \in owed : type[h] = "check" /\ Contains(queue["check"], h)
    BY <1>0, <1>1, <2>1 DEF Owing, Watched
  <2> QED BY <1>0, <2>1, <2>2 DEF Owing, Watched
<1>12. CASE EndCheck
  <2>1. phase = "check" /\ phase' = "closing" /\ owed' = owed /\ local = <<>>
    BY <1>12 DEF EndCheck, Idle
  <2>2. owed = {}
    BY <1>0, <2>1, EmptyQueue DEF Owing, Watched
  <2> QED BY <2>1, <2>2 DEF Owing, Watched
<1>13. CASE CallWatcher
  <2>1. /\ phase \in Watched /\ phase' = phase /\ owed' = owed \ {Head(local)}
        /\ local # <<>> /\ local' = Tail(local)
    BY <1>13 DEF CallWatcher, Waiting
  <2>2. \A h \in owed' : Contains(local, h) => Contains(local', h)
    BY <1>0, <2>1, TailQueue DEF TypeOK
  <2> QED BY <1>0, <2>1, <2>2 DEF Owing, Watched
<1>14. CASE CallPending \/ CallPolled \/ CallRequest \/ CallClose \/ CallTimer
  <2>1. phase \notin Watched /\ phase' = phase /\ owed' = owed
    BY <1>14 DEF CallPending, CallPolled, CallRequest, CallClose, CallTimer, Watched
  <2> QED BY <1>0, <2>1 DEF Owing, Watched
<1>15. CASE CallbackReturns \/ UNCHANGED vars
  BY <1>0, <1>15 DEF CallbackReturns, vars, Owing
<1> QED BY <1>2, <1>3, <1>4, <1>5, <1>6, <1>7, <1>8, <1>9, <1>10, <1>11, <1>12, <1>13, <1>14, <1>15,
           NextIsOneOf
        DEF Running, Call

-----------------------------------------------------------------------------
(* What uv_run remembers, and why it sleeps *)

LEMMA RemembersStep ==
    ASSUME IInv, [Next]_vars PROVE Remembers'
<1> SUFFICES ASSUME phase' = "firstTimers" PROVE r' /\ mode' = "DEFAULT"
  BY DEF Remembers
<1>0. Remembers
  BY DEF IInv
<1>1. CASE ProgramActs
  BY <1>0, <1>1, ProgramFrame DEF Remembers
<1>2. ASSUME NEW m \in Modes, Run(m) PROVE r' /\ mode' = "DEFAULT"
  BY <1>2 DEF Run, Return
<1>3. CASE \/ BeginTurn \/ EndPending \/ EndIdle \/ EndPrepare \/ EndPoll \/ EndCheck \/ EndClosing
           \/ Drain \/ EndFirstTimers \/ EndTimers
  BY <1>3 DEF BeginTurn, EndPending, EndIdle, EndPrepare, EndPoll, EndCheck, EndClosing, Drain,
              EndFirstTimers, EndTimers, RunTimers, Return, Idle
<1>4. CASE Call \/ CallbackReturns \/ PollWakes \/ UNCHANGED vars
  <2>1. UNCHANGED <<phase, r, mode>>
    BY <1>4 DEF Call, CallPending, CallWatcher, CallPolled, CallRequest, CallClose, CallTimer,
                CallbackReturns, PollWakes, vars, runVars
  <2> QED BY <1>0, <2>1 DEF Remembers
<1> QED BY <1>1, <1>2, <1>3, <1>4, NextIsOneOf DEF Running

\* What LoopAlive looks at.
LEMMA Emptiness ==
    ASSUME IInv
    PROVE  /\ activeHandles > 0 <=> active \intersect ref # {}
           /\ phase # "closing" /\ closingHandles = <<>> =>
                \A h \in Handles : life[h] # "closing"
           /\ phase # "idle" /\ queue["idle"] = <<>> =>
                \A h \in active : type[h] # "idle"
<1>0. TypeOK /\ CountIsRight
  BY DEF IInv
<1>1. activeHandles > 0 <=> active \intersect ref # {}
  <2>1. active \intersect ref \in SUBSET Handles
    BY <1>0 DEF TypeOK
  <2>2. IsFiniteSet(active \intersect ref) /\ Cardinality(active \intersect ref) \in Nat
    BY <1>0, <2>1, Counting
  <2>3. Cardinality(active \intersect ref) = 0 <=> active \intersect ref = {}
    BY <2>2, FS_EmptySet
  <2>4. activeHandles = Cardinality(active \intersect ref)
    BY <1>0 DEF CountIsRight
  <2>5. activeHandles > 0 <=> Cardinality(active \intersect ref) # 0
    BY <2>2, <2>4
  <2> QED BY <2>3, <2>5
<1>2. phase # "closing" /\ closingHandles = <<>> => \A h \in Handles : life[h] # "closing"
  BY EmptyQueue DEF IInv, Closing, Linked, Part
<1>3. ASSUME phase # "idle", queue["idle"] = <<>>, NEW h \in active PROVE type[h] # "idle"
  <2>1. h \in Handles /\ "idle" \in Watched
    BY <1>0 DEF TypeOK, Watched
  <2>2. Part({"idle"}) = <<>>
    BY <1>3 DEF Part
  <2>3. ~Linked(Part({"idle"}), queue["idle"], h)
    BY <1>3, <2>2, EmptyQueue DEF Linked
  <2>4. Linked(Part({"idle"}), queue["idle"], h) <=> h \in active /\ type[h] = "idle"
    BY <2>1 DEF IInv, Watching
  <2> QED BY <2>3, <2>4
<1> QED BY <1>1, <1>2, <1>3

LEMMA SleepsStep ==
    ASSUME IInv, [Next]_vars PROVE SleepsForAReason'
<1> SUFFICES SleepsForAReason'
  OBVIOUS
<1>0. TypeOK /\ Stacked /\ SleepsForAReason
  BY DEF IInv
<1>1. ASSUME ~(phase' = "poll" /\ timeout' = "block") PROVE SleepsForAReason'
  BY <1>1 DEF SleepsForAReason
<1>2. CASE ProgramActs
  <2>1. Program /\ phase' = phase /\ timeout' = timeout
    BY <1>2, ProgramFrame
  <2> QED BY <1>0, <1>1, <2>1 DEF Stacked, Program
<1>3. ASSUME NEW m \in Modes, Run(m) PROVE SleepsForAReason'
  BY <1>1, <1>3 DEF Run, Return, RunTimers
<1>4. CASE EndPrepare
  <2>1. SUFFICES ASSUME timeout' = "block" PROVE SleepsForAReason'
    BY <1>1
  <2>2. /\ phase = "prepare"
        /\ timeout' = "zero" \/ timeout' = BackendTimeout
        /\ UNCHANGED <<type, life, active, ref, reqs, queue, closingHandles, stopFlag>>
    BY <1>4 DEF EndPrepare, Idle, handleVars
  <2>3. /\ ~stopFlag /\ (activeHandles > 0 \/ reqs # {})
        /\ queue["pending"] = <<>> /\ queue["idle"] = <<>> /\ closingHandles = <<>>
    BY <2>1, <2>2 DEF BackendTimeout
  <2>4. active \intersect ref # {} \/ reqs # {}
    BY <2>3, Emptiness
  <2>5. \A h \in Handles : life[h] # "closing" /\ (type[h] = "idle" => h \notin active)
    BY <2>2, <2>3, Emptiness
  <2> QED BY <2>2, <2>3, <2>4, <2>5 DEF SleepsForAReason
<1>5. CASE PollWakes
  BY <1>1, <1>5 DEF PollWakes
<1>6. CASE \/ EndFirstTimers \/ BeginTurn \/ EndPending \/ EndIdle \/ EndPoll \/ Drain
           \/ EndCheck \/ EndClosing \/ EndTimers
  <2>1. phase' # "poll"
    BY <1>6 DEF EndFirstTimers, BeginTurn, EndPending, EndIdle, EndPoll, Drain, EndCheck,
                EndClosing, EndTimers, RunTimers, Return, Idle
  <2> QED BY <1>1, <2>1
<1>7. CASE Call \/ CallbackReturns
  <2>1. phase' = phase /\ timeout' = timeout /\ (local # <<>> \/ cb)
    BY <1>7 DEF Call, CallPending, CallWatcher, CallPolled, CallRequest, CallClose, CallTimer,
                CallbackReturns, Waiting, runVars
  <2> QED BY <1>0, <1>1, <2>1 DEF Stacked
<1>8. CASE UNCHANGED vars
  BY <1>0, <1>8 DEF vars, handleVars, runVars, SleepsForAReason
<1> QED BY <1>2, <1>3, <1>4, <1>5, <1>6, <1>7, <1>8, NextIsOneOf DEF Running

-----------------------------------------------------------------------------
(* The theorems *)

LEMMA InitInv == Init => IInv
<1> SUFFICES ASSUME Init PROVE IInv
  OBVIOUS
<1>1. TypeOK
  <2>1. type \in [Handles -> Types]
    BY DEF Init
  <2>2. <<>> \in Seq(Handles) /\ <<>> \in Seq(Handles \union Reqs)
    BY EmptySeq
  <2>3. queue \in [Watched \union {"pending"} -> Seq(Handles)]
    BY <2>2 DEF Init
  <2>4. life \in [Handles -> {"closed", "open", "closing"}] /\ rounds \in 0..PendingRounds
    BY DEF Init
  <2> QED BY <2>1, <2>2, <2>3, <2>4 DEF Init, TypeOK, Modes
<1>2. CountIsRight
  BY FS_EmptySet DEF Init, CountIsRight
<1>3. Living /\ Stacked /\ Owing /\ Remembers /\ SleepsForAReason
  BY EmptySeq DEF Init, Living, Stacked, Owing, Remembers, SleepsForAReason, Watched
<1>4. Once(<<>>, <<>>) /\ \A h : ~Linked(<<>>, <<>>, h)
  BY EmptyQueue DEF Once, Linked
<1>5. \A phases : Part(phases) = <<>>
  BY DEF Init, Part
<1>6. Watching /\ Closing /\ Pending
  BY <1>4, <1>5 DEF Init, Watching, Closing, Pending, Watched
<1> QED BY <1>1, <1>2, <1>3, <1>6 DEF IInv

LEMMA NextInv == IInv /\ [Next]_vars => IInv'
BY CountStep, TypeStep, LivingStep, StackedStep, WatchingStep, ClosingStep, PendingStep, OwingStep,
   RemembersStep, SleepsStep DEF IInv

LEMMA Invariance == Spec => []IInv
<1>1. Init => IInv
  BY InitInv
<1>2. IInv /\ [Next]_vars => IInv'
  BY NextInv
<1> QED BY <1>1, <1>2, PTL DEF Spec

\* A queue of the loop behind its part on the stack, as one queue.
LEMMA Joined ==
    ASSUME IInv, NEW q \in Seq(Handles),
           NEW phases \in SUBSET (Watched \union {"pending", "drain", "closing"}),
           Once(Part(phases), q)
    PROVE  /\ Distinct(With(q, phases))
           /\ \A h : h \in Range(With(q, phases)) <=> Linked(Part(phases), q, h)
           /\ Range(With(q, phases)) \subseteq Handles
<1>1. Part(phases) \in Seq(Handles)
  BY PartChanges
<1>2. With(q, phases) = Part(phases) \o q
  BY ConcatEmptySeq DEF With, Part
<1>3. /\ Part(phases) \o q \in Seq(Handles) /\ Distinct(Part(phases) \o q)
      /\ \A h : Contains(Part(phases) \o q, h) <=> Linked(Part(phases), q, h)
  BY <1>1, ConcatQueue DEF Once, Linked
<1> QED BY <1>2, <1>3, RangeQueue

LEMMA InvPlacement == IInv => Placement
<1> SUFFICES ASSUME IInv PROVE Placement
  OBVIOUS
<1>0. TypeOK /\ Watching /\ Closing /\ Pending
  BY DEF IInv
<1>1. ASSUME NEW t \in Watched
      PROVE  /\ Distinct(With(queue[t], {t}))
             /\ Range(With(queue[t], {t})) = {h \in active : type[h] = t}
  <2>1. queue[t] \in Seq(Handles) /\ Once(Part({t}), queue[t])
        /\ \A h \in Handles : Linked(Part({t}), queue[t], h) <=> h \in active /\ type[h] = t
    BY <1>0 DEF TypeOK, Watching
  <2>2. {t} \in SUBSET (Watched \union {"pending", "drain", "closing"})
    OBVIOUS
  <2>3. /\ Distinct(With(queue[t], {t}))
        /\ \A h : h \in Range(With(queue[t], {t})) <=> Linked(Part({t}), queue[t], h)
        /\ Range(With(queue[t], {t})) \subseteq Handles
    BY <2>1, <2>2, Joined
  <2> QED BY <1>0, <2>1, <2>3 DEF TypeOK
<1>2. /\ Distinct(With(closingHandles, {"closing"}))
      /\ Range(With(closingHandles, {"closing"})) = {h \in Handles : life[h] = "closing"}
  <2>1. /\ Distinct(With(closingHandles, {"closing"}))
        /\ \A h : h \in Range(With(closingHandles, {"closing"})) <=>
                    Linked(Part({"closing"}), closingHandles, h)
        /\ Range(With(closingHandles, {"closing"})) \subseteq Handles
    BY <1>0, Joined DEF TypeOK, Closing
  <2> QED BY <1>0, <2>1 DEF Closing
<1>3. /\ Distinct(With(queue["pending"], {"pending", "drain"}))
      /\ \A h \in Range(With(queue["pending"], {"pending", "drain"})) : life[h] = "open"
  <2>1. queue["pending"] \in Seq(Handles)
    BY <1>0 DEF TypeOK
  <2>2. /\ Distinct(With(queue["pending"], {"pending", "drain"}))
        /\ \A h : h \in Range(With(queue["pending"], {"pending", "drain"})) <=>
                    Linked(Part({"pending", "drain"}), queue["pending"], h)
        /\ Range(With(queue["pending"], {"pending", "drain"})) \subseteq Handles
    BY <1>0, <2>1, Joined DEF Pending
  <2> QED BY <1>0, <2>2 DEF Pending
<1> QED BY <1>1, <1>2, <1>3 DEF Placement

\* Every variable keeps its type; in particular the count of active handles,
\* which is unsigned in C, never goes below zero, whatever handles are started,
\* unreferenced, closed and due in whatever order.
THEOREM TypeCorrect == Spec => []TypeOK
<1>1. IInv => TypeOK
  BY DEF IInv
<1> QED BY <1>1, Invariance, PTL

\* loop->active_handles is the number of handles that are active and referenced:
\* uv_run ends when it should, neither early nor never.
THEOREM CountTheActive == Spec => []CountIsRight
<1>1. IInv => CountIsRight
  BY DEF IInv
<1> QED BY <1>1, Invariance, PTL

\* Every handle is linked where it belongs, and once, also while the queue it is
\* in is on the stack of the function that calls its callbacks.
THEOREM WellPlaced == Spec => []Placement
BY Invariance, InvPlacement, PTL

\* A turn of the loop calls every watcher that was active when it began, unless
\* the program stops it in the meantime.
THEOREM NobodyIsSkipped == Spec => []TurnCallsEverybody
<1>1. IInv => TurnCallsEverybody
  BY DEF IInv, Owing, TurnCallsEverybody
<1> QED BY <1>1, Invariance, PTL

\* A poll that may block for good has something to wait for, and nothing is left
\* that the loop should do instead.
THEOREM SleepIsJustified == Spec => []SleepsForAReason
<1>1. IInv => SleepsForAReason
  BY DEF IInv
<1> QED BY <1>1, Invariance, PTL

LEMMA CallStep ==
    ASSUME IInv, [Next]_vars, ~cb, cb', Head(local) \in Handles
    PROVE  /\ life[Head(local)] = IF phase = "closing" THEN "closing" ELSE "open"
           /\ phase \in Watched \union {"poll"} => Head(local) \in active
<1>0. Living
  BY DEF IInv
<1>1. ~ProgramActs
  BY ProgramFrame
<1>2. ~(\E m \in Modes : Run(m)) /\ ~PollWakes /\ ~UNCHANGED vars
  BY DEF Run, PollWakes, vars
<1>3. Call
  BY <1>1, <1>2, NextIsOneOf
  DEF Running, EndFirstTimers, BeginTurn, EndPending, EndIdle, EndPrepare, EndPoll, Drain,
      EndCheck, EndClosing, EndTimers, CallbackReturns
<1>4. CASE CallPending \/ CallWatcher \/ CallClose \/ CallTimer
  <2>1. local # <<>> /\ phase \in Watched \union {"pending", "drain", "closing", "firstTimers", "timers"}
    BY <1>4 DEF CallPending, CallWatcher, CallClose, CallTimer, Waiting
  <2> QED BY <1>0, <2>1, HeadOfStack DEF Living, Watched
<1>5. CASE CallPolled
  BY <1>0, <1>5 DEF CallPolled, Living
<1>6. CASE CallRequest
  BY <1>6 DEF CallRequest
<1> QED BY <1>3, <1>4, <1>5, <1>6 DEF Call

\* No callback reaches a handle that is closed, or a watcher or descriptor that was
\* stopped, even if its queue had already been taken from the loop.
THEOREM OnlyTheLivingAreCalled == Spec => CallsTheLiving
<1> DEFINE A == ~cb /\ cb' /\ Head(local) \in Handles =>
        LET h == Head(local) IN
        /\ life[h] = IF phase = "closing" THEN "closing" ELSE "open"
        /\ phase \in Watched \union {"poll"} => h \in active
<1>1. IInv /\ [Next]_vars => [A]_vars
  BY CallStep
<1>2. Spec => [][A]_vars
  BY <1>1, Invariance, PTL DEF Spec
<1> QED BY <1>2 DEF CallsTheLiving

LEMMA ReturnStep ==
    ASSUME IInv, [Next]_vars, phase # "outside", phase' = "outside",
           ~r' \/ (mode = "DEFAULT" /\ ~stopFlag)
    PROVE  /\ active \intersect ref = {} /\ reqs = {} /\ queue["pending"] = <<>>
           /\ \A h \in Handles : life[h] # "closing"
<1>1. ~ProgramActs
  BY ProgramFrame
<1>2. ~(\E m \in Modes : Run(m)) /\ ~PollWakes /\ ~UNCHANGED vars
  BY DEF Run, PollWakes, vars
<1>3. ~Call /\ ~CallbackReturns
  BY DEF Call, CallPending, CallWatcher, CallPolled, CallRequest, CallClose, CallTimer,
         CallbackReturns
<1>4. ~EndFirstTimers
  <2>1. EndFirstTimers => stopFlag /\ r' = r /\ r
    BY DEF EndFirstTimers, Idle, runVars, IInv, Remembers
  <2> QED BY <2>1
<1>5. EndTimers
  BY <1>1, <1>2, <1>3, <1>4, NextIsOneOf
  DEF Running, BeginTurn, EndPending, EndIdle, EndPrepare, EndPoll, Drain, EndCheck, EndClosing,
      RunTimers, Idle
<1>6. ~LoopAlive /\ phase = "timers"
  BY <1>5 DEF EndTimers, Idle
<1> QED BY <1>6, Emptiness DEF LoopAlive

\* uv_run does not say that it is done, and does not end on its own, while a
\* referenced handle is active, a request is under way, a watcher is fed or a
\* handle waits for its close callback.
THEOREM DoneMeansDone == Spec => ReturnsWhenDone
<1> DEFINE A == phase # "outside" /\ phase' = "outside" /\ (~r' \/ (mode = "DEFAULT" /\ ~stopFlag)) =>
        /\ active \intersect ref = {} /\ reqs = {} /\ queue["pending"] = <<>>
        /\ \A h \in Handles : life[h] # "closing"
<1>1. IInv /\ [Next]_vars => [A]_vars
  BY ReturnStep
<1>2. Spec => [][A]_vars
  BY <1>1, Invariance, PTL DEF Spec
<1> QED BY <1>2 DEF ReturnsWhenDone
=============================================================================
