------------------------------ MODULE SignalProofs ------------------------------
(***************************************************************************)
(* What Signal promises, for any number of watchers, loops and signals.    *)
(*                                                                         *)
(* A watcher's two counters differ by the messages on their way to it, in  *)
(* the pipe and in the buffer of its loop (Exact).  That holds because a   *)
(* message is only ever in the pipe and the buffer of the loop of its      *)
(* watcher (AtHome), because uv__signal_event leaves its buffer empty when *)
(* it returns (Phased), and because between the two critical sections of   *)
(* uv_signal_start nothing else happens to the watcher (Restarting).       *)
(***************************************************************************)
EXTENDS Signal, QueueProofs

USE SignalAssumption DEF SignalAssumption

AtHome ==
    \A l \in Loops :
        /\ \A i \in DOMAIN buf[l] : loop[buf[l][i].handle] = l
        /\ \A i \in DOMAIN pipe[l] : loop[pipe[l][i].handle] = l

Phased ==
    \A l \in Loops :
        /\ pc[l] = "program" => buf[l] = <<>>
        /\ pc[l] = "callback" => buf[l] # <<>>

Restarting ==
    \A l \in Loops : todo[l] # None =>
        /\ pc[l] \in {"program", "callback"}
        /\ loop[todo[l].handle] = l
        /\ life[todo[l].handle] = "open" /\ signum[todo[l].handle] = None

Exact(h) ==
    IF life[h] = "closed" THEN Trapped(h) = 0 ELSE caught[h] = dispatched[h] + Trapped(h)

Counts == \A h \in Handles : Exact(h)

IInv == TypeOK /\ RegularIsHandled /\ AtHome /\ Phased /\ Restarting /\ Counts

-----------------------------------------------------------------------------
(* Counting messages *)

\* The places of the messages to h, and their number.
To(q, h) == {i \in DOMAIN q : q[i].handle = h}
Number(q, h) == Cardinality(To(q, h))

LEMMA NumberType ==
    ASSUME NEW q \in Seq(Message), NEW h
    PROVE  IsFiniteSet(To(q, h)) /\ Number(q, h) \in Nat
<1>1. DOMAIN q = 1..Len(q) /\ Len(q) \in Nat
  BY LenProperties
<1>2. IsFiniteSet(1..Len(q)) /\ To(q, h) \in SUBSET (1..Len(q))
  BY <1>1, FS_Interval DEF To
<1> QED BY <1>2, FS_Subset, FS_CardinalityType DEF Number

LEMMA NumberEmpty == \A h : Number(<<>>, h) = 0
BY FS_EmptySet DEF Number, To

LEMMA NumberConcat ==
    ASSUME NEW p \in Seq(Message), NEW q \in Seq(Message), NEW h
    PROVE  Number(p \o q, h) = Number(p, h) + Number(q, h)
<1> DEFINE m == Len(p)
           n == Len(q)
           Late == {i \in (m + 1)..(m + n) : (p \o q)[i].handle = h}
<1>1. /\ m \in Nat /\ n \in Nat /\ DOMAIN p = 1..m /\ DOMAIN q = 1..n
      /\ DOMAIN (p \o q) = 1..(m + n)
      /\ \A i \in 1..(m + n) : (p \o q)[i] = IF i <= m THEN p[i] ELSE q[i - m]
  BY LenProperties, ConcatProperties
<1>2. /\ IsFiniteSet(To(p, h)) /\ Number(p, h) \in Nat
      /\ IsFiniteSet(To(q, h)) /\ Number(q, h) \in Nat
  BY NumberType
<1> HIDE DEF m, n
<1>3. To(p \o q, h) = To(p, h) \union Late
  BY <1>1 DEF To
<1>4. To(p, h) \intersect Late = {}
  BY <1>1 DEF To
<1>5. IsFiniteSet(Late) /\ Cardinality(Late) = Number(q, h)
  <2> DEFINE shift == [i \in To(q, h) |-> m + i]
  <2>1. shift \in [To(q, h) -> Late]
    <3>1. ASSUME NEW i \in To(q, h) PROVE m + i \in Late
      <4>1. i \in 1..n /\ q[i].handle = h
        BY <1>1 DEF To
      <4>2. m + i \in (m + 1)..(m + n) /\ m + i \in 1..(m + n) /\ ~(m + i <= m) /\ (m + i) - m = i
        BY <1>1, <4>1
      <4> QED BY <1>1, <4>1, <4>2
    <3> QED BY <3>1
  <2>2. \A i, j \in To(q, h) : shift[i] = shift[j] => i = j
    <3>1. \A i \in To(q, h) : i \in Nat
      BY <1>1 DEF To
    <3> QED BY <1>1, <3>1
  <2>3. \A k \in Late : \E i \in To(q, h) : shift[i] = k
    <3>1. ASSUME NEW k \in Late PROVE k - m \in To(q, h) /\ m + (k - m) = k
      <4>1. k \in (m + 1)..(m + n) /\ (p \o q)[k].handle = h
        OBVIOUS
      <4>2. k \in 1..(m + n) /\ ~(k <= m) /\ k - m \in 1..n /\ m + (k - m) = k
        BY <1>1, <4>1
      <4> QED BY <1>1, <4>1, <4>2 DEF To
    <3> QED BY <3>1
  <2>4. shift \in Bijection(To(q, h), Late)
    BY <2>1, <2>2, <2>3 DEF Bijection, Injection, Surjection, IsInjective
  <2> HIDE DEF shift
  <2>5. ExistsBijection(To(q, h), Late)
    BY <2>4 DEF ExistsBijection
  <2> QED BY <1>2, <2>5, FS_Bijection DEF Number
<1> HIDE DEF Late
<1>6. Cardinality(To(p, h) \union Late) =
        Cardinality(To(p, h)) + Cardinality(Late) - Cardinality(To(p, h) \intersect Late)
  BY <1>2, <1>5, FS_Union
<1>7. Cardinality(To(p, h) \intersect Late) = 0
  BY <1>4, FS_EmptySet
<1>8. Number(p \o q, h) = Cardinality(To(p, h) \union Late)
  BY <1>3 DEF Number
<1> QED BY <1>2, <1>5, <1>6, <1>7, <1>8 DEF Number

LEMMA NumberTail ==
    ASSUME NEW q \in Seq(Message), q # <<>>, NEW h
    PROVE  Number(q, h) = Number(Tail(q), h) + (IF Head(q).handle = h THEN 1 ELSE 0)
<1>1. Head(q) \in Message /\ Tail(q) \in Seq(Message) /\ <<Head(q)>> \in Seq(Message)
  BY TailQueue
<1>2. q = <<Head(q)>> \o Tail(q)
  <2>1. /\ Len(q) \in Nat /\ Len(q) >= 1 /\ Head(q) = q[1] /\ Len(Tail(q)) = Len(q) - 1
        /\ \A i \in 1..(Len(q) - 1) : Tail(q)[i] = q[i + 1]
    BY HeadTailProperties, EmptySeq, LenProperties
  <2>2. /\ <<Head(q)>> \o Tail(q) \in Seq(Message) /\ Len(<<Head(q)>> \o Tail(q)) = Len(q)
        /\ \A i \in 1..Len(q) : (<<Head(q)>> \o Tail(q))[i] =
              IF i <= 1 THEN <<Head(q)>>[i] ELSE Tail(q)[i - 1]
    BY <1>1, <2>1, ConcatProperties
  <2>3. ASSUME NEW i \in 1..Len(q) PROVE (<<Head(q)>> \o Tail(q))[i] = q[i]
    <3>1. CASE i = 1
      BY <2>1, <2>2, <3>1
    <3>2. CASE i # 1
      <4>1. i - 1 \in 1..(Len(q) - 1) /\ ~(i <= 1) /\ (i - 1) + 1 = i
        BY <2>1, <3>2
      <4> QED BY <2>1, <2>2, <4>1
    <3> QED BY <3>1, <3>2
  <2> QED BY <2>2, <2>3, SeqEqual
<1>3. Number(q, h) = Number(<<Head(q)>>, h) + Number(Tail(q), h)
  <2>1. Number(<<Head(q)>> \o Tail(q), h) = Number(<<Head(q)>>, h) + Number(Tail(q), h)
    BY <1>1, NumberConcat
  <2> QED BY <1>2, <2>1, Zenon
<1>4. Number(<<Head(q)>>, h) = IF Head(q).handle = h THEN 1 ELSE 0
  <2>1. To(<<Head(q)>>, h) = IF Head(q).handle = h THEN {1} ELSE {}
    BY DEF To
  <2> QED BY <2>1, FS_Singleton, FS_EmptySet DEF Number
<1>5. Number(Tail(q), h) \in Nat
  BY <1>1, NumberType
<1> QED BY <1>3, <1>4, <1>5

\* What is read is the beginning of what was in the pipe.
LEMMA NumberSplit ==
    ASSUME NEW q \in Seq(Message), NEW n \in 0..Len(q), NEW h
    PROVE  /\ SubSeq(q, 1, n) \in Seq(Message) /\ SubSeq(q, n + 1, Len(q)) \in Seq(Message)
           /\ Number(q, h) = Number(SubSeq(q, 1, n), h) + Number(SubSeq(q, n + 1, Len(q)), h)
           /\ \A i \in DOMAIN SubSeq(q, 1, n) : SubSeq(q, 1, n)[i] \in Range(q)
           /\ \A i \in DOMAIN SubSeq(q, n + 1, Len(q)) : SubSeq(q, n + 1, Len(q))[i] \in Range(q)
<1>1. Len(q) \in Nat /\ DOMAIN q = 1..Len(q) /\ \A i \in 1..Len(q) : q[i] \in Message
  BY LenProperties, ElementOfSeq
<1>2. /\ SubSeq(q, 1, n) \in Seq(Message) /\ Len(SubSeq(q, 1, n)) = n
      /\ \A i \in 1..n : SubSeq(q, 1, n)[i] = q[i]
  <2>1. 1 \in Int /\ n \in Int /\ \A i \in 1..n : q[i] \in Message
    BY <1>1
  <2>2. /\ SubSeq(q, 1, n) \in Seq(Message)
        /\ Len(SubSeq(q, 1, n)) = IF 1 <= n THEN n - 1 + 1 ELSE 0
        /\ \A i \in 1..(n - 1 + 1) : SubSeq(q, 1, n)[i] = q[1 + i - 1]
    BY <2>1, SubSeqProperties
  <2> QED BY <1>1, <2>2
<1>3. /\ SubSeq(q, n + 1, Len(q)) \in Seq(Message) /\ Len(SubSeq(q, n + 1, Len(q))) = Len(q) - n
      /\ \A i \in 1..(Len(q) - n) : SubSeq(q, n + 1, Len(q))[i] = q[n + i]
  <2>1. n + 1 \in Int /\ Len(q) \in Int /\ \A i \in (n + 1)..Len(q) : q[i] \in Message
    BY <1>1
  <2>2. /\ SubSeq(q, n + 1, Len(q)) \in Seq(Message)
        /\ Len(SubSeq(q, n + 1, Len(q))) = IF n + 1 <= Len(q) THEN Len(q) - (n + 1) + 1 ELSE 0
        /\ \A i \in 1..(Len(q) - (n + 1) + 1) : SubSeq(q, n + 1, Len(q))[i] = q[(n + 1) + i - 1]
    BY <2>1, SubSeqProperties
  <2> QED BY <1>1, <2>2
<1>4. SubSeq(q, 1, n) \o SubSeq(q, n + 1, Len(q)) = q
  <2>1. 1 \in 1..(Len(q) + 1) /\ n \in (1 - 1)..Len(q) /\ Len(q) \in n..Len(q)
    BY <1>1
  <2>2. SubSeq(q, 1, n) \o SubSeq(q, n + 1, Len(q)) = SubSeq(q, 1, Len(q))
    BY <2>1, ConcatAdjacentSubSeq
  <2> QED BY <2>2, SubSeqFull
<1>5. Number(q, h) = Number(SubSeq(q, 1, n), h) + Number(SubSeq(q, n + 1, Len(q)), h)
  <2>1. Number(SubSeq(q, 1, n) \o SubSeq(q, n + 1, Len(q)), h) =
          Number(SubSeq(q, 1, n), h) + Number(SubSeq(q, n + 1, Len(q)), h)
    BY <1>2, <1>3, NumberConcat
  <2> QED BY <1>4, <2>1
<1>6. DOMAIN SubSeq(q, 1, n) = 1..n /\ DOMAIN SubSeq(q, n + 1, Len(q)) = 1..(Len(q) - n)
  BY <1>2, <1>3, LenProperties
<1>7. /\ \A i \in 1..n : q[i] \in Range(q)
      /\ \A i \in 1..(Len(q) - n) : q[n + i] \in Range(q)
  BY <1>1 DEF Range
<1> QED BY <1>2, <1>3, <1>5, <1>6, <1>7

\* The messages that the handler of s writes into one pipe.
Messages(news, s) == [i \in DOMAIN news |-> [handle |-> news[i], signum |-> s]]

LEMMA News ==
    ASSUME TypeOK, NEW s \in Signums, NEW order \in TreeOrders(s), NEW l \in Loops
    PROVE  LET news == Written(order[l], l)
               msgs == Messages(news, s)
           IN /\ msgs \in Seq(Message)
              /\ \A h : Number(msgs, h) = IF h \in Range(news) THEN 1 ELSE 0
              /\ \A h \in Range(news) : h \in Watchers(s) /\ loop[h] = l
              /\ \A i \in DOMAIN msgs : loop[msgs[i].handle] = l
<1> DEFINE here == {h \in Watchers(s) : loop[h] = l}
           o == order[l]
           n == Len(o)
           room == PipeSize - Len(pipe[l])
           k == IF room >= n THEN n ELSE IF room >= 0 THEN room ELSE 0
           news == Written(o, l)
           msgs == Messages(news, s)
<1>1. o \in SetToSeqs(here)
  BY DEF TreeOrders, InTreeOrder
<1>2. here \in SUBSET Handles /\ IsFiniteSet(here)
  <2>1. here \in SUBSET Handles
    BY DEF TypeOK, Watchers
  <2> QED BY <2>1, FS_Subset
<1>3. /\ o \in Seq(here) /\ Distinct(o) /\ n \in Nat /\ DOMAIN o = 1..n
      /\ \A i \in 1..n : o[i] \in here
  <2>1. o \in Seq(here) /\ Distinct(o)
    BY <1>1, <1>2, OrderQueue
  <2> QED BY <2>1, LenProperties, ElementOfSeq
<1>4. room \in Int
  BY LenProperties DEF TypeOK
<1> HIDE DEF here, o, n, room
<1>5. k \in 0..n
  BY <1>3, <1>4
<1>6. {i \in DOMAIN o : Len(pipe[l]) + i <= PipeSize} = 1..k
  <2>1. Len(pipe[l]) \in Nat
    BY LenProperties DEF TypeOK
  <2> QED BY <1>3, <1>4, <2>1 DEF room
<1> HIDE DEF k
<1>7. news = [i \in 1..k |-> o[i]] /\ DOMAIN news = 1..k /\ k <= n /\ k \in Nat
  BY <1>3, <1>5, <1>6 DEF Written
<1>8. \A i \in 1..k : news[i] = o[i] /\ o[i] \in here /\ o[i] \in Handles
  BY <1>2, <1>3, <1>7
<1>9. /\ msgs = [i \in 1..k |-> [handle |-> news[i], signum |-> s]] /\ DOMAIN msgs = 1..k
      /\ \A i \in 1..k : msgs[i] = [handle |-> o[i], signum |-> s] /\ msgs[i] \in Message
  BY <1>7, <1>8 DEF Messages, Message
<1> HIDE DEF msgs
<1>10. msgs \in Seq(Message)
  <2>1. msgs \in [1..k -> Message]
    BY <1>9
  <2> QED BY <1>7, <2>1, SeqDef
<1>11. \A h \in Range(news) : h \in here
  BY <1>7, <1>8 DEF Range
<1>12. ASSUME NEW h PROVE Number(msgs, h) = IF h \in Range(news) THEN 1 ELSE 0
  <2>1. CASE h \in Range(news)
    <3>1. PICK j \in 1..k : o[j] = h
      BY <1>7, <1>8, <2>1 DEF Range
    <3>2. \A i \in 1..k : o[i] = h => i = j
      BY <1>3, <1>7, <3>1 DEF Distinct, n
    <3>3. To(msgs, h) = {j}
      BY <1>9, <3>1, <3>2 DEF To
    <3> QED BY <2>1, <3>3, FS_Singleton DEF Number
  <2>2. CASE h \notin Range(news)
    <3>1. \A i \in 1..k : o[i] # h
      BY <1>7, <1>8, <2>2 DEF Range
    <3>2. To(msgs, h) = {}
      BY <1>9, <3>1 DEF To
    <3> QED BY <2>2, <3>2, FS_EmptySet DEF Number
  <2> QED BY <2>1, <2>2
<1>13. \A i \in DOMAIN msgs : loop[msgs[i].handle] = l
  BY <1>8, <1>9 DEF here
<1>14. \A h \in Range(news) : h \in Watchers(s) /\ loop[h] = l
  BY <1>11 DEF here
<1> QED BY <1>10, <1>12, <1>13, <1>14 DEF o, msgs

\* What is on its way to h is in the buffer and in the pipe of its loop.
LEMMA TrappedSum ==
    ASSUME TypeOK, NEW h \in Handles
    PROVE  /\ Trapped(h) = Number(buf[loop[h]], h) + Number(pipe[loop[h]], h)
           /\ Number(buf[loop[h]], h) \in Nat /\ Number(pipe[loop[h]], h) \in Nat
<1>1. buf[loop[h]] \in Seq(Message) /\ pipe[loop[h]] \in Seq(Message)
  BY DEF TypeOK
<1>2. Trapped(h) = Number(buf[loop[h]] \o pipe[loop[h]], h)
  BY DEF Trapped, Number, To
<1> QED BY <1>1, <1>2, NumberConcat, NumberType

-----------------------------------------------------------------------------
(* A watcher stops *)

LEMMA StoppedStep ==
    ASSUME TypeOK, RegularIsHandled, NEW h \in Handles, Stopped(h), oneshot' = oneshot
    PROVE  /\ signum' = [signum EXCEPT ![h] = None] /\ tree' = tree \ {h}
           /\ disposition' \in [Signums -> {"default", "handler", "once"}]
           /\ RegularIsHandled'
<1>1. CASE signum[h] = None
  <2>1. UNCHANGED <<signum, tree, disposition>> /\ h \notin tree
    BY <1>1 DEF Stopped, TypeOK
  <2>2. signum' = [signum EXCEPT ![h] = None] /\ tree' = tree \ {h}
    BY <1>1, <2>1 DEF TypeOK
  <2>3. RegularIsHandled'
    BY <2>1 DEF RegularIsHandled, Watchers
  <2> QED BY <2>1, <2>2, <2>3 DEF TypeOK
<1>2. CASE signum[h] # None
  <2>0. PICK s \in Signums : s = signum[h]
    BY <1>2 DEF TypeOK
  <2> DEFINE others == Watchers(s) \ {h}
  <2>1. /\ tree' = tree \ {h} /\ signum' = [signum EXCEPT ![h] = None]
        /\ disposition' =
             IF others = {} THEN [disposition EXCEPT ![s] = "default"]
             ELSE IF FirstIsOneshot(others) /\ h \notin oneshot
                  THEN [disposition EXCEPT ![s] = "once"]
                  ELSE disposition
    BY <1>2, <2>0 DEF Stopped, TypeOK
  <2>2. \A g \in tree' : g \in tree /\ g # h /\ signum'[g] = signum[g] /\ signum[g] \in Signums
    BY <2>1 DEF TypeOK
  <2>3. ASSUME NEW t \in Signums, t # s
        PROVE  Watchers(t)' = Watchers(t) /\ disposition'[t] = disposition[t]
    BY <2>0, <2>1, <2>2, <2>3 DEF Watchers, TypeOK
  <2>4. Watchers(s)' = others
    BY <2>1, <2>2 DEF Watchers, TypeOK
  <2>5. others = {} => disposition'[s] = "default"
    BY <2>1 DEF TypeOK
  <2>6. ASSUME NEW g \in others, g \notin oneshot PROVE disposition'[s] = "handler"
    <3>1. disposition' = disposition
      BY <2>1, <2>6 DEF FirstIsOneshot
    <3> QED BY <2>6, <3>1 DEF RegularIsHandled, Watchers
  <2>7. \A g \in tree' \ oneshot' : disposition'[signum'[g]] = "handler"
    <3> SUFFICES ASSUME NEW g \in tree', g \notin oneshot PROVE disposition'[signum'[g]] = "handler"
      OBVIOUS
    <3>1. CASE signum[g] = s
      BY <2>2, <2>6, <3>1 DEF Watchers
    <3>2. CASE signum[g] # s
      BY <2>2, <2>3, <3>2 DEF RegularIsHandled
    <3> QED BY <3>1, <3>2
  <2>8. \A t \in Signums : Watchers(t)' = {} => disposition'[t] = "default"
    <3> SUFFICES ASSUME NEW t \in Signums, Watchers(t)' = {} PROVE disposition'[t] = "default"
      OBVIOUS
    <3>1. CASE t = s
      BY <2>4, <2>5, <3>1
    <3>2. CASE t # s
      BY <2>3, <3>2 DEF RegularIsHandled
    <3> QED BY <3>1, <3>2
  <2>9. disposition' \in [Signums -> {"default", "handler", "once"}]
    BY <2>1 DEF TypeOK
  <2> QED BY <2>1, <2>7, <2>8, <2>9 DEF RegularIsHandled
<1> QED BY <1>1, <1>2

-----------------------------------------------------------------------------
(* Types *)

LEMMA HandlerTypes ==
    ASSUME TypeOK, NEW s \in Signums, Handler(s)
    PROVE  /\ pipe' \in [Loops -> Seq(Message)]
           /\ caught' \in [Handles -> Nat] /\ arrived' \in [Signums -> Nat]
<1>1. PICK order \in TreeOrders(s) :
        /\ pipe' = [l \in Loops |-> pipe[l] \o Messages(Written(order[l], l), s)]
        /\ caught' = [h \in Handles |-> IF h \in Caught(order) THEN caught[h] + 1 ELSE caught[h]]
  BY DEF Handler, Messages
<1>2. \A l \in Loops : pipe[l] \o Messages(Written(order[l], l), s) \in Seq(Message)
  <2> TAKE l \in Loops
  <2>1. Messages(Written(order[l], l), s) \in Seq(Message) /\ pipe[l] \in Seq(Message)
    BY News DEF TypeOK
  <2> QED BY <2>1, ConcatProperties
<1>3. pipe' \in [Loops -> Seq(Message)]
  BY <1>1, <1>2
<1>4. caught' \in [Handles -> Nat]
  BY <1>1 DEF TypeOK
<1>5. arrived' \in [Signums -> Nat]
  BY DEF Handler, TypeOK
<1> QED BY <1>3, <1>4, <1>5

\* What is read from the pipe of a loop, and what stays in it.
LEMMA ReadParts ==
    ASSUME IInv, NEW l \in Loops, Read(l)
    PROVE  \E n \in 0..Len(pipe[l]) :
             /\ buf[l] = <<>>
             /\ buf' = [buf EXCEPT ![l] = SubSeq(pipe[l], 1, n)]
             /\ pipe' = [pipe EXCEPT ![l] = SubSeq(pipe[l], n + 1, Len(pipe[l]))]
             /\ more' = [more EXCEPT ![l] = (n = BatchSize)]
<1> DEFINE n == IF Len(pipe[l]) < BatchSize THEN Len(pipe[l]) ELSE BatchSize
<1>1. Len(pipe[l]) \in Nat
  BY LenProperties DEF IInv, TypeOK
<1>2. n \in 0..Len(pipe[l])
  BY <1>1
<1>3. buf[l] = <<>>
  BY DEF IInv, Phased, Read
<1>4. /\ buf' = [buf EXCEPT ![l] = SubSeq(pipe[l], 1, n)]
      /\ pipe' = [pipe EXCEPT ![l] = SubSeq(@, n + 1, Len(@))]
      /\ more' = [more EXCEPT ![l] = (n = BatchSize)]
  BY DEF Read
<1>5. pipe' = [pipe EXCEPT ![l] = SubSeq(pipe[l], n + 1, Len(pipe[l]))]
  BY <1>4 DEF IInv, TypeOK
<1> QED BY <1>2, <1>3, <1>4, <1>5

LEMMA DispatchedParts ==
    ASSUME IInv, NEW l \in Loops, Drop(l) \/ CallbackReturns(l)
    PROVE  /\ buf[l] \in Seq(Message) /\ buf[l] # <<>> /\ todo[l] = None
           /\ Head(buf[l]).handle \in Handles /\ loop[Head(buf[l]).handle] = l
           /\ Tail(buf[l]) \in Seq(Message)
           /\ \/ Stopped(Head(buf[l]).handle)
              \/ UNCHANGED <<signum, tree, disposition>>
<1>1. buf[l] \in Seq(Message) /\ buf[l] # <<>> /\ todo[l] = None
  BY DEF IInv, TypeOK, Phased, Restarting, Drop, CallbackReturns
<1>2. Head(buf[l]) \in Message /\ Tail(buf[l]) \in Seq(Message)
  BY <1>1, TailQueue
<1>3. loop[Head(buf[l]).handle] = l
  <2>1. 1 \in DOMAIN buf[l] /\ Head(buf[l]) = buf[l][1]
    BY <1>1, EmptySeq, LenProperties
  <2> QED BY <2>1 DEF IInv, AtHome
<1>4. \/ Stopped(Head(buf[l]).handle)
      \/ UNCHANGED <<signum, tree, disposition>>
  BY DEF Drop, CallbackReturns, Dispatched
<1> QED BY <1>1, <1>2, <1>3, <1>4 DEF Message

LEMMA TypeStep ==
    ASSUME IInv, [Next]_vars PROVE TypeOK'
<1> SUFFICES TypeOK'
  OBVIOUS
<1>0. TypeOK /\ RegularIsHandled /\ Phased /\ Restarting
  BY DEF IInv
<1>1. ASSUME NEW h \in Handles, SignalInit(h) PROVE TypeOK'
  BY <1>0, <1>1 DEF SignalInit, TypeOK, kernelVars, loopVars
<1>2. ASSUME NEW h \in Handles, Stopped(h), oneshot' = oneshot, life' = life,
             UNCHANGED <<loop, caught, dispatched, arrived, loopVars>>
      PROVE  TypeOK'
  <2>1. /\ signum' = [signum EXCEPT ![h] = None] /\ tree' = tree \ {h}
        /\ disposition' \in [Signums -> {"default", "handler", "once"}]
    BY <1>0, <1>2, StoppedStep
  <2> QED BY <1>0, <1>2, <2>1 DEF TypeOK, loopVars
<1>3. ASSUME NEW h \in Handles, Stop(h) PROVE TypeOK'
  BY <1>2, <1>3 DEF Stop
<1>4. ASSUME NEW h \in Handles, Close(h) PROVE TypeOK'
  <2>1. /\ signum' = [signum EXCEPT ![h] = None] /\ tree' = tree \ {h}
        /\ disposition' \in [Signums -> {"default", "handler", "once"}]
    BY <1>0, <1>4, StoppedStep DEF Close
  <2> QED BY <1>0, <1>4, <2>1 DEF Close, TypeOK, loopVars
<1>5. ASSUME NEW h \in Handles, NEW s \in Signums, NEW once \in BOOLEAN, Start(h, s, once)
      PROVE  TypeOK'
  <2>1. /\ signum' = [signum EXCEPT ![h] = None] /\ tree' = tree \ {h}
        /\ disposition' \in [Signums -> {"default", "handler", "once"}]
    BY <1>0, <1>5, StoppedStep DEF Start
  <2>2. todo' = [todo EXCEPT ![loop[h]] = [handle |-> h, signum |-> s, once |-> once]]
    BY <1>5 DEF Start
  <2>3. todo' \in [Loops -> Starting \union {None}]
    BY <1>0, <2>2 DEF TypeOK, Starting
  <2> QED BY <1>0, <1>5, <2>1, <2>3 DEF Start, TypeOK
<1>6. ASSUME NEW l \in Loops, StartLocked(l) PROVE TypeOK'
  <2>1. todo[l] \in Starting /\ life[todo[l].handle] = "open"
    BY <1>0, <1>6 DEF StartLocked, TypeOK, Restarting
  <2>2. PICK h \in Handles, s \in Signums :
          /\ h = todo[l].handle /\ s = todo[l].signum
          /\ signum' = [signum EXCEPT ![h] = s] /\ tree' = tree \union {h}
          /\ oneshot' = oneshot \/ oneshot' = oneshot \union {h}
          /\ Registered(s, todo[l].once)
    BY <1>6, <2>1 DEF StartLocked, Starting
  <2>3. disposition' \in [Signums -> {"default", "handler", "once"}]
    BY <1>0, <2>2 DEF Registered, TypeOK
  <2>4. todo' = [todo EXCEPT ![l] = None]
        /\ UNCHANGED <<loop, life, caught, dispatched, arrived, pipe, buf, more, pc>>
    BY <1>6 DEF StartLocked
  <2>5. tree' = {g \in Handles : signum'[g] # None} /\ \A g \in tree' : life[g] = "open"
    BY <1>0, <2>1, <2>2 DEF TypeOK
  <2> QED BY <1>0, <2>2, <2>3, <2>4, <2>5 DEF TypeOK
<1>7. ASSUME NEW s \in Signums, Arrive(s) PROVE TypeOK'
  BY <1>0, <1>7 DEF Arrive, TypeOK, handleVars, loopVars
<1>8. ASSUME NEW s \in Signums, Handler(s) PROVE TypeOK'
  <2>1. /\ pipe' \in [Loops -> Seq(Message)]
        /\ caught' \in [Handles -> Nat] /\ arrived' \in [Signums -> Nat]
    BY <1>0, <1>8, HandlerTypes
  <2> QED BY <1>0, <1>8, <2>1 DEF Handler, TypeOK
<1>9. ASSUME NEW l \in Loops, Read(l) PROVE TypeOK'
  <2>1. PICK n \in 0..Len(pipe[l]) :
             /\ buf' = [buf EXCEPT ![l] = SubSeq(pipe[l], 1, n)]
             /\ pipe' = [pipe EXCEPT ![l] = SubSeq(pipe[l], n + 1, Len(pipe[l]))]
             /\ more' = [more EXCEPT ![l] = (n = BatchSize)]
    BY <1>9, ReadParts
  <2>2. pipe[l] \in Seq(Message)
    BY <1>0 DEF TypeOK
  <2>3. SubSeq(pipe[l], 1, n) \in Seq(Message)
        /\ SubSeq(pipe[l], n + 1, Len(pipe[l])) \in Seq(Message)
    BY <2>2, NumberSplit
  <2>4. (n = BatchSize) \in BOOLEAN
    OBVIOUS
  <2>5. buf' \in [Loops -> Seq(Message)] /\ pipe' \in [Loops -> Seq(Message)]
    BY <1>0, <2>1, <2>3 DEF TypeOK
  <2>6. more' \in [Loops -> BOOLEAN]
    BY <1>0, <2>1, <2>4 DEF TypeOK
  <2> QED BY <1>0, <1>9, <2>5, <2>6 DEF Read, TypeOK, handleVars, kernelVars
<1>10. ASSUME NEW l \in Loops, Dispatch(l) \/ Return(l) PROVE TypeOK'
  <2>1. /\ pc' \in [Loops -> {"program", "dispatch", "callback"}]
        /\ UNCHANGED <<loop, handleVars, tree, kernelVars, pipe, buf, more, todo>>
    <3>1. CASE Dispatch(l)
      <4>1. pc' = [pc EXCEPT ![l] = "callback"]
        BY <3>1 DEF Dispatch
      <4> QED BY <1>0, <3>1, <4>1 DEF Dispatch, TypeOK
    <3>2. CASE Return(l)
      <4>1. pc' = [pc EXCEPT ![l] = "program"]
        BY <3>2 DEF Return
      <4> QED BY <1>0, <3>2, <4>1 DEF Return, TypeOK
    <3> QED BY <1>10, <3>1, <3>2
  <2> QED BY <1>0, <2>1 DEF TypeOK, handleVars, kernelVars
<1>11. ASSUME NEW l \in Loops, Drop(l) \/ CallbackReturns(l) PROVE TypeOK'
  <2>1. PICK h \in Handles :
          /\ h = Head(buf[l]).handle
          /\ Tail(buf[l]) \in Seq(Message)
          /\ Stopped(h) \/ UNCHANGED <<signum, tree, disposition>>
    BY <1>11, DispatchedParts
  <2>2. /\ dispatched' = [dispatched EXCEPT ![h] = @ + 1]
        /\ buf' = [buf EXCEPT ![l] = Tail(@)] /\ pc' = [pc EXCEPT ![l] = "dispatch"]
        /\ UNCHANGED <<loop, life, oneshot, caught, arrived, pipe, more, todo>>
    BY <1>11, <2>1 DEF Drop, CallbackReturns, Dispatched
  <2>3. dispatched' \in [Handles -> Nat] /\ buf' \in [Loops -> Seq(Message)]
        /\ pc' \in [Loops -> {"program", "dispatch", "callback"}]
    BY <1>0, <2>1, <2>2 DEF TypeOK
  <2>4. CASE Stopped(h)
    <3>1. /\ signum' = [signum EXCEPT ![h] = None] /\ tree' = tree \ {h}
          /\ disposition' \in [Signums -> {"default", "handler", "once"}]
      BY <1>0, <2>2, <2>4, StoppedStep
    <3> QED BY <1>0, <2>2, <2>3, <3>1 DEF TypeOK
  <2>5. CASE UNCHANGED <<signum, tree, disposition>>
    BY <1>0, <2>2, <2>3, <2>5 DEF TypeOK
  <2> QED BY <2>1, <2>4, <2>5
<1>12. ASSUME NEW l \in Loops, FinishClose(l) PROVE TypeOK'
  BY <1>0, <1>12 DEF FinishClose, TypeOK, kernelVars, loopVars
<1>13. CASE Fork
  <2>1. pipe' \in [Loops -> Seq(Message)]
    BY <1>13, EmptySeq DEF Fork
  <2> QED BY <1>0, <1>13, <2>1 DEF Fork, TypeOK
<1>14. CASE UNCHANGED vars
  BY <1>0, <1>14 DEF vars, handleVars, kernelVars, loopVars, TypeOK
<1> QED BY <1>1, <1>3, <1>4, <1>5, <1>6, <1>7, <1>8, <1>9, <1>10, <1>11, <1>12, <1>13, <1>14
        DEF Next, Polling

-----------------------------------------------------------------------------
(* A regular watcher keeps its signal handled *)

\* The critical section of uv__signal_start.
LEMMA StartedStep ==
    ASSUME IInv, NEW l \in Loops, StartLocked(l)
    PROVE  /\ todo[l].handle \in Handles /\ loop[todo[l].handle] = l
           /\ life[todo[l].handle] = "open" /\ pc[l] \in {"program", "callback"}
           /\ RegularIsHandled'
<1>1. /\ todo[l] \in Starting /\ life[todo[l].handle] = "open" /\ signum[todo[l].handle] = None
      /\ loop[todo[l].handle] = l /\ pc[l] \in {"program", "callback"}
  BY DEF IInv, StartLocked, TypeOK, Restarting
<1>2. PICK h \in Handles, s \in Signums, once \in BOOLEAN :
        /\ h = todo[l].handle /\ s = todo[l].signum /\ once = todo[l].once
  BY <1>1 DEF Starting
<1>3. /\ signum' = [signum EXCEPT ![h] = s] /\ tree' = tree \union {h}
      /\ oneshot' = IF once THEN oneshot \union {h} ELSE oneshot
      /\ disposition' =
           IF Watchers(s) = {} \/ (~once /\ FirstIsOneshot(Watchers(s)))
           THEN [disposition EXCEPT ![s] = IF once THEN "once" ELSE "handler"]
           ELSE disposition
  BY <1>2 DEF StartLocked, Registered
<1>4. /\ TypeOK /\ RegularIsHandled /\ h \notin tree
      /\ \A g \in tree : g # h /\ g \in Handles /\ signum'[g] = signum[g] /\ signum[g] \in Signums
      /\ signum'[h] = s
  BY <1>1, <1>2, <1>3 DEF IInv, TypeOK
<1>5. \A t \in Signums : t # s => disposition'[t] = disposition[t]
  BY <1>3, <1>4 DEF TypeOK
<1>6. ASSUME NEW g \in Watchers(s), g \notin oneshot
      PROVE  disposition[s] = "handler" /\ disposition' = disposition
  <2>1. disposition[s] = "handler"
    BY <1>4, <1>6 DEF RegularIsHandled, Watchers
  <2>2. Watchers(s) # {} /\ ~FirstIsOneshot(Watchers(s))
    BY <1>6 DEF FirstIsOneshot
  <2> QED BY <1>3, <2>1, <2>2
<1>7. ASSUME NEW g \in tree', g \notin oneshot' PROVE disposition'[signum'[g]] = "handler"
  <2>1. CASE g = h
    <3>1. ~once
      BY <1>3, <1>7, <2>1
    <3>2. CASE \E w \in Watchers(s) : w \notin oneshot
      BY <1>4, <1>6, <2>1, <3>2
    <3>3. CASE \A w \in Watchers(s) : w \in oneshot
      <4>1. disposition' = [disposition EXCEPT ![s] = "handler"]
        BY <1>3, <3>1, <3>3 DEF FirstIsOneshot
      <4> QED BY <1>4, <2>1, <4>1 DEF TypeOK
    <3> QED BY <3>2, <3>3
  <2>2. CASE g # h
    <3>1. g \in tree /\ g \notin oneshot
      BY <1>3, <1>7, <2>2
    <3>2. CASE signum[g] = s
      BY <1>4, <1>6, <3>1, <3>2 DEF Watchers
    <3>3. CASE signum[g] # s
      BY <1>4, <1>5, <3>1, <3>3 DEF RegularIsHandled
    <3> QED BY <3>2, <3>3
  <2> QED BY <2>1, <2>2
<1>8. ASSUME NEW t \in Signums, Watchers(t)' = {} PROVE disposition'[t] = "default"
  <2>1. t # s
    BY <1>3, <1>4, <1>8 DEF Watchers
  <2>2. Watchers(t) = {}
    BY <1>3, <1>4, <1>8 DEF Watchers
  <2> QED BY <1>4, <1>5, <2>1, <2>2 DEF RegularIsHandled
<1> QED BY <1>1, <1>2, <1>7, <1>8 DEF RegularIsHandled

LEMMA RegularStep ==
    ASSUME IInv, [Next]_vars PROVE RegularIsHandled'
<1> SUFFICES RegularIsHandled'
  OBVIOUS
<1>0. TypeOK /\ RegularIsHandled
  BY DEF IInv
<1>1. ASSUME NEW h \in Handles, SignalInit(h) PROVE RegularIsHandled'
  <2>1. h \notin tree
    BY <1>0, <1>1 DEF SignalInit, TypeOK
  <2>2. tree' = tree /\ signum' = signum /\ disposition' = disposition /\ oneshot' = oneshot \ {h}
    BY <1>1 DEF SignalInit, kernelVars
  <2> QED BY <1>0, <2>1, <2>2 DEF RegularIsHandled, Watchers
<1>2. CASE \/ \E h \in Handles : Stop(h) \/ Close(h)
           \/ \E h \in Handles, s \in Signums, once \in BOOLEAN : Start(h, s, once)
  <2>1. PICK h \in Handles : Stopped(h) /\ oneshot' = oneshot
    BY <1>2 DEF Stop, Close, Start
  <2> QED BY <1>0, <2>1, StoppedStep
<1>3. ASSUME NEW l \in Loops, StartLocked(l) PROVE RegularIsHandled'
  BY <1>3, StartedStep
<1>4. ASSUME NEW s \in Signums, Arrive(s) PROVE RegularIsHandled'
  <2>1. /\ UNCHANGED <<tree, signum, oneshot>>
        /\ disposition' = IF disposition[s] = "once" THEN [disposition EXCEPT ![s] = "default"]
                                                     ELSE disposition
    BY <1>4 DEF Arrive, handleVars
  <2>2. ASSUME NEW t \in Signums
        PROVE  disposition'[t] = IF t = s /\ disposition[t] = "once" THEN "default"
                                                                     ELSE disposition[t]
    <3>1. CASE disposition[s] = "once"
      BY <1>0, <2>1, <3>1 DEF TypeOK
    <3>2. CASE disposition[s] # "once"
      BY <2>1, <3>2
    <3> QED BY <3>1, <3>2
  <2>3. \A g \in tree : signum[g] \in Signums
    BY <1>0 DEF TypeOK
  <2> QED BY <1>0, <2>1, <2>2, <2>3 DEF RegularIsHandled, Watchers
<1>5. ASSUME NEW l \in Loops, Drop(l) \/ CallbackReturns(l) PROVE RegularIsHandled'
  <2>1. PICK h \in Handles : Stopped(h) \/ UNCHANGED <<signum, tree, disposition>>
    BY <1>5, DispatchedParts
  <2>2. oneshot' = oneshot
    BY <1>5 DEF Drop, CallbackReturns, Dispatched
  <2>3. CASE Stopped(h)
    BY <1>0, <2>2, <2>3, StoppedStep
  <2>4. CASE UNCHANGED <<signum, tree, disposition>>
    BY <1>0, <2>2, <2>4 DEF RegularIsHandled, Watchers
  <2> QED BY <2>1, <2>3, <2>4
<1>6. CASE \/ \E s \in Signums : Handler(s)
           \/ \E l \in Loops : Read(l) \/ Dispatch(l) \/ Return(l) \/ FinishClose(l)
           \/ Fork \/ UNCHANGED vars
  <2>1. UNCHANGED <<tree, signum, oneshot, disposition>>
    BY <1>6 DEF Handler, Read, Dispatch, Return, FinishClose, Fork, vars, handleVars, kernelVars
  <2> QED BY <1>0, <2>1 DEF RegularIsHandled, Watchers
<1> QED BY <1>1, <1>2, <1>3, <1>4, <1>5, <1>6 DEF Next, Polling

-----------------------------------------------------------------------------
(* Messages, and the phases of a loop *)

LEMMA AtHomeStep ==
    ASSUME IInv, [Next]_vars PROVE AtHome'
<1> DEFINE Here(q, l) == \A i \in DOMAIN q : loop[q[i].handle] = l
<1> SUFFICES AtHome'
  OBVIOUS
<1>0. /\ TypeOK
      /\ \A l \in Loops : Here(buf[l], l) /\ Here(pipe[l], l)
      /\ \A l \in Loops : buf[l] \in Seq(Message) /\ pipe[l] \in Seq(Message)
  BY DEF IInv, AtHome, TypeOK
<1>1. loop' = loop
  BY DEF Next, SignalInit, Stop, Close, Start, Arrive, Handler, Polling, Read, Dispatch, Drop,
         CallbackReturns, Dispatched, Return, StartLocked, FinishClose, Fork, vars
<1>2. ASSUME \A l \in Loops : Here(buf'[l], l) /\ Here(pipe'[l], l) PROVE AtHome'
  BY <1>1, <1>2 DEF AtHome
<1>3. ASSUME NEW s \in Signums, Handler(s) PROVE AtHome'
  <2>1. PICK order \in TreeOrders(s) :
          pipe' = [l \in Loops |-> pipe[l] \o Messages(Written(order[l], l), s)]
    BY <1>3 DEF Handler, Messages
  <2>2. ASSUME NEW l \in Loops PROVE Here(buf'[l], l) /\ Here(pipe'[l], l)
    <3> DEFINE msgs == Messages(Written(order[l], l), s)
    <3>1. msgs \in Seq(Message) /\ Here(msgs, l)
      BY <1>0, News
    <3>2. pipe'[l] = pipe[l] \o msgs
      BY <2>1
    <3> HIDE DEF msgs
    <3>3. /\ Len(pipe[l]) \in Nat /\ DOMAIN pipe[l] = 1..Len(pipe[l]) /\ Len(msgs) \in Nat
          /\ DOMAIN msgs = 1..Len(msgs) /\ DOMAIN (pipe[l] \o msgs) = 1..(Len(pipe[l]) + Len(msgs))
          /\ \A i \in 1..(Len(pipe[l]) + Len(msgs)) :
                (pipe[l] \o msgs)[i] = IF i <= Len(pipe[l]) THEN pipe[l][i]
                                                            ELSE msgs[i - Len(pipe[l])]
      BY <1>0, <3>1, LenProperties, ConcatProperties
    <3>4. ASSUME NEW i \in 1..(Len(pipe[l]) + Len(msgs))
          PROVE  loop[(pipe[l] \o msgs)[i].handle] = l
      <4>1. CASE i <= Len(pipe[l])
        BY <1>0, <3>3, <4>1
      <4>2. CASE ~(i <= Len(pipe[l]))
        <5>1. i - Len(pipe[l]) \in 1..Len(msgs)
          BY <3>3, <4>2
        <5> QED BY <3>1, <3>3, <4>2, <5>1
      <4> QED BY <4>1, <4>2
    <3>5. Here(pipe'[l], l)
      BY <3>2, <3>3, <3>4
    <3>6. buf' = buf
      BY <1>3 DEF Handler
    <3> QED BY <1>0, <3>5, <3>6
  <2> QED BY <1>2, <2>2
<1>4. ASSUME NEW l \in Loops, Read(l) PROVE AtHome'
  <2>1. PICK n \in 0..Len(pipe[l]) :
             /\ buf' = [buf EXCEPT ![l] = SubSeq(pipe[l], 1, n)]
             /\ pipe' = [pipe EXCEPT ![l] = SubSeq(pipe[l], n + 1, Len(pipe[l]))]
    BY <1>4, ReadParts
  <2> DEFINE b == SubSeq(pipe[l], 1, n)
             p == SubSeq(pipe[l], n + 1, Len(pipe[l]))
  <2>2. /\ \A i \in DOMAIN b : b[i] \in Range(pipe[l])
        /\ \A i \in DOMAIN p : p[i] \in Range(pipe[l])
    BY <1>0, NumberSplit
  <2>3. \A m \in Range(pipe[l]) : loop[m.handle] = l
    BY <1>0 DEF Range
  <2>4. Here(b, l) /\ Here(p, l)
    BY <2>2, <2>3
  <2>5. buf' = [buf EXCEPT ![l] = b] /\ pipe' = [pipe EXCEPT ![l] = p]
    BY <2>1
  <2> HIDE DEF b, p
  <2>6. ASSUME NEW k \in Loops PROVE Here(buf'[k], k) /\ Here(pipe'[k], k)
    BY <1>0, <2>4, <2>5 DEF TypeOK
  <2> QED BY <1>2, <2>6
<1>5. ASSUME NEW l \in Loops, Drop(l) \/ CallbackReturns(l) PROVE AtHome'
  <2>1. buf' = [buf EXCEPT ![l] = Tail(buf[l])] /\ pipe' = pipe
    BY <1>0, <1>5 DEF Drop, CallbackReturns, Dispatched, TypeOK
  <2>2. /\ Len(buf[l]) \in Nat /\ DOMAIN buf[l] = 1..Len(buf[l]) /\ Len(buf[l]) >= 1
        /\ DOMAIN Tail(buf[l]) = 1..(Len(buf[l]) - 1)
        /\ \A i \in 1..(Len(buf[l]) - 1) : Tail(buf[l])[i] = buf[l][i + 1]
    BY <1>5, DispatchedParts, HeadTailProperties, EmptySeq, LenProperties
  <2>3. Here(Tail(buf[l]), l)
    <3>1. \A i \in 1..(Len(buf[l]) - 1) : i + 1 \in 1..Len(buf[l])
      BY <2>2
    <3> QED BY <1>0, <2>2, <3>1
  <2>4. ASSUME NEW k \in Loops PROVE Here(buf'[k], k) /\ Here(pipe'[k], k)
    BY <1>0, <2>1, <2>3 DEF TypeOK
  <2> QED BY <1>2, <2>4
<1>6. CASE Fork
  <2>1. \A l \in Loops : pipe'[l] = <<>> /\ buf'[l] = buf[l]
    BY <1>6 DEF Fork
  <2>2. \A l : Here(<<>>, l)
    OBVIOUS
  <2> QED BY <1>0, <1>2, <2>1, <2>2
<1>7. CASE \/ \E h \in Handles : SignalInit(h) \/ Stop(h) \/ Close(h)
           \/ \E h \in Handles, s \in Signums, once \in BOOLEAN : Start(h, s, once)
           \/ \E s \in Signums : Arrive(s)
           \/ \E l \in Loops : Dispatch(l) \/ Return(l) \/ FinishClose(l) \/ StartLocked(l)
           \/ UNCHANGED vars
  <2>1. UNCHANGED <<pipe, buf>>
    BY <1>7 DEF SignalInit, Stop, Close, Start, Arrive, Dispatch, Return, FinishClose,
                StartLocked, vars, loopVars
  <2> QED BY <1>0, <1>2, <2>1
<1> QED BY <1>3, <1>4, <1>5, <1>6, <1>7 DEF Next, Polling

LEMMA PhasedStep ==
    ASSUME IInv, [Next]_vars PROVE Phased'
<1> SUFFICES Phased'
  OBVIOUS
<1>0. TypeOK /\ Phased /\ Restarting
  BY DEF IInv
<1>1. ASSUME NEW l \in Loops, Polling(l) PROVE Phased'
  <2>1. CASE Read(l)
    <3>1. PICK b : buf' = [buf EXCEPT ![l] = b]
      BY <2>1 DEF Read
    <3>2. pc' = [pc EXCEPT ![l] = "dispatch"]
      BY <2>1 DEF Read
    <3> QED BY <1>0, <3>1, <3>2 DEF Phased, TypeOK
  <2>2. CASE Dispatch(l)
    BY <1>0, <2>2 DEF Dispatch, Phased, TypeOK
  <2>3. CASE Drop(l) \/ CallbackReturns(l)
    <3>1. /\ buf' = [buf EXCEPT ![l] = Tail(buf[l])]
          /\ pc' = [pc EXCEPT ![l] = "dispatch"]
      BY <1>0, <2>3 DEF Drop, CallbackReturns, Dispatched, TypeOK
    <3> QED BY <1>0, <3>1 DEF Phased, TypeOK
  <2>4. CASE Return(l)
    BY <1>0, <2>4 DEF Return, Phased, TypeOK
  <2> QED BY <1>1, <2>1, <2>2, <2>3, <2>4 DEF Polling
<1>2. CASE \/ \E h \in Handles : SignalInit(h) \/ Stop(h) \/ Close(h)
           \/ \E h \in Handles, s \in Signums, once \in BOOLEAN : Start(h, s, once)
           \/ \E s \in Signums : Arrive(s) \/ Handler(s)
           \/ \E l \in Loops : FinishClose(l) \/ StartLocked(l)
           \/ Fork \/ UNCHANGED vars
  <2>1. UNCHANGED <<buf, pc>>
    BY <1>2 DEF SignalInit, Stop, Close, Start, Arrive, Handler, FinishClose,
                StartLocked, Fork, vars, loopVars
  <2> QED BY <1>0, <2>1 DEF Phased
<1> QED BY <1>1, <1>2 DEF Next
LEMMA RestartingStep ==
    ASSUME IInv, [Next]_vars PROVE Restarting'
<1> SUFFICES Restarting'
  OBVIOUS
<1>0. TypeOK /\ RegularIsHandled /\ Restarting
  BY DEF IInv
\* What happens on one loop leaves the starts on the others alone.
<1>1. ASSUME NEW l \in Loops, todo'[l] = None, loop' = loop,
             \A k \in Loops \ {l} : todo'[k] = todo[k] /\ pc'[k] = pc[k],
             \A h \in Handles : loop[h] # l /\ life[h] = "open" =>
                                   life'[h] = life[h] /\ signum'[h] = signum[h]
      PROVE  Restarting'
  <2> SUFFICES ASSUME NEW k \in Loops, todo'[k] # None
               PROVE  /\ pc'[k] \in {"program", "callback"} /\ loop'[todo'[k].handle] = k
                      /\ life'[todo'[k].handle] = "open" /\ signum'[todo'[k].handle] = None
    BY DEF Restarting
  <2>1. k # l /\ todo'[k] = todo[k] /\ pc'[k] = pc[k]
    BY <1>1
  <2>2. todo[k] \in Starting
    BY <1>0, <2>1 DEF TypeOK
  <2>3. PICK h \in Handles : h = todo[k].handle
    BY <2>2 DEF Starting
  <2>4. /\ pc[k] \in {"program", "callback"} /\ loop[h] = k /\ life[h] = "open" /\ signum[h] = None
    BY <1>0, <2>1, <2>3 DEF Restarting
  <2>5. life'[h] = life[h] /\ signum'[h] = signum[h]
    BY <1>1, <2>1, <2>4
  <2> QED BY <1>1, <2>1, <2>3, <2>4, <2>5
<1>2. ASSUME NEW h \in Handles, Stop(h) \/ Close(h) PROVE Restarting'
  <2>1. /\ todo' = todo /\ todo[loop[h]] = None /\ pc' = pc /\ loop' = loop
        /\ Stopped(h) /\ oneshot' = oneshot
        /\ life' = life \/ life' = [life EXCEPT ![h] = "closing"]
    BY <1>2 DEF Stop, Close, Own, Program, loopVars
  <2>2. signum' = [signum EXCEPT ![h] = None]
    BY <1>0, <2>1, StoppedStep
  <2>3. loop[h] \in Loops
    BY <1>0 DEF TypeOK
  <2>4. \A g \in Handles : loop[g] # loop[h] => life'[g] = life[g] /\ signum'[g] = signum[g]
    BY <1>0, <2>1, <2>2 DEF TypeOK
  <2> QED BY <1>1, <2>1, <2>3, <2>4
<1>3. ASSUME NEW h \in Handles, NEW s \in Signums, NEW once \in BOOLEAN, Start(h, s, once)
      PROVE  Restarting'
  <2> DEFINE start == [handle |-> h, signum |-> s, once |-> once]
  <2>1. /\ todo' = [todo EXCEPT ![loop[h]] = start] /\ pc' = pc /\ loop' = loop /\ life' = life
        /\ Stopped(h) /\ oneshot' = oneshot /\ pc[loop[h]] \in {"program", "callback"}
        /\ life[h] = "open"
    BY <1>3 DEF Start, Own, Program
  <2>2. signum' = [signum EXCEPT ![h] = None]
    BY <1>0, <2>1, StoppedStep
  <2>3. start.handle = h
    OBVIOUS
  <2> HIDE DEF start
  <2>4. ASSUME NEW k \in Loops, todo'[k] # None
        PROVE  /\ pc'[k] \in {"program", "callback"} /\ loop'[todo'[k].handle] = k
               /\ life'[todo'[k].handle] = "open" /\ signum'[todo'[k].handle] = None
    <3>1. CASE k = loop[h]
      <4>1. todo'[k] = start /\ signum'[h] = None
        BY <1>0, <2>1, <2>2, <3>1 DEF TypeOK
      <4> QED BY <2>1, <2>3, <3>1, <4>1
    <3>2. CASE k # loop[h]
      <4>1. todo'[k] = todo[k]
        BY <1>0, <2>1, <3>2 DEF TypeOK
      <4>2. todo[k] \in Starting
        BY <1>0, <2>4, <4>1 DEF TypeOK
      <4>3. PICK g \in Handles : g = todo[k].handle
        BY <4>2 DEF Starting
      <4>4. /\ pc[k] \in {"program", "callback"} /\ loop[g] = k /\ life[g] = "open"
            /\ signum[g] = None
        BY <1>0, <2>4, <4>1, <4>3 DEF Restarting
      <4>5. signum'[g] = None
        BY <1>0, <2>2, <3>2, <4>4 DEF TypeOK
      <4> QED BY <2>1, <4>1, <4>3, <4>4, <4>5
    <3> QED BY <3>1, <3>2
  <2> QED BY <2>4 DEF Restarting
<1>4. ASSUME NEW l \in Loops, StartLocked(l) PROVE Restarting'
  <2>1. PICK h \in Handles : loop[h] = l /\ signum' = [signum EXCEPT ![h] = todo[l].signum]
    BY <1>4, StartedStep DEF StartLocked
  <2>2. todo' = [todo EXCEPT ![l] = None] /\ pc' = pc /\ loop' = loop /\ life' = life
    BY <1>4 DEF StartLocked
  <2>3. \A g \in Handles : loop[g] # l => signum'[g] = signum[g]
    BY <1>0, <2>1 DEF TypeOK
  <2> QED BY <1>0, <1>1, <2>2, <2>3 DEF TypeOK
<1>5. ASSUME NEW l \in Loops, Drop(l) \/ CallbackReturns(l) PROVE Restarting'
  <2>1. PICK h \in Handles : loop[h] = l /\ (Stopped(h) \/ UNCHANGED <<signum, tree, disposition>>)
    BY <1>5, DispatchedParts
  <2>2. /\ pc' = [pc EXCEPT ![l] = "dispatch"] /\ todo[l] = None
        /\ UNCHANGED <<loop, life, oneshot, todo>>
    BY <1>5, DispatchedParts DEF Drop, CallbackReturns, Dispatched
  <2>3. CASE Stopped(h)
    <3>1. signum' = [signum EXCEPT ![h] = None]
      BY <1>0, <2>2, <2>3, StoppedStep
    <3>2. \A g \in Handles : loop[g] # l => signum'[g] = signum[g]
      BY <1>0, <2>1, <3>1 DEF TypeOK
    <3> QED BY <1>0, <1>1, <2>2, <3>2 DEF TypeOK
  <2>4. CASE UNCHANGED <<signum, tree, disposition>>
    BY <1>0, <1>1, <2>2, <2>4 DEF TypeOK
  <2> QED BY <2>1, <2>3, <2>4
<1>6. ASSUME NEW l \in Loops, Read(l) \/ Dispatch(l) \/ Return(l) PROVE Restarting'
  <2>1. todo[l] = None
    BY <1>0, <1>6 DEF Restarting, Read, Dispatch, Return
  <2>2. UNCHANGED <<loop, life, signum, todo>>
    BY <1>6 DEF Read, Dispatch, Return, handleVars
  <2>3. PICK p : pc' = [pc EXCEPT ![l] = p]
    BY <1>6 DEF Read, Dispatch, Return
  <2>4. \A k \in Loops \ {l} : pc'[k] = pc[k]
    BY <1>0, <2>3 DEF TypeOK
  <2> QED BY <1>1, <2>1, <2>2, <2>4
<1>7. CASE \/ \E h \in Handles : SignalInit(h)
           \/ \E s \in Signums : Arrive(s) \/ Handler(s)
           \/ \E l \in Loops : FinishClose(l)
           \/ Fork \/ UNCHANGED vars
  <2>1. UNCHANGED <<loop, signum, pc, todo>>
    BY <1>7 DEF SignalInit, Arrive, Handler, FinishClose, Fork, vars, handleVars, loopVars
  <2>2. \A h \in Handles : life[h] = "open" => life'[h] = "open"
    BY <1>0, <1>7 DEF SignalInit, Arrive, Handler, FinishClose, Fork, vars, handleVars, loopVars, TypeOK
  <2>3. \A l \in Loops : todo[l] # None => todo[l].handle \in Handles
    BY <1>0 DEF TypeOK, Starting
  <2> QED BY <1>0, <2>1, <2>2, <2>3 DEF Restarting
<1> QED BY <1>2, <1>3, <1>4, <1>5, <1>6, <1>7 DEF Next, Polling

-----------------------------------------------------------------------------
(* The counters of a watcher *)

LEMMA TrappedNext ==
    ASSUME TypeOK', loop' = loop, NEW h \in Handles
    PROVE  /\ Trapped(h)' = Number(buf'[loop[h]], h) + Number(pipe'[loop[h]], h)
           /\ Number(buf'[loop[h]], h) \in Nat /\ Number(pipe'[loop[h]], h) \in Nat
<1>1. buf'[loop[h]] \in Seq(Message) /\ pipe'[loop[h]] \in Seq(Message)
  BY DEF TypeOK
<1>2. Trapped(h)' = Number(buf'[loop[h]] \o pipe'[loop[h]], h)
  BY DEF Trapped, Number, To
<1> QED BY <1>1, <1>2, NumberConcat, NumberType

LEMMA CountsStep ==
    ASSUME IInv, [Next]_vars PROVE Counts'
<1> SUFFICES Counts'
  OBVIOUS
<1>0. TypeOK /\ TypeOK' /\ Counts /\ Phased
  BY TypeStep DEF IInv
<1>1. loop' = loop /\ \A h \in Handles : loop[h] \in Loops
  BY <1>0 DEF Next, SignalInit, Stop, Close, Start, Arrive, Handler, Polling, Read, Dispatch, Drop,
         CallbackReturns, Dispatched, Return, StartLocked, FinishClose, Fork, vars, TypeOK
<1> DEFINE B(h) == Number(buf[loop[h]], h)
           P(h) == Number(pipe[loop[h]], h)
           Bn(h) == Number(buf'[loop[h]], h)
           Pn(h) == Number(pipe'[loop[h]], h)
<1>2. ASSUME NEW h \in Handles
      PROVE  /\ Trapped(h) = B(h) + P(h) /\ B(h) \in Nat /\ P(h) \in Nat
             /\ Trapped(h)' = Bn(h) + Pn(h) /\ Bn(h) \in Nat /\ Pn(h) \in Nat
             /\ caught[h] \in Nat /\ dispatched[h] \in Nat
             /\ caught'[h] \in Nat /\ dispatched'[h] \in Nat
             /\ life[h] = "closed" => Trapped(h) = 0
             /\ life[h] # "closed" => caught[h] = dispatched[h] + Trapped(h)
  BY <1>0, <1>1, TrappedSum, TrappedNext DEF TypeOK, Counts, Exact
<1>3. ASSUME NEW s \in Signums, Handler(s) PROVE Counts'
  <2>1. PICK order \in TreeOrders(s) :
        /\ pipe' = [l \in Loops |-> pipe[l] \o Messages(Written(order[l], l), s)]
        /\ caught' = [h \in Handles |-> IF h \in Caught(order) THEN caught[h] + 1 ELSE caught[h]]
    BY <1>3 DEF Handler, Messages
  <2>2. UNCHANGED <<buf, life, dispatched>>
    BY <1>3 DEF Handler
  <2>3. ASSUME NEW h \in Handles PROVE Exact(h)'
    <3> DEFINE l == loop[h]
               news == Written(order[l], l)
               msgs == Messages(news, s)
    <3>1. /\ msgs \in Seq(Message) /\ Number(msgs, h) = IF h \in Range(news) THEN 1 ELSE 0
          /\ h \in Range(news) => life[h] # "closed"
      <4>1. /\ msgs \in Seq(Message) /\ Number(msgs, h) = IF h \in Range(news) THEN 1 ELSE 0
            /\ \A g \in Range(news) : g \in Watchers(s)
        BY SMTT(30), <1>0, <1>1, News
      <4> QED BY <1>0, <4>1 DEF Watchers, TypeOK
    <3>2. h \in Caught(order) <=> h \in Range(news)
      <4>1. ASSUME NEW k \in Loops, h \in Range(Written(order[k], k)) PROVE k = l
        BY <1>0, <4>1, News
      <4> QED BY <1>1, <4>1 DEF Caught
    <3>3. pipe'[l] = pipe[l] \o msgs /\ pipe[l] \in Seq(Message)
      BY <1>0, <1>1, <2>1 DEF TypeOK
    <3> HIDE DEF msgs, news
    <3>4. Number(pipe[l] \o msgs, h) = Number(pipe[l], h) + Number(msgs, h)
      BY <3>1, <3>3, NumberConcat
    <3>5. Pn(h) = P(h) + (IF h \in Range(news) THEN 1 ELSE 0) /\ Bn(h) = B(h)
      BY <2>2, <3>1, <3>3, <3>4
    <3>6. caught'[h] = caught[h] + (IF h \in Range(news) THEN 1 ELSE 0)
      <4>1. caught'[h] = IF h \in Range(news) THEN caught[h] + 1 ELSE caught[h]
        BY <2>1, <3>2
      <4>2. caught[h] \in Nat
        BY <1>2
      <4> QED BY <4>1, <4>2
    <3> HIDE DEF B, P, Bn, Pn, l
    <3>7. life'[h] = life[h] /\ dispatched'[h] = dispatched[h]
      BY <2>2
    <3>8. CASE life[h] = "closed"
      <4>1. h \notin Range(news) /\ Trapped(h) = 0
        BY <1>2, <3>1, <3>8
      <4>2. Trapped(h)' = Trapped(h)
        BY <1>2, <3>5, <4>1
      <4> QED BY <3>7, <3>8, <4>1, <4>2 DEF Exact
    <3>9. CASE life[h] # "closed"
      <4>1. caught'[h] = dispatched'[h] + Trapped(h)'
        BY <1>2, <3>5, <3>6, <3>7, <3>9
      <4> QED BY <3>7, <3>9, <4>1 DEF Exact
    <3> QED BY <3>8, <3>9
  <2> QED BY <2>3 DEF Counts
<1>4. ASSUME NEW l \in Loops, Read(l) PROVE Counts'
  <2>1. PICK n \in 0..Len(pipe[l]) :
             /\ buf[l] = <<>>
             /\ buf' = [buf EXCEPT ![l] = SubSeq(pipe[l], 1, n)]
             /\ pipe' = [pipe EXCEPT ![l] = SubSeq(pipe[l], n + 1, Len(pipe[l]))]
    BY <1>4, ReadParts
  <2>2. UNCHANGED <<life, caught, dispatched>>
    BY <1>4 DEF Read, handleVars
  <2>3. ASSUME NEW h \in Handles PROVE Bn(h) + Pn(h) = B(h) + P(h)
    <3>1. CASE loop[h] = l
      <4>1. buf'[l] = SubSeq(pipe[l], 1, n) /\ pipe'[l] = SubSeq(pipe[l], n + 1, Len(pipe[l]))
        BY <1>0, <2>1 DEF TypeOK
      <4>2. pipe[l] \in Seq(Message)
        BY <1>0 DEF TypeOK
      <4>3. Number(pipe[l], h) =
              Number(SubSeq(pipe[l], 1, n), h) + Number(SubSeq(pipe[l], n + 1, Len(pipe[l])), h)
        BY <4>2, NumberSplit
      <4>4. Number(buf[l], h) = 0
        BY <2>1, NumberEmpty
      <4>5. P(h) = Bn(h) + Pn(h) /\ B(h) = 0
        BY <3>1, <4>1, <4>3, <4>4
      <4> HIDE DEF B, P, Bn, Pn
      <4> QED BY <1>2, <4>5
    <3>2. CASE loop[h] # l
      <4>1. buf'[loop[h]] = buf[loop[h]] /\ pipe'[loop[h]] = pipe[loop[h]]
        BY <1>0, <1>1, <2>1, <3>2 DEF TypeOK
      <4> QED BY <4>1
    <3> QED BY <3>1, <3>2
  <2> HIDE DEF B, P, Bn, Pn
  <2>4. ASSUME NEW h \in Handles PROVE Exact(h)'
    BY <1>2, <2>2, <2>3 DEF Exact
  <2> QED BY <2>4 DEF Counts
<1>5. ASSUME NEW l \in Loops, Drop(l) \/ CallbackReturns(l) PROVE Counts'
  <2>1. PICK h \in Handles : h = Head(buf[l]).handle /\ loop[h] = l
    BY <1>5, DispatchedParts
  <2>2. buf[l] \in Seq(Message) /\ buf[l] # <<>>
    BY <1>5, DispatchedParts
  <2>3. /\ buf' = [buf EXCEPT ![l] = Tail(buf[l])] /\ pipe' = pipe
        /\ dispatched' = [dispatched EXCEPT ![h] = dispatched[h] + 1]
        /\ life' = life /\ caught' = caught
    BY <1>0, <1>5, <2>1 DEF Drop, CallbackReturns, Dispatched, TypeOK
  <2>4. ASSUME NEW g \in Handles
        PROVE  Pn(g) = P(g) /\ B(g) = Bn(g) + (IF g = h THEN 1 ELSE 0)
    <3>1. CASE loop[g] = l
      <4>1. Number(buf[l], g) = Number(Tail(buf[l]), g) + (IF Head(buf[l]).handle = g THEN 1 ELSE 0)
        BY <2>2, NumberTail
      <4>2. buf'[l] = Tail(buf[l])
        BY <1>0, <2>3 DEF TypeOK
      <4> QED BY <2>1, <2>3, <3>1, <4>1, <4>2
    <3>2. CASE loop[g] # l
      <4>1. buf'[loop[g]] = buf[loop[g]] /\ g # h
        BY <1>0, <1>1, <2>1, <2>3, <3>2 DEF TypeOK
      <4>2. Bn(g) = B(g) /\ Pn(g) = P(g)
        BY <2>3, <4>1
      <4> HIDE DEF B, P, Bn, Pn
      <4> QED BY <1>2, <4>1, <4>2
    <3> QED BY <3>1, <3>2
  <2> HIDE DEF B, P, Bn, Pn
  <2>5. \A g \in Handles : dispatched'[g] = dispatched[g] + (IF g = h THEN 1 ELSE 0)
    <3>1. dispatched \in [Handles -> Nat]
      BY <1>0 DEF TypeOK
    <3> QED BY <2>3, <3>1
  <2>6. ASSUME NEW g \in Handles PROVE Exact(g)'
    <3>1. Trapped(g) = Trapped(g)' + (IF g = h THEN 1 ELSE 0) /\ Trapped(g)' \in Nat
      BY <1>2, <2>4
    <3>2. /\ caught'[g] = caught[g] /\ life'[g] = life[g] /\ dispatched[g] \in Nat
          /\ dispatched'[g] = dispatched[g] + (IF g = h THEN 1 ELSE 0)
          /\ life[g] = "closed" => Trapped(g) = 0
          /\ life[g] # "closed" => caught[g] = dispatched[g] + Trapped(g)
      BY <1>2, <2>3, <2>5
    <3> QED BY <3>1, <3>2 DEF Exact
  <2> QED BY <2>6 DEF Counts
<1>6. CASE Fork
  <2>1. ASSUME NEW h \in Handles PROVE Exact(h)'
    <3>1. /\ pipe'[loop[h]] = <<>> /\ buf'[loop[h]] = <<>> /\ life' = life
          /\ life[h] # "closed" => caught'[h] = 0 /\ dispatched'[h] = 0
      BY <1>0, <1>1, <1>6 DEF Fork, Phased
    <3>2. Bn(h) = 0 /\ Pn(h) = 0
      BY <3>1, NumberEmpty
    <3> HIDE DEF B, P, Bn, Pn
    <3>3. Trapped(h)' = 0
      BY <1>2, <3>2
    <3>4. life[h] # "closed" => caught'[h] = dispatched'[h] + Trapped(h)'
      BY <3>1, <3>3
    <3> QED BY <3>1, <3>3, <3>4 DEF Exact
  <2> QED BY <2>1 DEF Counts
<1>7. CASE \/ \E h \in Handles : SignalInit(h) \/ Stop(h) \/ Close(h)
           \/ \E h \in Handles, s \in Signums, once \in BOOLEAN : Start(h, s, once)
           \/ \E s \in Signums : Arrive(s)
           \/ \E l \in Loops : Dispatch(l) \/ Return(l) \/ FinishClose(l) \/ StartLocked(l)
           \/ UNCHANGED vars
  <2>1. UNCHANGED <<pipe, buf>>
    BY <1>7 DEF SignalInit, Stop, Close, Start, Arrive, Dispatch, Return, FinishClose,
                StartLocked, vars, loopVars
  <2>2. \A h \in Handles : Trapped(h)' = Trapped(h)
    BY <1>1, <2>1 DEF Trapped
  <2>3. ASSUME NEW h \in Handles, SignalInit(h) PROVE Counts'
    <3>1. /\ life[h] = "closed" /\ life' = [life EXCEPT ![h] = "open"]
          /\ caught' = [caught EXCEPT ![h] = 0] /\ dispatched' = [dispatched EXCEPT ![h] = 0]
      BY <2>3 DEF SignalInit
    <3>2. \A g \in Handles : g # h =>
             life'[g] = life[g] /\ caught'[g] = caught[g] /\ dispatched'[g] = dispatched[g]
      BY <1>0, <3>1 DEF TypeOK
    <3>3. life'[h] = "open" /\ caught'[h] = 0 /\ dispatched'[h] = 0
      BY <1>0, <3>1 DEF TypeOK
    <3>4. ASSUME NEW g \in Handles PROVE Exact(g)'
      <4>1. CASE g = h
        BY <1>2, <2>2, <3>1, <3>3, <4>1 DEF Exact
      <4>2. CASE g # h
        BY <1>2, <2>2, <3>2, <4>2 DEF Exact
      <4> QED BY <4>1, <4>2
    <3> QED BY <3>4 DEF Counts
  <2>4. ASSUME NEW l \in Loops, FinishClose(l) PROVE Counts'
    <3>1. /\ UNCHANGED <<caught, dispatched>>
          /\ \A h \in Handles : \/ life'[h] = life[h]
                                \/ /\ life[h] = "closing" /\ ~(caught[h] > dispatched[h])
                                   /\ life'[h] = "closed"
      BY <2>4 DEF FinishClose
    <3>2. ASSUME NEW g \in Handles PROVE Exact(g)'
      BY <1>2, <2>2, <3>1 DEF Exact
    <3> QED BY <3>2 DEF Counts
  <2>5. CASE \/ \E h \in Handles : Stop(h) \/ Close(h)
             \/ \E h \in Handles, s \in Signums, once \in BOOLEAN : Start(h, s, once)
             \/ \E s \in Signums : Arrive(s)
             \/ \E l \in Loops : Dispatch(l) \/ Return(l) \/ StartLocked(l)
             \/ UNCHANGED vars
    <3>1. UNCHANGED <<caught, dispatched>>
      BY <2>5 DEF Stop, Close, Start, Arrive, Dispatch, Return, StartLocked, vars, handleVars
    <3>2. \A g \in Handles : life'[g] = "closed" <=> life[g] = "closed"
      <4>1. CASE \/ \E h \in Handles : Stop(h)
                 \/ \E h \in Handles, s \in Signums, once \in BOOLEAN : Start(h, s, once)
                 \/ \E s \in Signums : Arrive(s)
                 \/ \E l \in Loops : Dispatch(l) \/ Return(l) \/ StartLocked(l)
                 \/ UNCHANGED vars
        <5>1. life' = life
          BY <4>1 DEF Stop, Start, Arrive, Dispatch, Return, StartLocked, vars, handleVars
        <5> QED BY <5>1
      <4>2. ASSUME NEW h \in Handles, Close(h) PROVE \A g \in Handles : life'[g] = "closed" <=> life[g] = "closed"
        BY <1>0, <4>2 DEF Close, TypeOK
      <4> QED BY <2>5, <4>1, <4>2
    <3>3. ASSUME NEW g \in Handles PROVE Exact(g)'
      BY <1>2, <2>2, <3>1, <3>2 DEF Exact
    <3> QED BY <3>3 DEF Counts
  <2> QED BY <1>7, <2>3, <2>4, <2>5
<1> QED BY <1>3, <1>4, <1>5, <1>6, <1>7 DEF Next, Polling

-----------------------------------------------------------------------------
(* The theorems *)

LEMMA InitInv == Init => IInv
<1> SUFFICES ASSUME Init PROVE IInv
  OBVIOUS
<1>1. loop \in [Handles -> Loops]
  <2>1. PICK home \in Homes : loop \in [Handles -> home]
    BY DEF Init
  <2> QED BY <2>1
<1>2. \A l \in Loops : pipe[l] = <<>> /\ buf[l] = <<>>
  BY DEF Init
<1>3. TypeOK
  <2>1. pipe \in [Loops -> Seq(Message)] /\ buf \in [Loops -> Seq(Message)]
    BY EmptySeq DEF Init
  <2>2. tree = {h \in Handles : signum[h] # None} /\ \A h \in tree : life[h] = "open"
    BY DEF Init
  <2>3. todo \in [Loops -> Starting \union {None}] /\ signum \in [Handles -> Signums \union {None}]
    BY DEF Init
  <2> QED BY <1>1, <2>1, <2>2, <2>3 DEF Init, TypeOK
<1>4. RegularIsHandled
  BY DEF Init, RegularIsHandled
<1>5. AtHome
  BY <1>2 DEF AtHome
<1>6. Phased /\ Restarting
  BY DEF Init, Phased, Restarting
<1>7. Counts
  <2>1. ASSUME NEW h \in Handles PROVE Exact(h)
    <3>1. Trapped(h) = Number(buf[loop[h]], h) + Number(pipe[loop[h]], h) /\ loop[h] \in Loops
      BY <1>1, <1>3, TrappedSum
    <3>2. Number(buf[loop[h]], h) = 0 /\ Number(pipe[loop[h]], h) = 0
      BY <1>2, <3>1, NumberEmpty
    <3> QED BY <3>1, <3>2 DEF Exact, Init
  <2> QED BY <2>1 DEF Counts
<1> QED BY <1>3, <1>4, <1>5, <1>6, <1>7 DEF IInv

LEMMA NextInv == IInv /\ [Next]_vars => IInv'
BY TypeStep, RegularStep, AtHomeStep, PhasedStep, RestartingStep, CountsStep DEF IInv

LEMMA Invariance == Spec => []IInv
BY InitInv, NextInv, PTL DEF Spec

\* Every variable of the watchers, the loops and the kernel keeps its type, and the tree holds
\* exactly the open handles that watch a signal.
THEOREM TypeCorrect == Spec => []TypeOK
<1>1. IInv => TypeOK
  BY DEF IInv
<1> QED BY <1>1, Invariance, PTL

\* A regular watcher keeps its signal handled whatever one-shot watchers come and go on whatever
\* loop, and a signal nobody watches has its default disposition (uv__signal_stop).
THEOREM RegularStaysHandled == Spec => []RegularIsHandled
<1>1. IInv => RegularIsHandled
  BY DEF IInv
<1> QED BY <1>1, Invariance, PTL

\* caught_signals - dispatched_signals is the number of messages on their way to the watcher,
\* through restarts, full pipes and forks: what uv__finish_close relies on.
THEOREM CountersTell == Spec => []CountsAreExact
<1>1. IInv => CountsAreExact
  BY DEF IInv, Counts, Exact, CountsAreExact
<1> QED BY <1>1, Invariance, PTL

\* When the close callback has been called, and the program may free the handle, no message in a
\* pipe or a buffer points to it.
THEOREM ClosedAreForgotten == Spec => []NoDanglingMessages
<1>1. IInv => NoDanglingMessages
  BY DEF IInv, Counts, Exact, NoDanglingMessages
<1> QED BY <1>1, Invariance, PTL
=============================================================================
