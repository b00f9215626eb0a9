-------------------------------- MODULE IoParts --------------------------------
(***************************************************************************)
(* The parts of the Darwin back end around descriptors, and the proofs     *)
(* that each is right for every size.                                      *)
(*                                                                         *)
(* A stream keeps its books and its promises for any number of writes of   *)
(* any size: write_queue_size and the loop's count of requests are exact   *)
(* at every step, through partial writes, errors and whatever the program  *)
(* does in callbacks, and what the program sees of its requests is what    *)
(* StreamRequests allows.  The argument is about the three queues read as  *)
(* one (Unanswered): only uv_write2 adds to its end and only a write       *)
(* callback takes from its front; everything else, the flushes of a failed *)
(* or closed stream included, moves requests between the queues without    *)
(* changing their order.  After streams come UDP, servers, the select      *)
(* thread, the kqueue backend, file polling, and writes and copies.        *)
(***************************************************************************)
EXTENDS Stream, QueueProofs

CONSTANTS
    Datagrams, RecvMax, Chunks,
    MaxFds, Grow,
    ReadBuf, MaxBytes,
    Watchers, PollHandles, Fds, Full,
    Contexts, Versions,
    FileSize, IovMax, Chunk

VARIABLES udp, acc, sel, kq, fsp, fio

Udp == INSTANCE Udp
Accept == INSTANCE Accept
Select == INSTANCE SelectThread
Kqueue == INSTANCE Kqueue
FsPoll == INSTANCE FsPoll
FsIo == INSTANCE FsIo

\* TypeOK without the two numbers, which need the rest.
Typed ==
    /\ life \in {"open", "closing", "closed"} /\ fd \in BOOLEAN
    /\ link \in {"none", "connecting", "up", "refused", "reset"}
    /\ flags \subseteq {"READABLE", "WRITABLE", "SHUT", "READING", "BLOCKING_WRITES"}
    /\ connectReq \in BOOLEAN /\ delayedError \in BOOLEAN /\ shutdownReq \in BOOLEAN
    /\ writeQueue \in Seq(Writes) /\ completed \in Seq(Writes) /\ local \in Seq(Writes)
    /\ left \in [Writes -> 0..MaxSize] /\ error \in [Writes -> {"unused", "ok", "failed"}]
    /\ polled \subseteq {"IN", "OUT"} /\ fed \in BOOLEAN
    /\ at \in {"loop", "connectFailed", "write", "callbacks", "calling", "lastCallbacks", "drain",
               "read", "readFailed", "destroy", "destroyCallbacks", "done"}
    /\ cb \in BOOLEAN /\ writing \in BOOLEAN /\ count \in 0..WriteCount /\ reads \in 0..ReadCount
    /\ ended \in BOOLEAN /\ verdict \in [Writes -> {"none", "ok", "failed"}]

\* A request is in one queue, in one place of it, until it is answered; what stands
\* before the write queue is written or has failed; the rest was never used.
Waiting ==
    /\ Distinct(Unanswered)
    /\ \A w \in Writes :
         /\ Contains(writeQueue, w) => error[w] = "ok"
         /\ Contains(local, w) \/ Contains(completed, w) => error[w] # "unused"
         /\ error[w] = "ok" /\ ~Contains(writeQueue, w) => left[w] = 0
         /\ error[w] = "unused" => ~Contains(Unanswered, w)
         /\ Contains(Unanswered, w) \/ error[w] = "unused" => verdict[w] = "none"

\* The loop looks after a stream that has a descriptor; what is asked of a stream is asked
\* of one that has, or is getting, a connection; nothing is written behind a shutdown.
Asked ==
    /\ "READABLE" \in flags \/ "WRITABLE" \in flags \/ fed \/ polled # {} \/ writing => fd
    /\ fd => life = "open" /\ link # "none"
    /\ "WRITABLE" \in flags => ~shutdownReq /\ ~ended
    /\ connectReq \/ shutdownReq \/ ended \/ writeQueue # <<>> => link # "none"
    /\ ended => writeQueue = <<>> /\ ~shutdownReq
    /\ writing => ~connectReq

\* Where the loop is says where requests can be.
Placed ==
    /\ local # <<>> => at \in {"calling", "lastCallbacks", "destroyCallbacks"}
    /\ at = "write" => writing /\ ~cb
    /\ at \in {"write", "callbacks", "calling", "drain", "connectFailed"} => ~connectReq /\ link # "none"
    /\ at = "drain" => writeQueue = <<>> /\ ~cb
    /\ life = "closed" <=> at \in {"destroy", "destroyCallbacks", "done"}
    /\ life = "closed" => ~connectReq
    /\ at \in {"destroyCallbacks", "done"} => completed = <<>> /\ writeQueue = <<>>
    /\ at = "done" => local = <<>> /\ ~shutdownReq

\* The two counts, and nothing else.
Counted ==
    /\ queueSize = Bytes(Unanswered)
    /\ activeReqs = Len(Unanswered) + (IF connectReq THEN 1 ELSE 0) + (IF shutdownReq THEN 1 ELSE 0)

IInv == Typed /\ Waiting /\ Asked /\ Placed /\ Counted

\* The steps that leave the queues alone.
Asking == Connect \/ ConnectPipeFails \/ Shutdown \/ ReadStart \/ ReadStop \/ Close \/ Connected \/ Reset
Going ==
    \/ RunPending \/ PollOut \/ PollIn \/ FinishClose
    \/ WriteNothing \/ Called \/ CalledLast \/ Drain \/ DestroyDrain \/ CallbackReturns
    \/ Read \/ ReadEof \/ ReadFails \/ ReadFailed \/ ReadEnds

-----------------------------------------------------------------------------
(* The initial state *)

LEMMA InitInv == Init => IInv
<1> SUFFICES ASSUME Init PROVE IInv
  OBVIOUS
<1>1. /\ <<>> \in Seq(Writes) /\ Distinct(<<>>) /\ \A w : ~Contains(<<>>, w)
      /\ <<>> \o <<>> \o <<>> = <<>> /\ Len(<<>>) = 0
  BY EmptyQueue, EmptySeq, ConcatEmptySeq
<1>2. Typed
  <2>1. /\ link \in {"none", "up"} /\ fd \in BOOLEAN
        /\ flags \subseteq {"READABLE", "WRITABLE", "SHUT", "READING", "BLOCKING_WRITES"}
    BY DEF Init
  <2>2. left \in [Writes -> 0..MaxSize] /\ 0 \in 0..WriteCount /\ 0 \in 0..ReadCount
    BY StreamAssumption DEF Init, StreamAssumption
  <2>3. error \in [Writes -> {"unused", "ok", "failed"}] /\ verdict \in [Writes -> {"none", "ok", "failed"}]
    BY DEF Init
  <2> QED BY <1>1, <2>1, <2>2, <2>3 DEF Init, Typed
<1>3. Unanswered = <<>>
  BY <1>1 DEF Init, Unanswered
<1>4. Waiting
  BY <1>1, <1>3 DEF Init, Waiting
<1>5. Asked /\ Placed
  BY DEF Init, Asked, Placed
<1>6. Counted
  <2>1. left \in [Writes -> Nat]
    BY StreamAssumption DEF Init, StreamAssumption
  <2>2. Bytes(Unanswered) = 0
    BY <1>3, <2>1, TotalEmpty DEF Bytes
  <2> QED BY <1>1, <1>3, <2>2 DEF Init, Counted
<1> QED BY <1>2, <1>4, <1>5, <1>6 DEF IInv

-----------------------------------------------------------------------------
(* The steps that leave the queues alone *)

LEMMA GoingOn ==
    ASSUME Typed, Asking \/ Going
    PROVE  UNCHANGED <<writeQueue, completed, local, left, error, queueSize, verdict>>
<1>1. CASE Asking
  BY <1>1 DEF Asking, Connect, ConnectPipeFails, Shutdown, ReadStart, ReadStop, Close, Connected, Reset,
              writeVars, history
<1>2. CASE Going
  BY <1>2 DEF Going, RunPending, PollOut, PollIn, FinishClose, WriteNothing, Called, CalledLast, Drain,
              DestroyDrain, CallbackReturns, Read, ReadEof, ReadFails, ReadFailed, ReadEnds, writeVars, history
<1> QED BY <1>1, <1>2

LEMMA GoingTyped ==
    ASSUME Typed, Asking \/ Going PROVE Typed'
<1>0. UNCHANGED <<writeQueue, completed, local, left, error, queueSize, verdict>>
  BY GoingOn
<1>1. ReadCount \in 0..ReadCount /\ WriteCount \in 0..WriteCount /\ 0 \in 0..WriteCount
  BY StreamAssumption DEF StreamAssumption
<1>2. CASE Connect \/ ConnectPipeFails
  BY <1>0, <1>2 DEF Connect, ConnectPipeFails, Typed, control, step, history
<1>3. CASE Shutdown \/ ReadStart \/ ReadStop \/ Close
  <2>1. CASE Shutdown
    BY <1>0, <2>1 DEF Shutdown, Typed, control, step, history
  <2>2. CASE ReadStart
    BY <1>0, <2>2 DEF ReadStart, Typed, requestVars, control, step, history
  <2>3. CASE ReadStop
    BY <1>0, <2>3 DEF ReadStop, Typed, requestVars, control, step, history
  <2>4. CASE Close
    BY ZenonT(60), <1>0, <2>4 DEF Close, Typed, requestVars, control, step, history
  <2> QED BY <1>3, <2>1, <2>2, <2>3, <2>4
<1>4. CASE Connected \/ Reset
  <2>1. CASE Connected
    BY <1>0, <2>1 DEF Connected, Typed, requestVars, watcherVars, control, step, history
  <2>2. CASE Reset
    BY <1>0, <2>2 DEF Reset, Typed, requestVars, watcherVars, control, step, history
  <2> QED BY <1>4, <2>1, <2>2
<1>5. ASSUME StreamOut PROVE /\ connectReq' \in BOOLEAN /\ delayedError' \in BOOLEAN
                             /\ polled' \subseteq {"IN", "OUT"} /\ cb' \in BOOLEAN
                             /\ writing' \in BOOLEAN /\ count' \in 0..WriteCount
                             /\ at' \in {at, "connectFailed", "loop", "write"}
  BY <1>1, <1>5 DEF StreamOut, StreamConnect, Typed
<1>6. CASE RunPending \/ PollOut
  BY ZenonT(60), <1>0, <1>5, <1>6 DEF RunPending, PollOut, Loop, Typed, handle, history
<1>7. CASE PollIn
  BY <1>0, <1>1, <1>7 DEF PollIn, StreamConnect, Loop, Typed, handle, history
<1>8. CASE FinishClose
  BY <1>0, <1>8 DEF FinishClose, Typed, watcherVars, step, history
<1>9. CASE WriteNothing
  BY ZenonT(60), <1>0, <1>1, <1>9 DEF WriteNothing, Return, Typed, handle, requestVars, watcherVars, history
<1>10. CASE Called \/ CalledLast \/ CallbackReturns \/ ReadEnds
  <2>1. /\ UNCHANGED <<handle, requestVars, watcherVars, step, history>>
        /\ at' \in {at, "drain", "loop"} /\ cb' \in BOOLEAN
    BY <1>10 DEF Called, CalledLast, CallbackReturns, ReadEnds, Typed
  <2>2. at' \in {"loop", "connectFailed", "write", "callbacks", "calling", "lastCallbacks", "drain",
                 "read", "readFailed", "destroy", "destroyCallbacks", "done"}
    BY <2>1 DEF Typed
  <2> QED BY <1>0, <2>1, <2>2 DEF Typed, handle, requestVars, watcherVars, step, history
<1>11. CASE Drain \/ DestroyDrain
  <2>1. /\ UNCHANGED <<life, fd, link, connectReq, delayedError, fed, step>>
        /\ at' \in {"loop", "done"} /\ polled' \subseteq polled /\ shutdownReq' \in BOOLEAN
        /\ flags' \subseteq flags \union {"SHUT"} /\ cb' \in BOOLEAN /\ ended' \in BOOLEAN
    BY <1>11 DEF Drain, DestroyDrain, DrainTo, Typed
  <2> QED BY <1>0, <2>1 DEF Typed, step
<1>12. CASE Read
  <2>1. reads - 1 \in 0..ReadCount
    BY <1>12, StreamAssumption DEF Read, Typed, StreamAssumption
  <2> QED BY <1>0, <1>12, <2>1 DEF Read, Typed, handle, requestVars, watcherVars, history
<1>13. CASE ReadEof \/ ReadFails \/ ReadFailed
  <2>1. /\ UNCHANGED <<life, fd, link, requestVars, fed, step, history>>
        /\ flags' \subseteq flags /\ polled' \subseteq polled
        /\ cb' \in BOOLEAN /\ at' \in {"loop", "readFailed"}
    BY <1>13 DEF ReadEof, ReadFails, ReadFailed, watcherVars, Typed
  <2> QED BY <1>0, <2>1 DEF Typed, requestVars, step, history
<1> QED BY <1>2, <1>3, <1>4, <1>6, <1>7, <1>8, <1>9, <1>10, <1>11, <1>12, <1>13 DEF Asking, Going

\* A request that is asked for or answered is counted at once.
LEMMA GoingCounted ==
    ASSUME IInv, Asking \/ Going PROVE Waiting' /\ Counted'
<1>0. UNCHANGED <<writeQueue, completed, local, left, error, queueSize, verdict>>
  BY GoingOn DEF IInv
<1>1. Unanswered' = Unanswered /\ Bytes(Unanswered)' = Bytes(Unanswered)
  BY <1>0 DEF Unanswered, Bytes
<1>2. Waiting'
  BY <1>0, <1>1 DEF IInv, Waiting
<1> DEFINE One(x) == IF x THEN 1 ELSE 0
<1>3. PICK n \in Nat : n = Len(Unanswered)
  BY ThreeQueues, LenProperties DEF IInv, Typed, Unanswered
<1>4. /\ activeReqs = n + One(connectReq) + One(shutdownReq)
      /\ connectReq \in BOOLEAN /\ shutdownReq \in BOOLEAN
  BY <1>3 DEF IInv, Counted, Typed
<1>5. activeReqs' = n + One(connectReq') + One(shutdownReq')
  <2>1. CASE UNCHANGED <<connectReq, shutdownReq, activeReqs>>
    BY <1>4, <2>1
  <2>2. CASE Connect \/ ConnectPipeFails
    <3>1. ~connectReq /\ connectReq' = TRUE /\ activeReqs' = activeReqs + 1 /\ shutdownReq' = shutdownReq
      BY <2>2 DEF Connect, ConnectPipeFails
    <3> QED BY <1>3, <1>4, <3>1
  <2>3. CASE Shutdown
    <3>1. ~shutdownReq /\ shutdownReq' = TRUE /\ activeReqs' = activeReqs + 1 /\ connectReq' = connectReq
      BY <2>3 DEF Shutdown
    <3> QED BY <1>3, <1>4, <3>1
  <2>4. ASSUME StreamConnect, connectReq, shutdownReq' = shutdownReq
        PROVE  activeReqs' = n + One(connectReq') + One(shutdownReq')
    <3>1. CASE UNCHANGED <<connectReq, activeReqs>>
      BY <1>4, <2>4, <3>1
    <3>2. CASE connectReq' = FALSE /\ activeReqs' = activeReqs - 1
      BY <1>3, <1>4, <2>4, <3>2
    <3> QED BY <2>4, <3>1, <3>2 DEF StreamConnect
  <2>5. CASE RunPending \/ PollOut \/ PollIn
    BY <2>1, <2>4, <2>5 DEF RunPending, PollOut, PollIn, StreamOut
  <2>6. CASE FinishClose
    <3>1. connectReq' = FALSE /\ activeReqs' = (IF connectReq THEN activeReqs - 1 ELSE activeReqs)
          /\ shutdownReq' = shutdownReq
      BY <2>6 DEF FinishClose
    <3> QED BY <1>3, <1>4, <3>1
  <2>7. CASE Drain \/ DestroyDrain
    <3>1. /\ connectReq' = connectReq
          /\ \/ shutdownReq /\ shutdownReq' = FALSE /\ activeReqs' = activeReqs - 1
             \/ ~shutdownReq /\ UNCHANGED <<shutdownReq, activeReqs>>
      BY <2>7 DEF Drain, DestroyDrain, DrainTo
    <3>2. CASE shutdownReq /\ shutdownReq' = FALSE /\ activeReqs' = activeReqs - 1
      BY <1>3, <1>4, <3>1, <3>2
    <3>3. CASE UNCHANGED <<shutdownReq, activeReqs>>
      BY <1>4, <3>1, <3>3
    <3> QED BY <3>1, <3>2, <3>3
  <2>8. CASE \/ ReadStart \/ ReadStop \/ Close \/ Connected \/ Reset
             \/ WriteNothing \/ Called \/ CalledLast \/ CallbackReturns
             \/ Read \/ ReadEof \/ ReadFails \/ ReadFailed \/ ReadEnds
    <3>1. UNCHANGED <<connectReq, shutdownReq, activeReqs>>
      BY <2>8 DEF ReadStart, ReadStop, Close, Connected, Reset, WriteNothing, Called, CalledLast,
                  CallbackReturns, Read, ReadEof, ReadFails, ReadFailed, ReadEnds, requestVars
    <3> QED BY <2>1, <3>1
  <2> QED BY <2>2, <2>3, <2>5, <2>6, <2>7, <2>8 DEF Asking, Going
<1>6. Counted'
  BY <1>0, <1>1, <1>3, <1>5 DEF IInv, Counted
<1> QED BY <1>2, <1>6

-----------------------------------------------------------------------------
(* The steps that change the queues *)

\* The three queues read as one.
LEMMA AsOne ==
    ASSUME Typed
    PROVE  /\ Unanswered \in Seq(Writes) /\ Len(Unanswered) \in Nat
           /\ local \o completed \in Seq(Writes)
           /\ Len(Unanswered) = Len(local) + Len(completed) + Len(writeQueue)
           /\ \A w : Contains(Unanswered, w) <=>
                       Contains(local, w) \/ Contains(completed, w) \/ Contains(writeQueue, w)
           /\ Distinct(Unanswered) =>
                \A w \in Writes : /\ Contains(local, w) => ~Contains(completed, w) /\ ~Contains(writeQueue, w)
                                  /\ Contains(completed, w) => ~Contains(writeQueue, w)
           /\ Distinct(Unanswered) => Distinct(local) /\ Distinct(completed) /\ Distinct(writeQueue)
           /\ left \in [Writes -> Nat]
<1>1. local \in Seq(Writes) /\ completed \in Seq(Writes) /\ writeQueue \in Seq(Writes)
  BY DEF Typed
<1>2. left \in [Writes -> Nat]
  BY StreamAssumption DEF Typed, StreamAssumption
<1>3. /\ local \o completed \in Seq(Writes) /\ local \o completed \o writeQueue \in Seq(Writes)
      /\ Len(local \o completed \o writeQueue) = Len(local) + Len(completed) + Len(writeQueue)
  BY <1>1, ThreeQueues
<1>4. \A w : Contains(local \o completed \o writeQueue, w) <=>
               Contains(local, w) \/ Contains(completed, w) \/ Contains(writeQueue, w)
  BY <1>1, ThreeQueues
<1>5. Distinct(local \o completed \o writeQueue) =>
        \A w \in Writes : /\ Contains(local, w) => ~Contains(completed, w) /\ ~Contains(writeQueue, w)
                          /\ Contains(completed, w) => ~Contains(writeQueue, w)
  <2>1. ASSUME Distinct(local \o completed \o writeQueue), NEW w \in Writes
        PROVE  /\ Contains(local, w) => ~Contains(completed, w) /\ ~Contains(writeQueue, w)
               /\ Contains(completed, w) => ~Contains(writeQueue, w)
    BY <1>1, <2>1, ThreeApart
  <2> QED BY <2>1
<1>6. Distinct(local \o completed \o writeQueue) => Distinct(local) /\ Distinct(completed) /\ Distinct(writeQueue)
  BY <1>1, ThreeQueues
<1>7. Unanswered \in Seq(Writes) => Len(Unanswered) \in Nat
  BY LenProperties
<1>8. Unanswered = local \o completed \o writeQueue
  BY DEF Unanswered
<1> QED BY <1>2, <1>3, <1>4, <1>5, <1>6, <1>7, <1>8

\* What the counts have in common with one request more or less.
LEMMA Recount ==
    ASSUME Typed, Counted, NEW k \in {-1, 0, 1}, UNCHANGED <<connectReq, shutdownReq>>,
           Len(Unanswered') = Len(Unanswered) + k, activeReqs' = activeReqs + k,
           queueSize' = Bytes(Unanswered)'
    PROVE  Counted'
<1> DEFINE One(x) == IF x THEN 1 ELSE 0
<1>1. PICK n \in Nat : n = Len(Unanswered)
  BY AsOne
<1>2. PICK c \in Nat : c = One(connectReq)
  BY DEF Typed
<1>3. PICK s \in Nat : s = One(shutdownReq)
  BY DEF Typed
<1>4. activeReqs = n + c + s
  BY <1>1, <1>2, <1>3 DEF Counted
<1>5. activeReqs' = Len(Unanswered') + c + s
  BY <1>1, <1>4
<1>6. c = One(connectReq') /\ s = One(shutdownReq')
  BY <1>2, <1>3
<1> QED BY <1>5, <1>6 DEF Counted

LEMMA WriteStep ==
    ASSUME IInv, NEW w \in Writes, NEW n \in Sizes, Write(w, n)
    PROVE  /\ Typed' /\ Waiting' /\ Counted'
           /\ Unanswered' = Append(Unanswered, w)
<1>0. Typed /\ n \in 0..MaxSize /\ WriteCount \in 0..WriteCount /\ error[w] = "unused" /\ ~Contains(Unanswered, w)
  BY StreamAssumption DEF IInv, Waiting, Write, StreamAssumption
<1>1. /\ writeQueue' = Append(writeQueue, w) /\ writeQueue' \in Seq(Writes)
      /\ \A y : Contains(writeQueue', y) <=> Contains(writeQueue, y) \/ y = w
      /\ UNCHANGED <<completed, local, verdict>>
      /\ left' = [left EXCEPT ![w] = n] /\ error' = [error EXCEPT ![w] = "ok"]
  <2>1. writeQueue \in Seq(Writes)
    BY <1>0 DEF Typed
  <2> QED BY <2>1, AppendQueue DEF Write, history
<1>2. Typed'
  <2>1. /\ UNCHANGED <<handle, requestVars, fed, at, cb, reads, history>>
        /\ writing' \in BOOLEAN /\ count' \in 0..WriteCount /\ polled' \subseteq {"IN", "OUT"}
    BY <1>0 DEF Write, Typed
  <2> QED BY <1>0, <1>1, <2>1 DEF Typed, handle, requestVars, history
<1>3. Unanswered' = Append(Unanswered, w)
  <2>1. /\ local \in Seq(Writes) /\ completed \in Seq(Writes) /\ writeQueue \in Seq(Writes)
        /\ local \o completed \in Seq(Writes)
    BY <1>0, AsOne DEF Typed
  <2>2. (local \o completed) \o Append(writeQueue, w) = Append((local \o completed) \o writeQueue, w)
    BY <2>1, AppendConcat
  <2> QED BY <1>1, <2>2 DEF Unanswered
<1>4. /\ Unanswered' \in Seq(Writes) /\ Distinct(Unanswered')
      /\ \A y : Contains(Unanswered', y) <=> Contains(Unanswered, y) \/ y = w
  BY <1>0, <1>3, AsOne, AppendQueue DEF IInv, Waiting
<1>5. Waiting'
  BY <1>0, <1>1, <1>4 DEF IInv, Waiting, Typed
<1>6. left' \in [Writes -> Nat] /\ left'[w] = n /\ \A y \in Writes \ {w} : left'[y] = left[y]
  BY <1>0, <1>1, AsOne, StreamAssumption DEF StreamAssumption
<1>7. Unanswered \in Seq(Writes) /\ Distinct(Unanswered) /\ left \in [Writes -> Nat]
  BY <1>0, AsOne DEF IInv, Waiting
<1>8. Total(Unanswered, left') = Total(Unanswered, left)
  BY <1>0, <1>6, <1>7, ChangeTotal
<1>10. Total(Unanswered', left') = Total(Unanswered, left) + n
  BY <1>3, <1>6, <1>7, <1>8, AppendTotal
<1>9. Counted'
  <2>1. Len(Unanswered') = Len(Unanswered) + 1 /\ Len(Unanswered) \in Nat
    BY <1>0, <1>3, AsOne, AppendProperties
  <2>2. queueSize' = queueSize + n /\ activeReqs' = activeReqs + 1 /\ UNCHANGED <<connectReq, shutdownReq>>
    BY DEF Write, requestVars
  <2>3. queueSize' = Bytes(Unanswered)'
    BY <1>10, <2>2 DEF IInv, Counted, Bytes
  <2> QED BY <1>0, <2>1, <2>2, <2>3, Recount DEF IInv
<1> QED BY <1>2, <1>3, <1>5, <1>9

\* A request that goes from the write queue to the completed ones keeps its place.
LEMMA HeadMoves ==
    ASSUME Typed, writeQueue # <<>>
    PROVE  local \o Append(completed, Head(writeQueue)) \o Tail(writeQueue) = Unanswered
<1> DEFINE x == Head(writeQueue)
           t == Tail(writeQueue)
<1>1. /\ local \in Seq(Writes) /\ completed \in Seq(Writes) /\ writeQueue \in Seq(Writes)
      /\ x \in Writes /\ t \in Seq(Writes) /\ <<x>> \in Seq(Writes) /\ local \o completed \in Seq(Writes)
  BY HeadTailProperties, ConcatProperties DEF Typed
<1>2. writeQueue = <<x>> \o t
  <2>1. Len(writeQueue) \in Nat /\ Len(writeQueue) >= 1 /\ writeQueue[1] = x
    BY <1>1, EmptySeq, LenProperties
  <2>2. SubSeq(writeQueue, 1, Len(writeQueue)) = writeQueue /\ SubSeq(writeQueue, 2, Len(writeQueue)) = t
    BY <1>1, SubSeqFull, TailIsSubSeq
  <2>3. SubSeq(writeQueue, 1, Len(writeQueue))
          = <<writeQueue[1]>> \o SubSeq(writeQueue, 1 + 1, Len(writeQueue))
    BY <1>1, <2>1, SubSeqRecursiveFirst
  <2> QED BY <2>1, <2>2, <2>3
<1>3. local \o Append(completed, x) = Append(local \o completed, x)
  BY <1>1, AppendConcat
<1>4. Append(local \o completed, x) = (local \o completed) \o <<x>>
  BY <1>1, AppendIsConcat
<1>5. ((local \o completed) \o <<x>>) \o t = (local \o completed) \o (<<x>> \o t)
  BY <1>1, ConcatAssociative
<1> QED BY <1>2, <1>3, <1>4, <1>5 DEF Unanswered

\* The first request of the write queue is sent, in part or in full, or it fails.
LEMMA SystemCallStep ==
    ASSUME IInv, WriteAll \/ WriteSome \/ WriteFails
    PROVE  Typed' /\ Waiting' /\ Counted' /\ Unanswered' = Unanswered
<1> DEFINE w == Head(writeQueue)
<1>0. /\ Typed /\ writing /\ writeQueue # <<>> /\ Tail(writeQueue) \in Seq(Writes)
      /\ \A y : Contains(writeQueue, y) <=> Contains(Tail(writeQueue), y) \/ y = Head(writeQueue)
      /\ Distinct(writeQueue) => ~Contains(Tail(writeQueue), Head(writeQueue))
  BY TailQueue DEF IInv, Typed, WriteAll, WriteSome, WriteFails
<1>1. PICK x \in Writes : x = w
  BY <1>0, TailQueue DEF Typed
<1>2. /\ Contains(writeQueue, x) /\ Contains(Unanswered, x) /\ ~Contains(Tail(writeQueue), x)
      /\ error[x] = "ok" /\ left[x] \in 0..MaxSize /\ left[x] \in Nat
  BY <1>0, <1>1, AsOne, StreamAssumption DEF IInv, Typed, Waiting, StreamAssumption
<1>3. ASSUME Return PROVE /\ writing' = FALSE /\ count' \in 0..WriteCount
                         /\ at' \in {at, "callbacks"}
  BY <1>3, StreamAssumption DEF Return, StreamAssumption
<1>4. /\ UNCHANGED <<handle, requestVars, local, activeReqs, cb, reads, history>>
      /\ writing' \in BOOLEAN /\ count' \in 0..WriteCount /\ at' \in {at, "callbacks"}
      /\ polled' \subseteq {"IN", "OUT"} /\ fed' \in BOOLEAN
  <2>1. CASE WriteAll
    <3>1. CASE More(count) /\ count' = count - 1 /\ UNCHANGED <<writing, at>>
      <4>1. count' \in 0..WriteCount
        BY <1>0, <3>1, StreamAssumption DEF Typed, More, StreamAssumption
      <4> QED BY <1>0, <2>1, <3>1, <4>1 DEF WriteAll, Finish, Typed
    <3>2. CASE Return
      BY <1>0, <1>3, <2>1, <3>2 DEF WriteAll, Finish, Typed
    <3> QED BY <2>1, <3>1, <3>2 DEF WriteAll
  <2>2. CASE WriteSome
    <3>1. CASE UNCHANGED <<writing, count, at, polled>>
      BY <1>0, <2>2, <3>1 DEF WriteSome, Typed
    <3>2. CASE Return /\ polled' = polled \union {"OUT"}
      BY <1>0, <1>3, <2>2, <3>2 DEF WriteSome, Typed
    <3> QED BY <2>2, <3>1, <3>2 DEF WriteSome
  <2>3. CASE WriteFails
    BY <1>0, <1>3, <2>3 DEF WriteFails, Finish, Typed
  <2> QED BY <2>1, <2>2, <2>3
<1>5. ASSUME writeQueue' \in Seq(Writes), completed' \in Seq(Writes),
             left' \in [Writes -> 0..MaxSize], error' \in [Writes -> {"unused", "ok", "failed"}]
      PROVE  Typed'
  <2>1. at' \in {"loop", "connectFailed", "write", "callbacks", "calling", "lastCallbacks", "drain",
                 "read", "readFailed", "destroy", "destroyCallbacks", "done"}
    BY <1>0, <1>4 DEF Typed
  <2> QED BY <1>0, <1>4, <1>5, <2>1 DEF Typed, handle, requestVars, history
\* The request leaves the write queue and keeps its place among the unanswered.
<1>6. ASSUME NEW e \in {"ok", "failed"}, Finish(x, e)
      PROVE  /\ writeQueue' \in Seq(Writes) /\ completed' \in Seq(Writes)
             /\ error' = [error EXCEPT ![x] = e]
             /\ Unanswered' = Unanswered
             /\ \A y : Contains(writeQueue', y) <=> Contains(writeQueue, y) /\ y # x
             /\ \A y : Contains(completed', y) <=> Contains(completed, y) \/ y = x
  <2>1. /\ writeQueue' = Tail(writeQueue) /\ completed' = Append(completed, x)
        /\ error' = [error EXCEPT ![x] = e] /\ local' = local
    BY <1>4, <1>6 DEF Finish
  <2>2. completed' \in Seq(Writes) /\ \A y : Contains(completed', y) <=> Contains(completed, y) \/ y = x
    BY <1>0, <2>1, AppendQueue DEF Typed
  <2>3. \A y : Contains(writeQueue', y) <=> Contains(writeQueue, y) /\ y # x
    BY <1>0, <1>1, <1>2, <2>1
  <2>4. Unanswered' = Unanswered
    BY <1>0, <1>1, <2>1, HeadMoves DEF Unanswered
  <2> QED BY <1>0, <2>1, <2>2, <2>3, <2>4
<1>7. ASSUME Unanswered' = Unanswered, NEW n \in 0..left[x],
             left' = [left EXCEPT ![x] = n], queueSize' = queueSize - (left[x] - n)
      PROVE  Counted'
  <2>1. /\ left' \in [Writes -> Nat] /\ left'[x] = n /\ \A y \in Writes \ {x} : left'[y] = left[y]
        /\ n \in Nat
    BY <1>0, <1>2, <1>7, AsOne
  <2>2. Total(Unanswered, left) \in Nat /\ Total(Unanswered, left') = Total(Unanswered, left) - left[x] + n
    <3>1. /\ Unanswered \in Seq(Writes) /\ Distinct(Unanswered) /\ left \in [Writes -> Nat]
          /\ Contains(Unanswered, x)
      BY <1>0, <1>2, AsOne DEF IInv, Waiting
    <3> QED BY <2>1, <3>1, ChangeTotal
  <2>3. queueSize' = Bytes(Unanswered)'
    BY <1>2, <1>7, <2>1, <2>2 DEF IInv, Counted, Bytes
  <2>4. Len(Unanswered') = Len(Unanswered) + 0 /\ activeReqs' = activeReqs + 0
    <3>1. activeReqs \in Int /\ Len(Unanswered) \in Nat
      BY <1>0, AsOne DEF IInv, Counted, Typed
    <3> QED BY <1>4, <1>7, <3>1
  <2> QED BY <1>0, <1>4, <2>3, <2>4, Recount DEF IInv, requestVars
<1>8. CASE WriteAll
  <2>1. /\ left' = [left EXCEPT ![x] = 0] /\ queueSize' = queueSize - left[x]
        /\ Finish(x, "ok")
    BY <1>1, <1>8 DEF WriteAll
  <2>2. 0 \in 0..left[x] /\ left[x] - 0 = left[x] /\ 0 \in 0..MaxSize
    BY <1>2, StreamAssumption DEF StreamAssumption
  <2>3. /\ writeQueue' \in Seq(Writes) /\ completed' \in Seq(Writes)
        /\ error' = [error EXCEPT ![x] = "ok"]
        /\ Unanswered' = Unanswered
        /\ \A y : Contains(writeQueue', y) <=> Contains(writeQueue, y) /\ y # x
        /\ \A y : Contains(completed', y) <=> Contains(completed, y) \/ y = x
    BY <1>6, <2>1
  <2>4. Counted'
    BY <1>7, <2>1, <2>2, <2>3
  <2>5. Typed'
    BY <1>0, <1>5, <2>1, <2>2, <2>3 DEF Typed
  <2>6. Waiting'
    BY <1>0, <1>2, <1>4, <2>1, <2>3 DEF IInv, Waiting, Typed, history
  <2> QED BY <2>3, <2>4, <2>5, <2>6
<1>9. CASE WriteFails
  <2>1. Finish(x, "failed") /\ UNCHANGED <<left, queueSize>>
    BY <1>1, <1>9 DEF WriteFails
  <2>2. /\ writeQueue' \in Seq(Writes) /\ completed' \in Seq(Writes)
        /\ error' = [error EXCEPT ![x] = "failed"]
        /\ Unanswered' = Unanswered
        /\ \A y : Contains(writeQueue', y) <=> Contains(writeQueue, y) /\ y # x
        /\ \A y : Contains(completed', y) <=> Contains(completed, y) \/ y = x
    BY <1>6, <2>1
  <2>3. Counted'
    BY <1>4, <2>1, <2>2 DEF IInv, Counted, Bytes, requestVars
  <2>4. Typed'
    BY <1>0, <1>5, <2>1, <2>2 DEF Typed
  <2>5. Waiting'
    BY <1>0, <1>2, <1>4, <2>1, <2>2 DEF IInv, Waiting, Typed, history
  <2> QED BY <2>2, <2>3, <2>4, <2>5
<1>10. CASE WriteSome
  <2>1. PICK k \in 0..(left[x] - 1) :
          left' = [left EXCEPT ![x] = left[x] - k] /\ queueSize' = queueSize - k
    BY <1>1, <1>10 DEF WriteSome
  <2>2. left[x] - k \in 0..left[x] /\ left[x] - (left[x] - k) = k /\ left[x] - k \in 0..MaxSize
    <3>1. MaxSize \in Nat /\ left[x] \in Nat /\ left[x] <= MaxSize /\ k \in Int /\ 0 <= k /\ k <= left[x] - 1
      BY <1>2, <2>1, StreamAssumption DEF StreamAssumption
    <3> QED BY <3>1
  <2>3. UNCHANGED <<writeQueue, completed, error, local, verdict>> /\ Unanswered' = Unanswered
    BY <1>10 DEF WriteSome, history, Unanswered
  <2>4. Counted'
    BY <1>7, <2>1, <2>2, <2>3
  <2>5. Typed'
    BY <1>0, <1>5, <2>1, <2>2, <2>3 DEF Typed
  <2>6. Waiting'
    BY <1>0, <1>2, <2>1, <2>3 DEF IInv, Waiting, Typed
  <2> QED BY <2>3, <2>4, <2>5, <2>6
<1> QED BY <1>8, <1>9, <1>10

-----------------------------------------------------------------------------
(* The queues move: what is left is told of its end *)

LEMMA FlushStep ==
    ASSUME IInv, ConnectFailed \/ Destroy \/ TakeCompleted
    PROVE  Typed' /\ Waiting' /\ Counted' /\ Unanswered' = Unanswered
<1>0. /\ Typed /\ local = <<>> /\ completed \in Seq(Writes) /\ writeQueue \in Seq(Writes)
      /\ <<>> \in Seq(Writes)
  BY EmptySeq DEF IInv, Placed, Typed, ConnectFailed, Destroy, TakeCompleted, Loop
<1>1. Unanswered = completed \o writeQueue
  BY <1>0, ConcatEmptySeq DEF Unanswered
<1>2. /\ UNCHANGED <<handle, requestVars, left, queueSize, activeReqs, watcherVars, cb, step, history>>
      /\ at' \in {"lastCallbacks", "loop", "destroyCallbacks", "calling"}
  BY DEF ConnectFailed, Destroy, TakeCompleted
<1>3. ASSUME local' \in Seq(Writes), completed' \in Seq(Writes), writeQueue' \in Seq(Writes),
             error' \in [Writes -> {"unused", "ok", "failed"}]
      PROVE  Typed'
  BY <1>0, <1>2, <1>3 DEF Typed, handle, requestVars, watcherVars, step, history
<1>4. ASSUME Unanswered' = Unanswered PROVE Counted'
  <2>1. activeReqs \in Int /\ Len(Unanswered) \in Nat
    BY <1>0, AsOne DEF IInv, Counted, Typed
  <2>2. Len(Unanswered') = Len(Unanswered) + 0 /\ activeReqs' = activeReqs + 0
    BY <1>2, <1>4, <2>1
  <2>3. queueSize' = Bytes(Unanswered)'
    BY <1>2, <1>4 DEF IInv, Counted, Bytes
  <2> QED BY <1>0, <1>2, <2>2, <2>3, Recount DEF IInv, requestVars
<1>5. CASE UNCHANGED <<local, completed, writeQueue, error>>
  <2>1. Unanswered' = Unanswered
    BY <1>5 DEF Unanswered
  <2>2. Waiting'
    BY <1>2, <1>5, <2>1 DEF IInv, Waiting, history
  <2> QED BY <1>0, <1>3, <1>4, <1>5, <2>1, <2>2 DEF Typed
<1>6. CASE TakeCompleted
  <2>1. local' = completed /\ completed' = <<>> /\ UNCHANGED <<writeQueue, error>>
    BY <1>6 DEF TakeCompleted
  <2>2. Unanswered' = Unanswered
    <3>1. completed \o <<>> = completed
      BY <1>0, ConcatEmptySeq
    <3> QED BY <1>1, <2>1, <3>1 DEF Unanswered
  <2>3. Waiting'
    BY <1>2, <2>1, <2>2, EmptyQueue DEF IInv, Waiting, history
  <2> QED BY <1>0, <1>3, <1>4, <2>1, <2>2, <2>3 DEF Typed
<1>7. CASE /\ local' = completed \o writeQueue /\ completed' = <<>> /\ writeQueue' = <<>>
           /\ error' = [w \in Writes |-> IF Contains(writeQueue, w) THEN "failed" ELSE error[w]]
  <2>1. /\ completed \o writeQueue \in Seq(Writes)
        /\ \A y : Contains(completed \o writeQueue, y) <=> Contains(completed, y) \/ Contains(writeQueue, y)
    BY <1>0, ConcatQueue
  <2>2. Unanswered' = Unanswered
    <3>1. completed \o writeQueue \o <<>> = completed \o writeQueue
      BY <2>1, ConcatEmptySeq
    <3> QED BY <1>1, <1>7, <3>1 DEF Unanswered
  <2>3. error' \in [Writes -> {"unused", "ok", "failed"}]
    BY <1>0, <1>7 DEF Typed
  <2>4. \A w \in Writes : /\ ~Contains(writeQueue', w) /\ ~Contains(completed', w)
                          /\ Contains(local', w) <=> Contains(completed, w) \/ Contains(writeQueue, w)
                          /\ error'[w] = IF Contains(writeQueue, w) THEN "failed" ELSE error[w]
    BY <1>7, <2>1, EmptyQueue
  <2>5. Waiting'
    BY <1>2, <2>2, <2>4 DEF IInv, Waiting, history
  <2> QED BY <1>0, <1>3, <1>4, <1>7, <2>1, <2>2, <2>3, <2>5
<1>8. CASE ConnectFailed \/ Destroy
  BY <1>5, <1>7, <1>8 DEF ConnectFailed, Destroy
<1> QED BY <1>6, <1>8

\* The first of the three queues gives its head.
LEMMA HeadLeaves ==
    ASSUME Typed, local # <<>>
    PROVE  /\ Unanswered # <<>> /\ Head(Unanswered) = Head(local)
           /\ Tail(local) \o completed \o writeQueue = Tail(Unanswered)
<1>1. /\ local \in Seq(Writes) /\ completed \in Seq(Writes) /\ writeQueue \in Seq(Writes)
      /\ completed \o writeQueue \in Seq(Writes) /\ Tail(local) \in Seq(Writes)
  BY HeadTailProperties, ConcatProperties DEF Typed
<1>2. /\ Unanswered = local \o (completed \o writeQueue)
      /\ Tail(local) \o completed \o writeQueue = Tail(local) \o (completed \o writeQueue)
  <2>1. (local \o completed) \o writeQueue = local \o (completed \o writeQueue)
    BY ONLY <1>1, ConcatAssociative
  <2>2. (Tail(local) \o completed) \o writeQueue = Tail(local) \o (completed \o writeQueue)
    BY ONLY <1>1, ConcatAssociative
  <2> QED BY ONLY <2>1, <2>2, Zenon DEF Unanswered
<1>3. /\ local \o (completed \o writeQueue) # <<>>
      /\ Head(local \o (completed \o writeQueue)) = Head(local)
      /\ Tail(local \o (completed \o writeQueue)) = Tail(local) \o (completed \o writeQueue)
  BY <1>1, TailConcat
<1> QED BY <1>2, <1>3

\* A callback tells one request what became of it, and nobody else.
LEMMA AnswerStep ==
    ASSUME IInv, CallWrite
    PROVE  Typed' /\ Waiting' /\ Counted' /\ Unanswered' = Tail(Unanswered)
<1>0. /\ Typed /\ local # <<>> /\ local' = Tail(local) /\ cb' = TRUE
      /\ UNCHANGED <<handle, requestVars, writeQueue, completed, left, error, watcherVars, at, step, ended>>
      /\ queueSize' = queueSize - Rest(Head(local)) /\ activeReqs' = activeReqs - 1
      /\ verdict' = [verdict EXCEPT ![Head(local)] = error[Head(local)]]
  BY DEF IInv, CallWrite
<1>1. PICK x \in Writes : x = Head(local) /\ Contains(local, x)
  BY <1>0, TailQueue DEF Typed
<1>2. /\ Tail(local) \in Seq(Writes)
      /\ \A y : Contains(local, y) <=> Contains(Tail(local), y) \/ y = x
  BY <1>0, <1>1, TailQueue DEF Typed
<1>3. /\ Unanswered \in Seq(Writes) /\ Distinct(Unanswered) /\ left \in [Writes -> Nat]
      /\ ~Contains(completed, x) /\ ~Contains(writeQueue, x)
      /\ Unanswered # <<>> /\ Head(Unanswered) = x
  BY <1>0, <1>1, AsOne, HeadLeaves DEF IInv, Waiting
<1>4. Unanswered' = Tail(Unanswered)
  BY <1>0, HeadLeaves DEF Unanswered
<1>5. /\ Distinct(Tail(Unanswered)) /\ ~Contains(Tail(Unanswered), x)
      /\ \A y : Contains(Unanswered, y) <=> Contains(Tail(Unanswered), y) \/ y = x
  BY <1>3, TailQueue
<1>6. error[x] \in {"ok", "failed"} /\ Rest(x) = left[x]
  BY <1>0, <1>1, <1>3 DEF IInv, Waiting, Typed, Rest
<1>7. Typed'
  <2>1. verdict' \in [Writes -> {"none", "ok", "failed"}]
    BY <1>0, <1>1, <1>6 DEF Typed
  <2> QED BY <1>0, <1>2, <2>1 DEF Typed, handle, requestVars, watcherVars, step
<1>8. Waiting'
  <2>1. \A y \in Writes : verdict'[y] = IF y = x THEN error[x] ELSE verdict[y]
    BY <1>0, <1>1 DEF Typed
  <2> QED BY <1>0, <1>2, <1>3, <1>4, <1>5, <1>6, <2>1 DEF IInv, Waiting
<1>9. Counted'
  <2>1. Total(Unanswered, left) = left[x] + Total(Tail(Unanswered), left)
    BY <1>3, TailTotal
  <2>2. Total(Tail(Unanswered), left) \in Nat /\ left[x] \in Nat
    <3>1. Tail(Unanswered) \in Seq(Writes)
      BY <1>3, TailQueue
    <3> QED BY <1>3, <1>5, <3>1, ChangeTotal
  <2>3. queueSize' = Bytes(Unanswered)'
    BY <1>0, <1>1, <1>4, <1>6, <2>1, <2>2 DEF IInv, Counted, Bytes
  <2>4. activeReqs \in Int /\ Len(Unanswered) \in Nat /\ Len(Tail(Unanswered)) = Len(Unanswered) - 1
    BY <1>0, <1>3, AsOne, HeadTailProperties DEF IInv, Counted, Typed
  <2>5. Len(Unanswered') = Len(Unanswered) + (-1) /\ activeReqs' = activeReqs + (-1)
    BY <1>0, <1>4, <2>4
  <2> QED BY <1>0, <2>3, <2>5, Recount DEF IInv, requestVars
<1> QED BY <1>4, <1>7, <1>8, <1>9

-----------------------------------------------------------------------------
(* Who has asked, and where the loop is *)

\* Whatever happens, the loop has nothing to do with a stream without a descriptor.
LEMMA AskedStep ==
    ASSUME IInv, Next PROVE Asked'
<1>0. Typed /\ Asked /\ Placed
  BY DEF IInv
<1>1. CASE Connect
  BY <1>0, <1>1 DEF Connect, Asked, Program, writeVars, control, step, history
<1>2. CASE ConnectPipeFails
  BY <1>0, <1>2 DEF ConnectPipeFails, Asked, Program, writeVars, control, step, history
<1>3. ASSUME NEW w \in Writes, NEW n \in Sizes, Write(w, n) PROVE Asked'
  BY <1>0, <1>3 DEF Write, Asked, Program, handle, requestVars, history
<1>4. CASE Shutdown
  BY <1>0, <1>4 DEF Shutdown, Asked, Program, writeVars, control, step, history
<1>5. CASE ReadStart
  BY <1>0, <1>5 DEF ReadStart, Asked, Program, requestVars, writeVars, control, step, history
<1>6. CASE ReadStop
  BY <1>0, <1>6 DEF ReadStop, Asked, Program, requestVars, writeVars, control, step, history
<1>7. CASE Close
  BY <1>0, <1>7 DEF Close, Asked, Program, requestVars, writeVars, control, step, history
<1>8. CASE Connected \/ Reset
  BY <1>0, <1>8 DEF Connected, Reset, Asked, requestVars, writeVars, watcherVars, control, step, history
<1>9. CASE RunPending
  BY <1>0, <1>9 DEF RunPending, StreamOut, StreamConnect, Loop, Asked, handle, writeVars, history
<1>10. CASE PollOut
  BY <1>0, <1>10 DEF PollOut, StreamOut, StreamConnect, Loop, Asked, handle, writeVars, history
<1>11. CASE PollIn
  BY <1>0, <1>11 DEF PollIn, StreamConnect, Loop, Asked, handle, writeVars, history
<1>12. CASE FinishClose
  BY <1>0, <1>12 DEF FinishClose, Asked, writeVars, watcherVars, step, history
<1>13. CASE WriteNothing
  BY <1>0, <1>13 DEF WriteNothing, Return, Asked, handle, requestVars, writeVars, watcherVars, history
<1>14. CASE WriteAll
  BY <1>0, <1>14 DEF WriteAll, Finish, Return, Asked, handle, requestVars, history
<1>15. CASE WriteSome
  BY <1>0, <1>15 DEF WriteSome, Return, Asked, handle, requestVars, history
<1>16. CASE WriteFails
  BY <1>0, <1>16 DEF WriteFails, Finish, Return, Asked, handle, requestVars, history
<1>17. CASE ConnectFailed \/ Destroy \/ TakeCompleted
  BY <1>0, <1>17 DEF ConnectFailed, Destroy, TakeCompleted, Asked, handle, requestVars, watcherVars, step, history
<1>18. CASE CallWrite
  BY <1>0, <1>18 DEF CallWrite, Asked, handle, requestVars, watcherVars, step
<1>19. CASE Called \/ CalledLast \/ CallbackReturns \/ ReadEnds
  BY <1>0, <1>19 DEF Called, CalledLast, CallbackReturns, ReadEnds, Asked, handle, requestVars, writeVars,
                     watcherVars, step, history
<1>20. CASE Drain \/ DestroyDrain
  <2>1. /\ UNCHANGED <<life, fd, link, connectReq, fed, writeQueue, step>>
        /\ writeQueue = <<>> /\ polled' \subseteq polled
        /\ \/ shutdownReq /\ shutdownReq' = FALSE /\ ended' = TRUE /\ flags' \subseteq flags \union {"SHUT"}
           \/ ~shutdownReq /\ UNCHANGED <<shutdownReq, ended, flags>>
    BY <1>0, <1>20 DEF Drain, DestroyDrain, DrainTo, Loop, Placed, writeVars
  <2> QED BY <1>0, <2>1 DEF Asked, step
<1>21. CASE Read
  BY <1>0, <1>21 DEF Read, Asked, handle, requestVars, writeVars, watcherVars, history
<1>22. CASE ReadEof \/ ReadFails \/ ReadFailed
  BY <1>0, <1>22 DEF ReadEof, ReadFails, ReadFailed, Asked, requestVars, writeVars, watcherVars, step, history
<1> QED BY <1>1, <1>2, <1>3, <1>4, <1>5, <1>6, <1>7, <1>8, <1>9, <1>10, <1>11, <1>12, <1>13, <1>14, <1>15,
           <1>16, <1>17, <1>18, <1>19, <1>20, <1>21, <1>22 DEF Next, Running, Writing

LEMMA PlacedStep ==
    ASSUME IInv, Next PROVE Placed'
<1>0. Typed /\ Asked /\ Placed
  BY DEF IInv
<1>1. CASE Connect
  BY <1>0, <1>1 DEF Connect, Placed, Program, writeVars, control, step, history
<1>2. CASE ConnectPipeFails
  BY <1>0, <1>2 DEF ConnectPipeFails, Placed, Program, writeVars, control, step, history
<1>3. ASSUME NEW w \in Writes, NEW n \in Sizes, Write(w, n) PROVE Placed'
  BY <1>0, <1>3 DEF Write, Asked, Placed, Program, handle, requestVars, history
<1>4. CASE Shutdown
  BY <1>0, <1>4 DEF Shutdown, Placed, Program, writeVars, control, step, history
<1>5. CASE ReadStart \/ ReadStop
  BY <1>0, <1>5 DEF ReadStart, ReadStop, Placed, Program, requestVars, writeVars, control, step, history
<1>7. CASE Close
  BY <1>0, <1>7 DEF Close, Placed, Program, requestVars, writeVars, control, step, history
<1>8. CASE Connected \/ Reset
  BY <1>0, <1>8 DEF Connected, Reset, Placed, requestVars, writeVars, watcherVars, control, step, history
<1>9. CASE RunPending \/ PollOut
  <2>1. /\ at = "loop" /\ ~cb /\ UNCHANGED <<handle, shutdownReq, writeVars, local>>
        /\ \/ at' \in {"loop", "connectFailed"} /\ connectReq /\ (at' # "loop" => ~connectReq')
           \/ at' = "write" /\ writing' = TRUE /\ ~connectReq /\ UNCHANGED <<connectReq, cb>>
    BY <1>9 DEF RunPending, PollOut, StreamOut, StreamConnect, Loop
  <2>2. CASE at' \in {"loop", "connectFailed"} /\ connectReq /\ (at' # "loop" => ~connectReq')
    BY <1>0, <2>1, <2>2 DEF Asked, Placed, handle, writeVars
  <2>3. CASE at' = "write" /\ writing' = TRUE /\ ~connectReq /\ UNCHANGED <<connectReq, cb>>
    <3>1. link # "none"
      BY <1>0, <1>9 DEF RunPending, PollOut, Asked
    <3> QED BY <1>0, <2>1, <2>3, <3>1 DEF Placed, handle, writeVars
  <2> QED BY <2>1, <2>2, <2>3
<1>11. CASE PollIn
  BY <1>0, <1>11 DEF PollIn, StreamConnect, Loop, Asked, Placed, handle, writeVars, history
<1>12. CASE FinishClose
  BY <1>0, <1>12 DEF FinishClose, Loop, Placed, writeVars, watcherVars, step, history
<1>13. CASE WriteNothing \/ WriteAll \/ WriteSome \/ WriteFails
  <2>1. /\ writing /\ UNCHANGED <<handle, requestVars, local, cb>>
        /\ \/ UNCHANGED <<writing, at>>
           \/ at' = IF at = "write" /\ ~cb THEN "callbacks" ELSE at
        /\ writeQueue = <<>> => UNCHANGED <<writeQueue, completed>>
    BY <1>13 DEF WriteNothing, WriteAll, WriteSome, WriteFails, Finish, Return, writeVars
  <2>2. fd /\ life = "open"
    BY <1>0, <2>1 DEF Asked
  <2> QED BY <1>0, <2>1, <2>2 DEF Placed, handle, requestVars
<1>17. CASE ConnectFailed \/ TakeCompleted
  BY <1>0, <1>17 DEF ConnectFailed, TakeCompleted, Loop, Placed, handle, requestVars, step, history
<1>16. CASE Destroy
  BY <1>0, <1>16 DEF Destroy, Loop, Placed, handle, requestVars, step, history
<1>18. CASE CallWrite
  BY <1>0, <1>18 DEF CallWrite, Placed, handle, requestVars, watcherVars, step
<1>19. CASE Called
  BY <1>0, <1>19 DEF Called, Loop, Placed, handle, requestVars, writeVars, step
<1>20. CASE CalledLast \/ CallbackReturns \/ ReadEnds
  BY <1>0, <1>20 DEF CalledLast, CallbackReturns, ReadEnds, Loop, Placed, handle, requestVars, writeVars, step
<1>21. CASE Drain \/ DestroyDrain
  BY <1>0, <1>21 DEF Drain, DestroyDrain, DrainTo, Loop, Placed, writeVars, step
<1>22. CASE Read \/ ReadEof \/ ReadFails \/ ReadFailed
  BY <1>0, <1>22 DEF Read, ReadEof, ReadFails, ReadFailed, Loop, Placed, handle, requestVars, writeVars,
                     step, history
<1> QED BY <1>1, <1>2, <1>3, <1>4, <1>5, <1>7, <1>8, <1>9, <1>11, <1>12, <1>13, <1>16, <1>17, <1>18, <1>19,
           <1>20, <1>21, <1>22 DEF Next, Running, Writing

LEMMA StepInv == ASSUME IInv, [Next]_vars PROVE IInv'
<1>1. CASE UNCHANGED vars
  <2>1. UNCHANGED <<handle, requestVars, writeVars, local, activeReqs, watcherVars, control, history>>
    BY <1>1 DEF vars
  <2>2. Typed' /\ Waiting' /\ Counted'
    <3>1. UNCHANGED <<connectReq, delayedError, shutdownReq, writeQueue, completed, local, left, error,
                      queueSize, activeReqs, verdict, ended>>
      BY <2>1 DEF requestVars, writeVars, history
    <3>2. Unanswered' = Unanswered /\ Bytes(Unanswered)' = Bytes(Unanswered)
      BY <3>1 DEF Unanswered, Bytes
    <3>3. Typed'
      BY <2>1 DEF IInv, Typed, handle, requestVars, writeVars, watcherVars, control, step, history
    <3>4. Waiting' /\ Counted'
      BY <3>1, <3>2 DEF IInv, Waiting, Counted
    <3> QED BY <3>3, <3>4
  <2>3. Asked' /\ Placed'
    BY <2>1 DEF IInv, Asked, Placed, handle, requestVars, writeVars, watcherVars, control, step, history
  <2> QED BY <2>2, <2>3 DEF IInv
<1>2. CASE Next
  <2>1. Asked' /\ Placed'
    BY <1>2, AskedStep, PlacedStep
  <2>2. \/ Asking \/ Going
        \/ \E w \in Writes, n \in Sizes : Write(w, n)
        \/ WriteAll \/ WriteSome \/ WriteFails
        \/ ConnectFailed \/ Destroy \/ TakeCompleted
        \/ CallWrite
    BY <1>2 DEF Next, Running, Writing, Asking, Going
  <2>3. CASE Asking \/ Going
    BY <2>1, <2>3, GoingTyped, GoingCounted DEF IInv
  <2>4. CASE \E w \in Writes, n \in Sizes : Write(w, n)
    BY <2>1, <2>4, WriteStep DEF IInv
  <2>5. CASE WriteAll \/ WriteSome \/ WriteFails
    BY <2>1, <2>5, SystemCallStep DEF IInv
  <2>6. CASE ConnectFailed \/ Destroy \/ TakeCompleted
    BY <2>1, <2>6, FlushStep DEF IInv
  <2>7. CASE CallWrite
    BY <2>1, <2>7, AnswerStep DEF IInv
  <2> QED BY <2>2, <2>3, <2>4, <2>5, <2>6, <2>7
<1> QED BY <1>1, <1>2

LEMMA Invariance == Spec => []IInv
BY InitInv, StepInv, PTL DEF Spec

\* Every variable has its type, the two counts included.
THEOREM TypeCorrect == Spec => []TypeOK
<1>1. ASSUME IInv PROVE TypeOK
  <2>1. Unanswered \in Seq(Writes) /\ left \in [Writes -> Nat] /\ Len(Unanswered) \in Nat /\ Typed
    BY <1>1, AsOne DEF IInv
  <2>2. queueSize \in Nat
    <3>1. PICK h \in [0..Len(Unanswered) -> Nat] : Total(Unanswered, left) = h[Len(Unanswered)]
      BY <2>1, TotalHas
    <3>2. Len(Unanswered) \in 0..Len(Unanswered)
      BY <2>1
    <3> QED BY <1>1, <3>1, <3>2 DEF IInv, Counted, Bytes
  <2>3. activeReqs \in Nat
    <3>1. PICK n \in Nat : n = Len(Unanswered)
      BY <2>1
    <3>2. PICK c \in Nat : c = IF connectReq THEN 1 ELSE 0
      OBVIOUS
    <3>3. PICK s \in Nat : s = IF shutdownReq THEN 1 ELSE 0
      OBVIOUS
    <3>4. activeReqs = n + c + s
      BY <1>1, <3>1, <3>2, <3>3 DEF IInv, Counted
    <3> QED BY <3>4
  <2> QED BY <2>1, <2>2, <2>3 DEF Typed, TypeOK
<1> QED BY <1>1, Invariance, PTL

\* uv__stream_destroy finds write_queue_size at zero and no request of the stream left in
\* the loop, and until then the two counts are exact: no request is forgotten, none is
\* counted twice, and none twice uncounted.
THEOREM CountsStayExact == Spec => []CountsAreExact
<1>1. ASSUME IInv PROVE CountsAreExact
  <2>1. CASE at = "done"
    <3>1. local = <<>> /\ completed = <<>> /\ writeQueue = <<>> /\ ~connectReq /\ ~shutdownReq
      BY <1>1, <2>1 DEF IInv, Placed
    <3>2. Unanswered = <<>> /\ Len(<<>>) = 0
      BY <3>1, EmptySeq, ConcatEmptySeq DEF Unanswered
    <3>3. Bytes(Unanswered) = 0
      BY <1>1, <3>2, AsOne, TotalEmpty DEF IInv, Bytes
    <3> QED BY <1>1, <3>1, <3>2, <3>3 DEF IInv, Counted, CountsAreExact
  <2>2. CASE at # "done"
    BY <1>1, <2>2 DEF IInv, Counted, CountsAreExact
  <2> QED BY <2>1, <2>2
<1> QED BY <1>1, Invariance, PTL

-----------------------------------------------------------------------------
(* What the program sees of its requests *)

Connection == IF connectReq THEN "asked" ELSE IF link = "none" THEN "none" ELSE "answered"
Sent == {w \in Writes : error[w] = "ok" /\ left[w] = 0 /\ ~Contains(writeQueue, w)}
End == IF shutdownReq THEN "asked" ELSE IF ended THEN "answered" ELSE "no"

\* A step of the stream is a step of StreamRequests, or none.
RequestStep == Requests!Next \/ UNCHANGED Requests!requests

LEMMA GoingRefines == ASSUME IInv, Asking \/ Going PROVE RequestStep
<1>0. Typed /\ Asked /\ Placed
  BY DEF IInv
<1>1. UNCHANGED <<writeQueue, completed, local, left, error, verdict>>
  BY <1>0, GoingOn
<1>2. Unanswered' = Unanswered /\ Sent' = Sent
  BY <1>1 DEF Unanswered, Sent
<1>3. UNCHANGED Requests!writes
  BY <1>1, <1>2 DEF Requests!writes, Sent
<1>4. ASSUME UNCHANGED <<Connection, End>> PROVE RequestStep
  BY <1>3, <1>4 DEF RequestStep, Requests!requests, Connection, End
<1>5. ASSUME Connection = "none", Connection' = "asked", End' = End PROVE RequestStep
  BY <1>3, <1>5 DEF RequestStep, Requests!Next, Requests!Connect, Connection, End
<1>6. ASSUME Connection = "asked", Connection' = "answered", End' = End PROVE RequestStep
  BY <1>3, <1>6 DEF RequestStep, Requests!Next, Requests!AnswerConnect, Connection, End
<1>7. ASSUME Connection # "none", End = "no", End' = "asked", Connection' = Connection PROVE RequestStep
  BY <1>3, <1>7 DEF RequestStep, Requests!Next, Requests!Shutdown, Connection, End
<1>8. ASSUME Connection = "answered", End = "asked", End' = "answered", Connection' = Connection,
             writeQueue = <<>>
      PROVE  RequestStep
  BY <1>3, <1>8 DEF RequestStep, Requests!Next, Requests!AnswerShutdown, Connection, End
<1>9. CASE Connect \/ ConnectPipeFails
  <2>1. /\ ~connectReq /\ link = "none" /\ connectReq' = TRUE /\ UNCHANGED <<shutdownReq, ended>>
    BY <1>9 DEF Connect, ConnectPipeFails, history
  <2> QED BY <1>5, <2>1 DEF Connection, End
<1>10. CASE Shutdown
  <2>1. /\ ~shutdownReq /\ ~ended /\ link # "none" /\ shutdownReq' = TRUE /\ UNCHANGED <<connectReq, link>>
    BY <1>0, <1>10 DEF Shutdown, Asked
  <2> QED BY <1>7, <2>1 DEF Connection, End
<1>11. ASSUME StreamConnect, connectReq, UNCHANGED <<link, shutdownReq, ended>> PROVE RequestStep
  <2>1. CASE connectReq' = connectReq
    BY <1>4, <1>11, <2>1 DEF Connection, End
  <2>2. CASE connectReq' = FALSE
    BY <1>0, <1>6, <1>11, <2>2 DEF Connection, End, Asked
  <2> QED BY <1>11, <2>1, <2>2 DEF StreamConnect
<1>12. CASE RunPending \/ PollOut \/ PollIn
  <2>1. UNCHANGED <<link, shutdownReq, ended>>
    BY <1>12 DEF RunPending, PollOut, PollIn, handle, history
  <2>2. CASE connectReq
    BY <1>11, <1>12, <2>1, <2>2 DEF RunPending, PollOut, PollIn, StreamOut
  <2>3. CASE ~connectReq
    <3>1. connectReq' = connectReq
      BY <1>12, <2>3 DEF RunPending, PollOut, PollIn, StreamOut
    <3> QED BY <1>4, <2>1, <3>1 DEF Connection, End
  <2> QED BY <2>2, <2>3
<1>13. CASE FinishClose
  <2>1. connectReq' = FALSE /\ UNCHANGED <<link, shutdownReq, ended>>
    BY <1>13 DEF FinishClose, history
  <2>2. CASE connectReq
    BY <1>0, <1>6, <2>1, <2>2 DEF Connection, End, Asked
  <2>3. CASE ~connectReq
    BY <1>4, <2>1, <2>3 DEF Connection, End
  <2> QED BY <2>2, <2>3
<1>14. CASE Drain \/ DestroyDrain
  <2>1. /\ UNCHANGED <<link, connectReq>> /\ ~connectReq /\ writeQueue = <<>>
        /\ \/ shutdownReq /\ shutdownReq' = FALSE /\ ended' = TRUE
           \/ ~shutdownReq /\ UNCHANGED <<shutdownReq, ended>>
    BY <1>0, <1>14 DEF Drain, DestroyDrain, DrainTo, Loop, Placed
  <2>2. CASE shutdownReq
    BY <1>0, <1>8, <2>1, <2>2 DEF Connection, End, Asked
  <2>3. CASE ~shutdownReq
    BY <1>4, <2>1, <2>3 DEF Connection, End
  <2> QED BY <2>2, <2>3
<1>15. CASE Connected \/ Reset
  <2>1. link # "none" /\ link' # "none" /\ UNCHANGED <<connectReq, shutdownReq, ended>>
    BY <1>15 DEF Connected, Reset, requestVars, history
  <2> QED BY <1>4, <2>1 DEF Connection, End
<1>16. CASE \/ ReadStart \/ ReadStop \/ Close \/ WriteNothing \/ Called \/ CalledLast \/ CallbackReturns
            \/ Read \/ ReadEof \/ ReadFails \/ ReadFailed \/ ReadEnds
  <2>1. UNCHANGED <<link, connectReq, shutdownReq, ended>>
    BY <1>16 DEF ReadStart, ReadStop, Close, WriteNothing, Called, CalledLast, CallbackReturns, Read, ReadEof,
                 ReadFails, ReadFailed, ReadEnds, handle, requestVars, history
  <2> QED BY <1>4, <2>1 DEF Connection, End
<1> QED BY <1>9, <1>10, <1>12, <1>13, <1>14, <1>15, <1>16 DEF Asking, Going

LEMMA WriteRefines ==
    ASSUME IInv, NEW w \in Writes, NEW n \in Sizes, Write(w, n) PROVE RequestStep
<1>1. /\ fd /\ "WRITABLE" \in flags /\ error[w] = "unused"
      /\ left' = [left EXCEPT ![w] = n] /\ error' = [error EXCEPT ![w] = "ok"]
      /\ writeQueue' = Append(writeQueue, w)
      /\ UNCHANGED <<link, connectReq, shutdownReq, ended, verdict>>
  BY DEF Write, handle, requestVars, history
<1>2. Unanswered' = Append(Unanswered, w)
  BY WriteStep
<1>3. /\ ~Contains(Unanswered, w) /\ verdict[w] = "none" /\ w \notin Sent
      /\ Connection # "none" /\ End = "no"
  BY <1>1 DEF IInv, Waiting, Asked, Sent, Connection, End
<1>4. Sent' = Sent
  <2>1. /\ \A y \in Writes : Contains(writeQueue', y) <=> Contains(writeQueue, y) \/ y = w
        /\ \A y \in Writes \ {w} : error'[y] = error[y] /\ left'[y] = left[y]
    BY <1>1, AppendQueue DEF IInv, Typed
  <2> QED BY <1>1, <2>1 DEF Sent
<1>5. \A i \in DOMAIN Unanswered : Unanswered[i] # w
  <2>1. DOMAIN Unanswered = 1..Len(Unanswered)
    BY AsOne, LenProperties DEF IInv
  <2> QED BY <1>3, <2>1 DEF Contains
<1>6. UNCHANGED <<Connection, End>>
  BY <1>1 DEF Connection, End
<1>7. Requests!Write(w)
  BY <1>1, <1>2, <1>3, <1>4, <1>5, <1>6 DEF Requests!Write, Connection, End, Sent
<1> QED BY <1>7 DEF RequestStep, Requests!Next

\* A write that is sent in full, or fails, is the abstract Send; one that is sent in part is
\* still to be transmitted.
LEMMA SystemCallRefines ==
    ASSUME IInv, WriteAll \/ WriteSome \/ WriteFails PROVE RequestStep
<1>1. /\ writeQueue # <<>> /\ writing
      /\ UNCHANGED <<link, connectReq, shutdownReq, ended, verdict>>
  BY DEF WriteAll, WriteSome, WriteFails, handle, requestVars, history
<1>2. PICK x \in Writes : x = Head(writeQueue) /\ Contains(writeQueue, x)
  BY <1>1, TailQueue DEF IInv, Typed
<1>3. /\ \A y : Contains(writeQueue, y) <=> Contains(Tail(writeQueue), y) \/ y = x
      /\ ~Contains(Tail(writeQueue), x)
  <2>1. Distinct(writeQueue)
    BY AsOne DEF IInv, Waiting
  <2> QED BY <1>1, <1>2, <2>1, TailQueue DEF IInv, Typed
<1>4. Unanswered' = Unanswered /\ UNCHANGED <<Connection, End>>
  BY <1>1, SystemCallStep DEF Connection, End
<1>5. Connection = "answered" /\ End # "answered"
  BY <1>1 DEF IInv, Asked, Connection, End
<1>6. CASE WriteSome
  <2>1. UNCHANGED <<writeQueue, error>> /\ \A y \in Writes \ {x} : left'[y] = left[y]
    BY <1>2, <1>6 DEF WriteSome, IInv, Typed
  <2>2. Sent' = Sent
    BY <1>2, <2>1 DEF Sent
  <2> QED BY <1>1, <1>4, <2>1, <2>2 DEF RequestStep, Requests!requests, Requests!writes, Connection, End, Sent
<1>7. ASSUME NEW e \in {"ok", "failed"}, Finish(x, e), \A y \in Writes \ {x} : left'[y] = left[y],
             e = "ok" => left'[x] = 0
      PROVE  RequestStep
  <2>1. /\ writeQueue' = Tail(writeQueue)
        /\ \A y \in Writes : error'[y] = IF y = x THEN e ELSE error[y]
    BY <1>2, <1>7 DEF Finish, IInv, Typed
  <2>2. \A y \in Writes : y \in Sent' <=> y \in Sent \/ (y = x /\ e = "ok")
    BY <1>2, <1>3, <1>7, <2>1 DEF Sent
  <2>3. Sent' \subseteq Writes /\ Sent \subseteq Writes
    BY DEF Sent
  <2>4. Sent' \in {Sent, Sent \union {x}}
    BY <2>2, <2>3
  <2>5. Requests!Send
    BY <1>1, <1>2, <1>4, <1>5, <2>1, <2>4 DEF Requests!Send, Connection, End, Sent
  <2> QED BY <2>5 DEF RequestStep, Requests!Next
<1>8. CASE WriteAll
  <2>1. Finish(x, "ok") /\ left' = [left EXCEPT ![x] = 0]
    BY <1>2, <1>8 DEF WriteAll
  <2>2. left'[x] = 0 /\ \A y \in Writes \ {x} : left'[y] = left[y]
    BY <1>2, <2>1 DEF IInv, Typed
  <2> QED BY <1>7, <2>1, <2>2
<1>9. CASE WriteFails
  BY <1>2, <1>7, <1>9 DEF WriteFails
<1> QED BY <1>6, <1>8, <1>9

\* A connection that fails, and a stream that is closed, give up what is not transmitted.
LEMMA FlushRefines ==
    ASSUME IInv, ConnectFailed \/ Destroy \/ TakeCompleted PROVE RequestStep
<1>1. UNCHANGED <<link, connectReq, shutdownReq, ended, verdict, left>>
  BY DEF ConnectFailed, Destroy, TakeCompleted, handle, requestVars, history
<1>2. Unanswered' = Unanswered /\ UNCHANGED <<Connection, End>>
  BY <1>1, FlushStep DEF Connection, End
<1>3. CASE UNCHANGED <<writeQueue, error>>
  <2>1. Sent' = Sent
    BY <1>1, <1>3 DEF Sent
  <2> QED BY <1>1, <1>2, <1>3, <2>1 DEF RequestStep, Requests!requests, Requests!writes, Connection, End, Sent
<1>4. CASE /\ ConnectFailed \/ Destroy
           /\ writeQueue' = <<>>
           /\ error' = [w \in Writes |-> IF Contains(writeQueue, w) THEN "failed" ELSE error[w]]
  <2>1. Sent' = Sent
    <3>1. \A w \in Writes : ~Contains(writeQueue', w)
      BY <1>4, EmptyQueue
    <3> QED BY <1>1, <1>4, <3>1 DEF Sent
  <2>2. CASE link = "none"
    <3>1. writeQueue' = writeQueue
      BY <1>4, <2>2 DEF IInv, Asked
    <3> QED BY <1>1, <1>2, <2>1, <3>1 DEF RequestStep, Requests!requests, Requests!writes, Connection, End, Sent
  <2>3. CASE link # "none"
    <3>1. Connection = "answered"
      BY <1>4, <2>3 DEF ConnectFailed, Destroy, Loop, IInv, Placed, Connection
    <3>2. Requests!GiveUp
      BY <1>1, <1>2, <1>4, <2>1, <3>1 DEF Requests!GiveUp, Connection, End, Sent
    <3> QED BY <3>2 DEF RequestStep, Requests!Next
  <2> QED BY <2>2, <2>3
<1> QED BY <1>3, <1>4 DEF ConnectFailed, Destroy, TakeCompleted

\* A callback is told the truth: success exactly if all of the request was transmitted.
LEMMA AnswerRefines == ASSUME IInv, CallWrite PROVE RequestStep
<1>0. /\ local # <<>>
      /\ UNCHANGED <<link, connectReq, shutdownReq, writeQueue, completed, left, error, ended>>
      /\ verdict' = [verdict EXCEPT ![Head(local)] = error[Head(local)]]
  BY DEF CallWrite, handle, requestVars
<1>1. Unanswered # <<>> /\ Unanswered' = Tail(Unanswered) /\ Head(Unanswered) = Head(local)
  BY <1>0, AnswerStep, HeadLeaves DEF IInv
<1>2. PICK x \in Writes : x = Head(local) /\ Contains(local, x)
  BY <1>0, TailQueue DEF IInv, Typed
<1>3. ~Contains(writeQueue, x) /\ error[x] \in {"ok", "failed"} /\ (error[x] = "ok" => left[x] = 0)
  BY <1>2, AsOne DEF IInv, Waiting, Typed
<1>4. error[x] = IF x \in Sent THEN "ok" ELSE "failed"
  BY <1>3 DEF Sent
<1>5. Len(writeQueue) < Len(Unanswered)
  <2>1. /\ Len(Unanswered) = Len(local) + Len(completed) + Len(writeQueue)
        /\ Len(local) \in Nat /\ Len(completed) \in Nat /\ Len(writeQueue) \in Nat /\ Len(local) # 0
    BY <1>0, AsOne, LenProperties, EmptySeq DEF IInv, Typed
  <2> QED BY <2>1
<1>6. UNCHANGED <<Connection, End>> /\ Sent' = Sent
  BY <1>0 DEF Connection, End, Sent
<1>7. verdict' = [verdict EXCEPT ![Head(Unanswered)] = IF Head(Unanswered) \in Sent THEN "ok" ELSE "failed"]
  BY <1>0, <1>1, <1>2, <1>4
<1>8. Requests!Answer
  BY <1>0, <1>1, <1>5, <1>6, <1>7 DEF Requests!Answer, Connection, End, Sent
<1> QED BY <1>8 DEF RequestStep, Requests!Next

LEMMA StepRefines == ASSUME IInv, [Next]_vars PROVE RequestStep
<1>1. CASE UNCHANGED vars
  <2>1. UNCHANGED <<link, connectReq, shutdownReq, writeQueue, completed, local, left, error, verdict, ended>>
    BY <1>1 DEF vars, handle, requestVars, writeVars, history
  <2> QED BY <2>1 DEF RequestStep, Requests!requests, Requests!writes, Unanswered
<1>2. CASE Next
  BY <1>2, GoingRefines, WriteRefines, SystemCallRefines, FlushRefines, AnswerRefines
     DEF Next, Running, Writing, Asking, Going
<1> QED BY <1>1, <1>2

\* For any number of writes of any size, and whatever callbacks do: the connection is answered
\* first, writes are transmitted and answered in the order they were made, each once and
\* truthfully, and the shutdown is answered when nothing is left to transmit.
THEOREM AnswersInOrder == Spec => Requests!Init /\ [][Requests!Next]_(Requests!requests)
<1>1. Init => Requests!Init
  <2> SUFFICES ASSUME Init PROVE Requests!Init
    OBVIOUS
  <2>1. Unanswered = <<>> /\ \A w : ~Contains(<<>>, w)
    BY EmptySeq, EmptyQueue, ConcatEmptySeq DEF Init, Unanswered
  <2>2. Sent = {}
    BY <2>1 DEF Init, Sent
  <2> QED BY <2>1, <2>2 DEF Init, Requests!Init, Sent
<1>2. IInv /\ [Next]_vars => [Requests!Next]_(Requests!requests)
  BY StepRefines DEF RequestStep
<1> QED BY <1>1, <1>2, Invariance, PTL DEF Spec

-----------------------------------------------------------------------------
(* UDP *)

UdpConstants ==
    (\E n \in Nat : Datagrams = 1..n) /\ RecvMax \in Nat \ {0} /\ Chunks \in Nat

UdpFields ==
    {"pc", "revents", "todo", "chunks", "finish", "mmsg", "fd", "bound", "connected", "closing",
     "processing", "active", "watch", "pending", "recv", "write_queue", "completed", "size", "count",
     "status", "submitted", "wire", "answered"}

Statuses == {"none", "sent", "error", "canceled"}

UdpTyped ==
    /\ udp.pc \in Udp!States /\ udp.closing \in {"no", "closing", "closed"}
    /\ \A e \in udp.watch : e \in {"IN", "OUT"}
    /\ \A e \in udp.revents : e \in {"IN", "OUT"}
    /\ udp.todo \in -Chunks..RecvMax /\ udp.chunks \in 0..Chunks
    /\ udp.finish \in BOOLEAN /\ udp.fd \in BOOLEAN /\ udp.processing \in BOOLEAN
    /\ udp.active \in BOOLEAN /\ udp.pending \in BOOLEAN /\ udp.recv \in BOOLEAN

UdpQueues ==
    /\ udp.write_queue \in Seq(Datagrams) /\ udp.completed \in Seq(Datagrams)
    /\ udp.submitted \in Seq(Datagrams) /\ udp.wire \in Seq(Datagrams)
    /\ udp.answered \in Seq(Datagrams \X Statuses)
    /\ udp.status \in [Datagrams -> Statuses]

UdpSizes == [d \in Datagrams |-> d]

\* The counters say what waits: for the kernel, or for its callback.
UdpCounts ==
    /\ udp.count = Len(udp.completed \o udp.write_queue)
    /\ udp.size = Total(udp.completed \o udp.write_queue, UdpSizes)

\* Every request waits, was answered, or went out at once.
Answered(answers, d) == \E i \in 1..Len(answers) : answers[i][1] = d

UdpKept == \A d \in Datagrams : Contains(udp.submitted, d) =>
    \/ Contains(udp.completed \o udp.write_queue, d)
    \/ Answered(udp.answered, d) \/ Contains(udp.wire, d)

\* Where uv__udp_io stands.
UdpTurn ==
    /\ udp.processing <=> udp.pc \in {"completed", "send_cb"}
    /\ udp.pc = "recv" => udp.recv /\ udp.fd /\ udp.todo >= 1

\* What an open handle waits for.
UdpWatched ==
    /\ "IN" \in udp.watch => udp.recv /\ udp.fd
    /\ udp.recv => udp.closing # "closed"
    /\ udp.closing = "no" /\ udp.recv => udp.fd
    /\ udp.closing = "no" /\ udp.write_queue # <<>> => "OUT" \in udp.watch
    /\ udp.watch # {} => udp.active
    /\ udp.closing = "no" /\ udp.completed # <<>> =>
         \/ udp.pending \/ "OUT" \in udp.watch \/ udp.pc \in {"completed", "send_cb"}
         \/ udp.pc = "out" /\ "OUT" \in udp.revents

\* What closing has done so far.
UdpClosed ==
    /\ udp.closing # "no" => udp.watch = {} /\ ~udp.fd /\ ~udp.pending /\ ~udp.active
    /\ udp.closing = "no" => ~udp.finish
    /\ udp.finish => /\ udp.write_queue = <<>>
                     /\ udp.pc \in {"completed", "send_cb"} \/ udp.closing = "closed"
    /\ udp.closing = "closed" => udp.finish /\ udp.completed = <<>> /\ udp.pc = "loop"

UdpInv ==
    /\ DOMAIN udp = UdpFields /\ UdpTyped /\ UdpQueues /\ UdpCounts /\ UdpKept /\ UdpTurn /\ UdpWatched
    /\ UdpClosed

LEMMA UdpOps ==
    /\ \A q : Udp!Range(q) = Range(q)
    /\ \A q, f : Udp!Total(q, f) = Total(q, f)
<1>1. \A q : Udp!Range(q) = Range(q)
  BY DEF Udp!Range, Range
<1>2. \A q, f : Udp!Total(q, f) = Total(q, f)
  BY DEF Udp!Total, Total
<1> QED BY <1>1, <1>2

LEMMA UdpTotal ==
    ASSUME UdpConstants, NEW q \in Seq(Datagrams)
    PROVE  Total(q, UdpSizes) \in Nat
<1>1. UdpSizes \in [Datagrams -> Nat]
  BY DEF UdpConstants, UdpSizes
<1>2. PICK h \in [0..Len(q) -> Nat] : Total(q, UdpSizes) = h[Len(q)]
  BY <1>1, TotalHas
<1>3. Len(q) \in 0..Len(q)
  BY LenProperties
<1> QED BY <1>2, <1>3

LEMMA UdpBytes == UdpConstants => UdpSizes \in [Datagrams -> Nat] /\ \A d \in Datagrams : UdpSizes[d] = d
  BY DEF UdpConstants, UdpSizes

\* One request more waits.
LEMMA UdpMore ==
    ASSUME UdpConstants, NEW p \in Seq(Datagrams), NEW q \in Seq(Datagrams), NEW d \in Datagrams
    PROVE  /\ Append(q, d) \in Seq(Datagrams) /\ p \o q \in Seq(Datagrams)
           /\ p \o Append(q, d) = Append(p \o q, d)
           /\ Len(Append(p \o q, d)) = Len(p \o q) + 1
           /\ Total(Append(p \o q, d), UdpSizes) = Total(p \o q, UdpSizes) + d
           /\ \A y : Contains(Append(p \o q, d), y) <=> Contains(p \o q, y) \/ y = d
           /\ \A y : Contains(Append(q, d), y) <=> Contains(q, y) \/ y = d
<1>1. p \o q \in Seq(Datagrams)
  BY ConcatProperties
<1>2. p \o Append(q, d) = Append(p \o q, d)
  BY AppendConcat
<1>3. Len(Append(p \o q, d)) = Len(p \o q) + 1
  BY <1>1
<1>4. Total(Append(p \o q, d), UdpSizes) = Total(p \o q, UdpSizes) + UdpSizes[d]
  BY <1>1, AppendTotal, UdpBytes
<1>5. \A y : Contains(Append(p \o q, d), y) <=> Contains(p \o q, y) \/ y = d
  BY <1>1, AppendQueue
<1>6. Append(q, d) \in Seq(Datagrams) /\ \A y : Contains(Append(q, d), y) <=> Contains(q, y) \/ y = d
  BY AppendQueue
<1> QED BY <1>1, <1>2, <1>3, <1>4, <1>5, <1>6, UdpBytes

\* One request less waits.
LEMMA UdpLess ==
    ASSUME UdpConstants, NEW p \in Seq(Datagrams), NEW q \in Seq(Datagrams), p # <<>>
    PROVE  /\ Head(p) \in Datagrams /\ Tail(p) \in Seq(Datagrams)
           /\ Len(Tail(p) \o q) = Len(p \o q) - 1 /\ Len(p \o q) \in Nat \ {0}
           /\ Total(Tail(p) \o q, UdpSizes) = Total(p \o q, UdpSizes) - Head(p)
           /\ Total(p \o q, UdpSizes) \in Nat
           /\ \A y : Contains(p \o q, y) <=> Contains(Tail(p) \o q, y) \/ y = Head(p)
<1>1. p \o q \in Seq(Datagrams) /\ p \o q # <<>> /\ Head(p \o q) = Head(p) /\ Tail(p \o q) = Tail(p) \o q
  BY TailConcat, ConcatProperties
<1>2. Head(p) \in Datagrams /\ Tail(p) \in Seq(Datagrams)
  BY HeadTailProperties
<1>3. Len(Tail(p \o q)) = Len(p \o q) - 1 /\ Len(p \o q) \in Nat \ {0}
  BY <1>1, HeadTailProperties, LenProperties, EmptySeq
<1>4. Total(p \o q, UdpSizes) = UdpSizes[Head(p)] + Total(Tail(p) \o q, UdpSizes)
  <2> DEFINE w == p \o q
  <2>1. w \in Seq(Datagrams) /\ w # <<>> /\ Head(w) = Head(p) /\ Tail(w) = Tail(p) \o q
    BY <1>1
  <2> HIDE DEF w
  <2>2. Total(w, UdpSizes) = UdpSizes[Head(w)] + Total(Tail(w), UdpSizes)
    BY <2>1, TailTotal, UdpBytes
  <2> QED BY <2>1, <2>2 DEF w
<1>5. Total(Tail(p) \o q, UdpSizes) \in Nat
  <2>1. Tail(p) \o q \in Seq(Datagrams)
    BY <1>2, ConcatProperties
  <2> QED BY <2>1, UdpTotal
<1>6. \A y : Contains(p \o q, y) <=> Contains(Tail(p) \o q, y) \/ y = Head(p)
  <2> DEFINE w == p \o q
  <2>1. w \in Seq(Datagrams) /\ w # <<>> /\ Head(w) = Head(p) /\ Tail(w) = Tail(p) \o q
    BY <1>1
  <2> HIDE DEF w
  <2>2. \A y : Contains(w, y) <=> Contains(Tail(w), y) \/ y = Head(w)
    BY <2>1, TailQueue
  <2> QED BY <2>1, <2>2 DEF w
<1>7. UdpSizes[Head(p)] = Head(p) /\ Head(p) \in Nat
  BY <1>2, UdpBytes DEF UdpConstants
<1> QED BY <1>1, <1>2, <1>3, <1>4, <1>5, <1>6, <1>7

\* A queue is what was taken from its head, and the rest.
LEMMA SplitQueue ==
    ASSUME NEW S, NEW q \in Seq(S), NEW m \in 0..Len(q)
    PROVE  /\ SubSeq(q, 1, m) \in Seq(S) /\ SubSeq(q, m + 1, Len(q)) \in Seq(S)
           /\ Len(SubSeq(q, 1, m)) = m /\ Len(SubSeq(q, m + 1, Len(q))) = Len(q) - m
           /\ SubSeq(q, 1, m) \o SubSeq(q, m + 1, Len(q)) = q
<1> DEFINE a == SubSeq(q, 1, m)
           b == SubSeq(q, m + 1, Len(q))
<1>0. Len(q) \in Nat /\ m \in Nat
  BY LenProperties
<1>1. a \in Seq(S) /\ Len(a) = m /\ \A i \in 1..m : a[i] = q[i]
  BY <1>0
<1>2. b \in Seq(S) /\ Len(b) = Len(q) - m /\ \A i \in 1..Len(b) : b[i] = q[m + i]
  <2>1. \A i \in (m + 1)..Len(q) : i \in 1..Len(q) /\ q[i] \in S
    BY <1>0, ElementOfSeq
  <2>2. /\ b \in Seq(S) /\ Len(b) = IF m + 1 <= Len(q) THEN Len(q) - (m + 1) + 1 ELSE 0
        /\ \A i \in 1..(Len(q) - (m + 1) + 1) : b[i] = q[m + 1 + i - 1]
    BY <1>0, <2>1, SubSeqProperties
  <2>3. Len(b) = Len(q) - m /\ Len(q) - (m + 1) + 1 = Len(b) /\ Len(b) \in Nat
    BY <1>0, <2>2
  <2>4. \A i \in Nat : m + 1 + i - 1 = m + i
    BY <1>0
  <2>5. \A i \in 1..Len(b) : i \in Nat /\ i \in 1..(Len(q) - (m + 1) + 1)
    <3>1. \A k \in Nat : \A i \in 1..k : i \in Nat
      OBVIOUS
    <3> QED BY <2>3, <3>1
  <2>6. ASSUME NEW i \in 1..Len(b) PROVE b[i] = q[m + i]
    BY <2>2, <2>4, <2>5
  <2> QED BY <2>2, <2>3, <2>6
<1> HIDE DEF a, b
<1>3. /\ a \o b \in Seq(S) /\ Len(a \o b) = Len(a) + Len(b)
      /\ \A i \in 1..(Len(a) + Len(b)) : (a \o b)[i] = IF i <= Len(a) THEN a[i] ELSE b[i - Len(a)]
  BY <1>1, <1>2, ConcatProperties
<1>4. Len(a \o b) = Len(q)
  BY <1>0, <1>1, <1>2, <1>3
<1>5. ASSUME NEW i \in 1..Len(q) PROVE (a \o b)[i] = q[i]
  <2>1. (a \o b)[i] = IF i <= m THEN a[i] ELSE b[i - m]
    BY <1>0, <1>1, <1>2, <1>3
  <2>2. CASE i <= m
    BY <1>1, <2>1, <2>2
  <2>3. CASE ~(i <= m)
    <3>1. i - m \in 1..Len(b) /\ m + (i - m) = i
      BY <1>0, <1>2, <2>3
    <3>2. b[i - m] = q[m + (i - m)]
      BY <1>2, <3>1
    <3> QED BY <2>1, <2>3, <3>1, <3>2
  <2> QED BY <2>2, <2>3
<1>6. a \o b = q
  BY <1>3, <1>4, <1>5, SeqEqual
<1> QED BY <1>1, <1>2, <1>6 DEF a, b

\* What a binding of the socket leaves.
UdpBoundTo(u, w) ==
    /\ DOMAIN w = UdpFields /\ w.fd \in BOOLEAN /\ (u.fd => w.fd)
    /\ w.pc = u.pc /\ w.revents = u.revents /\ w.todo = u.todo /\ w.chunks = u.chunks
    /\ w.finish = u.finish /\ w.closing = u.closing /\ w.processing = u.processing
    /\ w.active = u.active /\ w.watch = u.watch /\ w.pending = u.pending /\ w.recv = u.recv
    /\ w.write_queue = u.write_queue /\ w.completed = u.completed /\ w.size = u.size
    /\ w.count = u.count /\ w.status = u.status /\ w.submitted = u.submitted /\ w.wire = u.wire
    /\ w.answered = u.answered

LEMMA UdpBinding ==
    ASSUME NEW u, DOMAIN u = UdpFields, u.fd \in BOOLEAN, NEW b \in Udp!Bind(u) \union Udp!DeferredBind(u)
    PROVE  UdpBoundTo(u, b[1]) /\ b[2] \in BOOLEAN /\ (b[2] => b[1].fd)
<1>1. \/ b = <<[u EXCEPT !.fd = TRUE, !.bound = TRUE], TRUE>>
      \/ b = <<[u EXCEPT !.fd = TRUE], FALSE>>
      \/ b = <<u, FALSE>>
      \/ b = <<u, TRUE>> /\ u.fd
  BY DEF Udp!Bind, Udp!DeferredBind
<1>2. CASE b = <<[u EXCEPT !.fd = TRUE, !.bound = TRUE], TRUE>>
  BY <1>2 DEF UdpBoundTo, UdpFields
<1>3. CASE b = <<[u EXCEPT !.fd = TRUE], FALSE>>
  BY <1>3 DEF UdpBoundTo, UdpFields
<1>4. CASE b = <<u, FALSE>>
  BY <1>4 DEF UdpBoundTo
<1>5. CASE b = <<u, TRUE>> /\ u.fd
  BY <1>5 DEF UdpBoundTo
<1> QED BY <1>1, <1>2, <1>3, <1>4, <1>5

UdpQueued(u) ==
    /\ DOMAIN u = UdpFields
    /\ u.write_queue \in Seq(Datagrams) /\ u.completed \in Seq(Datagrams)
    /\ u.wire \in Seq(Datagrams) /\ u.status \in [Datagrams -> Statuses] /\ u.pending \in BOOLEAN

\* What uv__udp_sendmsg leaves.
UdpMoved(u, w) ==
    /\ UdpQueued(w)
    /\ w.completed \o w.write_queue = u.completed \o u.write_queue
    /\ u.write_queue = <<>> => w.write_queue = <<>>
    /\ w.completed # <<>> /\ u.completed = <<>> => w.pending \/ w.write_queue # <<>>
    /\ \A x : Contains(u.wire, x) => Contains(w.wire, x)
    /\ u.pending => w.pending
    /\ w.pc = u.pc /\ w.revents = u.revents /\ w.todo = u.todo /\ w.chunks = u.chunks
    /\ w.finish = u.finish /\ w.fd = u.fd /\ w.closing = u.closing /\ w.processing = u.processing
    /\ w.active = u.active /\ w.watch = u.watch /\ w.recv = u.recv /\ w.size = u.size
    /\ w.count = u.count /\ w.submitted = u.submitted /\ w.answered = u.answered

LEMMA UdpSent ==
    ASSUME NEW u, UdpQueued(u), NEW n \in Nat, NEW end \in {"all", "again", "error"}, u.write_queue # <<>>,
           IF end = "all" THEN n = Len(u.write_queue) ELSE n \in 0..Len(u.write_queue) - 1
    PROVE  UdpMoved(u, Udp!Sent(u, n, end))
<1> DEFINE q == u.write_queue
<1>1. PICK m \in Nat : m = IF end = "error" THEN n + 1 ELSE n
  OBVIOUS
<1>2. /\ q \in Seq(Datagrams) /\ Len(q) \in Nat /\ n \in 0..Len(q) /\ m \in 0..Len(q)
      /\ end = "again" => m < Len(q)
  <2>1. q \in Seq(Datagrams) /\ Len(q) \in Nat
    BY LenProperties DEF UdpQueued
  <2> HIDE DEF q
  <2> QED BY <1>1, <2>1 DEF q
<1>a. PICK a, b, c : a = SubSeq(q, 1, m) /\ b = SubSeq(q, m + 1, Len(q)) /\ c = SubSeq(q, 1, n)
  OBVIOUS
<1>3. /\ a \in Seq(Datagrams) /\ b \in Seq(Datagrams) /\ Len(b) = Len(q) - m /\ a \o b = q
      /\ c \in Seq(Datagrams)
  BY <1>2, <1>a, SplitQueue
<1>b. u.completed \in Seq(Datagrams) /\ u.wire \in Seq(Datagrams)
  BY DEF UdpQueued
<1>4. PICK st : st = [d \in Datagrams |->
            IF d \in Udp!Range(SubSeq(q, 1, n)) THEN "sent"
            ELSE IF d \in Udp!Range(SubSeq(q, n + 1, m)) THEN "error" ELSE u.status[d]]
  OBVIOUS
<1>5. st \in [Datagrams -> Statuses]
  BY <1>4 DEF UdpQueued, Statuses
<1>6. PICK pd \in BOOLEAN : pd = (u.pending \/ Udp!Feeds(end))
  BY DEF UdpQueued, Udp!Feeds
<1>7. (u.completed \o a) \o b = u.completed \o q /\ u.completed \o a \in Seq(Datagrams)
  <2>1. \A x, y, z \in Seq(Datagrams) : (x \o y) \o z = x \o (y \o z) /\ x \o y \in Seq(Datagrams)
    BY ConcatAssociative, ConcatProperties
  <2>2. (u.completed \o a) \o b = u.completed \o (a \o b) /\ u.completed \o a \in Seq(Datagrams)
    <3>1. a \in Seq(Datagrams) /\ b \in Seq(Datagrams)
      BY <1>3
    <3> QED BY <1>b, <2>1, <3>1
  <2>3. a \o b = q
    BY <1>3
  <2> QED BY <2>2, <2>3
<1>8. u.wire \o c \in Seq(Datagrams) /\ \A x : Contains(u.wire, x) => Contains(u.wire \o c, x)
  BY <1>3, <1>b, ConcatQueue
<1>9. end = "again" => b # <<>>
  <2>1. \A k \in Nat : k < Len(q) => Len(q) - k # 0
    BY <1>2
  <2> QED BY <1>2, <1>3, <2>1, EmptySeq
<1>10. (end # "again" => pd) /\ (u.pending => pd)
  BY <1>6 DEF Udp!Feeds
<1>11. Udp!Sent(u, n, end) = [u EXCEPT !.write_queue = b, !.completed = u.completed \o a, !.status = st,
                                  !.wire = u.wire \o c, !.pending = pd]
  BY <1>1, <1>4, <1>6, <1>a DEF Udp!Sent
<1> DEFINE w == Udp!Sent(u, n, end)
<1> HIDE DEF w
<1>12. /\ DOMAIN w = UdpFields /\ w.write_queue = b /\ w.completed = u.completed \o a
       /\ w.status = st /\ w.wire = u.wire \o c /\ w.pending = pd
  BY <1>11 DEF w, UdpFields, UdpQueued
<1>13. /\ w.pc = u.pc /\ w.revents = u.revents /\ w.todo = u.todo /\ w.chunks = u.chunks
       /\ w.finish = u.finish /\ w.fd = u.fd /\ w.closing = u.closing /\ w.processing = u.processing
       /\ w.active = u.active /\ w.watch = u.watch /\ w.recv = u.recv /\ w.size = u.size
       /\ w.count = u.count /\ w.submitted = u.submitted /\ w.answered = u.answered
  BY <1>11 DEF w, UdpFields, UdpQueued
<1>14. UdpQueued(w)
  BY <1>3, <1>5, <1>6, <1>7, <1>8, <1>12 DEF UdpQueued
<1>15. UdpMoved(u, w)
  BY <1>7, <1>8, <1>9, <1>10, <1>12, <1>13, <1>14 DEF UdpMoved
<1> QED BY <1>15 DEF w

LEMMA UdpSendmsg ==
    ASSUME NEW u, UdpQueued(u), NEW w \in Udp!Sendmsg(u)
    PROVE  UdpMoved(u, w)
<1>1. CASE u.write_queue = <<>>
  <2>1. Udp!Sendmsg(u) = {u}
    BY <1>1, EmptySeq DEF Udp!Sendmsg
  <2> QED BY <1>1, <2>1 DEF UdpMoved, UdpQueued
<1>2. CASE u.write_queue # <<>>
  <2>1. Len(u.write_queue) \in Nat /\ Len(u.write_queue) # 0
    BY <1>2, LenProperties, EmptySeq DEF UdpQueued
  <2>2. \/ w = Udp!Sent(u, Len(u.write_queue), "all")
        \/ \E k \in 0..Len(u.write_queue) - 1, end \in {"again", "error"} : w = Udp!Sent(u, k, end)
    BY <2>1 DEF Udp!Sendmsg
  <2>3. CASE w = Udp!Sent(u, Len(u.write_queue), "all")
    BY <1>2, <2>1, <2>3, UdpSent
  <2>4. CASE \E k \in 0..Len(u.write_queue) - 1, end \in {"again", "error"} : w = Udp!Sent(u, k, end)
    <3>1. PICK k \in 0..Len(u.write_queue) - 1, end \in {"again", "error"} : w = Udp!Sent(u, k, end)
      BY <2>4
    <3>2. k \in Nat /\ end # "all" /\ end \in {"all", "again", "error"}
      BY <2>1
    <3> QED BY <1>2, <3>1, <3>2, UdpSent
  <2> QED BY <2>2, <2>3, <2>4
<1> QED BY <1>1, <1>2

\* What uv__udp_send leaves: one request more, which waits or went out.
UdpEnqueued(u, w, d) ==
    /\ UdpQueued(w)
    /\ w.completed \o w.write_queue = Append(u.completed \o u.write_queue, d)
    /\ w.write_queue # <<>> => "OUT" \in w.watch
    /\ w.completed # <<>> => u.completed # <<>> \/ w.pending \/ "OUT" \in w.watch
    /\ "OUT" \in w.watch => w.watch = u.watch \union {"OUT"}
    /\ w.watch = u.watch \/ w.watch = u.watch \union {"OUT"}
    /\ u.pending => w.pending
    /\ \A x : Contains(u.wire, x) => Contains(w.wire, x)
    /\ w.size = u.size + d /\ w.count = u.count + 1 /\ w.active = TRUE
    /\ w.submitted = Append(u.submitted, d)
    /\ w.pc = u.pc /\ w.revents = u.revents /\ w.todo = u.todo /\ w.chunks = u.chunks
    /\ w.finish = u.finish /\ w.fd = u.fd /\ w.closing = u.closing /\ w.processing = u.processing
    /\ w.recv = u.recv /\ w.answered = u.answered

LEMMA UdpEnqueue ==
    ASSUME UdpConstants, NEW u, UdpQueued(u), u.count = Len(u.completed \o u.write_queue),
           NEW d \in Datagrams, NEW w \in Udp!Enqueue(u, d)
    PROVE  UdpEnqueued(u, w, d)
<1>1. PICK v : v = [u EXCEPT !.write_queue = Append(u.write_queue, d), !.size = u.size + d,
                             !.count = u.count + 1, !.active = TRUE, !.submitted = Append(u.submitted, d)]
  OBVIOUS
<1>2. /\ DOMAIN v = UdpFields /\ v.write_queue = Append(u.write_queue, d) /\ v.size = u.size + d
      /\ v.count = u.count + 1 /\ v.active = TRUE /\ v.submitted = Append(u.submitted, d)
      /\ v.completed = u.completed /\ v.wire = u.wire /\ v.status = u.status /\ v.pending = u.pending
      /\ v.pc = u.pc /\ v.revents = u.revents /\ v.todo = u.todo /\ v.chunks = u.chunks
      /\ v.finish = u.finish /\ v.fd = u.fd /\ v.closing = u.closing /\ v.processing = u.processing
      /\ v.watch = u.watch /\ v.recv = u.recv /\ v.answered = u.answered
  BY <1>1 DEF UdpQueued, UdpFields
<1>3. /\ v.write_queue \in Seq(Datagrams)
      /\ v.completed \o v.write_queue = Append(u.completed \o u.write_queue, d)
  <2>1. u.completed \in Seq(Datagrams) /\ u.write_queue \in Seq(Datagrams)
    BY DEF UdpQueued
  <2>2. \A p, q \in Seq(Datagrams) : Append(q, d) \in Seq(Datagrams) /\ p \o Append(q, d) = Append(p \o q, d)
    BY UdpMore
  <2>3. /\ Append(u.write_queue, d) \in Seq(Datagrams)
        /\ u.completed \o Append(u.write_queue, d) = Append(u.completed \o u.write_queue, d)
    BY <2>1, <2>2
  <2> QED BY <1>2, <2>3
<1>4. UdpQueued(v)
  BY <1>2, <1>3 DEF UdpQueued
<1>5. CASE u.count = 0 /\ ~u.processing
  <2>1. PICK x \in Udp!Sendmsg(v) :
           w = [x EXCEPT !.watch = IF x.write_queue = <<>> THEN x.watch ELSE x.watch \union {"OUT"}]
    BY <1>1, <1>5 DEF Udp!Enqueue
  <2>2. UdpMoved(v, x)
    BY <1>4, UdpSendmsg
  <2>3. u.completed = <<>>
    <3>1. u.completed \in Seq(Datagrams) /\ u.write_queue \in Seq(Datagrams)
      BY DEF UdpQueued
    <3>2. Len(u.completed \o u.write_queue) = Len(u.completed) + Len(u.write_queue)
      BY <3>1, ConcatProperties
    <3>3. Len(u.completed) \in Nat /\ Len(u.write_queue) \in Nat
      BY <3>1, LenProperties
    <3>4. Len(u.completed) = 0
      <4>1. \A m, n \in Nat : m + n = 0 => m = 0
        OBVIOUS
      <4>2. Len(u.completed) + Len(u.write_queue) = 0
        BY <1>5, <3>2
      <4> QED BY <3>3, <4>1, <4>2
    <3> QED BY <3>1, <3>4, EmptySeq
  <2>4. PICK wt : wt = IF x.write_queue = <<>> THEN x.watch ELSE x.watch \union {"OUT"}
    OBVIOUS
  <2>5. /\ DOMAIN w = UdpFields /\ w.watch = wt
        /\ w.write_queue = x.write_queue /\ w.completed = x.completed /\ w.size = x.size
        /\ w.count = x.count /\ w.active = x.active /\ w.submitted = x.submitted
        /\ w.wire = x.wire /\ w.status = x.status /\ w.pending = x.pending
        /\ w.pc = x.pc /\ w.revents = x.revents /\ w.todo = x.todo /\ w.chunks = x.chunks
        /\ w.finish = x.finish /\ w.fd = x.fd /\ w.closing = x.closing /\ w.processing = x.processing
        /\ w.recv = x.recv /\ w.answered = x.answered
    <3>1. DOMAIN x = UdpFields
      BY <2>2 DEF UdpMoved, UdpQueued
    <3>2. w = [x EXCEPT !.watch = wt]
      BY <2>1, <2>4
    <3> QED BY <3>1, <3>2 DEF UdpFields
  <2>6. UdpQueued(w)
    BY <2>2, <2>5 DEF UdpMoved, UdpQueued
  <2> QED BY <1>2, <1>3, <2>2, <2>3, <2>4, <2>5, <2>6 DEF UdpMoved, UdpEnqueued
<1>6. CASE ~(u.count = 0 /\ ~u.processing)
  <2>1. w = [v EXCEPT !.watch = v.watch \union {"OUT"}]
    BY <1>1, <1>6 DEF Udp!Enqueue
  <2>2. /\ DOMAIN w = UdpFields /\ w.watch = v.watch \union {"OUT"}
        /\ w.write_queue = v.write_queue /\ w.completed = v.completed /\ w.size = v.size
        /\ w.count = v.count /\ w.active = v.active /\ w.submitted = v.submitted
        /\ w.wire = v.wire /\ w.status = v.status /\ w.pending = v.pending
        /\ w.pc = v.pc /\ w.revents = v.revents /\ w.todo = v.todo /\ w.chunks = v.chunks
        /\ w.finish = v.finish /\ w.fd = v.fd /\ w.closing = v.closing /\ w.processing = v.processing
        /\ w.recv = v.recv /\ w.answered = v.answered
    BY <1>2, <2>1 DEF UdpFields
  <2>3. UdpQueued(w)
    BY <1>4, <2>2 DEF UdpQueued
  <2> QED BY <1>2, <1>3, <2>2, <2>3 DEF UdpEnqueued
<1> QED BY <1>5, <1>6

LEMMA UdpBegins ==
    ASSUME UdpConstants, Udp!Init
    PROVE  UdpInv
<1>1. /\ DOMAIN udp = UdpFields /\ udp.pc = "loop" /\ udp.revents = {} /\ udp.todo = 0 /\ udp.chunks = 0
      /\ udp.finish = FALSE /\ udp.fd \in BOOLEAN /\ udp.closing = "no" /\ udp.processing = FALSE
      /\ udp.active = FALSE /\ udp.watch = {} /\ udp.pending = FALSE /\ udp.recv = FALSE
      /\ udp.write_queue = <<>> /\ udp.completed = <<>> /\ udp.size = 0 /\ udp.count = 0
      /\ udp.status = [d \in Datagrams |-> "none"]
      /\ udp.submitted = <<>> /\ udp.wire = <<>> /\ udp.answered = <<>>
  BY DEF Udp!Init, UdpFields
<1>2. UdpTyped
  <2>1. 0 \in -Chunks..RecvMax /\ 0 \in 0..Chunks
    BY DEF UdpConstants
  <2> QED BY <1>1, <2>1 DEF UdpTyped, Udp!States
<1>3. UdpQueues
  BY <1>1, EmptySeq DEF UdpQueues, Statuses
<1>4. <<>> \o <<>> = <<>> /\ Len(<<>>) = 0 /\ Total(<<>>, UdpSizes) = 0
  BY TotalEmpty, UdpBytes
<1>5. UdpCounts
  BY <1>1, <1>4 DEF UdpCounts
<1>6. UdpKept
  BY <1>1, EmptyQueue DEF UdpKept
<1>7. UdpTurn /\ UdpWatched /\ UdpClosed
  BY <1>1 DEF UdpTurn, UdpWatched, UdpClosed
<1> QED BY <1>1, <1>2, <1>3, <1>5, <1>6, <1>7 DEF UdpInv


\* What the program does with the socket of an open handle.
UdpBinds == Udp!Program /\ UdpBoundTo(udp, udp')

UdpSends(d) == Udp!Program /\ \E u : UdpBoundTo(udp, u) /\ \E w \in Udp!Enqueue(u, d) : udp' = w

UdpSendsNow(d) == Udp!Program /\ \E u : UdpBoundTo(udp, u) /\
    udp' = [u EXCEPT !.submitted = Append(u.submitted, d), !.wire = Append(u.wire, d)]

UdpReads == Udp!Program /\ \E u : UdpBoundTo(udp, u) /\ u.fd /\
    udp' = [u EXCEPT !.recv = TRUE, !.active = TRUE, !.watch = u.watch \union {"IN"}]

LEMMA UdpPrograms ==
    ASSUME UdpInv
    PROVE  /\ Udp!UdpBind \/ Udp!Open \/ Udp!Connect \/ Udp!Disconnect => UdpBinds
           /\ Udp!RecvStart => UdpBinds \/ UdpReads
           /\ \A d \in Datagrams : Udp!Send(d) => UdpBinds \/ UdpSends(d)
           /\ \A d \in Datagrams : Udp!TrySend(d) => UdpBinds \/ UdpSendsNow(d)
<1>1. DOMAIN udp = UdpFields /\ udp.fd \in BOOLEAN
  BY DEF UdpInv, UdpTyped
<1>2. UdpBoundTo(udp, udp)
  BY <1>1 DEF UdpBoundTo
<1>3. \A b \in Udp!Bind(udp) \union Udp!DeferredBind(udp) : UdpBoundTo(udp, b[1]) /\ b[2] \in BOOLEAN /\ (b[2] => b[1].fd)
  BY <1>1, UdpBinding
<1>4. Udp!UdpBind => UdpBinds
  BY <1>3 DEF Udp!UdpBind, UdpBinds
<1>5. ASSUME Udp!Open PROVE UdpBinds
  BY <1>1, <1>5 DEF Udp!Open, UdpBinds, UdpBoundTo, UdpFields
<1>6. ASSUME Udp!Connect PROVE UdpBinds
  <2>1. PICK b \in Udp!DeferredBind(udp), ok \in BOOLEAN : udp' = [b[1] EXCEPT !.connected = b[2] /\ ok]
    BY <1>6 DEF Udp!Connect
  <2>2. PICK u : u = b[1] /\ UdpBoundTo(udp, u)
    BY <1>3
  <2>3. PICK c : udp' = [u EXCEPT !.connected = c]
    BY <2>1, <2>2
  <2> QED BY <1>6, <2>2, <2>3 DEF Udp!Connect, UdpBinds, UdpBoundTo, UdpFields
<1>7. ASSUME Udp!Disconnect PROVE UdpBinds
  BY <1>1, <1>7 DEF Udp!Disconnect, UdpBinds, UdpBoundTo, UdpFields
<1>8. ASSUME Udp!RecvStart PROVE UdpBinds \/ UdpReads
  <2>1. PICK b \in Udp!DeferredBind(udp) : udp' = IF b[2] THEN [b[1] EXCEPT !.recv = TRUE, !.active = TRUE, !.watch = b[1].watch \union {"IN"}]
                                              ELSE b[1]
    BY <1>8 DEF Udp!RecvStart
  <2>2. PICK u : u = b[1] /\ UdpBoundTo(udp, u) /\ (b[2] => u.fd)
    BY <1>3
  <2> QED BY <1>8, <2>1, <2>2 DEF Udp!RecvStart, UdpBinds, UdpReads
<1>9. ASSUME NEW d \in Datagrams, Udp!Send(d) PROVE UdpBinds \/ UdpSends(d)
  <2>1. PICK address \in BOOLEAN : \E b \in IF address THEN Udp!DeferredBind(udp) ELSE {<<udp, TRUE>>} :
            IF b[2] THEN \E u \in Udp!Enqueue(b[1], d) : udp' = u ELSE udp' = b[1]
    BY <1>9 DEF Udp!Send
  <2>2. PICK b \in IF address THEN Udp!DeferredBind(udp) ELSE {<<udp, TRUE>>} :
            IF b[2] THEN \E u \in Udp!Enqueue(b[1], d) : udp' = u ELSE udp' = b[1]
    BY <2>1
  <2>3. UdpBoundTo(udp, b[1])
    <3>1. CASE address
      BY <1>3, <2>2, <3>1
    <3>2. CASE ~address
      BY <1>2, <2>2, <3>2
    <3> QED BY <3>1, <3>2
  <2> QED BY <1>9, <2>2, <2>3 DEF Udp!Send, UdpBinds, UdpSends
<1>10. ASSUME NEW d \in Datagrams, Udp!TrySend(d) PROVE UdpBinds \/ UdpSendsNow(d)
  <2>1. PICK address \in BOOLEAN : \E b \in IF address THEN Udp!DeferredBind(udp) ELSE {<<udp, TRUE>>}, ok \in BOOLEAN :
            udp' = IF b[2] /\ ok
                   THEN [b[1] EXCEPT !.submitted = Append(b[1].submitted, d), !.wire = Append(b[1].wire, d)]
                   ELSE b[1]
    BY <1>10 DEF Udp!TrySend
  <2>2. PICK b \in IF address THEN Udp!DeferredBind(udp) ELSE {<<udp, TRUE>>}, ok \in BOOLEAN :
            udp' = IF b[2] /\ ok
                   THEN [b[1] EXCEPT !.submitted = Append(b[1].submitted, d), !.wire = Append(b[1].wire, d)]
                   ELSE b[1]
    BY <2>1
  <2>3. UdpBoundTo(udp, b[1])
    <3>1. CASE address
      BY <1>3, <2>2, <3>1
    <3>2. CASE ~address
      BY <1>2, <2>2, <3>2
    <3> QED BY <3>1, <3>2
  <2>4. PICK u : u = b[1]
    OBVIOUS
  <2> QED BY <1>10, <2>2, <2>3, <2>4 DEF Udp!TrySend, UdpBinds, UdpSendsNow
<1> QED BY <1>4, <1>5, <1>6, <1>7, <1>8, <1>9, <1>10

LEMMA UdpAnswers ==
    ASSUME NEW S, NEW q \in Seq(S), NEW x \in S
    PROVE  /\ Append(q, x) \in Seq(S) /\ Answered(Append(q, x), x[1])
           /\ \A y : Answered(q, y) => Answered(Append(q, x), y)
<1>1. /\ Append(q, x) \in Seq(S) /\ Len(Append(q, x)) = Len(q) + 1 /\ Append(q, x)[Len(q) + 1] = x
      /\ \A i \in 1..Len(q) : Append(q, x)[i] = q[i] /\ i \in 1..Len(Append(q, x))
      /\ Len(q) + 1 \in 1..Len(Append(q, x))
  BY AppendProperties, LenProperties
<1> QED BY <1>1 DEF Answered

LEMMA UdpDrained ==
    ASSUME NEW p \in Seq(Datagrams), NEW q \in Seq(Datagrams)
    PROVE  (p \o q) \o <<>> = p \o q /\ p \o q \in Seq(Datagrams) /\ <<>> \in Seq(Datagrams)
<1>1. p \o q \in Seq(Datagrams)
  BY ConcatProperties
<1> QED BY <1>1, ConcatEmptySeq, EmptySeq

\* What the queues are after uv__udp_send and uv__udp_sendmsg.
UdpMoreOf(u, w, d) ==
    /\ w.write_queue \in Seq(Datagrams) /\ w.completed \in Seq(Datagrams) /\ w.wire \in Seq(Datagrams)
    /\ w.status \in [Datagrams -> Statuses] /\ w.pending \in BOOLEAN
    /\ w.completed \o w.write_queue = Append(u.completed \o u.write_queue, d)
    /\ w.write_queue # <<>> => "OUT" \in w.watch
    /\ w.completed # <<>> => u.completed # <<>> \/ w.pending \/ "OUT" \in w.watch
    /\ \A e : e \in w.watch => e \in u.watch \/ e = "OUT"
    /\ \A e : e \in u.watch => e \in w.watch
    /\ u.pending => w.pending
    /\ \A x : Contains(u.wire, x) => Contains(w.wire, x)

UdpMoreOf0(u, w) ==
    /\ w.write_queue \in Seq(Datagrams) /\ w.completed \in Seq(Datagrams) /\ w.wire \in Seq(Datagrams)
    /\ w.status \in [Datagrams -> Statuses] /\ w.pending \in BOOLEAN
    /\ w.completed \o w.write_queue = u.completed \o u.write_queue
    /\ u.write_queue = <<>> => w.write_queue = <<>>
    /\ \A x : Contains(u.wire, x) => Contains(w.wire, x)

LEMMA UdpStep ==
    ASSUME UdpConstants, UdpInv, Udp!Next
    PROVE  UdpInv'
<1> UdpConstants /\ (DOMAIN udp = UdpFields) /\ UdpTyped /\ UdpQueues /\ UdpCounts /\ UdpKept /\
         UdpTurn /\ UdpWatched /\ UdpClosed
  BY DEF UdpInv
<1>1. CASE UdpBinds
  <2>u. /\ DOMAIN udp' = DOMAIN udp /\ udp'.fd = udp'.fd /\ udp'.pc = udp.pc
        /\ udp'.revents = udp.revents /\ udp'.todo = udp.todo /\ udp'.chunks = udp.chunks
        /\ udp'.finish = udp.finish /\ udp'.closing = udp.closing
        /\ udp'.processing = udp.processing /\ udp'.active = udp.active
        /\ udp'.watch = udp.watch /\ udp'.pending = udp.pending /\ udp'.recv = udp.recv
        /\ udp'.write_queue = udp.write_queue /\ udp'.completed = udp.completed
        /\ udp'.size = udp.size /\ udp'.count = udp.count /\ udp'.status = udp.status
        /\ udp'.submitted = udp.submitted /\ udp'.wire = udp.wire
        /\ udp'.answered = udp.answered
    BY <1>1 DEF UdpBinds, Udp!Program, UdpBoundTo, UdpTyped, UdpFields
  <2>g. udp.closing = "no" /\ udp.pc \in {"loop", "recv_cb", "send_cb"} /\ udp'.fd \in BOOLEAN /\ (udp.fd => udp'.fd)
    BY <1>1 DEF UdpBinds, Udp!Program, UdpBoundTo
  <2>1. (DOMAIN udp = UdpFields)'
    BY <2>u, <2>g
  <2>2. UdpTyped'
    BY <2>u, <2>g DEF UdpTyped
  <2>3. UdpQueues'
    BY <2>u, <2>g DEF UdpQueues
  <2>4. UdpCounts'
    BY <2>u, <2>g DEF UdpCounts
  <2>5. UdpKept'
    BY <2>u, <2>g DEF UdpKept
  <2>6. UdpTurn'
    BY <2>u, <2>g DEF UdpTurn, UdpTyped
  <2>7. UdpWatched'
    BY <2>u, <2>g DEF UdpWatched, UdpClosed, UdpTurn, UdpTyped
  <2>8. UdpClosed'
    BY <2>u, <2>g DEF UdpClosed, UdpTyped
  <2> QED BY <2>1, <2>2, <2>3, <2>4, <2>5, <2>6, <2>7, <2>8 DEF UdpInv
<1>2. ASSUME NEW d \in Datagrams, UdpSends(d) PROVE UdpInv'
  <2>p. PICK u : Udp!Program /\ UdpBoundTo(udp, u) /\ \E w \in Udp!Enqueue(u, d) : udp' = w
    BY <1>2 DEF UdpSends
  <2>q. UdpQueued(u) /\ u.count = Len(u.completed \o u.write_queue)
    BY <2>p DEF UdpQueued, UdpBoundTo, UdpTyped, UdpQueues, UdpCounts
  <2>w. PICK w \in Udp!Enqueue(u, d) : udp' = w /\ UdpEnqueued(u, w, d)
    BY <2>p, <2>q, UdpEnqueue
  <2>u. /\ DOMAIN udp' = DOMAIN udp /\ udp'.fd = u.fd /\ udp'.active = TRUE
        /\ udp'.watch = w.watch /\ udp'.pending = w.pending /\ udp'.write_queue = w.write_queue
        /\ udp'.completed = w.completed /\ udp'.size = udp.size + d
        /\ udp'.count = udp.count + 1 /\ udp'.status = w.status
        /\ udp'.submitted = Append(udp.submitted, d) /\ udp'.wire = w.wire /\ udp'.pc = udp.pc
        /\ udp'.revents = udp.revents /\ udp'.todo = udp.todo /\ udp'.chunks = udp.chunks
        /\ udp'.finish = udp.finish /\ udp'.closing = udp.closing
        /\ udp'.processing = udp.processing /\ udp'.recv = udp.recv
        /\ udp'.answered = udp.answered
    BY <1>2, <2>p, <2>w DEF UdpEnqueued, UdpBoundTo, UdpQueued, UdpTyped, UdpFields
  <2>g. udp.closing = "no" /\ udp.pc \in {"loop", "recv_cb", "send_cb"} /\ u.fd \in BOOLEAN /\ (udp.fd => u.fd)
    BY <2>p DEF Udp!Program, UdpBoundTo
  <2>a. UdpMoreOf(udp, w, d)
    BY <2>p, <2>w DEF UdpEnqueued, UdpBoundTo, UdpQueued, UdpMoreOf
  <2>s. Append(udp.submitted, d) \in Seq(Datagrams) /\ \A y : Contains(Append(udp.submitted, d), y) <=> Contains(udp.submitted, y) \/ y = d
    BY AppendQueue DEF UdpQueues
  <2>m. /\ Len(Append(udp.completed \o udp.write_queue, d)) = Len(udp.completed \o udp.write_queue) + 1
        /\ Total(Append(udp.completed \o udp.write_queue, d), UdpSizes) = Total(udp.completed \o udp.write_queue, UdpSizes) + d
        /\ \A y : Contains(Append(udp.completed \o udp.write_queue, d), y) <=> Contains(udp.completed \o udp.write_queue, y) \/ y = d
    BY UdpMore DEF UdpQueues
  <2>1. (DOMAIN udp = UdpFields)'
    BY <2>u
  <2>2. UdpTyped'
    BY <2>u, <2>g, <2>a DEF UdpTyped, UdpMoreOf
  <2>3. UdpQueues'
    BY <2>u, <2>a, <2>s DEF UdpQueues, UdpMoreOf
  <2>4. UdpCounts'
    BY <2>u, <2>a, <2>m DEF UdpCounts, UdpMoreOf
  <2>5. UdpKept'
    BY <2>u, <2>a, <2>s, <2>m DEF UdpKept, UdpMoreOf
  <2>6. UdpTurn'
    BY <2>u, <2>g DEF UdpTurn, UdpTyped
  <2>7. UdpWatched'
    BY <2>u, <2>g, <2>a DEF UdpWatched, UdpClosed, UdpTurn, UdpTyped, UdpMoreOf
  <2>8. UdpClosed'
    BY <2>u, <2>g, <2>a DEF UdpClosed, UdpTyped, UdpMoreOf
  <2> QED BY <2>1, <2>2, <2>3, <2>4, <2>5, <2>6, <2>7, <2>8 DEF UdpInv
<1>3. ASSUME NEW d \in Datagrams, UdpSendsNow(d) PROVE UdpInv'
  <2>p. PICK u : /\ Udp!Program /\ UdpBoundTo(udp, u)
                 /\ udp' = [u EXCEPT !.submitted = Append(u.submitted, d), !.wire = Append(u.wire, d)]
    BY <1>3 DEF UdpSendsNow
  <2>u. /\ DOMAIN udp' = DOMAIN udp /\ udp'.fd = u.fd
        /\ udp'.submitted = Append(udp.submitted, d) /\ udp'.wire = Append(udp.wire, d)
        /\ udp'.pc = udp.pc /\ udp'.revents = udp.revents /\ udp'.todo = udp.todo
        /\ udp'.chunks = udp.chunks /\ udp'.finish = udp.finish /\ udp'.closing = udp.closing
        /\ udp'.processing = udp.processing /\ udp'.active = udp.active
        /\ udp'.watch = udp.watch /\ udp'.pending = udp.pending /\ udp'.recv = udp.recv
        /\ udp'.write_queue = udp.write_queue /\ udp'.completed = udp.completed
        /\ udp'.size = udp.size /\ udp'.count = udp.count /\ udp'.status = udp.status
        /\ udp'.answered = udp.answered
    BY <1>3, <2>p DEF UdpBoundTo, UdpTyped, UdpFields
  <2>g. udp.closing = "no" /\ udp.pc \in {"loop", "recv_cb", "send_cb"} /\ u.fd \in BOOLEAN /\ (udp.fd => u.fd)
    BY <2>p DEF Udp!Program, UdpBoundTo
  <2>s. /\ Append(udp.submitted, d) \in Seq(Datagrams) /\ Append(udp.wire, d) \in Seq(Datagrams)
        /\ \A y : Contains(Append(udp.submitted, d), y) <=> Contains(udp.submitted, y) \/ y = d
        /\ \A y : Contains(Append(udp.wire, d), y) <=> Contains(udp.wire, y) \/ y = d
    BY AppendQueue DEF UdpQueues
  <2>1. (DOMAIN udp = UdpFields)'
    BY <2>u
  <2>2. UdpTyped'
    BY <2>u, <2>g DEF UdpTyped
  <2>3. UdpQueues'
    BY <2>u, <2>s DEF UdpQueues
  <2>4. UdpCounts'
    BY <2>u DEF UdpCounts
  <2>5. UdpKept'
    BY <2>u, <2>s DEF UdpKept
  <2>6. UdpTurn'
    BY <2>u, <2>g DEF UdpTurn, UdpTyped
  <2>7. UdpWatched'
    BY <2>u, <2>g DEF UdpWatched, UdpClosed, UdpTurn, UdpTyped
  <2>8. UdpClosed'
    BY <2>u, <2>g DEF UdpClosed, UdpTyped
  <2> QED BY <2>1, <2>2, <2>3, <2>4, <2>5, <2>6, <2>7, <2>8 DEF UdpInv
<1>4. CASE UdpReads
  <2>p. PICK u : /\ Udp!Program /\ UdpBoundTo(udp, u) /\ u.fd
                 /\ udp' = [u EXCEPT !.recv = TRUE, !.active = TRUE, !.watch = u.watch \union {"IN"}]
    BY <1>4 DEF UdpReads
  <2>u. /\ DOMAIN udp' = DOMAIN udp /\ udp'.fd = u.fd /\ udp'.active = TRUE
        /\ udp'.watch = udp.watch \union {"IN"} /\ udp'.recv = TRUE /\ udp'.pc = udp.pc
        /\ udp'.revents = udp.revents /\ udp'.todo = udp.todo /\ udp'.chunks = udp.chunks
        /\ udp'.finish = udp.finish /\ udp'.closing = udp.closing
        /\ udp'.processing = udp.processing /\ udp'.pending = udp.pending
        /\ udp'.write_queue = udp.write_queue /\ udp'.completed = udp.completed
        /\ udp'.size = udp.size /\ udp'.count = udp.count /\ udp'.status = udp.status
        /\ udp'.submitted = udp.submitted /\ udp'.wire = udp.wire
        /\ udp'.answered = udp.answered
    BY <1>4, <2>p DEF UdpBoundTo, UdpTyped, UdpFields
  <2>g. udp.closing = "no" /\ udp.pc \in {"loop", "recv_cb", "send_cb"} /\ u.fd \in BOOLEAN /\ u.fd
    BY <2>p DEF Udp!Program, UdpBoundTo
  <2>1. (DOMAIN udp = UdpFields)'
    BY <2>u
  <2>2. UdpTyped'
    BY <2>u, <2>g DEF UdpTyped
  <2>3. UdpQueues'
    BY <2>u DEF UdpQueues
  <2>4. UdpCounts'
    BY <2>u DEF UdpCounts
  <2>5. UdpKept'
    BY <2>u DEF UdpKept
  <2>6. UdpTurn'
    BY <2>u, <2>g DEF UdpTurn, UdpTyped
  <2>7. UdpWatched'
    BY <2>u, <2>g DEF UdpWatched, UdpClosed, UdpTurn, UdpTyped
  <2>8. UdpClosed'
    BY <2>u, <2>g DEF UdpClosed, UdpTyped
  <2> QED BY <2>1, <2>2, <2>3, <2>4, <2>5, <2>6, <2>7, <2>8 DEF UdpInv
<1>5. CASE Udp!RecvStop
  <2>a. PICK a \in BOOLEAN : a = (udp.active /\ Udp!Writing(udp))
    BY DEF UdpTyped, Udp!Writing
  <2>u. /\ DOMAIN udp' = DOMAIN udp /\ udp'.active = a /\ udp'.watch = udp.watch \ {"IN"}
        /\ udp'.recv = FALSE /\ udp'.pc = udp.pc /\ udp'.revents = udp.revents
        /\ udp'.todo = udp.todo /\ udp'.chunks = udp.chunks /\ udp'.finish = udp.finish
        /\ udp'.fd = udp.fd /\ udp'.closing = udp.closing /\ udp'.processing = udp.processing
        /\ udp'.pending = udp.pending /\ udp'.write_queue = udp.write_queue
        /\ udp'.completed = udp.completed /\ udp'.size = udp.size /\ udp'.count = udp.count
        /\ udp'.status = udp.status /\ udp'.submitted = udp.submitted /\ udp'.wire = udp.wire
        /\ udp'.answered = udp.answered
    BY <1>5, <2>a DEF Udp!RecvStop, Udp!Program, UdpTyped, UdpFields
  <2>g. udp.closing = "no" /\ udp.pc \in {"loop", "recv_cb", "send_cb"}
    BY <1>5 DEF Udp!RecvStop, Udp!Program
  <2>b. "OUT" \in udp.watch => a
    BY <2>a DEF Udp!Writing, UdpWatched
  <2>1. (DOMAIN udp = UdpFields)'
    BY <2>u, <2>g
  <2>2. UdpTyped'
    BY <2>u, <2>g DEF UdpTyped
  <2>3. UdpQueues'
    BY <2>u, <2>g DEF UdpQueues
  <2>4. UdpCounts'
    BY <2>u, <2>g DEF UdpCounts
  <2>5. UdpKept'
    BY <2>u, <2>g DEF UdpKept
  <2>6. UdpTurn'
    BY <2>u, <2>g DEF UdpTurn, UdpTyped
  <2>7. UdpWatched'
    BY <2>u, <2>g, <2>b DEF UdpWatched, UdpClosed, UdpTurn, UdpTyped
  <2>8. UdpClosed'
    BY <2>u, <2>g DEF UdpClosed, UdpTyped
  <2> QED BY <2>1, <2>2, <2>3, <2>4, <2>5, <2>6, <2>7, <2>8 DEF UdpInv
<1>6. CASE Udp!Close
  <2>u. /\ DOMAIN udp' = DOMAIN udp /\ udp'.fd = FALSE /\ udp'.closing = "closing"
        /\ udp'.active = FALSE /\ udp'.watch = {} /\ udp'.pending = FALSE /\ udp'.pc = udp.pc
        /\ udp'.revents = udp.revents /\ udp'.todo = udp.todo /\ udp'.chunks = udp.chunks
        /\ udp'.finish = udp.finish /\ udp'.processing = udp.processing /\ udp'.recv = udp.recv
        /\ udp'.write_queue = udp.write_queue /\ udp'.completed = udp.completed
        /\ udp'.size = udp.size /\ udp'.count = udp.count /\ udp'.status = udp.status
        /\ udp'.submitted = udp.submitted /\ udp'.wire = udp.wire
        /\ udp'.answered = udp.answered
    BY <1>6 DEF Udp!Close, Udp!Program, UdpTyped, UdpFields
  <2>g. udp.closing = "no" /\ udp.pc \in {"loop", "recv_cb", "send_cb"}
    BY <1>6 DEF Udp!Close, Udp!Program
  <2>1. (DOMAIN udp = UdpFields)'
    BY <2>u, <2>g
  <2>2. UdpTyped'
    BY <2>u, <2>g DEF UdpTyped
  <2>3. UdpQueues'
    BY <2>u, <2>g DEF UdpQueues
  <2>4. UdpCounts'
    BY <2>u, <2>g DEF UdpCounts
  <2>5. UdpKept'
    BY <2>u, <2>g DEF UdpKept
  <2>6. UdpTurn'
    BY <2>u, <2>g DEF UdpTurn, UdpTyped
  <2>7. UdpWatched'
    BY <2>u, <2>g DEF UdpWatched, UdpClosed, UdpTurn, UdpTyped
  <2>8. UdpClosed'
    BY <2>u, <2>g DEF UdpClosed, UdpTyped
  <2> QED BY <2>1, <2>2, <2>3, <2>4, <2>5, <2>6, <2>7, <2>8 DEF UdpInv
<1>7. CASE Udp!Poll
  <2>e. PICK e \in (SUBSET udp.watch) \ {{}} :
           udp' = [udp EXCEPT !.revents = e, !.todo = RecvMax, !.pc = IF "IN" \in e THEN "recv" ELSE "out"]
    BY <1>7 DEF Udp!Poll
  <2>u. /\ DOMAIN udp' = DOMAIN udp /\ udp'.pc = (IF "IN" \in e THEN "recv" ELSE "out")
        /\ udp'.revents = e /\ udp'.todo = RecvMax /\ udp'.chunks = udp.chunks
        /\ udp'.finish = udp.finish /\ udp'.fd = udp.fd /\ udp'.closing = udp.closing
        /\ udp'.processing = udp.processing /\ udp'.active = udp.active
        /\ udp'.watch = udp.watch /\ udp'.pending = udp.pending /\ udp'.recv = udp.recv
        /\ udp'.write_queue = udp.write_queue /\ udp'.completed = udp.completed
        /\ udp'.size = udp.size /\ udp'.count = udp.count /\ udp'.status = udp.status
        /\ udp'.submitted = udp.submitted /\ udp'.wire = udp.wire
        /\ udp'.answered = udp.answered
    BY <1>7, <2>e DEF Udp!Poll, UdpTyped, UdpFields
  <2>g. udp.pc = "loop"
    BY <1>7 DEF Udp!Poll
  <2>f. (\A x \in e : x \in udp.watch) /\ (\E x \in udp.watch : x \in e)
    <3>1. e \in SUBSET udp.watch
      BY <2>e
    <3>2. e # {}
      BY <2>e
    <3> QED BY <3>1, <3>2
  <2>r. RecvMax \in Nat \ {0} /\ Chunks \in Nat /\ RecvMax \in -Chunks..RecvMax
    BY DEF UdpConstants
  <2>1. (DOMAIN udp = UdpFields)'
    BY <2>u, <2>g
  <2>2. UdpTyped'
    BY <2>u, <2>g, <2>f, <2>r DEF UdpTyped, Udp!States
  <2>3. UdpQueues'
    BY <2>u, <2>g DEF UdpQueues
  <2>4. UdpCounts'
    BY <2>u, <2>g DEF UdpCounts
  <2>5. UdpKept'
    BY <2>u, <2>g DEF UdpKept
  <2>6. UdpTurn'
    BY <2>u, <2>g, <2>f, <2>r DEF UdpTurn, UdpTyped, UdpWatched
  <2>7. UdpWatched'
    BY <2>u, <2>g, <2>f DEF UdpWatched, UdpClosed, UdpTurn, UdpTyped
  <2>8. UdpClosed'
    BY <2>u, <2>g, <2>f DEF UdpClosed, UdpTyped
  <2> QED BY <2>1, <2>2, <2>3, <2>4, <2>5, <2>6, <2>7, <2>8 DEF UdpInv
<1>8. CASE Udp!RunPending
  <2>u. /\ DOMAIN udp' = DOMAIN udp /\ udp'.pc = "out" /\ udp'.revents = {"OUT"}
        /\ udp'.pending = FALSE /\ udp'.todo = udp.todo /\ udp'.chunks = udp.chunks
        /\ udp'.finish = udp.finish /\ udp'.fd = udp.fd /\ udp'.closing = udp.closing
        /\ udp'.processing = udp.processing /\ udp'.active = udp.active
        /\ udp'.watch = udp.watch /\ udp'.recv = udp.recv /\ udp'.write_queue = udp.write_queue
        /\ udp'.completed = udp.completed /\ udp'.size = udp.size /\ udp'.count = udp.count
        /\ udp'.status = udp.status /\ udp'.submitted = udp.submitted /\ udp'.wire = udp.wire
        /\ udp'.answered = udp.answered
    BY <1>8 DEF Udp!RunPending, UdpTyped, UdpFields
  <2>g. udp.pc = "loop" /\ udp.pending
    BY <1>8 DEF Udp!RunPending
  <2>1. (DOMAIN udp = UdpFields)'
    BY <2>u, <2>g
  <2>2. UdpTyped'
    BY <2>u, <2>g DEF UdpTyped, Udp!States
  <2>3. UdpQueues'
    BY <2>u, <2>g DEF UdpQueues
  <2>4. UdpCounts'
    BY <2>u, <2>g DEF UdpCounts
  <2>5. UdpKept'
    BY <2>u, <2>g DEF UdpKept
  <2>6. UdpTurn'
    BY <2>u, <2>g DEF UdpTurn, UdpTyped
  <2>7. UdpWatched'
    BY <2>u, <2>g DEF UdpWatched, UdpClosed, UdpTurn, UdpTyped
  <2>8. UdpClosed'
    BY <2>u, <2>g DEF UdpClosed, UdpTyped
  <2> QED BY <2>1, <2>2, <2>3, <2>4, <2>5, <2>6, <2>7, <2>8 DEF UdpInv
<1>9. CASE Udp!RecvEnd
  <2>u. /\ DOMAIN udp' = DOMAIN udp /\ udp'.pc = "recv_cb" /\ udp'.todo = 0
        /\ udp'.revents = udp.revents /\ udp'.chunks = udp.chunks /\ udp'.finish = udp.finish
        /\ udp'.fd = udp.fd /\ udp'.closing = udp.closing /\ udp'.processing = udp.processing
        /\ udp'.active = udp.active /\ udp'.watch = udp.watch /\ udp'.pending = udp.pending
        /\ udp'.recv = udp.recv /\ udp'.write_queue = udp.write_queue
        /\ udp'.completed = udp.completed /\ udp'.size = udp.size /\ udp'.count = udp.count
        /\ udp'.status = udp.status /\ udp'.submitted = udp.submitted /\ udp'.wire = udp.wire
        /\ udp'.answered = udp.answered
    BY <1>9 DEF Udp!RecvEnd, UdpTyped, UdpFields
  <2>g. udp.pc = "recv"
    BY <1>9 DEF Udp!RecvEnd
  <2>1. (DOMAIN udp = UdpFields)'
    BY <2>u, <2>g
  <2>2. UdpTyped'
    BY <2>u, <2>g DEF UdpTyped, Udp!States, UdpConstants
  <2>3. UdpQueues'
    BY <2>u, <2>g DEF UdpQueues
  <2>4. UdpCounts'
    BY <2>u, <2>g DEF UdpCounts
  <2>5. UdpKept'
    BY <2>u, <2>g DEF UdpKept
  <2>6. UdpTurn'
    BY <2>u, <2>g DEF UdpTurn, UdpTyped
  <2>7. UdpWatched'
    BY <2>u, <2>g DEF UdpWatched, UdpClosed, UdpTurn, UdpTyped
  <2>8. UdpClosed'
    BY <2>u, <2>g DEF UdpClosed, UdpTyped
  <2> QED BY <2>1, <2>2, <2>3, <2>4, <2>5, <2>6, <2>7, <2>8 DEF UdpInv
<1>10. CASE Udp!RecvOne
  <2>t. PICK t : t = udp.todo - 1
    OBVIOUS
  <2>v. t \in -Chunks..RecvMax
    BY <1>10, <2>t DEF Udp!RecvOne, UdpTurn, UdpTyped, UdpConstants
  <2>u. /\ DOMAIN udp' = DOMAIN udp /\ udp'.pc = "recv_cb" /\ udp'.todo = t
        /\ udp'.revents = udp.revents /\ udp'.chunks = udp.chunks /\ udp'.finish = udp.finish
        /\ udp'.fd = udp.fd /\ udp'.closing = udp.closing /\ udp'.processing = udp.processing
        /\ udp'.active = udp.active /\ udp'.watch = udp.watch /\ udp'.pending = udp.pending
        /\ udp'.recv = udp.recv /\ udp'.write_queue = udp.write_queue
        /\ udp'.completed = udp.completed /\ udp'.size = udp.size /\ udp'.count = udp.count
        /\ udp'.status = udp.status /\ udp'.submitted = udp.submitted /\ udp'.wire = udp.wire
        /\ udp'.answered = udp.answered
    BY <1>10, <2>t DEF Udp!RecvOne, UdpTyped, UdpFields
  <2>g. udp.pc = "recv"
    BY <1>10 DEF Udp!RecvOne
  <2>1. (DOMAIN udp = UdpFields)'
    BY <2>u, <2>g
  <2>2. UdpTyped'
    BY <2>u, <2>g, <2>v DEF UdpTyped, Udp!States
  <2>3. UdpQueues'
    BY <2>u, <2>g DEF UdpQueues
  <2>4. UdpCounts'
    BY <2>u, <2>g DEF UdpCounts
  <2>5. UdpKept'
    BY <2>u, <2>g DEF UdpKept
  <2>6. UdpTurn'
    BY <2>u, <2>g DEF UdpTurn, UdpTyped
  <2>7. UdpWatched'
    BY <2>u, <2>g DEF UdpWatched, UdpClosed, UdpTurn, UdpTyped
  <2>8. UdpClosed'
    BY <2>u, <2>g DEF UdpClosed, UdpTyped
  <2> QED BY <2>1, <2>2, <2>3, <2>4, <2>5, <2>6, <2>7, <2>8 DEF UdpInv
<1>11. CASE Udp!RecvMany
  <2>n. PICK n \in 0..Chunks : udp' = [udp EXCEPT !.pc = "recv_cb", !.todo = udp.todo - n, !.chunks = n]
    BY <1>11 DEF Udp!RecvMany
  <2>t. PICK t : t = udp.todo - n
    OBVIOUS
  <2>v. t \in -Chunks..RecvMax
    BY <1>11, <2>t, <2>n DEF Udp!RecvMany, UdpTurn, UdpTyped, UdpConstants
  <2>u. /\ DOMAIN udp' = DOMAIN udp /\ udp'.pc = "recv_cb" /\ udp'.todo = t /\ udp'.chunks = n
        /\ udp'.revents = udp.revents /\ udp'.finish = udp.finish /\ udp'.fd = udp.fd
        /\ udp'.closing = udp.closing /\ udp'.processing = udp.processing
        /\ udp'.active = udp.active /\ udp'.watch = udp.watch /\ udp'.pending = udp.pending
        /\ udp'.recv = udp.recv /\ udp'.write_queue = udp.write_queue
        /\ udp'.completed = udp.completed /\ udp'.size = udp.size /\ udp'.count = udp.count
        /\ udp'.status = udp.status /\ udp'.submitted = udp.submitted /\ udp'.wire = udp.wire
        /\ udp'.answered = udp.answered
    BY <1>11, <2>t, <2>n DEF Udp!RecvMany, UdpTyped, UdpFields
  <2>g. udp.pc = "recv"
    BY <1>11 DEF Udp!RecvMany
  <2>1. (DOMAIN udp = UdpFields)'
    BY <2>u, <2>g
  <2>2. UdpTyped'
    BY <2>u, <2>g, <2>v DEF UdpTyped, Udp!States
  <2>3. UdpQueues'
    BY <2>u, <2>g DEF UdpQueues
  <2>4. UdpCounts'
    BY <2>u, <2>g DEF UdpCounts
  <2>5. UdpKept'
    BY <2>u, <2>g DEF UdpKept
  <2>6. UdpTurn'
    BY <2>u, <2>g DEF UdpTurn, UdpTyped
  <2>7. UdpWatched'
    BY <2>u, <2>g DEF UdpWatched, UdpClosed, UdpTurn, UdpTyped
  <2>8. UdpClosed'
    BY <2>u, <2>g DEF UdpClosed, UdpTyped
  <2> QED BY <2>1, <2>2, <2>3, <2>4, <2>5, <2>6, <2>7, <2>8 DEF UdpInv
<1>12. CASE Udp!RecvReturns
  <2>n. PICK n : n = IF udp.chunks > 0 /\ udp.recv THEN udp.chunks - 1 ELSE 0
    OBVIOUS
  <2>c. PICK c : c = IF udp.chunks > 0 /\ udp.recv THEN "recv_cb" ELSE IF Udp!GoesOn(udp) THEN "recv" ELSE "out"
    OBVIOUS
  <2>v. n \in 0..Chunks
    BY <2>n DEF UdpTyped, UdpConstants
  <2>w. /\ c \in {"recv_cb", "recv", "out"}
        /\ c = "recv" => udp.recv /\ udp.fd /\ udp.todo > 0
    BY <2>c DEF Udp!GoesOn
  <2>x. c = "recv_cb" => c = udp.pc
    BY <1>12 DEF Udp!RecvReturns
  <2>u. /\ DOMAIN udp' = DOMAIN udp /\ udp'.pc = c /\ udp'.chunks = n
        /\ udp'.revents = udp.revents /\ udp'.todo = udp.todo /\ udp'.finish = udp.finish
        /\ udp'.fd = udp.fd /\ udp'.closing = udp.closing /\ udp'.processing = udp.processing
        /\ udp'.active = udp.active /\ udp'.watch = udp.watch /\ udp'.pending = udp.pending
        /\ udp'.recv = udp.recv /\ udp'.write_queue = udp.write_queue
        /\ udp'.completed = udp.completed /\ udp'.size = udp.size /\ udp'.count = udp.count
        /\ udp'.status = udp.status /\ udp'.submitted = udp.submitted /\ udp'.wire = udp.wire
        /\ udp'.answered = udp.answered
    BY <1>12, <2>n, <2>c DEF Udp!RecvReturns, UdpTyped, UdpFields
  <2>g. udp.pc = "recv_cb"
    BY <1>12 DEF Udp!RecvReturns
  <2>1. (DOMAIN udp = UdpFields)'
    BY <2>u, <2>g
  <2>2. UdpTyped'
    BY <2>u, <2>g, <2>v, <2>w DEF UdpTyped, Udp!States
  <2>3. UdpQueues'
    BY <2>u, <2>g DEF UdpQueues
  <2>4. UdpCounts'
    BY <2>u, <2>g DEF UdpCounts
  <2>5. UdpKept'
    BY <2>u, <2>g DEF UdpKept
  <2>6. UdpTurn'
    BY <2>u, <2>g, <2>w DEF UdpTurn, UdpTyped
  <2>7. UdpWatched'
    BY <2>u, <2>g, <2>w DEF UdpWatched, UdpClosed, UdpTurn, UdpTyped
  <2>8. UdpClosed'
    BY <2>u, <2>g, <2>w DEF UdpClosed, UdpTyped
  <2> QED BY <2>1, <2>2, <2>3, <2>4, <2>5, <2>6, <2>7, <2>8 DEF UdpInv
<1>13. ASSUME Udp!Out, ~("OUT" \in udp.revents /\ udp.closing = "no") PROVE UdpInv'
  <2>u. /\ DOMAIN udp' = DOMAIN udp /\ udp'.pc = "loop" /\ udp'.revents = udp.revents
        /\ udp'.todo = udp.todo /\ udp'.chunks = udp.chunks /\ udp'.finish = udp.finish
        /\ udp'.fd = udp.fd /\ udp'.closing = udp.closing /\ udp'.processing = udp.processing
        /\ udp'.active = udp.active /\ udp'.watch = udp.watch /\ udp'.pending = udp.pending
        /\ udp'.recv = udp.recv /\ udp'.write_queue = udp.write_queue
        /\ udp'.completed = udp.completed /\ udp'.size = udp.size /\ udp'.count = udp.count
        /\ udp'.status = udp.status /\ udp'.submitted = udp.submitted /\ udp'.wire = udp.wire
        /\ udp'.answered = udp.answered
    BY <1>13 DEF Udp!Out, UdpTyped, UdpFields
  <2>g. udp.pc = "out" /\ ~("OUT" \in udp.revents /\ udp.closing = "no")
    BY <1>13 DEF Udp!Out
  <2>1. (DOMAIN udp = UdpFields)'
    BY <2>u, <2>g
  <2>2. UdpTyped'
    BY <2>u, <2>g DEF UdpTyped, Udp!States
  <2>3. UdpQueues'
    BY <2>u, <2>g DEF UdpQueues
  <2>4. UdpCounts'
    BY <2>u, <2>g DEF UdpCounts
  <2>5. UdpKept'
    BY <2>u, <2>g DEF UdpKept
  <2>6. UdpTurn'
    BY <2>u, <2>g DEF UdpTurn, UdpTyped
  <2>7. UdpWatched'
    BY <2>u, <2>g DEF UdpWatched, UdpClosed, UdpTurn, UdpTyped
  <2>8. UdpClosed'
    BY <2>u, <2>g DEF UdpClosed, UdpTyped
  <2> QED BY <2>1, <2>2, <2>3, <2>4, <2>5, <2>6, <2>7, <2>8 DEF UdpInv
<1>14. ASSUME Udp!Out, "OUT" \in udp.revents, udp.closing = "no" PROVE UdpInv'
  <2>k. PICK u \in Udp!Sendmsg(udp) : udp' = [u EXCEPT !.pc = "completed", !.processing = TRUE]
    BY <1>14 DEF Udp!Out
  <2>q. UdpQueued(udp)
    BY DEF UdpQueued, UdpTyped, UdpQueues
  <2>m. UdpMoved(udp, u)
    BY <2>q, UdpSendmsg
  <2>u. /\ DOMAIN udp' = DOMAIN udp /\ udp'.pc = "completed" /\ udp'.processing = TRUE
        /\ udp'.pending = u.pending /\ udp'.write_queue = u.write_queue
        /\ udp'.completed = u.completed /\ udp'.status = u.status /\ udp'.wire = u.wire
        /\ udp'.revents = udp.revents /\ udp'.todo = udp.todo /\ udp'.chunks = udp.chunks
        /\ udp'.finish = udp.finish /\ udp'.fd = udp.fd /\ udp'.closing = udp.closing
        /\ udp'.active = udp.active /\ udp'.watch = udp.watch /\ udp'.recv = udp.recv
        /\ udp'.size = udp.size /\ udp'.count = udp.count /\ udp'.submitted = udp.submitted
        /\ udp'.answered = udp.answered
    BY <1>14, <2>k, <2>m DEF UdpMoved, UdpQueued, UdpTyped, UdpFields
  <2>g. udp.pc = "out" /\ udp.closing = "no"
    BY <1>14 DEF UdpMoved, UdpQueued, Udp!Out
  <2>s. UdpMoreOf0(udp, u)
    BY <2>m DEF UdpMoved, UdpQueued, UdpMoreOf0
  <2>1. (DOMAIN udp = UdpFields)'
    BY <2>u, <2>g
  <2>2. UdpTyped'
    BY <2>u, <2>g, <2>s DEF UdpTyped, UdpMoreOf0, Udp!States
  <2>3. UdpQueues'
    BY <2>u, <2>g, <2>s DEF UdpQueues, UdpMoreOf0
  <2>4. UdpCounts'
    BY <2>u, <2>g, <2>s DEF UdpCounts, UdpMoreOf0
  <2>5. UdpKept'
    BY <2>u, <2>g, <2>s DEF UdpKept, UdpMoreOf0
  <2>6. UdpTurn'
    BY <2>u, <2>g DEF UdpTurn, UdpTyped
  <2>7. UdpWatched'
    BY <2>u, <2>g, <2>s DEF UdpWatched, UdpClosed, UdpTurn, UdpTyped, UdpMoreOf0
  <2>8. UdpClosed'
    BY <2>u, <2>g, <2>s DEF UdpClosed, UdpTyped, UdpMoreOf0
  <2> QED BY <2>1, <2>2, <2>3, <2>4, <2>5, <2>6, <2>7, <2>8 DEF UdpInv
<1>15. CASE Udp!Complete
  <2>d. PICK d : d = Head(udp.completed)
    OBVIOUS
  <2>c. PICK called \in BOOLEAN : udp' = [udp EXCEPT !.completed = Tail(udp.completed), !.size = udp.size - Udp!CountBufs(udp, d),
             !.count = udp.count - 1, !.answered = Append(udp.answered, <<d, udp.status[d]>>),
             !.pc = IF called THEN "send_cb" ELSE "completed"]
    BY <1>15, <2>d DEF Udp!Complete
  <2>c1. PICK c \in {"send_cb", "completed"} : c = IF called THEN "send_cb" ELSE "completed"
    OBVIOUS
  <2>u. /\ DOMAIN udp' = DOMAIN udp /\ udp'.pc = c /\ udp'.completed = Tail(udp.completed)
        /\ udp'.size = udp.size - d /\ udp'.count = udp.count - 1
        /\ udp'.answered = Append(udp.answered, <<d, udp.status[d]>>)
        /\ udp'.revents = udp.revents /\ udp'.todo = udp.todo /\ udp'.chunks = udp.chunks
        /\ udp'.finish = udp.finish /\ udp'.fd = udp.fd /\ udp'.closing = udp.closing
        /\ udp'.processing = udp.processing /\ udp'.active = udp.active
        /\ udp'.watch = udp.watch /\ udp'.pending = udp.pending /\ udp'.recv = udp.recv
        /\ udp'.write_queue = udp.write_queue /\ udp'.status = udp.status
        /\ udp'.submitted = udp.submitted /\ udp'.wire = udp.wire
    BY <1>15, <2>c, <2>c1 DEF Udp!Complete, Udp!CountBufs, UdpTyped, UdpFields
  <2>g. udp.pc = "completed" /\ udp.completed # <<>>
    BY <1>15 DEF Udp!Complete, Udp!CountBufs
  <2>l. /\ Head(udp.completed) \in Datagrams /\ Tail(udp.completed) \in Seq(Datagrams)
        /\ Len(Tail(udp.completed) \o udp.write_queue) = Len(udp.completed \o udp.write_queue) - 1
        /\ Total(Tail(udp.completed) \o udp.write_queue, UdpSizes) = Total(udp.completed \o udp.write_queue, UdpSizes) - Head(udp.completed)
        /\ \A y : Contains(udp.completed \o udp.write_queue, y) <=> Contains(Tail(udp.completed) \o udp.write_queue, y) \/ y = Head(udp.completed)
    BY <2>g, UdpLess DEF UdpQueues
  <2>a. /\ Append(udp.answered, <<d, udp.status[d]>>) \in Seq(Datagrams \X Statuses)
        /\ Answered(Append(udp.answered, <<d, udp.status[d]>>), d)
        /\ \A y : Answered(udp.answered, y) => Answered(Append(udp.answered, <<d, udp.status[d]>>), y)
    <3>1. udp.answered \in Seq(Datagrams \X Statuses) /\ <<d, udp.status[d]>> \in Datagrams \X Statuses
      BY <2>l, <2>d DEF UdpQueues
    <3> QED BY <3>1, UdpAnswers
  <2>1. (DOMAIN udp = UdpFields)'
    BY <2>u, <2>g
  <2>2. UdpTyped'
    BY <2>u, <2>g, <2>c1 DEF UdpTyped, Udp!States
  <2>3. UdpQueues'
    BY <2>u, <2>g, <2>l, <2>a DEF UdpQueues
  <2>4. UdpCounts'
    BY <2>u, <2>g, <2>l, <2>d DEF UdpCounts
  <2>5. UdpKept'
    BY <2>u, <2>g, <2>l, <2>a, <2>d DEF UdpKept
  <2>6. UdpTurn'
    BY <2>u, <2>g, <2>c1 DEF UdpTurn, UdpTyped
  <2>7. UdpWatched'
    BY <2>u, <2>g, <2>c1 DEF UdpWatched, UdpClosed, UdpTurn, UdpTyped
  <2>8. UdpClosed'
    BY <2>u, <2>g, <2>c1, <2>g DEF UdpClosed, UdpTyped
  <2> QED BY <2>1, <2>2, <2>3, <2>4, <2>5, <2>6, <2>7, <2>8 DEF UdpInv
<1>16. CASE Udp!SendReturns
  <2>u. /\ DOMAIN udp' = DOMAIN udp /\ udp'.pc = "completed" /\ udp'.revents = udp.revents
        /\ udp'.todo = udp.todo /\ udp'.chunks = udp.chunks /\ udp'.finish = udp.finish
        /\ udp'.fd = udp.fd /\ udp'.closing = udp.closing /\ udp'.processing = udp.processing
        /\ udp'.active = udp.active /\ udp'.watch = udp.watch /\ udp'.pending = udp.pending
        /\ udp'.recv = udp.recv /\ udp'.write_queue = udp.write_queue
        /\ udp'.completed = udp.completed /\ udp'.size = udp.size /\ udp'.count = udp.count
        /\ udp'.status = udp.status /\ udp'.submitted = udp.submitted /\ udp'.wire = udp.wire
        /\ udp'.answered = udp.answered
    BY <1>16 DEF Udp!SendReturns, UdpTyped, UdpFields
  <2>g. udp.pc = "send_cb"
    BY <1>16 DEF Udp!SendReturns
  <2>1. (DOMAIN udp = UdpFields)'
    BY <2>u, <2>g
  <2>2. UdpTyped'
    BY <2>u, <2>g DEF UdpTyped, Udp!States
  <2>3. UdpQueues'
    BY <2>u, <2>g DEF UdpQueues
  <2>4. UdpCounts'
    BY <2>u, <2>g DEF UdpCounts
  <2>5. UdpKept'
    BY <2>u, <2>g DEF UdpKept
  <2>6. UdpTurn'
    BY <2>u, <2>g DEF UdpTurn, UdpTyped
  <2>7. UdpWatched'
    BY <2>u, <2>g DEF UdpWatched, UdpClosed, UdpTurn, UdpTyped
  <2>8. UdpClosed'
    BY <2>u, <2>g DEF UdpClosed, UdpTyped
  <2> QED BY <2>1, <2>2, <2>3, <2>4, <2>5, <2>6, <2>7, <2>8 DEF UdpInv
<1>17. CASE Udp!Completed
  <2>w. PICK wt : wt = IF udp.write_queue = <<>> THEN udp.watch \ {"OUT"} ELSE udp.watch
    OBVIOUS
  <2>a. PICK a \in BOOLEAN : a = (udp.active /\ (udp.write_queue = <<>> => "IN" \in udp.watch))
    BY DEF UdpTyped
  <2>r. PICK r \in BOOLEAN : r = (udp.recv /\ ~udp.finish)
    BY DEF UdpTyped
  <2>u. /\ DOMAIN udp' = DOMAIN udp /\ udp'.pc = "loop"
        /\ udp'.closing = (IF udp.finish THEN "closed" ELSE udp.closing)
        /\ udp'.processing = FALSE /\ udp'.active = a /\ udp'.watch = wt /\ udp'.recv = r
        /\ udp'.revents = udp.revents /\ udp'.todo = udp.todo /\ udp'.chunks = udp.chunks
        /\ udp'.finish = udp.finish /\ udp'.fd = udp.fd /\ udp'.pending = udp.pending
        /\ udp'.write_queue = udp.write_queue /\ udp'.completed = udp.completed
        /\ udp'.size = udp.size /\ udp'.count = udp.count /\ udp'.status = udp.status
        /\ udp'.submitted = udp.submitted /\ udp'.wire = udp.wire
        /\ udp'.answered = udp.answered
    BY <1>17, <2>w, <2>a, <2>r DEF Udp!Completed, UdpTyped, UdpFields
  <2>g. udp.pc = "completed" /\ udp.completed = <<>>
    BY <1>17 DEF Udp!Completed
  <2>v. /\ \A x \in wt : x \in udp.watch /\ (x = "OUT" => udp.write_queue # <<>>)
        /\ \A x \in udp.watch : x \in wt \/ (x = "OUT" /\ udp.write_queue = <<>>)
    BY <2>w
  <2>b. /\ a => udp.active
        /\ udp.active /\ (udp.write_queue = <<>> => "IN" \in udp.watch) => a
    BY <2>a
  <2>q. /\ r => udp.recv /\ ~udp.finish
        /\ udp.recv /\ ~udp.finish => r
    BY <2>r
  <2>f. udp.finish => udp.watch = {} /\ udp.closing # "no"
    BY DEF UdpClosed, UdpTyped
  <2>1. (DOMAIN udp = UdpFields)'
    BY <2>u, <2>g
  <2>2. UdpTyped'
    BY <2>u, <2>g, <2>v DEF UdpTyped, Udp!States
  <2>3. UdpQueues'
    BY <2>u, <2>g DEF UdpQueues
  <2>4. UdpCounts'
    BY <2>u, <2>g DEF UdpCounts
  <2>5. UdpKept'
    BY <2>u, <2>g DEF UdpKept
  <2>6. UdpTurn'
    BY <2>u, <2>g, <2>q DEF UdpTurn, UdpTyped
  <2>7. UdpWatched'
    BY <2>u, <2>g, <2>v, <2>b, <2>q, <2>f DEF UdpWatched, UdpClosed, UdpTurn, UdpTyped
  <2>8. UdpClosed'
    BY <2>u, <2>g, <2>v, <2>b, <2>q, <2>f DEF UdpClosed, UdpTyped
  <2> QED BY <2>1, <2>2, <2>3, <2>4, <2>5, <2>6, <2>7, <2>8 DEF UdpInv
<1>18. CASE Udp!FinishClose
  <2>s. PICK st : st = [d \in Datagrams |-> IF d \in Udp!Range(udp.write_queue) THEN "canceled" ELSE udp.status[d]]
    OBVIOUS
  <2>u. /\ DOMAIN udp' = DOMAIN udp /\ udp'.pc = "completed" /\ udp'.finish = TRUE
        /\ udp'.processing = TRUE /\ udp'.write_queue = <<>>
        /\ udp'.completed = udp.completed \o udp.write_queue /\ udp'.status = st
        /\ udp'.revents = udp.revents /\ udp'.todo = udp.todo /\ udp'.chunks = udp.chunks
        /\ udp'.fd = udp.fd /\ udp'.closing = udp.closing /\ udp'.active = udp.active
        /\ udp'.watch = udp.watch /\ udp'.pending = udp.pending /\ udp'.recv = udp.recv
        /\ udp'.size = udp.size /\ udp'.count = udp.count /\ udp'.submitted = udp.submitted
        /\ udp'.wire = udp.wire /\ udp'.answered = udp.answered
    BY <1>18, <2>s DEF Udp!FinishClose, Udp!Cancelled, UdpTyped, UdpFields
  <2>g. udp.pc = "loop" /\ udp.closing = "closing"
    BY <1>18 DEF Udp!FinishClose, Udp!Cancelled
  <2>t. st \in [Datagrams -> Statuses]
    BY <2>s DEF UdpQueues, Statuses
  <2>e. /\ (udp.completed \o udp.write_queue) \o <<>> = udp.completed \o udp.write_queue
        /\ udp.completed \o udp.write_queue \in Seq(Datagrams) /\ <<>> \in Seq(Datagrams)
    BY UdpDrained DEF UdpQueues
  <2>1. (DOMAIN udp = UdpFields)'
    BY <2>u, <2>g
  <2>2. UdpTyped'
    BY <2>u, <2>g DEF UdpTyped, Udp!States
  <2>3. UdpQueues'
    BY <2>u, <2>g, <2>t, <2>e DEF UdpQueues
  <2>4. UdpCounts'
    BY <2>u, <2>g, <2>e DEF UdpCounts
  <2>5. UdpKept'
    BY <2>u, <2>g, <2>e DEF UdpKept
  <2>6. UdpTurn'
    BY <2>u, <2>g DEF UdpTurn, UdpTyped
  <2>7. UdpWatched'
    BY <2>u, <2>g DEF UdpWatched, UdpClosed, UdpTurn, UdpTyped
  <2>8. UdpClosed'
    BY <2>u, <2>g DEF UdpClosed, UdpTyped
  <2> QED BY <2>1, <2>2, <2>3, <2>4, <2>5, <2>6, <2>7, <2>8 DEF UdpInv
<1> QED BY <1>1, <1>2, <1>3, <1>4, <1>5, <1>6, <1>7, <1>8, <1>9, <1>10, <1>11, <1>12, <1>13, <1>14, <1>15, <1>16, <1>17, <1>18, UdpPrograms DEF Udp!Next, Udp!Loop

LEMMA UdpKeeps ==
    ASSUME UdpConstants, UdpInv
    PROVE  Udp!TypeOK /\ Udp!CountsAreExact /\ Udp!AssertsHold /\ Udp!NothingStranded /\ Udp!ClosedIsClean
<1> DOMAIN udp = UdpFields /\ UdpTyped /\ UdpQueues /\ UdpCounts /\ UdpKept /\ UdpTurn /\ UdpWatched /\ UdpClosed
  BY DEF UdpInv
<1>1. Udp!Waiting \in Seq(Datagrams) /\ Udp!Waiting = udp.completed \o udp.write_queue
  BY ConcatProperties DEF Udp!Waiting, UdpQueues
<1>2. \A y : y \in Udp!Range(Udp!Waiting) <=> Contains(Udp!Waiting, y) /\ y \in Datagrams
  <2>1. \A q \in Seq(Datagrams) : \A y : y \in Range(q) <=> Contains(q, y) /\ y \in Datagrams
    BY SetOfQueue, RangeQueue
  <2> QED BY <1>1, <2>1, UdpOps
<1>3. Len(Udp!Waiting) \in Nat /\ Total(Udp!Waiting, UdpSizes) \in Nat
  BY <1>1, LenProperties, UdpTotal
<1>4. Udp!TypeOK
  BY <1>1, <1>2, <1>3 DEF Udp!TypeOK, UdpTyped, UdpQueues, UdpCounts, Statuses
<1>5. Udp!CountsAreExact
  BY <1>1, UdpOps DEF Udp!CountsAreExact, UdpCounts, UdpSizes
<1>6. udp.closing = "closed" => Udp!Waiting = <<>> /\ Len(Udp!Waiting) = 0 /\ Total(Udp!Waiting, UdpSizes) = 0
  <2>1. udp.closing = "closed" => udp.completed = <<>> /\ udp.write_queue = <<>>
    BY DEF UdpClosed
  <2>2. <<>> \o <<>> = <<>> /\ Len(<<>>) = 0 /\ Total(<<>>, UdpSizes) = 0
    BY TotalEmpty, UdpBytes
  <2> QED BY <1>1, <2>1, <2>2
<1>7. Udp!AssertsHold
  BY <1>1, <1>6 DEF Udp!AssertsHold, UdpTurn, UdpClosed, UdpCounts, UdpTyped
<1>8. Udp!NothingStranded
  BY DEF Udp!NothingStranded, UdpWatched
<1>9. Udp!ClosedIsClean
  <2> SUFFICES ASSUME udp.closing = "closed" PROVE Udp!ClosedIsClean
    BY DEF Udp!ClosedIsClean
  <2>1. Udp!Waiting = <<>> /\ udp.watch = {} /\ ~udp.pending /\ ~udp.active /\ ~udp.fd
    BY <1>6 DEF UdpClosed
  <2>2. \A d : ~Contains(Udp!Waiting, d)
    BY <2>1, EmptyQueue
  <2>3. ASSUME NEW d \in Udp!Range(udp.submitted)
        PROVE  d \in {udp.answered[i][1] : i \in DOMAIN udp.answered} \union Udp!Range(udp.wire)
    <3>1. Contains(udp.submitted, d) /\ d \in Datagrams
      BY <2>3, SetOfQueue, RangeQueue, UdpOps DEF UdpQueues
    <3>2. Answered(udp.answered, d) \/ Contains(udp.wire, d)
      BY <1>1, <2>2, <3>1 DEF UdpKept
    <3>3. DOMAIN udp.answered = 1..Len(udp.answered)
      BY LenProperties DEF UdpQueues
    <3>4. Contains(udp.wire, d) => d \in Udp!Range(udp.wire)
      BY SetOfQueue, UdpOps DEF UdpQueues
    <3> QED BY <3>2, <3>3, <3>4 DEF Answered
  <2> QED BY <2>1, <2>3 DEF Udp!ClosedIsClean
<1> QED BY <1>4, <1>5, <1>7, <1>8, <1>9

LEMMA UdpChanges ==
    ASSUME UdpConstants, UdpInv, [Udp!Next]_udp
    PROVE  UdpInv'
<1>1. CASE Udp!Next
  BY <1>1, UdpStep
<1>2. CASE UNCHANGED udp
  BY <1>2 DEF UdpInv, UdpClosed, UdpCounts, UdpKept, UdpQueues, UdpTurn, UdpTyped, UdpWatched
<1> QED BY <1>1, <1>2

\* UDP, for any number of datagrams of any size: send_queue_size and send_queue_count are what
\* waits, the assertions of udp.c hold, a queued request has a watcher or a completed queue that
\* the loop looks at, and a closed handle has nothing left, also when callbacks send or close.
THEOREM UdpCorrect ==
    ASSUME UdpConstants
    PROVE  Udp!Spec => [](Udp!TypeOK /\ Udp!CountsAreExact /\ Udp!AssertsHold /\ Udp!NothingStranded /\
                          Udp!ClosedIsClean)
<1>1. ASSUME Udp!Init PROVE UdpInv
  BY <1>1, UdpBegins
<1>2. ASSUME UdpInv, [Udp!Next]_udp PROVE UdpInv'
  BY <1>2, UdpChanges
<1>3. UdpInv => Udp!TypeOK /\ Udp!CountsAreExact /\ Udp!AssertsHold /\ Udp!NothingStranded /\
              Udp!ClosedIsClean
  BY UdpKeeps
<1> QED BY <1>1, <1>2, <1>3, PTL DEF Udp!Spec

LEMMA ConcatOrder ==
    ASSUME NEW S, NEW p \in Seq(S), NEW q \in Seq(S)
    PROVE  \A x, y : Before(p \o q, x, y) <=>
             Before(p, x, y) \/ Before(q, x, y) \/ (Contains(p, x) /\ Contains(q, y))
<1>0. PICK r, m, n : r = p \o q /\ m = Len(p) /\ n = Len(q)
  OBVIOUS
<1>1. /\ m \in Nat /\ n \in Nat /\ Len(r) = m + n
      /\ \A i \in 1..m : r[i] = p[i] /\ i \in 1..(m + n)
      /\ \A i \in 1..n : r[m + i] = q[i] /\ m + i \in 1..(m + n)
  <2>1. /\ Len(p) \in Nat /\ Len(q) \in Nat /\ Len(p \o q) = Len(p) + Len(q)
        /\ \A i \in 1..(Len(p) + Len(q)) : (p \o q)[i] = IF i <= Len(p) THEN p[i] ELSE q[i - Len(p)]
    BY ConcatProperties
  <2>2. ASSUME NEW i \in 1..m PROVE r[i] = p[i] /\ i \in 1..(m + n)
    BY <1>0, <2>1, <2>2
  <2>3. ASSUME NEW i \in 1..n PROVE r[m + i] = q[i] /\ m + i \in 1..(m + n)
    <3>1. m + i \in 1..(m + n) /\ ~(m + i <= m) /\ (m + i) - m = i
      BY <1>0, <2>1, <2>3
    <3> QED BY <1>0, <2>1, <3>1
  <2> QED BY <1>0, <2>1, <2>2, <2>3
<1>2. \A i \in 1..(m + n) : i \in 1..m \/ (i - m \in 1..n /\ m + (i - m) = i)
  BY <1>1
<1>3. ASSUME NEW x, NEW y, Before(r, x, y)
      PROVE  Before(p, x, y) \/ Before(q, x, y) \/ (Contains(p, x) /\ Contains(q, y))
  <2>1. PICK i, j \in 1..(m + n) : r[i] = x /\ r[j] = y /\ i < j
    BY <1>1, <1>3 DEF Before
  <2>2. CASE j \in 1..m
    <3>1. i \in 1..m
      BY <1>1, <2>1, <2>2
    <3> QED BY <1>0, <1>1, <2>1, <2>2, <3>1 DEF Before
  <2>3. CASE i \in 1..m /\ j \notin 1..m
    <3>1. j - m \in 1..n /\ r[m + (j - m)] = y
      BY <1>2, <2>1, <2>3
    <3>2. q[j - m] = y
      BY <1>1, <3>1
    <3> QED BY <1>0, <1>1, <2>1, <2>3, <3>1, <3>2 DEF Contains
  <2>4. CASE i \notin 1..m
    <3>1. i - m \in 1..n /\ r[m + (i - m)] = x /\ j \notin 1..m
      BY <1>1, <1>2, <2>1, <2>4
    <3>2. j - m \in 1..n /\ r[m + (j - m)] = y /\ i - m < j - m
      BY <1>1, <1>2, <2>1, <3>1
    <3>3. q[i - m] = x /\ q[j - m] = y
      BY <1>1, <3>1, <3>2
    <3> QED BY <1>0, <3>1, <3>2, <3>3 DEF Before
  <2> QED BY <2>2, <2>3, <2>4
<1>4. ASSUME NEW x, NEW y, Before(p, x, y) PROVE Before(r, x, y)
  BY <1>0, <1>1, <1>4 DEF Before
<1>5. ASSUME NEW x, NEW y, Before(q, x, y) PROVE Before(r, x, y)
  <2>1. PICK i, j \in 1..n : q[i] = x /\ q[j] = y /\ i < j
    BY <1>0, <1>5 DEF Before
  <2>2. /\ r[m + i] = x /\ r[m + j] = y /\ m + i \in 1..(m + n) /\ m + j \in 1..(m + n)
        /\ m + i < m + j
    BY <1>1, <2>1
  <2> QED BY <1>1, <2>2 DEF Before
<1>6. ASSUME NEW x, NEW y, Contains(p, x), Contains(q, y) PROVE Before(r, x, y)
  <2>1. PICK i \in 1..m, j \in 1..n : p[i] = x /\ q[j] = y
    BY <1>0, <1>6 DEF Contains
  <2>2. /\ r[i] = x /\ r[m + j] = y /\ i \in 1..(m + n) /\ m + j \in 1..(m + n) /\ i < m + j
    BY <1>1, <2>1
  <2> QED BY <1>1, <2>2 DEF Before
<1> QED BY <1>0, <1>3, <1>4, <1>5, <1>6

\* The elements of p were made, in this order; what is in p was made before what is in q.
Made(s, p) ==
    /\ \A x : Contains(p, x) => Contains(s, x)
    /\ \A x, y : Before(p, x, y) => Before(s, x, y)

Precede(s, p, q) == \A x, y : Contains(p, x) /\ Contains(q, y) => Before(s, x, y)

\* The requests were reported (r), completed (c), sent (w) or wait (q) in the order they were made
\* (s).
UdpOrdered(s, w, q, c, r) ==
    /\ Distinct(s) /\ Made(s, w) /\ Made(s, q) /\ Made(s, c) /\ Made(s, r)
    /\ Precede(s, w, q) /\ Precede(s, c, q) /\ Precede(s, r, c) /\ Precede(s, r, q)

Reported(a) == [i \in 1..Len(a) |-> a[i][1]]

\* What a completed request has for its status, and what one that was reported had.
UdpTrue(w, c, st, a) ==
    /\ \A x : Contains(c, x) => (st[x] = "sent" <=> Contains(w, x))
    /\ \A i \in 1..Len(a) : a[i][2] = "sent" <=> Contains(w, a[i][1])

UdpTells(u) ==
    /\ UdpOrdered(u.submitted, u.wire, u.write_queue, u.completed, Reported(u.answered))
    /\ UdpTrue(u.wire, u.completed, u.status, u.answered)

UdpTold == UdpTells(udp)

LEMMA UdpApart ==
    ASSUME NEW s, NEW w, NEW q, NEW c, NEW r, UdpOrdered(s, w, q, c, r)
    PROVE  \A x : /\ Contains(q, x) => ~Contains(w, x) /\ ~Contains(c, x) /\ ~Contains(r, x)
                  /\ Contains(c, x) => ~Contains(r, x)
<1>1. ASSUME NEW x PROVE ~Before(s, x, x)
  <2>1. SUFFICES ASSUME Before(s, x, x) PROVE FALSE
    OBVIOUS
  <2>2. PICK i, j \in 1..Len(s) : s[i] = x /\ s[j] = x /\ i < j
    BY <2>1 DEF Before
  <2>3. i = j
    BY <2>2 DEF UdpOrdered, Distinct
  <2> QED BY <2>2, <2>3
<1> QED BY <1>1 DEF UdpOrdered, Precede

\* One request more, made last.
LEMMA UdpOneMore ==
    ASSUME NEW s \in Seq(Datagrams), NEW w, NEW q \in Seq(Datagrams), NEW c, NEW r,
           UdpOrdered(s, w, q, c, r), NEW d \in Datagrams, ~Contains(s, d)
    PROVE  UdpOrdered(Append(s, d), w, Append(q, d), c, r)
<1>1. PICK t, b : t = Append(s, d) /\ b = Append(q, d)
  OBVIOUS
<1>2. /\ \A x : Contains(t, x) <=> Contains(s, x) \/ x = d
      /\ \A x, y : Before(t, x, y) <=> Before(s, x, y) \/ (Contains(s, x) /\ y = d)
      /\ Distinct(t)
  BY <1>1, AppendQueue, AppendOrder DEF UdpOrdered
<1>3. /\ \A x : Contains(b, x) <=> Contains(q, x) \/ x = d
      /\ \A x, y : Before(b, x, y) <=> Before(q, x, y) \/ (Contains(q, x) /\ y = d)
  BY <1>1, AppendQueue, AppendOrder
<1>4. Made(t, w) /\ Made(t, b) /\ Made(t, c) /\ Made(t, r)
  BY ONLY <1>2, <1>3, UdpOrdered(s, w, q, c, r) DEF UdpOrdered, Made
<1>5. Precede(t, w, b) /\ Precede(t, c, b) /\ Precede(t, r, c) /\ Precede(t, r, b)
  BY ONLY <1>2, <1>3, UdpOrdered(s, w, q, c, r) DEF UdpOrdered, Made, Precede
<1> QED BY <1>1, <1>2, <1>4, <1>5 DEF UdpOrdered

\* One request that goes out while none waits.
LEMMA UdpOneNow ==
    ASSUME NEW s \in Seq(Datagrams), NEW w \in Seq(Datagrams), NEW c, NEW r,
           UdpOrdered(s, w, <<>>, c, r), NEW d \in Datagrams, ~Contains(s, d)
    PROVE  UdpOrdered(Append(s, d), Append(w, d), <<>>, c, r)
<1>1. PICK t, b : t = Append(s, d) /\ b = Append(w, d)
  OBVIOUS
<1>2. /\ \A x : Contains(t, x) <=> Contains(s, x) \/ x = d
      /\ \A x, y : Before(t, x, y) <=> Before(s, x, y) \/ (Contains(s, x) /\ y = d)
      /\ Distinct(t)
  BY <1>1, AppendQueue, AppendOrder DEF UdpOrdered
<1>3. /\ \A x : Contains(b, x) <=> Contains(w, x) \/ x = d
      /\ \A x, y : Before(b, x, y) <=> Before(w, x, y) \/ (Contains(w, x) /\ y = d)
  BY <1>1, AppendQueue, AppendOrder
<1>4. PICK q : q = <<>> /\ \A x : ~Contains(q, x)
  BY EmptyQueue
<1>5. UdpOrdered(s, w, q, c, r)
  BY <1>4
<1>6. Made(t, b) /\ Made(t, q) /\ Made(t, c) /\ Made(t, r)
  BY ONLY <1>2, <1>3, <1>4, <1>5 DEF UdpOrdered, Made
<1>7. Precede(t, b, q) /\ Precede(t, c, q) /\ Precede(t, r, c) /\ Precede(t, r, q)
  BY ONLY <1>2, <1>3, <1>4, <1>5 DEF UdpOrdered, Made, Precede
<1> QED BY <1>1, <1>2, <1>4, <1>6, <1>7 DEF UdpOrdered

\* What uv__udp_sendmsg does: a leaves the queue, f of it for the wire.
LEMMA UdpHanded ==
    ASSUME NEW s, NEW w \in Seq(Datagrams), NEW q, NEW c \in Seq(Datagrams), NEW r,
           UdpOrdered(s, w, q, c, r),
           NEW a \in Seq(Datagrams), NEW b \in Seq(Datagrams), a \o b = q, NEW f \in Seq(Datagrams),
           \A x : Contains(f, x) => Contains(a, x), \A x, y : Before(f, x, y) => Before(a, x, y)
    PROVE  UdpOrdered(s, w \o f, b, c \o a, r)
<1>1. PICK v, e : v = w \o f /\ e = c \o a
  OBVIOUS
<1>2. /\ \A x : Contains(v, x) <=> Contains(w, x) \/ Contains(f, x)
      /\ \A x, y : Before(v, x, y) <=> Before(w, x, y) \/ Before(f, x, y) \/ (Contains(w, x) /\ Contains(f, y))
  BY <1>1, ConcatQueue, ConcatOrder
<1>3. /\ \A x : Contains(e, x) <=> Contains(c, x) \/ Contains(a, x)
      /\ \A x, y : Before(e, x, y) <=> Before(c, x, y) \/ Before(a, x, y) \/ (Contains(c, x) /\ Contains(a, y))
  BY <1>1, ConcatQueue, ConcatOrder
<1>4. /\ \A x : Contains(q, x) <=> Contains(a, x) \/ Contains(b, x)
      /\ \A x, y : Before(q, x, y) <=> Before(a, x, y) \/ Before(b, x, y) \/ (Contains(a, x) /\ Contains(b, y))
  BY ConcatQueue, ConcatOrder
<1>5. /\ \A x : Contains(f, x) => Contains(a, x)
      /\ \A x, y : Before(f, x, y) => Before(a, x, y)
      /\ UdpOrdered(s, w, q, c, r)
  OBVIOUS
<1>6. Made(s, v) /\ Made(s, b) /\ Made(s, e) /\ Made(s, r)
  BY ONLY <1>2, <1>3, <1>4, <1>5 DEF UdpOrdered, Made, Precede
<1>7. Precede(s, v, b) /\ Precede(s, e, b) /\ Precede(s, r, e) /\ Precede(s, r, b)
  BY ONLY <1>2, <1>3, <1>4, <1>5 DEF UdpOrdered, Made, Precede
<1> QED BY <1>1, <1>5, <1>6, <1>7 DEF UdpOrdered

\* A queue's beginning is in its order.
LEMMA UdpFirst ==
    ASSUME NEW q \in Seq(Datagrams), NEW m \in 0..Len(q), NEW n \in 0..m
    PROVE  /\ \A x : Contains(SubSeq(q, 1, n), x) => Contains(SubSeq(q, 1, m), x)
           /\ \A x, y : Before(SubSeq(q, 1, n), x, y) => Before(SubSeq(q, 1, m), x, y)
           /\ \A x : Contains(SubSeq(q, 1, m), x) =>
                \/ Contains(SubSeq(q, 1, n), x)
                \/ \E i \in (n + 1)..m : q[i] = x
<1>1. Len(q) \in Nat /\ m \in Nat /\ n \in Nat /\ n <= m
  BY LenProperties
<1>2. PICK a, f : a = SubSeq(q, 1, m) /\ f = SubSeq(q, 1, n)
  OBVIOUS
<1>3. Len(a) = m /\ Len(f) = n /\ (\A i \in 1..m : a[i] = q[i]) /\ (\A i \in 1..n : f[i] = q[i])
  BY <1>1, <1>2
<1>4. \A i \in 1..n : i \in 1..m /\ a[i] = f[i]
  BY <1>1, <1>3
<1>5. \A i \in 1..m : i \in 1..n \/ i \in (n + 1)..m
  BY <1>1
<1> QED BY <1>2, <1>3, <1>4, <1>5 DEF Contains, Before

UdpHas(u) ==
    /\ UdpQueued(u) /\ u.submitted \in Seq(Datagrams) /\ u.answered \in Seq(Datagrams \X Statuses)

LEMMA UdpSentTold ==
    ASSUME NEW u, UdpHas(u), UdpTells(u), NEW n \in Nat, NEW end \in {"all", "again", "error"},
           u.write_queue # <<>>,
           IF end = "all" THEN n = Len(u.write_queue) ELSE n \in 0..Len(u.write_queue) - 1
    PROVE  UdpTells(Udp!Sent(u, n, end))
<1> DEFINE q == u.write_queue
<1>1. PICK m \in Nat : m = IF end = "error" THEN n + 1 ELSE n
  OBVIOUS
<1>2. q \in Seq(Datagrams) /\ Len(q) \in Nat /\ n \in 0..Len(q) /\ m \in 0..Len(q) /\ n \in 0..m
  <2>1. q \in Seq(Datagrams) /\ Len(q) \in Nat
    BY LenProperties DEF UdpHas, UdpQueued
  <2> HIDE DEF q
  <2> QED BY <1>1, <2>1 DEF q
<1>3. PICK a, b, f, z : a = SubSeq(q, 1, m) /\ b = SubSeq(q, m + 1, Len(q)) /\ f = SubSeq(q, 1, n)
                        /\ z = SubSeq(q, n + 1, m)
  OBVIOUS
<1>4. /\ a \in Seq(Datagrams) /\ b \in Seq(Datagrams) /\ a \o b = q /\ f \in Seq(Datagrams)
      /\ \A x : Contains(f, x) => Contains(a, x)
      /\ \A x, y : Before(f, x, y) => Before(a, x, y)
  BY <1>2, <1>3, SplitQueue, UdpFirst
<1>5. \A x : Contains(a, x) => Contains(f, x) \/ \E i \in (n + 1)..m : q[i] = x
  <2> HIDE DEF q
  <2>1. \A x : Contains(SubSeq(q, 1, m), x) =>
          Contains(SubSeq(q, 1, n), x) \/ \E i \in (n + 1)..m : q[i] = x
    BY ONLY <1>2, UdpFirst
  <2> QED BY ONLY <1>3, <2>1
<1>6. z \in Seq(Datagrams) /\ \A x : (\E i \in (n + 1)..m : q[i] = x) => Contains(z, x)
  <2>1. CASE m = n
    <3>1. z = <<>> /\ (n + 1)..m = {}
      BY <1>2, <1>3, <2>1
    <3> QED BY <3>1, EmptySeq
  <2>2. CASE m = n + 1
    <3>1. q[m] \in Datagrams /\ (n + 1)..m = {m} /\ m \in 1..Len(q)
      BY <1>2, <2>2, ElementOfSeq
    <3>2. z \in Seq(Datagrams) /\ Len(z) = 1 /\ z[1] = q[m]
      BY <1>2, <1>3, <2>2, <3>1
    <3> QED BY <3>1, <3>2 DEF Contains
  <2> QED BY <1>1, <2>1, <2>2
<1>7. PICK st : st = [d \in Datagrams |->
            IF d \in Udp!Range(SubSeq(q, 1, n)) THEN "sent"
            ELSE IF d \in Udp!Range(SubSeq(q, n + 1, m)) THEN "error" ELSE u.status[d]]
  OBVIOUS
<1>8. /\ \A x \in Datagrams : st[x] = IF Contains(f, x) THEN "sent" ELSE IF Contains(z, x) THEN "error" ELSE u.status[x]
  <2>1. \A x \in Datagrams : (x \in Udp!Range(f) <=> Contains(f, x)) /\ (x \in Udp!Range(z) <=> Contains(z, x))
    BY <1>4, <1>6, SetOfQueue, UdpOps
  <2> QED BY <1>3, <1>7, <2>1
<1>9. \A x : Contains(z, x) => Contains(q, x)
  <2>1. CASE m = n
    <3>1. z = <<>>
      BY <1>2, <1>3, <2>1
    <3> QED BY <3>1, EmptyQueue
  <2>2. CASE m = n + 1
    <3>1. m \in 1..Len(q) /\ Len(z) = 1 /\ z[1] = q[m]
      BY <1>2, <1>3, <2>2, ElementOfSeq
    <3> QED BY <3>1 DEF Contains
  <2> QED BY <1>1, <2>1, <2>2
<1>10. Udp!Sent(u, n, end) = [u EXCEPT !.write_queue = b, !.completed = u.completed \o a, !.status = st,
                                   !.wire = u.wire \o f, !.pending = (u.pending \/ Udp!Feeds(end))]
  BY <1>1, <1>3, <1>7 DEF Udp!Sent
<1> DEFINE w == Udp!Sent(u, n, end)
<1> HIDE DEF w
<1>11. /\ w.write_queue = b /\ w.completed = u.completed \o a /\ w.status = st
       /\ w.wire = u.wire \o f /\ w.submitted = u.submitted /\ w.answered = u.answered
  BY <1>10 DEF w, UdpFields, UdpHas, UdpQueued
<1>12. /\ u.wire \in Seq(Datagrams) /\ u.completed \in Seq(Datagrams)
       /\ UdpOrdered(u.submitted, u.wire, q, u.completed, Reported(u.answered))
       /\ UdpTrue(u.wire, u.completed, u.status, u.answered)
  BY DEF UdpHas, UdpQueued, UdpTells
<1>13. UdpOrdered(u.submitted, u.wire \o f, b, u.completed \o a, Reported(u.answered))
  BY <1>4, <1>12, UdpHanded
<1>14. \A x : /\ Contains(q, x) => ~Contains(u.wire, x) /\ ~Contains(u.completed, x) /\ ~Contains(Reported(u.answered), x)
  BY <1>12, UdpApart
<1>15. /\ \A x : Contains(u.wire \o f, x) <=> Contains(u.wire, x) \/ Contains(f, x)
       /\ \A x : Contains(u.completed \o a, x) <=> Contains(u.completed, x) \/ Contains(a, x)
       /\ \A x : Contains(q, x) <=> Contains(a, x) \/ Contains(b, x)
       /\ \A x : Contains(u.completed, x) \/ Contains(a, x) => x \in Datagrams
  <2>1. \A x : Contains(u.wire \o f, x) <=> Contains(u.wire, x) \/ Contains(f, x)
    BY <1>4, <1>12, ConcatQueue
  <2>2. \A x : Contains(u.completed \o a, x) <=> Contains(u.completed, x) \/ Contains(a, x)
    BY <1>4, <1>12, ConcatQueue
  <2>3. \A x : Contains(a \o b, x) <=> Contains(a, x) \/ Contains(b, x)
    BY <1>4, ConcatQueue
  <2>4. \A x : Contains(u.completed, x) => x \in Datagrams
    BY <1>12, RangeQueue
  <2>5. \A x : Contains(a, x) => x \in Datagrams
    BY <1>4, RangeQueue
  <2> HIDE DEF q
  <2> QED BY ONLY <1>4, <2>1, <2>2, <2>3, <2>4, <2>5
<1>16. ASSUME NEW x, Contains(u.completed \o a, x) PROVE st[x] = "sent" <=> Contains(u.wire \o f, x)
  <2>1. CASE Contains(a, x)
    <3>1. CASE Contains(f, x)
      BY <1>8, <1>15, <1>16, <3>1
    <3>2. CASE ~Contains(f, x)
      BY <1>5, <1>6, <1>8, <1>14, <1>15, <1>16, <2>1, <3>2
    <3> QED BY <3>1, <3>2
  <2>2. CASE Contains(u.completed, x) /\ ~Contains(a, x)
    <3>1. ~Contains(f, x) /\ ~Contains(z, x)
      BY <1>4, <1>9, <1>14, <2>2
    <3>2. x \in Datagrams /\ (u.status[x] = "sent" <=> Contains(u.wire, x))
      BY <1>12, <1>15, <2>2 DEF UdpTrue
    <3> QED BY <1>8, <1>15, <3>1, <3>2
  <2> QED BY <1>15, <1>16, <2>1, <2>2
<1>17. ASSUME NEW i \in 1..Len(u.answered)
       PROVE  u.answered[i][2] = "sent" <=> Contains(u.wire \o f, u.answered[i][1])
  <2>1. Len(Reported(u.answered)) = Len(u.answered) /\ Reported(u.answered)[i] = u.answered[i][1]
    BY LenProperties DEF Reported, UdpHas
  <2>2. Contains(Reported(u.answered), u.answered[i][1])
    BY <2>1 DEF Contains
  <2>3. ~Contains(f, u.answered[i][1])
    BY <1>4, <1>14, <1>15, <2>2
  <2> QED BY <1>12, <1>15, <2>3 DEF UdpTrue
<1>18. UdpTrue(u.wire \o f, u.completed \o a, st, u.answered)
  BY <1>16, <1>17 DEF UdpTrue
<1>19. UdpTells(w)
  BY <1>11, <1>13, <1>18 DEF UdpTells
<1> QED BY <1>19 DEF w

LEMMA UdpSendmsgTold ==
    ASSUME NEW u, UdpHas(u), UdpTells(u), NEW w \in Udp!Sendmsg(u) PROVE UdpTells(w)
<1>1. CASE u.write_queue = <<>>
  <2>1. Udp!Sendmsg(u) = {u}
    BY <1>1, EmptySeq DEF Udp!Sendmsg
  <2> QED BY <2>1
<1>2. CASE u.write_queue # <<>>
  <2>1. Len(u.write_queue) \in Nat /\ Len(u.write_queue) # 0
    BY <1>2, LenProperties, EmptySeq DEF UdpHas, UdpQueued
  <2>2. \/ w = Udp!Sent(u, Len(u.write_queue), "all")
        \/ \E k \in 0..Len(u.write_queue) - 1, end \in {"again", "error"} : w = Udp!Sent(u, k, end)
    BY <2>1 DEF Udp!Sendmsg
  <2>3. CASE w = Udp!Sent(u, Len(u.write_queue), "all")
    BY <1>2, <2>1, <2>3, UdpSentTold
  <2>4. CASE \E k \in 0..Len(u.write_queue) - 1, end \in {"again", "error"} : w = Udp!Sent(u, k, end)
    <3>1. PICK k \in 0..Len(u.write_queue) - 1, end \in {"again", "error"} : w = Udp!Sent(u, k, end)
      BY <2>4
    <3>2. k \in Nat /\ end # "all" /\ end \in {"all", "again", "error"}
      BY <2>1
    <3> QED BY <1>2, <3>1, <3>2, UdpSentTold
  <2> QED BY <2>2, <2>3, <2>4
<1> QED BY <1>1, <1>2

LEMMA UdpEnqueueTold ==
    ASSUME NEW u, UdpHas(u), UdpTells(u), NEW d \in Datagrams, ~Contains(u.submitted, d),
           NEW w \in Udp!Enqueue(u, d)
    PROVE  UdpTells(w)
<1>1. PICK v : v = [u EXCEPT !.write_queue = Append(u.write_queue, d), !.size = u.size + d,
                             !.count = u.count + 1, !.active = TRUE, !.submitted = Append(u.submitted, d)]
  OBVIOUS
<1>2. /\ DOMAIN v = UdpFields /\ v.write_queue = Append(u.write_queue, d)
      /\ v.submitted = Append(u.submitted, d) /\ v.completed = u.completed /\ v.wire = u.wire
      /\ v.status = u.status /\ v.pending = u.pending /\ v.answered = u.answered
  BY <1>1 DEF UdpHas, UdpQueued, UdpFields
<1>3. /\ u.submitted \in Seq(Datagrams) /\ u.write_queue \in Seq(Datagrams)
      /\ Append(u.submitted, d) \in Seq(Datagrams) /\ Append(u.write_queue, d) \in Seq(Datagrams)
  BY AppendQueue DEF UdpHas, UdpQueued
<1>4. UdpHas(v)
  BY <1>2, <1>3 DEF UdpHas, UdpQueued
<1>5. UdpTells(v)
  <2>1. UdpOrdered(u.submitted, u.wire, u.write_queue, u.completed, Reported(u.answered))
    BY DEF UdpTells
  <2>2. UdpOrdered(Append(u.submitted, d), u.wire, Append(u.write_queue, d), u.completed, Reported(u.answered))
    BY <1>3, <2>1, UdpOneMore
  <2> QED BY <1>2, <2>2 DEF UdpTells
<1>6. CASE u.count = 0 /\ ~u.processing
  <2>1. PICK x \in Udp!Sendmsg(v) :
           w = [x EXCEPT !.watch = IF x.write_queue = <<>> THEN x.watch ELSE x.watch \union {"OUT"}]
    BY <1>1, <1>6 DEF Udp!Enqueue
  <2>2. UdpTells(x) /\ DOMAIN x = UdpFields
    BY <1>4, <1>5, UdpSendmsgTold, UdpSendmsg DEF UdpHas, UdpMoved, UdpQueued
  <2>3. PICK wt : w = [x EXCEPT !.watch = wt]
    BY <2>1
  <2>4. /\ w.write_queue = x.write_queue /\ w.completed = x.completed /\ w.status = x.status
        /\ w.wire = x.wire /\ w.submitted = x.submitted /\ w.answered = x.answered
    BY <2>2, <2>3 DEF UdpFields
  <2> QED BY <2>2, <2>4 DEF UdpTells
<1>7. CASE ~(u.count = 0 /\ ~u.processing)
  <2>1. w = [v EXCEPT !.watch = v.watch \union {"OUT"}]
    BY <1>1, <1>7 DEF Udp!Enqueue
  <2>2. /\ w.write_queue = v.write_queue /\ w.completed = v.completed /\ w.status = v.status
        /\ w.wire = v.wire /\ w.submitted = v.submitted /\ w.answered = v.answered
    BY <1>2, <2>1 DEF UdpFields
  <2> QED BY <1>5, <2>2 DEF UdpTells
<1> QED BY <1>6, <1>7

LEMMA UdpToldFirst == ASSUME Udp!Init PROVE UdpTold
<1>1. /\ udp.write_queue = <<>> /\ udp.completed = <<>> /\ udp.submitted = <<>> /\ udp.wire = <<>>
      /\ udp.answered = <<>>
  BY DEF Udp!Init
<1>2. Len(<<>>) = 0 /\ 1..0 = {}
  BY EmptySeq
<1>3. Reported(<<>>) = <<>>
  BY <1>2 DEF Reported
<1>4. Distinct(<<>>) /\ (\A x : ~Contains(<<>>, x)) /\ (\A x, y : ~Before(<<>>, x, y))
  BY <1>2, EmptyQueue DEF Before
<1>5. UdpOrdered(<<>>, <<>>, <<>>, <<>>, <<>>)
  BY ONLY <1>4 DEF UdpOrdered, Made, Precede
<1>6. UdpTrue(<<>>, <<>>, udp.status, <<>>)
  BY ONLY <1>2, <1>4 DEF UdpTrue
<1> QED BY <1>1, <1>3, <1>5, <1>6 DEF UdpTold, UdpTells

LEMMA UdpTellsStep == ASSUME UdpConstants, UdpInv, UdpTold, [Udp!Next]_udp PROVE UdpTold'
<1> DOMAIN udp = UdpFields /\ UdpTyped /\ UdpQueues
  BY DEF UdpInv
<1>0. UdpHas(udp)
  BY DEF UdpHas, UdpQueued, UdpTyped, UdpQueues
<1>1. ASSUME udp'.write_queue = udp.write_queue, udp'.completed = udp.completed,
             udp'.submitted = udp.submitted, udp'.wire = udp.wire, udp'.answered = udp.answered,
             udp'.status = udp.status
      PROVE  UdpTold'
  BY <1>1 DEF UdpTold, UdpTells
<1>2. CASE UNCHANGED udp
  BY <1>1, <1>2
<1>3. CASE UdpBinds
  BY <1>1, <1>3 DEF UdpBinds, UdpBoundTo
<1>4. CASE UdpReads
  <2>1. PICK u : UdpBoundTo(udp, u) /\ udp' = [u EXCEPT !.recv = TRUE, !.active = TRUE, !.watch = u.watch \union {"IN"}]
    BY <1>4, Zenon DEF UdpReads
  <2>2. /\ udp'.write_queue = u.write_queue /\ udp'.completed = u.completed /\ udp'.status = u.status
        /\ udp'.wire = u.wire /\ udp'.submitted = u.submitted /\ udp'.answered = u.answered
    BY <2>1 DEF UdpBoundTo, UdpFields
  <2> QED BY <1>1, <2>1, <2>2 DEF UdpBoundTo
<1>5. ASSUME NEW d \in Datagrams, UdpSends(d), Udp!Unused(d) PROVE UdpTold'
  <2>1. PICK u : UdpBoundTo(udp, u) /\ udp' \in Udp!Enqueue(u, d)
    BY <1>5 DEF UdpSends
  <2>2. UdpHas(u) /\ UdpTells(u)
    BY <1>0, <2>1 DEF UdpBoundTo, UdpHas, UdpQueued, UdpTold, UdpTells
  <2>3. ~Contains(u.submitted, d)
    <3>1. \A y : y \in Udp!Range(udp.submitted) <=> Contains(udp.submitted, y)
      BY SetOfQueue, UdpOps DEF UdpQueues
    <3> QED BY <1>5, <2>1, <3>1 DEF Udp!Unused, UdpBoundTo
  <2>4. UdpTells(udp')
    BY <2>1, <2>2, <2>3, UdpEnqueueTold
  <2> QED BY <2>4 DEF UdpTold
<1>6. ASSUME NEW d \in Datagrams, UdpSendsNow(d), Udp!Unused(d), Udp!NothingQueued(udp) PROVE UdpTold'
  <2>1. PICK u : /\ UdpBoundTo(udp, u)
                 /\ udp' = [u EXCEPT !.submitted = Append(u.submitted, d), !.wire = Append(u.wire, d)]
    BY <1>6, Zenon DEF UdpSendsNow
  <2>2. /\ udp'.write_queue = udp.write_queue /\ udp'.completed = udp.completed /\ udp'.status = udp.status
        /\ udp'.wire = Append(udp.wire, d) /\ udp'.submitted = Append(udp.submitted, d)
        /\ udp'.answered = udp.answered
    BY <2>1 DEF UdpBoundTo, UdpFields
  <2>3. ~Contains(udp.submitted, d)
    <3>1. \A y : y \in Udp!Range(udp.submitted) <=> Contains(udp.submitted, y)
      BY SetOfQueue, UdpOps DEF UdpQueues
    <3> QED BY <1>6, <3>1 DEF Udp!Unused
  <2>4. udp.write_queue = <<>> /\ udp.completed = <<>>
    <3>1. udp.completed \in Seq(Datagrams) /\ udp.write_queue \in Seq(Datagrams)
      BY DEF UdpQueues
    <3>2. Len(udp.completed \o udp.write_queue) = Len(udp.completed) + Len(udp.write_queue)
      BY <3>1, ConcatProperties
    <3>3. Len(udp.completed) + Len(udp.write_queue) = 0
      BY <1>6, <3>2 DEF UdpInv, UdpCounts, Udp!NothingQueued
    <3>4. Len(udp.completed) \in Nat /\ Len(udp.write_queue) \in Nat
      BY <3>1, LenProperties
    <3>5. \A m, n \in Nat : m + n = 0 => m = 0 /\ n = 0
      OBVIOUS
    <3>6. Len(udp.completed) = 0 /\ Len(udp.write_queue) = 0
      BY ONLY <3>3, <3>4, <3>5
    <3> QED BY <3>1, <3>6, EmptySeq
  <2>5. UdpOrdered(udp.submitted, udp.wire, <<>>, udp.completed, Reported(udp.answered))
    BY <2>4 DEF UdpTold, UdpTells
  <2>6. UdpOrdered(Append(udp.submitted, d), Append(udp.wire, d), <<>>, udp.completed, Reported(udp.answered))
    <3>1. udp.submitted \in Seq(Datagrams) /\ udp.wire \in Seq(Datagrams)
      BY DEF UdpQueues
    <3> QED BY <2>3, <2>5, <3>1, UdpOneNow
  <2>7. \A i \in 1..Len(udp.answered) : udp.answered[i][1] # d
    <3>1. \A x : Contains(Reported(udp.answered), x) => Contains(udp.submitted, x)
      BY <2>5 DEF UdpOrdered, Made
    <3>2. ASSUME NEW i \in 1..Len(udp.answered) PROVE Contains(Reported(udp.answered), udp.answered[i][1])
      <4>1. Len(Reported(udp.answered)) = Len(udp.answered) /\ Reported(udp.answered)[i] = udp.answered[i][1]
        BY LenProperties DEF Reported, UdpQueues
      <4> QED BY <4>1 DEF Contains
    <3> QED BY <2>3, <3>1, <3>2
  <2>8. \A x : Contains(Append(udp.wire, d), x) <=> Contains(udp.wire, x) \/ x = d
    BY AppendQueue DEF UdpQueues
  <2>9. UdpTrue(Append(udp.wire, d), <<>>, udp.status, udp.answered)
    BY <2>7, <2>8, EmptyQueue DEF UdpTold, UdpTells, UdpTrue
  <2> QED BY <2>2, <2>4, <2>6, <2>9 DEF UdpTold, UdpTells
<1>7. CASE Udp!RecvStop \/ Udp!Close \/ Udp!Poll \/ Udp!RunPending \/ Udp!RecvEnd \/ Udp!RecvOne
  <2>1. CASE Udp!RecvStop \/ Udp!Close
    BY <1>1, <2>1 DEF Udp!RecvStop, Udp!Close, UdpFields
  <2>2. CASE Udp!Poll
    BY <1>1, <2>2 DEF Udp!Poll, UdpFields
  <2>3. CASE Udp!RunPending \/ Udp!RecvEnd \/ Udp!RecvOne
    BY <1>1, <2>3 DEF Udp!RunPending, Udp!RecvEnd, Udp!RecvOne, UdpFields
  <2> QED BY <1>7, <2>1, <2>2, <2>3
<1>8. CASE Udp!RecvMany \/ Udp!RecvReturns \/ Udp!SendReturns \/ Udp!Completed
  <2>1. CASE Udp!RecvMany
    BY <1>1, <2>1 DEF Udp!RecvMany, UdpFields
  <2>2. CASE Udp!RecvReturns
    BY <1>1, <2>2 DEF Udp!RecvReturns, UdpFields
  <2>3. CASE Udp!SendReturns
    BY <1>1, <2>3 DEF Udp!SendReturns, UdpFields
  <2>4. CASE Udp!Completed
    BY <1>1, <2>4 DEF Udp!Completed, UdpFields
  <2> QED BY <1>8, <2>1, <2>2, <2>3, <2>4
<1>9. CASE Udp!Out
  <2>1. CASE "OUT" \in udp.revents /\ udp.closing = "no"
    <3>1. PICK u \in Udp!Sendmsg(udp) : udp' = [u EXCEPT !.pc = "completed", !.processing = TRUE]
      BY <1>9, <2>1, Zenon DEF Udp!Out
    <3>2. UdpTells(u) /\ DOMAIN u = UdpFields
      BY <1>0, UdpSendmsgTold, UdpSendmsg DEF UdpTold, UdpHas, UdpMoved, UdpQueued
    <3>3. /\ udp'.write_queue = u.write_queue /\ udp'.completed = u.completed /\ udp'.status = u.status
          /\ udp'.wire = u.wire /\ udp'.submitted = u.submitted /\ udp'.answered = u.answered
      BY <3>1, <3>2 DEF UdpFields
    <3> QED BY <3>2, <3>3 DEF UdpTold, UdpTells
  <2>2. CASE ~("OUT" \in udp.revents /\ udp.closing = "no")
    <3>1. udp' = [udp EXCEPT !.pc = "loop"]
      BY <1>9, <2>2, Zenon DEF Udp!Out
    <3> QED BY <1>1, <3>1 DEF UdpFields
  <2> QED BY <2>1, <2>2
<1>10. CASE Udp!Complete
  <2>1. PICK d : d = Head(udp.completed)
    OBVIOUS
  <2>2. /\ udp.completed # <<>> /\ udp'.completed = Tail(udp.completed)
        /\ udp'.answered = Append(udp.answered, <<d, udp.status[d]>>)
        /\ udp'.write_queue = udp.write_queue /\ udp'.status = udp.status
        /\ udp'.submitted = udp.submitted /\ udp'.wire = udp.wire
    BY <1>10, <2>1 DEF Udp!Complete, UdpFields
  <2>3. /\ d \in Datagrams /\ Tail(udp.completed) \in Seq(Datagrams)
        /\ \A y : Contains(udp.completed, y) <=> Contains(Tail(udp.completed), y) \/ y = d
        /\ \A x, y : Before(Tail(udp.completed), x, y) => Before(udp.completed, x, y)
        /\ \A y : Contains(Tail(udp.completed), y) => Before(udp.completed, d, y)
    BY <2>1, <2>2, TailQueue, TailOrder DEF UdpQueues
  <2>4. PICK r, t, b : r = Reported(udp.answered) /\ t = Reported(udp'.answered) /\ b = Tail(udp.completed)
    OBVIOUS
  <2>5. /\ r \in Seq(Datagrams) /\ t = Append(r, d) /\ Len(udp'.answered) = Len(udp.answered) + 1
        /\ Len(udp.answered) \in Nat
        /\ \A i \in 1..Len(udp.answered) : udp'.answered[i] = udp.answered[i]
        /\ udp'.answered[Len(udp.answered) + 1] = <<d, udp.status[d]>>
    <3>1. /\ udp.answered \in Seq(Datagrams \X Statuses) /\ Len(udp.answered) \in Nat
          /\ <<d, udp.status[d]>> \in Datagrams \X Statuses
      BY <2>3 DEF UdpQueues
    <3>2. /\ udp'.answered \in Seq(Datagrams \X Statuses) /\ Len(udp'.answered) = Len(udp.answered) + 1
          /\ \A i \in 1..Len(udp.answered) : udp'.answered[i] = udp.answered[i]
          /\ udp'.answered[Len(udp.answered) + 1] = <<d, udp.status[d]>>
      BY <2>2, <3>1, AppendProperties
    <3>3. \A i \in 1..Len(udp.answered) : udp.answered[i] \in Datagrams \X Statuses
      BY <3>1, ElementOfSeq
    <3>4. r \in Seq(Datagrams) /\ Len(r) = Len(udp.answered) /\ \A i \in 1..Len(udp.answered) : r[i] = udp.answered[i][1]
      BY <2>4, <3>1, <3>3 DEF Reported
    <3>5. t = Append(r, d)
      <4>1. /\ DOMAIN t = 1..(Len(r) + 1) /\ t[Len(r) + 1] = d
            /\ \A i \in 1..Len(r) : t[i] = r[i]
        BY <2>4, <3>1, <3>2, <3>4 DEF Reported
      <4>2. /\ DOMAIN Append(r, d) = 1..(Len(r) + 1) /\ Append(r, d)[Len(r) + 1] = d
            /\ \A i \in 1..Len(r) : Append(r, d)[i] = r[i]
        BY <2>3, <3>4
      <4>3. t \in Seq(Datagrams) /\ Append(r, d) \in Seq(Datagrams) /\ Len(t) = Len(Append(r, d))
        <5>1. \A i \in 1..Len(udp'.answered) : udp'.answered[i] \in Datagrams \X Statuses
          BY <3>2, ElementOfSeq
        <5>2. t \in Seq(Datagrams) /\ Len(t) = Len(udp'.answered)
          BY <2>4, <3>1, <3>2, <5>1 DEF Reported
        <5>3. Append(r, d) \in Seq(Datagrams) /\ Len(Append(r, d)) = Len(r) + 1
          BY <2>3, <3>4, AppendProperties
        <5> QED BY <3>2, <3>4, <5>2, <5>3
      <4>4. \A i \in 1..Len(t) : t[i] = Append(r, d)[i]
        <5>1. Len(t) = Len(r) + 1 /\ Len(r) \in Nat
          BY <2>3, <3>1, <3>4, <4>3, AppendProperties
        <5>2. \A i \in 1..(Len(r) + 1) : i \in 1..Len(r) \/ i = Len(r) + 1
          BY <5>1
        <5> QED BY <4>1, <4>2, <5>1, <5>2
      <4> QED BY <4>3, <4>4, SeqEqual
    <3> QED BY <3>1, <3>2, <3>4, <3>5
  <2>6. /\ \A x : Contains(t, x) <=> Contains(r, x) \/ x = d
        /\ \A x, y : Before(t, x, y) <=> Before(r, x, y) \/ (Contains(r, x) /\ y = d)
    BY <2>3, <2>5, AppendQueue, AppendOrder
  <2>7. UdpOrdered(udp.submitted, udp.wire, udp.write_queue, udp.completed, r)
    BY <2>4 DEF UdpTold, UdpTells
  <2>8. UdpOrdered(udp.submitted, udp.wire, udp.write_queue, b, t)
    BY ONLY <2>3, <2>4, <2>6, <2>7 DEF UdpOrdered, Made, Precede
  <2>9. UdpTrue(udp.wire, udp.completed, udp.status, udp.answered)
    BY DEF UdpTold, UdpTells
  <2>10. \A x : Contains(b, x) => (udp.status[x] = "sent" <=> Contains(udp.wire, x))
    BY <2>3, <2>4, <2>9 DEF UdpTrue
  <2>11. ASSUME NEW i \in 1..Len(udp'.answered)
         PROVE  udp'.answered[i][2] = "sent" <=> Contains(udp.wire, udp'.answered[i][1])
    <3>1. CASE i \in 1..Len(udp.answered)
      BY <2>5, <2>9, <3>1 DEF UdpTrue
    <3>2. CASE i = Len(udp.answered) + 1
      <4>1. Contains(udp.completed, d)
        BY <2>3
      <4>2. udp'.answered[i] = <<d, udp.status[d]>>
        <5>1. udp'.answered[Len(udp.answered) + 1] = <<d, udp.status[d]>>
          BY <2>5
        <5> QED BY ONLY <3>2, <5>1
      <4>3. udp'.answered[i][1] = d /\ udp'.answered[i][2] = udp.status[d]
        BY <4>2
      <4> QED BY <2>9, <4>1, <4>3 DEF UdpTrue
    <3> QED BY <2>5, <3>1, <3>2
  <2>12. UdpTrue(udp.wire, b, udp.status, udp'.answered)
    BY <2>10, <2>11 DEF UdpTrue
  <2> QED BY <2>2, <2>4, <2>8, <2>12 DEF UdpTold, UdpTells
<1>11. CASE Udp!FinishClose
  <2>1. PICK st : st = [d \in Datagrams |-> IF d \in Udp!Range(udp.write_queue) THEN "canceled" ELSE udp.status[d]]
    OBVIOUS
  <2>2. /\ udp'.write_queue = <<>> /\ udp'.completed = udp.completed \o udp.write_queue
        /\ udp'.status = st /\ udp'.submitted = udp.submitted /\ udp'.wire = udp.wire
        /\ udp'.answered = udp.answered
    BY <1>11, <2>1 DEF Udp!FinishClose, Udp!Cancelled, UdpFields
  <2>3. /\ udp.write_queue \in Seq(Datagrams) /\ udp.completed \in Seq(Datagrams) /\ udp.wire \in Seq(Datagrams)
        /\ UdpOrdered(udp.submitted, udp.wire, udp.write_queue, udp.completed, Reported(udp.answered))
        /\ UdpTrue(udp.wire, udp.completed, udp.status, udp.answered)
    BY DEF UdpQueues, UdpTold, UdpTells
  <2>4. /\ \A x : Contains(udp.completed \o udp.write_queue, x) <=> Contains(udp.completed, x) \/ Contains(udp.write_queue, x)
        /\ \A x, y : Before(udp.completed \o udp.write_queue, x, y) <=>
             \/ Before(udp.completed, x, y) \/ Before(udp.write_queue, x, y)
             \/ Contains(udp.completed, x) /\ Contains(udp.write_queue, y)
    BY <2>3, ConcatQueue, ConcatOrder
  <2>5. PICK b, q : b = udp.completed \o udp.write_queue /\ q = <<>>
    OBVIOUS
  <2>6. (\A x : ~Contains(q, x)) /\ (\A x, y : ~Before(q, x, y))
    BY <2>5, EmptyQueue, EmptySeq DEF Before
  <2>7. UdpOrdered(udp.submitted, udp.wire, q, b, Reported(udp.answered))
    <3>1. /\ \A x : Contains(b, x) <=> Contains(udp.completed, x) \/ Contains(udp.write_queue, x)
          /\ \A x, y : Before(b, x, y) <=>
               \/ Before(udp.completed, x, y) \/ Before(udp.write_queue, x, y)
               \/ Contains(udp.completed, x) /\ Contains(udp.write_queue, y)
      BY <2>4, <2>5
    <3> QED BY ONLY <2>3, <2>6, <3>1 DEF UdpOrdered, Made, Precede
  <2>8. \A x : Contains(udp.write_queue, x) => ~Contains(udp.wire, x) /\ ~Contains(udp.completed, x)
    BY <2>3, UdpApart
  <2>9. \A x \in Datagrams : st[x] = IF Contains(udp.write_queue, x) THEN "canceled" ELSE udp.status[x]
    <3>1. \A y : y \in Udp!Range(udp.write_queue) <=> Contains(udp.write_queue, y)
      BY <2>3, SetOfQueue, UdpOps
    <3> QED BY <2>1, <3>1
  <2>10. ASSUME NEW x, Contains(b, x) PROVE st[x] = "sent" <=> Contains(udp.wire, x)
    <3>1. x \in Datagrams
      BY <2>3, <2>4, <2>5, <2>10, RangeQueue
    <3>2. Contains(udp.completed, x) => (udp.status[x] = "sent" <=> Contains(udp.wire, x))
      BY <2>3 DEF UdpTrue
    <3> QED BY <2>4, <2>5, <2>8, <2>9, <2>10, <3>1, <3>2
  <2>11. UdpTrue(udp.wire, b, st, udp.answered)
    BY <2>3, <2>10 DEF UdpTrue
  <2> QED BY <2>2, <2>5, <2>7, <2>11 DEF UdpTold, UdpTells
<1>12. ASSUME NEW d \in Datagrams, Udp!Send(d) \/ Udp!TrySend(d) PROVE UdpTold'
  <2>1. CASE Udp!Send(d)
    <3>1. Udp!Unused(d)
      BY <2>1 DEF Udp!Send
    <3> QED BY <1>3, <1>5, <2>1, <3>1, UdpPrograms
  <2>2. CASE Udp!TrySend(d)
    <3>1. Udp!Unused(d) /\ Udp!NothingQueued(udp)
      BY <2>2 DEF Udp!TrySend
    <3> QED BY <1>3, <1>6, <2>2, <3>1, UdpPrograms
  <2> QED BY <1>12, <2>1, <2>2
<1>13. CASE Udp!UdpBind \/ Udp!Open \/ Udp!Connect \/ Udp!Disconnect \/ Udp!RecvStart
  BY <1>3, <1>4, <1>13, UdpPrograms
<1> QED BY <1>2, <1>7, <1>8, <1>9, <1>10, <1>11, <1>12, <1>13 DEF Udp!Next, Udp!Loop

\* Requests rank as they were made.
LEMMA UdpRising ==
    ASSUME NEW s, NEW p, Distinct(s), Made(s, p), DOMAIN p = 1..Len(p), DOMAIN s = 1..Len(s),
           NEW i \in DOMAIN p, NEW j \in DOMAIN p, i < j
    PROVE  /\ (CHOOSE k \in DOMAIN s : s[k] = p[i]) < (CHOOSE k \in DOMAIN s : s[k] = p[j])
           /\ p[i] # p[j]
<1>1. PICK x, y : x = p[i] /\ y = p[j]
  OBVIOUS
<1>2. Before(p, x, y)
  BY <1>1 DEF Before
<1>3. PICK k, n \in 1..Len(s) : s[k] = x /\ s[n] = y /\ k < n
  BY <1>2 DEF Made, Before
<1>4. \A a \in DOMAIN s : (s[a] = x => a = k) /\ (s[a] = y => a = n)
  BY <1>3 DEF Distinct
<1>5. (CHOOSE a \in DOMAIN s : s[a] = x) = k /\ (CHOOSE a \in DOMAIN s : s[a] = y) = n
  BY <1>3, <1>4
<1>6. x # y
  BY <1>3 DEF Distinct
<1> QED BY <1>1, <1>3, <1>5, <1>6

LEMMA UdpTellsTruth == ASSUME UdpInv, UdpTold PROVE Udp!InOrder /\ Udp!ToldTheTruth
<1>1. /\ udp.write_queue \in Seq(Datagrams) /\ udp.completed \in Seq(Datagrams) /\ udp.wire \in Seq(Datagrams)
      /\ udp.answered \in Seq(Datagrams \X Statuses) /\ udp.submitted \in Seq(Datagrams)
  BY DEF UdpInv, UdpQueues
<1>2. /\ UdpOrdered(udp.submitted, udp.wire, udp.write_queue, udp.completed, Reported(udp.answered))
      /\ UdpTrue(udp.wire, udp.completed, udp.status, udp.answered)
  BY DEF UdpTold, UdpTells
<1>3. /\ DOMAIN udp.wire = 1..Len(udp.wire) /\ DOMAIN udp.submitted = 1..Len(udp.submitted)
      /\ DOMAIN udp.answered = 1..Len(udp.answered) /\ Len(udp.answered) \in Nat
  BY <1>1
<1>4. PICK r, c, p : r = Reported(udp.answered) /\ c = Udp!Waiting /\ p = r \o c
  OBVIOUS
<1>5. r \in Seq(Datagrams)
  <2>1. \A i \in 1..Len(udp.answered) : udp.answered[i] \in Datagrams \X Statuses
    BY <1>1, ElementOfSeq
  <2> QED BY <1>3, <1>4, <2>1 DEF Reported
<1>6. /\ c \in Seq(Datagrams)
      /\ \A x : Contains(c, x) <=> Contains(udp.completed, x) \/ Contains(udp.write_queue, x)
      /\ \A x, y : Before(c, x, y) <=>
           \/ Before(udp.completed, x, y) \/ Before(udp.write_queue, x, y)
           \/ Contains(udp.completed, x) /\ Contains(udp.write_queue, y)
  BY <1>1, <1>4, ConcatQueue, ConcatOrder DEF Udp!Waiting
<1>7. /\ p \in Seq(Datagrams)
      /\ \A x : Contains(p, x) <=> Contains(r, x) \/ Contains(c, x)
      /\ \A x, y : Before(p, x, y) <=>
           Before(r, x, y) \/ Before(c, x, y) \/ (Contains(r, x) /\ Contains(c, y))
  BY <1>4, <1>5, <1>6, ConcatQueue, ConcatOrder
<1>8. UdpOrdered(udp.submitted, udp.wire, udp.write_queue, udp.completed, r)
  BY <1>2, <1>4
<1>9. Made(udp.submitted, p) /\ Made(udp.submitted, udp.wire) /\ Distinct(udp.submitted)
  BY ONLY <1>6, <1>7, <1>8 DEF UdpOrdered, Made, Precede
<1>10. DOMAIN p = 1..Len(p)
  BY <1>7
<1>11. \A i, j \in DOMAIN udp.wire : i < j =>
         /\ (CHOOSE k \in DOMAIN udp.submitted : udp.submitted[k] = udp.wire[i])
              < (CHOOSE k \in DOMAIN udp.submitted : udp.submitted[k] = udp.wire[j])
         /\ udp.wire[i] # udp.wire[j]
  BY <1>3, <1>9, UdpRising
<1>12. \A i, j \in DOMAIN p : i < j =>
         (CHOOSE k \in DOMAIN udp.submitted : udp.submitted[k] = p[i])
           < (CHOOSE k \in DOMAIN udp.submitted : udp.submitted[k] = p[j])
  BY <1>3, <1>9, <1>10, UdpRising
<1>13. p = [i \in DOMAIN udp.answered |-> udp.answered[i][1]] \o Udp!Waiting
  BY <1>3, <1>4 DEF Reported
<1>14. Udp!InOrder
  <2> DEFINE Rank(d) == CHOOSE i \in DOMAIN udp.submitted : udp.submitted[i] = d
             Rising(e) == \A i, j \in DOMAIN e : i < j => Rank(e[i]) < Rank(e[j])
  <2>1. Rising(p)
    BY ONLY <1>12
  <2>2. Rising(udp.wire)
    BY ONLY <1>11
  <2>3. Rising([i \in DOMAIN udp.answered |-> udp.answered[i][1]] \o Udp!Waiting)
    BY ONLY <1>13, <2>1
  <2> QED BY ONLY <2>2, <2>3, Zenon DEF Udp!InOrder
<1>15. \A i, j \in DOMAIN udp.wire : udp.wire[i] = udp.wire[j] => i = j
  <2>1. \A i, j \in 1..Len(udp.wire) : i = j \/ i < j \/ j < i
    OBVIOUS
  <2> QED BY <1>3, <1>11, <2>1
<1>16. \A y : y \in Udp!Range(udp.wire) <=> Contains(udp.wire, y)
  BY <1>1, SetOfQueue, UdpOps
<1>17. Udp!ToldTheTruth
  BY <1>2, <1>3, <1>15, <1>16 DEF Udp!ToldTheTruth, UdpTrue
<1> QED BY <1>14, <1>17

-----------------------------------------------------------------------------
(* Listening and accepting *)

AccConstants == MaxFds \in Nat /\ Grow \in Nat \ {0}

AccFields ==
    {"pc", "ipc", "tcp", "fd", "delayed_error", "listening", "watch", "reading", "closing", "name",
     "emfile_fd", "backlog", "accepted_fd", "queued", "size", "made", "clients", "closed", "refused"}

AccTyped ==
    /\ acc.pc \in {"loop", "callback"} /\ acc.ipc \in BOOLEAN /\ acc.listening \in BOOLEAN
    /\ acc.watch \in BOOLEAN /\ acc.reading \in BOOLEAN /\ acc.closing \in BOOLEAN
    /\ acc.refused \in BOOLEAN /\ acc.fd \in BOOLEAN /\ acc.name \in BOOLEAN
    /\ acc.made \in 0..MaxFds /\ acc.backlog \in Nat /\ acc.backlog <= acc.made
    /\ acc.accepted_fd \in 0..MaxFds /\ acc.size \in Nat

AccQueues ==
    /\ acc.queued \in Seq(1..MaxFds) /\ Distinct(acc.queued) /\ Len(acc.queued) <= acc.size
    /\ acc.clients \in Seq(1..MaxFds) /\ Distinct(acc.clients)
    /\ acc.accepted_fd = 0 => acc.queued = <<>>

\* The descriptors that came in are those of the program, of the stream, and the closed ones, each
\* in one place.
AccPlaces ==
    /\ \A d : d \in 1..(acc.made - acc.backlog) <=>
         \/ Contains(acc.clients, d) \/ d \in acc.closed
         \/ (d = acc.accepted_fd /\ d # 0) \/ Contains(acc.queued, d)
    /\ \A d : Contains(acc.clients, d) => d \notin acc.closed /\ d # acc.accepted_fd /\ ~Contains(acc.queued, d)
    /\ \A d : d \in acc.closed => d # acc.accepted_fd /\ ~Contains(acc.queued, d)
    /\ ~Contains(acc.queued, acc.accepted_fd)

\* Only an IPC pipe queues descriptors, only a listening socket has a backlog.
AccKinds ==
    /\ acc.ipc => ~acc.listening
    /\ acc.reading => acc.ipc
    /\ acc.backlog > 0 => acc.listening
    /\ acc.queued # <<>> => acc.ipc
    /\ acc.accepted_fd # 0 => acc.ipc \/ acc.listening

\* A listening socket is watched, but for a connection that waits.
AccWatched ==
    /\ acc.listening /\ ~acc.closing => acc.watch \/ acc.accepted_fd # 0 \/ acc.refused
    /\ acc.pc = "loop" /\ acc.listening /\ acc.watch => acc.accepted_fd = 0

AccClosed == acc.closing =>
    /\ ~acc.watch /\ ~acc.reading /\ ~acc.fd /\ ~acc.name
    /\ acc.accepted_fd = 0 /\ acc.queued = <<>> /\ acc.backlog = 0

AccInv ==
    /\ DOMAIN acc = AccFields /\ AccTyped /\ AccQueues /\ AccPlaces /\ AccKinds /\ AccWatched /\ AccClosed

LEMMA AppendedTo ==
    ASSUME NEW S, NEW q \in Seq(S), NEW x \in S, Distinct(q), ~Contains(q, x)
    PROVE  /\ Append(q, x) \in Seq(S) /\ Distinct(Append(q, x))
           /\ \A y : Contains(Append(q, x), y) <=> Contains(q, y) \/ y = x
  BY AppendQueue

LEMMA AccOps ==
    /\ \A q : Accept!Range(q) = Range(q)
    /\ \A S : Accept!Cardinality(S) = Cardinality(S)
<1>1. \A q : Accept!Range(q) = Range(q)
  BY DEF Accept!Range, Range
<1>2. \A S : Accept!Cardinality(S) = Cardinality(S)
  BY DEF Accept!Cardinality, Cardinality
<1> QED BY <1>1, <1>2

\* There is room for the descriptors that uv__stream_queue_fd keeps.
LEMMA AccRoom ==
    ASSUME AccConstants, NEW size \in Nat, NEW n \in Nat
    PROVE  Accept!Room(size, n) \in Nat /\ n <= Accept!Room(size, n)
<1>1. CASE n <= size
  BY <1>1 DEF Accept!Room
<1>2. CASE ~(n <= size)
  <2>1. PICK m \in Nat : m = n - size + Grow - 1 /\ Grow \in Nat /\ Grow > 0
    BY <1>2 DEF AccConstants
  <2>2. m \div Grow \in Nat /\ m = Grow * (m \div Grow) + (m % Grow) /\ m % Grow \in 0..(Grow - 1)
    BY <2>1
  <2>3. Grow * (m \div Grow) \in Nat
    BY <2>1, <2>2
  <2>4. PICK p \in Nat : p = Grow * (m \div Grow)
    BY <2>3
  <2>5. PICK r \in 0..(Grow - 1) : m = p + r
    BY <2>2, <2>4
  <2>6. p >= n - size
    BY <2>1, <2>5
  <2>7. Accept!Room(size, n) = size + p
    BY <1>2, <2>1, <2>4 DEF Accept!Room
  <2> QED BY <2>6, <2>7
<1> QED BY <1>1, <1>2

\* Descriptors that came one after the other.
Following(from, n) == [i \in 1..n |-> from + i - 1]

LEMMA AccRun ==
    ASSUME NEW from \in Nat \ {0}, NEW n \in Nat, NEW m \in Nat, from + n <= m + 1,
           NEW q, q = Following(from, n)
    PROVE  /\ q \in Seq(1..m) /\ Len(q) = n /\ Distinct(q)
           /\ \A d : Contains(q, d) <=> d \in Int /\ from <= d /\ d < from + n
<1>1. \A i \in 1..n : q[i] = from + i - 1 /\ from + i - 1 \in 1..m
  BY DEF Following
<1>2. q \in [1..n -> 1..m]
  BY <1>1 DEF Following
<1>3. q \in Seq(1..m) /\ Len(q) = n
  BY <1>2
<1>4. Distinct(q)
  BY <1>1, <1>3 DEF Distinct
<1>5. ASSUME NEW d PROVE Contains(q, d) <=> d \in Int /\ from <= d /\ d < from + n
  <2>1. ASSUME Contains(q, d) PROVE d \in Int /\ from <= d /\ d < from + n
    BY <1>1, <1>3, <2>1 DEF Contains
  <2>2. ASSUME d \in Int, from <= d, d < from + n PROVE Contains(q, d)
    <3>1. d - from + 1 \in 1..n /\ from + (d - from + 1) - 1 = d
      BY <2>2
    <3> QED BY <1>1, <1>3, <3>1 DEF Contains
  <2> QED BY <2>1, <2>2
<1> QED BY <1>3, <1>4, <1>5

LEMMA AccBegins ==
    ASSUME AccConstants, Accept!Init
    PROVE  AccInv
<1>1. /\ DOMAIN acc = AccFields /\ acc.pc = "loop" /\ acc.ipc \in BOOLEAN /\ acc.fd = acc.ipc
      /\ acc.listening = FALSE /\ acc.watch = FALSE /\ acc.reading = FALSE /\ acc.closing = FALSE
      /\ acc.name = FALSE /\ acc.backlog = 0 /\ acc.accepted_fd = 0 /\ acc.queued = <<>> /\ acc.size = 0
      /\ acc.made = 0 /\ acc.clients = <<>> /\ acc.closed = {} /\ acc.refused = FALSE
  BY DEF Accept!Init, AccFields, Accept!NoFd
<1>2. AccTyped
  <2>1. 0 \in 0..MaxFds /\ 0 \in Nat /\ 0 <= 0
    BY DEF AccConstants
  <2> QED BY <1>1, <2>1 DEF AccTyped
<1>3. AccQueues
  <2>1. <<>> \in Seq(1..MaxFds) /\ Distinct(<<>>) /\ Len(<<>>) = 0
    BY EmptyQueue
  <2> QED BY <1>1, <2>1 DEF AccQueues
<1>4. AccPlaces
  BY <1>1, EmptyQueue DEF AccPlaces
<1> QED BY <1>1, <1>2, <1>3, <1>4 DEF AccInv, AccKinds, AccWatched, AccClosed

LEMMA AccStep ==
    ASSUME AccConstants, AccInv, Accept!Next
    PROVE  AccInv'
<1> AccConstants /\ (DOMAIN acc = AccFields) /\ AccTyped /\ AccQueues /\ AccPlaces /\ AccKinds
         /\ AccWatched /\ AccClosed
  BY DEF AccInv
<1>1. CASE Accept!TcpBind
  <2>u. /\ DOMAIN acc' = DOMAIN acc /\ acc'.fd = TRUE /\ acc'.pc = acc.pc /\ acc'.ipc = acc.ipc
        /\ acc'.listening = acc.listening /\ acc'.watch = acc.watch
        /\ acc'.reading = acc.reading /\ acc'.closing = acc.closing /\ acc'.name = acc.name
        /\ acc'.backlog = acc.backlog /\ acc'.accepted_fd = acc.accepted_fd
        /\ acc'.queued = acc.queued /\ acc'.size = acc.size /\ acc'.made = acc.made
        /\ acc'.clients = acc.clients /\ acc'.closed = acc.closed /\ acc'.refused = acc.refused
    BY <1>1 DEF Accept!TcpBind, Accept!Program, AccTyped, AccFields
  <2>g. acc.pc \in {"loop", "callback"} /\ ~acc.closing
    BY <1>1 DEF Accept!TcpBind, Accept!Program
  <2>1. (DOMAIN acc = AccFields)'
    BY <2>u, <2>g
  <2>2. AccTyped'
    BY <2>u, <2>g DEF AccTyped
  <2>3. AccQueues'
    BY <2>u, <2>g DEF AccQueues
  <2>4. AccPlaces'
    BY <2>u, <2>g DEF AccPlaces
  <2>5. AccKinds'
    BY <2>u, <2>g DEF AccKinds
  <2>6. AccWatched'
    BY <2>u, <2>g DEF AccWatched, AccClosed
  <2>7. AccClosed'
    BY <2>u, <2>g DEF AccClosed
  <2> QED BY <2>1, <2>2, <2>3, <2>4, <2>5, <2>6, <2>7 DEF AccInv
<1>2. CASE Accept!PipeBind
  <2>o. PICK ok \in BOOLEAN : acc' = [acc EXCEPT !.fd = ok, !.name = ok]
    BY <1>2 DEF Accept!PipeBind
  <2>u. /\ DOMAIN acc' = DOMAIN acc /\ acc'.fd = ok /\ acc'.name = ok /\ acc'.pc = acc.pc
        /\ acc'.ipc = acc.ipc /\ acc'.listening = acc.listening /\ acc'.watch = acc.watch
        /\ acc'.reading = acc.reading /\ acc'.closing = acc.closing
        /\ acc'.backlog = acc.backlog /\ acc'.accepted_fd = acc.accepted_fd
        /\ acc'.queued = acc.queued /\ acc'.size = acc.size /\ acc'.made = acc.made
        /\ acc'.clients = acc.clients /\ acc'.closed = acc.closed /\ acc'.refused = acc.refused
    BY <1>2, <2>o DEF Accept!PipeBind, Accept!Program, AccTyped, AccFields
  <2>g. acc.pc \in {"loop", "callback"} /\ ~acc.closing
    BY <1>2 DEF Accept!PipeBind, Accept!Program
  <2>1. (DOMAIN acc = AccFields)'
    BY <2>u, <2>g
  <2>2. AccTyped'
    BY <2>u, <2>g DEF AccTyped
  <2>3. AccQueues'
    BY <2>u, <2>g DEF AccQueues
  <2>4. AccPlaces'
    BY <2>u, <2>g DEF AccPlaces
  <2>5. AccKinds'
    BY <2>u, <2>g DEF AccKinds
  <2>6. AccWatched'
    BY <2>u, <2>g DEF AccWatched, AccClosed
  <2>7. AccClosed'
    BY <2>u, <2>g DEF AccClosed
  <2> QED BY <2>1, <2>2, <2>3, <2>4, <2>5, <2>6, <2>7 DEF AccInv
<1>3. CASE Accept!Listen
  <2>u. /\ DOMAIN acc' = DOMAIN acc /\ acc'.fd = TRUE /\ acc'.listening = TRUE
        /\ acc'.watch = TRUE /\ acc'.pc = acc.pc /\ acc'.ipc = acc.ipc
        /\ acc'.reading = acc.reading /\ acc'.closing = acc.closing /\ acc'.name = acc.name
        /\ acc'.backlog = acc.backlog /\ acc'.accepted_fd = acc.accepted_fd
        /\ acc'.queued = acc.queued /\ acc'.size = acc.size /\ acc'.made = acc.made
        /\ acc'.clients = acc.clients /\ acc'.closed = acc.closed /\ acc'.refused = acc.refused
    BY <1>3 DEF Accept!Listen, Accept!Program, AccTyped, AccFields
  <2>g. acc.pc \in {"loop", "callback"} /\ ~acc.closing /\ ~acc.ipc /\ ~acc.listening
    BY <1>3 DEF Accept!Listen, Accept!Program
  <2>1. (DOMAIN acc = AccFields)'
    BY <2>u, <2>g
  <2>2. AccTyped'
    BY <2>u, <2>g DEF AccTyped
  <2>3. AccQueues'
    BY <2>u, <2>g DEF AccQueues
  <2>4. AccPlaces'
    BY <2>u, <2>g DEF AccPlaces
  <2>5. AccKinds'
    BY <2>u, <2>g DEF AccKinds
  <2>6. AccWatched'
    BY <2>u, <2>g DEF AccWatched, AccClosed, AccKinds
  <2>7. AccClosed'
    BY <2>u, <2>g DEF AccClosed
  <2> QED BY <2>1, <2>2, <2>3, <2>4, <2>5, <2>6, <2>7 DEF AccInv
<1>4. CASE Accept!ReadStart
  <2>u. /\ DOMAIN acc' = DOMAIN acc /\ acc'.watch = TRUE /\ acc'.reading = TRUE
        /\ acc'.pc = acc.pc /\ acc'.ipc = acc.ipc /\ acc'.fd = acc.fd
        /\ acc'.listening = acc.listening /\ acc'.closing = acc.closing /\ acc'.name = acc.name
        /\ acc'.backlog = acc.backlog /\ acc'.accepted_fd = acc.accepted_fd
        /\ acc'.queued = acc.queued /\ acc'.size = acc.size /\ acc'.made = acc.made
        /\ acc'.clients = acc.clients /\ acc'.closed = acc.closed /\ acc'.refused = acc.refused
    BY <1>4 DEF Accept!ReadStart, Accept!Program, AccTyped, AccFields
  <2>g. acc.pc \in {"loop", "callback"} /\ ~acc.closing /\ acc.ipc
    BY <1>4 DEF Accept!ReadStart, Accept!Program
  <2>1. (DOMAIN acc = AccFields)'
    BY <2>u, <2>g
  <2>2. AccTyped'
    BY <2>u, <2>g DEF AccTyped
  <2>3. AccQueues'
    BY <2>u, <2>g DEF AccQueues
  <2>4. AccPlaces'
    BY <2>u, <2>g DEF AccPlaces
  <2>5. AccKinds'
    BY <2>u, <2>g DEF AccKinds
  <2>6. AccWatched'
    BY <2>u, <2>g DEF AccWatched, AccClosed, AccKinds
  <2>7. AccClosed'
    BY <2>u, <2>g DEF AccClosed
  <2> QED BY <2>1, <2>2, <2>3, <2>4, <2>5, <2>6, <2>7 DEF AccInv
<1>5. CASE Accept!ReadStop
  <2>u. /\ DOMAIN acc' = DOMAIN acc /\ acc'.watch = FALSE /\ acc'.reading = FALSE
        /\ acc'.pc = acc.pc /\ acc'.ipc = acc.ipc /\ acc'.fd = acc.fd
        /\ acc'.listening = acc.listening /\ acc'.closing = acc.closing /\ acc'.name = acc.name
        /\ acc'.backlog = acc.backlog /\ acc'.accepted_fd = acc.accepted_fd
        /\ acc'.queued = acc.queued /\ acc'.size = acc.size /\ acc'.made = acc.made
        /\ acc'.clients = acc.clients /\ acc'.closed = acc.closed /\ acc'.refused = acc.refused
    BY <1>5 DEF Accept!ReadStop, Accept!Program, AccTyped, AccFields
  <2>g. acc.pc \in {"loop", "callback"} /\ ~acc.closing /\ acc.ipc
    BY <1>5 DEF Accept!ReadStop, Accept!Program
  <2>1. (DOMAIN acc = AccFields)'
    BY <2>u, <2>g
  <2>2. AccTyped'
    BY <2>u, <2>g DEF AccTyped
  <2>3. AccQueues'
    BY <2>u, <2>g DEF AccQueues
  <2>4. AccPlaces'
    BY <2>u, <2>g DEF AccPlaces
  <2>5. AccKinds'
    BY <2>u, <2>g DEF AccKinds
  <2>6. AccWatched'
    BY <2>u, <2>g DEF AccWatched, AccClosed, AccKinds
  <2>7. AccClosed'
    BY <2>u, <2>g DEF AccClosed
  <2> QED BY <2>1, <2>2, <2>3, <2>4, <2>5, <2>6, <2>7 DEF AccInv
<1>6. CASE Accept!Connects
  <2>b. PICK b, m : b = acc.backlog + 1 /\ m = acc.made + 1
    OBVIOUS
  <2>c. /\ b \in Nat /\ m \in 0..MaxFds /\ b <= m /\ m - b = acc.made - acc.backlog
    BY <1>6, <2>b DEF Accept!Connects, AccTyped, AccConstants
  <2>u. /\ DOMAIN acc' = DOMAIN acc /\ acc'.backlog = b /\ acc'.made = m /\ acc'.pc = acc.pc
        /\ acc'.ipc = acc.ipc /\ acc'.fd = acc.fd /\ acc'.listening = acc.listening
        /\ acc'.watch = acc.watch /\ acc'.reading = acc.reading /\ acc'.closing = acc.closing
        /\ acc'.name = acc.name /\ acc'.accepted_fd = acc.accepted_fd
        /\ acc'.queued = acc.queued /\ acc'.size = acc.size /\ acc'.clients = acc.clients
        /\ acc'.closed = acc.closed /\ acc'.refused = acc.refused
    BY <1>6, <2>b DEF Accept!Connects, AccTyped, AccFields
  <2>g. acc.listening /\ ~acc.closing
    BY <1>6 DEF Accept!Connects
  <2>1. (DOMAIN acc = AccFields)'
    BY <2>u, <2>g
  <2>2. AccTyped'
    BY <2>u, <2>g, <2>c DEF AccTyped
  <2>3. AccQueues'
    BY <2>u, <2>g DEF AccQueues
  <2>4. AccPlaces'
    BY <2>u, <2>g, <2>c DEF AccPlaces
  <2>5. AccKinds'
    BY <2>u, <2>g DEF AccKinds
  <2>6. AccWatched'
    BY <2>u, <2>g DEF AccWatched, AccClosed
  <2>7. AccClosed'
    BY <2>u, <2>g DEF AccClosed
  <2> QED BY <2>1, <2>2, <2>3, <2>4, <2>5, <2>6, <2>7 DEF AccInv
<1>7. CASE Accept!Accepted
  <2>b. PICK b, n : b = acc.backlog - 1 /\ n = Accept!Next1
    OBVIOUS
  <2>g. acc.pc = "loop" /\ acc.watch /\ acc.listening /\ acc.backlog > 0
    BY <1>7 DEF Accept!Accepted
  <2>c. /\ b \in Nat /\ n \in 1..MaxFds /\ b <= acc.made /\ n \notin 1..(acc.made - acc.backlog)
        /\ \A d : d \in 1..(acc.made - b) <=> d \in 1..(acc.made - acc.backlog) \/ d = n
    BY <2>b, <2>g DEF Accept!Next1, AccTyped, AccConstants
  <2>d. acc.accepted_fd = 0 /\ acc.queued = <<>> /\ ~acc.closing
    BY <2>g DEF AccWatched, AccQueues, AccClosed
  <2>u. /\ DOMAIN acc' = DOMAIN acc /\ acc'.pc = "callback" /\ acc'.backlog = b
        /\ acc'.accepted_fd = n /\ acc'.ipc = acc.ipc /\ acc'.fd = acc.fd
        /\ acc'.listening = acc.listening /\ acc'.watch = acc.watch
        /\ acc'.reading = acc.reading /\ acc'.closing = acc.closing /\ acc'.name = acc.name
        /\ acc'.queued = acc.queued /\ acc'.size = acc.size /\ acc'.made = acc.made
        /\ acc'.clients = acc.clients /\ acc'.closed = acc.closed /\ acc'.refused = acc.refused
    BY <1>7, <2>b DEF Accept!Accepted, AccTyped, AccFields
  <2>1. (DOMAIN acc = AccFields)'
    BY <2>u
  <2>2. AccTyped'
    BY <2>u, <2>c DEF AccTyped
  <2>3. AccQueues'
    BY <2>u, <2>d, <2>c DEF AccQueues
  <2>4. AccPlaces'
    BY <2>u, <2>c, <2>d, EmptyQueue DEF AccPlaces
  <2>5. AccKinds'
    BY <2>u, <2>g DEF AccKinds
  <2>6. AccWatched'
    BY <2>u, <2>g, <2>c DEF AccWatched, AccClosed
  <2>7. AccClosed'
    BY <2>u, <2>d DEF AccClosed
  <2> QED BY <2>1, <2>2, <2>3, <2>4, <2>5, <2>6, <2>7 DEF AccInv
<1>8. CASE Accept!NoDescriptors
  <2>g. acc.pc = "loop" /\ acc.watch /\ acc.listening /\ acc.backlog > 0
    BY <1>8 DEF Accept!NoDescriptors
  <2>c. /\ \A d : d \in 1..(acc.made - 0) <=> d \in 1..(acc.made - acc.backlog) \/ d \in Accept!Next1..acc.made
        /\ \A d \in Accept!Next1..acc.made : d \notin 1..(acc.made - acc.backlog) /\ d # 0
    BY <2>g DEF Accept!Next1, AccTyped, AccConstants
  <2>d. acc.accepted_fd = 0 /\ acc.queued = <<>>
    BY <2>g DEF AccWatched, AccQueues
  <2>u. /\ DOMAIN acc' = DOMAIN acc /\ acc'.backlog = 0
        /\ acc'.closed = acc.closed \union Accept!Next1..acc.made /\ acc'.pc = acc.pc
        /\ acc'.ipc = acc.ipc /\ acc'.fd = acc.fd /\ acc'.listening = acc.listening
        /\ acc'.watch = acc.watch /\ acc'.reading = acc.reading /\ acc'.closing = acc.closing
        /\ acc'.name = acc.name /\ acc'.accepted_fd = acc.accepted_fd
        /\ acc'.queued = acc.queued /\ acc'.size = acc.size /\ acc'.made = acc.made
        /\ acc'.clients = acc.clients /\ acc'.refused = acc.refused
    BY <1>8 DEF Accept!NoDescriptors, AccTyped, AccFields
  <2>1. (DOMAIN acc = AccFields)'
    BY <2>u
  <2>2. AccTyped'
    BY <2>u DEF AccTyped
  <2>3. AccQueues'
    BY <2>u DEF AccQueues
  <2>4. AccPlaces'
    BY <2>u, <2>c, <2>d, EmptyQueue DEF AccPlaces
  <2>5. AccKinds'
    BY <2>u DEF AccKinds
  <2>6. AccWatched'
    BY <2>u DEF AccWatched, AccClosed
  <2>7. AccClosed'
    BY <2>u DEF AccClosed
  <2> QED BY <2>1, <2>2, <2>3, <2>4, <2>5, <2>6, <2>7 DEF AccInv
<1>9. CASE Accept!CallbackReturns
  <2>w. PICK w \in BOOLEAN : w = Accept!StillWatched(acc)
    BY DEF Accept!StillWatched, AccTyped
  <2>c. (w <=> acc.watch /\ (acc.listening => acc.accepted_fd = 0))
    BY <2>w DEF Accept!StillWatched, Accept!NoFd
  <2>u. /\ DOMAIN acc' = DOMAIN acc /\ acc'.pc = "loop" /\ acc'.watch = w /\ acc'.ipc = acc.ipc
        /\ acc'.fd = acc.fd /\ acc'.listening = acc.listening /\ acc'.reading = acc.reading
        /\ acc'.closing = acc.closing /\ acc'.name = acc.name /\ acc'.backlog = acc.backlog
        /\ acc'.accepted_fd = acc.accepted_fd /\ acc'.queued = acc.queued
        /\ acc'.size = acc.size /\ acc'.made = acc.made /\ acc'.clients = acc.clients
        /\ acc'.closed = acc.closed /\ acc'.refused = acc.refused
    BY <1>9, <2>w DEF Accept!CallbackReturns, AccTyped, AccFields
  <2>1. (DOMAIN acc = AccFields)'
    BY <2>u
  <2>2. AccTyped'
    BY <2>u DEF AccTyped
  <2>3. AccQueues'
    BY <2>u DEF AccQueues
  <2>4. AccPlaces'
    BY <2>u DEF AccPlaces
  <2>5. AccKinds'
    BY <2>u DEF AccKinds
  <2>6. AccWatched'
    BY <2>u, <2>c DEF AccWatched, AccClosed
  <2>7. AccClosed'
    BY <2>u, <2>c DEF AccClosed
  <2> QED BY <2>1, <2>2, <2>3, <2>4, <2>5, <2>6, <2>7 DEF AccInv
<1>10. ASSUME NEW k \in 1..MaxFds, Accept!Receive(k) PROVE AccInv'
  <2>g. acc.pc = "loop" /\ acc.ipc /\ acc.reading /\ acc.made + k <= MaxFds
    BY <1>10 DEF Accept!Receive
  <2> DEFINE first == acc.made + 1
             last == acc.made + k
             from == IF acc.accepted_fd = Accept!NoFd THEN first + 1 ELSE first
             fd1 == IF acc.accepted_fd = Accept!NoFd THEN first ELSE acc.accepted_fd
  <2>b0. PICK n \in 0..(last - from + 1) :
             acc' = [[acc EXCEPT !.made = last, !.pc = "callback", !.accepted_fd = IF @ = Accept!NoFd THEN first ELSE @]
                       EXCEPT !.queued = @ \o [i \in 1..n |-> from + i - 1],
                              !.size = Accept!Room(acc.size, Len(acc.queued) + n),
                              !.closed = IF n = last - from + 1 THEN @ ELSE @ \union Accept!Dropped(from + n, last)]
    BY <1>10 DEF Accept!Receive
  <2> DEFINE kept == [i \in 1..n |-> from + i - 1]
             room == Accept!Room(acc.size, Len(acc.queued) + n)
             base == [acc EXCEPT !.made = last, !.pc = "callback", !.accepted_fd = IF @ = Accept!NoFd THEN first ELSE @]
  <2>b1. acc' = [base EXCEPT !.queued = @ \o kept, !.size = room,
                   !.closed = IF n = last - from + 1 THEN @ ELSE @ \union Accept!Dropped(from + n, last)]
    BY <2>b0
  <2>b2. base = [acc EXCEPT !.made = last, !.pc = "callback", !.accepted_fd = fd1]
    OBVIOUS
  <2>c. kept = Following(from, n) /\ room = Accept!Room(acc.size, Len(acc.queued) + n)
    BY DEF Following
  <2>d. PICK cl : cl = (IF n = last - from + 1 THEN acc.closed ELSE acc.closed \union Accept!Dropped(from + n, last))
    OBVIOUS
  <2>m. /\ acc.backlog = 0 /\ acc.made \in Nat /\ acc.made <= MaxFds /\ MaxFds \in Nat /\ k \in Nat \ {0}
        /\ acc.accepted_fd \in 0..MaxFds
    BY <2>g DEF AccTyped, AccConstants, AccKinds
  <2>a. /\ first = acc.made + 1 /\ last = acc.made + k /\ (acc.accepted_fd = 0 => from = first + 1 /\ fd1 = first)
        /\ acc.accepted_fd # 0 => from = first /\ fd1 = acc.accepted_fd
    BY DEF Accept!NoFd
  <2> HIDE DEF first, last, from, fd1, kept, room, base
  <2>n1. /\ first \in Nat \ {0} /\ last \in 0..MaxFds /\ from \in Nat \ {0} /\ last <= MaxFds /\ first <= last
         /\ from >= first /\ from <= first + 1 /\ last - from + 1 \in Nat
    BY <2>a, <2>m, <2>g
  <2>n2. n \in Nat /\ from + n <= last + 1
    BY <2>n1, <2>b0
  <2>n. /\ first \in Nat \ {0} /\ last \in 0..MaxFds /\ from \in Nat \ {0} /\ n \in Nat
        /\ from + n <= last + 1 /\ last <= MaxFds /\ first <= last /\ from >= first /\ from <= first + 1
        /\ acc.backlog = 0 /\ acc.made \in Nat /\ acc.made - acc.backlog = acc.made /\ last - acc.backlog = last
    BY <2>a, <2>m, <2>n1, <2>n2
  <2>k. /\ kept \in Seq(1..MaxFds) /\ Len(kept) = n /\ Distinct(kept)
        /\ \A d : Contains(kept, d) <=> d \in Int /\ from <= d /\ d < from + n
    <3>1. from + n <= MaxFds + 1 /\ MaxFds \in Nat
      BY <2>n, <2>m
    <3> QED BY <2>n, <2>c, <3>1, AccRun
  <2>o. \A d : d \in cl <=> d \in acc.closed \/ (d \in Int /\ from + n <= d /\ d <= last)
    BY <2>d, <2>n DEF Accept!Dropped
  <2>p. \A d : Contains(acc.queued, d) \/ d \in acc.closed \/ Contains(acc.clients, d) \/ (d = acc.accepted_fd /\ d # 0)
                <=> d \in Int /\ 1 <= d /\ d < first
    <3>1. \A d : d \in 1..(acc.made - acc.backlog) <=> d \in Int /\ 1 <= d /\ d < first
      BY <2>a, <2>n
    <3> QED BY <3>1 DEF AccPlaces
  <2>q. /\ acc.queued \o kept \in Seq(1..MaxFds) /\ Distinct(acc.queued \o kept)
        /\ Len(acc.queued \o kept) = Len(acc.queued) + n
        /\ \A d : Contains(acc.queued \o kept, d) <=> Contains(acc.queued, d) \/ Contains(kept, d)
    <3>1. acc.queued \in Seq(1..MaxFds) /\ Distinct(acc.queued)
      BY DEF AccQueues
    <3>2. \A d : ~(Contains(acc.queued, d) /\ Contains(kept, d))
      BY <2>k, <2>p, <2>n
    <3>3. Len(acc.queued \o kept) = Len(acc.queued) + Len(kept)
      BY <2>k, <3>1, ConcatProperties
    <3> QED BY <2>k, <3>1, <3>2, <3>3, ConcatQueue
  <2>r. room \in Nat /\ Len(acc.queued) + n <= room
    <3>1. Len(acc.queued) + n \in Nat /\ acc.size \in Nat
      BY <2>n, LenProperties DEF AccQueues, AccTyped
    <3> QED BY <2>c, <3>1, AccRoom
  <2>f. /\ fd1 \in 1..MaxFds /\ (acc.accepted_fd # 0 => fd1 = acc.accepted_fd /\ from = first)
        /\ acc.accepted_fd = 0 => fd1 = first /\ from = first + 1
    BY <2>a, <2>n, <2>m
  <2>u. /\ DOMAIN acc' = DOMAIN acc /\ acc'.pc = "callback" /\ acc'.accepted_fd = fd1
        /\ acc'.queued = acc.queued \o kept /\ acc'.size = room /\ acc'.made = last
        /\ acc'.closed = cl /\ acc'.ipc = acc.ipc /\ acc'.fd = acc.fd
        /\ acc'.listening = acc.listening /\ acc'.watch = acc.watch
        /\ acc'.reading = acc.reading /\ acc'.closing = acc.closing /\ acc'.name = acc.name
        /\ acc'.backlog = acc.backlog /\ acc'.clients = acc.clients
        /\ acc'.refused = acc.refused
    BY <1>10, <2>b1, <2>b2, <2>d DEF Accept!Receive, AccTyped, AccFields
  <2>s. ~acc.listening /\ ~acc.closing
    BY <2>g DEF AccKinds, AccClosed
  <2>t. \A d : d \in 1..(last - acc.backlog) <=> d \in Int /\ 1 <= d /\ d <= last
    BY <2>n
  <2>v. \A d : d \in Int => (d = fd1 /\ d = first) \/ (d = fd1 /\ 1 <= d /\ d < first) \/ d # fd1
    BY <2>f, <2>p, <2>n
  <2>x. \A d : d \in Int /\ 1 <= d /\ d <= last =>
             \/ d < first \/ d = fd1 \/ (from <= d /\ d < from + n) \/ from + n <= d
    BY <2>f, <2>n, <2>a
  <2>y. \A d : d = fd1 => d \in Int /\ ~(from <= d) /\ 1 <= d /\ d <= last
    <3>1. CASE acc.accepted_fd = 0
      BY <2>f, <2>n, <3>1
    <3>2. CASE acc.accepted_fd # 0
      <4>1. acc.accepted_fd \in Int /\ 1 <= acc.accepted_fd /\ acc.accepted_fd < first
        BY <2>p, <3>2
      <4> QED BY <2>f, <2>n, <3>2, <4>1
    <3> QED BY <3>1, <3>2
  <2>z. \A d : d < first /\ d \in Int => ~(from <= d)
    BY <2>n
  <2>1. (DOMAIN acc = AccFields)'
    BY <2>u
  <2>2. AccTyped'
    BY <2>u, <2>n, <2>r, <2>f DEF AccTyped
  <2>3. AccQueues'
    BY <2>u, <2>q, <2>r, <2>f DEF AccQueues
  <2>4. AccPlaces'
    <3>1. \A d : Contains(acc'.queued, d) <=> Contains(acc.queued, d) \/ (d \in Int /\ from <= d /\ d < from + n)
      BY <2>u, <2>q, <2>k
    <3>2. \A d : d \in acc'.closed <=> d \in acc.closed \/ (d \in Int /\ from + n <= d /\ d <= last)
      BY <2>u, <2>o
    <3>3. acc'.accepted_fd = fd1 /\ acc'.clients = acc.clients /\ acc'.made - acc'.backlog = last
      BY <2>u, <2>n
    <3>4. \A d : Contains(acc.queued, d) \/ d \in acc.closed \/ Contains(acc.clients, d) => d \in Int /\ 1 <= d /\ d < first /\ d # fd1
      <4>1. \A d : Contains(acc.queued, d) \/ d \in acc.closed \/ Contains(acc.clients, d) => d # acc.accepted_fd
        BY DEF AccPlaces
      <4> QED BY <2>p, <2>f, <2>n, <4>1
    <3>5. acc.accepted_fd # 0 => fd1 = acc.accepted_fd /\ fd1 \in Int /\ 1 <= fd1 /\ fd1 < first
      BY <2>f, <2>p
    <3>6. \A d : d \in 1..last <=> Contains(acc.clients, d) \/ d \in acc'.closed \/ (d = fd1 /\ d # 0) \/ Contains(acc'.queued, d)
      <4>1. ASSUME NEW d \in 1..last PROVE Contains(acc.clients, d) \/ d \in acc'.closed \/ (d = fd1 /\ d # 0) \/ Contains(acc'.queued, d)
        <5>1. d \in Int /\ 1 <= d /\ d <= last
          BY <2>n
        <5>2. CASE d < first
          BY <2>p, <2>f, <3>1, <3>2, <5>1, <5>2
        <5>3. CASE ~(d < first)
          BY <2>x, <3>1, <3>2, <5>1, <5>3
        <5> QED BY <5>2, <5>3
      <4>2. ASSUME NEW d, Contains(acc.clients, d) \/ d \in acc'.closed \/ (d = fd1 /\ d # 0) \/ Contains(acc'.queued, d)
            PROVE  d \in 1..last
        BY <2>n, <2>y, <3>1, <3>2, <3>4, <4>2
      <4> QED BY <4>1, <4>2
    <3>7. \A d : Contains(acc.clients, d) => d \notin acc'.closed /\ d # fd1 /\ ~Contains(acc'.queued, d)
      <4>1. \A d : Contains(acc.clients, d) => d \notin acc.closed /\ ~Contains(acc.queued, d)
        BY DEF AccPlaces
      <4> QED BY <2>n, <3>1, <3>2, <3>4, <4>1
    <3>8. \A d : d \in acc'.closed => d # fd1 /\ ~Contains(acc'.queued, d)
      <4>1. \A d : d \in acc.closed => ~Contains(acc.queued, d)
        BY DEF AccPlaces
      <4> QED BY <2>n, <2>y, <3>1, <3>2, <3>4, <4>1
    <3>9. ~Contains(acc'.queued, fd1)
      BY <2>y, <3>1, <3>4
    <3> QED BY <3>3, <3>6, <3>7, <3>8, <3>9 DEF AccPlaces
  <2>5. AccKinds'
    BY <2>u, <2>g, <2>n DEF AccKinds
  <2>6. AccWatched'
    BY <2>u, <2>s DEF AccWatched, AccClosed
  <2>7. AccClosed'
    BY <2>u, <2>s DEF AccClosed
  <2> QED BY <2>1, <2>2, <2>3, <2>4, <2>5, <2>6, <2>7 DEF AccInv
<1>11. ASSUME NEW ok \in BOOLEAN, Accept!AcceptInto(ok) PROVE AccInv'
  <2>g. /\ acc.pc \in {"loop", "callback"} /\ ~acc.closing /\ acc.accepted_fd # 0
    BY <1>11 DEF Accept!AcceptInto, Accept!Program, Accept!NoFd
  <2>p. PICK c, cl, a, q, s :
            /\ c = (IF ok THEN Append(acc.clients, acc.accepted_fd) ELSE acc.clients)
            /\ cl = (IF ok THEN acc.closed ELSE acc.closed \union {acc.accepted_fd})
            /\ a = (IF acc.queued = <<>> THEN Accept!NoFd ELSE Head(acc.queued))
            /\ q = (IF acc.queued = <<>> THEN acc.queued ELSE Accept!WithoutFirst(acc))
            /\ s = (IF Len(acc.queued) <= 1 THEN 0 ELSE acc.size)
    OBVIOUS
  <2>w. PICK w, r \in BOOLEAN : w = Accept!WatchedAgain(acc, ok) /\ r = (acc.refused \/ ~ok)
    BY DEF AccTyped, Accept!WatchedAgain
  <2>x. /\ (w <=> acc.watch \/ (acc.queued = <<>> /\ ok)) /\ (r <=> acc.refused \/ ~ok)
    BY <2>w DEF Accept!WatchedAgain
  <2>u. /\ DOMAIN acc' = DOMAIN acc /\ acc'.watch = w /\ acc'.accepted_fd = a /\ acc'.queued = q
        /\ acc'.size = s /\ acc'.clients = c /\ acc'.closed = cl /\ acc'.refused = r
        /\ acc'.pc = acc.pc /\ acc'.ipc = acc.ipc /\ acc'.fd = acc.fd
        /\ acc'.listening = acc.listening /\ acc'.reading = acc.reading
        /\ acc'.closing = acc.closing /\ acc'.name = acc.name /\ acc'.backlog = acc.backlog
        /\ acc'.made = acc.made
    BY <1>11, <2>p, <2>w DEF Accept!AcceptInto, Accept!WithoutFirst, Accept!WatchedAgain, Accept!NoFd, AccTyped, AccFields
  <2>f. acc.accepted_fd \in 1..MaxFds
    BY <2>g DEF AccTyped
  <2>h. /\ c \in Seq(1..MaxFds) /\ Distinct(c)
        /\ \A d : Contains(c, d) <=> Contains(acc.clients, d) \/ (ok /\ d = acc.accepted_fd)
    <3>1. ~Contains(acc.clients, acc.accepted_fd) /\ acc.clients \in Seq(1..MaxFds) /\ Distinct(acc.clients)
      BY DEF AccPlaces, AccQueues
    <3>2. CASE ok
      <4>1. c = Append(acc.clients, acc.accepted_fd)
        BY <2>p, <3>2
      <4>2. /\ Append(acc.clients, acc.accepted_fd) \in Seq(1..MaxFds) /\ Distinct(Append(acc.clients, acc.accepted_fd))
            /\ \A d : Contains(Append(acc.clients, acc.accepted_fd), d) <=> Contains(acc.clients, d) \/ d = acc.accepted_fd
        BY <2>f, <3>1, AppendedTo
      <4> QED BY <3>2, <4>1, <4>2
    <3>3. CASE ~ok
      BY <2>p, <3>1, <3>3
    <3> QED BY <3>2, <3>3
  <2>i. \A d : d \in cl <=> d \in acc.closed \/ (~ok /\ d = acc.accepted_fd)
    BY <2>p
  <2>j. /\ q \in Seq(1..MaxFds) /\ Distinct(q) /\ (acc.queued = <<>> => a = 0 /\ q = <<>>) /\ (acc.queued # <<>> => a \in 1..MaxFds)
        /\ a \in 0..MaxFds /\ ~Contains(q, a) /\ (a = 0 => q = <<>>)
        /\ \A d : Contains(acc.queued, d) <=> Contains(q, d) \/ (d = a /\ d # 0)
        /\ Len(q) <= s /\ s \in Nat /\ (q # <<>> => acc.queued # <<>>)
    <3>0. acc.queued \in Seq(1..MaxFds) /\ Distinct(acc.queued) /\ Len(acc.queued) <= acc.size /\ acc.size \in Nat /\ MaxFds \in Nat
      BY DEF AccQueues, AccTyped, AccConstants
    <3>1. CASE acc.queued = <<>>
      <4>1. a = 0 /\ q = <<>> /\ s = 0 /\ Len(<<>>) = 0 /\ 0 \in 0..MaxFds
        BY <2>p, <3>0, <3>1 DEF Accept!NoFd
      <4> QED BY <3>0, <3>1, <4>1, EmptyQueue
    <3>2. CASE acc.queued # <<>>
      <4>1. a = Head(acc.queued) /\ q = Tail(acc.queued)
        BY <2>p, <3>2 DEF Accept!WithoutFirst
      <4>2. /\ a \in 1..MaxFds /\ q \in Seq(1..MaxFds) /\ Distinct(q) /\ ~Contains(q, a)
            /\ \A d : Contains(acc.queued, d) <=> Contains(q, d) \/ d = a
        BY <3>0, <3>2, <4>1, TailQueue
      <4>3. Len(q) = Len(acc.queued) - 1 /\ Len(acc.queued) \in Nat /\ Len(q) \in Nat
        BY <3>0, <3>2, <4>1, <4>2, HeadTailProperties, LenProperties
      <4>4. Len(q) <= s /\ s \in Nat
        BY <2>p, <3>0, <4>3
      <4> QED BY <3>0, <3>2, <4>2, <4>4
    <3> QED BY <3>1, <3>2
  <2>k. acc.listening => acc.queued = <<>>
    BY DEF AccKinds
  <2>e. acc.ipc \/ acc.listening
    BY <2>g DEF AccKinds
  <2>1. (DOMAIN acc = AccFields)'
    BY <2>u
  <2>2. AccTyped'
    BY <2>u, <2>h, <2>j DEF AccTyped
  <2>3. AccQueues'
    BY <2>u, <2>h, <2>j DEF AccQueues
  <2>4. AccPlaces'
    <3>1. acc'.clients = c /\ acc'.closed = cl /\ acc'.accepted_fd = a /\ acc'.queued = q /\ acc'.made - acc'.backlog = acc.made - acc.backlog
      BY <2>u
    <3>2. \A d : d \in 1..(acc.made - acc.backlog) <=> Contains(c, d) \/ d \in cl \/ (d = a /\ d # 0) \/ Contains(q, d)
      BY <2>h, <2>i, <2>j, <2>f DEF AccPlaces
    <3>3. \A d : Contains(c, d) => d \notin cl /\ d # a /\ ~Contains(q, d)
      BY <2>h, <2>i, <2>j, <2>f DEF AccPlaces
    <3>4. \A d : d \in cl => d # a /\ ~Contains(q, d)
      <4>1. \A d : d \in acc.closed => ~Contains(acc.queued, d) /\ d \in 1..(acc.made - acc.backlog)
        BY DEF AccPlaces
      <4>2. ~Contains(acc.queued, acc.accepted_fd)
        BY DEF AccPlaces
      <4>3. 0 \notin 1..(acc.made - acc.backlog) /\ acc.accepted_fd # 0
        BY <2>g
      <4> QED BY <2>i, <2>j, <4>1, <4>2, <4>3
    <3> QED BY <2>j, <3>1, <3>2, <3>3, <3>4 DEF AccPlaces
  <2>5. AccKinds'
    BY <2>u, <2>j, <2>e DEF AccKinds
  <2>6. AccWatched'
    BY <2>u, <2>j, <2>x, <2>g, <2>k DEF AccWatched, AccClosed
  <2>7. AccClosed'
    BY <2>u, <2>g DEF AccClosed
  <2> QED BY <2>1, <2>2, <2>3, <2>4, <2>5, <2>6, <2>7 DEF AccInv
<1>12. CASE Accept!Close
  <2>p. PICK cl : cl = acc.closed \union Accept!Held(acc) \union Accept!Next1..acc.made
    OBVIOUS
  <2>h. \A d : d \in Accept!Held(acc) <=> (d = acc.accepted_fd /\ d # 0) \/ Contains(acc.queued, d)
    BY SetOfQueue, AccOps DEF Accept!Held, Accept!NoFd, AccQueues
  <2>c. /\ \A d : d \in 1..(acc.made - 0) <=> d \in 1..(acc.made - acc.backlog) \/ d \in Accept!Next1..acc.made
        /\ \A d \in Accept!Next1..acc.made : d \notin 1..(acc.made - acc.backlog) /\ d # 0
    BY DEF Accept!Next1, AccTyped, AccConstants
  <2>d. \A d : d \in cl <=> d \in acc.closed \/ (d = acc.accepted_fd /\ d # 0) \/ Contains(acc.queued, d) \/ d \in Accept!Next1..acc.made
    BY <2>p, <2>h
  <2>z. 0 \notin 1..(acc.made - 0) /\ \A d : ~Contains(<<>>, d)
    BY EmptyQueue
  <2>u. /\ DOMAIN acc' = DOMAIN acc /\ acc'.fd = FALSE /\ acc'.watch = FALSE
        /\ acc'.reading = FALSE /\ acc'.closing = TRUE /\ acc'.name = FALSE /\ acc'.backlog = 0
        /\ acc'.accepted_fd = 0 /\ acc'.queued = <<>> /\ acc'.size = 0 /\ acc'.closed = cl
        /\ acc'.pc = acc.pc /\ acc'.ipc = acc.ipc /\ acc'.listening = acc.listening
        /\ acc'.made = acc.made /\ acc'.clients = acc.clients /\ acc'.refused = acc.refused
    BY <1>12, <2>p DEF Accept!Close, Accept!Program, Accept!NoFd, AccTyped, AccFields
  <2>l. <<>> \in Seq(1..MaxFds) /\ Distinct(<<>>) /\ Len(<<>>) = 0
    BY EmptyQueue
  <2>m. 0 \in 0..MaxFds /\ 0 <= acc.made /\ 0 \in Nat
    BY DEF AccConstants, AccTyped
  <2>1. (DOMAIN acc = AccFields)'
    BY <2>u
  <2>2. AccTyped'
    BY <2>u, <2>m DEF AccTyped
  <2>3. AccQueues'
    BY <2>u, <2>l DEF AccQueues
  <2>4. AccPlaces'
    BY <2>u, <2>c, <2>d, <2>z DEF AccPlaces
  <2>5. AccKinds'
    BY <2>u DEF AccKinds
  <2>6. AccWatched'
    BY <2>u DEF AccWatched, AccClosed
  <2>7. AccClosed'
    BY <2>u DEF AccClosed
  <2> QED BY <2>1, <2>2, <2>3, <2>4, <2>5, <2>6, <2>7 DEF AccInv
<1> QED BY <1>1, <1>2, <1>3, <1>4, <1>5, <1>6, <1>7, <1>8, <1>9, <1>10, <1>11, <1>12 DEF Accept!Next

\* A queue without repetition has as many elements as its length.
LEMMA CountQueue ==
    ASSUME NEW S, NEW q \in Seq(S), Distinct(q)
    PROVE  /\ IsFiniteSet(Range(q)) /\ Cardinality(Range(q)) = Len(q)
           /\ \A y : y \in Range(q) <=> Contains(q, y)
<1>1. Len(q) \in Nat /\ DOMAIN q = 1..Len(q) /\ \A i \in 1..Len(q) : q[i] \in Range(q)
  BY LenProperties DEF Range
<1>2. \A y : y \in Range(q) <=> \E i \in 1..Len(q) : q[i] = y
  BY SetOfQueue DEF Contains
<1>3. q \in Bijection(1..Len(q), Range(q))
  <2>1. q \in [1..Len(q) -> Range(q)]
    BY <1>1
  <2> QED BY <1>2, <2>1 DEF Bijection, Injection, Surjection, Distinct, IsInjective
<1>4. ExistsBijection(1..Len(q), Range(q))
  BY <1>3 DEF ExistsBijection
<1>5. IsFiniteSet(Range(q))
  BY <1>1, <1>4, FS_NatBijection
<1>6. Cardinality(Range(q)) = Len(q)
  BY <1>1, <1>4, FS_CountingElements
<1> QED BY <1>5, <1>6, SetOfQueue

LEMMA AccKeeps ==
    ASSUME AccConstants, AccInv
    PROVE  Accept!TypeOK /\ Accept!NoDescriptorLost /\ Accept!AssertsHold /\ Accept!NothingStranded /\ Accept!ClosedIsClean
<1> DOMAIN acc = AccFields /\ AccTyped /\ AccQueues /\ AccPlaces /\ AccKinds /\ AccWatched /\ AccClosed
  BY DEF AccInv
<1>1. /\ \A y : y \in Accept!Range(acc.queued) <=> Contains(acc.queued, y)
      /\ \A y : y \in Accept!Range(acc.clients) <=> Contains(acc.clients, y)
      /\ \A y : Contains(acc.queued, y) => y \in 1..MaxFds
  BY SetOfQueue, RangeQueue, AccOps DEF AccQueues
<1>2. \A d : d \in Accept!Held(acc) <=> (d = acc.accepted_fd /\ d # 0) \/ Contains(acc.queued, d)
  BY <1>1 DEF Accept!Held, Accept!NoFd
<1>3. PICK m \in Nat : m = acc.made - acc.backlog /\ m <= MaxFds /\ Accept!Next1 - 1 = m
  BY DEF AccTyped, AccConstants, Accept!Next1
<1>4. Accept!TypeOK
  <2>1. \A d \in acc.closed : d \in 1..MaxFds
    BY <1>3 DEF AccPlaces, AccConstants
  <2>2. acc.backlog \in 0..MaxFds
    BY DEF AccTyped, AccConstants
  <2>3. acc.accepted_fd \in 1..MaxFds \union {0}
    BY DEF AccTyped, AccConstants
  <2> QED BY <1>1, <2>1, <2>2, <2>3 DEF Accept!TypeOK, AccTyped, AccQueues, Accept!Descriptors, Accept!NoFd
<1>5. Accept!NoDescriptorLost
  <2>1. Accept!Range(acc.clients) \union acc.closed \union Accept!Held(acc) = 1..m
    BY <1>1, <1>2, <1>3 DEF AccPlaces
  <2> DEFINE C == Accept!Range(acc.clients)
             H == Accept!Held(acc)
  <2>2. IsFiniteSet(1..m) /\ Cardinality(1..m) = m
    BY FS_Interval
  <2>3. IsFiniteSet(C) /\ IsFiniteSet(acc.closed) /\ IsFiniteSet(H)
    BY <2>1, <2>2, FS_Subset
  <2>4. C \cap acc.closed = {} /\ (C \union acc.closed) \cap H = {}
    BY <1>1, <1>2 DEF AccPlaces
  <2>5. Cardinality(C) = Len(acc.clients)
    BY CountQueue, AccOps DEF AccQueues
  <2>10. (C \union acc.closed) \union H = 1..m
    BY <2>1
  <2>11. C \cap acc.closed = {} /\ (C \union acc.closed) \cap H = {}
    BY <2>4
  <2>12. IsFiniteSet(C) /\ IsFiniteSet(H) /\ Cardinality(C) = Len(acc.clients)
    BY <2>3, <2>5
  <2> HIDE DEF C, H
  <2>6. /\ IsFiniteSet(C \union acc.closed)
        /\ Cardinality(C \union acc.closed) = Cardinality(C) + Cardinality(acc.closed) - Cardinality(C \cap acc.closed)
    BY <2>3, <2>12, FS_Union
  <2>7. Cardinality((C \union acc.closed) \union H)
          = Cardinality(C \union acc.closed) + Cardinality(H) - Cardinality((C \union acc.closed) \cap H)
    BY <2>3, <2>6, <2>12, FS_Union
  <2>8. Cardinality({}) = 0 /\ Cardinality(C) \in Nat /\ Cardinality(acc.closed) \in Nat /\ Cardinality(H) \in Nat
    BY <2>3, <2>12, FS_EmptySet, FS_CardinalityType
  <2>9. Len(acc.clients) + Cardinality(acc.closed) + Cardinality(H) = m
    <3>1. Cardinality(C \union acc.closed) = Cardinality(C) + Cardinality(acc.closed)
      <4>1. Cardinality(C \cap acc.closed) = 0
        BY <2>8, <2>11
      <4>2. \A a, b, c, d \in Int : a = b + c - d /\ d = 0 => a = b + c
        OBVIOUS
      <4>3. Cardinality(C) + Cardinality(acc.closed) - 0 \in Int
        BY <2>8
      <4> QED BY <2>6, <2>8, <4>1, <4>3
    <3>2. Cardinality((C \union acc.closed) \union H) = Cardinality(C \union acc.closed) + Cardinality(H)
      <4>1. Cardinality(C \union acc.closed) \in Nat
        BY <2>8, <3>1
      <4>2. Cardinality((C \union acc.closed) \cap H) = 0
        BY <2>8, <2>11
      <4> QED BY <2>7, <2>8, <4>1, <4>2
    <3>3. Cardinality((C \union acc.closed) \union H) = m
      BY <2>2, <2>10
    <3> QED BY <2>8, <2>12, <3>1, <3>2, <3>3
  <2>13. Len(acc.queued) > 0 => acc.accepted_fd # Accept!NoFd
    <3>1. Len(<<>>) = 0
      OBVIOUS
    <3> QED BY <3>1 DEF AccQueues, Accept!NoFd
  <2> QED BY <1>3, <2>1, <2>9, <2>13, AccOps DEF Accept!NoDescriptorLost, C, H
<1>6. Accept!AssertsHold
  BY DEF Accept!AssertsHold, AccWatched, AccClosed, Accept!NoFd
<1>7. Accept!NothingStranded
  BY DEF Accept!NothingStranded, AccWatched, Accept!NoFd
<1>8. Accept!ClosedIsClean
  BY <1>2, EmptyQueue DEF Accept!ClosedIsClean, AccClosed
<1> QED BY <1>4, <1>5, <1>6, <1>7, <1>8

LEMMA AccChanges ==
    ASSUME AccConstants, AccInv, [Accept!Next]_acc
    PROVE  AccInv'
<1>1. CASE Accept!Next
  BY <1>1, AccStep
<1>2. CASE UNCHANGED acc
  BY <1>2 DEF AccInv, AccClosed, AccKinds, AccPlaces, AccQueues, AccTyped, AccWatched
<1> QED BY <1>1, <1>2

\* Accepting, for any number of connections and any growth of the queue: every descriptor the
\* kernel gave is with a client, closed or held by the handle, exactly once; the assertions hold; a
\* connection that waits will be seen; closing closes all that was not taken.
THEOREM AcceptCorrect ==
    ASSUME AccConstants
    PROVE  Accept!Spec => [](Accept!TypeOK /\ Accept!NoDescriptorLost /\ Accept!AssertsHold /\
                             Accept!NothingStranded /\ Accept!ClosedIsClean)
<1>1. ASSUME Accept!Init PROVE AccInv
  BY <1>1, AccBegins
<1>2. ASSUME AccInv, [Accept!Next]_acc PROVE AccInv'
  BY <1>2, AccChanges
<1>3. AccInv => Accept!TypeOK /\ Accept!NoDescriptorLost /\ Accept!AssertsHold /\
              Accept!NothingStranded /\ Accept!ClosedIsClean
  BY AccKeeps
<1> QED BY <1>1, <1>2, <1>3, PTL DEF Accept!Spec

-----------------------------------------------------------------------------
(* The select thread *)

SelConstants == ReadBuf \in Nat \ {0} /\ MaxBytes \in Nat

SelState ==
    [tpc : {"top", "select", "drain", "report", "wait", "exit"},
     asked : SUBSET Select!Events, events : SUBSET Select!Events,
     close_sem : Nat, async_sem : Nat, bytes : Nat, async : BOOLEAN,
     ready : SUBSET Select!Events, watch : SUBSET Select!Events, todo : SUBSET Select!Events,
     lpc : {"program", "interrupt", "in", "out", "post", "close2", "close3", "join", "closed"},
     closing : BOOLEAN, broken : BOOLEAN]

\* Until the stream is closed the events are in one hand: with the thread, posted to the loop,
\* being handled, or handled and the thread told.
SelTurns == ~sel.closing =>
    /\ sel.close_sem = 0 /\ sel.tpc # "exit"
    /\ sel.lpc \in {"program", "interrupt", "in", "out", "post"}
    /\ \/ sel.tpc # "wait" /\ sel.events = {} /\ ~sel.async /\ sel.async_sem = 0
             /\ sel.lpc \in {"program", "interrupt"}
       \/ sel.tpc = "wait" /\ sel.events # {} /\ sel.async /\ sel.async_sem = 0
             /\ sel.lpc \in {"program", "interrupt"}
       \/ sel.tpc = "wait" /\ sel.events = {} /\ ~sel.async /\ sel.async_sem = 0
             /\ sel.lpc \in {"in", "out", "post"}
       \/ sel.tpc = "wait" /\ sel.events = {} /\ ~sel.async /\ sel.async_sem = 1
             /\ sel.lpc \in {"program", "interrupt"}

\* Afterwards the thread may wait once more, and then leaves.
SelLeaves == sel.closing =>
    /\ sel.lpc \in {"close2", "close3", "join", "closed"}
    /\ sel.close_sem = (IF sel.tpc = "exit" THEN 0 ELSE 1)
    /\ IF sel.lpc = "close2" THEN sel.async_sem <= 1
       ELSE /\ sel.async_sem <= 2
            /\ sel.tpc \in {"select", "drain", "report", "wait"} => sel.async_sem >= 1

SelBytes ==
    sel.bytes <= IF sel.lpc = "interrupt" THEN MaxBytes - 1
                 ELSE IF sel.lpc = "join" THEN MaxBytes + 1 ELSE MaxBytes

SelInv ==
    /\ sel \in SelState /\ SelTurns /\ SelLeaves /\ SelBytes
    /\ ~sel.broken /\ Select!NothingStranded

LEMMA SelSecond ==
    (CHOOSE s \in {"close_sem", "async_sem"} : s # Select!FirstSem) = "async_sem"
  BY DEF Select!FirstSem

LEMMA SelInit0 ==
    ASSUME SelConstants, Select!Init
    PROVE  SelInv
  BY DEF SelConstants, Select!Init, SelInv, SelState, SelTurns, SelLeaves, SelBytes,
         Select!NothingStranded, Select!Events

LEMMA SelThread ==
    ASSUME SelConstants, SelInv, Select!Thread
    PROVE  SelInv'
<1> sel \in SelState /\ SelTurns /\ SelLeaves /\ SelBytes /\ ~sel.broken /\ Select!NothingStranded
  BY DEF SelInv
<1>1. CASE Select!Top
  <2>1. (sel \in SelState)'
    <3>1. CASE sel.close_sem > 0
      <4>1. PICK k \in Nat : k = sel.close_sem - 1
        BY <3>1 DEF SelState
      <4>2. sel' = [sel EXCEPT !.tpc = "exit", !.close_sem = k]
        BY <1>1, <3>1, <4>1 DEF Select!Top
      <4> QED BY <4>2 DEF SelState
    <3>2. CASE ~(sel.close_sem > 0)
      <4>1. sel' = [sel EXCEPT !.tpc = "select", !.asked = sel.watch]
        BY <1>1, <3>2 DEF Select!Top
      <4> QED BY <4>1 DEF SelState
    <3> QED BY <3>1, <3>2
  <2>2. SelTurns'
    BY <1>1, SelConstants DEF SelState, SelConstants, Select!Top, SelTurns
  <2>3. SelLeaves'
    BY <1>1, SelConstants DEF SelState, SelConstants, Select!Top, SelTurns, SelLeaves
  <2>4. SelBytes'
    BY <1>1, SelConstants DEF SelState, SelConstants, Select!Top, SelTurns, SelBytes
  <2>5. (~sel.broken)'
    BY <1>1, SelConstants DEF SelState, SelConstants, Select!Top, SelTurns
  <2>6. Select!NothingStranded'
    BY <1>1, SelConstants DEF SelState, SelConstants, Select!Top, Select!NothingStranded, SelTurns
  <2> QED BY <2>1, <2>2, <2>3, <2>4, <2>5, <2>6 DEF SelInv
<1>2. CASE Select!Select
  <2>1. (sel \in SelState)'
    BY <1>2, SelConstants DEF SelState, SelConstants, Select!Select, SelTurns, SelLeaves, SelBytes
  <2>2. SelTurns'
    BY <1>2, SelConstants DEF SelState, SelConstants, Select!Select, SelTurns
  <2>3. SelLeaves'
    BY <1>2, SelConstants DEF SelState, SelConstants, Select!Select, SelTurns, SelLeaves
  <2>4. SelBytes'
    BY <1>2, SelConstants DEF SelState, SelConstants, Select!Select, SelTurns, SelBytes
  <2>5. (~sel.broken)'
    BY <1>2, SelConstants DEF SelState, SelConstants, Select!Select, SelTurns
  <2>6. Select!NothingStranded'
    BY <1>2, SelConstants DEF SelState, SelConstants, Select!Select, Select!NothingStranded, SelTurns
  <2> QED BY <2>1, <2>2, <2>3, <2>4, <2>5, <2>6 DEF SelInv
<1>3. CASE Select!Drain
  <2>1. (sel \in SelState)'
    <3>1. PICK k \in Nat : k = sel.bytes - Select!Reads
      BY <1>3 DEF SelState, SelConstants, Select!Drain, Select!Reads
    <3>2. PICK t \in {"drain", "report"} : sel' = [sel EXCEPT !.bytes = k, !.tpc = t]
      BY <1>3, <3>1 DEF Select!Drain
    <3> QED BY <3>2 DEF SelState
  <2>2. SelTurns'
    BY <1>3, SelConstants DEF SelState, SelConstants, Select!Drain, Select!Reads, SelTurns
  <2>3. SelLeaves'
    BY <1>3, SelConstants DEF SelState, SelConstants, Select!Drain, Select!Reads, SelTurns, SelLeaves
  <2>4. SelBytes'
    BY <1>3, SelConstants DEF SelState, SelConstants, Select!Drain, Select!Reads, SelTurns, SelBytes
  <2>5. (~sel.broken)'
    BY <1>3, SelConstants DEF SelState, SelConstants, Select!Drain, Select!Reads, SelTurns
  <2>6. Select!NothingStranded'
    BY <1>3, SelConstants DEF SelState, SelConstants, Select!Drain, Select!Reads, Select!NothingStranded, SelTurns
  <2> QED BY <2>1, <2>2, <2>3, <2>4, <2>5, <2>6 DEF SelInv
<1>4. CASE Select!Report
  <2>1. (sel \in SelState)'
    BY <1>4, SelConstants DEF SelState, SelConstants, Select!Report, SelTurns, SelLeaves, SelBytes
  <2>2. SelTurns'
    BY <1>4, SelConstants DEF SelState, SelConstants, Select!Report, SelTurns
  <2>3. SelLeaves'
    BY <1>4, SelConstants DEF SelState, SelConstants, Select!Report, SelTurns, SelLeaves
  <2>4. SelBytes'
    BY <1>4, SelConstants DEF SelState, SelConstants, Select!Report, SelTurns, SelBytes
  <2>5. (~sel.broken)'
    BY <1>4, SelConstants DEF SelState, SelConstants, Select!Report, SelTurns
  <2>6. Select!NothingStranded'
    BY <1>4, SelConstants DEF SelState, SelConstants, Select!Report, Select!NothingStranded, SelTurns
  <2> QED BY <2>1, <2>2, <2>3, <2>4, <2>5, <2>6 DEF SelInv
<1>5. CASE Select!Wait
  <2>1. (sel \in SelState)'
    <3>1. PICK k \in Nat : k = sel.async_sem - 1
      BY <1>5 DEF SelState, Select!Wait
    <3>2. PICK b \in BOOLEAN : sel' = [sel EXCEPT !.async_sem = k, !.tpc = "top", !.broken = b]
      BY <1>5, <3>1 DEF Select!Wait
    <3> QED BY <3>2 DEF SelState
  <2>2. SelTurns'
    BY <1>5, SelConstants DEF SelState, SelConstants, Select!Wait, SelTurns
  <2>3. SelLeaves'
    BY <1>5, SelConstants DEF SelState, SelConstants, Select!Wait, SelTurns, SelLeaves
  <2>4. SelBytes'
    BY <1>5, SelConstants DEF SelState, SelConstants, Select!Wait, SelTurns, SelBytes
  <2>5. (~sel.broken)'
    BY <1>5, SelConstants DEF SelState, SelConstants, Select!Wait, SelTurns
  <2>6. Select!NothingStranded'
    BY <1>5, SelConstants DEF SelState, SelConstants, Select!Wait, Select!NothingStranded, SelTurns
  <2> QED BY <2>1, <2>2, <2>3, <2>4, <2>5, <2>6 DEF SelInv
<1> QED BY <1>1, <1>2, <1>3, <1>4, <1>5 DEF Select!Thread

LEMMA SelLoop ==
    ASSUME SelConstants, SelInv,
           Select!LoopThread \/ Select!Close
               \/ \E e \in Select!Events : Select!Watch(e) \/ Select!Ready(e)
    PROVE  SelInv'
<1> sel \in SelState /\ SelTurns /\ SelLeaves /\ SelBytes /\ ~sel.broken /\ Select!NothingStranded
  BY DEF SelInv
<1>1. CASE Select!Interrupt
  <2>1. (sel \in SelState)'
    <3>1. PICK k \in Nat : k = sel.bytes + 1
      BY DEF SelState
    <3>2. sel' = [sel EXCEPT !.bytes = k, !.lpc = "program"]
      BY <1>1, <3>1 DEF Select!Interrupt
    <3> QED BY <3>2 DEF SelState
  <2>2. SelTurns'
    BY <1>1, SelConstants DEF SelState, SelConstants, Select!Interrupt, SelTurns
  <2>3. SelLeaves'
    BY <1>1, SelConstants DEF SelState, SelConstants, Select!Interrupt, SelTurns, SelLeaves
  <2>4. SelBytes'
    BY <1>1, SelConstants DEF SelState, SelConstants, Select!Interrupt, SelTurns, SelBytes
  <2>5. (~sel.broken)'
    BY <1>1, SelConstants DEF SelState, SelConstants, Select!Interrupt, SelTurns
  <2>6. Select!NothingStranded'
    BY <1>1, SelConstants DEF SelState, SelConstants, Select!Interrupt, Select!NothingStranded, SelTurns
  <2> QED BY <2>1, <2>2, <2>3, <2>4, <2>5, <2>6 DEF SelInv
<1>2. CASE Select!SelectCb
  <2>1. (sel \in SelState)'
    BY <1>2, SelConstants DEF SelState, SelConstants, Select!SelectCb, SelTurns, SelLeaves, SelBytes
  <2>2. SelTurns'
    BY <1>2, SelConstants DEF SelState, SelConstants, Select!SelectCb, SelTurns
  <2>3. SelLeaves'
    BY <1>2, SelConstants DEF SelState, SelConstants, Select!SelectCb, SelTurns, SelLeaves
  <2>4. SelBytes'
    BY <1>2, SelConstants DEF SelState, SelConstants, Select!SelectCb, SelTurns, SelBytes
  <2>5. (~sel.broken)'
    BY <1>2, SelConstants DEF SelState, SelConstants, Select!SelectCb, SelTurns
  <2>6. Select!NothingStranded'
    BY <1>2, SelConstants DEF SelState, SelConstants, Select!SelectCb, Select!NothingStranded, SelTurns
  <2> QED BY <2>1, <2>2, <2>3, <2>4, <2>5, <2>6 DEF SelInv
<1>3. CASE Select!HandleIn
  <2>1. (sel \in SelState)'
    <3>1. PICK w \in SUBSET Select!Events, r \in SUBSET Select!Events :
            sel' = [sel EXCEPT !.ready = r, !.watch = w, !.lpc = "out"]
      BY <1>3 DEF SelState, Select!HandleIn, Select!Handle
    <3> QED BY <3>1 DEF SelState
  <2>2. SelTurns'
    BY <1>3, SelConstants DEF SelState, SelConstants, Select!HandleIn, Select!Handle, Select!Events, SelTurns
  <2>3. SelLeaves'
    BY <1>3, SelConstants DEF SelState, SelConstants, Select!HandleIn, Select!Handle, Select!Events, SelTurns, SelLeaves
  <2>4. SelBytes'
    BY <1>3, SelConstants DEF SelState, SelConstants, Select!HandleIn, Select!Handle, Select!Events, SelTurns, SelBytes
  <2>5. (~sel.broken)'
    BY <1>3, SelConstants DEF SelState, SelConstants, Select!HandleIn, Select!Handle, Select!Events, SelTurns
  <2>6. Select!NothingStranded'
    BY <1>3, SelConstants DEF SelState, SelConstants, Select!HandleIn, Select!Handle, Select!Events, Select!NothingStranded, SelTurns
  <2> QED BY <2>1, <2>2, <2>3, <2>4, <2>5, <2>6 DEF SelInv
<1>4. CASE Select!HandleOut
  <2>1. (sel \in SelState)'
    <3>1. PICK w \in SUBSET Select!Events, r \in SUBSET Select!Events :
            sel' = [sel EXCEPT !.ready = r, !.watch = w, !.lpc = "post"]
      BY <1>4 DEF SelState, Select!HandleOut, Select!Handle
    <3> QED BY <3>1 DEF SelState
  <2>2. SelTurns'
    BY <1>4, SelConstants DEF SelState, SelConstants, Select!HandleOut, Select!Handle, Select!Events, SelTurns
  <2>3. SelLeaves'
    BY <1>4, SelConstants DEF SelState, SelConstants, Select!HandleOut, Select!Handle, Select!Events, SelTurns, SelLeaves
  <2>4. SelBytes'
    BY <1>4, SelConstants DEF SelState, SelConstants, Select!HandleOut, Select!Handle, Select!Events, SelTurns, SelBytes
  <2>5. (~sel.broken)'
    BY <1>4, SelConstants DEF SelState, SelConstants, Select!HandleOut, Select!Handle, Select!Events, SelTurns
  <2>6. Select!NothingStranded'
    BY <1>4, SelConstants DEF SelState, SelConstants, Select!HandleOut, Select!Handle, Select!Events, Select!NothingStranded, SelTurns
  <2> QED BY <2>1, <2>2, <2>3, <2>4, <2>5, <2>6 DEF SelInv
<1>5. CASE Select!Post
  <2>1. (sel \in SelState)'
    <3>1. PICK k \in Nat : k = sel.async_sem + 1
      BY DEF SelState
    <3>2. sel' = [sel EXCEPT !.async_sem = k, !.lpc = "program"]
      BY <1>5, <3>1 DEF Select!Post
    <3> QED BY <3>2 DEF SelState
  <2>2. SelTurns'
    BY <1>5, SelConstants DEF SelState, SelConstants, Select!Post, SelTurns
  <2>3. SelLeaves'
    BY <1>5, SelConstants DEF SelState, SelConstants, Select!Post, SelTurns, SelLeaves
  <2>4. SelBytes'
    BY <1>5, SelConstants DEF SelState, SelConstants, Select!Post, SelTurns, SelBytes
  <2>5. (~sel.broken)'
    BY <1>5, SelConstants DEF SelState, SelConstants, Select!Post, SelTurns
  <2>6. Select!NothingStranded'
    BY <1>5, SelConstants DEF SelState, SelConstants, Select!Post, Select!NothingStranded, SelTurns
  <2> QED BY <2>1, <2>2, <2>3, <2>4, <2>5, <2>6 DEF SelInv
<1>6. CASE Select!CloseSem
  <2>1. (sel \in SelState)'
    <3>1. PICK k \in Nat : k = sel.async_sem + 1
      BY DEF SelState
    <3>2. sel' = [sel EXCEPT !.async_sem = k, !.lpc = "close3"]
      BY <1>6, <3>1, SelSecond DEF Select!CloseSem
    <3> QED BY <3>2 DEF SelState
  <2>2. SelTurns'
    <3>1. sel.closing
      BY <1>6 DEF Select!CloseSem, SelTurns
    <3>2. sel'.closing = sel.closing
      BY <1>6, SelSecond DEF Select!CloseSem, SelState
    <3> QED BY <3>1, <3>2 DEF SelTurns
  <2>3. SelLeaves'
    <3>1. sel.closing /\ sel.lpc = "close2" /\ sel.async_sem <= 1 /\ sel.close_sem = (IF sel.tpc = "exit" THEN 0 ELSE 1)
      BY <1>6 DEF Select!CloseSem, SelTurns, SelLeaves
    <3>2. PICK k \in Nat : k = sel.async_sem + 1 /\ 1 <= k /\ k <= 2
      BY <3>1 DEF SelState
    <3>3. /\ sel'.closing = sel.closing /\ sel'.lpc = "close3" /\ sel'.async_sem = k
          /\ sel'.tpc = sel.tpc /\ sel'.close_sem = sel.close_sem
      BY <1>6, <3>2, SelSecond DEF Select!CloseSem, SelState
    <3> QED BY <3>1, <3>2, <3>3 DEF SelLeaves
  <2>4. SelBytes'
    BY <1>6, SelConstants, SelSecond DEF SelState, SelConstants, Select!CloseSem, SelTurns, SelBytes
  <2>5. (~sel.broken)'
    BY <1>6, SelConstants, SelSecond DEF SelState, SelConstants, Select!CloseSem, SelTurns
  <2>6. Select!NothingStranded'
    BY <1>6, SelConstants, SelSecond DEF SelState, SelConstants, Select!CloseSem, Select!NothingStranded, SelTurns
  <2> QED BY <2>1, <2>2, <2>3, <2>4, <2>5, <2>6 DEF SelInv
<1>7. CASE Select!CloseInterrupt
  <2>1. (sel \in SelState)'
    <3>1. PICK k \in Nat : k = sel.bytes + 1
      BY DEF SelState
    <3>2. sel' = [sel EXCEPT !.bytes = k, !.lpc = "join"]
      BY <1>7, <3>1 DEF Select!CloseInterrupt
    <3> QED BY <3>2 DEF SelState
  <2>2. SelTurns'
    BY <1>7, SelConstants DEF SelState, SelConstants, Select!CloseInterrupt, SelTurns
  <2>3. SelLeaves'
    BY <1>7, SelConstants DEF SelState, SelConstants, Select!CloseInterrupt, SelTurns, SelLeaves
  <2>4. SelBytes'
    BY <1>7, SelConstants DEF SelState, SelConstants, Select!CloseInterrupt, SelTurns, SelBytes
  <2>5. (~sel.broken)'
    BY <1>7, SelConstants DEF SelState, SelConstants, Select!CloseInterrupt, SelTurns
  <2>6. Select!NothingStranded'
    BY <1>7, SelConstants DEF SelState, SelConstants, Select!CloseInterrupt, Select!NothingStranded, SelTurns
  <2> QED BY <2>1, <2>2, <2>3, <2>4, <2>5, <2>6 DEF SelInv
<1>8. CASE Select!Join
  <2>1. (sel \in SelState)'
    BY <1>8, SelConstants DEF SelState, SelConstants, Select!Join, SelTurns, SelLeaves, SelBytes
  <2>2. SelTurns'
    BY <1>8, SelConstants DEF SelState, SelConstants, Select!Join, SelTurns
  <2>3. SelLeaves'
    BY <1>8, SelConstants DEF SelState, SelConstants, Select!Join, SelTurns, SelLeaves
  <2>4. SelBytes'
    BY <1>8, SelConstants DEF SelState, SelConstants, Select!Join, SelTurns, SelBytes
  <2>5. (~sel.broken)'
    BY <1>8, SelConstants DEF SelState, SelConstants, Select!Join, SelTurns
  <2>6. Select!NothingStranded'
    BY <1>8, SelConstants DEF SelState, SelConstants, Select!Join, Select!NothingStranded, SelTurns
  <2> QED BY <2>1, <2>2, <2>3, <2>4, <2>5, <2>6 DEF SelInv
<1>9. CASE Select!Close
  <2>1. (sel \in SelState)'
    <3>1. PICK k \in Nat : k = sel.close_sem + 1
      BY DEF SelState
    <3>2. sel' = [sel EXCEPT !.closing = TRUE, !.close_sem = k, !.lpc = "close2"]
      BY <1>9, <3>1 DEF Select!Close, Select!FirstSem
    <3> QED BY <3>2 DEF SelState
  <2>2. SelTurns'
    BY <1>9, SelConstants DEF SelState, SelConstants, Select!Close, Select!Program, Select!FirstSem, SelTurns
  <2>3. SelLeaves'
    BY <1>9, SelConstants DEF SelState, SelConstants, Select!Close, Select!Program, Select!FirstSem, SelTurns, SelLeaves
  <2>4. SelBytes'
    BY <1>9, SelConstants DEF SelState, SelConstants, Select!Close, Select!Program, Select!FirstSem, SelTurns, SelBytes
  <2>5. (~sel.broken)'
    BY <1>9, SelConstants DEF SelState, SelConstants, Select!Close, Select!Program, Select!FirstSem, SelTurns
  <2>6. Select!NothingStranded'
    BY <1>9, SelConstants DEF SelState, SelConstants, Select!Close, Select!Program, Select!FirstSem, Select!NothingStranded, SelTurns
  <2> QED BY <2>1, <2>2, <2>3, <2>4, <2>5, <2>6 DEF SelInv
<1>10. ASSUME NEW e \in Select!Events, Select!Watch(e) PROVE SelInv'
  <2>1. (sel \in SelState)'
    <3>1. PICK w \in SUBSET Select!Events : sel' = [sel EXCEPT !.lpc = "interrupt", !.watch = w]
      BY <1>10 DEF SelState, Select!Watch
    <3> QED BY <3>1 DEF SelState
  <2>2. SelTurns'
    BY <1>10, SelConstants DEF SelState, SelConstants, Select!Watch, Select!Program, SelTurns
  <2>3. SelLeaves'
    BY <1>10, SelConstants DEF SelState, SelConstants, Select!Watch, Select!Program, SelTurns, SelLeaves
  <2>4. SelBytes'
    <3>1. sel.lpc = "program" /\ sel.bytes < MaxBytes /\ sel.bytes \in Nat /\ MaxBytes \in Nat
      BY <1>10 DEF Select!Watch, SelState, SelConstants
    <3>2. sel'.lpc = "interrupt" /\ sel'.bytes = sel.bytes
      BY <1>10 DEF Select!Watch, SelState
    <3> QED BY <3>1, <3>2 DEF SelBytes
  <2>5. (~sel.broken)'
    BY <1>10, SelConstants DEF SelState, SelConstants, Select!Watch, Select!Program, SelTurns
  <2>6. Select!NothingStranded'
    BY <1>10, SelConstants DEF SelState, SelConstants, Select!Watch, Select!Program, Select!NothingStranded, SelTurns
  <2> QED BY <2>1, <2>2, <2>3, <2>4, <2>5, <2>6 DEF SelInv
<1>11. ASSUME NEW e \in Select!Events, Select!Ready(e) PROVE SelInv'
  <2>1. (sel \in SelState)'
    BY <1>11, SelConstants DEF SelState, SelConstants, Select!Ready, SelTurns, SelLeaves, SelBytes
  <2>2. SelTurns'
    BY <1>11, SelConstants DEF SelState, SelConstants, Select!Ready, SelTurns
  <2>3. SelLeaves'
    BY <1>11, SelConstants DEF SelState, SelConstants, Select!Ready, SelTurns, SelLeaves
  <2>4. SelBytes'
    BY <1>11, SelConstants DEF SelState, SelConstants, Select!Ready, SelTurns, SelBytes
  <2>5. (~sel.broken)'
    BY <1>11, SelConstants DEF SelState, SelConstants, Select!Ready, SelTurns
  <2>6. Select!NothingStranded'
    BY <1>11, SelConstants DEF SelState, SelConstants, Select!Ready, Select!NothingStranded, SelTurns
  <2> QED BY <2>1, <2>2, <2>3, <2>4, <2>5, <2>6 DEF SelInv
<1> QED BY <1>1, <1>2, <1>3, <1>4, <1>5, <1>6, <1>7, <1>8, <1>9, <1>10, <1>11 DEF Select!LoopThread

LEMMA SelStep ==
    ASSUME SelConstants, SelInv, Select!Next
    PROVE  SelInv'
  BY SelThread, SelLoop DEF Select!Next

LEMMA SelKeeps ==
    ASSUME SelConstants, SelInv
    PROVE  Select!TypeOK /\ Select!AssertsHold /\ Select!NothingStranded /\ Select!HandsOver
  BY DEF SelConstants, SelInv, SelState, SelTurns, SelLeaves, SelBytes,
         Select!TypeOK, Select!AssertsHold, Select!HandsOver

LEMMA SelChanges ==
    ASSUME SelConstants, SelInv, [Select!Next]_sel
    PROVE  SelInv'
<1>1. CASE Select!Next
  BY <1>1, SelStep
<1>2. CASE UNCHANGED sel
  BY <1>2 DEF SelInv, SelBytes, SelLeaves, SelTurns, Select!NothingStranded
<1> QED BY <1>1, <1>2

\* The select thread, for any buffer and any number of bytes: neither thread waits for the other
\* in vain, and each of the events asked for is handed over, whatever wakes either of them.
THEOREM SelectCorrect ==
    ASSUME SelConstants
    PROVE  Select!Spec => [](Select!TypeOK /\ Select!AssertsHold /\ Select!NothingStranded /\
                             Select!HandsOver)
<1>1. ASSUME Select!Init PROVE SelInv
  BY <1>1, SelInit0
<1>2. ASSUME SelInv, [Select!Next]_sel PROVE SelInv'
  BY <1>2, SelChanges
<1>3. SelInv => Select!TypeOK /\ Select!AssertsHold /\ Select!NothingStranded /\ Select!HandsOver
  BY SelKeeps
<1> QED BY <1>1, <1>2, <1>3, PTL DEF Select!Spec

-----------------------------------------------------------------------------
(* Watchers and the kernel *)

\* maybe_resize counts in 32 bits; no process has so many descriptors.
KqTop == 1073741821

KqConstants ==
    /\ IsFiniteSet(Fds) /\ Fds \subseteq 1..KqTop
    /\ Kqueue!NULL \notin Kqueue!All /\ Full \in Nat

KqFields ==
    {"pc", "nw", "list", "fd", "pevents", "events", "watchers", "queue", "nfds", "filters",
     "batch", "full", "reap", "children", "deleted", "wrong"}

KqTyped(k) ==
    /\ k.nw \in Nat /\ k.list \in {0, k.nw}
    /\ k.fd \in [Kqueue!All -> Fds \union {0}] /\ k.watchers \in [Fds -> Kqueue!All \union {Kqueue!NULL}]
    /\ k.pevents \in [Kqueue!All -> SUBSET Kqueue!Masks] /\ k.events \in [Kqueue!All -> SUBSET Kqueue!Masks]
    /\ k.queue \in Seq(Kqueue!All) /\ Distinct(k.queue)
    /\ \A x \in k.filters : x \in Fds \X Kqueue!Masks

\* No two watchers have the same descriptor.
KqFiles(k) == \A w, v \in Kqueue!All : w # v /\ k.fd[w] # 0 => k.fd[w] # k.fd[v]

\* loop->watchers holds, at its descriptor, each watcher that watches something.
KqWatched(k) ==
    /\ \A f \in Fds : k.watchers[f] # Kqueue!NULL => k.fd[k.watchers[f]] = f /\ k.pevents[k.watchers[f]] # {}
    /\ \A w \in Kqueue!All : k.pevents[w] # {} => k.fd[w] # 0 /\ k.fd[w] < k.nw /\ k.watchers[k.fd[w]] = w
    /\ \A w \in Kqueue!All : k.events[w] # {} => k.pevents[w] # {}
    /\ \A w \in Kqueue!All : Contains(k.queue, w) => k.pevents[w] # {}

\* What is registered has a filter, unless it was deleted; what is not is queued.
KqArmed(k) ==
    /\ \A w \in Kqueue!All : \A e \in k.events[w] : <<k.fd[w], e>> \in k.filters \/ <<w, e>> \in k.deleted
    /\ \A w \in Kqueue!All : \A e \in k.pevents[w] : e \notin k.events[w] => Contains(k.queue, w)

KqUsed(k) == {f \in Fds : k.watchers[f] # Kqueue!NULL}

KqCounts(k) == k.nfds = Cardinality(KqUsed(k))

KqEntries == [fd : Fds \union {-1}, filter : Kqueue!Masks \union {"PROC"}, stale : BOOLEAN]

\* The exits in the array.
KqExits(b) == {i \in DOMAIN b : b[i].filter = "PROC"}

\* The exits that are still to be looked at are those in the array, none of which is struck out.
KqBatch(k) ==
    /\ k.pc \in {"program", "poll", "dispatch", "callback"}
    /\ k.pc \in {"program", "poll"} => k.children = 0
    /\ k.pc \in {"dispatch", "callback"} =>
         /\ k.batch \in Seq(KqEntries) /\ k.children = Cardinality(KqExits(k.batch))
         /\ \A i \in DOMAIN k.batch : k.batch[i].filter = "PROC" => k.batch[i].fd # -1

KqGood(k) ==
    /\ DOMAIN k = KqFields /\ KqTyped(k) /\ KqFiles(k) /\ KqWatched(k) /\ KqArmed(k) /\ KqCounts(k)

KqInv == KqGood(kq) /\ KqBatch(kq)

LEMMA KqOps ==
    /\ \A q : Kqueue!Range(q) = Range(q)
    /\ \A S : Kqueue!Cardinality(S) = Cardinality(S)
    /\ \A q, x : Kqueue!Unlink(q, x) = Unlink(q, x)
<1>1. \A q : Kqueue!Range(q) = Range(q)
  BY DEF Kqueue!Range, Range
<1>2. \A S : Kqueue!Cardinality(S) = Cardinality(S)
  BY DEF Kqueue!Cardinality, Cardinality
<1>3. \A q, x : Kqueue!Unlink(q, x) = Unlink(q, x)
  BY DEF Kqueue!Unlink, Unlink
<1> QED BY <1>1, <1>2, <1>3

Updated(f, x, v) == [f EXCEPT ![x] = v]

LEMMA KqMembers ==
    ASSUME NEW k, KqTyped(k)
    PROVE  /\ k.pevents \in [Kqueue!All -> SUBSET Kqueue!Masks] /\ k.events \in [Kqueue!All -> SUBSET Kqueue!Masks]
           /\ k.watchers \in [Fds -> Kqueue!All \union {Kqueue!NULL}] /\ k.fd \in [Kqueue!All -> Fds \union {0}]
           /\ \A w \in Kqueue!All : k.pevents[w] \in SUBSET Kqueue!Masks /\ k.events[w] \in SUBSET Kqueue!Masks
           /\ \A w \in Kqueue!All : k.fd[w] \in Fds \union {0}
           /\ \A f \in Fds : k.watchers[f] \in Kqueue!All \union {Kqueue!NULL}
  BY DEF KqTyped

\* The descriptors in use are counted.
LEMMA KqSizes ==
    ASSUME KqConstants, NEW S \in SUBSET Fds
    PROVE  /\ Cardinality(S) \in Nat /\ (S # {} => Cardinality(S) > 0)
           /\ \A f \in Fds : f \notin S => Cardinality(S \union {f}) = Cardinality(S) + 1
           /\ \A f \in S : Cardinality(S \ {f}) = Cardinality(S) - 1
<1>1. IsFiniteSet(S)
  BY FS_Subset DEF KqConstants
<1>2. Cardinality(S) \in Nat /\ (Cardinality(S) = 0 <=> S = {})
  BY <1>1, FS_CardinalityType, FS_EmptySet
<1>3. \A f \in Fds : f \notin S => Cardinality(S \union {f}) = Cardinality(S) + 1
  BY <1>1, FS_AddElement
<1>4. \A f \in S : Cardinality(S \ {f}) = Cardinality(S) - 1
  BY <1>1, FS_RemoveElement
<1> QED BY <1>2, <1>3, <1>4

LEMMA KqTopIs == KqTop \in Nat /\ KqTop + 3 = 1073741824
  BY SMT DEF KqTop

LEMMA KqNumbers ==
    ASSUME KqConstants
    PROVE  \A f \in Fds : f \in Nat /\ f # 0 /\ f <= KqTop
  BY KqTopIs, SMT DEF KqConstants

LEMMA KqPower ==
    ASSUME NEW n \in 1..(KqTop + 3)
    PROVE  Kqueue!NextPowerOfTwo(n) \in Nat /\ Kqueue!NextPowerOfTwo(n) >= n
<1>1. \E p \in Kqueue!Powers : p >= n /\ p < 2 * n
  <2>0. CASE n = 1
    BY <2>0, SMT DEF Kqueue!Powers
  <2>1. CASE 1 < n /\ n <= 2
    BY <2>1, SMT DEF Kqueue!Powers
  <2>2. CASE 2 < n /\ n <= 4
    BY <2>2, SMT DEF Kqueue!Powers
  <2>3. CASE 4 < n /\ n <= 8
    BY <2>3, SMT DEF Kqueue!Powers
  <2>4. CASE 8 < n /\ n <= 16
    BY <2>4, SMT DEF Kqueue!Powers
  <2>5. CASE 16 < n /\ n <= 32
    BY <2>5, SMT DEF Kqueue!Powers
  <2>6. CASE 32 < n /\ n <= 64
    BY <2>6, SMT DEF Kqueue!Powers
  <2>7. CASE 64 < n /\ n <= 128
    BY <2>7, SMT DEF Kqueue!Powers
  <2>8. CASE 128 < n /\ n <= 256
    BY <2>8, SMT DEF Kqueue!Powers
  <2>9. CASE 256 < n /\ n <= 512
    BY <2>9, SMT DEF Kqueue!Powers
  <2>10. CASE 512 < n /\ n <= 1024
    BY <2>10, SMT DEF Kqueue!Powers
  <2>11. CASE 1024 < n /\ n <= 2048
    BY <2>11, SMT DEF Kqueue!Powers
  <2>12. CASE 2048 < n /\ n <= 4096
    BY <2>12, SMT DEF Kqueue!Powers
  <2>13. CASE 4096 < n /\ n <= 8192
    BY <2>13, SMT DEF Kqueue!Powers
  <2>14. CASE 8192 < n /\ n <= 16384
    BY <2>14, SMT DEF Kqueue!Powers
  <2>15. CASE 16384 < n /\ n <= 32768
    BY <2>15, SMT DEF Kqueue!Powers
  <2>16. CASE 32768 < n /\ n <= 65536
    BY <2>16, SMT DEF Kqueue!Powers
  <2>17. CASE 65536 < n /\ n <= 131072
    BY <2>17, SMT DEF Kqueue!Powers
  <2>18. CASE 131072 < n /\ n <= 262144
    BY <2>18, SMT DEF Kqueue!Powers
  <2>19. CASE 262144 < n /\ n <= 524288
    BY <2>19, SMT DEF Kqueue!Powers
  <2>20. CASE 524288 < n /\ n <= 1048576
    BY <2>20, SMT DEF Kqueue!Powers
  <2>21. CASE 1048576 < n /\ n <= 2097152
    BY <2>21, SMT DEF Kqueue!Powers
  <2>22. CASE 2097152 < n /\ n <= 4194304
    BY <2>22, SMT DEF Kqueue!Powers
  <2>23. CASE 4194304 < n /\ n <= 8388608
    BY <2>23, SMT DEF Kqueue!Powers
  <2>24. CASE 8388608 < n /\ n <= 16777216
    BY <2>24, SMT DEF Kqueue!Powers
  <2>25. CASE 16777216 < n /\ n <= 33554432
    BY <2>25, SMT DEF Kqueue!Powers
  <2>26. CASE 33554432 < n /\ n <= 67108864
    BY <2>26, SMT DEF Kqueue!Powers
  <2>27. CASE 67108864 < n /\ n <= 134217728
    BY <2>27, SMT DEF Kqueue!Powers
  <2>28. CASE 134217728 < n /\ n <= 268435456
    BY <2>28, SMT DEF Kqueue!Powers
  <2>29. CASE 268435456 < n /\ n <= 536870912
    BY <2>29, SMT DEF Kqueue!Powers
  <2>30. CASE 536870912 < n /\ n <= 1073741824
    BY <2>30, SMT DEF Kqueue!Powers
  <2>31. n \in Int /\ 1 <= n /\ n <= 1073741824
    BY KqTopIs, SMT
  <2> QED BY <2>0, <2>1, <2>2, <2>3, <2>4, <2>5, <2>6, <2>7, <2>8, <2>9, <2>10, <2>11, <2>12, <2>13, <2>14, <2>15, <2>16, <2>17, <2>18, <2>19, <2>20, <2>21, <2>22, <2>23, <2>24, <2>25, <2>26, <2>27, <2>28, <2>29, <2>30, <2>31, SMT
<1>2. Kqueue!NextPowerOfTwo(n) \in Kqueue!Powers /\ Kqueue!NextPowerOfTwo(n) >= n
  BY <1>1 DEF Kqueue!NextPowerOfTwo
<1>3. \A p \in Kqueue!Powers : p \in Nat
  BY SMT DEF Kqueue!Powers
<1> QED BY <1>2, <1>3

\* maybe_resize makes room for the descriptor and keeps everything else.
LEMMA KqResized ==
    ASSUME NEW k, DOMAIN k = KqFields, k.nw \in Nat, k.list \in {0, k.nw}, NEW len \in 2..(KqTop + 1)
    PROVE  LET r == Kqueue!Resized(k, len) IN
           /\ DOMAIN r = DOMAIN k /\ r.nw \in Nat /\ k.nw <= r.nw /\ len <= r.nw
           /\ r.list \in {0, r.nw} /\ r.pc = k.pc /\ r.fd = k.fd /\ r.pevents = k.pevents
           /\ r.events = k.events /\ r.watchers = k.watchers /\ r.queue = k.queue
           /\ r.nfds = k.nfds /\ r.filters = k.filters /\ r.batch = k.batch
           /\ r.children = k.children /\ r.deleted = k.deleted
<1>1. CASE len <= k.nw
  BY <1>1 DEF Kqueue!Resized
<1>2. CASE ~(len <= k.nw)
  <2>1. PICK p \in Nat : p = Kqueue!NextPowerOfTwo(len + 2) /\ p >= len + 2
    <3>1. len + 2 \in 1..(KqTop + 3)
      BY KqTopIs, SMT
    <3> QED BY <3>1, KqPower
  <2>2. PICK nw \in Nat : nw = p - 2 /\ nw >= len /\ nw >= k.nw
    BY <1>2, <2>1
  <2>3. PICK list : list = Kqueue!ListMoved(k, nw) /\ list \in {0, nw}
    BY DEF Kqueue!ListMoved
  <2>4. Kqueue!Resized(k, len) = [k EXCEPT !.nw = nw, !.list = list]
    BY <1>2, <2>1, <2>2, <2>3 DEF Kqueue!Resized
  <2> QED BY <2>2, <2>3, <2>4 DEF KqFields
<1> QED BY <1>1, <1>2

LEMMA KqEnqueued ==
    ASSUME NEW k, DOMAIN k = KqFields, k.queue \in Seq(Kqueue!All), Distinct(k.queue), NEW w \in Kqueue!All
    PROVE  LET r == Kqueue!Enqueue(k, w) IN
           /\ DOMAIN r = DOMAIN k /\ r.queue \in Seq(Kqueue!All) /\ Distinct(r.queue)
           /\ (\A v : Contains(r.queue, v) <=> Contains(k.queue, v) \/ v = w) /\ r.pc = k.pc
           /\ r.nw = k.nw /\ r.list = k.list /\ r.fd = k.fd /\ r.pevents = k.pevents
           /\ r.events = k.events /\ r.watchers = k.watchers /\ r.nfds = k.nfds
           /\ r.filters = k.filters /\ r.batch = k.batch /\ r.children = k.children
           /\ r.deleted = k.deleted
<1>1. CASE Contains(k.queue, w)
  <2>1. Kqueue!Enqueue(k, w) = k
    BY <1>1, SetOfQueue, KqOps DEF Kqueue!Enqueue
  <2> QED BY <1>1, <2>1
<1>2. CASE ~Contains(k.queue, w)
  <2>1. PICK q : q = Append(k.queue, w)
    OBVIOUS
  <2>2. Kqueue!Enqueue(k, w) = [k EXCEPT !.queue = q]
    BY <1>2, <2>1, SetOfQueue, KqOps DEF Kqueue!Enqueue
  <2>3. q \in Seq(Kqueue!All) /\ Distinct(q) /\ \A v : Contains(q, v) <=> Contains(k.queue, v) \/ v = w
    BY <1>2, <2>1, AppendQueue
  <2> QED BY <2>2, <2>3 DEF KqFields
<1> QED BY <1>1, <1>2

\* uv__io_start keeps the invariant.
LEMMA KqStarted ==
    ASSUME KqConstants, NEW k, KqGood(k), NEW w \in Kqueue!All, NEW mask \in SUBSET Kqueue!Masks, mask # {},
           k.fd[w] # 0
    PROVE  LET r == Kqueue!IoStart(k, w, mask) IN
           KqGood(r) /\ r.pc = k.pc /\ r.batch = k.batch /\ r.children = k.children
<1> DOMAIN k = KqFields /\ KqTyped(k) /\ KqFiles(k) /\ KqWatched(k) /\ KqArmed(k) /\ KqCounts(k)
  BY DEF KqGood
<1>1. PICK p \in SUBSET Kqueue!Masks : p = k.pevents[w] \union mask /\ p # {}
  <2>1. k.pevents[w] \in SUBSET Kqueue!Masks
    BY KqMembers
  <2> QED BY <2>1
<1>2. PICK pev : pev = Updated(k.pevents, w, p)
  OBVIOUS
<1>3. pev \in [Kqueue!All -> SUBSET Kqueue!Masks] /\ pev[w] = p /\ \A v \in Kqueue!All : v # w => pev[v] = k.pevents[v]
  <2>1. k.pevents \in [Kqueue!All -> SUBSET Kqueue!Masks]
    BY KqMembers
  <2> QED BY <1>2, <2>1 DEF Updated
<1>4. PICK c : c = [k EXCEPT !.pevents[w] = @ \union mask]
  OBVIOUS
<1>5. /\ DOMAIN c = DOMAIN k /\ c.pevents = pev /\ c.pc = k.pc /\ c.nw = k.nw
      /\ c.list = k.list /\ c.fd = k.fd /\ c.events = k.events /\ c.watchers = k.watchers
      /\ c.queue = k.queue /\ c.nfds = k.nfds /\ c.filters = k.filters /\ c.batch = k.batch
      /\ c.children = k.children /\ c.deleted = k.deleted
  BY <1>1, <1>2, <1>4 DEF KqFields, Updated
<1>6. PICK f \in Fds : f = k.fd[w] /\ f + 1 \in 2..(KqTop + 1)
  <2>1. k.fd[w] \in Fds /\ \A g \in Fds : g \in 1..KqTop
    BY DEF KqTyped, KqConstants
  <2> QED BY <2>1, KqTopIs, SMT
<1>7. PICK a : a = Kqueue!Resized(c, f + 1)
  OBVIOUS
<1>8. /\ DOMAIN a = DOMAIN k /\ a.pevents = pev /\ a.nw \in Nat /\ k.nw <= a.nw
      /\ f + 1 <= a.nw /\ a.list \in {0, a.nw} /\ a.pc = k.pc /\ a.fd = k.fd
      /\ a.events = k.events /\ a.watchers = k.watchers /\ a.queue = k.queue
      /\ a.nfds = k.nfds /\ a.filters = k.filters /\ a.batch = k.batch
      /\ a.children = k.children /\ a.deleted = k.deleted
  <2>1. DOMAIN c = KqFields /\ c.nw \in Nat /\ c.list \in {0, c.nw}
    BY <1>5 DEF KqTyped
  <2>2. /\ DOMAIN a = DOMAIN c /\ a.nw \in Nat /\ c.nw <= a.nw /\ f + 1 <= a.nw
        /\ a.list \in {0, a.nw} /\ a.pc = c.pc /\ a.fd = c.fd /\ a.pevents = c.pevents
        /\ a.events = c.events /\ a.watchers = c.watchers /\ a.queue = c.queue
        /\ a.nfds = c.nfds /\ a.filters = c.filters /\ a.batch = c.batch
        /\ a.children = c.children /\ a.deleted = c.deleted
    BY <1>6, <1>7, <2>1, KqResized
  <2> QED BY <1>5, <1>6, <2>2
<1>9. PICK b : b = Kqueue!Enqueue(a, w)
  OBVIOUS
<1>10. /\ DOMAIN b = DOMAIN a /\ b.queue \in Seq(Kqueue!All) /\ Distinct(b.queue)
       /\ (\A v : Contains(b.queue, v) <=> Contains(k.queue, v) \/ v = w) /\ b.pc = a.pc
       /\ b.nw = a.nw /\ b.list = a.list /\ b.fd = a.fd /\ b.pevents = a.pevents
       /\ b.events = a.events /\ b.watchers = a.watchers /\ b.nfds = a.nfds
       /\ b.filters = a.filters /\ b.batch = a.batch /\ b.children = a.children
       /\ b.deleted = a.deleted
  <2>1. DOMAIN a = KqFields /\ a.queue \in Seq(Kqueue!All) /\ Distinct(a.queue)
    BY <1>8 DEF KqTyped
  <2>2. /\ DOMAIN b = DOMAIN a /\ b.queue \in Seq(Kqueue!All) /\ Distinct(b.queue)
        /\ (\A v : Contains(b.queue, v) <=> Contains(a.queue, v) \/ v = w) /\ b.pc = a.pc
        /\ b.nw = a.nw /\ b.list = a.list /\ b.fd = a.fd /\ b.pevents = a.pevents
        /\ b.events = a.events /\ b.watchers = a.watchers /\ b.nfds = a.nfds
        /\ b.filters = a.filters /\ b.batch = a.batch /\ b.children = a.children
        /\ b.deleted = a.deleted
    <3>1. LET z == Kqueue!Enqueue(a, w) IN
          /\ DOMAIN z = DOMAIN a /\ z.queue \in Seq(Kqueue!All) /\ Distinct(z.queue)
          /\ (\A v : Contains(z.queue, v) <=> Contains(a.queue, v) \/ v = w) /\ z.pc = a.pc
          /\ z.nw = a.nw /\ z.list = a.list /\ z.fd = a.fd /\ z.pevents = a.pevents
          /\ z.events = a.events /\ z.watchers = a.watchers /\ z.nfds = a.nfds
          /\ z.filters = a.filters /\ z.batch = a.batch /\ z.children = a.children
          /\ z.deleted = a.deleted
      BY <2>1, KqEnqueued
    <3> QED BY <1>9, <3>1
  <2> QED BY <1>8, <2>2
<1>11. PICK r : r = Kqueue!IoStart(k, w, mask)
  OBVIOUS
<1>12. r = (IF a.events[w] = a.pevents[w] THEN a
            ELSE IF b.watchers[b.fd[w]] # Kqueue!NULL THEN b
            ELSE [b EXCEPT !.watchers[b.fd[w]] = w, !.nfds = @ + 1])
  BY <1>4, <1>6, <1>7, <1>9, <1>11 DEF Kqueue!IoStart
<1>13. k.watchers[f] \in {Kqueue!NULL, w} /\ (k.events[w] = p => k.watchers[f] = w) /\ w # Kqueue!NULL
  <2>1. k.watchers[f] # Kqueue!NULL => k.watchers[f] \in Kqueue!All /\ k.fd[k.watchers[f]] = f
    BY DEF KqWatched, KqTyped
  <2>2. k.watchers[f] # Kqueue!NULL => k.watchers[f] = w
    BY <1>6, <2>1 DEF KqFiles
  <2>3. k.events[w] = p => k.watchers[f] = w
    BY <1>1, <1>6 DEF KqWatched
  <2> QED BY <2>2, <2>3 DEF KqConstants
<1>14. PICK wt : wt = Updated(k.watchers, f, w)
  OBVIOUS
<1>15. wt \in [Fds -> Kqueue!All \union {Kqueue!NULL}] /\ wt[f] = w /\ \A g \in Fds : g # f => wt[g] = k.watchers[g]
  <2>1. k.watchers \in [Fds -> Kqueue!All \union {Kqueue!NULL}]
    BY KqMembers
  <2> QED BY <1>14, <2>1 DEF Updated
<1>16. /\ DOMAIN r = DOMAIN k /\ r.pevents = pev /\ r.nw \in Nat /\ k.nw <= r.nw
       /\ f + 1 <= r.nw /\ r.list \in {0, r.nw} /\ r.watchers \in [Fds -> Kqueue!All \union {Kqueue!NULL}]
       /\ r.watchers[f] = w /\ (\A g \in Fds : g # f => r.watchers[g] = k.watchers[g])
       /\ r.nfds = (IF k.watchers[f] = Kqueue!NULL THEN k.nfds + 1 ELSE k.nfds)
       /\ r.queue \in Seq(Kqueue!All) /\ Distinct(r.queue)
       /\ (\A v : Contains(r.queue, v) <=> Contains(k.queue, v) \/ (v = w /\ k.events[w] # p))
       /\ r.pc = k.pc /\ r.fd = k.fd /\ r.events = k.events /\ r.filters = k.filters
       /\ r.batch = k.batch /\ r.children = k.children /\ r.deleted = k.deleted
  <2>1. CASE k.events[w] = p
    <3>1. r = a
      BY <1>8, <1>3, <1>12, <2>1
    <3> QED BY <1>8, <1>13, <2>1, <3>1 DEF KqTyped
  <2>2. CASE k.events[w] # p /\ k.watchers[f] # Kqueue!NULL
    <3>1. r = b
      BY <1>8, <1>10, <1>3, <1>6, <1>12, <2>2
    <3> QED BY <1>8, <1>10, <1>13, <2>2, <3>1 DEF KqTyped
  <2>3. CASE k.events[w] # p /\ k.watchers[f] = Kqueue!NULL
    <3>1. r = [b EXCEPT !.watchers[b.fd[w]] = w, !.nfds = @ + 1]
      BY <1>8, <1>10, <1>3, <1>6, <1>12, <2>3
    <3>2. /\ DOMAIN r = DOMAIN b /\ r.watchers = [b.watchers EXCEPT ![b.fd[w]] = w]
          /\ r.nfds = b.nfds + 1 /\ r.pc = b.pc /\ r.nw = b.nw /\ r.list = b.list
          /\ r.fd = b.fd /\ r.pevents = b.pevents /\ r.events = b.events
          /\ r.queue = b.queue /\ r.filters = b.filters /\ r.batch = b.batch
          /\ r.children = b.children /\ r.deleted = b.deleted
      BY <1>8, <1>10, <3>1 DEF KqFields
    <3>3. r.watchers = wt
      BY <1>6, <1>8, <1>10, <1>14, <3>2 DEF Updated
    <3>4. r.queue = b.queue
      BY <3>2
    <3>5. /\ DOMAIN r = DOMAIN k /\ r.pevents = pev /\ r.nw \in Nat /\ k.nw <= r.nw
          /\ f + 1 <= r.nw /\ r.list \in {0, r.nw} /\ r.pc = k.pc /\ r.fd = k.fd
          /\ r.events = k.events /\ r.filters = k.filters /\ r.batch = k.batch
          /\ r.children = k.children /\ r.deleted = k.deleted
      BY <1>8, <1>10, <3>2
    <3>6. r.nfds = (IF k.watchers[f] = Kqueue!NULL THEN k.nfds + 1 ELSE k.nfds)
      BY <1>8, <1>10, <2>3, <3>2
    <3> QED BY <1>10, <1>15, <2>3, <3>3, <3>4, <3>5, <3>6
  <2> QED BY <2>1, <2>2, <2>3
<1>17. KqTyped(r)
  BY <1>3, <1>16 DEF KqTyped
<1>18. KqFiles(r)
  BY <1>16 DEF KqFiles
<1>19. KqWatched(r)
  <2>1. ASSUME NEW g \in Fds, r.watchers[g] # Kqueue!NULL PROVE r.fd[r.watchers[g]] = g /\ r.pevents[r.watchers[g]] # {}
    <3>1. CASE g = f
      BY <1>1, <1>3, <1>6, <1>16, <3>1
    <3>2. CASE g # f
      <4>1. r.watchers[g] = k.watchers[g] /\ k.watchers[g] \in Kqueue!All
        BY <1>16, <2>1, <3>2 DEF KqTyped
      <4>2. k.fd[k.watchers[g]] = g /\ k.pevents[k.watchers[g]] # {}
        BY <2>1, <4>1 DEF KqWatched
      <4> QED BY <1>3, <1>1, <1>16, <4>1, <4>2
    <3> QED BY <3>1, <3>2
  <2>2. ASSUME NEW v \in Kqueue!All, r.pevents[v] # {} PROVE r.fd[v] # 0 /\ r.fd[v] < r.nw /\ r.watchers[r.fd[v]] = v
    <3>1. CASE v = w
      BY <1>6, <1>16, <3>1, KqNumbers
    <3>2. CASE v # w
      <4>1. k.pevents[v] # {}
        BY <1>3, <1>16, <2>2, <3>2
      <4>2. k.fd[v] # 0 /\ k.fd[v] < k.nw /\ k.watchers[k.fd[v]] = v /\ k.fd[v] \in Fds /\ k.fd[v] # f
        BY <1>6, <3>2, <4>1 DEF KqWatched, KqFiles, KqTyped
      <4>3. k.fd[v] \in Nat /\ k.nw \in Nat /\ r.nw \in Nat /\ k.nw <= r.nw
        BY <1>16, <4>2, KqNumbers DEF KqTyped
      <4> QED BY <1>16, <4>2, <4>3
    <3> QED BY <3>1, <3>2
  <2>3. ASSUME NEW v \in Kqueue!All, r.events[v] # {} PROVE r.pevents[v] # {}
    BY <1>1, <1>3, <1>16, <2>3 DEF KqWatched
  <2>4. ASSUME NEW v \in Kqueue!All, Contains(r.queue, v) PROVE r.pevents[v] # {}
    BY <1>1, <1>3, <1>16, <2>4 DEF KqWatched
  <2> QED BY <2>1, <2>2, <2>3, <2>4 DEF KqWatched
<1>20. KqArmed(r)
  <2>1. ASSUME NEW v \in Kqueue!All, NEW e \in r.pevents[v], e \notin r.events[v] PROVE Contains(r.queue, v)
    BY <1>3, <1>16, <2>1 DEF KqArmed
  <2> QED BY <1>16, <2>1 DEF KqArmed
<1>21. KqCounts(r)
  <2>1. CASE k.watchers[f] = w
    <3>1. KqUsed(r) = KqUsed(k)
      BY <1>13, <1>16, <2>1 DEF KqUsed
    <3> QED BY <1>13, <1>16, <2>1, <3>1 DEF KqCounts
  <2>2. CASE k.watchers[f] = Kqueue!NULL
    <3>1. KqUsed(r) = KqUsed(k) \union {f} /\ f \notin KqUsed(k) /\ KqUsed(k) \in SUBSET Fds
      BY <1>13, <1>16, <2>2 DEF KqUsed
    <3> QED BY <1>16, <2>2, <3>1, KqSizes DEF KqCounts
  <2> QED BY <1>13, <2>1, <2>2
<1> QED BY <1>11, <1>16, <1>17, <1>18, <1>19, <1>20, <1>21 DEF KqGood

\* uv__io_stop keeps it too, and leaves nothing when all of a watcher is stopped.
LEMMA KqStopped ==
    ASSUME KqConstants, NEW k, KqGood(k), NEW w \in Kqueue!All, NEW mask \in SUBSET Kqueue!Masks
    PROVE  LET r == Kqueue!IoStop(k, w, mask) IN
           /\ KqGood(r) /\ r.pc = k.pc /\ r.batch = k.batch /\ r.children = k.children /\ r.fd = k.fd
           /\ mask = Kqueue!Masks => r.pevents[w] = {} /\ r.events[w] = {}
<1> DOMAIN k = KqFields /\ KqTyped(k) /\ KqFiles(k) /\ KqWatched(k) /\ KqArmed(k) /\ KqCounts(k)
  BY DEF KqGood
<1>1. PICK r : r = Kqueue!IoStop(k, w, mask)
  OBVIOUS
<1>2. PICK p \in SUBSET Kqueue!Masks : p = k.pevents[w] \ mask
  BY DEF KqTyped
<1>3. PICK pev : pev = Updated(k.pevents, w, p)
  OBVIOUS
<1>4. pev \in [Kqueue!All -> SUBSET Kqueue!Masks] /\ pev[w] = p /\ \A v \in Kqueue!All : v # w => pev[v] = k.pevents[v]
  <2>1. k.pevents \in [Kqueue!All -> SUBSET Kqueue!Masks]
    BY KqMembers
  <2> QED BY <1>3, <2>1 DEF Updated
<1>5. PICK a : a = [k EXCEPT !.pevents[w] = @ \ mask]
  OBVIOUS
<1>6. /\ DOMAIN a = DOMAIN k /\ a.pevents = pev /\ a.pc = k.pc /\ a.nw = k.nw
      /\ a.list = k.list /\ a.fd = k.fd /\ a.events = k.events /\ a.watchers = k.watchers
      /\ a.queue = k.queue /\ a.nfds = k.nfds /\ a.filters = k.filters /\ a.batch = k.batch
      /\ a.children = k.children /\ a.deleted = k.deleted
  BY <1>2, <1>3, <1>5 DEF KqFields, Updated
<1>7. CASE k.fd[w] = 0 \/ k.fd[w] >= k.nw
  <2>1. r = k
    BY <1>1, <1>7 DEF Kqueue!IoStop
  <2>2. k.pevents[w] = {} /\ k.events[w] = {}
    <3>1. k.pevents[w] # {} => k.fd[w] # 0 /\ k.fd[w] < k.nw
      BY DEF KqWatched
    <3>2. k.fd[w] \in Nat /\ k.nw \in Nat
      BY KqMembers, KqNumbers DEF KqTyped
    <3> QED BY <1>7, <3>1, <3>2 DEF KqWatched
  <2> QED BY <1>1, <2>1, <2>2 DEF KqGood
<1>8. CASE ~(k.fd[w] = 0 \/ k.fd[w] >= k.nw) /\ p # {}
  <2>1. PICK b : b = Kqueue!Enqueue(a, w)
    OBVIOUS
  <2>2. r = b
    BY <1>1, <1>4, <1>5, <1>6, <1>8, <2>1 DEF Kqueue!IoStop
  <2>3. /\ DOMAIN r = DOMAIN k /\ r.pevents = pev /\ r.queue \in Seq(Kqueue!All)
        /\ Distinct(r.queue)
        /\ (\A v : Contains(r.queue, v) <=> Contains(k.queue, v) \/ v = w) /\ r.pc = k.pc
        /\ r.nw = k.nw /\ r.list = k.list /\ r.fd = k.fd /\ r.events = k.events
        /\ r.watchers = k.watchers /\ r.nfds = k.nfds /\ r.filters = k.filters
        /\ r.batch = k.batch /\ r.children = k.children /\ r.deleted = k.deleted
    <3>1. DOMAIN a = KqFields /\ a.queue \in Seq(Kqueue!All) /\ Distinct(a.queue)
      BY <1>6 DEF KqTyped
    <3>2. /\ DOMAIN b = DOMAIN a /\ b.queue \in Seq(Kqueue!All) /\ Distinct(b.queue)
          /\ (\A v : Contains(b.queue, v) <=> Contains(a.queue, v) \/ v = w) /\ b.pc = a.pc
          /\ b.nw = a.nw /\ b.list = a.list /\ b.fd = a.fd /\ b.pevents = a.pevents
          /\ b.events = a.events /\ b.watchers = a.watchers /\ b.nfds = a.nfds
          /\ b.filters = a.filters /\ b.batch = a.batch /\ b.children = a.children
          /\ b.deleted = a.deleted
      <4>1. LET z == Kqueue!Enqueue(a, w) IN
            /\ DOMAIN z = DOMAIN a /\ z.queue \in Seq(Kqueue!All) /\ Distinct(z.queue)
            /\ (\A v : Contains(z.queue, v) <=> Contains(a.queue, v) \/ v = w)
            /\ z.pc = a.pc /\ z.nw = a.nw /\ z.list = a.list /\ z.fd = a.fd
            /\ z.pevents = a.pevents /\ z.events = a.events /\ z.watchers = a.watchers
            /\ z.nfds = a.nfds /\ z.filters = a.filters /\ z.batch = a.batch
            /\ z.children = a.children /\ z.deleted = a.deleted
        BY <3>1, KqEnqueued
      <4> QED BY <2>1, <4>1
    <3> QED BY <1>6, <2>2, <3>2
  <2>4. \A v \in Kqueue!All : (r.pevents[v] # {} <=> k.pevents[v] # {}) /\ r.pevents[v] \subseteq k.pevents[v]
    BY <1>2, <1>4, <1>8, <2>3
  <2>5. KqTyped(r)
    BY <1>4, <2>3 DEF KqTyped
  <2>6. KqFiles(r)
    BY <2>3 DEF KqFiles
  <2>7. KqWatched(r)
    <3>1. \A f \in Fds : k.watchers[f] # Kqueue!NULL => k.watchers[f] \in Kqueue!All
      BY DEF KqTyped
    <3>2. k.pevents[w] # {}
      BY <1>2, <1>8
    <3> QED BY <2>3, <2>4, <3>1, <3>2 DEF KqWatched
  <2>8. KqArmed(r)
    BY <2>3, <2>4 DEF KqArmed
  <2>9. KqCounts(r)
    BY <2>3 DEF KqCounts, KqUsed
  <2>10. mask # Kqueue!Masks
    BY <1>2, <1>8 DEF KqTyped
  <2> QED BY <1>1, <2>3, <2>5, <2>6, <2>7, <2>8, <2>9, <2>10 DEF KqGood
<1>9. CASE ~(k.fd[w] = 0 \/ k.fd[w] >= k.nw) /\ p = {}
  <2>1. PICK f \in Fds : f = k.fd[w]
    BY <1>9 DEF KqTyped
  <2>2. PICK ev : ev = Updated(k.events, w, {})
    OBVIOUS
  <2>3. ev \in [Kqueue!All -> SUBSET Kqueue!Masks] /\ ev[w] = {} /\ \A v \in Kqueue!All : v # w => ev[v] = k.events[v]
    <3>1. k.events \in [Kqueue!All -> SUBSET Kqueue!Masks] /\ {} \in SUBSET Kqueue!Masks
      BY KqMembers
    <3> QED BY <2>2, <3>1 DEF Updated
  <2>4. PICK wt, n : wt = Updated(k.watchers, f, IF k.watchers[f] = w THEN Kqueue!NULL ELSE k.watchers[f])
                     /\ n = (IF k.watchers[f] = w THEN k.nfds - 1 ELSE k.nfds)
    OBVIOUS
  <2>5. /\ wt \in [Fds -> Kqueue!All \union {Kqueue!NULL}] /\ \A g \in Fds : g # f => wt[g] = k.watchers[g]
        /\ wt[f] = (IF k.watchers[f] = w THEN Kqueue!NULL ELSE k.watchers[f])
    <3>1. (IF k.watchers[f] = w THEN Kqueue!NULL ELSE k.watchers[f]) \in Kqueue!All \union {Kqueue!NULL}
      BY DEF KqTyped
    <3>2. k.watchers \in [Fds -> Kqueue!All \union {Kqueue!NULL}]
      BY KqMembers
    <3> QED BY <2>4, <3>1, <3>2 DEF Updated
  <2>6. PICK q, d : q = Kqueue!Unlink(k.queue, w) /\ d = {x \in k.deleted : x[1] # w}
    OBVIOUS
  <2>7. q \in Seq(Kqueue!All) /\ Distinct(q) /\ \A v : Contains(q, v) <=> Contains(k.queue, v) /\ v # w
    BY <2>6, UnlinkQueue, KqOps DEF KqTyped
  <2>8. r = [a EXCEPT !.queue = Kqueue!Dequeued(k, w), !.events[w] = {},
                      !.deleted = {x \in @ : x[1] # w},
                      !.nfds = IF a.watchers[k.fd[w]] = w THEN @ - 1 ELSE @,
                      !.watchers[k.fd[w]] = IF @ = w THEN Kqueue!NULL ELSE @]
    BY <1>1, <1>4, <1>5, <1>6, <1>9 DEF Kqueue!IoStop
  <2>9. /\ DOMAIN r = DOMAIN k /\ r.pevents = pev /\ r.queue = q /\ r.events = ev
        /\ r.deleted = d /\ r.nfds = n /\ r.watchers = wt /\ r.pc = k.pc /\ r.nw = k.nw
        /\ r.list = k.list /\ r.fd = k.fd /\ r.filters = k.filters /\ r.batch = k.batch
        /\ r.children = k.children
    BY <1>6, <2>1, <2>2, <2>4, <2>6, <2>8 DEF KqFields, Updated, Kqueue!Dequeued
  <2>10. KqTyped(r)
    BY <1>4, <2>3, <2>5, <2>7, <2>9 DEF KqTyped
  <2>11. KqFiles(r)
    BY <2>9 DEF KqFiles
  <2>12. r.pevents[w] = {} /\ r.events[w] = {} /\ \A v \in Kqueue!All : v # w => r.pevents[v] = k.pevents[v] /\ r.events[v] = k.events[v]
    BY <1>4, <1>9, <2>3, <2>9
  <2>13. k.watchers[f] # Kqueue!NULL => k.watchers[f] = w
    <3>1. k.watchers[f] # Kqueue!NULL => k.watchers[f] \in Kqueue!All /\ k.fd[k.watchers[f]] = f
      BY DEF KqWatched, KqTyped
    <3> QED BY <1>9, <2>1, <3>1 DEF KqFiles
  <2>14. r.watchers[f] = Kqueue!NULL /\ \A g \in Fds : g # f => r.watchers[g] = k.watchers[g]
    BY <2>5, <2>9, <2>13
  <2>15. KqWatched(r)
    <3>1. ASSUME NEW g \in Fds, r.watchers[g] # Kqueue!NULL PROVE r.fd[r.watchers[g]] = g /\ r.pevents[r.watchers[g]] # {}
      <4>1. g # f /\ r.watchers[g] = k.watchers[g] /\ k.watchers[g] \in Kqueue!All /\ k.watchers[g] # Kqueue!NULL
        BY <2>14, <3>1 DEF KqTyped
      <4>2. k.fd[k.watchers[g]] = g /\ k.pevents[k.watchers[g]] # {}
        BY <4>1 DEF KqWatched
      <4>3. k.watchers[g] # w
        BY <2>1, <4>1, <4>2
      <4> QED BY <2>9, <2>12, <4>1, <4>2, <4>3
    <3>2. ASSUME NEW v \in Kqueue!All, r.pevents[v] # {} PROVE r.fd[v] # 0 /\ r.fd[v] < r.nw /\ r.watchers[r.fd[v]] = v
      <4>1. v # w /\ k.pevents[v] # {}
        BY <2>12, <3>2
      <4>2. k.fd[v] # 0 /\ k.fd[v] < k.nw /\ k.watchers[k.fd[v]] = v /\ k.fd[v] \in Fds /\ k.fd[v] # f
        BY <2>1, <4>1 DEF KqWatched, KqFiles, KqTyped
      <4> QED BY <2>9, <2>14, <4>2
    <3>3. ASSUME NEW v \in Kqueue!All, r.events[v] # {} PROVE r.pevents[v] # {}
      BY <2>12, <3>3 DEF KqWatched
    <3>4. ASSUME NEW v \in Kqueue!All, Contains(r.queue, v) PROVE r.pevents[v] # {}
      BY <2>7, <2>9, <2>12, <3>4 DEF KqWatched
    <3> QED BY <3>1, <3>2, <3>3, <3>4 DEF KqWatched
  <2>16. KqArmed(r)
    <3>1. ASSUME NEW v \in Kqueue!All, NEW e \in r.events[v] PROVE <<r.fd[v], e>> \in r.filters \/ <<v, e>> \in r.deleted
      <4>1. v # w /\ e \in k.events[v]
        BY <2>12, <3>1
      <4>2. <<k.fd[v], e>> \in k.filters \/ <<v, e>> \in k.deleted
        BY <4>1 DEF KqArmed
      <4>3. <<v, e>> \in k.deleted => <<v, e>> \in d
        BY <2>6, <4>1
      <4> QED BY <2>9, <4>2, <4>3
    <3>2. ASSUME NEW v \in Kqueue!All, NEW e \in r.pevents[v], e \notin r.events[v] PROVE Contains(r.queue, v)
      BY <2>7, <2>9, <2>12, <3>2 DEF KqArmed
    <3> QED BY <3>1, <3>2 DEF KqArmed
  <2>17. KqCounts(r)
    <3>1. w # Kqueue!NULL
      BY DEF KqConstants
    <3>2. CASE k.watchers[f] = w
      <4>1. KqUsed(r) = KqUsed(k) \ {f} /\ f \in KqUsed(k) /\ KqUsed(k) \in SUBSET Fds
        BY <2>14, <3>1, <3>2 DEF KqUsed
      <4> QED BY <2>4, <2>9, <3>2, <4>1, KqSizes DEF KqCounts
    <3>3. CASE k.watchers[f] # w
      <4>1. KqUsed(r) = KqUsed(k)
        BY <2>13, <2>14, <3>3 DEF KqUsed
      <4> QED BY <2>4, <2>9, <3>3, <4>1 DEF KqCounts
    <3> QED BY <3>2, <3>3
  <2> QED BY <1>1, <2>9, <2>10, <2>11, <2>12, <2>15, <2>16, <2>17 DEF KqGood
<1> QED BY <1>7, <1>8, <1>9

-----------------------------------------------------------------------------
(* The array of events *)

\* The watchers are as good whatever happens to the array.
LEMMA KqSameWatchers ==
    ASSUME NEW k, KqGood(k), NEW r,
           r.list \in {0, r.nw}, DOMAIN r = KqFields,
           r.nw = k.nw, r.fd = k.fd, r.pevents = k.pevents,
           r.events = k.events, r.watchers = k.watchers, r.queue = k.queue,
           r.nfds = k.nfds, r.filters = k.filters, r.deleted = k.deleted
    PROVE  KqGood(r)
<1>1. KqTyped(r) /\ KqFiles(r) /\ KqWatched(r) /\ KqArmed(r)
  BY DEF KqGood, KqTyped, KqFiles, KqWatched, KqArmed
<1>2. KqCounts(r)
  BY DEF KqGood, KqCounts, KqUsed
<1> QED BY <1>1, <1>2 DEF KqGood

\* Striking out entries of files changes nothing for the exits.
LEMMA KqMapped ==
    ASSUME NEW b \in Seq(KqEntries), NEW c, c = [i \in DOMAIN b |-> c[i]],
           \A i \in DOMAIN b : /\ c[i] \in KqEntries /\ c[i].filter = b[i].filter
                               /\ b[i].filter = "PROC" => c[i].fd = b[i].fd
    PROVE  /\ c \in Seq(KqEntries) /\ KqExits(c) = KqExits(b)
           /\ \A i \in DOMAIN c : i \in DOMAIN b /\ (c[i].filter = "PROC" => b[i].filter = "PROC" /\ c[i].fd = b[i].fd)
<1>1. Len(b) \in Nat /\ DOMAIN b = 1..Len(b)
  BY LenProperties
<1>2. DOMAIN c = DOMAIN b
  OBVIOUS
<1>3. c \in [1..Len(b) -> KqEntries]
  BY <1>1
<1>4. c \in Seq(KqEntries)
  BY <1>1, <1>3
<1>5. KqExits(c) = KqExits(b)
  BY <1>2 DEF KqExits
<1> QED BY <1>2, <1>4, <1>5

LEMMA KqStruck ==
    ASSUME NEW k, KqBatch(k), NEW r, r.pc = k.pc, r.children = k.children,
           r.batch = [i \in DOMAIN k.batch |-> r.batch[i]],
           k.batch \in Seq(KqEntries) => \A i \in DOMAIN k.batch :
               /\ r.batch[i] \in KqEntries /\ r.batch[i].filter = k.batch[i].filter
               /\ k.batch[i].filter = "PROC" => r.batch[i].fd = k.batch[i].fd
    PROVE  KqBatch(r)
<1>1. CASE k.pc \in {"dispatch", "callback"}
  <2>1. k.batch \in Seq(KqEntries)
    BY <1>1 DEF KqBatch
  <2>2. /\ r.batch \in Seq(KqEntries) /\ KqExits(r.batch) = KqExits(k.batch)
        /\ \A i \in DOMAIN r.batch : i \in DOMAIN k.batch
             /\ (r.batch[i].filter = "PROC" => k.batch[i].filter = "PROC" /\ r.batch[i].fd = k.batch[i].fd)
    BY <2>1, KqMapped
  <2> QED BY <1>1, <2>2 DEF KqBatch
<1>2. CASE ~(k.pc \in {"dispatch", "callback"})
  BY <1>2 DEF KqBatch
<1> QED BY <1>1, <1>2

\* One entry with its descriptor struck out, or marked as stale.
LEMMA KqEntry ==
    ASSUME NEW e \in KqEntries
    PROVE  /\ [e EXCEPT !.fd = -1] \in KqEntries /\ [e EXCEPT !.fd = -1].filter = e.filter
           /\ [e EXCEPT !.stale = TRUE] \in KqEntries /\ [e EXCEPT !.stale = TRUE].filter = e.filter
           /\ [e EXCEPT !.stale = TRUE].fd = e.fd
  BY DEF KqEntries

LEMMA KqInvalidated ==
    ASSUME NEW k, KqGood(k), KqBatch(k), NEW f
    PROVE  LET r == Kqueue!Invalidate(k, f) IN
           /\ KqGood(r) /\ KqBatch(r)
           /\ DOMAIN r = DOMAIN k /\ r.pc = k.pc /\ r.nw = k.nw /\ r.list = k.list
           /\ r.fd = k.fd /\ r.pevents = k.pevents /\ r.events = k.events
           /\ r.watchers = k.watchers /\ r.queue = k.queue /\ r.nfds = k.nfds
           /\ r.filters = k.filters /\ r.children = k.children /\ r.deleted = k.deleted
<1> DOMAIN k = KqFields
  BY DEF KqGood
<1>1. CASE k.list # k.nw \/ k.list = 0
  <2>1. Kqueue!Invalidate(k, f) = k
    BY <1>1 DEF Kqueue!Invalidate
  <2> QED BY <2>1
<1>2. CASE ~(k.list # k.nw \/ k.list = 0)
  <2> DEFINE g(i) == IF k.batch[i].fd = f /\ Kqueue!OfFile(k.batch[i]) THEN [k.batch[i] EXCEPT !.fd = -1] ELSE k.batch[i]
  <2>1. PICK r : r = Kqueue!Invalidate(k, f)
    OBVIOUS
  <2>2. r = [k EXCEPT !.batch = [i \in DOMAIN k.batch |-> g(i)]]
    BY <1>2, <2>1 DEF Kqueue!Invalidate
  <2>3. /\ r.batch = [i \in DOMAIN k.batch |-> g(i)]
        /\ DOMAIN r = DOMAIN k /\ r.pc = k.pc /\ r.nw = k.nw /\ r.list = k.list
        /\ r.fd = k.fd /\ r.pevents = k.pevents /\ r.events = k.events
        /\ r.watchers = k.watchers /\ r.queue = k.queue /\ r.nfds = k.nfds
        /\ r.filters = k.filters /\ r.children = k.children /\ r.deleted = k.deleted
    BY <2>2 DEF KqFields
  <2>4. ASSUME k.batch \in Seq(KqEntries), NEW i \in DOMAIN k.batch
        PROVE  /\ g(i) \in KqEntries /\ g(i).filter = k.batch[i].filter
               /\ k.batch[i].filter = "PROC" => g(i).fd = k.batch[i].fd
    <3>1. k.batch[i] \in KqEntries
      BY <2>4
    <3> QED BY <3>1, KqEntry DEF Kqueue!OfFile
  <2> HIDE DEF g
  <2>5. KqBatch(r)
    <3>1. r.batch = [i \in DOMAIN k.batch |-> r.batch[i]]
      BY <2>3
    <3>2. \A i \in DOMAIN k.batch : r.batch[i] = g(i)
      BY <2>3
    <3>3. k.batch \in Seq(KqEntries) => \A i \in DOMAIN k.batch :
             /\ r.batch[i] \in KqEntries /\ r.batch[i].filter = k.batch[i].filter
             /\ k.batch[i].filter = "PROC" => r.batch[i].fd = k.batch[i].fd
      BY <2>4, <3>2
    <3>4. r.pc = k.pc /\ r.children = k.children
      BY <2>3
    <3> QED BY <3>1, <3>3, <3>4, KqStruck
  <2>6. KqGood(r)
    BY <2>3, KqSameWatchers DEF KqGood, KqTyped
  <2> QED BY <2>1, <2>3, <2>5, <2>6
<1> QED BY <1>1, <1>2

\* uv__io_close and the close of the file.
LEMMA KqClosed ==
    ASSUME KqConstants, NEW k, KqGood(k), KqBatch(k), NEW w \in Kqueue!All, k.fd[w] # 0
    PROVE  KqGood(Kqueue!Closed(k, w)) /\ KqBatch(Kqueue!Closed(k, w))
<1>1. PICK s : s = Kqueue!IoStop(k, w, Kqueue!Masks)
  OBVIOUS
<1>2. /\ KqGood(s) /\ s.pc = k.pc /\ s.batch = k.batch /\ s.children = k.children /\ s.fd = k.fd
      /\ s.pevents[w] = {} /\ s.events[w] = {}
  <2>1. Kqueue!Masks \in SUBSET Kqueue!Masks
    OBVIOUS
  <2>2. LET r == Kqueue!IoStop(k, w, Kqueue!Masks) IN
        /\ KqGood(r) /\ r.pc = k.pc /\ r.batch = k.batch /\ r.children = k.children /\ r.fd = k.fd
        /\ Kqueue!Masks = Kqueue!Masks => r.pevents[w] = {} /\ r.events[w] = {}
    BY <2>1, KqStopped
  <2> QED BY <1>1, <2>2
<1>3. KqBatch(s)
  BY <1>2 DEF KqBatch
<1>4. PICK f, a : f = k.fd[w] /\ a = Kqueue!Invalidate(s, f)
  OBVIOUS
<1>5. /\ KqGood(a) /\ KqBatch(a) /\ a.fd = k.fd /\ a.pevents[w] = {} /\ a.events[w] = {}
  <2>1. /\ KqGood(a) /\ KqBatch(a) /\ a.fd = s.fd /\ a.pevents = s.pevents /\ a.events = s.events
    BY <1>2, <1>3, <1>4, KqInvalidated
  <2> QED BY <1>2, <2>1
<1> DEFINE g(i) == IF a.batch[i].fd = f /\ a.batch[i].filter # "PROC" THEN [a.batch[i] EXCEPT !.stale = TRUE] ELSE a.batch[i]
<1>6. PICK r : r = Kqueue!Closed(k, w)
  OBVIOUS
<1>7. PICK fds, fs : fds = [a.fd EXCEPT ![w] = 0] /\ fs = {x \in a.filters : x[1] # f}
  OBVIOUS
<1> DOMAIN a = KqFields /\ KqTyped(a) /\ KqFiles(a) /\ KqWatched(a) /\ KqArmed(a) /\ KqCounts(a)
  BY <1>5 DEF KqGood
<1>8. r = [a EXCEPT !.fd[w] = 0, !.filters = {x \in @ : x[1] # f}, !.batch = [i \in DOMAIN @ |-> g(i)]]
  BY <1>1, <1>4, <1>6 DEF Kqueue!Closed
<1>9. /\ r.batch = [i \in DOMAIN a.batch |-> g(i)]
      /\ DOMAIN r = DOMAIN a /\ r.fd = fds /\ r.filters = fs /\ r.pc = a.pc /\ r.nw = a.nw
      /\ r.list = a.list /\ r.pevents = a.pevents /\ r.events = a.events
      /\ r.watchers = a.watchers /\ r.queue = a.queue /\ r.nfds = a.nfds
      /\ r.children = a.children /\ r.deleted = a.deleted
  BY <1>7, <1>8 DEF KqFields
<1>10. ASSUME a.batch \in Seq(KqEntries), NEW i \in DOMAIN a.batch
      PROVE  /\ g(i) \in KqEntries /\ g(i).filter = a.batch[i].filter
             /\ a.batch[i].filter = "PROC" => g(i).fd = a.batch[i].fd
  <2>1. a.batch[i] \in KqEntries
    BY <1>10
  <2> QED BY <2>1, KqEntry
<1> HIDE DEF g
<1>11. KqBatch(r)
  <2>1. r.batch = [i \in DOMAIN a.batch |-> r.batch[i]]
    BY <1>9
  <2>2. \A i \in DOMAIN a.batch : r.batch[i] = g(i)
    BY <1>9
  <2>3. a.batch \in Seq(KqEntries) => \A i \in DOMAIN a.batch :
           /\ r.batch[i] \in KqEntries /\ r.batch[i].filter = a.batch[i].filter
           /\ a.batch[i].filter = "PROC" => r.batch[i].fd = a.batch[i].fd
    BY <1>10, <2>2
  <2>4. r.pc = a.pc /\ r.children = a.children
    BY <1>9
  <2> QED BY <1>5, <2>1, <2>3, <2>4, KqStruck
<1>12. fds \in [Kqueue!All -> Fds \union {0}] /\ fds[w] = 0 /\ \A v \in Kqueue!All : v # w => fds[v] = a.fd[v]
  <2>1. a.fd \in [Kqueue!All -> Fds \union {0}]
    BY KqMembers
  <2> QED BY <1>7, <2>1
<1>13. KqTyped(r)
  BY <1>7, <1>9, <1>12 DEF KqTyped
<1>14. KqFiles(r)
  <2>1. \A v \in Kqueue!All : v # w => fds[v] = a.fd[v] /\ (fds[v] # 0 => fds[v] # fds[w])
    BY <1>12
  <2> QED BY <1>9, <1>12, <2>1 DEF KqFiles
<1>15. KqWatched(r)
  <2>1. ASSUME NEW h \in Fds, r.watchers[h] # Kqueue!NULL PROVE r.fd[r.watchers[h]] = h /\ r.pevents[r.watchers[h]] # {}
    <3>1. a.watchers[h] \in Kqueue!All /\ a.fd[a.watchers[h]] = h /\ a.pevents[a.watchers[h]] # {}
      BY <1>9, <2>1 DEF KqWatched, KqTyped
    <3>2. a.watchers[h] # w
      BY <1>5, <3>1
    <3> QED BY <1>9, <1>12, <3>1, <3>2
  <2>2. ASSUME NEW v \in Kqueue!All, r.pevents[v] # {} PROVE r.fd[v] # 0 /\ r.fd[v] < r.nw /\ r.watchers[r.fd[v]] = v
    <3>1. v # w
      BY <1>5, <1>9, <2>2
    <3> QED BY <1>9, <1>12, <2>2, <3>1 DEF KqWatched
  <2> QED BY <1>9, <2>1, <2>2 DEF KqWatched
<1>16. KqArmed(r)
  <2>1. ASSUME NEW v \in Kqueue!All, NEW e \in r.events[v] PROVE <<r.fd[v], e>> \in r.filters \/ <<v, e>> \in r.deleted
    <3>1. v # w /\ e \in a.events[v]
      BY <1>5, <1>9, <2>1
    <3>2. <<a.fd[v], e>> \in a.filters \/ <<v, e>> \in a.deleted
      BY <3>1 DEF KqArmed
    <3>3. a.fd[v] # f
      BY <1>4, <1>5, <3>1 DEF KqFiles
    <3>4. <<a.fd[v], e>> \in a.filters => <<a.fd[v], e>> \in fs
      BY <1>7, <3>3
    <3> QED BY <1>9, <1>12, <3>1, <3>2, <3>4
  <2> QED BY <1>9, <2>1 DEF KqArmed
<1>17. KqCounts(r)
  BY <1>9 DEF KqCounts, KqUsed
<1> QED BY <1>6, <1>9, <1>11, <1>13, <1>14, <1>15, <1>16, <1>17 DEF KqGood

\* uv__poll_stop.
LEMMA KqPollStopped ==
    ASSUME KqConstants, NEW k, KqGood(k), KqBatch(k), NEW w \in Kqueue!All
    PROVE  LET r == Kqueue!PollStopped(k, w) IN KqGood(r) /\ KqBatch(r) /\ r.fd = k.fd
<1>1. PICK s : s = Kqueue!IoStop(k, w, Kqueue!Masks)
  OBVIOUS
<1>2. KqGood(s) /\ s.pc = k.pc /\ s.batch = k.batch /\ s.children = k.children /\ s.fd = k.fd
  <2>1. Kqueue!Masks \in SUBSET Kqueue!Masks
    OBVIOUS
  <2>2. LET r == Kqueue!IoStop(k, w, Kqueue!Masks) IN
        KqGood(r) /\ r.pc = k.pc /\ r.batch = k.batch /\ r.children = k.children /\ r.fd = k.fd
    BY <2>1, KqStopped
  <2> QED BY <1>1, <2>2
<1>3. KqBatch(s)
  BY <1>2 DEF KqBatch
<1>4. PICK r : r = Kqueue!Invalidate(s, k.fd[w])
  OBVIOUS
<1>5. KqGood(r) /\ KqBatch(r) /\ r.fd = s.fd
  BY <1>2, <1>3, <1>4, KqInvalidated
<1> QED BY <1>1, <1>2, <1>4, <1>5 DEF Kqueue!PollStopped

\* The exits behind the first entry.
LEMMA KqTail ==
    ASSUME NEW b \in Seq(KqEntries), b # <<>>
    PROVE  /\ Tail(b) \in Seq(KqEntries) /\ Head(b) = b[1] /\ 1 \in DOMAIN b
           /\ \A i \in DOMAIN Tail(b) : Tail(b)[i] = b[i + 1] /\ i + 1 \in DOMAIN b
           /\ Cardinality(KqExits(Tail(b))) \in Nat
           /\ Cardinality(KqExits(b)) = (IF Head(b).filter = "PROC" THEN Cardinality(KqExits(Tail(b))) + 1
                                         ELSE Cardinality(KqExits(Tail(b))))
<1>1. PICK n \in Nat : n = Len(b) /\ n > 0
  BY EmptySeq, LenProperties
<1>2. PICK t : t = Tail(b)
  OBVIOUS
<1>3. /\ t \in Seq(KqEntries) /\ Head(b) = b[1] /\ DOMAIN b = 1..n /\ DOMAIN t = 1..(n - 1) /\ Len(t) = n - 1
      /\ \A i \in 1..(n - 1) : t[i] = b[i + 1]
  BY <1>1, <1>2, HeadTailProperties, LenProperties
<1>4. \A i \in DOMAIN t : t[i] = b[i + 1] /\ i + 1 \in DOMAIN b
  BY <1>1, <1>3
<1>5. PICK S, R : S = KqExits(t) /\ R = KqExits(b) \ {1}
  OBVIOUS
<1>6. IsFiniteSet(S) /\ Cardinality(S) \in Nat
  <2>1. IsFiniteSet(1..(n - 1)) /\ S \subseteq 1..(n - 1)
    <3>1. 1 \in Int /\ n - 1 \in Int
      BY <1>1
    <3> QED BY <1>3, <1>5, <3>1, FS_Interval DEF KqExits
  <2> QED BY <2>1, FS_Subset, FS_CardinalityType
<1>7. Cardinality(R) = Cardinality(S) /\ IsFiniteSet(R)
  <2> DEFINE h == [i \in S |-> i + 1]
  <2>1. \A i \in S : i \in 1..(n - 1) /\ b[i + 1].filter = "PROC" /\ i + 1 \in 1..n /\ i + 1 # 1
    BY <1>1, <1>3, <1>5 DEF KqExits
  <2>2. \A i \in S : i + 1 \in R
    BY <1>3, <1>5, <2>1 DEF KqExits
  <2>3. \A j \in R : j - 1 \in S /\ (j - 1) + 1 = j
    <3> SUFFICES ASSUME NEW j \in R PROVE j - 1 \in S /\ (j - 1) + 1 = j
      OBVIOUS
    <3>1. j \in 1..n /\ j # 1 /\ b[j].filter = "PROC"
      BY <1>3, <1>5 DEF KqExits
    <3>2. j - 1 \in 1..(n - 1) /\ (j - 1) + 1 = j
      BY <1>1, <3>1
    <3> QED BY <1>3, <1>5, <3>1, <3>2 DEF KqExits
  <2>4. h \in [S -> R] /\ \A i, j \in S : h[i] = h[j] => i = j
    BY <2>1, <2>2
  <2>5. \A j \in R : \E i \in S : h[i] = j
    BY <2>3
  <2>6. h \in Bijection(S, R)
    BY <2>4, <2>5 DEF Bijection, Injection, Surjection, IsInjective
  <2>7. ExistsBijection(S, R)
    BY <2>6 DEF ExistsBijection
  <2> QED BY <1>6, <2>7, FS_Bijection
<1>10. KqExits(Tail(b)) = S /\ Tail(b) = t /\ 1 \in DOMAIN b
  BY <1>1, <1>2, <1>3, <1>5
<1>8. CASE b[1].filter = "PROC"
  <2>1. KqExits(b) = R \union {1} /\ 1 \notin R
    BY <1>1, <1>3, <1>5, <1>8 DEF KqExits
  <2>2. Cardinality(R \union {1}) = Cardinality(R) + 1
    BY <1>7, <2>1, FS_AddElement
  <2> QED BY <1>3, <1>4, <1>6, <1>7, <1>8, <1>10, <2>1, <2>2
<1>9. CASE b[1].filter # "PROC"
  <2>1. KqExits(b) = R
    BY <1>5, <1>9 DEF KqExits
  <2> QED BY <1>3, <1>4, <1>6, <1>7, <1>9, <1>10, <2>1
<1> QED BY <1>8, <1>9

-----------------------------------------------------------------------------
(* The steps *)

LEMMA KqBegins ==
    ASSUME KqConstants, Kqueue!Init
    PROVE  KqInv
<1>1. /\ DOMAIN kq = KqFields /\ kq.pc = "program" /\ kq.nw = 0 /\ kq.list = 0
      /\ kq.fd = [w \in Kqueue!All |-> 0] /\ kq.pevents = [w \in Kqueue!All |-> {}] /\ kq.events = [w \in Kqueue!All |-> {}]
      /\ kq.watchers = [f \in Fds |-> Kqueue!NULL] /\ kq.queue = <<>> /\ kq.nfds = 0 /\ kq.filters = {}
      /\ kq.children = 0 /\ kq.deleted = {}
  BY DEF Kqueue!Init, KqFields
<1>2. <<>> \in Seq(Kqueue!All) /\ Distinct(<<>>) /\ \A v : ~Contains(<<>>, v)
  BY EmptyQueue
<1>3. KqTyped(kq)
  BY <1>1, <1>2 DEF KqTyped
<1>4. KqFiles(kq) /\ KqWatched(kq) /\ KqArmed(kq)
  BY <1>1, <1>2 DEF KqFiles, KqWatched, KqArmed
<1>5. KqCounts(kq)
  <2>1. KqUsed(kq) = {}
    BY <1>1 DEF KqUsed
  <2> QED BY <1>1, <2>1, FS_EmptySet DEF KqCounts
<1>6. KqBatch(kq)
  BY <1>1 DEF KqBatch
<1> QED BY <1>1, <1>3, <1>4, <1>5, <1>6 DEF KqInv, KqGood

LEMMA KqOpened ==
    ASSUME KqConstants, KqInv, NEW w \in Kqueue!All, Kqueue!Open(w)
    PROVE  KqGood(kq') /\ KqBatch(kq')
<1> DOMAIN kq = KqFields /\ KqTyped(kq) /\ KqFiles(kq) /\ KqWatched(kq) /\ KqArmed(kq) /\ KqCounts(kq) /\ KqBatch(kq)
  BY DEF KqInv, KqGood
<1>1. PICK f \in Fds : (\A v \in Kqueue!All : kq.fd[v] # f) /\ kq' = [kq EXCEPT !.fd[w] = f]
  BY DEF Kqueue!Open
<1>2. PICK fds : fds = [kq.fd EXCEPT ![w] = f]
  OBVIOUS
<1>3. /\ DOMAIN kq' = KqFields /\ kq'.fd = fds /\ kq'.pc = kq.pc /\ kq'.batch = kq.batch /\ kq'.children = kq.children
      /\ kq'.nw = kq.nw /\ kq'.list = kq.list /\ kq'.pevents = kq.pevents /\ kq'.events = kq.events
      /\ kq'.watchers = kq.watchers /\ kq'.queue = kq.queue /\ kq'.nfds = kq.nfds
      /\ kq'.filters = kq.filters /\ kq'.deleted = kq.deleted
  BY <1>1, <1>2 DEF KqFields
<1>4. fds \in [Kqueue!All -> Fds \union {0}] /\ fds[w] = f /\ \A v \in Kqueue!All : v # w => fds[v] = kq.fd[v]
  <2>1. kq.fd \in [Kqueue!All -> Fds \union {0}]
    BY KqMembers
  <2> QED BY <1>2, <2>1
<1>5. kq.fd[w] = 0 /\ kq.pevents[w] = {} /\ kq.events[w] = {}
  BY DEF Kqueue!Open, KqWatched
<1>6. KqTyped(kq')
  BY <1>3, <1>4 DEF KqTyped
<1>7. KqFiles(kq')
  <2>1. \A v, u \in Kqueue!All : v # u /\ fds[v] # 0 => fds[v] # fds[u]
    BY <1>1, <1>4 DEF KqFiles
  <2> QED BY <1>3, <2>1 DEF KqFiles
<1>8. KqWatched(kq')
  <2>1. ASSUME NEW h \in Fds, kq'.watchers[h] # Kqueue!NULL PROVE kq'.fd[kq'.watchers[h]] = h /\ kq'.pevents[kq'.watchers[h]] # {}
    <3>1. kq.watchers[h] \in Kqueue!All /\ kq.fd[kq.watchers[h]] = h /\ kq.pevents[kq.watchers[h]] # {}
      BY <1>3, <2>1 DEF KqWatched, KqTyped
    <3>2. kq.watchers[h] # w
      BY <1>5, <3>1
    <3> QED BY <1>3, <1>4, <3>1, <3>2
  <2>2. ASSUME NEW v \in Kqueue!All, kq'.pevents[v] # {} PROVE kq'.fd[v] # 0 /\ kq'.fd[v] < kq'.nw /\ kq'.watchers[kq'.fd[v]] = v
    <3>1. v # w
      BY <1>3, <1>5, <2>2
    <3> QED BY <1>3, <1>4, <2>2, <3>1 DEF KqWatched
  <2> QED BY <1>3, <2>1, <2>2 DEF KqWatched
<1>9. KqArmed(kq')
  <2>1. \A v \in Kqueue!All : kq'.events[v] # {} => fds[v] = kq.fd[v]
    BY <1>3, <1>4, <1>5
  <2> QED BY <1>3, <2>1 DEF KqArmed
<1>10. KqCounts(kq')
  BY <1>3 DEF KqCounts, KqUsed
<1>11. KqBatch(kq')
  BY <1>3 DEF KqBatch
<1> QED BY <1>3, <1>6, <1>7, <1>8, <1>9, <1>10, <1>11 DEF KqGood

LEMMA KqRegistered ==
    ASSUME KqConstants, KqInv, Kqueue!Register
    PROVE  KqGood(kq') /\ KqBatch(kq')
<1> DOMAIN kq = KqFields /\ KqTyped(kq) /\ KqFiles(kq) /\ KqWatched(kq) /\ KqArmed(kq) /\ KqCounts(kq) /\ KqBatch(kq)
  BY DEF KqInv, KqGood
<1>1. PICK new : new = {x \in Kqueue!Range(kq.queue) \X Kqueue!Masks : x[2] \in kq.pevents[x[1]] \ kq.events[x[1]]}
  OBVIOUS
<1>2. PICK fs, d, ev : /\ fs = kq.filters \union {<<kq.fd[x[1]], x[2]>> : x \in new} /\ d = kq.deleted \ new
                       /\ ev = [w \in Kqueue!All |-> IF w \in Kqueue!Range(kq.queue) THEN kq.pevents[w] ELSE kq.events[w]]
  OBVIOUS
<1>3. kq.pc = "program" /\ kq' = [kq EXCEPT !.queue = <<>>, !.pc = "poll",
        !.filters = @ \union {<<kq.fd[x[1]], x[2]>> : x \in new}, !.deleted = @ \ new,
        !.events = [w \in Kqueue!All |-> IF w \in Kqueue!Range(kq.queue) THEN kq.pevents[w] ELSE @[w]]]
  BY <1>1 DEF Kqueue!Register
<1>4. /\ DOMAIN kq' = KqFields /\ kq'.fd = kq.fd /\ kq'.pc = "poll" /\ kq'.children = kq.children
      /\ kq'.nw = kq.nw /\ kq'.list = kq.list /\ kq'.pevents = kq.pevents /\ kq'.events = ev
      /\ kq'.watchers = kq.watchers /\ kq'.queue = <<>> /\ kq'.nfds = kq.nfds
      /\ kq'.filters = fs /\ kq'.deleted = d
  BY <1>2, <1>3 DEF KqFields
<1>5. \A v : v \in Kqueue!Range(kq.queue) <=> Contains(kq.queue, v)
  BY SetOfQueue, KqOps DEF KqTyped
<1>6. \A v : Contains(kq.queue, v) => v \in Kqueue!All
  BY RangeQueue DEF KqTyped
<1>7. \A w \in Kqueue!All : ev[w] = (IF Contains(kq.queue, w) THEN kq.pevents[w] ELSE kq.events[w])
  BY <1>2, <1>5
<1>8. ev \in [Kqueue!All -> SUBSET Kqueue!Masks]
  <2>1. \A w \in Kqueue!All : kq.pevents[w] \in SUBSET Kqueue!Masks /\ kq.events[w] \in SUBSET Kqueue!Masks
    BY KqMembers
  <2> QED BY <1>2, <2>1
<1>9. \A w \in Kqueue!All : \A e \in Kqueue!Masks : <<w, e>> \in new <=> Contains(kq.queue, w) /\ e \in kq.pevents[w] /\ e \notin kq.events[w]
  BY <1>1, <1>5
<1>10. \A x \in new : <<kq.fd[x[1]], x[2]>> \in Fds \X Kqueue!Masks
  <2> SUFFICES ASSUME NEW x \in new PROVE <<kq.fd[x[1]], x[2]>> \in Fds \X Kqueue!Masks
    OBVIOUS
  <2>1. x[1] \in Kqueue!All /\ x[2] \in Kqueue!Masks /\ kq.pevents[x[1]] # {}
    BY <1>1, <1>5, <1>6 DEF KqWatched
  <2>2. kq.fd[x[1]] \in Fds
    BY <2>1 DEF KqWatched, KqTyped
  <2> QED BY <2>1, <2>2
<1>11. KqTyped(kq')
  <2>1. \A x \in fs : x \in Fds \X Kqueue!Masks
    BY <1>2, <1>10 DEF KqTyped
  <2>2. <<>> \in Seq(Kqueue!All) /\ Distinct(<<>>)
    BY EmptyQueue
  <2> QED BY <1>4, <1>8, <2>1, <2>2 DEF KqTyped
<1>12. KqFiles(kq')
  BY <1>4 DEF KqFiles
<1>13. KqWatched(kq')
  <2>1. \A v \in Kqueue!All : kq'.events[v] # {} => kq.pevents[v] # {}
    BY <1>4, <1>7 DEF KqWatched
  <2> QED BY <1>4, <2>1, EmptyQueue DEF KqWatched
<1>14. KqArmed(kq')
  <2>1. ASSUME NEW w \in Kqueue!All, NEW e \in kq'.events[w] PROVE <<kq'.fd[w], e>> \in kq'.filters \/ <<w, e>> \in kq'.deleted
    <3>1. e \in Kqueue!Masks
      BY <1>4, <1>8
    <3>2. CASE e \in kq.events[w]
      <4>1. <<w, e>> \notin new /\ (<<kq.fd[w], e>> \in kq.filters \/ <<w, e>> \in kq.deleted)
        BY <1>9, <3>1, <3>2 DEF KqArmed
      <4> QED BY <1>2, <1>4, <4>1
    <3>3. CASE e \notin kq.events[w]
      <4>1. <<w, e>> \in new
        BY <1>4, <1>7, <1>9, <2>1, <3>1, <3>3
      <4>2. <<kq.fd[w], e>> \in {<<kq.fd[x[1]], x[2]>> : x \in new}
        BY <4>1
      <4> QED BY <1>2, <1>4, <4>2
    <3> QED BY <3>2, <3>3
  <2>2. ASSUME NEW w \in Kqueue!All, NEW e \in kq'.pevents[w] PROVE e \in kq'.events[w]
    BY <1>4, <1>7, <2>2 DEF KqArmed
  <2> QED BY <2>1, <2>2 DEF KqArmed
<1>15. KqCounts(kq')
  BY <1>4 DEF KqCounts, KqUsed
<1>16. KqBatch(kq')
  BY <1>3, <1>4 DEF KqBatch
<1> QED BY <1>4, <1>11, <1>12, <1>13, <1>14, <1>15, <1>16 DEF KqGood

LEMMA KqReported ==
    ASSUME KqConstants, KqInv, Kqueue!Kevent
    PROVE  KqGood(kq') /\ KqBatch(kq')
<1> DOMAIN kq = KqFields /\ KqTyped(kq) /\ KqGood(kq)
  BY DEF KqInv, KqGood
<1>1. PICK b \in UNION {[1..n -> {e \in Kqueue!Entries : e.filter = "PROC" \/ <<e.fd, e.filter>> \in kq.filters}] : n \in 1..Full} :
        kq' = [kq EXCEPT !.batch = b, !.full = Len(b) = Full, !.list = kq.nw, !.pc = "dispatch",
                         !.children = Kqueue!Cardinality({i \in DOMAIN b : b[i].filter = "PROC"})]
  BY DEF Kqueue!Kevent
<1>2. PICK n \in 1..Full : b \in [1..n -> {e \in Kqueue!Entries : e.filter = "PROC" \/ <<e.fd, e.filter>> \in kq.filters}]
  OBVIOUS
<1>3. DOMAIN b = 1..n /\ \A i \in 1..n : b[i] \in KqEntries /\ b[i].fd # -1
  <2>1. DOMAIN b = 1..n /\ \A i \in 1..n : b[i] \in Kqueue!Entries
    BY <1>2
  <2>2. \A f \in Fds : f # -1
    BY KqNumbers
  <2> QED BY <2>1, <2>2 DEF Kqueue!Entries, KqEntries
<1>4. b \in Seq(KqEntries)
  <2>1. n \in Nat /\ b \in [1..n -> KqEntries]
    BY <1>2, <1>3 DEF KqConstants
  <2> QED BY <2>1
<1>5. Kqueue!Cardinality({i \in DOMAIN b : b[i].filter = "PROC"}) = Cardinality(KqExits(b))
  BY KqOps DEF KqExits
<1>6. PICK m : m = Cardinality(KqExits(b))
  OBVIOUS
<1>7. kq' = [kq EXCEPT !.batch = b, !.full = Len(b) = Full, !.list = kq.nw, !.pc = "dispatch", !.children = m]
  BY <1>1, <1>5, <1>6
<1>8. /\ DOMAIN kq' = KqFields /\ kq'.batch = b /\ kq'.pc = "dispatch" /\ kq'.children = m
      /\ kq'.list \in {0, kq'.nw} /\ kq'.nw = kq.nw /\ kq'.fd = kq.fd
      /\ kq'.pevents = kq.pevents /\ kq'.events = kq.events /\ kq'.watchers = kq.watchers
      /\ kq'.queue = kq.queue /\ kq'.nfds = kq.nfds /\ kq'.filters = kq.filters
      /\ kq'.deleted = kq.deleted
  BY <1>7 DEF KqFields
<1>9. KqBatch(kq')
  BY <1>3, <1>4, <1>6, <1>8 DEF KqBatch
<1>10. KqGood(kq')
  BY <1>8, KqSameWatchers
<1> QED BY <1>9, <1>10

LEMMA KqDispatched ==
    ASSUME KqConstants, KqInv, Kqueue!Dispatch
    PROVE  KqGood(kq') /\ KqBatch(kq')
<1> DOMAIN kq = KqFields /\ KqTyped(kq) /\ KqFiles(kq) /\ KqWatched(kq) /\ KqArmed(kq) /\ KqCounts(kq) /\ KqBatch(kq) /\ KqGood(kq)
  BY DEF KqInv, KqGood
<1>1. kq.pc = "dispatch" /\ kq.batch # <<>> /\ kq.batch \in Seq(KqEntries) /\ kq.children = Cardinality(KqExits(kq.batch))
  BY DEF Kqueue!Dispatch, KqBatch
<1>2. PICK e, t : e = Head(kq.batch) /\ t = Tail(kq.batch)
  OBVIOUS
<1>3. /\ t \in Seq(KqEntries) /\ \A i \in DOMAIN t : t[i].filter = "PROC" => t[i].fd # -1
      /\ e.filter = "PROC" => e.fd # -1
      /\ Cardinality(KqExits(t)) \in Nat
      /\ kq.children = (IF e.filter = "PROC" THEN Cardinality(KqExits(t)) + 1 ELSE Cardinality(KqExits(t)))
  BY <1>1, <1>2, KqTail DEF KqBatch
<1>4. PICK k : k = [kq EXCEPT !.batch = Tail(@)]
  OBVIOUS
<1>5. /\ k.batch = t
      /\ DOMAIN k = KqFields /\ k.pc = kq.pc /\ k.children = kq.children /\ k.list = kq.list
      /\ k.nw = kq.nw /\ k.fd = kq.fd /\ k.pevents = kq.pevents /\ k.events = kq.events
      /\ k.watchers = kq.watchers /\ k.queue = kq.queue /\ k.nfds = kq.nfds
      /\ k.filters = kq.filters /\ k.deleted = kq.deleted
  BY <1>2, <1>4 DEF KqFields
<1>6. kq' = IF e.filter = "PROC"
            THEN [k EXCEPT !.reap = TRUE, !.children = IF e.fd = -1 THEN @ ELSE @ - 1]
            ELSE IF e.fd = -1 THEN k
            ELSE IF Kqueue!Unwanted(k, e)
            THEN [k EXCEPT !.filters = @ \ {<<e.fd, e.filter>>},
                     !.deleted = @ \union {<<w, e.filter>> : w \in {w \in Kqueue!All :
                         k.fd[w] = e.fd /\ e.filter \in k.events[w]}}]
            ELSE [k EXCEPT !.pc = "callback", !.wrong = @ \/ e.stale]
  BY <1>2, <1>4 DEF Kqueue!Dispatch
<1>7. CASE e.filter = "PROC"
  <2>1. kq' = [k EXCEPT !.reap = TRUE, !.children = IF e.fd = -1 THEN @ ELSE @ - 1]
    BY <1>6, <1>7
  <2>2. PICK m : m = (IF e.fd = -1 THEN kq.children ELSE kq.children - 1)
    OBVIOUS
  <2>3. kq' = [k EXCEPT !.reap = TRUE, !.children = m]
    BY <1>5, <2>1, <2>2
  <2>4. /\ DOMAIN kq' = KqFields /\ kq'.batch = t /\ kq'.pc = kq.pc /\ kq'.children = m
        /\ kq'.list = kq.list /\ kq'.nw = kq.nw /\ kq'.fd = kq.fd
        /\ kq'.pevents = kq.pevents /\ kq'.events = kq.events /\ kq'.watchers = kq.watchers
        /\ kq'.queue = kq.queue /\ kq'.nfds = kq.nfds /\ kq'.filters = kq.filters
        /\ kq'.deleted = kq.deleted
    BY <1>5, <2>3 DEF KqFields
  <2>5. m = Cardinality(KqExits(t))
    BY <1>3, <1>7, <2>2
  <2>6. KqBatch(kq')
    BY <1>1, <1>3, <2>4, <2>5 DEF KqBatch
  <2>7. KqGood(kq')
    BY <2>4, KqSameWatchers DEF KqTyped
  <2> QED BY <2>6, <2>7
<1>8. CASE e.filter # "PROC" /\ e.fd = -1
  <2>1. kq' = k
    BY <1>6, <1>8
  <2>2. KqBatch(kq')
    BY <1>1, <1>3, <1>5, <1>8, <2>1 DEF KqBatch
  <2>3. KqGood(kq')
    BY <1>5, <2>1, KqSameWatchers DEF KqTyped
  <2> QED BY <2>2, <2>3
<1>9. CASE e.filter # "PROC" /\ e.fd # -1 /\ ~Kqueue!Unwanted(k, e)
  <2>1. kq' = [k EXCEPT !.pc = "callback", !.wrong = @ \/ e.stale]
    BY <1>6, <1>9
  <2>2. /\ DOMAIN kq' = KqFields /\ kq'.batch = t /\ kq'.pc = "callback"
        /\ kq'.children = kq.children /\ kq'.list = kq.list /\ kq'.nw = kq.nw
        /\ kq'.fd = kq.fd /\ kq'.pevents = kq.pevents /\ kq'.events = kq.events
        /\ kq'.watchers = kq.watchers /\ kq'.queue = kq.queue /\ kq'.nfds = kq.nfds
        /\ kq'.filters = kq.filters /\ kq'.deleted = kq.deleted
    BY <1>5, <2>1 DEF KqFields
  <2>3. KqBatch(kq')
    BY <1>1, <1>3, <1>9, <2>2 DEF KqBatch
  <2>4. KqGood(kq')
    BY <2>2, KqSameWatchers DEF KqTyped
  <2> QED BY <2>3, <2>4
<1>10. CASE e.filter # "PROC" /\ e.fd # -1 /\ Kqueue!Unwanted(k, e)
  <2>1. kq' = [k EXCEPT !.filters = @ \ {<<e.fd, e.filter>>},
                     !.deleted = @ \union {<<w, e.filter>> : w \in {w \in Kqueue!All :
                         k.fd[w] = e.fd /\ e.filter \in k.events[w]}}]
    BY <1>6, <1>10
  <2>2. PICK fs, d : /\ fs = kq.filters \ {<<e.fd, e.filter>>}
                     /\ d = kq.deleted \union {<<w, e.filter>> : w \in {w \in Kqueue!All : kq.fd[w] = e.fd /\ e.filter \in kq.events[w]}}
    OBVIOUS
  <2>3. kq' = [k EXCEPT !.filters = fs, !.deleted = d]
    BY <1>5, <2>1, <2>2
  <2>4. /\ DOMAIN kq' = KqFields /\ kq'.filters = fs /\ kq'.deleted = d /\ kq'.batch = t
        /\ kq'.pc = kq.pc /\ kq'.children = kq.children /\ kq'.list = kq.list
        /\ kq'.nw = kq.nw /\ kq'.fd = kq.fd /\ kq'.pevents = kq.pevents
        /\ kq'.events = kq.events /\ kq'.watchers = kq.watchers /\ kq'.queue = kq.queue
        /\ kq'.nfds = kq.nfds
    BY <1>1, <1>5, <2>3 DEF KqFields
  <2>5. KqTyped(kq')
    BY <2>2, <2>4 DEF KqTyped
  <2>6. KqFiles(kq') /\ KqWatched(kq')
    BY <2>4 DEF KqFiles, KqWatched
  <2>7. KqArmed(kq')
    <3>1. ASSUME NEW w \in Kqueue!All, NEW x \in kq.events[w] PROVE <<kq.fd[w], x>> \in fs \/ <<w, x>> \in d
      <4>1. <<kq.fd[w], x>> \in kq.filters \/ <<w, x>> \in kq.deleted
        BY DEF KqArmed
      <4>2. CASE kq.fd[w] = e.fd /\ x = e.filter
        BY <2>2, <4>2
      <4>3. CASE ~(kq.fd[w] = e.fd /\ x = e.filter)
        BY <2>2, <4>1, <4>3
      <4> QED BY <4>2, <4>3
    <3> QED BY <2>4, <3>1 DEF KqArmed
  <2>8. KqCounts(kq')
    BY <2>4 DEF KqCounts, KqUsed
  <2>9. KqBatch(kq')
    BY <1>1, <1>3, <1>10, <2>4 DEF KqBatch
  <2> QED BY <2>4, <2>5, <2>6, <2>7, <2>8, <2>9 DEF KqGood
<1> QED BY <1>7, <1>8, <1>9, <1>10

LEMMA KqStep ==
    ASSUME KqConstants, KqInv, Kqueue!Next
    PROVE  KqInv'
<1> KqGood(kq) /\ KqBatch(kq) /\ DOMAIN kq = KqFields /\ KqTyped(kq)
  BY DEF KqInv, KqGood
<1> SUFFICES KqGood(kq') /\ KqBatch(kq')
  BY DEF KqInv
<1>1. ASSUME NEW w \in Kqueue!All, Kqueue!Open(w) PROVE KqGood(kq') /\ KqBatch(kq')
  BY <1>1, KqOpened
<1>2. ASSUME NEW w \in Kqueue!All, Kqueue!Close(w) PROVE KqGood(kq') /\ KqBatch(kq')
  BY <1>2, KqClosed DEF Kqueue!Close
<1>3. ASSUME NEW w \in Kqueue!All, Kqueue!PollStop(w) PROVE KqGood(kq') /\ KqBatch(kq')
  BY <1>3, KqPollStopped DEF Kqueue!PollStop
<1>4. ASSUME NEW w \in Kqueue!All, NEW e \in Kqueue!Masks, Kqueue!Start(w, e) PROVE KqGood(kq') /\ KqBatch(kq')
  <2>1. kq' = Kqueue!IoStart(kq, w, {e}) /\ kq.fd[w] # 0 /\ {e} \in SUBSET Kqueue!Masks /\ {e} # {}
    BY <1>4 DEF Kqueue!Start
  <2>2. KqGood(kq') /\ kq'.pc = kq.pc /\ kq'.batch = kq.batch /\ kq'.children = kq.children
    BY <2>1, KqStarted
  <2> QED BY <2>2 DEF KqBatch
<1>5. ASSUME NEW w \in Kqueue!All, NEW e \in Kqueue!Masks, Kqueue!Stop(w, e) PROVE KqGood(kq') /\ KqBatch(kq')
  <2>1. kq' = Kqueue!IoStop(kq, w, {e}) /\ {e} \in SUBSET Kqueue!Masks
    BY <1>5 DEF Kqueue!Stop
  <2>2. KqGood(kq') /\ kq'.pc = kq.pc /\ kq'.batch = kq.batch /\ kq'.children = kq.children
    BY <2>1, KqStopped
  <2> QED BY <2>2 DEF KqBatch
<1>6. ASSUME NEW w \in Kqueue!All, NEW mask \in SUBSET Kqueue!Masks, Kqueue!PollStart(w, mask) PROVE KqGood(kq') /\ KqBatch(kq')
  <2>1. PICK k : k = Kqueue!PollStopped(kq, w)
    OBVIOUS
  <2>2. KqGood(k) /\ KqBatch(k) /\ k.fd = kq.fd
    BY <2>1, KqPollStopped
  <2>3. CASE mask = {}
    BY <1>6, <2>1, <2>2, <2>3 DEF Kqueue!PollStart
  <2>4. CASE mask # {}
    <3>1. kq' = Kqueue!IoStart(k, w, mask) /\ k.fd[w] # 0
      BY <1>6, <2>1, <2>2, <2>4 DEF Kqueue!PollStart
    <3>2. KqGood(kq') /\ kq'.pc = k.pc /\ kq'.batch = k.batch /\ kq'.children = k.children
      BY <2>2, <2>4, <3>1, KqStarted
    <3> QED BY <2>2, <3>2 DEF KqBatch
  <2> QED BY <2>3, <2>4
<1>7. CASE Kqueue!Register
  BY <1>7, KqRegistered
<1>8. CASE Kqueue!Kevent
  BY <1>8, KqReported
<1>9. CASE Kqueue!Timeout
  <2>1. /\ DOMAIN kq' = KqFields /\ kq'.pc = "program" /\ kq'.children = kq.children
        /\ kq'.list = kq.list /\ kq'.nw = kq.nw /\ kq'.fd = kq.fd
        /\ kq'.pevents = kq.pevents /\ kq'.events = kq.events /\ kq'.watchers = kq.watchers
        /\ kq'.queue = kq.queue /\ kq'.nfds = kq.nfds /\ kq'.filters = kq.filters
        /\ kq'.deleted = kq.deleted
    BY <1>9 DEF Kqueue!Timeout, KqFields
  <2>2. KqGood(kq')
    BY <2>1, KqSameWatchers DEF KqTyped
  <2> QED BY <1>9, <2>1, <2>2 DEF KqBatch, Kqueue!Timeout
<1>10. CASE Kqueue!Dispatch
  BY <1>10, KqDispatched
<1>11. CASE Kqueue!CallbackReturns
  <2>1. /\ DOMAIN kq' = KqFields /\ kq'.pc = "dispatch" /\ kq'.batch = kq.batch
        /\ kq'.children = kq.children /\ kq'.list = kq.list /\ kq'.nw = kq.nw
        /\ kq'.fd = kq.fd /\ kq'.pevents = kq.pevents /\ kq'.events = kq.events
        /\ kq'.watchers = kq.watchers /\ kq'.queue = kq.queue /\ kq'.nfds = kq.nfds
        /\ kq'.filters = kq.filters /\ kq'.deleted = kq.deleted
    BY <1>11 DEF Kqueue!CallbackReturns, KqFields
  <2>2. KqGood(kq')
    BY <2>1, KqSameWatchers DEF KqTyped
  <2> QED BY <1>11, <2>1, <2>2 DEF KqBatch, Kqueue!CallbackReturns
<1>12. CASE Kqueue!Walked
  <2>1. PICK again \in {FALSE, kq.full} :
          kq' = [kq EXCEPT !.reap = FALSE, !.list = 0, !.full = FALSE, !.pc = IF again THEN "poll" ELSE "program"]
    BY <1>12 DEF Kqueue!Walked
  <2>2. PICK pc \in {"poll", "program"} : pc = (IF again THEN "poll" ELSE "program")
    OBVIOUS
  <2>3. /\ DOMAIN kq' = KqFields /\ kq'.pc = pc /\ kq'.children = kq.children
        /\ kq'.list \in {0, kq'.nw} /\ kq'.nw = kq.nw /\ kq'.fd = kq.fd
        /\ kq'.pevents = kq.pevents /\ kq'.events = kq.events /\ kq'.watchers = kq.watchers
        /\ kq'.queue = kq.queue /\ kq'.nfds = kq.nfds /\ kq'.filters = kq.filters
        /\ kq'.deleted = kq.deleted
    BY <2>1, <2>2 DEF KqFields
  <2>4. KqGood(kq')
    BY <2>3, KqSameWatchers
  <2>5. kq.children = 0
    <3>1. kq.batch = <<>> /\ kq.children = Cardinality(KqExits(kq.batch))
      BY <1>12 DEF Kqueue!Walked, KqBatch
    <3>2. KqExits(<<>>) = {}
      BY DEF KqExits
    <3> QED BY <3>1, <3>2, FS_EmptySet
  <2> QED BY <2>3, <2>4, <2>5 DEF KqBatch
<1> QED BY <1>1, <1>2, <1>3, <1>4, <1>5, <1>6, <1>7, <1>8, <1>9, <1>10, <1>11, <1>12 DEF Kqueue!Next

LEMMA KqKeeps ==
    ASSUME KqConstants, KqInv
    PROVE  Kqueue!TypeOK /\ Kqueue!CountsAreExact /\ Kqueue!AssertsHold /\ Kqueue!NoExitLost /\ Kqueue!NothingStranded
<1> DOMAIN kq = KqFields /\ KqTyped(kq) /\ KqFiles(kq) /\ KqWatched(kq) /\ KqArmed(kq) /\ KqCounts(kq) /\ KqBatch(kq)
  BY DEF KqInv, KqGood
<1>1. /\ \A v : v \in Kqueue!Range(kq.queue) <=> Contains(kq.queue, v)
      /\ \A v : Contains(kq.queue, v) => v \in Kqueue!All
  BY SetOfQueue, RangeQueue, KqOps DEF KqTyped
<1>2. Kqueue!TypeOK
  <2>1. kq.filters \subseteq Fds \X Kqueue!Masks
    BY DEF KqTyped
  <2> QED BY <2>1 DEF Kqueue!TypeOK, KqTyped, KqBatch
<1>3. Kqueue!CountsAreExact
  BY KqOps DEF Kqueue!CountsAreExact, KqCounts, KqUsed, KqWatched
<1>4. Kqueue!AssertsHold
  <2>1. \A i \in DOMAIN kq.queue : Contains(kq.queue, kq.queue[i])
    BY LenProperties DEF KqTyped, Contains
  <2>2. ASSUME NEW w, Contains(kq.queue, w)
        PROVE  kq.pevents[w] # {} /\ kq.fd[w] > 0 /\ kq.fd[w] < kq.nw /\ kq.nfds # 0
    <3>1. w \in Kqueue!All /\ kq.pevents[w] # {} /\ kq.fd[w] # 0 /\ kq.fd[w] < kq.nw /\ kq.watchers[kq.fd[w]] = w
      BY <1>1, <2>2 DEF KqWatched
    <3>2. kq.fd[w] \in Fds /\ w # Kqueue!NULL
      BY <3>1 DEF KqTyped, KqConstants
    <3>3. KqUsed(kq) # {} /\ KqUsed(kq) \in SUBSET Fds
      BY <3>1, <3>2 DEF KqUsed
    <3>4. kq.fd[w] > 0
      BY <3>2, KqNumbers
    <3>5. kq.nfds # 0
      BY <3>3, KqSizes DEF KqCounts
    <3> QED BY <3>1, <3>4, <3>5
  <2>3. kq.nfds = 0 => kq.queue = <<>>
    <3>1. ASSUME kq.queue # <<>> PROVE Contains(kq.queue, Head(kq.queue))
      <4>1. kq.queue \in Seq(Kqueue!All)
        BY DEF KqTyped
      <4> QED BY <3>1, <4>1, TailQueue
    <3> QED BY <2>2, <3>1
  <2> QED BY <2>1, <2>2, <2>3 DEF Kqueue!AssertsHold
<1>5. Kqueue!NoExitLost
  BY DEF Kqueue!NoExitLost, KqBatch
<1>6. Kqueue!NothingStranded
  BY <1>1 DEF Kqueue!NothingStranded, KqArmed
<1> QED BY <1>2, <1>3, <1>4, <1>5, <1>6

LEMMA KqChanges ==
    ASSUME KqConstants, KqInv, [Kqueue!Next]_kq
    PROVE  KqInv'
<1>1. CASE Kqueue!Next
  BY <1>1, KqStep
<1>2. CASE UNCHANGED kq
  BY <1>2 DEF KqInv
<1> QED BY <1>1, <1>2

\* kqueue, for any watchers and descriptors: nfds counts the watched ones, the assertions of
\* uv__io_poll hold, a watcher with events to hear of is armed in the kernel or queued, and the exit
\* of a child is not lost between two batches.
THEOREM KqueueCorrect ==
    ASSUME KqConstants
    PROVE  Kqueue!Spec => [](Kqueue!TypeOK /\ Kqueue!CountsAreExact /\ Kqueue!AssertsHold /\
                             Kqueue!NoExitLost /\ Kqueue!NothingStranded)
<1>1. ASSUME Kqueue!Init PROVE KqInv
  BY <1>1, KqBegins
<1>2. ASSUME KqInv, [Kqueue!Next]_kq PROVE KqInv'
  BY <1>2, KqChanges
<1>3. KqInv => Kqueue!TypeOK /\ Kqueue!CountsAreExact /\ Kqueue!AssertsHold /\ Kqueue!NoExitLost /\
              Kqueue!NothingStranded
  BY KqKeeps
<1> QED BY <1>1, <1>2, <1>3, PTL DEF Kqueue!Spec

-----------------------------------------------------------------------------
(* File polling *)

FspConstants == (\E n \in Nat : Contexts = 1..n) /\ -1 \notin Versions

FspFields ==
    {"made", "list", "at", "busy", "seen", "active", "closing", "pending", "closed", "cb", "last",
     "twice", "current"}

FspTyped ==
    /\ fsp.made \in Nat /\ fsp.cb \in Nat /\ fsp.pending \in Nat
    /\ fsp.list \in Seq(Contexts)
    /\ fsp.at \in [Contexts -> {"none", "stat", "poll_cb", "timer", "closing", "freed"}]
    /\ fsp.active \in BOOLEAN /\ fsp.closing \in BOOLEAN /\ fsp.closed \in BOOLEAN

\* A context is made once, is in the list until it is freed, newer ones before it, and its
\* callback is the one that runs while it is in poll_cb.
Descending(q) == \A i, j \in 1..Len(q) : i < j => q[i] > q[j]

FspLists ==
    /\ Descending(fsp.list) /\ Distinct(fsp.list)
    /\ \A c \in Contexts :
         /\ fsp.at[c] = "none" <=> c > fsp.made
         /\ Contains(fsp.list, c) <=> c <= fsp.made /\ fsp.at[c] # "freed"
         /\ fsp.at[c] = "poll_cb" <=> fsp.cb = c
    /\ fsp.cb # 0 => fsp.cb \in Contexts

\* The newest context works for the handle while that is active.
FspWorks == fsp.active =>
    /\ fsp.made \in Contexts /\ fsp.at[fsp.made] \in {"stat", "poll_cb", "timer"} /\ ~fsp.closing

\* Closing goes on until the last context is freed; then the handle is finished once.
FspCloses ==
    /\ fsp.pending > 0 \/ fsp.closed => fsp.closing /\ fsp.list = <<>>
    /\ fsp.pending <= 1
    /\ fsp.closing => fsp.closed \/ fsp.pending = 1 \/ fsp.list # <<>>

FspMade == fsp.made = 0 \/ fsp.made \in Contexts

FspInv == /\ DOMAIN fsp = FspFields /\ FspTyped /\ FspLists /\ FspMade /\ FspWorks /\ FspCloses

LEMMA FspOps ==
    /\ \A q, x : FsPoll!Unlink(q, x) = Unlink(q, x)
    /\ \A q : FsPoll!Range(q) = Range(q)
    /\ \A S : FsPoll!Cardinality(S) = Cardinality(S)
<1>1. \A q, x : FsPoll!Unlink(q, x) = Unlink(q, x)
  BY DEF FsPoll!Unlink, Unlink
<1>2. \A q : FsPoll!Range(q) = Range(q)
  BY DEF FsPoll!Range, Range
<1>3. \A S : FsPoll!Cardinality(S) = Cardinality(S)
  BY DEF FsPoll!Cardinality, Cardinality
<1> QED BY <1>1, <1>2, <1>3

LEMMA FspCount ==
    ASSUME FspConstants
    PROVE  /\ Cardinality(Contexts) \in Nat /\ Contexts = 1..Cardinality(Contexts)
           /\ Contexts \subseteq Nat /\ 0 \notin Contexts
<1>1. PICK n \in Nat : Contexts = 1..n
  BY DEF FspConstants
<1>2. Cardinality(1..n) = n
  BY FS_Interval
<1> QED BY <1>1, <1>2

LEMMA PushDescending ==
    ASSUME NEW S, S \subseteq Nat, NEW q \in Seq(S), NEW c \in S, Descending(q),
           \A y \in S : Contains(q, y) => y < c
    PROVE  Descending(<<c>> \o q)
<1>1. /\ Len(<<c>> \o q) = Len(q) + 1 /\ (<<c>> \o q)[1] = c
      /\ \A i \in 1..Len(q) : (<<c>> \o q)[i + 1] = q[i]
  BY ConcatProperties, LenProperties
<1>2. \A i \in 2..Len(<<c>> \o q) : i - 1 \in 1..Len(q) /\ (<<c>> \o q)[i] = q[i - 1] /\ q[i - 1] \in S
  <2> TAKE i \in 2..Len(<<c>> \o q)
  <2>1. i - 1 \in 1..Len(q) /\ (i - 1) + 1 = i
    BY <1>1, LenProperties
  <2> QED BY <1>1, <2>1, ElementOfSeq
<1>3. \A i \in 1..Len(q) : Contains(q, q[i]) /\ q[i] \in S
  BY ElementOfSeq DEF Contains
<1>4. ASSUME NEW i \in 1..Len(<<c>> \o q), NEW j \in 1..Len(<<c>> \o q), i < j
      PROVE  (<<c>> \o q)[i] > (<<c>> \o q)[j]
  <2>0. Len(q) \in Nat
    BY LenProperties
  <2>1. CASE i = 1
    <3>1. j \in 2..Len(<<c>> \o q)
      BY <1>1, <1>4, <2>0, <2>1
    <3>2. (<<c>> \o q)[j] = q[j - 1] /\ q[j - 1] < c /\ (<<c>> \o q)[i] = c /\ q[j - 1] \in S
      BY <1>1, <1>2, <1>3, <2>1, <3>1
    <3> QED BY <3>2
  <2>2. CASE i # 1
    <3>1. i \in 2..Len(<<c>> \o q) /\ j \in 2..Len(<<c>> \o q) /\ i - 1 < j - 1
      BY <1>1, <1>4, <2>0, <2>2
    <3>2. /\ (<<c>> \o q)[i] = q[i - 1] /\ (<<c>> \o q)[j] = q[j - 1]
          /\ i - 1 \in 1..Len(q) /\ j - 1 \in 1..Len(q)
      BY <1>2, <3>1
    <3> QED BY <3>1, <3>2 DEF Descending
  <2> QED BY <2>1, <2>2
<1> QED BY <1>4 DEF Descending

LEMMA UnlinkDescending ==
    ASSUME NEW S, S \subseteq Nat, NEW q \in Seq(S), NEW c, Contains(q, c), Descending(q)
    PROVE  Descending(Unlink(q, c))
<1>1. PICK k \in 1..Len(q) : /\ Len(Unlink(q, c)) = Len(q) - 1
             /\ \A i \in 1..(Len(q) - 1) : Unlink(q, c)[i] = IF i < k THEN q[i] ELSE q[i + 1]
  BY UnlinkIndices
<1>2. ASSUME NEW i \in 1..Len(Unlink(q, c)), NEW j \in 1..Len(Unlink(q, c)), i < j
      PROVE  Unlink(q, c)[i] > Unlink(q, c)[j]
  <2>1. PICK a \in 1..Len(q) : Unlink(q, c)[i] = q[a] /\ (a = i \/ (a = i + 1 /\ ~(i < k)))
    <3>1. i \in 1..(Len(q) - 1) /\ Len(q) \in Nat
      BY <1>1, LenProperties
    <3>2. CASE i < k
      BY <1>1, <3>1, <3>2
    <3>3. CASE ~(i < k)
      <4>1. i + 1 \in 1..Len(q) /\ Unlink(q, c)[i] = q[i + 1]
        BY <1>1, <3>1, <3>3
      <4> QED BY <3>3, <4>1
    <3> QED BY <3>2, <3>3
  <2>2. PICK b \in 1..Len(q) : Unlink(q, c)[j] = q[b] /\ ((b = j /\ j < k) \/ b = j + 1)
    <3>1. j \in 1..(Len(q) - 1) /\ Len(q) \in Nat
      BY <1>1, LenProperties
    <3>2. CASE j < k
      BY <1>1, <3>1, <3>2
    <3>3. CASE ~(j < k)
      <4>1. j + 1 \in 1..Len(q) /\ Unlink(q, c)[j] = q[j + 1]
        BY <1>1, <3>1, <3>3
      <4> QED BY <4>1
    <3> QED BY <3>2, <3>3
  <2>3. a < b
    BY <1>1, <1>2, <2>1, <2>2, LenProperties
  <2> QED BY <2>1, <2>2, <2>3 DEF Descending
<1> QED BY <1>2 DEF Descending

\* The newest context that is not freed is the head of the list.
LEMMA FspHead ==
    ASSUME FspConstants, FspInv, fsp.active
    PROVE  fsp.list # <<>> /\ Head(fsp.list) = fsp.made
<1>1. Contains(fsp.list, fsp.made) /\ fsp.list \in Seq(Contexts) /\ Contexts \subseteq Nat
  BY FspCount DEF FspInv, FspWorks, FspLists, FspTyped
<1>2. PICK i \in 1..Len(fsp.list) : fsp.list[i] = fsp.made
  BY <1>1 DEF Contains
<1>3. Len(fsp.list) \in Nat /\ fsp.list # <<>> /\ Head(fsp.list) = fsp.list[1] /\ 1 \in 1..Len(fsp.list)
  BY <1>1, <1>2, LenProperties, EmptySeq
<1>4. fsp.list[1] \in Contexts /\ fsp.list[1] <= fsp.made
  <2>1. fsp.list[1] \in Contexts /\ Contains(fsp.list, fsp.list[1])
    BY <1>1, <1>3, ElementOfSeq DEF Contains
  <2> QED BY <2>1 DEF FspInv, FspLists
<1>5. CASE i = 1
  BY <1>2, <1>3, <1>5
<1>6. CASE i # 1
  <2>1. 1 < i
    BY <1>2, <1>3, <1>6
  <2>2. fsp.list[1] > fsp.made
    BY <1>2, <1>3, <2>1 DEF FspInv, FspLists, Descending
  <2>3. fsp.made \in Nat /\ fsp.list[1] \in Nat
    BY <1>1, <1>4 DEF FspInv, FspTyped
  <2> QED BY <1>4, <2>2, <2>3
<1> QED BY <1>5, <1>6

LEMMA FspBegins ==
    ASSUME FspConstants, FsPoll!Init
    PROVE  FspInv
<1>1. /\ DOMAIN fsp = FspFields /\ fsp.list = <<>>
      /\ fsp.made = 0 /\ fsp.cb = 0 /\ fsp.pending = 0
      /\ fsp.at = [c \in Contexts |-> "none"]
      /\ fsp.active = FALSE /\ fsp.closing = FALSE /\ fsp.closed = FALSE
  BY DEF FsPoll!Init, FspFields
<1>2. FspTyped
  <2>1. fsp.list \in Seq(Contexts)
    BY <1>1, EmptySeq
  <2>2. fsp.at \in [Contexts -> {"none", "stat", "poll_cb", "timer", "closing", "freed"}]
    BY <1>1
  <2>3. fsp.active \in BOOLEAN /\ fsp.closing \in BOOLEAN /\ fsp.closed \in BOOLEAN
    BY <1>1
  <2> QED BY <1>1, <2>1, <2>2, <2>3 DEF FspTyped
<1>3. FspLists
  BY <1>1, EmptyQueue, FspCount DEF FspLists, Descending
<1>4. FspMade /\ FspWorks /\ FspCloses
  BY <1>1 DEF FspMade, FspWorks, FspCloses
<1> QED BY <1>1, <1>2, <1>3, <1>4 DEF FspInv

LEMMA FspStep ==
    ASSUME FspConstants, FspInv, FsPoll!Next
    PROVE  FspInv'
<1> FspConstants /\ (DOMAIN fsp = FspFields) /\ FspTyped /\ FspLists /\ FspMade /\ FspWorks /\
         FspCloses
  BY DEF FspInv
<1>1. CASE FsPoll!Start
  <2>u. /\ DOMAIN fsp' = DOMAIN fsp /\ fsp'.made = fsp.made + 1
        /\ fsp'.list = <<fsp.made + 1>> \o fsp.list
        /\ fsp'.at = [fsp.at EXCEPT ![fsp.made + 1] = "stat"] /\ fsp'.active = TRUE
        /\ fsp'.closing = fsp.closing /\ fsp'.pending = fsp.pending /\ fsp'.closed = fsp.closed
        /\ fsp'.cb = fsp.cb
    BY <1>1 DEF FsPoll!Start, FsPoll!Program, FspTyped, FspFields
  <2>g. /\ ~fsp.active /\ ~fsp.closing /\ ~fsp.closed /\ fsp.made < Cardinality(Contexts)
    BY <1>1, FspOps DEF FsPoll!Start, FsPoll!Program
  <2>c. fsp.made + 1 \in Contexts /\ fsp.list \in Seq(Contexts) /\ Contexts \subseteq Nat /\ 0 \notin Contexts
    BY <2>g, FspCount DEF FspTyped
  <2>d. ~Contains(fsp.list, fsp.made + 1)
    BY <2>c DEF FspLists, FspTyped
  <2>e. /\ <<fsp.made + 1>> \o fsp.list \in Seq(Contexts)
        /\ \A y : Contains(<<fsp.made + 1>> \o fsp.list, y) <=> Contains(fsp.list, y) \/ y = fsp.made + 1
        /\ Distinct(<<fsp.made + 1>> \o fsp.list)
    BY <2>c, <2>d, PushQueue DEF FspLists
  <2>c1. fsp.made \in Nat /\ \A y \in Contexts : y \in Nat
    BY <2>c DEF FspTyped
  <2>f. \A y \in Contexts : Contains(fsp.list, y) => y < fsp.made + 1
    BY <2>c, <2>c1 DEF FspLists
  <2>k. Descending(<<fsp.made + 1>> \o fsp.list)
    BY <2>c, <2>f, PushDescending DEF FspLists
  <2>1. (DOMAIN fsp = FspFields)'
    BY <2>u, <2>g
  <2>2. FspTyped'
    BY <2>u, <2>g, <2>c, <2>e DEF FspTyped
  <2>3. FspLists'
    BY <2>u, <2>g, <2>c, <2>e, <2>k DEF FspLists, FspTyped
  <2>4. FspMade'
    BY <2>u, <2>g, <2>c DEF FspMade, FspTyped
  <2>5. FspWorks'
    BY <2>u, <2>g, <2>c DEF FspWorks, FspTyped, FspLists
  <2>6. FspCloses'
    BY <2>u, <2>g, <2>c DEF FspCloses, FspTyped
  <2> QED BY <2>1, <2>2, <2>3, <2>4, <2>5, <2>6 DEF FspInv
<1>2. CASE FsPoll!Stop
  <2>g0. fsp.active
    BY <1>2 DEF FsPoll!Stop
  <2>h. fsp.list # <<>> /\ Head(fsp.list) = fsp.made
    BY <2>g0, FspHead
  <2>u. /\ DOMAIN fsp' = DOMAIN fsp
        /\ fsp'.at = [fsp.at EXCEPT ![fsp.made] = IF fsp.at[fsp.made] = "timer" THEN "closing" ELSE fsp.at[fsp.made]]
        /\ fsp'.active = FALSE /\ fsp'.made = fsp.made /\ fsp'.list = fsp.list
        /\ fsp'.closing = fsp.closing /\ fsp'.pending = fsp.pending /\ fsp'.closed = fsp.closed
        /\ fsp'.cb = fsp.cb
    BY <1>2, <2>g0, <2>h DEF FsPoll!Stop, FsPoll!Stopped, FspTyped, FspFields
  <2>1. (DOMAIN fsp = FspFields)'
    BY <2>u
  <2>2. FspTyped'
    BY <2>u, <2>g0 DEF FspTyped, FspWorks
  <2>3. FspLists'
    BY <2>u, <2>g0 DEF FspLists, FspTyped, FspWorks
  <2>4. FspMade'
    BY <2>u DEF FspMade, FspTyped
  <2>5. FspWorks'
    BY <2>u DEF FspWorks, FspTyped, FspLists
  <2>6. FspCloses'
    BY <2>u DEF FspCloses, FspTyped
  <2> QED BY <2>1, <2>2, <2>3, <2>4, <2>5, <2>6 DEF FspInv
<1>3. ASSUME FsPoll!Close, fsp.active PROVE FspInv'
  <2>h. fsp.active /\ fsp.list # <<>> /\ Head(fsp.list) = fsp.made
    BY <1>3, FspHead
  <2>u. /\ DOMAIN fsp' = DOMAIN fsp
        /\ fsp'.at = [fsp.at EXCEPT ![fsp.made] = IF fsp.at[fsp.made] = "timer" THEN "closing" ELSE fsp.at[fsp.made]]
        /\ fsp'.active = FALSE /\ fsp'.closing = TRUE /\ fsp'.made = fsp.made
        /\ fsp'.list = fsp.list /\ fsp'.pending = fsp.pending /\ fsp'.closed = fsp.closed
        /\ fsp'.cb = fsp.cb
    BY <1>3, <2>h DEF FsPoll!Close, FsPoll!Stopped, FsPoll!NoContext, FspTyped, FspFields
  <2>1. (DOMAIN fsp = FspFields)'
    BY <2>u
  <2>2. FspTyped'
    BY <2>u, <2>h DEF FspTyped, FspWorks
  <2>3. FspLists'
    BY <2>u, <2>h DEF FspLists, FspTyped, FspWorks
  <2>4. FspMade'
    BY <2>u DEF FspMade, FspTyped
  <2>5. FspWorks'
    BY <2>u DEF FspWorks, FspTyped, FspLists
  <2>6. FspCloses'
    BY <2>u, <2>h DEF FspCloses, FspTyped
  <2> QED BY <2>1, <2>2, <2>3, <2>4, <2>5, <2>6 DEF FspInv
<1>4. ASSUME FsPoll!Close, ~fsp.active PROVE FspInv'
  <2>p. PICK p \in Nat : p = IF fsp.list = <<>> THEN fsp.pending + 1 ELSE fsp.pending
    BY DEF FspTyped
  <2>u. /\ DOMAIN fsp' = DOMAIN fsp /\ fsp'.closing = TRUE /\ fsp'.pending = p
        /\ fsp'.made = fsp.made /\ fsp'.list = fsp.list /\ fsp'.at = fsp.at
        /\ fsp'.active = fsp.active /\ fsp'.closed = fsp.closed /\ fsp'.cb = fsp.cb
    BY <1>4, <2>p DEF FsPoll!Close, FsPoll!Stopped, FsPoll!NoContext, FspTyped, FspFields
  <2>g. ~fsp.active /\ ~fsp.closing
    BY <1>4 DEF FsPoll!Close, FsPoll!Stopped, FsPoll!NoContext
  <2>1. (DOMAIN fsp = FspFields)'
    BY <2>u, <2>g
  <2>2. FspTyped'
    BY <2>u, <2>g DEF FspTyped
  <2>3. FspLists'
    BY <2>u, <2>g DEF FspLists, FspTyped
  <2>4. FspMade'
    BY <2>u, <2>g DEF FspMade, FspTyped
  <2>5. FspWorks'
    BY <2>u, <2>g DEF FspWorks, FspTyped, FspLists
  <2>6. FspCloses'
    BY <2>u, <2>g, <2>p DEF FspCloses, FspTyped
  <2> QED BY <2>1, <2>2, <2>3, <2>4, <2>5, <2>6 DEF FspInv
<1>5. CASE FsPoll!PollReturns
  <2>u. /\ DOMAIN fsp' = DOMAIN fsp
        /\ fsp'.at = [fsp.at EXCEPT ![fsp.cb] = IF fsp.active /\ ~fsp.closing THEN "timer" ELSE "closing"]
        /\ fsp'.cb = 0 /\ fsp'.made = fsp.made /\ fsp'.list = fsp.list
        /\ fsp'.active = fsp.active /\ fsp'.closing = fsp.closing /\ fsp'.pending = fsp.pending
        /\ fsp'.closed = fsp.closed
    BY <1>5 DEF FsPoll!PollReturns, FsPoll!Resumed, FsPoll!Wanted, FspTyped, FspFields
  <2>g. fsp.cb # 0
    BY <1>5 DEF FsPoll!PollReturns
  <2>1. (DOMAIN fsp = FspFields)'
    BY <2>u, <2>g
  <2>2. FspTyped'
    BY <2>u, <2>g DEF FspTyped, FspLists
  <2>3. FspLists'
    BY <2>u, <2>g, FspCount DEF FspLists, FspTyped
  <2>4. FspMade'
    BY <2>u, <2>g DEF FspMade, FspTyped
  <2>5. FspWorks'
    BY <2>u, <2>g DEF FspWorks, FspTyped, FspLists
  <2>6. FspCloses'
    BY <2>u, <2>g DEF FspCloses, FspTyped
  <2> QED BY <2>1, <2>2, <2>3, <2>4, <2>5, <2>6 DEF FspInv
<1>6. CASE FsPoll!Endgame
  <2>p. PICK p \in Nat : p = fsp.pending - 1
    BY <1>6 DEF FspTyped, FsPoll!Endgame
  <2>u. /\ DOMAIN fsp' = DOMAIN fsp /\ fsp'.pending = p /\ fsp'.closed = TRUE
        /\ fsp'.made = fsp.made /\ fsp'.list = fsp.list /\ fsp'.at = fsp.at
        /\ fsp'.active = fsp.active /\ fsp'.closing = fsp.closing /\ fsp'.cb = fsp.cb
    BY <1>6, <2>p DEF FsPoll!Endgame, FspTyped, FspFields
  <2>g. fsp.pending > 0
    BY <1>6 DEF FsPoll!Endgame
  <2>1. (DOMAIN fsp = FspFields)'
    BY <2>u, <2>g
  <2>2. FspTyped'
    BY <2>u, <2>g DEF FspTyped
  <2>3. FspLists'
    BY <2>u, <2>g DEF FspLists, FspTyped
  <2>4. FspMade'
    BY <2>u, <2>g DEF FspMade, FspTyped
  <2>5. FspWorks'
    BY <2>u, <2>g DEF FspWorks, FspTyped, FspLists
  <2>6. FspCloses'
    BY <2>u, <2>g, <2>p DEF FspCloses, FspTyped
  <2> QED BY <2>1, <2>2, <2>3, <2>4, <2>5, <2>6 DEF FspInv
<1>7. ASSUME NEW c \in Contexts, FsPoll!TimerCb(c) PROVE FspInv'
  <2>u. /\ DOMAIN fsp' = DOMAIN fsp /\ fsp'.at = [fsp.at EXCEPT ![c] = "stat"]
        /\ fsp'.made = fsp.made /\ fsp'.list = fsp.list /\ fsp'.active = fsp.active
        /\ fsp'.closing = fsp.closing /\ fsp'.pending = fsp.pending /\ fsp'.closed = fsp.closed
        /\ fsp'.cb = fsp.cb
    BY <1>7 DEF FsPoll!TimerCb, FspTyped, FspFields
  <2>g. fsp.at[c] = "timer"
    BY <1>7 DEF FsPoll!TimerCb
  <2>1. (DOMAIN fsp = FspFields)'
    BY <2>u, <2>g
  <2>2. FspTyped'
    BY <2>u, <2>g DEF FspTyped
  <2>3. FspLists'
    BY <2>u, <2>g DEF FspLists, FspTyped
  <2>4. FspMade'
    BY <2>u, <2>g DEF FspMade, FspTyped
  <2>5. FspWorks'
    BY <2>u, <2>g DEF FspWorks, FspTyped, FspLists
  <2>6. FspCloses'
    BY <2>u, <2>g DEF FspCloses, FspTyped
  <2> QED BY <2>1, <2>2, <2>3, <2>4, <2>5, <2>6 DEF FspInv
<1>8. ASSUME NEW c \in Contexts, FsPoll!PollCb(c) PROVE FspInv'
  <2> DEFINE T(x) == FsPoll!Wanted /\ FsPoll!Tells(fsp.busy[c], fsp.seen[c], x)
  <2>s. PICK v \in Versions :
           /\ fsp'.at = [fsp.at EXCEPT ![c] = IF T(v) THEN "poll_cb" ELSE FsPoll!Resumed]
           /\ fsp'.cb = IF T(v) THEN c ELSE 0
    BY <1>8 DEF FsPoll!PollCb, FspFields
  <2>r. FsPoll!Resumed = IF fsp.active /\ ~fsp.closing THEN "timer" ELSE "closing"
    BY DEF FsPoll!Resumed, FsPoll!Wanted
  <2>n. c # 0
    BY FspCount
  <2> HIDE DEF T
  <2>v. PICK place \in {"poll_cb", "timer", "closing"}, teller \in {0, c} :
           /\ fsp'.at = [fsp.at EXCEPT ![c] = place] /\ fsp'.cb = teller
           /\ teller = c <=> place = "poll_cb"
           /\ place = "closing" => ~fsp.active \/ fsp.closing
    <3>1. CASE T(v)
      BY <2>s, <2>n, <3>1
    <3>2. CASE ~T(v)
      BY <2>s, <2>r, <2>n, <3>2
    <3> QED BY <3>1, <3>2
  <2>u. /\ DOMAIN fsp' = DOMAIN fsp /\ fsp'.at = [fsp.at EXCEPT ![c] = place] /\ fsp'.cb = teller
        /\ fsp'.made = fsp.made /\ fsp'.list = fsp.list /\ fsp'.active = fsp.active
        /\ fsp'.closing = fsp.closing /\ fsp'.pending = fsp.pending /\ fsp'.closed = fsp.closed
    BY <1>8, <2>v DEF FsPoll!PollCb, FspTyped, FspFields
  <2>g. fsp.at[c] = "stat" /\ fsp.cb = 0
    BY <1>8 DEF FsPoll!PollCb
  <2>1. (DOMAIN fsp = FspFields)'
    BY <2>u, <2>g
  <2>2. FspTyped'
    BY <2>u, <2>g, FspCount DEF FspTyped
  <2>3. FspLists'
    BY <2>u, <2>v, <2>g, FspCount DEF FspLists, FspTyped
  <2>4. FspMade'
    BY <2>u, <2>g DEF FspMade, FspTyped
  <2>5. FspWorks'
    BY <2>u, <2>v, <2>g DEF FspWorks, FspTyped, FspLists
  <2>6. FspCloses'
    BY <2>u, <2>g DEF FspCloses, FspTyped
  <2> QED BY <2>1, <2>2, <2>3, <2>4, <2>5, <2>6 DEF FspInv
<1>9. ASSUME NEW c \in Contexts, FsPoll!TimerCloseCb(c) PROVE FspInv'
  <2>p. PICK p \in Nat : p = IF Head(fsp.list) = c /\ Unlink(fsp.list, c) = <<>> /\ fsp.closing THEN fsp.pending + 1 ELSE fsp.pending
    BY DEF FspTyped
  <2>u. /\ DOMAIN fsp' = DOMAIN fsp /\ fsp'.list = Unlink(fsp.list, c)
        /\ fsp'.at = [fsp.at EXCEPT ![c] = "freed"] /\ fsp'.pending = p /\ fsp'.made = fsp.made
        /\ fsp'.active = fsp.active /\ fsp'.closing = fsp.closing /\ fsp'.closed = fsp.closed
        /\ fsp'.cb = fsp.cb
    BY <1>9, <2>p, FspOps DEF FsPoll!TimerCloseCb, FsPoll!Unlinked, FspTyped, FspFields
  <2>g. fsp.at[c] = "closing" /\ fsp.cb = 0
    BY <1>9 DEF FsPoll!TimerCloseCb, FsPoll!Unlinked
  <2>c. Contains(fsp.list, c) /\ fsp.list # <<>>
    BY <2>g, EmptyQueue, FspCount DEF FspLists, FspTyped
  <2>e. /\ Unlink(fsp.list, c) \in Seq(Contexts) /\ Distinct(Unlink(fsp.list, c))
        /\ \A y : Contains(Unlink(fsp.list, c), y) <=> Contains(fsp.list, y) /\ y # c
    BY UnlinkDistinct DEF FspLists, FspTyped
  <2>k. Descending(Unlink(fsp.list, c))
    BY <2>c, UnlinkDescending, FspCount DEF FspLists, FspTyped
  <2>m. Unlink(fsp.list, c) = <<>> => Head(fsp.list) = c
    BY <2>c, <2>e, TailQueue, EmptyQueue DEF FspTyped
  <2>1. (DOMAIN fsp = FspFields)'
    BY <2>u, <2>g
  <2>2. FspTyped'
    BY <2>u, <2>g, <2>e DEF FspTyped
  <2>3. FspLists'
    BY <2>u, <2>g, <2>e, <2>k DEF FspLists, FspTyped
  <2>4. FspMade'
    BY <2>u, <2>g DEF FspMade, FspTyped
  <2>5. FspWorks'
    BY <2>u, <2>g DEF FspWorks, FspTyped, FspLists
  <2>6. FspCloses'
    BY <2>u, <2>g, <2>p, <2>c, <2>m DEF FspCloses, FspTyped
  <2> QED BY <2>1, <2>2, <2>3, <2>4, <2>5, <2>6 DEF FspInv
<1> QED BY <1>1, <1>2, <1>3, <1>4, <1>5, <1>6, <1>7, <1>8, <1>9 DEF FsPoll!Next

LEMMA FspKeeps ==
    ASSUME FspConstants, FspInv
    PROVE  FsPoll!TypeOK /\ FsPoll!CountsAreExact /\ FsPoll!NothingStranded /\ FsPoll!ClosedIsClean
<1> DOMAIN fsp = FspFields /\ FspTyped /\ FspLists /\ FspMade /\ FspWorks /\ FspCloses
  BY DEF FspInv
<1>1. \A y : y \in Range(fsp.list) <=> Contains(fsp.list, y) /\ y \in Contexts
  BY SetOfQueue, RangeQueue DEF FspTyped
<1>2. FsPoll!TypeOK
  BY FspCount, FspOps DEF FspTyped, FspMade, FspLists, FsPoll!TypeOK
<1>3. FsPoll!CountsAreExact
  <2>1. Range(fsp.list) = {c \in 1..fsp.made : fsp.at[c] # "freed"}
    BY <1>1, FspCount DEF FspTyped, FspMade, FspLists
  <2>2. \A i, j \in DOMAIN fsp.list : i < j => fsp.list[i] > fsp.list[j]
    BY DEF FspTyped, FspLists, Descending
  <2> QED BY <2>1, <2>2, FspOps DEF FsPoll!CountsAreExact, FspCloses
<1>4. FsPoll!NothingStranded
  BY FspHead DEF FsPoll!NothingStranded, FspWorks, FspCloses, FspLists
<1>5. FsPoll!ClosedIsClean
  BY EmptyQueue DEF FsPoll!ClosedIsClean, FspWorks, FspCloses, FspLists, FspMade, FspTyped
<1> QED BY <1>2, <1>3, <1>4, <1>5

\* What a context told last is the error it found last, or the stat it holds; one that has not
\* looked yet told nothing.
FspTold ==
    /\ fsp.twice = FALSE /\ DOMAIN fsp.last = Contexts /\ DOMAIN fsp.seen = Contexts
    /\ DOMAIN fsp.busy = Contexts
    /\ \A c \in Contexts :
         \/ fsp.busy[c] = 0 /\ fsp.last[c] = -1
         \/ fsp.busy[c] = 1 /\ fsp.last[c] \in {-1, fsp.seen[c]} /\ fsp.seen[c] # 0
         \/ fsp.busy[c] = -1 /\ fsp.last[c] = 0

LEMMA FspToldFirst == ASSUME FspConstants, FsPoll!Init PROVE FspTold
  BY DEF FsPoll!Init, FspTold

LEMMA FspTells == ASSUME FspConstants, FspInv, FspTold, [FsPoll!Next]_fsp PROVE FspTold'
<1>0. DOMAIN fsp = FspFields
  BY DEF FspInv
<1>1. ASSUME fsp'.twice = fsp.twice, fsp'.last = fsp.last, fsp'.seen = fsp.seen, fsp'.busy = fsp.busy
      PROVE  FspTold'
  BY <1>1 DEF FspTold
<1>2. ASSUME NEW c \in Contexts, FsPoll!PollCb(c) PROVE FspTold'
  <2> DEFINE T(v) == FsPoll!Wanted /\ FsPoll!Tells(fsp.busy[c], fsp.seen[c], v)
  <2>1. \E v \in Versions :
          /\ fsp'.last = [fsp.last EXCEPT ![c] = IF T(v) THEN v ELSE fsp.last[c]]
          /\ fsp'.busy = [fsp.busy EXCEPT ![c] = IF FsPoll!Wanted THEN (IF v = 0 THEN -1 ELSE 1)
                                                           ELSE fsp.busy[c]]
          /\ fsp'.seen = [fsp.seen EXCEPT ![c] = IF FsPoll!Wanted /\ v # 0 THEN v ELSE fsp.seen[c]]
          /\ fsp'.twice = (fsp.twice \/ (T(v) /\ fsp.last[c] = v))
    BY <1>0, <1>2 DEF FsPoll!PollCb, FspFields
  <2>2. PICK v \in Versions :
          /\ fsp'.last = [fsp.last EXCEPT ![c] = IF T(v) THEN v ELSE fsp.last[c]]
          /\ fsp'.busy = [fsp.busy EXCEPT ![c] = IF FsPoll!Wanted THEN (IF v = 0 THEN -1 ELSE 1)
                                                           ELSE fsp.busy[c]]
          /\ fsp'.seen = [fsp.seen EXCEPT ![c] = IF FsPoll!Wanted /\ v # 0 THEN v ELSE fsp.seen[c]]
          /\ fsp'.twice = (fsp.twice \/ (T(v) /\ fsp.last[c] = v))
    BY <2>1
  <2>3. T(v) \in BOOLEAN
    BY DEF FsPoll!Wanted, FsPoll!Tells
  <2>4. PICK tells \in BOOLEAN : tells <=> T(v)
    BY <2>3
  <2>5. v # -1
    BY DEF FspConstants
  <2>6. T(v) => fsp.last[c] # v
    BY <2>5 DEF FsPoll!Tells, FspTold
  <2> HIDE DEF T
  <2>7. fsp'.twice = FALSE
    BY <2>2, <2>6 DEF FspTold
  <2>8. /\ \A d \in Contexts : d # c => /\ fsp'.last[d] = fsp.last[d]
                                       /\ fsp'.busy[d] = fsp.busy[d]
                                       /\ fsp'.seen[d] = fsp.seen[d]
        /\ DOMAIN fsp'.last = Contexts /\ DOMAIN fsp'.seen = Contexts /\ DOMAIN fsp'.busy = Contexts
        /\ fsp'.last[c] = IF T(v) THEN v ELSE fsp.last[c]
        /\ fsp'.busy[c] = IF FsPoll!Wanted THEN (IF v = 0 THEN -1 ELSE 1) ELSE fsp.busy[c]
        /\ fsp'.seen[c] = IF FsPoll!Wanted /\ v # 0 THEN v ELSE fsp.seen[c]
    BY <2>2 DEF FspTold
  <2>9. T(v) <=> FsPoll!Wanted /\ FsPoll!Tells(fsp.busy[c], fsp.seen[c], v)
    BY DEF T
  <2>10. \/ fsp'.busy[c] = 0 /\ fsp'.last[c] = -1
         \/ fsp'.busy[c] = 1 /\ fsp'.last[c] \in {-1, fsp'.seen[c]} /\ fsp'.seen[c] # 0
         \/ fsp'.busy[c] = -1 /\ fsp'.last[c] = 0
    BY <2>8, <2>9 DEF FsPoll!Tells, FspTold
  <2> QED BY <2>7, <2>8, <2>10 DEF FspTold
<1>3. CASE UNCHANGED fsp
  BY <1>1, <1>3
<1>4. CASE FsPoll!Start \/ FsPoll!PollReturns \/ FsPoll!Endgame
  BY <1>0, <1>1, <1>4 DEF FsPoll!Start, FsPoll!PollReturns, FsPoll!Endgame, FspFields
<1>5. CASE FsPoll!Stop \/ FsPoll!Close
  <2>1. /\ FsPoll!Stopped.twice = fsp.twice /\ FsPoll!Stopped.last = fsp.last /\ FsPoll!Stopped.seen = fsp.seen
        /\ FsPoll!Stopped.busy = fsp.busy /\ DOMAIN FsPoll!Stopped = FspFields
    BY <1>0 DEF FsPoll!Stopped, FspFields
  <2> QED BY <1>1, <1>5, <2>1 DEF FsPoll!Stop, FsPoll!Close, FspFields
<1>6. ASSUME NEW c \in Contexts, FsPoll!TimerCb(c) \/ FsPoll!TimerCloseCb(c) PROVE FspTold'
  BY <1>0, <1>1, <1>6 DEF FsPoll!TimerCb, FsPoll!TimerCloseCb, FspFields
<1> QED BY <1>2, <1>3, <1>4, <1>5, <1>6 DEF FsPoll!Next

LEMMA FspTellsOnce == ASSUME FspTold PROVE FsPoll!ToldOnce
  BY DEF FspTold, FsPoll!ToldOnce

LEMMA FspChanges ==
    ASSUME FspConstants, FspInv, [FsPoll!Next]_fsp
    PROVE  FspInv'
<1>1. CASE FsPoll!Next
  BY <1>1, FspStep
<1>2. CASE UNCHANGED fsp
  BY <1>2 DEF FspInv, FspCloses, FspLists, FspMade, FspTyped, FspWorks
<1> QED BY <1>1, <1>2

\* File polling, for any number of contexts: the list holds exactly what is not freed, every context
\* has one stat, timer or close under way, and a handle closes when its last one is gone.
THEOREM FsPollCorrect ==
    ASSUME FspConstants
    PROVE  FsPoll!Spec => [](FsPoll!TypeOK /\ FsPoll!CountsAreExact /\ FsPoll!NothingStranded /\
                             FsPoll!ClosedIsClean)
<1>1. ASSUME FsPoll!Init PROVE FspInv
  BY <1>1, FspBegins
<1>2. ASSUME FspInv, [FsPoll!Next]_fsp PROVE FspInv'
  BY <1>2, FspChanges
<1>3. FspInv => FsPoll!TypeOK /\ FsPoll!CountsAreExact /\ FsPoll!NothingStranded /\
              FsPoll!ClosedIsClean
  BY FspKeeps
<1> QED BY <1>1, <1>2, <1>3, PTL DEF FsPoll!Spec

-----------------------------------------------------------------------------
(* Writing and copying files *)


\* Bytes, and bytes after others.
Str == Seq(Int)
Plus(p, q) == p \o q

LEMMA PlusIs ==
    /\ <<>> \in Str
    /\ \A p, q \in Str : Plus(p, q) \in Str
    /\ \A p \in Str : Plus(p, <<>>) = p /\ Plus(<<>>, p) = p
    /\ \A p, q, r \in Str : Plus(Plus(p, q), r) = Plus(p, Plus(q, r))
<1>1. \A p, q \in Str : Plus(p, q) \in Str
  BY ConcatProperties DEF Str, Plus
<1>2. \A p \in Str : Plus(p, <<>>) = p /\ Plus(<<>>, p) = p
  BY ConcatEmptySeq DEF Str, Plus
<1>3. \A p, q, r \in Str : Plus(Plus(p, q), r) = Plus(p, Plus(q, r))
  <2> SUFFICES ASSUME NEW p \in Seq(Int), NEW q \in Seq(Int), NEW r \in Seq(Int)
               PROVE  (p \o q) \o r = p \o (q \o r)
    BY DEF Str, Plus
  <2> QED BY ONLY ConcatAssociative, p \in Seq(Int), q \in Seq(Int), r \in Seq(Int)
<1>4. <<>> \in Str
  BY EmptySeq DEF Str
<1> QED BY <1>1, <1>2, <1>3, <1>4

\* Whatever adds up buffer by buffer is what is in the buffers.
LEMMA JoinedIs ==
    ASSUME NEW b \in Seq(Str), NEW h \in [0..Len(b) -> Str],
           h[0] = <<>>, \A i \in 1..Len(b) : h[i] = Plus(h[i - 1], b[i])
    PROVE  FsIo!Joined(b) = h[Len(b)]
<1> DEFINE n == Len(b)
           Up(g) == g = [i \in 0..n |-> IF i = 0 THEN <<>> ELSE Plus(g[i - 1], b[i])]
<1>1. n \in Nat
  BY LenProperties
<1> HIDE DEF n
<1>2. Up(h)
  BY <1>1 DEF n
<1>3. ASSUME NEW g, Up(g) PROVE g[n] = h[n]
  <2> DEFINE T == {i \in 0..n : g[i] # h[i]}
  <2>1. T = {}
    <3> SUFFICES ASSUME T # {} PROVE FALSE
      OBVIOUS
    <3>1. PICK m \in T : \A i \in T : m <= i
      <4>1. T \subseteq Nat
        BY <1>1
      <4> QED BY <4>1, LeastNumber
    <3>2. \A i \in 0..n : g[i] = IF i = 0 THEN <<>> ELSE Plus(g[i - 1], b[i])
      BY <1>3
    <3>3. m # 0
      BY <3>1, <3>2 DEF n
    <3>4. m - 1 \in 0..n /\ m \in 1..n
      BY <1>1, <3>1, <3>3
    <3>5. g[m - 1] = h[m - 1]
      BY <3>1, <3>4
    <3>6. g[m] = h[m]
      BY <3>2, <3>3, <3>4, <3>5 DEF n
    <3> QED BY <3>1, <3>6
  <2> QED BY <1>1, <2>1
<1>4. FsIo!Joined(b) = (CHOOSE g : Up(g))[n]
  BY DEF FsIo!Joined, Plus, n
<1> HIDE DEF Up
<1> QED BY <1>2, <1>3, <1>4 DEF n

LEMMA JoinedHas ==
    ASSUME NEW b \in Seq(Str)
    PROVE  \E h \in [0..Len(b) -> Str] :
             /\ h[0] = <<>> /\ \A i \in 1..Len(b) : h[i] = Plus(h[i - 1], b[i])
             /\ FsIo!Joined(b) = h[Len(b)]
<1> DEFINE n == Len(b)
           Adds(h, m) == h \in [0..m -> Str] /\ h[0] = <<>> /\ \A i \in 1..m : h[i] = Plus(h[i - 1], b[i])
           T == {m \in 0..n : ~\E h : Adds(h, m)}
<1>1. n \in Nat /\ \A i \in 1..n : b[i] \in Str
  BY LenProperties, ElementOfSeq
<1> HIDE DEF n, Adds
<1>2. T = {}
  <2> SUFFICES ASSUME T # {} PROVE FALSE
    OBVIOUS
  <2>1. PICK m \in T : \A i \in T : m <= i
    <3>1. T \subseteq Nat
      BY <1>1
    <3> QED BY <3>1, LeastNumber
  <2>2. m # 0
    <3>1. Adds([i \in 0..0 |-> <<>>], 0)
      BY PlusIs DEF Adds
    <3> QED BY <2>1, <3>1
  <2>3. m - 1 \in 0..n /\ m \in 1..n
    BY <1>1, <2>1, <2>2
  <2>4. PICK h : Adds(h, m - 1)
    BY <2>1, <2>3
  <2> DEFINE g == [i \in 0..m |-> IF i = m THEN Plus(h[m - 1], b[m]) ELSE h[i]]
  <2>5. Plus(h[m - 1], b[m]) \in Str /\ h \in [0..(m - 1) -> Str]
    BY <1>1, <2>3, <2>4, PlusIs DEF Adds
  <2>6. g \in [0..m -> Str]
    BY <2>3, <2>5
  <2>7. g[0] = <<>> /\ \A i \in 1..m : g[i] = Plus(g[i - 1], b[i])
    BY <1>1, <2>3, <2>4 DEF Adds
  <2> HIDE DEF g
  <2> QED BY <2>1, <2>6, <2>7 DEF Adds
<1>3. PICK h : Adds(h, n)
  <2>1. n \in 0..n
    BY <1>1
  <2>2. ~(n \in T)
    BY <1>2
  <2> QED BY <2>1, <2>2
<1>4. FsIo!Joined(b) = h[Len(b)]
  BY <1>3, JoinedIs DEF n, Adds
<1> QED BY <1>3, <1>4 DEF n, Adds

\* What is joined falls into what the first buffers hold and what the others hold.
LEMMA JoinedSplit ==
    ASSUME NEW b \in Seq(Str), NEW k \in 0..Len(b)
    PROVE  LET p == SubSeq(b, 1, k)
               r == SubSeq(b, k + 1, Len(b))
           IN /\ p \in Seq(Str) /\ r \in Seq(Str)
              /\ FsIo!Joined(p) \in Str /\ FsIo!Joined(r) \in Str
              /\ FsIo!Joined(b) = Plus(FsIo!Joined(p), FsIo!Joined(r))
<1> DEFINE n == Len(b)
           p == SubSeq(b, 1, k)
           r == SubSeq(b, k + 1, n)
<1>1. n \in Nat /\ k \in 0..n /\ \A i \in 1..n : b[i] \in Str
  BY LenProperties, ElementOfSeq
<1>2. /\ p \in Seq(Str) /\ Len(p) = k /\ \A i \in 1..k : p[i] = b[i]
      /\ r \in Seq(Str) /\ Len(r) = n - k /\ \A i \in 1..(n - k) : r[i] = b[k + i]
  <2>1. \A i \in 1..k : b[i] \in Str
    BY <1>1
  <2>2. \A i \in (k + 1)..n : b[i] \in Str
    BY <1>1
  <2>3. p \in Seq(Str) /\ Len(p) = (IF 1 <= k THEN k - 1 + 1 ELSE 0) /\ \A i \in 1..(k - 1 + 1) : p[i] = b[1 + i - 1]
    BY <2>1, <1>1, SubSeqProperties
  <2>4. /\ r \in Seq(Str) /\ Len(r) = (IF k + 1 <= n THEN n - (k + 1) + 1 ELSE 0)
        /\ \A i \in 1..(n - (k + 1) + 1) : r[i] = b[k + 1 + i - 1]
    BY <2>2, <1>1, SubSeqProperties
  <2> QED BY <1>1, <2>3, <2>4
<1> HIDE DEF p, r
<1>3. PICK h \in [0..n -> Str] : h[0] = <<>> /\ \A i \in 1..n : h[i] = Plus(h[i - 1], b[i])
  BY JoinedHas
<1>4. PICK g \in [0..(n - k) -> Str] :
        /\ g[0] = <<>> /\ (\A i \in 1..(n - k) : g[i] = Plus(g[i - 1], r[i]))
        /\ FsIo!Joined(r) = g[n - k]
  <2>1. \E g \in [0..Len(r) -> Str] :
        /\ g[0] = <<>> /\ (\A i \in 1..Len(r) : g[i] = Plus(g[i - 1], r[i])) /\ FsIo!Joined(r) = g[Len(r)]
    BY <1>2, JoinedHas
  <2> QED BY <1>2, <2>1
<1> HIDE DEF n
<1>5. FsIo!Joined(p) = h[k]
  <2> DEFINE f == [i \in 0..k |-> h[i]]
  <2>1. f \in [0..k -> Str] /\ f[0] = <<>> /\ f[k] = h[k]
    BY <1>1, <1>3
  <2>2. ASSUME NEW i \in 1..k PROVE f[i] = Plus(f[i - 1], p[i])
    <3>1. i \in 1..n /\ i \in 0..k /\ i - 1 \in 0..k /\ p[i] = b[i]
      BY <1>1, <1>2
    <3>2. f[i] = h[i] /\ f[i - 1] = h[i - 1]
      BY <3>1
    <3> QED BY <3>1, <3>2, <1>3
  <2> HIDE DEF f
  <2> QED BY <1>2, <2>1, <2>2, JoinedIs
<1>6. FsIo!Joined(b) = Plus(h[k], g[n - k])
  <2> DEFINE f == [i \in 0..n |-> IF i <= k THEN h[i] ELSE Plus(h[k], g[i - k])]
  <2>1. ASSUME NEW i \in 0..n PROVE f[i] \in Str
    <3>1. CASE i <= k
      BY <3>1, <1>1, <1>3
    <3>2. CASE ~(i <= k)
      <4>1. h[k] \in Str /\ g[i - k] \in Str /\ f[i] = Plus(h[k], g[i - k])
        BY <3>2, <1>1, <1>3, <1>4
      <4> QED BY <4>1, PlusIs
    <3> QED BY <3>1, <3>2
  <2>2. ASSUME NEW i \in 1..n PROVE f[i] = Plus(f[i - 1], b[i])
    <3>1. CASE i <= k
      BY <3>1, <1>1, <1>3
    <3>2. CASE i = k + 1
      <4>1. f[i] = Plus(h[k], g[1]) /\ f[i - 1] = h[k] /\ g[1] = Plus(g[0], r[1]) /\ r[1] = b[i] /\ g[0] = <<>>
        BY <3>2, <1>1, <1>2, <1>3, <1>4
      <4>2. Plus(g[0], r[1]) = b[i]
        BY <4>1, <1>1, PlusIs
      <4> QED BY <4>1, <4>2
    <3>3. CASE i > k + 1
      <4>1. f[i] = Plus(h[k], g[i - k]) /\ f[i - 1] = Plus(h[k], g[i - 1 - k])
        BY <3>3, <1>1
      <4>2. g[i - k] = Plus(g[i - 1 - k], b[i])
        <5>1. i - k \in 1..(n - k) /\ i - 1 - k = i - k - 1 /\ k + (i - k) = i
          BY <3>3, <1>1
        <5> QED BY <5>1, <1>2, <1>4
      <4>3. h[k] \in Str /\ g[i - 1 - k] \in Str /\ b[i] \in Str
        <5>1. i - 1 - k \in 0..(n - k) /\ k \in 0..n
          BY <3>3, <1>1
        <5> QED BY <5>1, <1>1, <1>3, <1>4
      <4> HIDE DEF f
      <4>4. Plus(Plus(h[k], g[i - 1 - k]), b[i]) = Plus(h[k], Plus(g[i - 1 - k], b[i]))
        BY <4>3, PlusIs
      <4> QED BY <4>1, <4>2, <4>4
    <3> QED BY <3>1, <3>2, <3>3, <1>1
  <2>3. f \in [0..n -> Str] /\ f[0] = <<>>
    <3>1. f \in [0..n -> Str]
      BY <2>1
    <3>2. 0 \in 0..n /\ 0 <= k
      BY <1>1
    <3> QED BY <3>1, <3>2, <1>3
  <2>4. f[n] = Plus(h[k], g[n - k])
    <3>1. CASE n = k
      <4>1. f[n] = h[k] /\ g[n - k] = <<>> /\ h[k] \in Str
        BY <3>1, <1>1, <1>3, <1>4
      <4> QED BY <4>1, PlusIs
    <3>2. CASE n # k
      <4>1. n \in 0..n /\ ~(n <= k)
        BY <3>2, <1>1
      <4> QED BY <4>1
    <3> QED BY <3>1, <3>2
  <2> HIDE DEF f
  <2> QED BY <2>2, <2>3, <2>4, JoinedIs DEF n
<1>7. h[k] \in Str /\ g[n - k] \in Str
  <2>1. k \in 0..n /\ n - k \in 0..(n - k)
    BY <1>1
  <2> QED BY <2>1
<1> QED BY <1>2, <1>4, <1>5, <1>6, <1>7 DEF p, r, n

\* Buffers put together of none, one or a buffer before others.
LEMMA JoinedParts ==
    /\ FsIo!Joined(<<>>) = <<>>
    /\ \A s \in Str : FsIo!Joined(<<s>>) = s
    /\ \A b \in Seq(Str) : FsIo!Joined(b) \in Str
    /\ \A s \in Str : \A t \in Seq(Str) : FsIo!Joined(<<s>> \o t) = Plus(s, FsIo!Joined(t))
<1>1. FsIo!Joined(<<>>) = <<>>
  <2>1. <<>> \in Seq(Str) /\ Len(<<>>) = 0
    BY EmptySeq
  <2>2. \E h : h[0] = <<>> /\ FsIo!Joined(<<>>) = h[Len(<<>>)]
    BY <2>1, JoinedHas
  <2> QED BY <2>1, <2>2
<1>2. ASSUME NEW s \in Str PROVE FsIo!Joined(<<s>>) = s
  <2> DEFINE b == <<s>>
  <2>1. b \in Seq(Str) /\ Len(b) = 1 /\ b[1] = s
    OBVIOUS
  <2> HIDE DEF b
  <2>2. PICK h \in [0..Len(b) -> Str] :
          /\ h[0] = <<>> /\ \A i \in 1..Len(b) : h[i] = Plus(h[i - 1], b[i])
          /\ FsIo!Joined(b) = h[Len(b)]
    BY <2>1, JoinedHas
  <2>3. h[1] = Plus(h[1 - 1], b[1])
    BY <2>1, <2>2
  <2>4. h[1] = Plus(<<>>, s)
    BY <2>1, <2>2, <2>3
  <2> QED BY <2>1, <2>2, <2>4, PlusIs DEF b
<1>3. ASSUME NEW b \in Seq(Str) PROVE FsIo!Joined(b) \in Str
  <2>1. Len(b) \in Nat
    BY LenProperties
  <2>2. PICK h \in [0..Len(b) -> Str] : FsIo!Joined(b) = h[Len(b)]
    BY JoinedHas
  <2> QED BY <2>1, <2>2
<1>4. ASSUME NEW s \in Str, NEW t \in Seq(Str) PROVE FsIo!Joined(<<s>> \o t) = Plus(s, FsIo!Joined(t))
  <2> DEFINE b == <<s>> \o t
  <2>1. /\ b \in Seq(Str) /\ Len(b) = 1 + Len(t) /\ Len(t) \in Nat /\ b[1] = s
        /\ \A i \in 1..Len(t) : b[1 + i] = t[i]
    <3>1. <<s>> \in Seq(Str) /\ Len(<<s>>) = 1 /\ <<s>>[1] = s
      OBVIOUS
    <3> QED BY <3>1, ConcatProperties, LenProperties
  <2> HIDE DEF b
  <2>2. SubSeq(b, 1, 1) = <<s>>
    <3> DEFINE p == SubSeq(b, 1, 1)
               o == <<s>>
    <3>1. p \in Seq(Str) /\ Len(p) = 1 /\ p[1] = s
      BY <2>1
    <3>2. o \in Seq(Str) /\ Len(o) = 1 /\ o[1] = s
      OBVIOUS
    <3> HIDE DEF p, o
    <3>3. \A i \in 1..Len(p) : p[i] = o[i]
      BY <3>1, <3>2
    <3>4. p = o
      BY <3>1, <3>2, <3>3, SeqEqual
    <3> QED BY <3>4 DEF p, o
  <2>3. SubSeq(b, 1 + 1, Len(b)) = t
    <3> DEFINE r == SubSeq(b, 1 + 1, Len(b))
    <3>1. r \in Seq(Str) /\ Len(r) = Len(t) /\ \A i \in 1..Len(t) : r[i] = b[1 + i]
      BY <2>1
    <3> HIDE DEF r
    <3>2. \A i \in 1..Len(r) : r[i] = t[i]
      BY <2>1, <3>1
    <3>3. r = t
      BY <3>1, <3>2, SeqEqual
    <3> QED BY <3>3 DEF r
  <2>4. 1 \in 0..Len(b)
    BY <2>1
  <2>5. FsIo!Joined(b) = Plus(FsIo!Joined(SubSeq(b, 1, 1)), FsIo!Joined(SubSeq(b, 1 + 1, Len(b))))
    BY <2>1, <2>4, JoinedSplit
  <2> QED BY <1>2, <2>2, <2>3, <2>5 DEF b
<1> QED BY <1>1, <1>2, <1>3, <1>4

\* Bytes by their numbers.
LEMMA StrIs ==
    /\ \A p \in Str : Len(p) \in Nat /\ \A i \in 1..Len(p) : p[i] \in Int
    /\ \A p, q \in Str : (Len(p) = Len(q) /\ \A i \in 1..Len(p) : p[i] = q[i]) => p = q
    /\ \A p, q \in Str : /\ Len(Plus(p, q)) = Len(p) + Len(q)
                         /\ \A i \in 1..(Len(p) + Len(q)) :
                              Plus(p, q)[i] = IF i <= Len(p) THEN p[i] ELSE q[i - Len(p)]
    /\ \A p \in Str : \A m \in 0..Len(p) :
         LET r == SubSeq(p, m + 1, Len(p)) IN
            r \in Str /\ Len(r) = Len(p) - m /\ \A i \in 1..(Len(p) - m) : r[i] = p[m + i]
<1>1. ASSUME NEW p \in Str PROVE Len(p) \in Nat /\ \A i \in 1..Len(p) : p[i] \in Int
  BY LenProperties, ElementOfSeq DEF Str
<1>2. ASSUME NEW p \in Str, NEW q \in Str, Len(p) = Len(q), \A i \in 1..Len(p) : p[i] = q[i] PROVE p = q
  BY <1>2, SeqEqual DEF Str
<1>3. ASSUME NEW p \in Str, NEW q \in Str
      PROVE  /\ Len(Plus(p, q)) = Len(p) + Len(q)
             /\ \A i \in 1..(Len(p) + Len(q)) : Plus(p, q)[i] = IF i <= Len(p) THEN p[i] ELSE q[i - Len(p)]
  BY ConcatProperties DEF Str, Plus
<1>4. ASSUME NEW p \in Str, NEW m \in 0..Len(p)
      PROVE  LET r == SubSeq(p, m + 1, Len(p)) IN
                r \in Str /\ Len(r) = Len(p) - m /\ \A i \in 1..(Len(p) - m) : r[i] = p[m + i]
  <2>1. /\ Len(p) \in Nat /\ m \in Nat /\ m + 1 \in Int
        /\ \A i \in (m + 1)..Len(p) : p[i] \in Int
    BY <1>1
  <2>2. /\ SubSeq(p, m + 1, Len(p)) \in Seq(Int)
        /\ Len(SubSeq(p, m + 1, Len(p))) = IF m + 1 <= Len(p) THEN Len(p) - (m + 1) + 1 ELSE 0
        /\ \A i \in 1..(Len(p) - (m + 1) + 1) : SubSeq(p, m + 1, Len(p))[i] = p[m + 1 + i - 1]
    BY <2>1, SubSeqProperties
  <2>3. Len(p) - (m + 1) + 1 = Len(p) - m /\ (~(m + 1 <= Len(p)) => Len(p) - m = 0)
        /\ \A i \in 1..(Len(p) - m) : m + 1 + i - 1 = m + i
    BY <2>1
  <2> QED BY <2>2, <2>3 DEF Str
<1> QED BY <1>1, <1>2, <1>3, <1>4

\* What is there after others is the rest of both.
LEMMA PlusRest ==
    ASSUME NEW p \in Str, NEW q \in Str
    PROVE  SubSeq(Plus(p, q), Len(p) + 1, Len(Plus(p, q))) = q
<1> DEFINE s == Plus(p, q)
<1>1. s \in Str
  BY PlusIs
<1>2. /\ Len(p) \in Nat /\ Len(q) \in Nat /\ Len(s) = Len(p) + Len(q)
      /\ \A i \in 1..(Len(p) + Len(q)) : s[i] = IF i <= Len(p) THEN p[i] ELSE q[i - Len(p)]
  BY StrIs
<1> HIDE DEF s
<1> DEFINE r == SubSeq(s, Len(p) + 1, Len(s))
<1>3. Len(p) \in 0..Len(s)
  BY <1>2
<1>4. r \in Str /\ Len(r) = Len(s) - Len(p) /\ \A i \in 1..(Len(s) - Len(p)) : r[i] = s[Len(p) + i]
  BY <1>1, <1>3, StrIs
<1> HIDE DEF r
<1>5. Len(r) = Len(q) /\ \A i \in 1..Len(r) : r[i] = q[i]
  <2>1. Len(r) = Len(q)
    BY <1>2, <1>4
  <2>2. ASSUME NEW i \in 1..Len(r) PROVE r[i] = q[i]
    <3>1. /\ Len(p) + i \in 1..(Len(p) + Len(q)) /\ ~(Len(p) + i <= Len(p)) /\ Len(p) + i - Len(p) = i
          /\ i \in 1..(Len(s) - Len(p))
      BY <1>2, <1>4, <2>1
    <3> QED BY <1>2, <1>4, <3>1
  <2> QED BY <2>1, <2>2
<1>6. r = q
  BY <1>4, <1>5, StrIs
<1> QED BY <1>6 DEF r, s

\* uv__fs_buf_offset passes over exactly the bytes that were taken, wherever the buffers are cut.
LEMMA AfterWriteKeeps ==
    ASSUME NEW b \in Seq(Str), NEW n \in 0..Len(FsIo!Joined(b))
    PROVE  /\ FsIo!AfterWrite(b, n) \in Seq(Str)
           /\ FsIo!Joined(FsIo!AfterWrite(b, n)) = SubSeq(FsIo!Joined(b), n + 1, Len(FsIo!Joined(b)))
<1> DEFINE m == Len(b)
           c(k) == Len(FsIo!Joined(SubSeq(b, 1, k)))
           filled == {k \in 0..m : c(k) <= n /\ (k > 0 => c(k - 1) < n)}
           k == CHOOSE k \in filled : \A j \in filled : j <= k
           rest == n - c(k)
<1>1. m \in Nat /\ FsIo!Joined(b) \in Str /\ Len(FsIo!Joined(b)) \in Nat /\ \A i \in 1..m : b[i] \in Str
  <2>1. FsIo!Joined(b) \in Str
    BY JoinedParts
  <2> QED BY <2>1, StrIs, LenProperties, ElementOfSeq
<1>2. ASSUME NEW j \in 0..m
      PROVE  /\ SubSeq(b, 1, j) \in Seq(Str) /\ SubSeq(b, j + 1, m) \in Seq(Str)
             /\ FsIo!Joined(SubSeq(b, 1, j)) \in Str /\ FsIo!Joined(SubSeq(b, j + 1, m)) \in Str
             /\ FsIo!Joined(b) = Plus(FsIo!Joined(SubSeq(b, 1, j)), FsIo!Joined(SubSeq(b, j + 1, m)))
             /\ c(j) \in Nat
  BY JoinedSplit, StrIs
<1>3. c(0) = 0 /\ c(m) = Len(FsIo!Joined(b))
  <2>1. SubSeq(b, 1, 0) = <<>> /\ SubSeq(b, 1, m) = b
    BY SubSeqEmpty, SubSeqFull
  <2> QED BY <2>1, JoinedParts, EmptySeq
<1>4. FsIo!AfterWrite(b, n) = IF rest = 0 THEN SubSeq(b, k + 1, m)
         ELSE <<SubSeq(b[k + 1], rest + 1, Len(b[k + 1]))>> \o SubSeq(b, k + 2, m)
  BY DEF FsIo!AfterWrite
<1> HIDE DEF m, c
<1>5. k \in filled /\ \A j \in filled : j <= k
  <2> DEFINE T == {t \in 0..m : m - t \in filled}
  <2>1. 0 \in filled
    BY <1>1, <1>3
  <2>2. m \in T
    BY <1>1, <2>1
  <2>3. T \subseteq Nat
    BY <1>1
  <2> HIDE DEF T
  <2>4. PICK t \in T : \A u \in T : t <= u
    BY <2>2, <2>3, LeastNumber
  <2> USE DEF T
  <2> HIDE DEF filled
  <2>5. filled \subseteq 0..m
    BY DEF filled
  <2>6. m - t \in filled
    BY <2>4
  <2>7. ASSUME NEW j \in filled PROVE j <= m - t
    <3>1. j \in 0..m /\ t \in 0..m /\ m - (m - j) = j
      BY <1>1, <2>4, <2>5
    <3>2. m - j \in T
      BY <1>1, <3>1
    <3>3. t <= m - j
      BY <2>4, <3>2
    <3> HIDE DEF T
    <3> QED BY <1>1, <3>1, <3>3
  <2> QED BY <2>6, <2>7
<1>6. k \in 0..m /\ c(k) <= n /\ c(k) \in Nat /\ n \in Nat /\ n <= c(m)
  BY <1>1, <1>2, <1>3, <1>5
<1>7. k # m /\ rest # 0 => c(k + 1) > n
  <2>1. ASSUME k # m, rest # 0 PROVE c(k + 1) > n
    <3>a. k \in 0..m /\ k # m /\ m \in Nat
      BY <1>1, <1>6, <2>1
    <3>b. c(k) \in Nat /\ n \in Nat /\ c(k) <= n /\ n - c(k) # 0
      BY <1>6, <2>1
    <3>1. k + 1 \in 0..m /\ k + 1 > 0 /\ (k + 1) - 1 = k /\ ~(k + 1 <= k) /\ c(k) < n
      <4> HIDE DEF k, c, rest
      <4> QED BY ONLY <3>a, <3>b
    <3>2. ~(k + 1 \in filled)
      BY <1>5, <3>1
    <3>3. ~(c(k + 1) <= n)
      BY <3>1, <3>2
    <3>4. c(k + 1) \in Nat
      BY <1>2, <3>1
    <3>5. n \in Nat
      BY <1>6
    <3> HIDE DEF c, k
    <3> QED BY ONLY <3>3, <3>4, <3>5
  <2> QED BY ONLY <2>1
<1> HIDE DEF k
<1> DEFINE J == FsIo!Joined(b)
           R == FsIo!Joined(SubSeq(b, k + 1, m))
           P == FsIo!Joined(SubSeq(b, 1, k))
<1>8. P \in Str /\ R \in Str /\ J = Plus(P, R) /\ Len(P) = c(k) /\ SubSeq(b, k + 1, m) \in Seq(Str)
  BY <1>2, <1>6 DEF c
<1>9. CASE rest = 0
  <2>1. Len(P) = n
    BY <1>6, <1>8, <1>9
  <2>2. FsIo!AfterWrite(b, n) = SubSeq(b, k + 1, m)
    BY <1>4, <1>9
  <2>3. SubSeq(J, n + 1, Len(J)) = R
    BY <1>8, <2>1, PlusRest
  <2> QED BY <1>8, <2>2, <2>3
<1>10. CASE rest # 0
  <2>1. k # m /\ k + 1 \in 0..m /\ k + 1 \in 1..m /\ c(k) < n /\ rest \in Nat
    BY <1>1, <1>6, <1>10
  <2> DEFINE s == b[k + 1]
             Q == FsIo!Joined(SubSeq(b, k + 2, m))
             cut == SubSeq(s, rest + 1, Len(s))
  <2>2. SubSeq(b, k + 2, m) \in Seq(Str) /\ Q \in Str /\ s \in Str
    <3>1. (k + 1) + 1 = k + 2
      BY <1>6
    <3>2. SubSeq(b, (k + 1) + 1, m) \in Seq(Str) /\ FsIo!Joined(SubSeq(b, (k + 1) + 1, m)) \in Str
      BY <1>2, <2>1
    <3> QED BY <1>1, <2>1, <3>1, <3>2
  <2>3. SubSeq(b, k + 1, m) = <<s>> \o SubSeq(b, k + 2, m)
    <3>1. m \in (k + 1)..Len(b) /\ k + 1 \in 1..Len(b) /\ (k + 1) + 1 = k + 2
      BY <1>1, <1>6, <2>1 DEF m
    <3>2. SubSeq(b, k + 1, m) = <<b[k + 1]>> \o SubSeq(b, (k + 1) + 1, m)
      BY <3>1, SubSeqRecursiveFirst
    <3> QED BY <3>1, <3>2
  <2>4. R = Plus(s, Q)
    BY <2>2, <2>3, JoinedParts
  <2>5. rest <= Len(s)
    <3>1. c(k + 1) = c(k) + Len(s)
      <4> DEFINE P1 == FsIo!Joined(SubSeq(b, 1, k + 1))
      <4>1. P1 \in Str /\ J = Plus(P1, Q) /\ Len(P1) = c(k + 1)
        <5>1. (k + 1) + 1 = k + 2
          BY <1>6
        <5>2. J = Plus(P1, FsIo!Joined(SubSeq(b, (k + 1) + 1, m))) /\ P1 \in Str
          BY <1>2, <2>1
        <5> QED BY <5>1, <5>2 DEF c
      <4> HIDE DEF P1, J, P, R, s, Q, rest
      <4>2. Len(J) = Len(P1) + Len(Q) /\ Len(J) = Len(P) + Len(R) /\ Len(R) = Len(s) + Len(Q)
        <5>1. Len(J) = Len(P1) + Len(Q)
          BY <2>2, <4>1, StrIs
        <5>2. Len(J) = Len(P) + Len(R)
          BY <1>8, StrIs
        <5>3. Len(R) = Len(s) + Len(Q)
          BY <2>2, <2>4, StrIs
        <5> QED BY <5>1, <5>2, <5>3
      <4>3. Len(P1) \in Nat /\ Len(Q) \in Nat /\ Len(s) \in Nat /\ Len(P) \in Nat /\ Len(R) \in Nat
        BY <1>8, <2>2, <4>1, StrIs
      <4>4. Len(P1) = Len(P) + Len(s)
        BY ONLY <4>2, <4>3
      <4>5. c(k) = Len(P) /\ c(k + 1) = Len(P1)
        BY <1>8, <4>1
      <4> QED BY ONLY <4>4, <4>5
    <3>2. Len(s) \in Nat
      BY <2>2, StrIs
    <3> QED BY <1>6, <1>7, <1>10, <2>1, <3>1, <3>2
  <2>6. rest \in 0..Len(s) /\ Len(s) \in Nat
    <3>1. Len(s) \in Nat
      BY <2>2, StrIs
    <3> QED BY <2>1, <2>5, <3>1
  <2>7. cut \in Str /\ Len(cut) = Len(s) - rest /\ \A i \in 1..(Len(s) - rest) : cut[i] = s[rest + i]
    BY <2>2, <2>6, StrIs
  <2>8. FsIo!AfterWrite(b, n) = <<cut>> \o SubSeq(b, k + 2, m)
    BY <1>4, <1>10
  <2> HIDE DEF cut, s, Q
  <2>9. FsIo!AfterWrite(b, n) \in Seq(Str) /\ FsIo!Joined(FsIo!AfterWrite(b, n)) = Plus(cut, Q)
    <3>1. FsIo!Joined(FsIo!AfterWrite(b, n)) = Plus(cut, Q)
      BY <2>2, <2>7, <2>8, JoinedParts DEF Q
    <3>2. <<cut>> \in Seq(Str)
      BY <2>7
    <3> QED BY <2>2, <2>8, <3>1, <3>2, ConcatProperties
  <2> HIDE DEF J, R, P
  <2>10. /\ J \in Str /\ Len(J) \in Nat /\ n \in 0..Len(J)
    BY <1>1, <1>6 DEF J
  <2> DEFINE a == SubSeq(J, n + 1, Len(J))
             d == Plus(cut, Q)
  <2>11. a \in Str /\ Len(a) = Len(J) - n /\ \A i \in 1..(Len(J) - n) : a[i] = J[n + i]
    BY <2>10, StrIs
  <2>12. /\ d \in Str /\ Len(d) = Len(cut) + Len(Q) /\ Len(Q) \in Nat
         /\ \A i \in 1..(Len(cut) + Len(Q)) : d[i] = IF i <= Len(cut) THEN cut[i] ELSE Q[i - Len(cut)]
    BY <2>2, <2>7, PlusIs, StrIs
  <2>13. /\ Len(R) = Len(s) + Len(Q) /\ Len(J) = Len(P) + Len(R)
         /\ \A i \in 1..(Len(P) + Len(R)) : J[i] = IF i <= Len(P) THEN P[i] ELSE R[i - Len(P)]
         /\ \A i \in 1..(Len(s) + Len(Q)) : R[i] = IF i <= Len(s) THEN s[i] ELSE Q[i - Len(s)]
    BY <1>8, <2>2, <2>4, StrIs
  <2> HIDE DEF a, d
  <2>14. rest = n - Len(P) /\ Len(P) \in Nat /\ n \in Nat /\ Len(P) < n
    BY <1>6, <1>8, <2>1
  <2> HIDE DEF rest
  <2>15. Len(a) = Len(d)
    BY <2>6, <2>7, <2>11, <2>12, <2>13, <2>14
  <2>16. ASSUME NEW i \in 1..Len(a) PROVE a[i] = d[i]
    <3>1. /\ a[i] = J[n + i] /\ n + i \in 1..(Len(P) + Len(R)) /\ ~(n + i <= Len(P))
          /\ n + i - Len(P) = rest + i /\ rest + i \in 1..(Len(s) + Len(Q))
          /\ i \in 1..(Len(cut) + Len(Q))
      BY <2>6, <2>7, <2>11, <2>12, <2>13, <2>14, <2>15
    <3>2. a[i] = R[rest + i]
      BY <2>13, <3>1
    <3>3. CASE i <= Len(cut)
      <4>1. rest + i <= Len(s) /\ i \in 1..(Len(s) - rest)
        <5>1. /\ rest \in Int /\ Len(s) \in Int /\ Len(cut) \in Int /\ i \in Int /\ i >= 1
              /\ Len(cut) = Len(s) - rest
          BY <2>6, <2>7, <3>1
        <5> QED BY ONLY <3>3, <5>1
      <4> QED BY <2>7, <2>12, <2>13, <3>1, <3>2, <3>3, <4>1
    <3>4. CASE ~(i <= Len(cut))
      <4>1. ~(rest + i <= Len(s)) /\ (rest + i) - Len(s) = i - Len(cut)
        BY <2>6, <2>7, <3>4, <3>1
      <4>2. d[i] = Q[i - Len(cut)]
        BY <2>12, <3>1, <3>4
      <4>3. PICK j \in 1..(Len(s) + Len(Q)) : j = rest + i
        BY <3>1
      <4>4. R[j] = IF j <= Len(s) THEN s[j] ELSE Q[j - Len(s)]
        BY <2>13
      <4>5. ~(j <= Len(s)) /\ j - Len(s) = i - Len(cut)
        BY <2>6, <2>7, <4>1, <4>3
      <4>6. a[i] = R[j]
        BY ONLY <3>2, <4>3
      <4> QED BY ONLY <4>2, <4>4, <4>5, <4>6
    <3> QED BY <3>3, <3>4
  <2>17. a = d
    BY <2>11, <2>12, <2>15, <2>16, StrIs
  <2> QED BY <2>9, <2>17 DEF a, d, J
<1> QED BY <1>9, <1>10 DEF J


IoConstants == FileSize \in Nat \ {0} /\ IovMax \in Nat \ {0} /\ Chunk \in Nat

IoFields == {"op", "pc", "bufs", "off", "start", "total", "file", "excl", "dst", "src", "srcfd", "dstfd",
             "size", "in_offset", "len", "nsent", "chunk", "result", "shrunk", "blind"}

CopyPcs == {"open", "opendst", "identity", "copy", "read", "send", "sent", "out", "done"}

\* The first n bytes of the content.
FirstBytes(n) == [i \in 1..n |-> i]

IoTyped ==
    /\ fio.op \in {"write", "copy"}
    /\ fio.op = "write" => fio.pc \in {"write", "done"}
    /\ fio.op = "copy" => fio.pc \in CopyPcs
    /\ fio.dst \in {"none", "old", "new", "same", "gone", "lost"}
    /\ fio.total \in 0..FileSize /\ fio.nsent \in -1..FileSize /\ fio.result \in -1..FileSize

\* A write: what was written is in the file, and what was not is in the buffers.
IoLeft == fio.op = "write" =>
    /\ fio.bufs \in Seq(Str) /\ Len(FsIo!Joined(fio.bufs)) = FileSize - fio.total
    /\ \A i \in 1..(FileSize - fio.total) : FsIo!Joined(fio.bufs)[i] = fio.total + i
    /\ fio.file \in Str /\ fio.start \in Nat /\ fio.start + fio.total <= Len(fio.file)
    /\ \A i \in 1..fio.total : fio.file[fio.start + i] = i
    /\ fio.off \in Int /\ (fio.off >= 0 => fio.off = fio.start + fio.total)
    /\ fio.off < 0 => Len(fio.file) = fio.start + fio.total
    /\ fio.pc = "done" /\ fio.result >= 0 => fio.result = fio.total

\* A copy: the source is whole until it shrinks, and what is sent next comes from it in order.
IoSource == fio.op = "copy" =>
    /\ fio.src = IF fio.shrunk THEN FirstBytes(1) ELSE FirstBytes(FileSize)
    /\ fio.in_offset \in 0..FileSize /\ fio.size \in 0..FileSize
    /\ fio.pc \in {"open", "opendst", "identity"} => fio.in_offset = 0
    /\ fio.pc \in {"opendst", "identity"} /\ ~fio.shrunk => fio.size = FileSize
    /\ fio.pc \in {"read", "send"} => fio.len = fio.size /\ fio.nsent \in 0..fio.size
    /\ fio.pc = "sent" => fio.nsent <= fio.size
    /\ fio.pc = "send" =>
        /\ fio.chunk \in Str /\ Len(fio.chunk) + fio.nsent <= fio.size
        /\ fio.in_offset + Len(fio.chunk) <= FileSize
        /\ \A i \in 1..Len(fio.chunk) : fio.chunk[i] = fio.in_offset + i

\* The destination has what was sent, and what is still to be sent is the rest of it.
IoCopied == fio.op = "copy" =>
    /\ fio.pc \in {"copy", "read", "send", "sent"} =>
        fio.file = FirstBytes(fio.in_offset) /\ fio.dstfd /\ fio.dst \in {"new", "old"}
    /\ fio.dst = "new" => fio.file = FirstBytes(fio.in_offset)
    /\ ~fio.shrunk =>
        /\ fio.pc = "copy" => fio.in_offset + fio.size = FileSize
        /\ fio.pc \in {"read", "send"} => fio.in_offset - fio.nsent + fio.size = FileSize
        /\ fio.pc = "sent" /\ fio.nsent >= 0 => fio.in_offset - fio.nsent + fio.size = FileSize
        /\ fio.pc \in {"out", "done"} /\ fio.result = 0 => fio.file = FirstBytes(FileSize)

\* What the destination was and is, and who made it.
IoTarget == fio.op = "copy" =>
    /\ fio.pc \in {"open", "opendst"} => ~fio.dstfd /\ fio.dst \in {"none", "old", "same"}
    /\ fio.pc = "identity" => fio.dstfd /\ fio.dst \in {"new", "old", "same"}
    /\ fio.pc = "done" => ~fio.srcfd /\ ~fio.dstfd
    /\ fio.pc = "open" => ~fio.srcfd
    /\ fio.pc # "done" => fio.dst \notin {"gone", "lost"} /\ (fio.dst = "new" => fio.dstfd)
    /\ fio.pc \in {"open", "opendst"} /\ fio.dst = "none" => fio.file = <<>>
    /\ fio.excl /\ fio.pc = "identity" => FALSE
    /\ fio.pc \in {"open", "opendst", "identity"} /\ fio.dst = "same" => fio.file = FirstBytes(FileSize)
    /\ fio.pc \in {"open", "opendst"} /\ fio.dst = "old" => fio.file = <<0>>
    /\ fio.pc = "out" /\ fio.dst = "old" /\ ~fio.dstfd => fio.file = <<0>>
    /\ fio.pc = "out" /\ fio.dst = "same" /\ fio.dstfd => fio.result = 0 \/ fio.blind
    /\ fio.pc = "out" /\ ~fio.dstfd => fio.result # 0
    /\ fio.dst = "lost" => fio.blind
    /\ fio.pc = "done" /\ fio.result # 0 => fio.dst # "new" /\ (fio.dst = "old" => fio.file = <<0>>)

IoInv == DOMAIN fio = IoFields /\ IoTyped /\ IoLeft /\ IoSource /\ IoCopied /\ IoTarget

LEMMA FirstIs ==
    /\ FirstBytes(0) = <<>>
    /\ \A n \in Nat : FirstBytes(n) \in Str /\ Len(FirstBytes(n)) = n /\ \A i \in 1..n : FirstBytes(n)[i] = i
    /\ \A p \in Str : (\A i \in 1..Len(p) : p[i] = i) => p = FirstBytes(Len(p))
    /\ FileSize \in Nat => FsIo!Content = FirstBytes(FileSize)
<1>1. ASSUME NEW n \in Nat PROVE FirstBytes(n) \in Str /\ Len(FirstBytes(n)) = n /\ \A i \in 1..n : FirstBytes(n)[i] = i
  BY DEF FirstBytes, Str
<1>2. ASSUME NEW p \in Str, \A i \in 1..Len(p) : p[i] = i PROVE p = FirstBytes(Len(p))
  <2>1. Len(p) \in Nat
    BY StrIs
  <2>2. \A i \in 1..Len(p) : p[i] = FirstBytes(Len(p))[i]
    BY <1>1, <1>2, <2>1
  <2> QED BY <1>1, <2>1, <2>2, StrIs
<1>3. FirstBytes(0) = <<>>
  <2>1. <<>> \in Str /\ Len(<<>>) = 0
    BY PlusIs
  <2>2. \A i \in 1..Len(<<>>) : <<>>[i] = i
    BY <2>1
  <2>3. <<>> = FirstBytes(Len(<<>>))
    BY <1>2, <2>1, <2>2
  <2> QED BY <2>1, <2>3
<1>4. FsIo!Content = FirstBytes(FileSize)
  BY DEF FsIo!Content, FirstBytes
<1> QED BY <1>1, <1>2, <1>3, <1>4

\* However the content is cut into buffers.
LEMMA BuffersHold == ASSUME IoConstants, NEW b \in FsIo!Buffers PROVE b \in Seq(Str) /\ FsIo!Joined(b) = FsIo!Content
<1>1. FsIo!Content \in Str /\ Len(FsIo!Content) = FileSize /\ FileSize \in Nat /\ FileSize >= 1
  BY FirstIs DEF IoConstants
<1> DEFINE e == <<>>
           f == SubSeq(FsIo!Content, 1, 1)
           g == SubSeq(FsIo!Content, 2, FileSize)
           h == SubSeq(FsIo!Content, 1, FileSize - 1)
           l == SubSeq(FsIo!Content, FileSize, FileSize)
           C == FsIo!Content
<1>2. /\ e \in Str /\ f \in Str /\ g \in Str /\ h \in Str /\ l \in Str /\ C \in Str
      /\ Plus(f, g) = C /\ Plus(h, l) = C /\ Plus(e, g) = g /\ Plus(e, C) = C
  <2>1. e \in Str /\ Plus(e, C) = C
    BY <1>1, PlusIs
  <2>2. \A i \in 1..FileSize : C[i] \in Int
    BY <1>1, StrIs
  <2>3. f \in Str
    <3>1. \A i \in 1..1 : C[i] \in Int
      BY <1>1, <2>2
    <3> QED BY <3>1, SubSeqProperties DEF Str
  <2>4. g \in Str
    <3>1. \A i \in 2..FileSize : C[i] \in Int
      BY <1>1, <2>2
    <3> QED BY <1>1, <3>1, SubSeqProperties DEF Str
  <2>5. h \in Str
    <3>1. FileSize - 1 \in Int /\ \A i \in 1..(FileSize - 1) : C[i] \in Int
      BY <1>1, <2>2
    <3> QED BY <3>1, SubSeqProperties DEF Str
  <2>6. l \in Str
    <3>1. \A i \in FileSize..FileSize : C[i] \in Int
      BY <1>1, <2>2
    <3> QED BY <1>1, <3>1, SubSeqProperties DEF Str
  <2>7. SubSeq(C, 1, FileSize) = C
    BY <1>1, SubSeqFull DEF Str
  <2>8. Plus(f, g) = C
    <3>1. 1 \in 1..(Len(C) + 1) /\ 1 \in (1 - 1)..Len(C) /\ FileSize \in 1..Len(C)
      BY <1>1
    <3>2. SubSeq(C, 1, 1) \o SubSeq(C, 1 + 1, FileSize) = SubSeq(C, 1, FileSize)
      BY <1>1, <3>1, ConcatAdjacentSubSeq DEF Str
    <3>3. 1 + 1 = 2
      OBVIOUS
    <3>4. SubSeq(C, 1, 1) \o SubSeq(C, 2, FileSize) = SubSeq(C, 1, FileSize)
      BY <3>2, <3>3
    <3> QED BY <2>7, <3>4 DEF Plus
  <2>9. Plus(h, l) = C
    <3>1. 1 \in 1..(Len(C) + 1) /\ FileSize - 1 \in (1 - 1)..Len(C) /\ FileSize \in (FileSize - 1)..Len(C)
          /\ (FileSize - 1) + 1 = FileSize
      BY <1>1
    <3>2. SubSeq(C, 1, FileSize - 1) \o SubSeq(C, (FileSize - 1) + 1, FileSize) = SubSeq(C, 1, FileSize)
      BY <1>1, <3>1, ConcatAdjacentSubSeq DEF Str
    <3> QED BY <2>7, <3>1, <3>2 DEF Plus
  <2> HIDE DEF e, g, C
  <2>10. Plus(e, g) = g
    BY <2>4, PlusIs DEF e
  <2> QED BY <1>1, <2>1, <2>3, <2>4, <2>5, <2>6, <2>8, <2>9, <2>10 DEF C
<1>3. b \in {<<C>>, <<e, C>>, <<f, e, g>>, <<h, l>>}
  BY DEF FsIo!Buffers
<1> HIDE DEF e, f, g, h, l, C
<1>4. ASSUME NEW p \in Str, NEW q \in Str
      PROVE  <<p, q>> \in Seq(Str) /\ FsIo!Joined(<<p, q>>) = Plus(p, q)
  <2>1. <<p>> \in Seq(Str) /\ <<q>> \in Seq(Str) /\ <<p, q>> \in Seq(Str)
    OBVIOUS
  <2>2. <<p, q>> = <<p>> \o <<q>>
    <3> DEFINE x == <<p>> \o <<q>>
               y == <<p, q>>
    <3>1. x \in Seq(Str) /\ Len(x) = 2 /\ x[1] = p /\ x[2] = q
      BY <2>1
    <3>2. y \in Seq(Str) /\ Len(y) = 2 /\ y[1] = p /\ y[2] = q
      BY <2>1
    <3> HIDE DEF x, y
    <3>3. \A i \in 1..Len(x) : x[i] = y[i]
      BY <3>1, <3>2
    <3>4. x = y
      BY <3>1, <3>2, <3>3, SeqEqual
    <3> QED BY <3>4 DEF x, y
  <2>3. FsIo!Joined(<<p>> \o <<q>>) = Plus(p, FsIo!Joined(<<q>>))
    BY <2>1, JoinedParts
  <2> QED BY <2>1, <2>2, <2>3, JoinedParts
<1>5. <<f, e, g>> \in Seq(Str) /\ FsIo!Joined(<<f, e, g>>) = Plus(f, Plus(e, g))
  <2>1. <<e, g>> \in Seq(Str) /\ FsIo!Joined(<<e, g>>) = Plus(e, g)
    BY <1>2, <1>4
  <2>2. <<f, e, g>> = <<f>> \o <<e, g>> /\ <<f, e, g>> \in Seq(Str)
    BY <1>2
  <2> QED BY <1>2, <2>1, <2>2, JoinedParts
<1>6. <<C>> \in Seq(Str) /\ FsIo!Joined(<<C>>) = C
  BY <1>2, JoinedParts
<1>7. /\ <<e, C>> \in Seq(Str) /\ FsIo!Joined(<<e, C>>) = C
      /\ <<h, l>> \in Seq(Str) /\ FsIo!Joined(<<h, l>>) = C
  BY <1>2, <1>4
<1>8. FsIo!Joined(<<f, e, g>>) = C
  BY <1>2, <1>5
<1> QED BY <1>3, <1>5, <1>6, <1>7, <1>8 DEF C

LEMMA IoBegins == ASSUME IoConstants, FsIo!Init PROVE IoInv
<1>0. FileSize \in Nat /\ FileSize >= 1 /\ 0 \in 0..FileSize /\ 0 \in -1..FileSize
  BY DEF IoConstants
<1>1. CASE FsIo!InitWrite
  <2>1. PICK b \in FsIo!Buffers, off \in {-1, 1} :
          fio = [FsIo!Idle EXCEPT !.op = "write", !.pc = "write", !.bufs = b, !.off = off,
                             !.file = <<0, 0>>, !.start = IF off < 0 THEN 2 ELSE off]
    BY <1>1 DEF FsIo!InitWrite
  <2>2. /\ DOMAIN fio = IoFields /\ fio.op = "write" /\ fio.pc = "write" /\ fio.bufs = b /\ fio.off = off
        /\ fio.file = <<0, 0>> /\ fio.start = (IF off < 0 THEN 2 ELSE off) /\ fio.total = 0 /\ fio.dst = "none"
        /\ fio.nsent = 0 /\ fio.result = 0
    BY <2>1 DEF FsIo!Idle, IoFields
  <2>3. b \in Seq(Str) /\ FsIo!Joined(b) = FsIo!Content /\ Len(FsIo!Content) = FileSize /\ \A i \in 1..FileSize : FsIo!Content[i] = i
    BY <1>0, BuffersHold, FirstIs
  <2>4. <<0, 0>> \in Str /\ Len(<<0, 0>>) = 2
    BY DEF Str
  <2>5. IoLeft
    BY <1>0, <2>2, <2>3, <2>4 DEF IoLeft
  <2> QED BY <1>0, <2>2, <2>5 DEF IoInv, IoTyped, IoSource, IoCopied, IoTarget
<1>2. CASE FsIo!InitCopy
  <2>1. PICK excl \in BOOLEAN, dst \in {"none", "old", "same"} :
          fio = [FsIo!Idle EXCEPT !.op = "copy", !.pc = "open", !.src = FsIo!Content, !.excl = excl, !.dst = dst,
                             !.file = IF dst = "none" THEN <<>> ELSE IF dst = "same" THEN FsIo!Content ELSE <<0>>]
    BY <1>2 DEF FsIo!InitCopy
  <2>2. /\ DOMAIN fio = IoFields /\ fio.op = "copy" /\ fio.pc = "open" /\ fio.src = FsIo!Content /\ fio.excl = excl
        /\ fio.dst = dst /\ fio.total = 0 /\ fio.nsent = 0 /\ fio.result = 0 /\ fio.shrunk = FALSE
        /\ fio.srcfd = FALSE /\ fio.dstfd = FALSE /\ fio.in_offset = 0 /\ fio.size = 0
        /\ fio.file = IF dst = "none" THEN <<>> ELSE IF dst = "same" THEN FsIo!Content ELSE <<0>>
    BY <2>1 DEF FsIo!Idle, IoFields
  <2>3. FsIo!Content = FirstBytes(FileSize)
    BY <1>0, FirstIs
  <2>4. IoTyped /\ IoLeft
    BY <1>0, <2>2 DEF IoTyped, IoLeft, CopyPcs
  <2>5. IoSource /\ IoCopied
    BY <1>0, <2>2, <2>3 DEF IoSource, IoCopied
  <2>6. IoTarget
    BY <1>0, <2>2, <2>3 DEF IoTarget
  <2> QED BY <2>2, <2>4, <2>5, <2>6 DEF IoInv
<1> QED BY <1>1, <1>2 DEF FsIo!Init

-----------------------------------------------------------------------------
(* A write *)

LEMMA IoWriteSome == ASSUME IoConstants, IoInv, FsIo!WriteSome PROVE IoInv'
<1> DEFINE b == fio.bufs
           m == IF Len(b) > IovMax THEN IovMax ELSE Len(b)
           J == FsIo!Joined(b)
           f == fio.file
           t == fio.total
           pos == fio.start + t
<1>1. PICK n \in 1..Len(FsIo!Given) :
        fio' = [fio EXCEPT !.file = FsIo!Written(n), !.bufs = FsIo!AfterWrite(@, n), !.total = @ + n,
                           !.off = IF @ >= 0 THEN @ + n ELSE @]
  BY DEF FsIo!WriteSome
<1>2. fio.pc = "write" /\ fio.op = "write" /\ DOMAIN fio = IoFields
  BY DEF FsIo!WriteSome, IoInv, IoTyped, CopyPcs
<1>3. /\ fio'.op = fio.op /\ fio'.pc = fio.pc /\ fio'.bufs = FsIo!AfterWrite(b, n) /\ fio'.total = t + n
      /\ fio'.off = (IF fio.off >= 0 THEN fio.off + n ELSE fio.off) /\ fio'.start = fio.start
      /\ fio'.file = FsIo!Written(n) /\ fio'.dst = fio.dst /\ fio'.nsent = fio.nsent
      /\ fio'.result = fio.result /\ DOMAIN fio' = IoFields
  BY <1>1, <1>2 DEF IoFields
<1>4. /\ b \in Seq(Str) /\ Len(J) = FileSize - t /\ (\A i \in 1..(FileSize - t) : J[i] = t + i)
      /\ f \in Str /\ fio.start \in Nat /\ pos <= Len(f) /\ (\A i \in 1..t : f[fio.start + i] = i)
      /\ fio.off \in Int /\ (fio.off >= 0 => fio.off = pos) /\ (fio.off < 0 => Len(f) = pos)
      /\ t \in 0..FileSize /\ FileSize \in Nat
  BY <1>2 DEF IoInv, IoLeft, IoTyped, IoConstants
<1>5. J \in Str /\ Len(J) \in Nat /\ Len(f) \in Nat /\ pos \in Nat
  <2>1. J \in Str
    BY <1>4, JoinedParts
  <2> HIDE DEF J
  <2>2. Len(J) \in Nat /\ Len(f) \in Nat
    BY <1>4, <2>1, StrIs
  <2> QED BY <1>4, <2>1, <2>2
<1>6. /\ FsIo!Given \in Str /\ Len(FsIo!Given) \in Nat /\ Len(FsIo!Given) <= Len(J)
      /\ \A i \in 1..Len(FsIo!Given) : FsIo!Given[i] = J[i]
  <2>1. m \in 0..Len(b)
    BY <1>4, LenProperties DEF IoConstants
  <2>2. FsIo!Given = FsIo!Joined(SubSeq(b, 1, m))
    BY DEF FsIo!Given
  <2> HIDE DEF m
  <2> DEFINE R == FsIo!Joined(SubSeq(b, m + 1, Len(b)))
  <2>3. FsIo!Given \in Str /\ R \in Str /\ J = Plus(FsIo!Given, R)
    BY <1>4, <2>1, <2>2, JoinedSplit
  <2> HIDE DEF J, R
  <2>4. /\ Len(FsIo!Given) \in Nat /\ Len(R) \in Nat /\ Len(J) = Len(FsIo!Given) + Len(R)
        /\ \A i \in 1..(Len(FsIo!Given) + Len(R)) : J[i] = IF i <= Len(FsIo!Given) THEN FsIo!Given[i] ELSE R[i - Len(FsIo!Given)]
    BY <2>3, StrIs
  <2> QED BY <2>3, <2>4
<1>7. n \in Nat /\ n >= 1 /\ n <= Len(J) /\ n \in 0..Len(J)
  BY <1>5, <1>6
<1>8. /\ FsIo!AfterWrite(b, n) \in Seq(Str)
      /\ Len(FsIo!Joined(FsIo!AfterWrite(b, n))) = FileSize - (t + n)
      /\ \A i \in 1..(FileSize - (t + n)) : FsIo!Joined(FsIo!AfterWrite(b, n))[i] = (t + n) + i
  <2>1. FsIo!AfterWrite(b, n) \in Seq(Str) /\ FsIo!Joined(FsIo!AfterWrite(b, n)) = SubSeq(J, n + 1, Len(J))
    BY <1>4, <1>7, AfterWriteKeeps
  <2> HIDE DEF J
  <2>2. LET r == SubSeq(J, n + 1, Len(J)) IN
            r \in Str /\ Len(r) = Len(J) - n /\ \A i \in 1..(Len(J) - n) : r[i] = J[n + i]
    BY <1>5, <1>7, StrIs
  <2>3. Len(J) - n = FileSize - (t + n)
    BY <1>4, <1>7
  <2>4. ASSUME NEW i \in 1..(FileSize - (t + n)) PROVE J[n + i] = (t + n) + i
    <3>1. n + i \in 1..(FileSize - t) /\ t + (n + i) = (t + n) + i
      BY <1>4, <1>7
    <3>2. J[n + i] = t + (n + i)
      BY <1>4, <3>1
    <3> QED BY <3>1, <3>2
  <2> QED BY <2>1, <2>2, <2>3, <2>4
<1>9. /\ FsIo!Written(n) \in Str /\ Len(FsIo!Written(n)) = (IF pos + n > Len(f) THEN pos + n ELSE Len(f))
      /\ \A i \in 1..(t + n) : FsIo!Written(n)[fio.start + i] = i
  <2> DEFINE e == pos + n
             l == IF e > Len(f) THEN e ELSE Len(f)
  <2>1. FsIo!Written(n) = [i \in 1..l |-> IF i > pos /\ i <= e THEN FsIo!Given[i - pos] ELSE f[i]]
    <3>1. (IF fio.off < 0 THEN Len(f) ELSE fio.off) = pos
      BY <1>4
    <3> HIDE DEF pos
    <3> QED BY <3>1 DEF FsIo!Written
  <2>2. l \in Nat /\ e <= l /\ Len(f) <= l
    BY <1>5, <1>7
  <2> HIDE DEF l, J
  <2>3. ASSUME NEW i \in 1..l PROVE (IF i > pos /\ i <= e THEN FsIo!Given[i - pos] ELSE f[i]) \in Int
    <3>1. CASE i > pos /\ i <= e
      <4>1. i - pos \in 1..Len(FsIo!Given)
        BY <1>5, <1>6, <1>7, <3>1
      <4> QED BY <1>6, <3>1, <4>1, StrIs
    <3>2. CASE ~(i > pos /\ i <= e)
      <4>1. i \in 1..Len(f)
        BY <1>4, <1>5, <1>7, <3>2 DEF l
      <4> QED BY <1>4, <3>2, <4>1, StrIs
    <3> QED BY <3>1, <3>2
  <2>4. FsIo!Written(n) \in Str /\ Len(FsIo!Written(n)) = l
    BY <2>1, <2>2, <2>3 DEF Str
  <2>5. ASSUME NEW i \in 1..(t + n) PROVE FsIo!Written(n)[fio.start + i] = i
    <3>1. fio.start + i \in 1..l /\ i \in Nat /\ t \in Nat
      <4>1. fio.start \in Nat /\ t \in Nat /\ n \in Nat /\ i \in Nat /\ i >= 1 /\ i <= t + n
        BY <1>4, <1>7
      <4>2. fio.start + t + n <= l /\ l \in Nat
        BY <1>4, <1>7, <2>2
      <4> QED BY <4>1, <4>2
    <3>2. CASE i <= t
      <4>1. ~(fio.start + i > pos) /\ i \in 1..t
        BY <1>4, <3>1, <3>2
      <4> QED BY <1>4, <2>1, <3>1, <4>1
    <3>3. CASE i > t
      <4>1. fio.start + i > pos /\ fio.start + i <= e /\ (fio.start + i) - pos = i - t
            /\ i - t \in 1..Len(FsIo!Given) /\ i - t \in 1..(FileSize - t) /\ t + (i - t) = i
        <5>1. fio.start \in Nat /\ t \in Nat /\ n \in Nat /\ i \in Nat /\ i >= 1 /\ i <= t + n
          BY <1>4, <1>7
        <5>2. n <= Len(FsIo!Given) /\ Len(FsIo!Given) \in Nat /\ t + n <= FileSize /\ FileSize \in Nat
          BY <1>4, <1>6, <1>7
        <5>3. fio.start + i > pos /\ fio.start + i <= e /\ (fio.start + i) - pos = i - t
          BY <3>3, <5>1
        <5>4. i - t \in 1..n /\ i - t \in Nat /\ t + (i - t) = i
          BY <3>3, <5>1
        <5>5. i - t \in 1..Len(FsIo!Given) /\ i - t \in 1..(FileSize - t)
          BY <5>1, <5>2, <5>4
        <5> QED BY <5>3, <5>4, <5>5
      <4>2. FsIo!Written(n)[fio.start + i] = FsIo!Given[i - t]
        BY <2>1, <3>1, <4>1
      <4>3. FsIo!Given[i - t] = J[i - t] /\ J[i - t] = i
        BY <1>4, <1>6, <4>1
      <4> QED BY <4>2, <4>3
    <3> QED BY <1>4, <3>1, <3>2, <3>3
  <2> QED BY <2>4, <2>5 DEF l
<1> HIDE DEF J
<1>10. IoTyped'
  <2>1. t + n \in 0..FileSize
    BY <1>4, <1>7
  <2> QED BY <1>2, <1>3, <2>1 DEF IoInv, IoTyped
<1>11. IoLeft'
  <2>1. /\ fio'.start + fio'.total <= Len(fio'.file)
        /\ fio'.off \in Int /\ (fio'.off >= 0 => fio'.off = fio'.start + fio'.total)
        /\ (fio'.off < 0 => Len(fio'.file) = fio'.start + fio'.total)
    <3>1. fio'.start = fio.start /\ fio'.total = t + n /\ fio'.file = FsIo!Written(n)
      BY <1>3
    <3>2. fio'.off = IF fio.off >= 0 THEN fio.off + n ELSE fio.off
      BY <1>3
    <3>3. (t + n) + fio.start = pos + n /\ fio.start + (t + n) = pos + n /\ pos + n \in Nat
      BY <1>4, <1>5, <1>7
    <3>4. Len(FsIo!Written(n)) \in Nat /\ Len(FsIo!Written(n)) >= pos + n
      BY <1>5, <1>9, <3>3
    <3>5. fio.off < 0 => Len(FsIo!Written(n)) = pos + n
      BY <1>4, <1>5, <1>7, <1>9
    <3>6. fio.off \in Int /\ n \in Nat /\ (fio.off >= 0 => fio.off + n = pos + n)
      BY <1>4, <1>7
    <3> QED BY <3>1, <3>2, <3>3, <3>4, <3>5, <3>6
  <2> QED BY <1>2, <1>3, <1>4, <1>8, <1>9, <2>1 DEF IoLeft
<1> QED BY <1>2, <1>3, <1>10, <1>11 DEF IoInv, IoSource, IoCopied, IoTarget

LEMMA IoWriteEnds == ASSUME IoConstants, IoInv, FsIo!WriteEnds PROVE IoInv'
<1>1. PICK failed \in BOOLEAN :
        fio' = [fio EXCEPT !.pc = "done",
                       !.result = IF fio.total > 0 THEN fio.total ELSE IF failed THEN -1 ELSE 0]
  BY DEF FsIo!WriteEnds
<1>2. fio.pc = "write" /\ fio.op = "write" /\ DOMAIN fio = IoFields /\ fio.total \in 0..FileSize
      /\ FileSize \in Nat
  BY DEF FsIo!WriteEnds, IoInv, IoTyped, CopyPcs, IoConstants
<1>3. /\ fio'.op = fio.op /\ fio'.pc = "done" /\ fio'.bufs = fio.bufs /\ fio'.total = fio.total
      /\ fio'.off = fio.off /\ fio'.start = fio.start
      /\ fio'.file = fio.file /\ fio'.dst = fio.dst /\ fio'.nsent = fio.nsent
      /\ fio'.result = (IF fio.total > 0 THEN fio.total ELSE IF failed THEN -1 ELSE 0)
      /\ DOMAIN fio' = IoFields
  BY <1>1, <1>2 DEF IoFields
<1>4. fio'.result \in -1..FileSize /\ (fio'.result >= 0 => fio'.result = fio.total)
  BY <1>2, <1>3
<1>5. IoTyped' /\ IoLeft'
  BY <1>2, <1>3, <1>4 DEF IoInv, IoTyped, IoLeft
<1> QED BY <1>2, <1>3, <1>5 DEF IoInv, IoSource, IoCopied, IoTarget

-----------------------------------------------------------------------------
(* A copy *)

LEMMA IoOpenSource == ASSUME IoConstants, IoInv, FsIo!OpenSource PROVE IoInv'
<1>0. fio.pc = "open"
  BY DEF FsIo!OpenSource
<1>1. /\ fio.pc = "open" /\ fio.op = "copy" /\ DOMAIN fio = IoFields /\ FileSize \in Nat /\ FileSize >= 1
      /\ IoTyped /\ IoSource /\ IoCopied /\ IoTarget
  BY <1>0 DEF IoInv, IoTyped, IoConstants
<1>2. fio.src = (IF fio.shrunk THEN FirstBytes(1) ELSE FirstBytes(FileSize)) /\ Len(fio.src) \in 1..FileSize
      /\ fio.src \in Str /\ (~fio.shrunk => Len(fio.src) = FileSize) /\ \A i \in 1..Len(fio.src) : fio.src[i] = i
  <2>1. fio.src = IF fio.shrunk THEN FirstBytes(1) ELSE FirstBytes(FileSize)
    BY <1>1 DEF IoSource
  <2>2. FirstBytes(1) \in Str /\ Len(FirstBytes(1)) = 1 /\ \A i \in 1..1 : FirstBytes(1)[i] = i
    BY FirstIs
  <2>3. FirstBytes(FileSize) \in Str /\ Len(FirstBytes(FileSize)) = FileSize /\ \A i \in 1..FileSize : FirstBytes(FileSize)[i] = i
    BY <1>1, FirstIs
  <2>4. CASE fio.shrunk
    <3>1. fio.src = FirstBytes(1)
      BY <2>1, <2>4
    <3>2. 1 \in 1..FileSize
      BY <1>1
    <3> QED BY <2>2, <2>4, <3>1, <3>2
  <2>5. CASE ~fio.shrunk
    <3>1. fio.src = FirstBytes(FileSize)
      BY <2>1, <2>5
    <3>2. FileSize \in 1..FileSize
      BY <1>1
    <3> QED BY <2>3, <2>5, <3>1, <3>2
  <2> QED BY <2>1, <2>4, <2>5
<1>10. ASSUME fio' = [fio EXCEPT !.pc = "done", !.result = -1] PROVE IoInv'
  <2>1. /\ fio'.op = fio.op /\ fio'.excl = fio.excl /\ fio'.src = fio.src /\ fio'.total = fio.total
        /\ fio'.srcfd = fio.srcfd /\ fio'.dstfd = fio.dstfd /\ fio'.dst = fio.dst
        /\ fio'.file = fio.file /\ fio'.size = fio.size /\ fio'.in_offset = fio.in_offset
        /\ fio'.len = fio.len /\ fio'.nsent = fio.nsent /\ fio'.chunk = fio.chunk /\ fio'.result = -1
        /\ fio'.shrunk = fio.shrunk /\ fio'.blind = fio.blind /\ fio'.pc = "done"
        /\ DOMAIN fio' = IoFields
    BY <1>1, <1>10 DEF FsIo!Out, IoFields
  <2>10. IoTyped'
    BY <1>1, <2>1, <1>10 DEF IoTyped, CopyPcs
  <2>11. IoSource'
    BY <1>1, <2>1, <1>10 DEF IoSource, IoTyped, IoCopied
  <2>12. IoCopied'
    BY <1>1, <2>1, <1>10 DEF IoCopied, IoSource, IoTarget
  <2>13. IoTarget'
    BY <1>1, <2>1, <1>10 DEF IoTarget, IoTyped, IoCopied
  <2> QED BY <1>1, <2>1, <2>10, <2>11, <2>12, <2>13 DEF IoInv, IoLeft
<1>11. ASSUME fio' = [FsIo!Out(-1) EXCEPT !.srcfd = TRUE] PROVE IoInv'
  <2>1. /\ fio'.op = fio.op /\ fio'.excl = fio.excl /\ fio'.src = fio.src /\ fio'.total = fio.total
        /\ fio'.srcfd = TRUE /\ fio'.dstfd = fio.dstfd /\ fio'.dst = fio.dst /\ fio'.file = fio.file
        /\ fio'.size = fio.size /\ fio'.in_offset = fio.in_offset /\ fio'.len = fio.len
        /\ fio'.nsent = fio.nsent /\ fio'.chunk = fio.chunk /\ fio'.result = -1
        /\ fio'.shrunk = fio.shrunk /\ fio'.blind = fio.blind /\ fio'.pc = "out"
        /\ DOMAIN fio' = IoFields
    BY <1>1, <1>11 DEF FsIo!Out, IoFields
  <2>10. IoTyped'
    BY <1>1, <2>1, <1>11 DEF IoTyped, CopyPcs
  <2>11. IoSource'
    BY <1>1, <2>1, <1>11 DEF IoSource, IoTyped, IoCopied
  <2>12. IoCopied'
    BY <1>1, <2>1, <1>11 DEF IoCopied, IoSource, IoTarget
  <2>13. IoTarget'
    BY <1>1, <2>1, <1>11 DEF IoTarget, IoTyped, IoCopied
  <2> QED BY <1>1, <2>1, <2>10, <2>11, <2>12, <2>13 DEF IoInv, IoLeft
<1>12. ASSUME fio' = [fio EXCEPT !.srcfd = TRUE, !.size = Len(fio.src), !.pc = "opendst"] PROVE IoInv'
  <2>1. /\ fio'.op = fio.op /\ fio'.excl = fio.excl /\ fio'.src = fio.src /\ fio'.total = fio.total
        /\ fio'.srcfd = TRUE /\ fio'.dstfd = fio.dstfd /\ fio'.dst = fio.dst /\ fio'.file = fio.file
        /\ fio'.size = Len(fio.src) /\ fio'.in_offset = fio.in_offset /\ fio'.len = fio.len
        /\ fio'.nsent = fio.nsent /\ fio'.chunk = fio.chunk /\ fio'.result = fio.result
        /\ fio'.shrunk = fio.shrunk /\ fio'.blind = fio.blind /\ fio'.pc = "opendst"
        /\ DOMAIN fio' = IoFields
    BY <1>1, <1>12 DEF FsIo!Out, IoFields
  <2>10. IoTyped'
    BY <1>1, <2>1, <1>12, <1>2 DEF IoTyped, CopyPcs
  <2>11. IoSource'
    BY <1>1, <2>1, <1>12, <1>2 DEF IoSource, IoTyped, IoCopied
  <2>12. IoCopied'
    BY <1>1, <2>1, <1>12, <1>2 DEF IoCopied, IoSource, IoTarget
  <2>13. IoTarget'
    BY <1>1, <2>1, <1>12, <1>2 DEF IoTarget, IoTyped, IoCopied
  <2> QED BY <1>1, <2>1, <2>10, <2>11, <2>12, <2>13 DEF IoInv, IoLeft
<1> QED BY <1>10, <1>11, <1>12 DEF FsIo!OpenSource

LEMMA IoOpenDestination == ASSUME IoConstants, IoInv, FsIo!OpenDestination PROVE IoInv'
<1>0. fio.pc = "opendst"
  BY DEF FsIo!OpenDestination
<1>1. /\ fio.pc = "opendst" /\ fio.op = "copy" /\ DOMAIN fio = IoFields /\ FileSize \in Nat /\ FileSize >= 1
      /\ IoTyped /\ IoSource /\ IoCopied /\ IoTarget
  BY <1>0 DEF IoInv, IoTyped, IoConstants
<1>10. ASSUME fio' = FsIo!Out(-1) PROVE IoInv'
  <2>1. /\ fio'.op = fio.op /\ fio'.excl = fio.excl /\ fio'.src = fio.src /\ fio'.total = fio.total
        /\ fio'.srcfd = fio.srcfd /\ fio'.dstfd = fio.dstfd /\ fio'.dst = fio.dst
        /\ fio'.file = fio.file /\ fio'.size = fio.size /\ fio'.in_offset = fio.in_offset
        /\ fio'.len = fio.len /\ fio'.nsent = fio.nsent /\ fio'.chunk = fio.chunk /\ fio'.result = -1
        /\ fio'.shrunk = fio.shrunk /\ fio'.blind = fio.blind /\ fio'.pc = "out"
        /\ DOMAIN fio' = IoFields
    BY <1>1, <1>10 DEF FsIo!Out, IoFields
  <2>10. IoTyped'
    BY <1>1, <2>1, <1>10 DEF IoTyped, CopyPcs
  <2>11. IoSource'
    BY <1>1, <2>1, <1>10 DEF IoSource, IoTyped, IoCopied
  <2>12. IoCopied'
    BY <1>1, <2>1, <1>10 DEF IoCopied, IoSource, IoTarget
  <2>13. IoTarget'
    BY <1>1, <2>1, <1>10 DEF IoTarget, IoTyped, IoCopied
  <2> QED BY <1>1, <2>1, <2>10, <2>11, <2>12, <2>13 DEF IoInv, IoLeft
<1>11. ASSUME fio.excl => fio.dst = "none",
             fio' = [fio EXCEPT !.dstfd = TRUE, !.pc = IF fio.excl THEN "copy" ELSE "identity",
                                !.dst = IF @ = "none" THEN "new" ELSE @] PROVE IoInv'
  <2>1. /\ fio'.op = fio.op /\ fio'.excl = fio.excl /\ fio'.src = fio.src /\ fio'.total = fio.total
        /\ fio'.srcfd = fio.srcfd /\ fio'.dstfd = TRUE
        /\ fio'.dst = (IF fio.dst = "none" THEN "new" ELSE fio.dst) /\ fio'.file = fio.file
        /\ fio'.size = fio.size /\ fio'.in_offset = fio.in_offset /\ fio'.len = fio.len
        /\ fio'.nsent = fio.nsent /\ fio'.chunk = fio.chunk /\ fio'.result = fio.result
        /\ fio'.shrunk = fio.shrunk /\ fio'.blind = fio.blind
        /\ fio'.pc = (IF fio.excl THEN "copy" ELSE "identity") /\ DOMAIN fio' = IoFields
    BY <1>1, <1>11 DEF FsIo!Out, IoFields
  <2>10. IoTyped'
    BY <1>1, <2>1, <1>11, FirstIs DEF IoTyped, CopyPcs
  <2>11. IoSource'
    BY <1>1, <2>1, <1>11, FirstIs DEF IoSource, IoTyped, IoCopied
  <2>12. IoCopied'
    BY <1>1, <2>1, <1>11, FirstIs DEF IoCopied, IoSource, IoTarget
  <2>13. IoTarget'
    BY <1>1, <2>1, <1>11, FirstIs DEF IoTarget, IoTyped, IoCopied
  <2> QED BY <1>1, <2>1, <2>10, <2>11, <2>12, <2>13 DEF IoInv, IoLeft
<1> QED BY <1>10, <1>11 DEF FsIo!OpenDestination

LEMMA IoTruncate == ASSUME IoConstants, IoInv, FsIo!Truncate PROVE IoInv'
<1>0. fio.pc = "identity"
  BY DEF FsIo!Truncate
<1>1. /\ fio.pc = "identity" /\ fio.op = "copy" /\ DOMAIN fio = IoFields /\ FileSize \in Nat /\ FileSize >= 1
      /\ IoTyped /\ IoSource /\ IoCopied /\ IoTarget
  BY <1>0 DEF IoInv, IoTyped, IoConstants
<1>10. ASSUME fio' = [FsIo!Out(-1) EXCEPT !.blind = TRUE] PROVE IoInv'
  <2>1. /\ fio'.op = fio.op /\ fio'.excl = fio.excl /\ fio'.src = fio.src /\ fio'.total = fio.total
        /\ fio'.srcfd = fio.srcfd /\ fio'.dstfd = fio.dstfd /\ fio'.dst = fio.dst
        /\ fio'.file = fio.file /\ fio'.size = fio.size /\ fio'.in_offset = fio.in_offset
        /\ fio'.len = fio.len /\ fio'.nsent = fio.nsent /\ fio'.chunk = fio.chunk /\ fio'.result = -1
        /\ fio'.shrunk = fio.shrunk /\ fio'.blind = TRUE /\ fio'.pc = "out" /\ DOMAIN fio' = IoFields
    BY <1>1, <1>10 DEF FsIo!Out, IoFields
  <2>10. IoTyped'
    BY <1>1, <2>1, <1>10 DEF IoTyped, CopyPcs
  <2>11. IoSource'
    BY <1>1, <2>1, <1>10 DEF IoSource, IoTyped, IoCopied
  <2>12. IoCopied'
    BY <1>1, <2>1, <1>10 DEF IoCopied, IoSource, IoTarget
  <2>13. IoTarget'
    BY <1>1, <2>1, <1>10 DEF IoTarget, IoTyped, IoCopied
  <2> QED BY <1>1, <2>1, <2>10, <2>11, <2>12, <2>13 DEF IoInv, IoLeft
<1>11. ASSUME FsIo!SameFile, fio' = FsIo!Out(0) PROVE IoInv'
  <2>1. /\ fio'.op = fio.op /\ fio'.excl = fio.excl /\ fio'.src = fio.src /\ fio'.total = fio.total
        /\ fio'.srcfd = fio.srcfd /\ fio'.dstfd = fio.dstfd /\ fio'.dst = fio.dst
        /\ fio'.file = fio.file /\ fio'.size = fio.size /\ fio'.in_offset = fio.in_offset
        /\ fio'.len = fio.len /\ fio'.nsent = fio.nsent /\ fio'.chunk = fio.chunk /\ fio'.result = 0
        /\ fio'.shrunk = fio.shrunk /\ fio'.blind = fio.blind /\ fio'.pc = "out"
        /\ DOMAIN fio' = IoFields
    BY <1>1, <1>11 DEF FsIo!Out, IoFields
  <2>2. fio.dst = "same" /\ -1 <= 0
    BY <1>11 DEF FsIo!SameFile
  <2>10. IoTyped'
    BY <1>1, <2>1, <1>11, <2>2 DEF IoTyped, CopyPcs
  <2>11. IoSource'
    BY <1>1, <2>1, <1>11, <2>2 DEF IoSource, IoTyped, IoCopied
  <2>12. IoCopied'
    BY <1>1, <2>1, <1>11, <2>2 DEF IoCopied, IoSource, IoTarget
  <2>13. IoTarget'
    BY <1>1, <2>1, <1>11, <2>2 DEF IoTarget, IoTyped, IoCopied
  <2> QED BY <1>1, <2>1, <2>10, <2>11, <2>12, <2>13 DEF IoInv, IoLeft
<1>12. ASSUME ~FsIo!SameFile, fio' = [fio EXCEPT !.file = <<>>, !.pc = "copy", !.src = IF fio.dst = "same" THEN <<>> ELSE @] PROVE IoInv'
  <2>1. /\ fio'.op = fio.op /\ fio'.excl = fio.excl /\ fio'.src = fio.src /\ fio'.total = fio.total
        /\ fio'.srcfd = fio.srcfd /\ fio'.dstfd = fio.dstfd /\ fio'.dst = fio.dst /\ fio'.file = <<>>
        /\ fio'.size = fio.size /\ fio'.in_offset = fio.in_offset /\ fio'.len = fio.len
        /\ fio'.nsent = fio.nsent /\ fio'.chunk = fio.chunk /\ fio'.result = fio.result
        /\ fio'.shrunk = fio.shrunk /\ fio'.blind = fio.blind /\ fio'.pc = "copy"
        /\ DOMAIN fio' = IoFields
    BY <1>1, <1>12 DEF IoFields, FsIo!SameFile
  <2>10. IoTyped'
    BY <1>1, <2>1, <1>12, FirstIs DEF IoTyped, CopyPcs
  <2>11. IoSource'
    BY <1>1, <2>1, <1>12, FirstIs DEF IoSource, IoTyped, IoCopied
  <2>12. IoCopied'
    BY <1>1, <2>1, <1>12, FirstIs DEF IoCopied, IoSource, IoTarget
  <2>13. IoTarget'
    BY <1>1, <2>1, <1>12, FirstIs DEF IoTarget, IoTyped, IoCopied
  <2> QED BY <1>1, <2>1, <2>10, <2>11, <2>12, <2>13 DEF IoInv, IoLeft
<1>13. ASSUME ~FsIo!SameFile, fio' = FsIo!Out(-1) PROVE IoInv'
  <2>1. /\ fio'.op = fio.op /\ fio'.excl = fio.excl /\ fio'.src = fio.src /\ fio'.total = fio.total
        /\ fio'.srcfd = fio.srcfd /\ fio'.dstfd = fio.dstfd /\ fio'.dst = fio.dst
        /\ fio'.file = fio.file /\ fio'.size = fio.size /\ fio'.in_offset = fio.in_offset
        /\ fio'.len = fio.len /\ fio'.nsent = fio.nsent /\ fio'.chunk = fio.chunk /\ fio'.result = -1
        /\ fio'.shrunk = fio.shrunk /\ fio'.blind = fio.blind /\ fio'.pc = "out"
        /\ DOMAIN fio' = IoFields
    BY <1>1, <1>13 DEF FsIo!Out, IoFields
  <2>2. fio.dst # "same"
    BY <1>13 DEF FsIo!SameFile
  <2>10. IoTyped'
    BY <1>1, <2>1, <1>13, <2>2 DEF IoTyped, CopyPcs
  <2>11. IoSource'
    BY <1>1, <2>1, <1>13, <2>2 DEF IoSource, IoTyped, IoCopied
  <2>12. IoCopied'
    BY <1>1, <2>1, <1>13, <2>2 DEF IoCopied, IoSource, IoTarget
  <2>13. IoTarget'
    BY <1>1, <2>1, <1>13, <2>2 DEF IoTarget, IoTyped, IoCopied
  <2> QED BY <1>1, <2>1, <2>10, <2>11, <2>12, <2>13 DEF IoInv, IoLeft
<1> QED BY <1>10, <1>11, <1>12, <1>13 DEF FsIo!Truncate

LEMMA IoAttributes == ASSUME IoConstants, IoInv, FsIo!Attributes PROVE IoInv'
<1>0. fio.pc = "copy"
  BY DEF FsIo!Attributes
<1>1. /\ fio.pc = "copy" /\ fio.op = "copy" /\ DOMAIN fio = IoFields /\ FileSize \in Nat /\ FileSize >= 1
      /\ IoTyped /\ IoSource /\ IoCopied /\ IoTarget
  BY <1>0 DEF IoInv, IoTyped, IoConstants
<1>10. ASSUME fio' = FsIo!Out(-1) PROVE IoInv'
  <2>1. /\ fio'.op = fio.op /\ fio'.excl = fio.excl /\ fio'.src = fio.src /\ fio'.total = fio.total
        /\ fio'.srcfd = fio.srcfd /\ fio'.dstfd = fio.dstfd /\ fio'.dst = fio.dst
        /\ fio'.file = fio.file /\ fio'.size = fio.size /\ fio'.in_offset = fio.in_offset
        /\ fio'.len = fio.len /\ fio'.nsent = fio.nsent /\ fio'.chunk = fio.chunk /\ fio'.result = -1
        /\ fio'.shrunk = fio.shrunk /\ fio'.blind = fio.blind /\ fio'.pc = "out"
        /\ DOMAIN fio' = IoFields
    BY <1>1, <1>10 DEF FsIo!Out, IoFields
  <2>10. IoTyped'
    BY <1>1, <2>1, <1>10 DEF IoTyped, CopyPcs
  <2>11. IoSource'
    BY <1>1, <2>1, <1>10 DEF IoSource, IoTyped, IoCopied
  <2>12. IoCopied'
    BY <1>1, <2>1, <1>10 DEF IoCopied, IoSource, IoTarget
  <2>13. IoTarget'
    BY <1>1, <2>1, <1>10 DEF IoTarget, IoTyped, IoCopied
  <2> QED BY <1>1, <2>1, <2>10, <2>11, <2>12, <2>13 DEF IoInv, IoLeft
<1> QED BY <1>10 DEF FsIo!Attributes

LEMMA IoSendfile == ASSUME IoConstants, IoInv, FsIo!Sendfile PROVE IoInv'
<1>0. fio.pc = "copy"
  BY DEF FsIo!Sendfile
<1>1. /\ fio.pc = "copy" /\ fio.op = "copy" /\ DOMAIN fio = IoFields /\ FileSize \in Nat /\ FileSize >= 1
      /\ IoTyped /\ IoSource /\ IoCopied /\ IoTarget
  BY <1>0 DEF IoInv, IoTyped, IoConstants
<1>10. ASSUME fio.size = 0, fio' = FsIo!Out(0) PROVE IoInv'
  <2>1. /\ fio'.op = fio.op /\ fio'.excl = fio.excl /\ fio'.src = fio.src /\ fio'.total = fio.total
        /\ fio'.srcfd = fio.srcfd /\ fio'.dstfd = fio.dstfd /\ fio'.dst = fio.dst
        /\ fio'.file = fio.file /\ fio'.size = fio.size /\ fio'.in_offset = fio.in_offset
        /\ fio'.len = fio.len /\ fio'.nsent = fio.nsent /\ fio'.chunk = fio.chunk /\ fio'.result = 0
        /\ fio'.shrunk = fio.shrunk /\ fio'.blind = fio.blind /\ fio'.pc = "out"
        /\ DOMAIN fio' = IoFields
    BY <1>1, <1>10 DEF FsIo!Out, IoFields
  <2>10. IoTyped'
    BY <1>1, <2>1, <1>10 DEF IoTyped, CopyPcs
  <2>11. IoSource'
    BY <1>1, <2>1, <1>10 DEF IoSource, IoTyped, IoCopied
  <2>12. IoCopied'
    BY <1>1, <2>1, <1>10 DEF IoCopied, IoSource, IoTarget
  <2>13. IoTarget'
    BY <1>1, <2>1, <1>10 DEF IoTarget, IoTyped, IoCopied
  <2> QED BY <1>1, <2>1, <2>10, <2>11, <2>12, <2>13 DEF IoInv, IoLeft
<1>11. ASSUME fio.size # 0, fio' = [fio EXCEPT !.pc = "read", !.len = fio.size, !.nsent = 0] PROVE IoInv'
  <2>1. /\ fio'.op = fio.op /\ fio'.excl = fio.excl /\ fio'.src = fio.src /\ fio'.total = fio.total
        /\ fio'.srcfd = fio.srcfd /\ fio'.dstfd = fio.dstfd /\ fio'.dst = fio.dst
        /\ fio'.file = fio.file /\ fio'.size = fio.size /\ fio'.in_offset = fio.in_offset
        /\ fio'.len = fio.size /\ fio'.nsent = 0 /\ fio'.chunk = fio.chunk /\ fio'.result = fio.result
        /\ fio'.shrunk = fio.shrunk /\ fio'.blind = fio.blind /\ fio'.pc = "read"
        /\ DOMAIN fio' = IoFields
    BY <1>1, <1>11 DEF FsIo!Out, IoFields
  <2>10. IoTyped'
    BY <1>1, <2>1, <1>11 DEF IoTyped, CopyPcs
  <2>11. IoSource'
    BY <1>1, <2>1, <1>11 DEF IoSource, IoTyped, IoCopied
  <2>12. IoCopied'
    BY <1>1, <2>1, <1>11 DEF IoCopied, IoSource, IoTarget
  <2>13. IoTarget'
    BY <1>1, <2>1, <1>11 DEF IoTarget, IoTyped, IoCopied
  <2> QED BY <1>1, <2>1, <2>10, <2>11, <2>12, <2>13 DEF IoInv, IoLeft
<1> QED BY <1>10, <1>11 DEF FsIo!Sendfile

LEMMA IoRead == ASSUME IoConstants, IoInv, FsIo!Read PROVE IoInv'
<1>0. fio.pc = "read"
  BY DEF FsIo!Read
<1>1. /\ fio.pc = "read" /\ fio.op = "copy" /\ DOMAIN fio = IoFields /\ FileSize \in Nat /\ FileSize >= 1
      /\ IoTyped /\ IoSource /\ IoCopied /\ IoTarget
  BY <1>0 DEF IoInv, IoTyped, IoConstants
<1>2. fio.src = (IF fio.shrunk THEN FirstBytes(1) ELSE FirstBytes(FileSize)) /\ Len(fio.src) \in 1..FileSize
      /\ fio.src \in Str /\ (~fio.shrunk => Len(fio.src) = FileSize) /\ \A i \in 1..Len(fio.src) : fio.src[i] = i
  <2>1. fio.src = IF fio.shrunk THEN FirstBytes(1) ELSE FirstBytes(FileSize)
    BY <1>1 DEF IoSource
  <2>2. FirstBytes(1) \in Str /\ Len(FirstBytes(1)) = 1 /\ \A i \in 1..1 : FirstBytes(1)[i] = i
    BY FirstIs
  <2>3. FirstBytes(FileSize) \in Str /\ Len(FirstBytes(FileSize)) = FileSize /\ \A i \in 1..FileSize : FirstBytes(FileSize)[i] = i
    BY <1>1, FirstIs
  <2>4. CASE fio.shrunk
    <3>1. fio.src = FirstBytes(1)
      BY <2>1, <2>4
    <3>2. 1 \in 1..FileSize
      BY <1>1
    <3> QED BY <2>2, <2>4, <3>1, <3>2
  <2>5. CASE ~fio.shrunk
    <3>1. fio.src = FirstBytes(FileSize)
      BY <2>1, <2>5
    <3>2. FileSize \in 1..FileSize
      BY <1>1
    <3> QED BY <2>3, <2>5, <3>1, <3>2
  <2> QED BY <2>1, <2>4, <2>5
<1>10. ASSUME fio' = [fio EXCEPT !.pc = "sent"] PROVE IoInv'
  <2>1. /\ fio'.op = fio.op /\ fio'.excl = fio.excl /\ fio'.src = fio.src /\ fio'.total = fio.total
        /\ fio'.srcfd = fio.srcfd /\ fio'.dstfd = fio.dstfd /\ fio'.dst = fio.dst
        /\ fio'.file = fio.file /\ fio'.size = fio.size /\ fio'.in_offset = fio.in_offset
        /\ fio'.len = fio.len /\ fio'.nsent = fio.nsent /\ fio'.chunk = fio.chunk
        /\ fio'.result = fio.result /\ fio'.shrunk = fio.shrunk /\ fio'.blind = fio.blind
        /\ fio'.pc = "sent" /\ DOMAIN fio' = IoFields
    BY <1>1, <1>10 DEF FsIo!Out, IoFields
  <2>10. IoTyped'
    BY <1>1, <2>1, <1>10 DEF IoTyped, CopyPcs
  <2>11. IoSource'
    BY <1>1, <2>1, <1>10 DEF IoSource, IoTyped, IoCopied
  <2>12. IoCopied'
    BY <1>1, <2>1, <1>10 DEF IoCopied, IoSource, IoTarget
  <2>13. IoTarget'
    BY <1>1, <2>1, <1>10 DEF IoTarget, IoTyped, IoCopied
  <2> QED BY <1>1, <2>1, <2>10, <2>11, <2>12, <2>13 DEF IoInv, IoLeft
<1>11. ASSUME fio' = [fio EXCEPT !.pc = "sent", !.nsent = IF fio.nsent = 0 THEN -1 ELSE @] PROVE IoInv'
  <2>1. /\ fio'.op = fio.op /\ fio'.excl = fio.excl /\ fio'.src = fio.src /\ fio'.total = fio.total
        /\ fio'.srcfd = fio.srcfd /\ fio'.dstfd = fio.dstfd /\ fio'.dst = fio.dst
        /\ fio'.file = fio.file /\ fio'.size = fio.size /\ fio'.in_offset = fio.in_offset
        /\ fio'.len = fio.len /\ fio'.nsent = (IF fio.nsent = 0 THEN -1 ELSE fio.nsent)
        /\ fio'.chunk = fio.chunk /\ fio'.result = fio.result /\ fio'.shrunk = fio.shrunk
        /\ fio'.blind = fio.blind /\ fio'.pc = "sent" /\ DOMAIN fio' = IoFields
    BY <1>1, <1>11 DEF FsIo!Out, IoFields
  <2>10. IoTyped'
    BY <1>1, <2>1, <1>11 DEF IoTyped, CopyPcs
  <2>11. IoSource'
    BY <1>1, <2>1, <1>11 DEF IoSource, IoTyped, IoCopied
  <2>12. IoCopied'
    BY <1>1, <2>1, <1>11 DEF IoCopied, IoSource, IoTarget
  <2>13. IoTarget'
    BY <1>1, <2>1, <1>11 DEF IoTarget, IoTyped, IoCopied
  <2> QED BY <1>1, <2>1, <2>10, <2>11, <2>12, <2>13 DEF IoInv, IoLeft
<1>12. ASSUME NEW n \in 1..Chunk, fio.nsent < fio.len, n <= Len(fio.src) - fio.in_offset, n <= fio.len - fio.nsent,
             fio' = [fio EXCEPT !.chunk = SubSeq(fio.src, fio.in_offset + 1, fio.in_offset + n), !.pc = "send"] PROVE IoInv'
  <2>1. /\ fio'.op = fio.op /\ fio'.excl = fio.excl /\ fio'.src = fio.src /\ fio'.total = fio.total
        /\ fio'.srcfd = fio.srcfd /\ fio'.dstfd = fio.dstfd /\ fio'.dst = fio.dst
        /\ fio'.file = fio.file /\ fio'.size = fio.size /\ fio'.in_offset = fio.in_offset
        /\ fio'.len = fio.len /\ fio'.nsent = fio.nsent
        /\ fio'.chunk = SubSeq(fio.src, fio.in_offset + 1, fio.in_offset + n)
        /\ fio'.result = fio.result /\ fio'.shrunk = fio.shrunk /\ fio'.blind = fio.blind
        /\ fio'.pc = "send" /\ DOMAIN fio' = IoFields
    BY <1>1, <1>12 DEF FsIo!Out, IoFields
  <2>2. /\ fio.in_offset \in Nat /\ n \in Nat /\ n >= 1 /\ fio.in_offset + n <= Len(fio.src) /\ Len(fio.src) <= FileSize
        /\ Len(fio.src) \in Nat /\ fio.nsent \in Nat /\ fio.size \in Nat /\ fio.len = fio.size
    BY <1>1, <1>2, <1>12 DEF IoSource
  <2>3. /\ fio'.chunk \in Str /\ Len(fio'.chunk) = n
        /\ \A i \in 1..n : fio'.chunk[i] = fio.in_offset + i
    <3>1. \A i \in (fio.in_offset + 1)..(fio.in_offset + n) : fio.src[i] \in Int /\ fio.src[i] = i
      BY <1>2, <2>2
    <3>2. /\ SubSeq(fio.src, fio.in_offset + 1, fio.in_offset + n) \in Seq(Int)
          /\ Len(SubSeq(fio.src, fio.in_offset + 1, fio.in_offset + n)) =
               IF fio.in_offset + 1 <= fio.in_offset + n THEN (fio.in_offset + n) - (fio.in_offset + 1) + 1 ELSE 0
          /\ \A i \in 1..((fio.in_offset + n) - (fio.in_offset + 1) + 1) :
               SubSeq(fio.src, fio.in_offset + 1, fio.in_offset + n)[i] = fio.src[fio.in_offset + 1 + i - 1]
      <4>1. fio.in_offset + 1 \in Int /\ fio.in_offset + n \in Int
        BY <2>2
      <4> QED BY <3>1, <4>1, SubSeqProperties
    <3>3. (fio.in_offset + n) - (fio.in_offset + 1) + 1 = n /\ fio.in_offset + 1 <= fio.in_offset + n
      BY <2>2
    <3>4. ASSUME NEW i \in 1..n PROVE fio'.chunk[i] = fio.in_offset + i
      <4>1. fio.in_offset + 1 + i - 1 = fio.in_offset + i /\ fio.in_offset + i \in (fio.in_offset + 1)..(fio.in_offset + n)
        BY <2>2
      <4>2. fio'.chunk[i] = fio.src[fio.in_offset + i]
        BY <2>1, <3>2, <3>3, <4>1
      <4> QED BY <3>1, <4>1, <4>2
    <3> QED BY <2>1, <3>2, <3>3, <3>4 DEF Str
  <2>4. fio.nsent \in 0..fio.size /\ n + fio.nsent <= fio.size /\ fio.in_offset + n <= FileSize
    BY <1>1, <1>12, <2>2
  <2>10. IoTyped'
    BY <1>1, <2>1, <1>12, <2>2, <2>3, <2>4 DEF IoTyped, CopyPcs
  <2>5. /\ fio.src = (IF fio.shrunk THEN FirstBytes(1) ELSE FirstBytes(FileSize))
        /\ fio.in_offset \in 0..FileSize /\ fio.size \in 0..FileSize /\ fio.len = fio.size
    BY <1>1 DEF IoSource
  <2>11. IoSource'
    BY ONLY <2>1, <2>2, <2>3, <2>4, <2>5 DEF IoSource
  <2>12. IoCopied'
    BY <1>1, <2>1, <1>12, <2>2, <2>3, <2>4 DEF IoCopied, IoSource, IoTarget
  <2>13. IoTarget'
    BY <1>1, <2>1, <1>12, <2>2, <2>3, <2>4 DEF IoTarget, IoTyped, IoCopied
  <2> QED BY <1>1, <2>1, <2>10, <2>11, <2>12, <2>13 DEF IoInv, IoLeft
<1>13. CASE \E n \in 1..Chunk : fio.nsent < fio.len /\ n <= Len(fio.src) - fio.in_offset /\ n <= fio.len - fio.nsent /\
             fio' = [fio EXCEPT !.chunk = SubSeq(fio.src, fio.in_offset + 1, fio.in_offset + n), !.pc = "send"]
  BY <1>12, <1>13
<1> QED BY <1>10, <1>11, <1>13 DEF FsIo!Read

LEMMA IoWrite == ASSUME IoConstants, IoInv, FsIo!Write PROVE IoInv'
<1>0. fio.pc = "send"
  BY DEF FsIo!Write
<1>1. /\ fio.pc = "send" /\ fio.op = "copy" /\ DOMAIN fio = IoFields /\ FileSize \in Nat /\ FileSize >= 1
      /\ IoTyped /\ IoSource /\ IoCopied /\ IoTarget
  BY <1>0 DEF IoInv, IoTyped, IoConstants
<1>10. ASSUME fio' = [fio EXCEPT !.pc = "sent", !.nsent = -1, !.chunk = <<>>] PROVE IoInv'
  <2>1. /\ fio'.op = fio.op /\ fio'.excl = fio.excl /\ fio'.src = fio.src /\ fio'.total = fio.total
        /\ fio'.srcfd = fio.srcfd /\ fio'.dstfd = fio.dstfd /\ fio'.dst = fio.dst
        /\ fio'.file = fio.file /\ fio'.size = fio.size /\ fio'.in_offset = fio.in_offset
        /\ fio'.len = fio.len /\ fio'.nsent = -1 /\ fio'.chunk = <<>> /\ fio'.result = fio.result
        /\ fio'.shrunk = fio.shrunk /\ fio'.blind = fio.blind /\ fio'.pc = "sent"
        /\ DOMAIN fio' = IoFields
    BY <1>1, <1>10 DEF FsIo!Out, IoFields
  <2>10. IoTyped'
    BY <1>1, <2>1, <1>10 DEF IoTyped, CopyPcs
  <2>11. IoSource'
    BY <1>1, <2>1, <1>10 DEF IoSource, IoTyped, IoCopied
  <2>12. IoCopied'
    BY <1>1, <2>1, <1>10 DEF IoCopied, IoSource, IoTarget
  <2>13. IoTarget'
    BY <1>1, <2>1, <1>10 DEF IoTarget, IoTyped, IoCopied
  <2> QED BY <1>1, <2>1, <2>10, <2>11, <2>12, <2>13 DEF IoInv, IoLeft
<1>11. ASSUME NEW n \in 1..Len(fio.chunk),
             fio' = [fio EXCEPT !.file = @ \o SubSeq(fio.chunk, 1, n),
                       !.chunk = SubSeq(@, n + 1, Len(@)), !.nsent = @ + n, !.in_offset = @ + n,
                       !.pc = IF n = Len(fio.chunk) THEN "read" ELSE "send"] PROVE IoInv'
  <2>1. /\ fio'.op = fio.op /\ fio'.excl = fio.excl /\ fio'.src = fio.src /\ fio'.total = fio.total
        /\ fio'.srcfd = fio.srcfd /\ fio'.dstfd = fio.dstfd /\ fio'.dst = fio.dst
        /\ fio'.file = fio.file \o SubSeq(fio.chunk, 1, n) /\ fio'.size = fio.size
        /\ fio'.in_offset = fio.in_offset + n /\ fio'.len = fio.len /\ fio'.nsent = fio.nsent + n
        /\ fio'.chunk = SubSeq(fio.chunk, n + 1, Len(fio.chunk)) /\ fio'.result = fio.result
        /\ fio'.shrunk = fio.shrunk /\ fio'.blind = fio.blind
        /\ fio'.pc = (IF n = Len(fio.chunk) THEN "read" ELSE "send") /\ DOMAIN fio' = IoFields
    BY <1>1, <1>11 DEF FsIo!Out, IoFields
  <2>2. /\ fio.chunk \in Str /\ Len(fio.chunk) \in Nat /\ n \in Nat /\ n >= 1 /\ n <= Len(fio.chunk)
        /\ fio.in_offset \in Nat /\ fio.nsent \in Nat /\ fio.size \in 0..FileSize /\ fio.len = fio.size
        /\ Len(fio.chunk) + fio.nsent <= fio.size /\ fio.in_offset + Len(fio.chunk) <= FileSize
        /\ fio.file = FirstBytes(fio.in_offset) /\ \A i \in 1..Len(fio.chunk) : fio.chunk[i] = fio.in_offset + i
    <3>1. fio.chunk \in Str
      BY <1>1 DEF IoSource
    <3>2. Len(fio.chunk) \in Nat
      BY <3>1, StrIs
    <3> QED BY <1>1, <3>1, <3>2 DEF IoSource, IoCopied
  <2>3. /\ fio'.chunk \in Str /\ Len(fio'.chunk) = Len(fio.chunk) - n
        /\ \A i \in 1..Len(fio'.chunk) : fio'.chunk[i] = fio'.in_offset + i
        /\ fio'.file = FirstBytes(fio'.in_offset)
    <3>1. LET r == SubSeq(fio.chunk, n + 1, Len(fio.chunk)) IN
            r \in Str /\ Len(r) = Len(fio.chunk) - n /\ \A i \in 1..(Len(fio.chunk) - n) : r[i] = fio.chunk[n + i]
      <4>1. n \in 0..Len(fio.chunk) /\ fio.chunk \in Str
        BY <2>2
      <4> QED BY <4>1, StrIs
    <3>2. ASSUME NEW i \in 1..(Len(fio.chunk) - n) PROVE fio'.chunk[i] = fio'.in_offset + i
      <4>1. n + i \in 1..Len(fio.chunk) /\ fio.in_offset + (n + i) = (fio.in_offset + n) + i
        BY <2>2
      <4> QED BY <2>1, <2>2, <3>1, <4>1
    <3> DEFINE s == SubSeq(fio.chunk, 1, n)
               p == fio.file
    <3>3. s \in Str /\ Len(s) = n /\ \A i \in 1..n : s[i] = fio.in_offset + i
      <4>1. ASSUME NEW i \in 1..n PROVE fio.chunk[i] = fio.in_offset + i /\ fio.chunk[i] \in Int
        <5>1. i \in 1..Len(fio.chunk) /\ fio.in_offset + i \in Int
          BY ONLY <2>2
        <5>2. fio.chunk[i] = fio.in_offset + i
          BY ONLY <2>2, <5>1
        <5> QED BY ONLY <5>1, <5>2
      <4>2. /\ s \in Seq(Int) /\ Len(s) = (IF 1 <= n THEN n - 1 + 1 ELSE 0)
            /\ \A i \in 1..(n - 1 + 1) : s[i] = fio.chunk[1 + i - 1]
        BY <2>2, <4>1, SubSeqProperties
      <4>3. n - 1 + 1 = n /\ \A i \in 1..n : 1 + i - 1 = i
        BY <2>2
      <4> HIDE DEF s
      <4>4. \A i \in 1..n : s[i] = fio.chunk[i]
        BY <4>2, <4>3
      <4>5. s \in Str
        BY ONLY <4>2 DEF Str
      <4>6. Len(s) = n
        BY ONLY <2>2, <4>2
      <4> QED BY <4>1, <4>4, <4>5, <4>6
    <3>4. p \in Str /\ Len(p) = fio.in_offset /\ \A i \in 1..fio.in_offset : p[i] = i
      BY <2>2, FirstIs
    <3> HIDE DEF s, p
    <3>5. /\ Plus(p, s) \in Str /\ Len(Plus(p, s)) = Len(p) + Len(s)
          /\ \A i \in 1..(Len(p) + Len(s)) : Plus(p, s)[i] = IF i <= Len(p) THEN p[i] ELSE s[i - Len(p)]
      BY <3>3, <3>4, PlusIs, StrIs
    <3>6. ASSUME NEW i \in 1..Len(Plus(p, s)) PROVE Plus(p, s)[i] = i
      <4>1. i \in 1..(fio.in_offset + n)
        BY <3>3, <3>4, <3>5
      <4>2. CASE i <= fio.in_offset
        <5>1. i <= Len(p) /\ i \in 1..(Len(p) + Len(s)) /\ i \in 1..fio.in_offset
          BY <2>2, <3>3, <3>4, <4>1, <4>2
        <5>2. Plus(p, s)[i] = p[i]
          BY <3>5, <5>1
        <5> QED BY <3>4, <5>1, <5>2
      <4>3. CASE ~(i <= fio.in_offset)
        <5>1. i - fio.in_offset \in 1..n /\ fio.in_offset + (i - fio.in_offset) = i
          BY <2>2, <4>1, <4>3
        <5>2. Plus(p, s)[i] = s[i - fio.in_offset]
          BY <3>3, <3>4, <3>5, <4>1, <4>3
        <5> QED BY <3>3, <5>1, <5>2
      <4> QED BY <4>2, <4>3
    <3>7. Plus(p, s) = FirstBytes(fio.in_offset + n)
      BY <3>3, <3>4, <3>5, <3>6, FirstIs
    <3>8. fio'.file = FirstBytes(fio'.in_offset)
      BY <2>1, <3>7 DEF Plus, p, s
    <3> HIDE DEF Str
    <3> QED BY <2>1, <3>1, <3>2, <3>8
  <2>4. /\ fio.nsent + n \in 0..fio.size /\ fio.nsent + n \in -1..FileSize /\ fio.in_offset + n \in 0..FileSize
        /\ (Len(fio.chunk) - n) + (fio.nsent + n) <= fio.size
        /\ (fio.in_offset + n) + (Len(fio.chunk) - n) <= FileSize
        /\ (fio.in_offset + n) - (fio.nsent + n) + fio.size = fio.in_offset - fio.nsent + fio.size
    <3>1. fio.nsent + n \in 0..fio.size /\ fio.nsent + n <= FileSize /\ fio.nsent + n \in Nat
      BY <1>1, <2>2
    <3>2. fio.in_offset + n \in 0..FileSize
      BY <1>1, <2>2
    <3>3. (Len(fio.chunk) - n) + (fio.nsent + n) <= fio.size
      BY <2>2
    <3>4. (fio.in_offset + n) + (Len(fio.chunk) - n) <= FileSize
      BY <2>2
    <3>5. (fio.in_offset + n) - (fio.nsent + n) + fio.size = fio.in_offset - fio.nsent + fio.size
      BY <2>2
    <3>6. fio.nsent + n \in -1..FileSize
      BY <1>1, <3>1
    <3> QED BY <3>1, <3>2, <3>3, <3>4, <3>5, <3>6
  <2>10. IoTyped'
    BY <1>1, <2>1, <1>11, <2>2, <2>3, <2>4 DEF IoTyped, CopyPcs
  <2>5. /\ fio.src = (IF fio.shrunk THEN FirstBytes(1) ELSE FirstBytes(FileSize))
        /\ fio.in_offset \in 0..FileSize /\ fio.size \in 0..FileSize /\ fio.len = fio.size
    BY <1>1 DEF IoSource
  <2>11. IoSource'
    BY ONLY <2>1, <2>2, <2>3, <2>4, <2>5 DEF IoSource
  <2>6. /\ fio.dstfd /\ fio.dst \in {"new", "old"}
        /\ ~fio.shrunk => fio.in_offset - fio.nsent + fio.size = FileSize
    BY <1>1 DEF IoCopied
  <2>12. IoCopied'
    BY ONLY <2>1, <2>3, <2>4, <2>6 DEF IoCopied
  <2>13. IoTarget'
    BY <1>1, <2>1, <1>11, <2>2, <2>3, <2>4 DEF IoTarget, IoTyped, IoCopied
  <2> QED BY <1>1, <2>1, <2>10, <2>11, <2>12, <2>13 DEF IoInv, IoLeft
<1> QED BY <1>10, <1>11 DEF FsIo!Write, FsIo!Taken

LEMMA IoSendfileReturns == ASSUME IoConstants, IoInv, FsIo!SendfileReturns PROVE IoInv'
<1>0. fio.pc = "sent"
  BY DEF FsIo!SendfileReturns, FsIo!StillToSend
<1>1. /\ fio.pc = "sent" /\ fio.op = "copy" /\ DOMAIN fio = IoFields /\ FileSize \in Nat /\ FileSize >= 1
      /\ IoTyped /\ IoSource /\ IoCopied /\ IoTarget
  BY <1>0 DEF IoInv, IoTyped, IoConstants
<1>10. ASSUME fio.nsent < 0, fio' = FsIo!Out(-1) PROVE IoInv'
  <2>1. /\ fio'.op = fio.op /\ fio'.excl = fio.excl /\ fio'.src = fio.src /\ fio'.total = fio.total
        /\ fio'.srcfd = fio.srcfd /\ fio'.dstfd = fio.dstfd /\ fio'.dst = fio.dst
        /\ fio'.file = fio.file /\ fio'.size = fio.size /\ fio'.in_offset = fio.in_offset
        /\ fio'.len = fio.len /\ fio'.nsent = fio.nsent /\ fio'.chunk = fio.chunk /\ fio'.result = -1
        /\ fio'.shrunk = fio.shrunk /\ fio'.blind = fio.blind /\ fio'.pc = "out"
        /\ DOMAIN fio' = IoFields
    BY <1>1, <1>10 DEF FsIo!Out, IoFields
  <2>10. IoTyped'
    BY <1>1, <2>1, <1>10 DEF IoTyped, CopyPcs
  <2>11. IoSource'
    BY <1>1, <2>1, <1>10 DEF IoSource, IoTyped, IoCopied
  <2>12. IoCopied'
    BY <1>1, <2>1, <1>10 DEF IoCopied, IoSource, IoTarget
  <2>13. IoTarget'
    BY <1>1, <2>1, <1>10 DEF IoTarget, IoTyped, IoCopied
  <2> QED BY <1>1, <2>1, <2>10, <2>11, <2>12, <2>13 DEF IoInv, IoLeft
<1>11. ASSUME ~(fio.nsent < 0), fio' = [fio EXCEPT !.size = fio.size - fio.nsent, !.pc = "copy"] PROVE IoInv'
  <2>1. /\ fio'.op = fio.op /\ fio'.excl = fio.excl /\ fio'.src = fio.src /\ fio'.total = fio.total
        /\ fio'.srcfd = fio.srcfd /\ fio'.dstfd = fio.dstfd /\ fio'.dst = fio.dst
        /\ fio'.file = fio.file /\ fio'.size = fio.size - fio.nsent /\ fio'.in_offset = fio.in_offset
        /\ fio'.len = fio.len /\ fio'.nsent = fio.nsent /\ fio'.chunk = fio.chunk
        /\ fio'.result = fio.result /\ fio'.shrunk = fio.shrunk /\ fio'.blind = fio.blind
        /\ fio'.pc = "copy" /\ DOMAIN fio' = IoFields
    BY <1>1, <1>11 DEF FsIo!Out, IoFields
  <2>2. fio.size \in 0..FileSize /\ fio.nsent <= fio.size /\ fio.nsent \in Int /\ fio.in_offset \in 0..FileSize
    BY <1>1 DEF IoTyped, IoSource
  <2>3. fio.size - fio.nsent \in 0..FileSize
    BY <1>1, <1>11, <2>2
  <2>4. ~fio.shrunk => fio.in_offset + (fio.size - fio.nsent) = FileSize
    <3>1. ~fio.shrunk => fio.in_offset - fio.nsent + fio.size = FileSize
      BY <1>1, <1>11, <2>2 DEF IoCopied
    <3> QED BY <1>1, <2>2, <3>1
  <2>10. IoTyped'
    BY <1>1, <2>1, <1>11, <2>2, <2>3, <2>4 DEF IoTyped, CopyPcs
  <2>11. IoSource'
    BY <1>1, <2>1, <1>11, <2>2, <2>3, <2>4 DEF IoSource, IoTyped, IoCopied
  <2>12. IoCopied'
    BY <1>1, <2>1, <1>11, <2>2, <2>3, <2>4 DEF IoCopied, IoSource, IoTarget
  <2>13. IoTarget'
    BY <1>1, <2>1, <1>11, <2>2, <2>3, <2>4 DEF IoTarget, IoTyped, IoCopied
  <2> QED BY <1>1, <2>1, <2>10, <2>11, <2>12, <2>13 DEF IoInv, IoLeft
<1> QED BY <1>10, <1>11 DEF FsIo!SendfileReturns, FsIo!StillToSend

LEMMA IoClose == ASSUME IoConstants, IoInv, FsIo!Close PROVE IoInv'
<1>0. fio.pc = "out"
  BY DEF FsIo!Close
<1>1. /\ fio.pc = "out" /\ fio.op = "copy" /\ DOMAIN fio = IoFields /\ FileSize \in Nat /\ FileSize >= 1
      /\ IoTyped /\ IoSource /\ IoCopied /\ IoTarget
  BY <1>0 DEF IoInv, IoTyped, IoConstants
<1>10. ASSUME fio' = [fio EXCEPT !.pc = "done", !.srcfd = FALSE, !.dstfd = FALSE,
                          !.dst = IF ~FsIo!Unlinks THEN @ ELSE IF @ = "same" THEN "lost" ELSE "gone"] PROVE IoInv'
  <2>1. /\ fio'.op = fio.op /\ fio'.excl = fio.excl /\ fio'.src = fio.src /\ fio'.total = fio.total
        /\ fio'.srcfd = FALSE /\ fio'.dstfd = FALSE
        /\ fio'.dst = (IF ~FsIo!Unlinks THEN fio.dst ELSE IF fio.dst = "same" THEN "lost" ELSE "gone")
        /\ fio'.file = fio.file /\ fio'.size = fio.size /\ fio'.in_offset = fio.in_offset
        /\ fio'.len = fio.len /\ fio'.nsent = fio.nsent /\ fio'.chunk = fio.chunk
        /\ fio'.result = fio.result /\ fio'.shrunk = fio.shrunk /\ fio'.blind = fio.blind
        /\ fio'.pc = "done" /\ DOMAIN fio' = IoFields
    BY <1>1, <1>10 DEF FsIo!Out, IoFields
  <2>2. FsIo!Unlinks <=> fio.dstfd /\ fio.result # 0
    BY DEF FsIo!Unlinks
  <2>10. IoTyped'
    BY <1>1, <2>1, <1>10, <2>2 DEF IoTyped, CopyPcs
  <2>11. IoSource'
    BY <1>1, <2>1, <1>10, <2>2 DEF IoSource, IoTyped, IoCopied
  <2>12. IoCopied'
    BY <1>1, <2>1, <1>10, <2>2 DEF IoCopied, IoSource, IoTarget
  <2>13. IoTarget'
    BY <1>1, <2>1, <1>10, <2>2 DEF IoTarget, IoTyped, IoCopied
  <2> QED BY <1>1, <2>1, <2>10, <2>11, <2>12, <2>13 DEF IoInv, IoLeft
<1> QED BY <1>10 DEF FsIo!Close

LEMMA IoShrinks == ASSUME IoConstants, IoInv, FsIo!Shrinks PROVE IoInv'
<1>1. /\ fio.op = "copy" /\ DOMAIN fio = IoFields /\ FileSize \in Nat /\ FileSize >= 1 /\ ~fio.shrunk
      /\ IoTyped /\ IoSource /\ IoCopied /\ IoTarget
      /\ fio' = [fio EXCEPT !.shrunk = TRUE, !.src = SubSeq(@, 1, 1)]
  BY DEF FsIo!Shrinks, IoInv, IoConstants
<1>2. /\ fio'.op = fio.op /\ fio'.excl = fio.excl /\ fio'.src = SubSeq(fio.src, 1, 1)
      /\ fio'.total = fio.total /\ fio'.srcfd = fio.srcfd /\ fio'.dstfd = fio.dstfd
      /\ fio'.dst = fio.dst /\ fio'.file = fio.file /\ fio'.size = fio.size
      /\ fio'.in_offset = fio.in_offset /\ fio'.len = fio.len /\ fio'.nsent = fio.nsent
      /\ fio'.chunk = fio.chunk /\ fio'.result = fio.result /\ fio'.shrunk = TRUE
      /\ fio'.blind = fio.blind /\ fio'.pc = fio.pc /\ DOMAIN fio' = IoFields
  BY <1>1 DEF IoFields
<1>3. SubSeq(fio.src, 1, 1) = FirstBytes(1)
  <2> DEFINE C == FirstBytes(FileSize)
             s == SubSeq(C, 1, 1)
  <2>1. fio.src = C
    BY <1>1 DEF IoSource
  <2>2. C[1] = 1
    BY <1>1, FirstIs
  <2> HIDE DEF C
  <2>3. \A i \in 1..1 : C[i] \in Int
    BY <2>2
  <2>4. s \in Seq(Int) /\ Len(s) = (IF 1 <= 1 THEN 1 - 1 + 1 ELSE 0) /\ \A i \in 1..(1 - 1 + 1) : s[i] = C[1 + i - 1]
    BY <2>3, SubSeqProperties
  <2>5. Len(s) = 1 /\ s[1] = 1
    BY <2>2, <2>4
  <2> HIDE DEF s
  <2>6. s \in Str /\ \A i \in 1..Len(s) : s[i] = i
    BY <2>4, <2>5 DEF Str
  <2>7. s = FirstBytes(Len(s))
    BY <2>6, FirstIs
  <2> QED BY <2>1, <2>5, <2>7 DEF s
<1>4. IoTyped' /\ IoTarget'
  BY <1>1, <1>2 DEF IoTyped, IoTarget
<1>5. IoSource' /\ IoCopied'
  BY <1>1, <1>2, <1>3 DEF IoSource, IoCopied
<1> QED BY <1>1, <1>2, <1>4, <1>5 DEF IoInv, IoLeft

LEMMA IoStep == ASSUME IoConstants, IoInv, FsIo!Next PROVE IoInv'
  BY IoWriteSome, IoWriteEnds, IoOpenSource, IoOpenDestination, IoTruncate, IoAttributes, IoSendfile, IoRead,
     IoWrite, IoSendfileReturns, IoClose, IoShrinks DEF FsIo!Next, FsIo!Worker

LEMMA IoKeeps == ASSUME IoConstants, IoInv PROVE FsIo!TypeOK /\ FsIo!InOrder /\ FsIo!ClosedIsClean
<1>1. /\ IoTyped /\ IoLeft /\ IoSource /\ IoCopied /\ IoTarget /\ FileSize \in Nat /\ FileSize >= 1
      /\ FsIo!Content = FirstBytes(FileSize) /\ FsIo!Content \in Str /\ Len(FsIo!Content) = FileSize
      /\ \A i \in 1..FileSize : FsIo!Content[i] = i
  BY FirstIs DEF IoInv, IoConstants
<1>2. FsIo!TypeOK
  BY <1>1 DEF FsIo!TypeOK, IoTyped, CopyPcs
<1>3. FsIo!ClosedIsClean
  <2>1. FirstBytes(1) # <<>> /\ FirstBytes(FileSize) # <<>>
    <3>1. Len(FirstBytes(1)) = 1 /\ Len(FirstBytes(FileSize)) = FileSize /\ Len(<<>>) = 0
      BY <1>1, FirstIs, EmptySeq
    <3> QED BY <1>1, <3>1
  <2> SUFFICES ASSUME fio.op = "copy", fio.pc = "done"
               PROVE  /\ ~fio.srcfd /\ ~fio.dstfd /\ fio.src # <<>> /\ (fio.dst = "lost" => fio.blind)
                      /\ fio.result = 0 /\ ~fio.shrunk => fio.file = FsIo!Content
                      /\ fio.result # 0 => fio.dst # "new" /\ (fio.dst = "old" => fio.file = <<0>>)
    BY DEF FsIo!ClosedIsClean
  <2> QED BY <1>1, <2>1 DEF IoSource, IoCopied, IoTarget
\* The first m of the content, from wherever they are.
<1>4. ASSUME NEW s \in Str, NEW a \in Nat, NEW m \in 0..FileSize, a + m <= Len(s), \A i \in 1..m : s[a + i] = i
      PROVE  SubSeq(s, a + 1, a + m) = FirstBytes(m)
  <2> DEFINE r == SubSeq(s, a + 1, a + m)
  <2>1. m \in Nat /\ Len(s) \in Nat /\ \A i \in 1..Len(s) : s[i] \in Int
    BY <1>1, StrIs
  <2>2. \A i \in (a + 1)..(a + m) : s[i] \in Int
    BY <1>4, <2>1
  <2>3. /\ r \in Seq(Int) /\ Len(r) = (IF a + 1 <= a + m THEN (a + m) - (a + 1) + 1 ELSE 0)
        /\ \A i \in 1..((a + m) - (a + 1) + 1) : r[i] = s[a + 1 + i - 1]
    <3>1. a + 1 \in Int /\ a + m \in Int
      BY <2>1
    <3> QED BY <2>2, <3>1, SubSeqProperties
  <2> HIDE DEF r
  <2>4. (a + m) - (a + 1) + 1 = m /\ (~(a + 1 <= a + m) => m = 0)
    BY <2>1
  <2>5. Len(r) = m
    BY <2>3, <2>4
  <2>6. ASSUME NEW i \in 1..m PROVE r[i] = i
    <3>1. a + 1 + i - 1 = a + i
      BY <2>1
    <3> QED BY <1>4, <2>3, <2>4, <3>1
  <2>7. r = FirstBytes(Len(r))
    BY <2>3, <2>5, <2>6, FirstIs DEF Str
  <2> QED BY <2>5, <2>7 DEF r
<1>5. ASSUME NEW m \in 0..FileSize PROVE SubSeq(FsIo!Content, 1, m) = FirstBytes(m)
  <2>1. m \in Nat /\ 0 \in Nat /\ 0 + m <= Len(FsIo!Content) /\ \A i \in 1..m : FsIo!Content[0 + i] = i
    BY <1>1
  <2>2. SubSeq(FsIo!Content, 0 + 1, 0 + m) = FirstBytes(m)
    BY <1>1, <1>4, <2>1
  <2>3. 0 + 1 = 1 /\ 0 + m = m
    BY <2>1
  <2> QED BY <2>2, <2>3
<1>6. ASSUME fio.op = "write"
      PROVE  /\ SubSeq(fio.file, fio.start + 1, fio.start + fio.total) = SubSeq(FsIo!Content, 1, fio.total)
             /\ fio.pc = "done" /\ fio.result >= 0 => fio.result = fio.total
  <2>1. /\ fio.file \in Str /\ fio.start \in Nat /\ fio.total \in 0..FileSize
        /\ fio.start + fio.total <= Len(fio.file) /\ (\A i \in 1..fio.total : fio.file[fio.start + i] = i)
        /\ (fio.pc = "done" /\ fio.result >= 0 => fio.result = fio.total)
    BY <1>1, <1>6 DEF IoLeft, IoTyped
  <2>2. SubSeq(fio.file, fio.start + 1, fio.start + fio.total) = FirstBytes(fio.total)
    BY <1>4, <2>1
  <2>3. SubSeq(FsIo!Content, 1, fio.total) = FirstBytes(fio.total)
    BY <1>5, <2>1
  <2> QED BY <2>1, <2>2, <2>3
<1>7. ASSUME fio.op = "copy", fio.dst = "new" PROVE FsIo!Begins(FsIo!Content, fio.file)
  <2>1. fio.in_offset \in 0..FileSize /\ fio.file = FirstBytes(fio.in_offset)
    BY <1>1, <1>7 DEF IoSource, IoCopied
  <2>2. Len(fio.file) = fio.in_offset
    BY <1>1, <2>1, FirstIs
  <2> QED BY <1>1, <1>5, <2>1, <2>2 DEF FsIo!Begins
<1>8. FsIo!InOrder
  BY <1>6, <1>7 DEF FsIo!InOrder
<1> QED BY <1>2, <1>3, <1>8

LEMMA IoChanges ==
    ASSUME IoConstants, IoInv, [FsIo!Next]_fio
    PROVE  IoInv'
<1>1. CASE FsIo!Next
  BY <1>1, IoStep
<1>2. CASE UNCHANGED fio
  BY <1>2 DEF IoInv, IoCopied, IoLeft, IoSource, IoTarget, IoTyped
<1> QED BY <1>1, <1>2

\* A write and a copy, for any size, any limit of iovecs and any short write or read: the bytes
\* come in their order, none twice and none left out; a copy that returns 0 is complete unless its
\* source shrank, a failed one is gone, and a file copied to itself stays.
THEOREM FsIoCorrect ==
    ASSUME IoConstants
    PROVE  FsIo!Spec => [](FsIo!TypeOK /\ FsIo!InOrder /\ FsIo!ClosedIsClean)
<1>1. ASSUME FsIo!Init PROVE IoInv
  BY <1>1, IoBegins
<1>2. ASSUME IoInv, [FsIo!Next]_fio PROVE IoInv'
  BY <1>2, IoChanges
<1>3. IoInv => FsIo!TypeOK /\ FsIo!InOrder /\ FsIo!ClosedIsClean
  BY IoKeeps
<1> QED BY <1>1, <1>2, <1>3, PTL DEF FsIo!Spec
===============================================================================
