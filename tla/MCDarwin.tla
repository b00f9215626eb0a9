-------------------------------- MODULE MCDarwin --------------------------------
(***************************************************************************)
(* The Darwin back end, checked in one run: in the initial state one part  *)
(* is chosen, and only that part takes steps; "functions" has none and is   *)
(* where the properties of functions are evaluated.                        *)
(***************************************************************************)
EXTENDS IoParts

CONSTANTS
    Ttys, Terminals, Raws,
    Children, StdioCount, UseFds,
    Dirs, Files, MaxEvents, MaxStarts,
    Workers, Rounds,
    MaxEntries, Types,
    BufLen, Stride,
    Names, MaxNest,
    MaxLen, Pointer

VARIABLES part, tty, des, proc, fse, bar, fsr, look, loops, qry

Tty == INSTANCE Tty
Descriptors == INSTANCE Descriptors
Process == INSTANCE Process
FsEvents == INSTANCE FsEvents
Barrier == INSTANCE Barrier
FsRequest == INSTANCE FsRequest
Lookups == INSTANCE Lookups
LoopLife == INSTANCE LoopLife
Queries == INSTANCE Queries

Parts == {"stream", "udp", "accept", "select", "tty", "descriptors", "kqueue", "process",
          "fsevents", "fspoll", "barrier", "fsrequest", "fsio", "lookups", "looplife", "queries",
          "functions"}

\* Where a part can begin in several ways, the others see it begin in one of them.
DarwinInit ==
    /\ part \in Parts
    /\ Init /\ (part = "stream" \/ ~fd)
    /\ Udp!Init /\ (part = "udp" \/ ~(udp.mmsg \/ udp.fd))
    /\ Accept!Init /\ (part = "accept" \/ ~(acc.ipc \/ acc.tcp \/ acc.emfile_fd))
    /\ Select!Init
    /\ Tty!Init /\ (part = "tty" \/ tty.on \in [Ttys -> {CHOOSE t \in Terminals : TRUE}])
    /\ Descriptors!Init /\ (part = "descriptors" \/ des.helper = Descriptors!Dup2)
    /\ Kqueue!Init /\ Process!Init /\ FsEvents!Init /\ FsPoll!Init /\ Barrier!Init /\ FsRequest!Init
    /\ FsIo!Init /\ (part = "fsio" \/ (fio.op = "copy" /\ fio.dst = "none" /\ ~fio.excl))
    /\ Lookups!Init /\ LoopLife!Init /\ (part = "looplife" \/ ~loops.heap) /\ Queries!Init

Only(p) ==
    /\ UNCHANGED part
    /\ IF p = "stream" THEN TRUE ELSE UNCHANGED vars
    /\ IF p = "udp" THEN TRUE ELSE UNCHANGED udp
    /\ IF p = "accept" THEN TRUE ELSE UNCHANGED acc
    /\ IF p = "select" THEN TRUE ELSE UNCHANGED sel
    /\ IF p = "tty" THEN TRUE ELSE UNCHANGED tty
    /\ IF p = "descriptors" THEN TRUE ELSE UNCHANGED des
    /\ IF p = "kqueue" THEN TRUE ELSE UNCHANGED kq
    /\ IF p = "process" THEN TRUE ELSE UNCHANGED proc
    /\ IF p = "fsevents" THEN TRUE ELSE UNCHANGED fse
    /\ IF p = "fspoll" THEN TRUE ELSE UNCHANGED fsp
    /\ IF p = "barrier" THEN TRUE ELSE UNCHANGED bar
    /\ IF p = "fsrequest" THEN TRUE ELSE UNCHANGED fsr
    /\ IF p = "fsio" THEN TRUE ELSE UNCHANGED fio
    /\ IF p = "lookups" THEN TRUE ELSE UNCHANGED look
    /\ IF p = "looplife" THEN TRUE ELSE UNCHANGED loops
    /\ IF p = "queries" THEN TRUE ELSE UNCHANGED qry

DarwinNext ==
    \/ part = "stream" /\ Next /\ Only("stream")
    \/ part = "udp" /\ Udp!Next /\ Only("udp")
    \/ part = "accept" /\ Accept!Next /\ Only("accept")
    \/ part = "select" /\ Select!Next /\ Only("select")
    \/ part = "tty" /\ Tty!Next /\ Only("tty")
    \/ part = "descriptors" /\ Descriptors!Next /\ Only("descriptors")
    \/ part = "kqueue" /\ Kqueue!Next /\ Only("kqueue")
    \/ part = "process" /\ Process!Next /\ Only("process")
    \/ part = "fsevents" /\ FsEvents!Next /\ Only("fsevents")
    \/ part = "fspoll" /\ FsPoll!Next /\ Only("fspoll")
    \/ part = "barrier" /\ Barrier!Next /\ Only("barrier")
    \/ part = "fsrequest" /\ FsRequest!Next /\ Only("fsrequest")
    \/ part = "fsio" /\ FsIo!Next /\ Only("fsio")
    \/ part = "lookups" /\ Lookups!Next /\ Only("lookups")
    \/ part = "looplife" /\ LoopLife!Next /\ Only("looplife")
    \/ part = "queries" /\ Queries!Next /\ Only("queries")

allVars == <<part, vars, udp, acc, sel, tty, des, kq, proc, fse, fsp, bar, fsr, fio, look, loops, qry>>

\* Each part is scheduled as it is on its own.
DarwinSpec ==
    /\ DarwinInit /\ [][DarwinNext]_allVars
    /\ WF_vars(part = "stream" /\ Running) /\ WF_vars(part = "stream" /\ Connected)
    /\ SF_vars(part = "stream" /\ RunPending) /\ SF_vars(part = "stream" /\ PollOut)
    /\ SF_vars(part = "stream" /\ FinishClose) /\ SF_vars(part = "stream" /\ (WriteAll \/ WriteFails))
    /\ WF_sel(part = "select" /\ Select!Thread) /\ WF_sel(part = "select" /\ Select!LoopThread)
    /\ \A w \in Workers : WF_bar(part = "barrier" /\ Barrier!Thread(w))
    /\ WF_fio(part = "fsio" /\ FsIo!Worker)

-----------------------------------------------------------------------------
(* Properties *)

\* Every variable of every part has its type.
TypesOK ==
    /\ part = "stream" => TypeOK
    /\ part = "udp" => Udp!TypeOK
    /\ part = "accept" => Accept!TypeOK
    /\ part = "select" => Select!TypeOK
    /\ part = "tty" => Tty!TypeOK
    /\ part = "descriptors" => Descriptors!TypeOK
    /\ part = "kqueue" => Kqueue!TypeOK
    /\ part = "process" => Process!TypeOK
    /\ part = "fsevents" => FsEvents!TypeOK
    /\ part = "fspoll" => FsPoll!TypeOK
    /\ part = "barrier" => Barrier!TypeOK
    /\ part = "fsrequest" => FsRequest!TypeOK
    /\ part = "fsio" => FsIo!TypeOK
    /\ part = "lookups" => Lookups!TypeOK
    /\ part = "looplife" => LoopLife!TypeOK
    /\ part = "queries" => Queries!TypeOK

\* The counters of each other part (queued bytes, active handles and requests, watched descriptors,
\* threads in a barrier, bytes asked for) are what they count at every step; what was closed,
\* cleaned up or destroyed has nothing left, and no descriptor is lost or given twice.
Accounted ==
    /\ part = "functions" => Process!SpawnLeaksNothing
    /\ part = "udp" =>
         /\ Udp!CountsAreExact /\ Udp!ClosedIsClean
    /\ part = "accept" =>
         /\ Accept!NoDescriptorLost /\ Accept!ClosedIsClean
    /\ part = "tty" => Tty!ClosedIsClean
    /\ part = "descriptors" =>
         /\ Descriptors!NoDescriptorLost /\ Descriptors!ClosedIsClean
    /\ part = "kqueue" => Kqueue!CountsAreExact
    /\ part = "process" =>
         /\ Process!CountsAreExact /\ Process!ClosedIsClean
    /\ part = "fsevents" =>
         /\ FsEvents!CountsAreExact /\ FsEvents!ClosedIsClean
    /\ part = "fspoll" =>
         /\ FsPoll!CountsAreExact /\ FsPoll!ClosedIsClean
    /\ part = "barrier" =>
         /\ Barrier!CountsAreExact /\ Barrier!ClosedIsClean
    /\ part = "fsrequest" => FsRequest!ClosedIsClean
    /\ part = "fsio" => FsIo!ClosedIsClean
    /\ part = "lookups" => Lookups!ClosedIsClean
    /\ part = "looplife" =>
         /\ LoopLife!CountsAreExact /\ LoopLife!ClosedIsClean
    /\ part = "queries" => Queries!CountsAreExact

\* The assertions of the udp, server, select thread, terminal, kqueue, file request and look-up code
\* hold, what is freed was allocated, and no field leaves its type (an unsigned counter does not
\* wrap).  Three assertions of the Darwin side are not among these, because they fail: that a
\* blocking stream has nothing queued (stream.c:1392, run stream_blocking), that the context whose
\* timer fires is the current one (fs-poll.c:180, run fs_poll_restart), and, for a program that
\* listens twice, which Accept's program does not, that no connection waits (stream.c:514).
AssertionsHold ==
    /\ TypesOK
    /\ part = "udp" => Udp!AssertsHold
    /\ part = "accept" => Accept!AssertsHold
    /\ part = "select" => Select!AssertsHold
    /\ part = "tty" => Tty!AssertsHold
    /\ part = "kqueue" => Kqueue!AssertsHold
    /\ part = "fsrequest" => FsRequest!AssertsHold
    /\ part = "lookups" => Lookups!AssertsHold

\* Work that is due has somebody who will do it: a watcher, a posted wakeup, a waiting thread or
\* a child's exit that was seen.  Known cases where it has not are excepted: an event whose filter
\* was deleted as unwanted (core.c:966-972, Kqueue), a server whose uv_accept failed (stream.c:591,
\* `refused` of Accept); and with MaxBytes below ReadBuf the select thread never fills its buffer,
\* so its blocking read for more (stream.c:195-198) does not occur.
NothingStranded ==
    /\ part = "udp" => Udp!NothingStranded
    /\ part = "accept" => Accept!NothingStranded
    /\ part = "select" => Select!NothingStranded
    /\ part = "kqueue" =>
         /\ Kqueue!NothingStranded /\ Kqueue!NoExitLost
    /\ part = "process" => Process!NothingStranded
    /\ part = "fsevents" => FsEvents!NothingStranded
    /\ part = "fspoll" => FsPoll!NothingStranded
    /\ part = "barrier" => Barrier!NothingStranded
    /\ part = "looplife" => LoopLife!NothingStranded
    /\ part = "queries" => Queries!NothingStranded

\* Callbacks come in order, once, and with what really happened; nothing stale is used; and the
\* functions that compute something compute what they promise.
ToldTruly ==
    /\ part = "udp" =>
         /\ Udp!InOrder /\ Udp!ToldTheTruth
    /\ part = "accept" => Accept!InOrder
    /\ part = "select" => Select!HandsOver
    /\ part = "tty" => Tty!NoStaleEvent
    /\ part = "descriptors" => Descriptors!ToldTheTruth
    /\ part = "kqueue" => Kqueue!NoStaleEvent
    /\ part = "process" => Process!ToldOnce
    /\ part = "fsevents" => FsEvents!InOrder
    /\ part = "fspoll" => FsPoll!ToldOnce
    /\ part = "fsio" => FsIo!InOrder
    /\ part = "lookups" => Lookups!ToldTheTruth
    /\ part = "queries" => Queries!ToldTheTruth
    /\ part = "functions" =>
         /\ Process!ChildGetsItsStdio /\ Process!FindsTheFile /\ FsEvents!HearsOfItsOwn
         /\ FsPoll!DueInTime /\ Queries!PacksExactly /\ Queries!StaysWithin

\* Closing a stream with a select thread ends, every thread gets through the barrier, and a write
\* or copy ends unless its source shrinks meanwhile.
EveryoneEnds ==
    /\ Select!CloseReturns
    /\ part = "barrier" ~> bar.destroyed
    /\ part = "fsio" ~> (fio.pc = "done" \/ fio.shrunk)
=============================================================================
