-------------------------------- MODULE MCWindows --------------------------------
(***************************************************************************)
(* The Windows back end, and the timers and their heap, which every back   *)
(* end shares, in one run: in the initial state one part is chosen, and    *)
(* only that part takes steps; "functions" has none and is where the       *)
(* properties of functions are evaluated.                                  *)
(***************************************************************************)
EXTENDS Timer

CONSTANTS
    Watchers, Batch, Rounds, MaxOps,
    Watches, Signums, MaxEvents,
    Instances, MaxClients,
    Reads,
    FastAsks, SlowAsks,
    Count, MaxSends, MaxArrivals,
    Signals, Fatal, MaxArg, Required,
    Capacity, MaxChanges,
    MaxData, MaxMessages, Buffers,
    MaxTyped, MaxTurns, MaxSymbols,
    MaxNodes

VARIABLES part, win, wsig, pipe, server, tcp, poll, wudp, wproc, wfse, ipc, con, tree

Iocp == INSTANCE WinLoop
Signal == INSTANCE WinSignal
Pipe == INSTANCE WinPipe
Accept == INSTANCE WinAccept
Tcp == INSTANCE WinTcp
Poll == INSTANCE WinPoll
Udp == INSTANCE WinUdp
Process == INSTANCE WinProcess
FsEvents == INSTANCE WinFsEvents
Ipc == INSTANCE WinIpc
Tty == INSTANCE WinTty
Heap == INSTANCE Heap

Parts == {"timer", "iocp", "signal", "pipe", "accept", "tcp", "poll", "udp",
          "process", "fsevents", "ipc", "tty", "heap", "functions"}

\* Where a part can begin in several ways, the others see it begin in one of them.
WindowsInit ==
    /\ part \in Parts
    /\ Init
    /\ Iocp!Init
    /\ Signal!Init
    /\ Pipe!Init /\ (part = "pipe" \/ ~(pipe.sync \/ pipe.blocking))
    /\ Accept!Init /\ (part = "accept" \/ ~(server.pipe \/ server.inUse))
    /\ Tcp!Init /\ (part = "tcp" \/ ~tcp.inUse)
    /\ Poll!Init /\ (part = "poll" \/ ~poll.slow)
    /\ Udp!Init
    /\ Process!Init
    /\ FsEvents!Init
    /\ Ipc!Init
    /\ Tty!Init
    /\ Heap!Init

Only(p) ==
    /\ UNCHANGED part
    /\ IF p = "timer" THEN TRUE ELSE UNCHANGED vars
    /\ IF p = "iocp" THEN TRUE ELSE UNCHANGED win
    /\ IF p = "signal" THEN TRUE ELSE UNCHANGED wsig
    /\ IF p = "pipe" THEN TRUE ELSE UNCHANGED pipe
    /\ IF p = "accept" THEN TRUE ELSE UNCHANGED server
    /\ IF p = "tcp" THEN TRUE ELSE UNCHANGED tcp
    /\ IF p = "poll" THEN TRUE ELSE UNCHANGED poll
    /\ IF p = "udp" THEN TRUE ELSE UNCHANGED wudp
    /\ IF p = "process" THEN TRUE ELSE UNCHANGED wproc
    /\ IF p = "fsevents" THEN TRUE ELSE UNCHANGED wfse
    /\ IF p = "ipc" THEN TRUE ELSE UNCHANGED ipc
    /\ IF p = "tty" THEN TRUE ELSE UNCHANGED con
    /\ IF p = "heap" THEN TRUE ELSE UNCHANGED tree

WindowsNext ==
    \/ part = "timer" /\ Next /\ Only("timer")
    \/ part = "iocp" /\ Iocp!Next /\ Only("iocp")
    \/ part = "signal" /\ Signal!Next /\ Only("signal")
    \/ part = "pipe" /\ Pipe!Next /\ Only("pipe")
    \/ part = "accept" /\ Accept!Next /\ Only("accept")
    \/ part = "tcp" /\ Tcp!Next /\ Only("tcp")
    \/ part = "poll" /\ Poll!Next /\ Only("poll")
    \/ part = "udp" /\ Udp!Next /\ Only("udp")
    \/ part = "process" /\ Process!Next /\ Only("process")
    \/ part = "fsevents" /\ FsEvents!Next /\ Only("fsevents")
    \/ part = "ipc" /\ Ipc!Next /\ Only("ipc")
    \/ part = "tty" /\ Tty!Next /\ Only("tty")
    \/ part = "heap" /\ Heap!Next /\ Only("heap")

allVars == <<part, vars, win, wsig, pipe, server, tcp, poll, wudp, wproc, wfse, ipc, con, tree>>

\* Each part is scheduled as it is on its own.
WindowsSpec ==
    /\ WindowsInit /\ [][WindowsNext]_allVars
    /\ WF_vars(part = "timer" /\ (PollTimesOut \/ Collect \/ Collected \/ Fire \/ CallbackReturns \/ Ran))
    /\ SF_vars(part = "timer" /\ PollTimesOut /\ time' > time)
    /\ WF_win(part = "iocp" /\ Iocp!LoopThread)
    /\ WF_win(part = "iocp" /\ (Iocp!Post \/ \E o \in 1..MaxOps : Iocp!Complete(o)))
    /\ WF_pipe(part = "pipe" /\ Pipe!System) /\ WF_pipe(part = "pipe" /\ Pipe!Loop)
    /\ WF_tcp(part = "tcp" /\ Tcp!System) /\ WF_tcp(part = "tcp" /\ Tcp!Loop)
    /\ WF_wproc(part = "process" /\ Process!LoopThread)
    /\ WF_wproc(part = "process" /\ (Process!WaitRuns \/ Process!WaitPosts))
    /\ WF_con(part = "tty" /\ Tty!Thread) /\ WF_con(part = "tty" /\ Tty!HasLock)
    /\ WF_con(part = "tty" /\ con.enter > 0 /\ Tty!ReadConsole)

-----------------------------------------------------------------------------
(* Properties *)

\* Every variable of every part has its type.
TypesOK ==
    /\ part = "timer" => TypeOK
    /\ part = "iocp" => Iocp!TypeOK
    /\ part = "signal" => Signal!TypeOK
    /\ part = "pipe" => Pipe!TypeOK
    /\ part = "accept" => Accept!TypeOK
    /\ part = "tcp" => Tcp!TypeOK
    /\ part = "poll" => Poll!TypeOK
    /\ part = "udp" => Udp!TypeOK
    /\ part = "process" => Process!TypeOK
    /\ part = "fsevents" => FsEvents!TypeOK
    /\ part = "ipc" => Ipc!TypeOK
    /\ part = "tty" => Tty!TypeOK
    /\ part = "heap" => Heap!TypeOK

\* The counters of each part (pending requests, active handles, bytes queued, handles watched) are
\* what they count at every step; what was closed has nothing left, and no descriptor is lost.
\* (Not after the restarts and accepts that the guards named at AssertionsHold cut.)
Accounted ==
    /\ part = "iocp" =>
         /\ Iocp!CountsAreExact /\ Iocp!ClosedIsClean
    /\ part = "signal" =>
         /\ Signal!CountsAreExact /\ Signal!ClosedIsClean
    /\ part = "pipe" =>
         /\ Pipe!CountsAreExact /\ Pipe!ClosedIsClean
    /\ part = "accept" =>
         /\ Accept!CountsAreExact /\ Accept!ClosedIsClean /\ Accept!NoDescriptorLost
    /\ part = "tcp" =>
         /\ Tcp!CountsAreExact /\ Tcp!ClosedIsClean
    /\ part = "poll" =>
         /\ Poll!CountsAreExact /\ Poll!ClosedIsClean
    /\ part = "udp" =>
         /\ Udp!CountsAreExact /\ Udp!ClosedIsClean
    /\ part = "process" =>
         /\ Process!CountsAreExact /\ Process!ClosedIsClean
    /\ part = "fsevents" =>
         /\ FsEvents!CountsAreExact /\ FsEvents!ClosedIsClean
    /\ part = "ipc" =>
         /\ Ipc!CountsAreExact /\ Ipc!ClosedIsClean /\ Ipc!NoDescriptorLost
    /\ part = "tty" =>
         /\ Tty!CountsAreExact /\ Tty!ClosedIsClean
    /\ part = "heap" => Heap!CountsAreExact

\* The assertions that the parts have hold: a request is queued once, flags and counters never
\* contradict each other, and no field leaves its type.  Five failures are known and not seen here:
\*   - _win/signal.c:277, a number is left at the end game (NoNumberIsLeft, not in AssertsHold);
\*   - _win/fs-event.c:39 and 156-170, restarts that WinFsEvents.Start cuts;
\*   - _win/poll.c:349, a third set of events, which WinPoll.PollStart cuts;
\*   - _win/tcp.c:470 from 753, an accept that WinAccept.AcceptInto cuts;
\*   - _win/udp.c:304-309, recv_req queued twice, which WinUdp.QueueRecv and RecvStart cut.
AssertionsHold ==
    /\ TypesOK
    /\ part = "signal" => Signal!AssertsHold
    /\ part = "pipe" => Pipe!AssertsHold
    /\ part = "accept" => Accept!AssertsHold
    /\ part = "tcp" => Tcp!AssertsHold
    /\ part = "poll" => Poll!AssertsHold
    /\ part = "udp" => Udp!AssertsHold
    /\ part = "process" => Process!AssertsHold
    /\ part = "fsevents" => FsEvents!AssertsHold
    /\ part = "ipc" => Ipc!AssertsHold
    /\ part = "tty" => Tty!AssertsHold

\* Work that is due has somebody who will do it: a request in the kernel or on its way, a thread, a
\* registered wait, a posted wakeup.  Two cases are known where that is too little: a slow poll's
\* request that is out for an event may not select for it, because its thread read the events when
\* it started (_win/poll.c:276, 283), until select times out after 3 minutes; and a one-shot signal
\* watch with a second number in pending_signum never closes (_win/signal.c:266, excepted).
NothingStranded ==
    /\ part = "iocp" => Iocp!NothingStranded
    /\ part = "signal" => Signal!NothingStranded
    /\ part = "pipe" => Pipe!NothingStranded
    /\ part = "accept" => Accept!NothingStranded
    /\ part = "tcp" => Tcp!NothingStranded
    /\ part = "poll" => Poll!NothingStranded
    /\ part = "udp" => Udp!NothingStranded
    /\ part = "process" => Process!NothingStranded
    /\ part = "fsevents" => FsEvents!NothingStranded
    /\ part = "ipc" => Ipc!NothingStranded
    /\ part = "tty" => Tty!NothingStranded

\* Callbacks come in order, once, and, but for poll, with what really happened; nothing is told
\* after it was stopped; the heap's first is its least; and the functions that compute something
\* compute what they promise.  (Of poll it is only said that no event is told for which a younger
\* request is out: the error of a slow select goes to poll_req_1 whichever request failed,
\* _win/poll.c:301, so that poll_req_2 brings what it brought before.)
ToldTruly ==
    /\ part = "iocp" => Iocp!InOrder
    /\ part = "signal" => Signal!ToldOnce
    /\ part = "pipe" =>
         /\ Pipe!InOrder /\ Pipe!ToldOnce
    /\ part = "tcp" => Tcp!ToldOnce
    /\ part = "poll" => Poll!NoStaleEvent
    /\ part = "udp" => Udp!ToldOnce
    /\ part = "process" => Process!ToldOnce
    /\ part = "fsevents" => FsEvents!ToldOnce
    /\ part = "ipc" => Ipc!InOrder
    /\ part = "tty" => Tty!ToldTheTruth
    /\ part = "heap" => Heap!InOrder
    /\ part = "functions" =>
         /\ Process!ArgumentsArrive /\ Process!EnvironmentIsWhole /\ Process!PathIsTakenApart
         /\ Process!FindsTheFile /\ Process!ChildGetsItsStdio /\ FsEvents!PathsAreTakenApart
         /\ Tty!Utf8Recovers /\ Tty!LinesEndWell /\ Tty!SequencesEnd /\ Tty!ArgumentsFit
         /\ Tty!StaysOnScreen

\* A pass of the timers ends and armed timers fire; closing a handle ends although requests are in
\* the kernel, unless a blocking call never returns; and a console's lock comes free.
EveryoneEnds ==
    /\ PassEnds /\ ArmedTimersFire
    /\ Iocp!CloseReturns /\ Pipe!CloseReturns /\ Tcp!CloseReturns /\ Process!CloseReturns
    /\ Tty!LockComes
=============================================================================
