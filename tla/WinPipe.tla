--------------------------------- MODULE WinPipe ---------------------------------
(***************************************************************************)
(* A connected pipe on Windows (_win/pipe.c, uv_write, uv_shutdown and     *)
(* uv_read_stop of _win/stream.c): the zero-byte read that waits for data, *)
(* in the kernel or, for a pipe that is not overlapped, in a thread that   *)
(* must be got out of ReadFile; writes, one thread at a time; shutting     *)
(* down, flushing and the timer that gives up waiting for the peer's EOF;  *)
(* closing.                                                                *)
(***************************************************************************)
EXTENDS Integers, Sequences, SequencesExt, FiniteSets

CONSTANT MaxOps     \* bound: writes, bytes from the peer, starts of reading

VARIABLE pipe

\* op is where the zero-byte read is: in the kernel; or its thread: queued, ready to call
\* ReadFile, in it (reads), returned, leaving (behind readfile_thread_handle); posted.
\* tp is readfile_thread_handle; spin: uv__pipe_interrupt_read holds the lock and waits for the
\* thread, called by uv_read_stop or uv_close.  waiting: the list of non-overlapped writes;
\* writing: writes in the kernel or a thread; wrote: completed ones on their way.
\* cb: the callback that runs; told: how often the end was told (history), done: writes answered.
Init == \E sync, blocking \in BOOLEAN : pipe =
    [sync |-> sync, blocking |-> blocking, handle |-> TRUE, readable |-> TRUE, writable |-> TRUE,
     reading |-> FALSE, rp |-> FALSE, cp |-> FALSE, op |-> "none", res |-> "ok", tp |-> "null",
     spin |-> "no", avail |-> 0, eof |-> FALSE, timer |-> "none", more |-> FALSE,
     sent |-> 0, waiting |-> <<>>, writing |-> <<>>, wrote |-> <<>>, stuck |-> 0,
     wpending |-> 0, reqs |-> 0, shut |-> "no", closing |-> FALSE, endgame |-> FALSE,
     closed |-> FALSE, cb |-> "none", told |-> 0, starts |-> 0, done |-> <<>>, ok |-> TRUE]

Runs == pipe.spin = "no"            \* the loop's thread is not in uv__pipe_interrupt_read
Idle == Runs /\ pipe.cb = "none"

-----------------------------------------------------------------------------
(* The zero-byte read *)

\* uv__pipe_queue_read.
QueueRead(s) ==
    [s EXCEPT !.ok = @ /\ s.handle /\ ~s.rp /\ s.reading, !.rp = TRUE, !.reqs = @ + 1,
              !.tp = IF s.sync THEN "null" ELSE @,
              !.op = IF s.sync THEN "queued" ELSE IF s.eof /\ s.avail = 0 THEN "posted" ELSE "kernel",
              !.res = "broken",
              !.timer = IF s.timer = "none" \/ (~s.sync /\ s.eof /\ s.avail = 0) THEN @ ELSE "armed"]

\* Data or the end of the peer end the waiting.
Ready(s) == s.avail > 0 \/ s.eof
Outcome(s) == IF s.avail > 0 THEN "ok" ELSE "broken"

Kernel ==
    /\ pipe.op = "kernel" /\ Ready(pipe)
    /\ pipe' = [pipe EXCEPT !.op = "posted", !.res = Outcome(pipe)]

\* Mutant: the thread does not see that the read was interrupted before it took the lock.
NeverBefore(s) == FALSE

Interrupted(s) == s.tp = "invalid"

\* uv_pipe_zero_readfile_thread_proc: it gives its handle, under the lock, or cannot.
ThreadStarts ==
    /\ pipe.op = "queued" /\ Runs
    /\ pipe' = IF Interrupted(pipe) THEN [pipe EXCEPT !.op = "posted", !.res = "aborted"]
               ELSE [pipe EXCEPT !.ok = @ /\ pipe.tp = "null", !.tp = "thread", !.op = "ready"]

ThreadFails == pipe.op = "queued" /\ pipe' = [pipe EXCEPT !.op = "posted", !.res = "error"]

ThreadReads ==
    \/ pipe.op = "ready" /\ pipe' = [pipe EXCEPT !.op = "reads"]
    \/ /\ pipe.op = "reads" /\ Ready(pipe)
       /\ pipe' = [pipe EXCEPT !.op = "returned", !.res = Outcome(pipe)]

ThreadLeaves ==
    \/ /\ pipe.op = "returned"
       /\ pipe' = [pipe EXCEPT !.op = "leaving", !.tp = "invalid", !.ok = @ /\ pipe.tp = "thread"]
    \/ pipe.op = "leaving" /\ Runs /\ pipe' = [pipe EXCEPT !.op = "posted"]

-----------------------------------------------------------------------------
(* Stopping and closing *)

WantEndgame(s) == [s EXCEPT !.endgame = s.closing /\ s.reqs = 0]

\* DECREASE_PENDING_REQ_COUNT.
ReqDone(s) == WantEndgame([s EXCEPT !.reqs = @ - 1])

\* close_pipe: the kernel gives up what is pending.
ClosePipe(s) ==
    [s EXCEPT !.handle = FALSE, !.ok = @ /\ s.handle,
              !.op = IF @ = "kernel" THEN "posted" ELSE @,
              !.res = IF s.op = "kernel" THEN "aborted" ELSE @]

\* The end of uv__pipe_close, behind the interruption.
CloseRest(s) ==
    LET t == [s EXCEPT !.timer = "none"] IN WantEndgame(IF t.handle THEN ClosePipe(t) ELSE t)

Resumed(s, who) == IF who = "close" THEN CloseRest(s) ELSE s

\* uv__pipe_interrupt_read, for uv_read_stop or uv_close.
Interrupt(s, who) ==
    IF ~s.rp \/ s.cp \/ ~s.handle THEN Resumed(s, who)
    ELSE IF ~s.sync
         THEN Resumed([s EXCEPT !.cp = TRUE, !.op = IF @ = "kernel" THEN "posted" ELSE @,
                                !.res = IF s.op = "kernel" THEN "aborted" ELSE @], who)
         ELSE IF s.tp = "thread" THEN [s EXCEPT !.spin = who]
              ELSE Resumed([s EXCEPT !.cp = TRUE, !.tp = "invalid"], who)

\* Its loop: cancels the ReadFile that the thread is in, and looks again.
Spin ==
    /\ ~Runs
    /\ pipe' = IF pipe.tp = "invalid"
               THEN Resumed([pipe EXCEPT !.spin = "no", !.cp = TRUE], pipe.spin)
               ELSE [pipe EXCEPT !.op = IF @ = "reads" THEN "returned" ELSE @,
                                 !.res = IF pipe.op = "reads" THEN "aborted" ELSE @]

\* uv_read_start; who was told the end does not read again.
ReadStart ==
    /\ Runs /\ ~pipe.closing /\ ~pipe.reading /\ pipe.readable
    /\ pipe.told = 0 /\ pipe.starts < MaxOps
    /\ LET s == [pipe EXCEPT !.reading = TRUE, !.starts = @ + 1]
       IN pipe' = IF s.rp THEN s ELSE QueueRead(s)

Stopped(s) == Interrupt([s EXCEPT !.reading = FALSE], "stop")

ReadStop == Runs /\ pipe.reading /\ pipe' = Stopped(pipe)

Close ==
    /\ Runs /\ ~pipe.closing
    /\ pipe' = Interrupt([pipe EXCEPT !.reading = FALSE, !.readable = FALSE, !.writable = FALSE,
                                      !.closing = TRUE], "close")

Endgame ==
    /\ Idle /\ pipe.endgame
    /\ pipe' = [pipe EXCEPT !.endgame = FALSE, !.closed = TRUE, !.ok = @ /\ pipe.reqs = 0]

-----------------------------------------------------------------------------
(* Reading *)

\* uv__pipe_read_eof and uv__pipe_read_error.
TellEnd(s) ==
    LET t == [s EXCEPT !.timer = "none", !.told = @ + 1, !.cb = "end"]
    IN IF t.reading THEN Stopped(t) ELSE t

\* One uv__pipe_read_data: whether there may be more, the code guesses.
ReadData(s) ==
    IF s.avail > 0
    THEN {t \in {[s EXCEPT !.avail = @ - n, !.cb = "read", !.more = m] :
                     n \in 1..s.avail, m \in BOOLEAN} : s.sync => (t.more <=> t.avail > 0)}
    ELSE IF s.eof THEN {TellEnd(s)}
    ELSE {[s EXCEPT !.cb = "read", !.more = FALSE]}

\* Mutant: a read that ends while nobody reads is looked at.
LooksAnyway(s) == TRUE

StillReads(s) == s.reading

\* uv__process_pipe_read_req.
ProcessRead ==
    /\ Idle /\ pipe.op = "posted"
    /\ LET s == [ReqDone(pipe) EXCEPT !.rp = FALSE, !.cp = FALSE, !.op = "none",
                                      !.timer = IF @ = "armed" THEN "idle" ELSE @]
       IN IF ~StillReads(s) THEN pipe' = s
          ELSE CASE pipe.res = "ok" -> pipe' \in ReadData(s)
                 [] pipe.res = "aborted" -> pipe' = QueueRead(s)
                 [] OTHER -> pipe' = TellEnd(s)

\* The callback returns into uv__process_pipe_read_req, which reads on or waits again.
ReadReturns ==
    /\ Runs /\ pipe.cb \in {"read", "end"}
    /\ LET s == [pipe EXCEPT !.cb = "none"]
       IN IF ~s.reading \/ s.rp THEN pipe' = s
          ELSE IF s.more THEN pipe' \in ReadData(s) ELSE pipe' = QueueRead(s)

\* eof_timer_cb.  For a pipe that is not overlapped the read always looks completed.
TimerCb ==
    /\ Idle /\ pipe.timer = "armed"
    /\ LET s == [pipe EXCEPT !.timer = "idle", !.ok = @ /\ pipe.rp]
       IN pipe' = IF s.op # "kernel" THEN s
                  ELSE TellEnd(ClosePipe(s))

-----------------------------------------------------------------------------
(* Writing and shutting down *)

\* uv__queue_non_overlapped_write.
StartNext(s) ==
    IF s.waiting = <<>> THEN s
    ELSE [s EXCEPT !.waiting = Tail(@), !.writing = Append(@, Head(s.waiting))]

\* Mutant: a write of a pipe that is not overlapped gets its thread at once.
AtOnce(s) == TRUE

NoneWrites(s) == s.wpending = 0

\* uv__pipe_write_data.  A blocking write to an overlapped pipe has its event marked so that
\* nothing comes through the port, and nothing posts a completion for it.
Write ==
    /\ Runs /\ pipe.writable /\ pipe.sent < MaxOps
    /\ LET w == pipe.sent + 1
           s == [pipe EXCEPT !.sent = w]
           t == CASE s.sync /\ s.blocking -> [s EXCEPT !.wrote = Append(@, w)]
                  [] s.sync -> LET q == [s EXCEPT !.waiting = Append(@, w)]
                               IN IF NoneWrites(q) THEN StartNext(q) ELSE q
                  [] s.blocking -> [s EXCEPT !.stuck = @ + 1]
                  [] OTHER -> [s EXCEPT !.writing = Append(@, w)]
       IN pipe' = [t EXCEPT !.wpending = @ + 1, !.reqs = @ + 1]

WriteEnds ==
    /\ pipe.writing # <<>>
    /\ pipe' = [pipe EXCEPT !.writing = Tail(@), !.wrote = Append(@, Head(pipe.writing))]

\* uv__pipe_shutdown: everything was read, or a thread flushes, or neither can be known.
ShutdownNow(s) ==
    LET t == [s EXCEPT !.ok = @ /\ s.wpending = 0, !.shut = "posted"]
    IN IF s.closing THEN {t}
       ELSE {t, [t EXCEPT !.shut = "flushes"], [t EXCEPT !.shut = "failed", !.writable = TRUE]}

\* uv_shutdown.
Shutdown ==
    /\ Runs /\ pipe.writable /\ pipe.shut = "no" /\ ~pipe.closing
    /\ LET s == [pipe EXCEPT !.writable = FALSE, !.shut = "waits", !.reqs = @ + 1]
       IN IF s.wpending = 0 THEN pipe' \in ShutdownNow(s) ELSE pipe' = s

FlushEnds == pipe.shut = "flushes" /\ pipe' = [pipe EXCEPT !.shut = "posted"]

\* uv__process_pipe_write_req, up to the callback and behind it.
ProcessWrite ==
    /\ Idle /\ pipe.wrote # <<>>
    /\ pipe' = [pipe EXCEPT !.wrote = Tail(@), !.done = Append(@, Head(pipe.wrote)), !.cb = "write"]

\* Mutant: only the last write starts what waits.
AfterAll(s) == s.wpending = 0

GoesOn(s) == s.sync

WriteReturns ==
    /\ Runs /\ pipe.cb = "write"
    /\ LET s == [pipe EXCEPT !.cb = "none", !.wpending = @ - 1]
           t == IF GoesOn(s) /\ s.waiting # <<>>
                THEN [StartNext(s) EXCEPT !.ok = @ /\ s.wpending > 0] ELSE s
       IN \E u \in IF t.wpending = 0 /\ t.shut = "waits" THEN ShutdownNow(t) ELSE {t} :
            pipe' = ReqDone(u)

\* uv__process_pipe_shutdown_req: the timer waits for the peer's end as long as a read does.
ProcessShutdown ==
    /\ Idle /\ pipe.shut \in {"posted", "failed"}
    /\ LET s == [pipe EXCEPT !.shut = "no", !.cb = "shut"]
       IN pipe' = IF pipe.closing \/ pipe.shut = "failed" THEN s
                  ELSE IF s.readable
                       THEN [s EXCEPT !.ok = @ /\ s.timer = "none",
                                      !.timer = IF s.rp THEN "armed" ELSE "idle"]
                       ELSE ClosePipe(s)

ShutdownReturns ==
    Runs /\ pipe.cb = "shut" /\ pipe' = ReqDone([pipe EXCEPT !.cb = "none"])

\* The peer writes or goes.
Peer ==
    \/ ~pipe.eof /\ pipe.avail < MaxOps /\ pipe' = [pipe EXCEPT !.avail = @ + 1]
    \/ ~pipe.eof /\ pipe' = [pipe EXCEPT !.eof = TRUE]

System == Kernel \/ ThreadStarts \/ ThreadReads \/ ThreadLeaves \/ WriteEnds \/ FlushEnds

Loop == Spin \/ Endgame \/ ProcessRead \/ ReadReturns \/ ProcessWrite \/ WriteReturns
        \/ ProcessShutdown \/ ShutdownReturns

Next ==
    \/ System \/ Loop \/ ThreadFails \/ TimerCb \/ Peer
    \/ ReadStart \/ ReadStop \/ Close \/ Write \/ Shutdown

Spec == Init /\ [][Next]_pipe

\* The kernel and the threads go on, and so does the loop.
FairSpec == Spec /\ WF_pipe(System) /\ WF_pipe(Loop)

-----------------------------------------------------------------------------
(* Properties *)

TypeOK ==
    /\ pipe.op \in {"none", "kernel", "queued", "ready", "reads", "returned", "leaving", "posted"}
    /\ pipe.tp \in {"null", "thread", "invalid"} /\ pipe.spin \in {"no", "stop", "close"}
    /\ pipe.timer \in {"none", "idle", "armed"} /\ pipe.reqs \in Nat /\ pipe.wpending \in Nat

\* reqs_pending counts the read, the writes and the shutdown that are not answered, and
\* write_reqs_pending the writes, whatever callbacks are in the middle of answering.
CountsAreExact ==
    LET One(b) == IF b THEN 1 ELSE 0
        writes == Len(pipe.waiting) + Len(pipe.writing) + Len(pipe.wrote) + pipe.stuck
                  + One(pipe.cb = "write")
    IN /\ pipe.wpending = writes
       /\ pipe.reqs = writes + One(pipe.rp) + One(pipe.shut # "no") + One(pipe.cb = "shut")
       /\ pipe.rp <=> pipe.op # "none"

\* The assertions about the read's thread and its handle, the timer and the endgame.
AssertsHold == pipe.ok

\* A closed pipe has no read, no thread, no write and no timer left, and its handle is closed.
ClosedIsClean ==
    pipe.closed =>
        /\ pipe.op = "none" /\ pipe.waiting \o pipe.writing \o pipe.wrote = <<>>
        /\ pipe.timer = "none" /\ ~pipe.handle /\ pipe.shut = "no"

\* Writes are answered in the order they were made, and no two threads write to a pipe that is
\* not overlapped.
InOrder ==
    /\ \A n \in DOMAIN pipe.done : pipe.stuck = 0 => pipe.done[n] = n
    /\ pipe.sync => Len(pipe.writing) <= 1

\* While the program reads, a read waits or a callback is about to ask for one; a write that
\* waits has one before it; the shutdown waits for a write; closing waits for a request.
NothingStranded ==
    /\ pipe.reading => pipe.rp \/ pipe.cb = "read"
    /\ pipe.waiting # <<>> => pipe.writing \o pipe.wrote # <<>> \/ pipe.cb = "write"
    /\ pipe.shut = "waits" => pipe.wpending > 0
    /\ pipe.closing /\ ~pipe.closed => pipe.endgame \/ pipe.reqs > 0 \/ pipe.spin = "close"

\* The end of the peer is told once.
ToldOnce == pipe.told <= 1

\* Who interrupts a read is not kept for ever by its thread, and a pipe that is closed is
\* closed for good - unless a blocking write to an overlapped pipe was made.
CloseReturns == pipe.closing ~> (pipe.closed \/ pipe.stuck > 0)
=============================================================================
