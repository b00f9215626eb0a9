------------------------------- MODULE WinFsEvents -------------------------------
(***************************************************************************)
(* Watching files on Windows: src/source/main/cpp/_win/fs-event.c.  One     *)
(* ReadDirectoryChangesW at a time fills the handle's buffer; the loop      *)
(* takes the buffer apart, one callback for each change of the file that is *)
(* watched, or of any when a directory is, and asks for the next.           *)
(***************************************************************************)
EXTENDS Integers, Sequences, SequencesExt

CONSTANTS
    Capacity,    \* changes the kernel keeps before it gives up and says only that there were some
    MaxChanges   \* bound: changes made

VARIABLE wfse

\* Names a change may carry: the file's, its short form, and another's.
Changed == {"name", "short", "other"}

\* at: where req is ("kernel", "posted", "failed"; "no": req_pending is 0).  dir: dirw is set,
\* file: filew is.  kbuf: what the kernel noted since the last completion, over that it gave up;
\* buffer: what the request brought and is not yet looked at, all: it brought nothing but that
\* something changed.  due counts changes of the watched file since the start, told those the
\* program heard of, missed that it was told it may have missed some.
Init == wfse =
    [active |-> FALSE, at |-> "no", dir |-> FALSE, file |-> FALSE, opened |-> FALSE,
     kbuf |-> <<>>, over |-> FALSE, buffer |-> <<>>, all |-> FALSE, cb |-> "no",
     closing |-> FALSE, endgame |-> FALSE, closed |-> FALSE,
     made |-> 0, due |-> 0, told |-> 0, missed |-> FALSE, wrong |-> FALSE, ok |-> TRUE]

Program == ~wfse.closed

-----------------------------------------------------------------------------
(* Starting and stopping *)

\* uv_fs_event_start: of a directory or of a file, whose directory is opened; fails, when
\* everything is let go again.
\* The guards at = "no" and cb = "no" are not in the code.  They cut two restarts: of a stopped
\* handle whose request is still out (uv_fs_event_start does not look at req_pending,
\* fs-event.c:156-170, and hands the request and its buffer to the kernel once more), and of one
\* in its own callback (the request that this start queues meets the assertion of
\* uv__fs_event_queue_readdirchanges, fs-event.c:39, when the callback has returned).  No property
\* says anything about either.
Start ==
    /\ Program /\ ~wfse.active /\ ~wfse.closing /\ wfse.at = "no" /\ wfse.cb = "no"
    /\ \E dir \in BOOLEAN :
         wfse' = [wfse EXCEPT !.active = TRUE, !.dir = dir, !.file = ~dir, !.opened = TRUE,
                              !.at = "kernel", !.kbuf = <<>>, !.over = FALSE,
                              !.due = 0, !.told = 0, !.missed = FALSE]

\* Mutant: the file's name stays after a stop.
FileKept(s) == [s EXCEPT !.active = FALSE, !.opened = FALSE, !.dir = FALSE]

\* uv_fs_event_stop: closing the directory makes the kernel give up the request.
Stopped(s) ==
    IF s.active THEN [s EXCEPT !.active = FALSE, !.opened = FALSE, !.dir = FALSE, !.file = FALSE] ELSE s

Stop == Program /\ wfse.active /\ wfse' = Stopped(wfse)

\* uv__fs_event_close.
Close ==
    /\ Program /\ ~wfse.closing
    /\ LET s == Stopped(wfse)
       IN wfse' = [s EXCEPT !.closing = TRUE, !.endgame = wfse.at = "no"]

\* uv__fs_event_endgame.
Endgame ==
    /\ wfse.endgame /\ wfse.cb = "no" /\ ~wfse.closed
    /\ wfse' = [wfse EXCEPT !.closed = wfse.at = "no", !.endgame = FALSE]

-----------------------------------------------------------------------------
(* The kernel *)

Concerns(s, name) == s.dir \/ (s.file /\ name \in {"name", "short"})

\* Something changes in the directory.
Change(name) ==
    /\ wfse.opened /\ wfse.made < MaxChanges
    /\ LET s == [wfse EXCEPT !.made = @ + 1, !.due = IF Concerns(wfse, name) THEN @ + 1 ELSE @]
       IN wfse' = IF s.over \/ Len(s.kbuf) = Capacity THEN [s EXCEPT !.kbuf = <<>>, !.over = TRUE]
                  ELSE [s EXCEPT !.kbuf = Append(@, name)]

\* The request completes with the changes, or with none when there were too many; it fails when
\* the directory was closed or went away.
Completes ==
    \/ /\ wfse.at = "kernel" /\ wfse.opened /\ (wfse.over \/ wfse.kbuf # <<>>)
       /\ wfse' = [wfse EXCEPT !.at = "posted", !.buffer = wfse.kbuf, !.all = wfse.over,
                               !.kbuf = <<>>, !.over = FALSE]
    \/ wfse.at = "kernel" /\ wfse' = [wfse EXCEPT !.at = "failed", !.kbuf = <<>>]

-----------------------------------------------------------------------------
(* The loop *)

\* Mutant: only the long form of the file's name is compared.
LongOnly(s, name) == s.dir \/ (s.file /\ name = "name")

\* A change that is told: dirw is set, or file_info_cmp finds it is filew or short_filew.
Tells(s, name) == s.dir \/ (s.file /\ name \in {"name", "short"})

\* uv__fs_event_queue_readdirchanges: an error is posted, as a failure.
Queued(s) ==
    LET t == [s EXCEPT !.ok = @ /\ s.at = "no" /\ s.opened]
    IN {[t EXCEPT !.at = "kernel"], [t EXCEPT !.at = "failed", !.kbuf = <<>>]}

\* Mutant: a stopped handle asks for more.
AsksAlways(s) == ~s.closing

AsksAgain(s) == ~s.closing /\ s.active

\* The end of uv__process_fs_event_req.
Finish(s) ==
    LET t == [s EXCEPT !.cb = "no", !.buffer = <<>>]
    IN IF s.closing THEN {[t EXCEPT !.endgame = TRUE]}
       ELSE IF AsksAgain(s) THEN Queued(t) ELSE {t}

\* The do loop, up to its next callback: changes nobody asked about are skipped, and a closing
\* handle looks at no more.
LookOn(s) ==
    LET at == IF s.closing THEN 0 ELSE SelectInSeq(s.buffer, LAMBDA name : Tells(s, name))
    IN IF at = 0 THEN Finish(s)
       ELSE {[s EXCEPT !.buffer = SubSeq(@, at + 1, Len(@)), !.cb = "change", !.told = @ + 1,
                       !.wrong = @ \/ ~s.active]}

\* uv__process_fs_event_req, up to its first callback.
ProcessReq ==
    /\ wfse.cb = "no" /\ wfse.at \in {"posted", "failed"}
    /\ LET s == [wfse EXCEPT !.at = "no", !.all = FALSE]
       IN IF ~s.active
          THEN wfse' = [s EXCEPT !.buffer = <<>>, !.endgame = @ \/ s.closing]
          ELSE IF wfse.at = "failed" THEN wfse' = [s EXCEPT !.cb = "error", !.missed = TRUE]
          ELSE IF wfse.all THEN wfse' = [s EXCEPT !.cb = "some", !.missed = TRUE]
          ELSE wfse' \in LookOn(s)

CallbackReturns ==
    \/ wfse.cb = "change" /\ wfse' \in LookOn(wfse)
    \/ wfse.cb \in {"some", "error"} /\ wfse' \in Finish(wfse)

Next ==
    \/ Start \/ Stop \/ Close \/ Endgame \/ Completes \/ ProcessReq \/ CallbackReturns
    \/ \E name \in Changed : Change(name)

Spec == Init /\ [][Next]_wfse

-----------------------------------------------------------------------------
(* Paths *)

Paths == UNION {[1..n -> {"a", "/"}] : n \in 1..5}

\* Mutant: the separator stays in front of the file's name.
FromSeparator(i) == i + 1

FileFrom(i) == i + 2

\* uv__split_path: the last separator, but for one that comes first, which is not found; the
\* directory keeps it.  (0-based i, as in the code; "." stands for the current directory.)
SplitPath(path) ==
    LET seps == {k \in 1..Len(path) - 1 : path[k + 1] = "/"}
        i == IF seps = {} THEN 0 ELSE CHOOSE k \in seps : \A j \in seps : j <= k
    IN IF i = 0 THEN [dir |-> <<".">>, file |-> path]
       ELSE [dir |-> SubSeq(path, 1, i + 1), file |-> SubSeq(path, FileFrom(i), Len(path))]

\* uv__relative_path, of a path that begins with dir.
RelativePath(path, dir) ==
    LET dirlen == IF dir # <<>> /\ Last(dir) = "/" THEN Len(dir) - 1 ELSE Len(dir)
    IN SubSeq(path, dirlen + 2, Len(path))

-----------------------------------------------------------------------------
(* Properties *)

TypeOK ==
    /\ wfse.at \in {"no", "kernel", "posted", "failed"}
    /\ wfse.cb \in {"no", "change", "some", "error"}
    /\ wfse.kbuf \in Seq(Changed) /\ wfse.buffer \in Seq(Changed)
    /\ wfse.made \in 0..MaxChanges /\ wfse.due \in Nat /\ wfse.told \in Nat

\* A handle is active exactly while its directory is open, and knows what it watches.
CountsAreExact ==
    /\ wfse.active = wfse.opened /\ wfse.active = (wfse.dir \/ wfse.file)
    /\ wfse.active => ~wfse.closing

\* A request is queued once at a time and on an open directory, but for the restarts that Start
\* cuts.
AssertsHold == wfse.ok

\* A handle that watches has a request out unless it is in a callback; one that closes waits for
\* its request or its endgame.
NothingStranded ==
    /\ wfse.active /\ wfse.cb = "no" => wfse.at # "no"
    /\ wfse.closing /\ ~wfse.closed => wfse.endgame \/ wfse.at # "no" \/ wfse.cb # "no"

\* Every change of what is watched is told, is in a buffer, or the program was told that it may
\* have missed some; nothing is told once the handle was stopped.
ToldOnce ==
    LET mine(names) == Len(SelectSeq(names, LAMBDA name : Concerns(wfse, name)))
    IN /\ ~wfse.wrong
       /\ wfse.active =>
            \/ wfse.due = wfse.told + mine(wfse.buffer) + mine(wfse.kbuf)
            \/ wfse.missed \/ wfse.over \/ wfse.all \/ wfse.at = "failed"

ClosedIsClean == wfse.closed => wfse.at = "no" /\ ~wfse.opened /\ ~wfse.file /\ ~wfse.dir

\* A path is taken apart into its directory and file, and a directory and a name in it are put
\* together and taken apart again (but for a path whose only separator is its first character).
PathsAreTakenApart ==
    \A path \in Paths :
      LET parts == SplitPath(path)
          tail == SelectInSeq(Tail(path), LAMBDA c : c = "/")
      IN /\ tail > 0 => parts.dir \o parts.file = path /\ ~Contains(parts.file, "/")
         /\ tail > 0 => RelativePath(path, parts.dir) = parts.file
================================================================================
