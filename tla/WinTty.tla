--------------------------------- MODULE WinTty ---------------------------------
(***************************************************************************)
(* The console on Windows: src/source/main/cpp/_win/tty.c.  Lines are read *)
(* by a thread that is inside ReadConsoleW; to stop it the loop sets a trap *)
(* and types a return for it, holding the output lock until the thread is   *)
(* out.  Raw reads wait for the console's handle.  The second half holds    *)
(* what writing computes: characters, ends of lines, control sequences and  *)
(* places on the screen.                                                    *)
(***************************************************************************)
EXTENDS Integers, Sequences, SequencesExt, FiniteSets

CONSTANTS
    MaxTyped,    \* bound: lines or keys typed
    MaxTurns,    \* bound: starts of reading and changes of mode
    MaxSymbols   \* bound: length of what is written

VARIABLE con

\* at: the request ("queued" to "posting" are its thread's places, "wait" a raw read's);
\* kind: whether it is a line's (read_line_buffer is set); status: uv__read_console_status;
\* lock: whether a cancel holds uv_tty_output_lock; enter: returns typed by the library; focus: a
\* FOCUS_EVENT written for a raw read; left: last_key_len > 0; cp: UV_HANDLE_CANCELLATION_PENDING;
\* task: what the loop's thread does with the lock wanted.  told and lost (lines) are history,
\* stopped whether this request's reading was stopped, stale whether a cancel's flag outlives what
\* it cancelled, to hit a later line: a stop in line mode that met a raw read, a read that failed.
Init == con =
    [raw |-> FALSE, reading |-> FALSE, rp |-> FALSE, cp |-> FALSE, at |-> "no", kind |-> "raw",
     status |-> "not", lock |-> FALSE, enter |-> 0, focus |-> FALSE, typed |-> 0, made |-> 0,
     took |-> FALSE, res |-> "ok", left |-> FALSE, cb |-> "no", task |-> "no", to |-> FALSE,
     was |-> FALSE, writes |-> 0, count |-> 0, reqs |-> 0, turns |-> 0,
     closing |-> FALSE, endgame |-> FALSE, closed |-> FALSE,
     told |-> 0, lost |-> 0, wrong |-> FALSE, stopped |-> FALSE, stale |-> FALSE, ok |-> TRUE]

Program == con.task = "no" /\ ~con.closed

-----------------------------------------------------------------------------
(* A read request *)

\* uv__tty_queue_read_line and uv__tty_queue_read_raw.  (When alloc_cb has no buffer for a line
\* no request is queued, and the handle stays reading; that is not followed.  Nor is a raw read
\* whose wait cannot be registered: its error ends the reading without activecnt being lowered.)
QueueRead(s) ==
    LET t == [s EXCEPT !.rp = TRUE, !.reqs = @ + 1, !.stopped = FALSE,
                       !.ok = @ /\ s.reading /\ ~s.rp]
    IN IF s.raw THEN [t EXCEPT !.kind = "raw", !.at = "wait"]
       ELSE [t EXCEPT !.kind = "line", !.at = "queued", !.status = "not"]

\* uv__tty_read_start: keys that are left come at once.
Started(s) ==
    LET t == [s EXCEPT !.reading = TRUE, !.count = @ + 1]
    IN IF s.rp THEN t
       ELSE IF s.left THEN [t EXCEPT !.rp = TRUE, !.reqs = @ + 1, !.kind = "raw", !.at = "posted"]
       ELSE QueueRead(t)

ReadStart ==
    /\ Program /\ ~con.reading /\ ~con.closing /\ con.turns < MaxTurns
    /\ con' = [Started(con) EXCEPT !.turns = @ + 1]

\* Mutant: the return is typed whatever the thread does.
TypedAlways(status) == TRUE

\* The thread is inside ReadConsoleW, or about to be.
MustBeTrapped(status) == status = "progress"

\* uv__cancel_read_console: the lock stays held exactly when a return was typed.
Cancelled(s) ==
    LET t == [s EXCEPT !.status = "trap", !.cp = TRUE]
    IN IF MustBeTrapped(s.status) THEN [t EXCEPT !.lock = TRUE, !.enter = @ + 1] ELSE t

\* uv__tty_read_stop; it goes by the mode, not by the kind of the request.
Stopped(s) ==
    LET t == [s EXCEPT !.reading = FALSE, !.count = @ - 1, !.stopped = TRUE]
    IN IF ~s.rp THEN t
       ELSE IF s.raw THEN [t EXCEPT !.focus = TRUE]
       ELSE IF s.cp THEN t
       ELSE Cancelled([t EXCEPT !.stale = @ \/ s.kind = "raw"])

\* The lock is taken for a moment by a cancel: nobody holds it then.
ReadStop ==
    /\ Program /\ con.reading /\ (con.raw \/ con.cp \/ ~con.rp \/ ~con.lock)
    /\ con' = Stopped(con)

-----------------------------------------------------------------------------
(* uv_tty_line_read_thread, and the wait of a raw read *)

Types == con.made < MaxTyped /\ con' = [con EXCEPT !.made = @ + 1, !.typed = @ + 1]

TrappedBefore(status) == status = "trap"

ThreadStarts ==
    /\ con.at = "queued"
    /\ con' = IF TrappedBefore(con.status) THEN [con EXCEPT !.status = "progress", !.at = "trapped"]
              ELSE [con EXCEPT !.status = "progress", !.at = "reads"]

ThreadGivesUp ==
    /\ con.at = "trapped"
    /\ con' = [con EXCEPT !.status = "completed", !.at = "posting", !.res = "ok", !.took = FALSE]

\* ReadConsoleW returns a line, the one the library typed, or an error.
ReadConsole ==
    /\ con.at = "reads"
    /\ \/ con.typed > 0 /\ con' = [con EXCEPT !.at = "read", !.typed = @ - 1, !.took = TRUE, !.res = "ok"]
       \/ con.enter > 0 /\ con' = [con EXCEPT !.at = "read", !.enter = @ - 1, !.took = FALSE, !.res = "ok"]
       \/ con' = [con EXCEPT !.at = "read", !.took = FALSE, !.res = "failed"]

\* Mutant: the lock is not given back.
LockKept(lock, status) == lock

\* A thread that was trapped gives the lock back for the loop.
LockAfter(lock, status) == lock /\ status # "trap"

ThreadEnds ==
    /\ con.at = "read"
    /\ con' = [con EXCEPT !.status = "completed", !.lock = LockAfter(con.lock, con.status), !.at = "posting"]

ThreadPosts == con.at = "posting" /\ con' = [con EXCEPT !.at = "posted"]

\* uv_tty_post_raw_read: there is something in the console's input.
RawReady ==
    /\ con.at = "wait" /\ (con.typed > 0 \/ con.enter > 0 \/ con.focus)
    /\ con' = [con EXCEPT !.at = "posted"]

Thread == ThreadStarts \/ ThreadGivesUp \/ ThreadEnds \/ ThreadPosts

-----------------------------------------------------------------------------
(* The loop *)

\* The end of a read request: another is queued while the handle reads.
Out(s) ==
    LET t == IF s.reading /\ ~s.rp THEN QueueRead(s) ELSE s
    IN [t EXCEPT !.cb = "no", !.reqs = @ - 1, !.endgame = @ \/ (s.closing /\ t.reqs = 1)]

\* The loop of uv_process_tty_read_raw_req, up to a full buffer; the keys that are left of it wait
\* in last_key.
TellKeys(s) ==
    {[s EXCEPT !.typed = @ - k, !.enter = 0, !.focus = FALSE, !.left = TRUE, !.cb = "keys"] : k \in 1..s.typed}

ProcessRaw(s) ==
    IF ~s.reading \/ ~s.raw THEN {Out(s)}
    ELSE IF s.typed > 0 THEN TellKeys(s)
    ELSE {Out([s EXCEPT !.left = FALSE, !.enter = 0, !.focus = FALSE])}

\* Mutant: a cancelled line is told.
Whatever(cp) == TRUE

Tells(cp) == ~cp

\* uv_process_tty_read_line_req.  An error leaves the flag of a cancel set.
ProcessLine(s) ==
    LET told == s.took /\ Tells(s.cp)
        failed == [s EXCEPT !.stale = @ \/ s.cp]
        t == [s EXCEPT !.cp = FALSE, !.took = FALSE,
                       !.told = IF told THEN @ + 1 ELSE @, !.stale = FALSE,
                       !.lost = IF s.took /\ ~told THEN @ + 1 ELSE @,
                       !.wrong = @ \/ (s.took /\ ~told /\ ~s.stopped /\ ~s.stale) \/ (told /\ ~s.reading)]
    IN IF s.res = "failed"
       THEN IF s.reading THEN [failed EXCEPT !.reading = FALSE, !.count = @ - 1, !.cb = "error"]
            ELSE Out(failed)
       ELSE IF told THEN [t EXCEPT !.cb = "line"] ELSE Out(t)

\* uv__process_tty_read_req.
ProcessRead ==
    /\ Program /\ con.cb = "no" /\ con.at = "posted"
    /\ LET s == [con EXCEPT !.rp = FALSE, !.at = "no"]
       IN con' \in IF con.kind = "raw" THEN ProcessRaw(s) ELSE {ProcessLine(s)}

ReadReturns ==
    /\ Program /\ con.cb \in {"keys", "line", "error"}
    /\ con' \in IF con.cb = "keys" /\ con.reading
                THEN IF con.typed > 0 THEN TellKeys(con) ELSE {Out([con EXCEPT !.left = FALSE])}
                ELSE {Out(con)}

\* uv_tty_set_mode: reading is stopped, then, with the lock, the mode is changed ...
SetMode ==
    /\ Program /\ ~con.closing /\ con.turns < MaxTurns
    /\ ~con.reading \/ con.raw \/ con.cp \/ ~con.rp \/ ~con.lock
    /\ LET s == IF con.reading THEN Stopped(con) ELSE con
       IN con' = [s EXCEPT !.task = "mode", !.to = ~con.raw, !.was = con.reading, !.turns = @ + 1]

\* ... and reading is started again; a write has the lock while it writes.
HasLock ==
    /\ con.task \in {"mode", "write"} /\ ~con.lock
    /\ LET s == [con EXCEPT !.task = "no"]
       IN con' = IF con.task = "write" THEN s
                 ELSE IF con.was THEN Started([s EXCEPT !.raw = con.to]) ELSE [s EXCEPT !.raw = con.to]

\* uv__tty_write_bufs of this console's output, by whatever handle.
Write == Program /\ con.writes < 1 /\ con' = [con EXCEPT !.task = "write", !.writes = @ + 1]

\* uv__tty_close.
Close ==
    /\ Program /\ ~con.closing /\ (~con.reading \/ con.raw \/ con.cp \/ ~con.rp \/ ~con.lock)
    /\ LET s == IF con.reading THEN Stopped(con) ELSE con
       IN con' = [s EXCEPT !.closing = TRUE, !.endgame = s.reqs = 0]

\* uv__tty_endgame.
Endgame ==
    /\ Program /\ con.endgame /\ con.cb = "no"
    /\ con' = [con EXCEPT !.closed = TRUE, !.endgame = FALSE, !.ok = @ /\ con.reqs = 0]

Next ==
    \/ ReadStart \/ ReadStop \/ SetMode \/ Write \/ Close
    \/ Types \/ Thread \/ ReadConsole \/ RawReady
    \/ ProcessRead \/ ReadReturns \/ HasLock \/ Endgame

\* The thread runs, and a console that has a return typed gives it to ReadConsoleW.
Spec ==
    /\ Init /\ [][Next]_con
    /\ WF_con(Thread) /\ WF_con(con.enter > 0 /\ ReadConsole) /\ WF_con(HasLock)

-----------------------------------------------------------------------------
(* Characters *)

Units == {"a", "k", "2", "3", "!"}      \* ASCII, a continuation, leads of two and three bytes, none

\* Mutant: the byte that ends a cut character is swallowed with it.
NotAgain(left, c) == FALSE

\* A byte that does not continue a character is looked at again, as a first one.
Again(left, c) == left > 0 /\ c # "k"

FirstByte(st, c) ==
    CASE c = "a" -> [st EXCEPT !.out = Append(@, "a")]
      [] c = "2" -> [st EXCEPT !.left = 1]
      [] c = "3" -> [st EXCEPT !.left = 2]
      [] OTHER -> [st EXCEPT !.out = Append(@, "?")]

\* The first part of uv__tty_write_bufs's loop.
Utf8Step(st, c) ==
    LET cut == [st EXCEPT !.left = 0, !.out = Append(@, "?")]
    IN IF st.left = 0 THEN FirstByte(st, c)
       ELSE IF Again(st.left, c) THEN FirstByte(cut, c)
       ELSE IF c # "k" THEN cut
       ELSE IF st.left = 1 THEN [st EXCEPT !.left = 0, !.out = Append(@, "u")]
       ELSE [st EXCEPT !.left = @ - 1]

Decode(bytes) == FoldLeft(Utf8Step, [left |-> 0, out |-> <<>>], bytes).out

\* Mutant: a line feed becomes two characters wherever it stands.
Always(prev) == TRUE

AddsReturn(prev) == prev # "cr"

\* The last part: what is written of the ends of lines; prev is previous_eol.
EolStep(st, c) ==
    IF c = "lf" /\ AddsReturn(st.prev) THEN [prev |-> "lf", out |-> st.out \o <<"cr", "lf">>]
    ELSE IF c = "cr" /\ st.prev = "lf" THEN [st EXCEPT !.prev = "cr"]
    ELSE [prev |-> IF c \in {"lf", "cr"} THEN c ELSE "no", out |-> Append(st.out, c)]

Lines(text) == FoldLeft(EolStep, [prev |-> "no", out |-> <<>>], text).out

-----------------------------------------------------------------------------
(* Control sequences *)

\* Classes of characters: "st" stands for ^, _, P and ]; "m" and "A" for other small and capital
\* letters, "1" for digits but 7 and 8.
Finals == {"m", "A", "c", "[", "st", "\\"}
Symbols == Finals \union {"esc", "csi", "7", "8", "1", ";", "?", " ", "\"", "bel"}

Plain == [at |-> "normal", arg |-> FALSE, ext |-> FALSE, quoted |-> FALSE, slash |-> FALSE,
          esc |-> FALSE, argc |-> 0, out |-> <<>>]

To(st, at) == [Plain EXCEPT !.at = at, !.out = st.out]
Shown(st, c) == [To(st, "normal") EXCEPT !.out = Append(@, c)]
Done(st) == [To(st, "normal") EXCEPT !.out = Append(@, "act")]

\* Mutant: the character after an escape is always part of the sequence.
AnyCapital(c) == TRUE

IsCapital(c) == c \in {"A", "\\"}

AfterEscape(st, c) ==
    CASE c = "[" -> To(st, "csi")
      [] c = "st" -> To(st, "string")
      [] c = "esc" -> st
      [] c \in {"c", "7", "8"} -> Done(st)
      [] IsCapital(c) -> To(st, "normal")
      [] OTHER -> Shown(st, c)

MaxArgs == 4       \* ansi_csi_argv

InCsi(st, c) ==
    CASE c \in {"1", "7", "8"} ->
           IF st.arg THEN st
           ELSE IF st.argc >= MaxArgs THEN To(st, "ignore")
           ELSE [st EXCEPT !.arg = TRUE, !.argc = @ + 1]
      [] c = ";" ->
           IF st.arg THEN [st EXCEPT !.arg = FALSE]
           ELSE IF st.argc >= MaxArgs THEN To(st, "ignore")
           ELSE [st EXCEPT !.argc = @ + 1]
      [] c = "?" /\ ~st.arg /\ ~st.ext /\ st.argc = 0 -> [st EXCEPT !.ext = TRUE]
      [] c = " " /\ ~st.ext -> To(st, "decscusr")
      [] c \in Finals -> Done(st)
      [] OTHER -> To(st, "ignore")

InString(st, c) ==
    CASE st.quoted /\ st.slash -> [st EXCEPT !.slash = FALSE]
      [] st.quoted -> [st EXCEPT !.quoted = c # "\"", !.slash = c = "\\"]
      [] c = "bel" \/ (c = "\\" /\ st.esc) -> To(st, "normal")
      [] OTHER -> [st EXCEPT !.esc = c = "esc", !.quoted = c = "\"", !.slash = FALSE]

\* The middle part of the loop of uv__tty_write_bufs.  (What comes between a space and the final
\* character of a sequence is shown, and the rest ignored.)
AnsiStep(st, c) ==
    CASE st.at = "normal" -> IF c = "esc" THEN To(st, "escape") ELSE IF c = "csi" THEN To(st, "csi") ELSE Shown(st, c)
      [] st.at = "escape" -> AfterEscape(st, c)
      [] st.at = "ignore" -> IF c \in Finals THEN To(st, "normal") ELSE st
      [] st.at = "decscusr" -> IF c \in Finals THEN Done(st) ELSE [Shown(st, c) EXCEPT !.at = "ignore"]
      [] st.at = "csi" -> InCsi(st, c)
      [] st.at = "string" -> InString(st, c)

Ansi(text) == FoldLeft(AnsiStep, Plain, text)

\* One argument's digits: 16 bits, and what would be more ends the sequence, but for 65536 to
\* 65539, which wrap around.
Argument(digits) ==
    FoldLeft(LAMBDA v, d : IF v = -1 \/ 10 * v > 65535 THEN -1 ELSE (10 * v + d) % 65536,
             Head(digits), Tail(digits))

-----------------------------------------------------------------------------
(* Places on the screen *)

\* uv__tty_update_virtual_window: the offset of the window in a buffer of rows rows.
WindowOffset(offset, height, rows, cursor) ==
    LET o == IF offset = -1 THEN cursor
             ELSE IF offset < cursor - height + 1 THEN cursor - height + 1 ELSE offset
        p == IF o + height > rows THEN rows - height ELSE o
    IN IF p < 0 THEN 0 ELSE p

Between(low, x, high) == IF x < low THEN low ELSE IF x > high THEN high ELSE x

\* Mutant: the last row is one below the window.
Below(offset, height) == offset + height

LastRow(offset, height) == offset + height - 1

\* uv__tty_make_real_coord; info is the buffer's width and rows, the window's height and offset
\* and the cursor.
RealCoord(info, x, xrel, y, yrel) ==
    LET offset == WindowOffset(info.offset, info.height, info.rows, info.y)
    IN [x |-> Between(0, IF xrel THEN info.x + x ELSE x, info.width - 1),
        y |-> Between(offset, IF yrel THEN info.y + y ELSE offset + y, LastRow(offset, info.height))]

\* uv__tty_clear: the first cell and how many, for the screen or the line, from the cursor (0),
\* up to it (1) or all (2).
Cleared(info, dir, screen) ==
    LET far == 65535
        start == RealCoord(info, 0, dir = 0, 0, ~screen \/ dir = 0)
        end == RealCoord(info, IF dir = 1 THEN 0 ELSE far, dir = 1,
                         IF dir = 1 \/ ~screen THEN 0 ELSE far, ~screen \/ dir = 1)
        cell(c) == c.y * info.width + c.x
    IN [first |-> cell(start), count |-> cell(end) - cell(start) + 1]

-----------------------------------------------------------------------------
(* Properties *)

TypeOK ==
    /\ con.at \in {"no", "queued", "trapped", "reads", "read", "posting", "wait", "posted"}
    /\ con.status \in {"not", "progress", "trap", "completed"}
    /\ con.cb \in {"no", "keys", "line", "error"} /\ con.task \in {"no", "mode", "write"}
    /\ con.count \in Nat /\ con.reqs \in Nat /\ con.typed \in 0..MaxTyped /\ con.enter \in Nat

\* reqs_pending counts the request and the one being processed, activecnt the reading; what was
\* typed is told, lost with a stop, in the thread or still in the console (keys told leave it).
CountsAreExact ==
    /\ con.reqs = (IF con.rp THEN 1 ELSE 0) + (IF con.cb = "no" THEN 0 ELSE 1)
    /\ con.count = (IF con.reading THEN 1 ELSE 0) /\ con.rp = (con.at # "no")
    /\ con.told + con.lost + con.typed <= con.made

\* A read is queued once at a time and while reading; a closed handle has none.
AssertsHold == con.ok

\* A handle that reads has a request out, one that closes waits for it; a lock that a cancel holds
\* is given back by a thread that is on its way, with a return to take.
NothingStranded ==
    /\ con.reading /\ con.cb = "no" /\ con.task = "no" => con.rp
    /\ con.closing /\ ~con.closed => con.endgame \/ con.reqs > 0
    /\ con.lock => con.status = "trap" /\ (con.at = "read" \/ (con.at = "reads" /\ con.enter > 0))

\* No line is told after its reading was stopped, and none is lost that was not stopped (but
\* for the next one after a stale flag).
ToldTheTruth == ~con.wrong

ClosedIsClean == con.closed => con.at = "no" /\ ~con.lock

\* Whatever waits for the output lock gets it.
LockComes == con.task # "no" ~> con.task = "no"

\* Text is never swallowed by what a cut character leaves, and every whole character is one.
Utf8Recovers ==
    \A bytes \in UNION {[1..n -> Units] : n \in 0..MaxSymbols} :
      LET count(s, c) == Len(SelectSeq(s, LAMBDA x : x = c))
      IN /\ count(Decode(bytes), "a") = count(bytes, "a")
         /\ Decode(bytes \o <<"a", "2", "k", "a">>)
              = Decode(Append(bytes, "a")) \o <<"u", "a">>

\* No text and no line is lost or doubled, a line feed is written after a return or another line
\* feed ("\r\n\r\n" comes out as "\r\n\n"), and where lines have text each ends in "\r\n".
LinesEndWell ==
    /\ \A text \in UNION {[1..n -> {"lf", "cr", "x"}] : n \in 0..MaxSymbols} :
         LET out == Lines(text)
             no(s) == SelectSeq(s, LAMBDA c : c # "cr")
         IN /\ no(out) = no(text)
            /\ \A i \in 1..Len(out) : out[i] = "lf" => i > 1 /\ out[i - 1] \in {"cr", "lf"}
    /\ \A n \in 0..3 : \A ends \in [1..n -> {<<"x">>, <<"x", "lf">>, <<"x", "cr", "lf">>}] :
         Lines(FlattenSeq(ends))
           = FlattenSeq([i \in 1..n |-> IF Len(ends[i]) = 2 THEN <<"x", "cr", "lf">> ELSE ends[i]])

\* Text on both sides of a sequence is shown and the sequence is not; what is shown of any text
\* is a part of it; a sequence with too many arguments ends where another would.
SequencesEnd ==
    /\ \A args \in UNION {[1..n -> {"1", ";", "7"}] : n \in 0..MaxSymbols + 2} : \A final \in Finals :
         LET st == Ansi(<<"A", "esc", "[">> \o args \o <<final, "A">>)
         IN st.at = "normal" /\ SelectSeq(st.out, LAMBDA c : c # "act") = <<"A", "A">>
    /\ \A text \in [1..2 -> Symbols], end \in {"bel", "st"} :
         LET close == IF end = "bel" THEN <<"bel">> ELSE <<"esc", "\\">>
             st == Ansi(<<"esc", "st", "A", "\"">> \o <<"\\", text[1], text[2], "\"">> \o close \o <<"m">>)
         IN text[2] \notin {"\"", "\\"} => st.at = "normal" /\ st.out = <<"m">>
    /\ \A c \in Symbols : Ansi(<<"esc", c, "m">>).out \in
         {<<"m">>, <<"act", "m">>, <<c, "m">>, <<"act">>, <<>>}
    /\ Ansi(<<"esc", "m">>).out = <<"m">>

\* An argument below 65536 is what its digits say; one above 65539 ends the sequence.
ArgumentsFit ==
    \A n \in 1..6 : \A digits \in [1..n -> {0, 3, 5, 6}] :
      LET v == FoldLeft(LAMBDA a, d : 10 * a + d, 0, digits)
      IN /\ v < 65536 => Argument(digits) = v
         /\ v > 65539 => Argument(digits) = -1 \/ v >= 655360

\* Every place is in the buffer, and what is cleared is a run of cells in it that has the cursor's
\* when the cursor is in the window.
StaysOnScreen ==
    \A rows \in 1..3, height \in 1..3, offset \in -1..2, x \in 0..1, y \in 0..2, dir \in 0..2,
       screen \in BOOLEAN :
      height <= rows /\ y < rows =>
        LET info == [width |-> 2, rows |-> rows, height |-> height, offset |-> offset, x |-> x, y |-> y]
            c == Cleared(info, dir, screen)
            window == WindowOffset(offset, height, rows, y)
        IN /\ c.first >= 0 /\ c.count > 0 /\ c.first + c.count <= 2 * rows
           /\ y >= window => c.first <= 2 * y + x /\ 2 * y + x < c.first + c.count
================================================================================
