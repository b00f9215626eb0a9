------------------------------- MODULE WinProcess -------------------------------
(***************************************************************************)
(* Child processes on Windows: src/source/main/cpp/_win/process.c and      *)
(* process-stdio.c.  A thread of the system waits for the child and posts  *)
(* exit_req to the loop, while the loop may be closing the handle.  The     *)
(* second half holds what uv_spawn computes: the file it finds, the command *)
(* line, the environment and the handles the child gets.                   *)
(***************************************************************************)
EXTENDS Integers, Sequences, SequencesExt, FiniteSets

CONSTANTS
    Signals,      \* signal numbers a program may send: 0, one that kills, one without meaning
    Fatal,        \* those uv__kill makes a TerminateProcess of
    MaxArg,       \* bound: length of an argument
    Required      \* the names of required_vars, as numbers in their order

VARIABLE wproc

\* child: the process itself; wait: RegisterWaitForSingleObject and its callback; pending:
\* exit_cb_pending; owned: the handles the process holds for it; sig: exit_signal.  sent and
\* told (the signals exit callbacks were called with) are history.
Init == wproc =
    [child |-> "none", wait |-> "none", pending |-> FALSE, posted |-> FALSE, active |-> FALSE,
     owned |-> {}, sig |-> 0, cb |-> "no", closing |-> FALSE, endgame |-> FALSE, closed |-> FALSE,
     sent |-> {}, told |-> <<>>, ok |-> TRUE]

Program == wproc.cb \in {"no", "exit"} /\ ~wproc.closed

-----------------------------------------------------------------------------
(* uv_spawn *)

\* The child runs from here (for a detached one: once ResumeThread was called); the thread's
\* handle is closed again, the process's kept.
Created(s) == [s EXCEPT !.child = "alive", !.wait = "armed", !.active = TRUE, !.owned = {"process"}]

\* uv_spawn on a fresh handle: anything up to CreateProcessW may fail and leaves nothing.
\* (When ResumeThread fails the child is terminated and both its handles stay open: that is
\* not followed.)
Spawn ==
    /\ Program /\ wproc.child = "none" /\ ~wproc.closing
    /\ wproc' \in {Created(wproc), [wproc EXCEPT !.child = "failed"]}

\* The child ends, by itself or by the TerminateProcess that was asked for, which does not wait.
ChildExits == wproc.child \in {"alive", "dying"} /\ wproc' = [wproc EXCEPT !.child = "gone"]

-----------------------------------------------------------------------------
(* The thread that waits *)

\* exit_wait_callback is called once the child is gone ...
WaitRuns ==
    \/ wproc.wait = "armed" /\ wproc.child = "gone" /\ wproc' = [wproc EXCEPT !.wait = "called"]
    \/ /\ wproc.wait = "called"
       /\ wproc' = [wproc EXCEPT !.wait = "running", !.pending = TRUE, !.ok = @ /\ ~wproc.pending]

\* ... and posts the request.
WaitPosts ==
    /\ wproc.wait = "running"
    /\ wproc' = [wproc EXCEPT !.wait = "ran", !.posted = TRUE]

-----------------------------------------------------------------------------
(* The loop *)

\* uv__process_proc_exit.
ProcExit ==
    /\ wproc.cb = "no" /\ wproc.posted
    /\ LET s == [wproc EXCEPT !.posted = FALSE, !.pending = FALSE, !.ok = @ /\ wproc.pending]
       IN wproc' = IF s.closing THEN [s EXCEPT !.endgame = TRUE]
                   ELSE [s EXCEPT !.wait = "none", !.active = FALSE, !.cb = "exit",
                                  !.told = Append(@, wproc.sig)]

CallbackReturns == wproc.cb = "exit" /\ wproc' = [wproc EXCEPT !.cb = "no"]

\* uv__process_close: the handle is closing ...
Close ==
    /\ Program /\ ~wproc.closing /\ wproc.child # "none"
    /\ wproc' = [wproc EXCEPT !.closing = TRUE, !.active = FALSE,
                              !.cb = IF wproc.wait = "none" THEN @ ELSE "unregister",
                              !.endgame = wproc.wait = "none" /\ ~wproc.pending]

\* Mutant: UnregisterWait, which does not wait for the callback.
NeverBusy(s) == TRUE

NotBusy(s) == s.wait \notin {"called", "running"}

\* ... UnregisterWaitEx returns once the wait is cancelled or its callback has ended ...
Unregistered ==
    /\ wproc.cb = "unregister" /\ NotBusy(wproc)
    /\ wproc' = [wproc EXCEPT !.cb = "no", !.wait = IF @ = "armed" THEN "none" ELSE @,
                              !.endgame = ~wproc.pending]

\* uv__process_endgame.
Endgame ==
    /\ wproc.endgame /\ wproc.cb = "no" /\ ~wproc.closed
    /\ wproc' = [wproc EXCEPT !.closed = TRUE, !.endgame = FALSE, !.owned = {},
                              !.ok = @ /\ ~wproc.pending]

\* uv__kill, asked of a process: terminate it, look whether it is there, or nothing of the kind.
\* It fails once the process is gone, and may see one that is dying either way.
KillSucceeds(child, signum) ==
    CASE signum \in Fatal -> {child = "alive"}
      [] signum = 0 -> IF child = "dying" THEN {TRUE, FALSE} ELSE {child = "alive"}
      [] OTHER -> {FALSE}

\* uv_process_kill, of a process that was spawned.
ProcessKill(signum) ==
    /\ Program /\ ~wproc.closing /\ wproc.owned # {}
    /\ \E good \in KillSucceeds(wproc.child, signum) :
         wproc' = IF ~good THEN wproc
                  ELSE [wproc EXCEPT !.sig = signum, !.sent = @ \union {signum},
                                     !.child = IF signum \in Fatal THEN "dying" ELSE @]

\* uv_kill of the same process by its number: exit_signal is not set.
Kill(signum) ==
    /\ Program /\ wproc.child \in {"alive", "dying"}
    /\ \E good \in KillSucceeds(wproc.child, signum) :
         wproc' = [wproc EXCEPT !.child = IF good /\ signum \in Fatal THEN "dying" ELSE @]

Next ==
    \/ Spawn \/ ChildExits \/ WaitRuns \/ WaitPosts \/ ProcExit \/ CallbackReturns
    \/ Close \/ Unregistered \/ Endgame
    \/ \E signum \in Signals : ProcessKill(signum) \/ Kill(signum)

LoopThread == ProcExit \/ CallbackReturns \/ Unregistered \/ Endgame

Spec ==
    /\ Init /\ [][Next]_wproc
    /\ WF_wproc(LoopThread) /\ WF_wproc(WaitRuns \/ WaitPosts)

-----------------------------------------------------------------------------
(* The command line *)

Chars == {"a", " ", "\"", "\\"}

Arguments == UNION {[1..n -> Chars] : n \in 0..MaxArg}

HasAny(arg, chars) == \E i \in 1..Len(arg) : arg[i] \in chars

\* Mutant: backslashes are doubled wherever they stand.
DoubledAlways(hit, c) == TRUE

\* Only the backslashes before a quote, or before the closing one, are doubled.
Doubled(hit, c) == hit

\* The loop of quote_cmd_arg: from the end to the front; acc is what was written, reversed.
Escaped(arg) ==
    FoldRight(LAMBDA c, acc :
        CASE c = "\\" /\ Doubled(acc.hit, c) -> [hit |-> acc.hit, out |-> <<"\\", "\\">> \o acc.out]
          [] c = "\"" -> [hit |-> TRUE, out |-> <<"\\", "\"">> \o acc.out]
          [] OTHER -> [hit |-> FALSE, out |-> <<c>> \o acc.out],
        arg, [hit |-> TRUE, out |-> <<>>]).out

\* quote_cmd_arg.
QuoteCmdArg(arg) ==
    IF arg = <<>> THEN <<"\"", "\"">>
    ELSE IF ~HasAny(arg, {" ", "\""}) THEN arg
    ELSE IF ~HasAny(arg, {"\"", "\\"}) THEN <<"\"">> \o arg \o <<"\"">>
    ELSE <<"\"">> \o Escaped(arg) \o <<"\"">>

\* make_program_args: the length it allocates, and the line it writes (each argument is followed
\* by a space, the last by the terminator).
ArgsLength(args) ==
    FoldLeft(LAMBDA n, arg : n + 2 * (Len(arg) + 1) + 2, 0, args)

MakeProgramArgs(args) ==
    FoldLeft(LAMBDA line, i : line \o QuoteCmdArg(args[i]) \o (IF i < Len(args) THEN <<" ">> ELSE <<>>),
             <<>>, [i \in 1..Len(args) |-> i])

\* How the child takes the line apart (the C run time's rules): n backslashes before a quote are
\* n \div 2 and, when n is odd, a quote; else a quote begins or ends a quoted part.
Slashes(st) == [k \in 1..st.slashes |-> "\\"]

TakenApart(line) ==
    LET Step(st, c) ==
          CASE c = "\\" -> [st EXCEPT !.slashes = @ + 1, !.begun = TRUE]
            [] c = "\"" ->
                 LET half == [k \in 1..(st.slashes \div 2) |-> "\\"]
                 IN IF st.slashes % 2 = 1
                    THEN [st EXCEPT !.arg = @ \o half \o <<"\"">>, !.slashes = 0]
                    ELSE [st EXCEPT !.arg = @ \o half, !.slashes = 0, !.quoted = ~@, !.begun = TRUE]
            [] c = " " /\ ~st.quoted ->
                 IF st.begun
                 THEN [st EXCEPT !.args = Append(@, st.arg \o Slashes(st)), !.arg = <<>>,
                                 !.slashes = 0, !.begun = FALSE]
                 ELSE st
            [] OTHER ->
                 [st EXCEPT !.arg = @ \o Slashes(st) \o <<c>>, !.slashes = 0, !.begun = TRUE]
        end == FoldLeft(Step, [args |-> <<>>, arg |-> <<>>, slashes |-> 0, quoted |-> FALSE,
                               begun |-> FALSE], line)
    IN IF end.begun THEN Append(end.args, end.arg \o Slashes(end)) ELSE end.args

-----------------------------------------------------------------------------
(* The environment: a variable is <<name, value>>, names are numbers in their order *)

\* Mutant: the variables of the block are not sorted first.
Unsorted(env) == env

SortedEnv(env) == SortSeq(env, LAMBDA a, b : a[1] < b[1])

\* make_program_env: merges the sorted block with the required variables it lacks, taken from the
\* parent's environment when they are there.  The two passes walk alike; n counts the first's.
MakeProgramEnv(block, parent) ==
    LET env == SortedEnv(block)
        req == SetToSortSeq(Required, <)
        go[i \in 1..Len(req) + 1, j \in 1..Len(env) + 1] ==
          IF i > Len(req) THEN SubSeq(env, j, Len(env))
          ELSE IF j > Len(env) \/ req[i] < env[j][1]
          THEN (IF req[i] \in DOMAIN parent THEN << <<req[i], parent[req[i]]>> >> ELSE <<>>) \o go[i + 1, j]
          ELSE <<env[j]>> \o go[IF req[i] = env[j][1] THEN i + 1 ELSE i, j + 1]
    IN go[1, 1]

\* find_path: the value of the first PATH of the child's environment, else the parent's.
FindPath(env, path, parent) ==
    LET at == SelectInSeq(env, LAMBDA v : v[1] = path)
    IN IF at > 0 THEN {env[at][2]} ELSE IF path \in DOMAIN parent THEN {parent[path]} ELSE {}

-----------------------------------------------------------------------------
(* The file *)

\* The slices of PATH that search_path makes: "q" is a quote, which the ends of a slice lose.
\* (A slice that is one quote has its length taken to -1; paths that hold one are not followed.)
From(path, i, c) ==
    LET at == SelectInSubSeq(path, i, Len(path), LAMBDA x : x = c)
    IN IF at = 0 THEN Len(path) + 1 ELSE at

Trimmed(slice) ==
    LET first == IF slice[1] = "q" THEN 2 ELSE 1
        last == IF slice[Len(slice)] = "q" THEN Len(slice) - 1 ELSE Len(slice)
    IN SubSeq(slice, first, last)

\* Mutant: quotes are not looked at when a slice is cut.
CutAnywhere(path, start) == start

\* Where the search for the ; that ends the slice begins.
CutFrom(path, start) ==
    IF start <= Len(path) /\ path[start] = "q" THEN From(path, start + 1, "q") ELSE start

Slices(path) ==
    LET go[at \in 1..Len(path) + 1] ==       \* at: dir_end
          IF at > Len(path) THEN <<>>
          ELSE LET start == IF at > 1 \/ path[1] = ";" THEN at + 1 ELSE at
                   end == From(path, CutFrom(path, start), ";")
               IN (IF end = start THEN <<>> ELSE <<Trimmed(SubSeq(path, start, end - 1))>>) \o go[end]
    IN go[1]

\* path_search_walk_ext: what is tried in one directory.
WalkExt(dir, name) ==
    (IF name.tried THEN << <<dir, name.base>> >> ELSE <<>>)
    \o << <<dir, name.base \o ".com">>, <<dir, name.base \o ".exe">> >>

\* search_path, of a name with an extension or not (tried says so, or the caller does), with a
\* directory or not, and whether the current directory is searched first.
Tries(name, path, cwd) ==
    IF name.dir # <<>> THEN WalkExt(name.dir, name)
    ELSE FlattenSeq([i \in 1..Len(path) + 1 |->
           IF i > 1 THEN WalkExt(path[i - 1], name)
           ELSE IF cwd THEN WalkExt(<<>>, name) ELSE <<>>])

\* The first that is a file.
SearchPath(name, path, cwd, files) ==
    LET tries == Tries(name, path, cwd)
        at == SelectInSeq(tries, LAMBDA f : f \in files)
    IN IF at = 0 THEN {} ELSE {tries[at]}

-----------------------------------------------------------------------------
(* The handles of the child *)

Containers == {"ignore", "pipe", "fd", "closed_fd", "closed_std", "stream", "no_stream"}

\* One slot of uv__stdio_create: the handle it makes, or that it fails.  The first three are
\* always open, unless a descriptor up to 2 was inherited that is not open itself.
Slot(c, i) ==
    CASE c = "ignore" -> IF i <= 2 THEN {"nul"} ELSE {}
      [] c \in {"pipe", "fd", "stream"} -> {c}
      [] c = "closed_std" -> {}
      [] OTHER -> {"fails"}

\* Mutant: the buffer is dropped without closing what it holds.
KeptOnError(made) == made

\* uv__stdio_destroy, on error.
LeftOnError(made) == {}

\* uv__stdio_create; fails_at is a slot whose handle cannot be made although it should be
\* (Len(stdio) and more: none).  Result: whether it failed, and the handles that are open.
StdioCreate(stdio, fails_at) ==
    LET count == IF Len(stdio) < 3 THEN 3 ELSE Len(stdio)
        kind(i) == IF i < Len(stdio) THEN stdio[i + 1] ELSE "ignore"
        bad == {i \in 0..count - 1 : i = fails_at \/ Slot(kind(i), i) = {"fails"}}
        first == IF bad = {} THEN count ELSE CHOOSE i \in bad : \A j \in bad : i <= j
        made == {i \in 0..first - 1 : Slot(kind(i), i) # {}}
    IN IF bad = {} THEN [failed |-> FALSE, open |-> made]
       ELSE [failed |-> TRUE, open |-> LeftOnError(made)]

-----------------------------------------------------------------------------
(* Properties *)

TypeOK ==
    /\ wproc.child \in {"none", "failed", "alive", "dying", "gone"}
    /\ wproc.wait \in {"none", "armed", "called", "running", "ran"} /\ wproc.sig \in Signals
    /\ wproc.cb \in {"no", "exit", "unregister"} /\ wproc.told \in Seq(Signals)

\* exit_cb_pending is set exactly while the thread's post is under way or in the port, and the
\* handle is active until the callback or the close.
CountsAreExact ==
    /\ wproc.pending <=> wproc.wait = "running" \/ wproc.posted
    /\ wproc.active => wproc.wait # "none" /\ ~wproc.closing

\* The assertions of exit_wait_callback, uv__process_proc_exit and uv__process_endgame.
AssertsHold == wproc.ok

\* No thread has the handle, and no request of it is in the port, once it is closed.
ClosedIsClean ==
    wproc.closed => wproc.wait \in {"none", "ran"} /\ ~wproc.posted /\ wproc.owned = {}

\* A child that ends while its handle is open is waited for, posted or told; a handle that closes
\* gets its endgame or waits for the request that brings it.
NothingStranded ==
    /\ wproc.active => wproc.wait \in {"armed", "called", "running"} \/ wproc.posted
    /\ wproc.closing /\ ~wproc.closed => wproc.endgame \/ wproc.pending \/ wproc.cb = "unregister"

\* One exit callback at most, and a signal it names was sent with uv_process_kill.
ToldOnce ==
    /\ Len(wproc.told) <= 1
    /\ \A i \in 1..Len(wproc.told) : wproc.told[i] # 0 => wproc.told[i] \in wproc.sent

\* A close ends.
CloseReturns == wproc.closing ~> wproc.closed

\* The child gets the arguments the program gave, and the line fits what was allocated.
ArgumentsArrive ==
    \A a \in Arguments : \A b \in {<<>>, <<"a">>, <<"\\">>, <<" ", "\\">>} :
      LET line == MakeProgramArgs(<<a, b>>)
      IN TakenApart(line) = <<a, b>> /\ Len(line) + 1 <= ArgsLength(<<a, b>>)

\* The environment is sorted, holds what the block holds, and every required variable the parent has.
EnvironmentIsWhole ==
    \A block \in UNION {[1..n -> {<<k, "own">> : k \in 1..4}] : n \in 0..3},
       parent \in [Required -> {"parent"}] \union {[r \in {} |-> "parent"]} :
      LET env == MakeProgramEnv(block, parent)
          names == {env[i][1] : i \in 1..Len(env)}
      IN /\ \A i \in 1..Len(env) - 1 : env[i][1] <= env[i + 1][1]
         /\ names = {block[i][1] : i \in 1..Len(block)} \union DOMAIN parent
         /\ \A k \in 1..4 : FindPath(env, k, parent) =
              IF \E i \in 1..Len(block) : block[i][1] = k THEN {"own"}
              ELSE IF k \in DOMAIN parent THEN {"parent"} ELSE {}

\* Directories joined into a PATH come out again, those with a ; in them quoted.
Entries == {<<>>, <<"d">>, <<"d", ";">>, <<";", "d">>}

PathOf(dirs) ==
    FoldLeft(LAMBDA p, i : p \o (IF i > 1 THEN <<";">> ELSE <<>>)
                             \o (IF Contains(dirs[i], ";") THEN <<"q">> \o dirs[i] \o <<"q">> ELSE dirs[i]),
             <<>>, [i \in 1..Len(dirs) |-> i])

PathIsTakenApart ==
    \A dirs \in UNION {[1..n -> Entries] : n \in 1..3} :
      Slices(PathOf(dirs)) = SelectSeq(dirs, LAMBDA d : d # <<>>)

\* The program that is started is in the first directory that has it, under its own name before
\* .com before .exe, and a name with a directory is looked for nowhere else.
FindsTheFile ==
    \A dir \in {<<>>, <<"d">>}, tried \in BOOLEAN, cwd \in BOOLEAN,
       files \in SUBSET ({<<>>, <<"d">>, <<"e">>} \X {"p", "p.exe"}) :
      LET name == [base |-> "p", dir |-> dir, tried |-> tried]
          found == SearchPath(name, << <<"e">>, <<"d">> >>, cwd, files)
      IN /\ found \subseteq files
         /\ \A f \in found : dir # <<>> => f[1] = dir
         /\ dir = <<>> /\ <<(<<"e">>), "p.exe">> \in files /\ (~tried \/ <<(<<"e">>), "p">> \notin files)
              => found # {} /\ (<<(<<"e">>), "p.exe">> \in found \/ cwd)

\* A child whose handles cannot all be made gets none and none stays open; one that starts has
\* its first three open, but for those inherited closed.
ChildGetsItsStdio ==
    \A n \in 0..4 : \A stdio \in [1..n -> Containers], fails_at \in 0..4 :
      LET r == StdioCreate(stdio, fails_at)
      IN IF r.failed THEN r.open = {}
         ELSE \A i \in 0..2 : i \in r.open \/ stdio[i + 1] = "closed_std"
================================================================================
