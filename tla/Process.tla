--------------------------------- MODULE Process ---------------------------------
(***************************************************************************)
(* Child processes: src/source/main/cpp/_darwin/process.c with the part of *)
(* uv__io_poll that hears of exits.                                        *)
(*                                                                         *)
(* Two things are modelled.  The life of process handles: spawned, told of *)
(* by an EVFILT_PROC event or found dead already, waited for, reported.    *)
(* And what uv_spawn does with descriptors: which ones it leaves open in   *)
(* the parent, and what the child finds under the numbers 0, 1, 2, ...     *)
(***************************************************************************)
EXTENDS Integers, FiniteSets, Queues

CONSTANTS
    Children,     \* the process handles
    StdioCount,   \* options->stdio_count
    UseFds        \* the descriptors of the parent that stdio may name

VARIABLE proc

Stdio == 0..StdioCount - 1
Containers == {"ignore", "pipe", "inherit"}

\* todo holds the handles that the first loop of uv__wait_children has still to look at.
\* orphans is history: the handles closed before their child was waited for.
Init == proc =
    [pc |-> "program", child |-> [p \in Children |-> "none"], event |-> {}, reap |-> {},
     loopReap |-> FALSE, process_handles |-> <<>>, todo |-> <<>>, pending |-> <<>>, active |-> {},
     closing |-> {}, nfds |-> 0, waited |-> {}, exited |-> <<>>, orphans |-> {}]

-----------------------------------------------------------------------------
(* The life of a process handle *)

Program == proc.pc \in {"program", "exit_cb"}

\* uv_spawn from the kevent call on; the child may have exited before it (ESRCH), in which
\* case the handle is to be waited for at once.
Spawn(p) ==
    /\ Program /\ proc.child[p] = "none"
    /\ \E dead \in BOOLEAN : proc' = [proc EXCEPT
           !.child[p] = IF dead THEN "exited" ELSE "alive",
           !.reap = IF dead THEN @ \union {p} ELSE @,
           !.loopReap = @ \/ dead,
           !.nfds = @ + 1, !.active = @ \union {p},
           !.process_handles = Append(@, p)]

\* A child exits; the one-shot filter becomes an event.
Exits(p) ==
    /\ proc.child[p] = "alive"
    /\ proc' = [proc EXCEPT !.child[p] = "exited", !.event = @ \union {p}]

\* The program waits for a child behind the back of the loop.
WaitedElsewhere(p) ==
    /\ Program /\ proc.child[p] = "exited" /\ p \notin proc.waited
    /\ proc' = [proc EXCEPT !.child[p] = "stolen"]

\* uv__io_poll takes the mark off the loop and calls uv__wait_children.
Waits(k) == [k EXCEPT !.loopReap = FALSE, !.todo = k.process_handles, !.pc = "reap"]

\* uv__io_poll with EVFILT_PROC events: the handles they are for are marked.
PollProc ==
    /\ proc.pc = "program"
    /\ \E e \in (SUBSET proc.event) \ {{}} :
        LET mine == e \cap Range(proc.process_handles)
            k == [proc EXCEPT !.event = @ \ e, !.reap = @ \union mine]
        IN proc' = IF proc.loopReap \/ mine # {} THEN Waits(k) ELSE k

\* uv__io_poll without events, when a child was already dead.
PollNothing ==
    /\ proc.pc = "program" /\ proc.loopReap /\ proc.nfds > 0
    /\ proc' = Waits(proc)

\* Mutant: every handle is taken, whether its child is to be reaped or not.
Ripe(p) == p \in proc.reap \/ proc.child[p] = "exited"

\* Does uv__wait_children call waitpid for the handle?
ToReap(p) == p \in proc.reap

\* The first loop of uv__wait_children, one handle: a dead child goes to the pending queue; one
\* that somebody else waited for (ECHILD) stays where it is, unmarked.
WaitChild ==
    /\ proc.pc = "reap" /\ proc.todo # <<>>
    /\ LET p == Head(proc.todo)
           k == [proc EXCEPT !.todo = Tail(@)]
           l == [k EXCEPT !.reap = @ \ {p}, !.nfds = @ - 1]
       IN proc' = IF ~ToReap(p) THEN k
                  ELSE IF proc.child[p] # "exited" THEN l
                  ELSE [l EXCEPT !.child[p] = "reaped", !.waited = @ \union {p},
                                 !.process_handles = Unlink(@, p), !.pending = Append(@, p)]

AllWaited ==
    /\ proc.pc = "reap" /\ proc.todo = <<>>
    /\ proc' = [proc EXCEPT !.pc = "pending"]

\* The second loop: stop the handle and call its exit_cb, if it has one.  The link to the
\* next handle is read before the callback, so one that a callback closes is called too.
ExitCb ==
    /\ proc.pc = "pending" /\ proc.pending # <<>>
    /\ \E callback \in BOOLEAN : proc' = [proc EXCEPT
           !.pending = Tail(@), !.active = @ \ {Head(proc.pending)},
           !.exited = Append(@, Head(proc.pending)),
           !.pc = IF callback THEN "exit_cb" ELSE "pending"]

ExitCbReturns == proc.pc = "exit_cb" /\ proc' = [proc EXCEPT !.pc = "pending"]

Reaped ==
    /\ proc.pc = "pending" /\ proc.pending = <<>>
    /\ proc' = [proc EXCEPT !.pc = "program"]

\* Is the handle one that loop->nfds still counts?
Counted(p) == p \in Range(proc.process_handles) /\ (proc.child[p] = "stolen" => p \in proc.event \cup proc.reap)

\* Mutant: uv__process_close leaves the handle in its queue.
StillListed(p) == proc.process_handles

\* What uv__process_close leaves of loop->process_handles.
Unlisted(p) == Unlink(proc.process_handles, p)

\* uv_close and uv__process_close.  A child that is alive goes on, and nfds with it.
Close(p) ==
    /\ Program /\ proc.child[p] # "none" /\ p \notin proc.closing
    /\ proc' = [proc EXCEPT !.closing = @ \union {p}, !.active = @ \ {p},
                            !.process_handles = Unlisted(p),
                            !.orphans = IF Counted(p) THEN @ \union {p} ELSE @]

Next ==
    \/ \E p \in Children : Spawn(p) \/ Exits(p) \/ WaitedElsewhere(p) \/ Close(p)
    \/ PollProc \/ PollNothing \/ WaitChild \/ AllWaited \/ ExitCb \/ ExitCbReturns \/ Reaped

Spec == Init /\ [][Next]_proc

-----------------------------------------------------------------------------
(* The descriptors of uv_spawn.  A pipe i has the ends <<i, 0>> for the     *)
(* parent and <<i, 1>> for the child.                                       *)

Pipes(c) == {i \in Stdio : c[i] = "pipe"}

\* Mutant: what was made before the failure is left open.
ErrorClosesNothing(c, made) == {}

\* The label error of uv_spawn: both ends of every pipe that was made.
ErrorCloses(c, made) == {<<i, e>> : i \in {i \in Pipes(c) : i < made}, e \in {0, 1}}

\* uv_spawn when uv__process_init_stdio fails at container `failed`, or at none of them
\* (StdioCount), in which case every stream is opened on its end and every child's end is
\* closed, whether or not the child could be started: <<open, closed>>.
SpawnFds(c, failed) ==
    IF failed < StdioCount
    THEN <<{<<i, e>> : i \in {i \in Pipes(c) : i < failed}, e \in {0, 1}} \ ErrorCloses(c, failed),
           ErrorCloses(c, failed)>>
    ELSE <<{<<i, 0>> : i \in Pipes(c)}, {<<i, 1>> : i \in Pipes(c)}>>

-----------------------------------------------------------------------------
(* The descriptors of the child.  `use` says which of the parent's          *)
(* descriptors each number is to be, -1 for none; a descriptor of the       *)
(* parent is named by its number, and a table maps numbers to descriptors.  *)

Null == -1
Start == [n \in 0..2 * StdioCount + 8 |-> n]
\* A loop over the numbers of the child.
ForEachFd(Does(_, _), s0) ==
    LET upTo[i \in 0..StdioCount] == IF i = 0 THEN s0 ELSE Does(upTo[i - 1], i - 1)
    IN upTo[StdioCount]

\* Mutant: a low descriptor is duplicated only if it is about to be replaced now.
LowerThan(d, fd) == d >= 0 /\ d < fd - 1

\* The numbers that the second loop would have replaced before it used them.
IsLow(d, fd) == d >= 0 /\ d < fd

\* The number uv__process_child_init gives a low descriptor: the lowest free one.
Dup(s, fd) ==
    LET free == CHOOSE n \in StdioCount..2 * StdioCount + 8 :
                    /\ n \notin s.taken
                    /\ \A m \in StdioCount..n - 1 : m \in s.taken
    IN [use |-> [s.use EXCEPT ![fd] = free], taken |-> s.taken \union {free},
        table |-> [s.table EXCEPT ![free] = s.table[s.use[fd]]]]

\* The number uv__spawn_set_posix_spawn_file_actions gives it: the scan starts again at
\* pipes[1], so it may stop at the number of pipes[0].
Scan(use, from, d) ==
    LET clash == {i \in Stdio : i >= from /\ use[i] = d} IN clash = {}

NextFree(use) ==
    IF Scan(use, 0, StdioCount) THEN StdioCount
    ELSE CHOOSE d \in StdioCount + 1..3 * StdioCount :
            /\ Scan(use, 1, d)
            /\ \A m \in StdioCount + 1..d - 1 : ~Scan(use, 1, m)

Dup2(s, fd) ==
    LET d == NextFree(s.use)
    IN [use |-> [s.use EXCEPT ![fd] = d], taken |-> s.taken,
        table |-> [s.table EXCEPT ![d] = s.table[s.use[fd]]]]

\* The second loop of both: every number gets its descriptor, the first three /dev/null if
\* they have none.
Assign(s, fd) ==
    IF s.use[fd] < 0 THEN IF fd < 3 THEN [s EXCEPT !.table[fd] = Null] ELSE s
    ELSE [s EXCEPT !.table[fd] = s.table[s.use[fd]]]

\* uv__process_child_init
ChildInit(use) ==
    LET s0 == [use |-> use, table |-> Start, taken |-> UseFds]
        s1 == ForEachFd(LAMBDA s, fd : IF IsLow(s.use[fd], fd) THEN Dup(s, fd) ELSE s, s0)
    IN ForEachFd(Assign, s1).table

\* uv__spawn_set_posix_spawn_file_actions
FileActions(use) ==
    LET s0 == [use |-> use, table |-> Start, taken |-> UseFds]
        s1 == ForEachFd(LAMBDA s, fd : IF IsLow(s.use[fd], fd) THEN Dup2(s, fd) ELSE s, s0)
    IN ForEachFd(Assign, s1).table

-----------------------------------------------------------------------------
(* uv__spawn_resolve_and_spawn: what posix_spawn says in every directory of *)
(* PATH.                                                                    *)

Outcomes == {"ok", "EACCES", "ENOENT", "ENOEXEC"}

\* Mutant: a directory without permission ends the search.
GoesOnAfter(o) == o = "ENOENT"

\* The outcomes after which the next directory is tried.
TriesNext(o) == o \in {"EACCES", "ENOENT"}

Resolve(results) ==
    LET stops == {i \in DOMAIN results : ~TriesNext(results[i])}
    IN IF stops # {} THEN results[CHOOSE i \in stops : \A j \in stops : i <= j]
       ELSE IF "EACCES" \in Range(results) THEN "EACCES" ELSE results[Len(results)]

-----------------------------------------------------------------------------
(* Properties *)

TypeOK ==
    /\ proc.pc \in {"program", "reap", "pending", "exit_cb"}
    /\ proc.child \in [Children -> {"none", "alive", "exited", "stolen", "reaped"}]
    /\ proc.nfds \in Nat /\ proc.reap \cup proc.event \cup proc.active \subseteq Children

\* loop->nfds counts the handles that are not waited for yet, and those that were closed
\* before: for them it is never brought down.
CountsAreExact == proc.nfds = Cardinality({p \in Children : Counted(p) \/ p \in proc.orphans})

\* A child that exited is waited for and reported: until then an event or a mark is on its
\* way.  Not so if the program waited for it itself or closed the handle.
NothingStranded == \A p \in Range(proc.process_handles) : proc.child[p] = "exited" =>
    \/ p \in proc.event
    \/ p \in proc.reap /\ (proc.loopReap \/ p \in Range(proc.todo)) /\ proc.nfds > 0

\* Every child is reported at most once and only after it was waited for, and a handle is
\* active exactly from the start of the child to its report or its close.
ToldOnce ==
    /\ IsInjective(proc.exited) /\ Range(proc.exited) \subseteq proc.waited
    /\ proc.pc = "program" => proc.active =
        {p \in Children \ proc.closing : proc.child[p] # "none"} \ Range(proc.exited)

\* A closed handle is in no queue of the loop.
ClosedIsClean == proc.closing \cap (Range(proc.process_handles) \cup proc.active) = {}

\* uv_spawn leaves open exactly the parent's ends of the pipes if it gets as far as the
\* child, and nothing if it does not; no descriptor is closed that it did not make.
SpawnLeaksNothing == \A c \in [Stdio -> Containers], failed \in 0..StdioCount :
    LET fds == SpawnFds(c, failed) IN
        /\ fds[1] \cap fds[2] = {}
        /\ fds[1] = (IF failed < StdioCount THEN {} ELSE {<<i, 0>> : i \in Pipes(c)})
        /\ fds[2] \subseteq Pipes(c) \X {0, 1}

\* The child finds under every number the descriptor that was asked for, also when they
\* are swapped.  For posix_spawn only if pipes[0] is not beyond the first free number.
ChildGetsItsStdio == \A use \in [Stdio -> UseFds \union {-1}] : \A fd \in Stdio :
    use[fd] >= 0 =>
        /\ ChildInit(use)[fd] = use[fd]
        /\ use[0] <= StdioCount => FileActions(use)[fd] = use[fd]

\* The file that is run is the first that can be; if none can, a lack of permission is
\* reported rather than that there is no file.
FindsTheFile == \A results \in UNION {[1..n -> Outcomes] : n \in 1..3} :
    /\ Resolve(results) = "ok" <=> \E i \in DOMAIN results : results[i] = "ok"
           /\ \A j \in 1..i - 1 : results[j] \in {"EACCES", "ENOENT"}
    /\ Resolve(results) = "ENOENT" => Range(results) = {"ENOENT"}
=============================================================================
