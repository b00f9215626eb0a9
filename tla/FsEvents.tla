-------------------------------- MODULE FsEvents --------------------------------
(***************************************************************************)
(* File events: src/source/main/cpp/_darwin/fsevents.c and the uv_fs_event *)
(* functions of _darwin/kqueue.c.  A directory is watched by a second      *)
(* thread that runs a CFRunLoop; the loop tells it through loop->cf_signals *)
(* that the set of watched paths changed, and it tells the loop of events   *)
(* through a queue and an async handle per watcher.  A file is watched by   *)
(* kqueue with a one-shot filter.                                          *)
(***************************************************************************)
EXTENDS Integers, FiniteSets, Queues

CONSTANTS
    Dirs,         \* the watchers whose path is a directory
    Files,        \* the watchers whose path is a file
    MaxEvents,    \* bound: the events that happen
    MaxStarts     \* bound: calls of uv_fs_event_start

VARIABLE fse

Handles == Dirs \union Files

\* heard and told are history: the events the CF thread saw for a watcher since it was
\* started, and those its callback was called for; again holds the watchers that were
\* started from their own callback.
Init == fse =
    [cf |-> "idle", type |-> "Regular", batch |-> <<>>, cf_signals |-> <<>>,
     handles |-> <<>>, count |-> 0, need |-> FALSE, stream |-> {}, sem |-> 0,
     pc |-> "program", who |-> "none", waiting |-> "none", cf_events |-> [h \in Dirs |-> <<>>],
     cf_error |-> {}, sent |-> {}, cf_cb |-> {}, active |-> {}, closing |-> {},
     fd |-> {}, armed |-> {}, fired |-> {}, path |-> {},
     taken |-> <<>>, takenError |-> FALSE,
     happened |-> 0, starts |-> 0, again |-> {},
     heard |-> [h \in Dirs |-> <<>>], told |-> [h \in Dirs |-> <<>>]]

\* The program runs: between two callbacks, or in one.
Program == fse.pc # "deliver" /\ fse.waiting = "none"

-----------------------------------------------------------------------------
(* The loop's thread *)

\* uv_fs_event_start for a directory and uv__fsevents_init.  The thread exists already.
StartDir(h) ==
    /\ Program /\ h \notin fse.active \union fse.closing /\ fse.starts < MaxStarts
    /\ fse' = [fse EXCEPT
         !.handles = Append(@, h), !.count = @ + 1, !.need = TRUE, !.starts = @ + 1,
         !.cf_signals = Append(@, <<h, "Regular">>),
         !.cf_events[h] = <<>>, !.cf_error = @ \ {h}, !.cf_cb = @ \union {h},
         !.active = @ \union {h}, !.path = @ \union {h},
         !.again = IF fse.pc = "callback" /\ fse.who = h THEN @ \union {h} ELSE @ \ {h},
         !.heard[h] = <<>>, !.told[h] = <<>>]

\* uv_fs_event_start for a file: it is opened and its filter added at the next poll.
StartFile(h) ==
    /\ Program /\ h \notin fse.active \union fse.closing /\ fse.starts < MaxStarts
    /\ fse' = [fse EXCEPT !.fd = @ \union {h}, !.armed = @ \union {h}, !.starts = @ + 1,
                          !.active = @ \union {h}, !.path = @ \union {h}]

\* Mutant: the watcher is unlinked and the count forgotten.
CountOf(n) == n

\* The count after a watcher left the list.
CountAfter(n) == n - 1

\* uv_fs_event_stop and uv__fsevents_close up to uv_sem_wait.  uv_close sets UV_HANDLE_CLOSING
\* first and calls the same function.
StopDir(h, closing) ==
    /\ Program /\ h \in fse.active /\ h \in Dirs
    /\ fse' = [fse EXCEPT
         !.active = @ \ {h}, !.closing = IF closing THEN @ \union {h} ELSE @,
         !.handles = Unlink(@, h), !.count = CountAfter(@), !.need = TRUE,
         !.cf_signals = Append(@, <<h, "Closing">>),
         !.waiting = h]

\* The rest of it: the async handle is closed and what was queued is dropped.
SemWaited ==
    /\ fse.waiting # "none" /\ fse.sem > 0
    /\ LET h == fse.waiting
       IN fse' = [fse EXCEPT !.sem = @ - 1, !.cf_cb = @ \ {h}, !.sent = @ \ {h},
                             !.cf_events[h] = <<>>, !.cf_error = @ \ {h}, !.path = @ \ {h},
                             !.waiting = "none"]

\* uv_fs_event_stop for a file.
StopFile(h, closing) ==
    /\ Program /\ h \in fse.active /\ h \in Files
    /\ fse' = [fse EXCEPT
         !.active = @ \ {h}, !.closing = IF closing THEN @ \union {h} ELSE @,
         !.fd = @ \ {h}, !.armed = @ \ {h}, !.fired = @ \ {h}, !.path = @ \ {h}]

CloseStopped(h) ==
    /\ Program /\ h \notin fse.active \union fse.closing
    /\ fse' = [fse EXCEPT !.closing = @ \union {h}]

\* The async callback uv__fsevents_cb takes the queue and the error under cf_mutex.
AsyncCb(h) ==
    /\ fse.pc = "program" /\ fse.waiting = "none" /\ h \in fse.sent
    /\ fse' = [fse EXCEPT !.sent = @ \ {h}, !.who = h, !.pc = "deliver",
                          !.taken = fse.cf_events[h], !.takenError = h \in fse.cf_error,
                          !.cf_events[h] = <<>>, !.cf_error = @ \ {h}]

\* The condition of UV__FSEVENTS_PROCESS.
Wanted(h) == h \notin fse.closing /\ h \in fse.active

\* One turn of its loop.
Deliver ==
    /\ fse.pc = "deliver" /\ fse.taken # <<>>
    /\ LET h == fse.who
       IN fse' = [fse EXCEPT !.taken = Tail(@),
             !.told[h] = IF Wanted(h) THEN Append(@, Head(fse.taken)) ELSE @,
             !.pc = IF Wanted(h) THEN "callback" ELSE "deliver"]

\* After the queue the error, which is told like an event without a name.
DeliverError ==
    /\ fse.pc = "deliver" /\ fse.taken = <<>>
    /\ LET call == fse.takenError /\ Wanted(fse.who)
       IN fse' = [fse EXCEPT !.takenError = FALSE,
                             !.pc = IF call THEN "callback" ELSE "program",
                             !.who = IF call THEN @ ELSE "none"]

CallbackReturns ==
    /\ fse.pc = "callback" /\ fse.waiting = "none"
    /\ fse' = [fse EXCEPT !.pc = "deliver"]

-----------------------------------------------------------------------------
(* The CF thread *)

\* uv__cf_loop_cb: all signals that are queued are taken.
CfLoopCb ==
    /\ fse.cf = "idle" /\ fse.cf_signals # <<>>
    /\ fse' = [fse EXCEPT !.batch = fse.cf_signals, !.cf_signals = <<>>, !.cf = "next"]

\* uv__fsevents_reschedule up to the first unlock; the old stream is destroyed.
Reschedule ==
    /\ fse.cf = "next" /\ fse.batch # <<>>
    /\ fse' = [fse EXCEPT !.batch = Tail(@), !.type = Head(fse.batch)[2],
                 !.need = FALSE,
                 !.cf = IF fse.need THEN "destroyed" ELSE "final",
                 !.stream = IF fse.need THEN {} ELSE @]

\* The paths are listed and a stream started on them, or an error is pushed to everybody.
CreateStream ==
    /\ fse.cf = "destroyed"
    /\ \E err \in BOOLEAN :
        fse' = IF err /\ fse.count # 0
               THEN [fse EXCEPT !.cf_error = @ \union Range(fse.handles),
                                !.sent = @ \union Range(fse.handles), !.cf = "final"]
               ELSE [fse EXCEPT !.stream = Range(SubSeq(fse.handles, 1, fse.count)),
                                !.cf = "final"]

\* Mutant: the semaphore is posted only when the stream was rebuilt.
PostsIfRebuilt(type) == type = "Closing" /\ fse.stream # {}

\* The last lines of uv__fsevents_reschedule: somebody waits exactly for a Closing signal.
Posts(type) == type = "Closing"

Final ==
    /\ fse.cf = "final"
    /\ fse' = [fse EXCEPT !.sem = IF Posts(fse.type) THEN @ + 1 ELSE @, !.cf = "next"]

BatchDone ==
    /\ fse.cf = "next" /\ fse.batch = <<>>
    /\ fse' = [fse EXCEPT !.cf = "idle"]

\* uv__fsevents_event_cb, under fsevent_mutex, for an event that concerns the watchers hs of
\* the stream.  A watcher that is not in the list any more is not told.
EventCb ==
    /\ fse.cf = "idle" /\ fse.happened < MaxEvents
    /\ \E hs \in (SUBSET fse.stream) \ {{}} :
        LET mine == hs \cap Range(fse.handles)
        IN fse' = [fse EXCEPT !.happened = @ + 1,
             !.cf_events = [h \in Dirs |-> IF h \in mine THEN Append(@[h], fse.happened) ELSE @[h]],
             !.heard = [h \in Dirs |-> IF h \in mine THEN Append(@[h], fse.happened) ELSE @[h]],
             !.sent = @ \union mine]

-----------------------------------------------------------------------------
(* Files *)

\* The kernel: a one-shot filter fires and is gone.
FileChanges(h) ==
    /\ h \in fse.armed /\ fse.happened < MaxEvents
    /\ fse' = [fse EXCEPT !.armed = @ \ {h}, !.fired = @ \union {h}, !.happened = @ + 1]

\* uv__fs_event calls the callback.
FsEvent(h) ==
    /\ fse.pc = "program" /\ fse.waiting = "none" /\ h \in fse.fired
    /\ fse' = [fse EXCEPT !.fired = @ \ {h}, !.pc = "file_callback", !.who = h]

\* Mutant: the filter is not added again.
ArmsNothing(h) == {}

\* What the end of uv__fs_event arms, unless the callback stopped the watcher.
Rearms(h) == IF h \in fse.fd THEN {h} ELSE {}

FsEventReturns ==
    /\ fse.pc = "file_callback" /\ fse.waiting = "none"
    /\ fse' = [fse EXCEPT !.pc = "program", !.armed = @ \union Rearms(fse.who), !.who = "none"]

Loop ==
    \/ \E h \in Dirs : StartDir(h) \/ StopDir(h, TRUE) \/ StopDir(h, FALSE) \/ AsyncCb(h)
    \/ \E h \in Files : \/ StartFile(h) \/ StopFile(h, TRUE) \/ StopFile(h, FALSE) \/ FsEvent(h)
    \/ \E h \in Handles : CloseStopped(h)
    \/ SemWaited \/ Deliver \/ DeliverError \/ CallbackReturns \/ FsEventReturns

CfThread == CfLoopCb \/ Reschedule \/ CreateStream \/ Final \/ BatchDone \/ EventCb

Next == Loop \/ CfThread \/ \E h \in Files : FileChanges(h)

Spec == Init /\ [][Next]_fse

-----------------------------------------------------------------------------
(* Which events a watcher hears of: uv__fsevents_event_cb's filter.  A path *)
(* is a sequence of names, real the watcher's; the root is <<>>.           *)

\* Mutant: the test for the separator is left out, so /a hears of /ab.
SameText(real, path) == TRUE

\* The path begins with the watcher's and goes on with a separator, if it goes on.
Below(real, path) == Begins(path, real)

\* What is left of the path; the watched directory itself goes by its last name.
Relative(real, path) ==
    IF real = <<>> THEN path
    ELSE IF path = real THEN <<real[Len(real)]>>
    ELSE SubSeq(path, Len(real) + 1, Len(path))

Heard(real, recursive, e) ==
    /\ ~e.system /\ Below(real, e.path)
    /\ recursive \/ Len(Relative(real, e.path)) <= 1

Kind(real, e) ==
    IF (e.renamed /\ (real = <<>> \/ e.path # real)) \/ (~e.modified /\ e.dir) THEN "rename" ELSE "change"

-----------------------------------------------------------------------------
(* Properties *)

\* The types of the state; the events of a watcher are numbered in the order they happened.
TypeOK ==
    /\ fse.cf \in {"idle", "next", "destroyed", "final"}
    /\ fse.pc \in {"program", "deliver", "callback", "file_callback"}
    /\ fse.count \in Int /\ fse.sem \in Nat
    /\ fse.active \cup fse.closing \cup fse.path \subseteq Handles
    /\ fse.cf_cb \cup fse.sent \cup fse.stream \cup fse.cf_error \subseteq Dirs
    /\ fse.armed \cup fse.fired \cup fse.fd \subseteq Files

\* fsevent_handle_count, by which uv__fsevents_reschedule walks the list, is its length, and
\* the list holds every watcher that is active; a path string lives as long as its watcher.
CountsAreExact ==
    /\ fse.count = Len(fse.handles) /\ Range(fse.handles) = fse.active \cap Dirs
    /\ fse.path = fse.active \cup ({fse.waiting} \ {"none"})
    /\ fse.sem <= IF fse.waiting = "none" THEN 0 ELSE 1

\* When the CF thread has taken every signal, the stream covers exactly the active watchers,
\* or those it does not cover have been or will be told of an error; before that, the flag
\* or a signal says that it has to be rebuilt; whoever waits for the semaphore will get it.
NothingStranded ==
    /\ fse.cf = "idle" /\ fse.cf_signals = <<>> => ~fse.need
    /\ fse.need => \E i \in DOMAIN (fse.batch \o fse.cf_signals) : TRUE
    /\ fse.waiting # "none" =>
        \/ fse.sem > 0 \/ <<fse.waiting, "Closing">> \in Range(fse.batch \o fse.cf_signals)
        \/ fse.cf \in {"destroyed", "final"} /\ fse.type = "Closing"
    /\ \A h \in Dirs : (fse.cf_events[h] # <<>> \/ h \in fse.cf_error) => h \in fse.sent \/ fse.waiting = h
    /\ \A h \in Files : h \in fse.active =>
        h \in fse.armed \cup fse.fired \/ (fse.pc = "file_callback" /\ fse.who = h)

\* A watcher is told of what happened since it was started, in that order and once; the code
\* breaks this for one that its own callback stops and starts again.
InOrder == \A h \in Dirs : h \in fse.again \/
    /\ Begins(fse.heard[h], fse.told[h])
    /\ h \in fse.active => fse.heard[h] =
        fse.told[h] \o (IF fse.who = h THEN fse.taken ELSE <<>>) \o fse.cf_events[h]

\* Once uv_fs_event_stop returned, the CF thread's stream does not cover the watcher, nothing
\* is queued for it and its async handle is gone; no callback is called for it.
ClosedIsClean ==
    /\ \A h \in Dirs \ fse.active : h # fse.waiting =>
        /\ h \notin fse.stream \cup fse.sent \cup fse.cf_cb \cup fse.cf_error \cup Range(fse.handles)
        /\ fse.cf_events[h] = <<>>
    /\ \A h \in Files \ fse.active : h \notin fse.armed \cup fse.fired \cup fse.fd
    /\ fse.closing \cap fse.active = {}

\* A watcher hears of its directory and of what is in it, of what is deeper if it asked for
\* that, and of nothing beside it, however alike the names are.
HearsOfItsOwn ==
    LET paths(n) == UNION {[1..m -> {"x", "y"}] : m \in 0..n}
    IN \A real \in paths(2), path \in paths(3), recursive \in BOOLEAN :
        Heard(real, recursive, [path |-> path, system |-> FALSE]) <=>
            \/ path = real
            \/ path # <<>> /\ SubSeq(path, 1, Len(path) - 1) = real
            \/ recursive /\ path # real /\ Begins(path, real)
================================================================================
