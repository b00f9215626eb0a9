-------------------------------- MODULE WinSignal --------------------------------
(***************************************************************************)
(* Signal watchers on Windows (_win/signal.c).  A console event runs       *)
(* uv__signal_dispatch in a thread of the system, under uv__signal_lock.   *)
(* It leaves the number in pending_signum of each watcher and posts the    *)
(* watcher's one request when no number was there.  The loop takes the     *)
(* number without the lock.                                                *)
(***************************************************************************)
EXTENDS Integers, Sequences, SequencesExt, FiniteSets

CONSTANTS
    Watches,    \* signal handles
    Signums,    \* SIGINT, SIGBREAK, SIGHUP: numbers other than 0
    MaxEvents   \* bound: console events

VARIABLE wsig

None == "none"

\* todo: the watchers that the dispatch under way has still to see (the lock is held), of the
\* number by; saw: it has read the flags of the first (was ACTIVE set?) and not yet written them.
\* starting: uv__signal_start has released the lock and not yet called uv__handle_start.
\* flagged: ACTIVE in the flags; counted: in loop->active_handles.  posted: requests on their way.
\* told is history: how often a one-shot watch was called; raced: its flags were written twice.
Init == wsig =
    [signum |-> [h \in Watches |-> 0], pending |-> [h \in Watches |-> 0],
     posted |-> [h \in Watches |-> 0], shot |-> {}, dispatched |-> {},
     flagged |-> {}, counted |-> {}, starting |-> None, raced |-> {},
     closing |-> {}, closed |-> {}, endgames |-> {}, cb |-> None,
     todo |-> <<>>, by |-> 0, saw |-> None, events |-> 0,
     told |-> [h \in Watches |-> 0], ok |-> TRUE]

Unlocked == wsig.todo = <<>>
Loop == wsig.starting = None

-----------------------------------------------------------------------------
(* The control handler *)

Arrive(n) ==
    /\ Unlocked /\ wsig.events < MaxEvents
    /\ \E todo \in SetToSeqs({h \in Watches : wsig.signum[h] = n}) :
         wsig' = [wsig EXCEPT !.todo = todo, !.by = n, !.events = @ + 1]

\* Mutant: the request is posted for each number.
PostsAlways(h) == h \notin wsig.dispatched

\* A request is posted when no number was there, unless a one-shot watch had its number.
Posts(h) == wsig.pending[h] = 0 /\ h \notin wsig.dispatched

\* One watcher; setting ONE_SHOT_DISPATCHED reads the flags and writes them.
Dispatch ==
    /\ ~Unlocked /\ wsig.saw = None
    /\ LET h == Head(wsig.todo)
           s == [wsig EXCEPT !.pending[h] = wsig.by,
                             !.posted[h] = IF Posts(h) THEN @ + 1 ELSE @]
       IN wsig' = IF h \in wsig.shot \ wsig.dispatched
                  THEN [s EXCEPT !.saw = IF h \in wsig.flagged THEN "active" ELSE "idle"]
                  ELSE [s EXCEPT !.todo = Tail(@)]

DispatchFlags ==
    /\ wsig.saw # None
    /\ LET h == Head(wsig.todo)
       IN wsig' = [wsig EXCEPT !.dispatched = @ \union {h}, !.todo = Tail(@), !.saw = None,
              !.flagged = IF wsig.saw = "active" THEN @ \union {h} ELSE @ \ {h},
              !.raced = IF wsig.saw = "idle" /\ h \in wsig.flagged THEN @ \union {h} ELSE @]

-----------------------------------------------------------------------------
(* The loop's thread *)

\* Mutant: a stopped watcher stays in the tree.
StaysInTree(s, h) == [s EXCEPT !.flagged = @ \ {h}, !.counted = @ \ {h}]

\* uv_signal_stop of a watcher that has a number.
Stopped(s, h) ==
    [s EXCEPT !.signum[h] = 0, !.flagged = @ \ {h},
              !.counted = IF h \in s.flagged THEN @ \ {h} ELSE @]

\* uv__signal_start up to the end of its critical section.  The same number only changes the
\* callback; another one stops the watcher first.
Start(h, n, once) ==
    /\ Loop /\ h \notin wsig.closing
    /\ IF wsig.signum[h] = n THEN UNCHANGED wsig
       ELSE /\ Unlocked
            /\ LET s == IF wsig.signum[h] # 0 THEN Stopped(wsig, h) ELSE wsig
               IN wsig' = [s EXCEPT !.signum[h] = n, !.starting = h, !.told[h] = 0,
                                    !.shot = IF once THEN @ \union {h} ELSE @]

HandleStart ==
    /\ wsig.starting # None
    /\ wsig' = [wsig EXCEPT !.flagged = @ \union {wsig.starting},
                            !.counted = @ \union {wsig.starting}, !.starting = None]

Stop(h) == Loop /\ wsig.signum[h] # 0 /\ Unlocked /\ wsig' = Stopped(wsig, h)

\* uv__signal_close.
Close(h) ==
    /\ Loop /\ h \notin wsig.closing /\ (wsig.signum[h] # 0 => Unlocked)
    /\ LET s == IF wsig.signum[h] # 0 THEN Stopped(wsig, h) ELSE wsig
       IN wsig' = [s EXCEPT !.closing = @ \union {h},
                            !.endgames = IF wsig.pending[h] = 0 THEN @ \union {h} ELSE @]

\* uv__process_signal_req: the number is taken, the callback called if the watcher waits for it.
\* (The request of a handle that is closed is not followed: the handle may be freed.)
Process(h) ==
    /\ Loop /\ wsig.cb = None /\ wsig.posted[h] > 0 /\ h \notin wsig.closed
    /\ LET told == wsig.pending[h] = wsig.signum[h]
       IN wsig' = [wsig EXCEPT !.posted[h] = @ - 1, !.pending[h] = 0, !.cb = h,
                        !.ok = @ /\ wsig.pending[h] # 0,
                        !.told[h] = IF told THEN @ + 1 ELSE @]

\* Behind the callback: a one-shot watch is stopped, a closing handle gets its endgame.
Processed ==
    /\ Loop /\ wsig.cb # None
    /\ LET h == wsig.cb
           stops == h \in wsig.shot /\ wsig.signum[h] # 0
           s == IF stops THEN Stopped(wsig, h) ELSE wsig
       IN /\ stops => Unlocked
          /\ wsig' = [s EXCEPT !.cb = None, !.endgames = IF h \in wsig.closing
                                                         THEN @ \union {h} ELSE @]

\* uv__signal_endgame.
Endgame(h) ==
    /\ Loop /\ wsig.cb = None /\ h \in wsig.endgames
    /\ wsig' = [wsig EXCEPT !.endgames = @ \ {h}, !.closed = @ \union {h},
                    !.ok = @ /\ wsig.signum[h] = 0 /\ h \notin wsig.closed]

Next ==
    \/ \E n \in Signums : Arrive(n)
    \/ Dispatch \/ DispatchFlags \/ HandleStart \/ Processed
    \/ \E h \in Watches :
         \/ \E n \in Signums, once \in BOOLEAN : Start(h, n, once)
         \/ Stop(h) \/ Close(h) \/ Process(h) \/ Endgame(h)

Spec == Init /\ [][Next]_wsig

-----------------------------------------------------------------------------
(* Properties *)

TypeOK ==
    /\ \A h \in Watches : /\ wsig.signum[h] \in Signums \union {0}
                          /\ wsig.pending[h] \in Signums \union {0} /\ wsig.posted[h] \in Nat
    /\ wsig.closed \subseteq wsig.closing /\ wsig.closing \subseteq Watches
    /\ wsig.starting \in Watches \union {None} /\ wsig.cb \in Watches \union {None}

\* A watcher's only request is posted exactly while a number waits in pending_signum - but for
\* a one-shot watch whose number was already dispatched (the next number is left there without
\* a request) - and the loop counts the watchers that wait for a number.
CountsAreExact ==
    \A h \in Watches :
        /\ wsig.posted[h] <= 1
        /\ h \notin wsig.dispatched => (wsig.posted[h] = 1 <=> wsig.pending[h] # 0)
        /\ h \notin wsig.raced \union {wsig.starting} => (h \in wsig.counted <=> wsig.signum[h] # 0)

\* The assertions of uv__process_signal_req, and of uv__signal_endgame but for the last: a
\* request finds its number, the endgame a watcher that is stopped and not yet closed.
AssertsHold == wsig.ok

\* The last assertion of uv__signal_endgame: no number is left.  It does not hold: a callback
\* closes its handle, a number came while it ran, and uv__process_signal_req asks for the
\* endgame all the same.
NoNumberIsLeft == \A h \in wsig.closed : wsig.pending[h] = 0

\* When a handle is closed, no request is on its way, and no dispatch is about to see it (but
\* for the handles that NoNumberIsLeft is about).
ClosedIsClean ==
    \A h \in wsig.closed :
        /\ wsig.signum[h] = 0 /\ ~Contains(wsig.todo, h)
        /\ wsig.pending[h] = 0 => wsig.posted[h] = 0
        /\ h \notin wsig.endgames \union wsig.counted \/ h \in wsig.raced

\* A handle being closed has its endgame to come or a request that will ask for it.  Left out are
\* the one-shot watches that were dispatched: a second number that comes before the callback has
\* stopped the watch stays in pending_signum without a request (signal.c:96-103), uv__signal_close
\* waits for that request (266), and the handle never closes.
NothingStranded ==
    \A h \in wsig.closing \ (wsig.closed \union wsig.dispatched) :
        h \in wsig.endgames \/ wsig.posted[h] = 1 \/ wsig.cb = h

\* A one-shot watch is called at most once for each start.
ToldOnce == \A h \in wsig.shot : wsig.told[h] <= 1
=============================================================================
