-------------------------------- MODULE WinPoll --------------------------------
(***************************************************************************)
(* uv_poll_t on Windows: src/source/main/cpp/_win/poll.c.  A handle has two *)
(* poll requests.  While one waits in the kernel (fast: AFD) or in a thread *)
(* (slow: select), the program may ask for other events: then the second is *)
(* submitted, and what the first still brings of them is masked.           *)
(***************************************************************************)
EXTENDS Integers, FiniteSets

CONSTANTS
    FastAsks,    \* the sets of events that the program asks a fast handle for
    SlowAsks     \* and a slow one

VARIABLE poll

Requests == {1, 2}

\* UV_READABLE, UV_WRITABLE, UV_DISCONNECT
Events == {"READABLE", "WRITABLE", "DISCONNECT"}

\* submitted and mask are submitted_events_1, _2 and mask_events_1, _2; at says where a request
\* is (a slow one is first queued, then its thread reads what the handle wants, then it waits);
\* status and got are its result, local that AFD_POLL_LOCAL_CLOSE came with it, asked what the
\* slow thread selects for, cut the requests that a later exclusive poll makes return.  by is the
\* request whose callback runs.  young was submitted last (history); stale is history: an event
\* was told that a younger request was waiting for.  failed: an error stopped the watcher.
Init == \E slow \in BOOLEAN : poll =
    [slow |-> slow, events |-> {}, submitted |-> [r \in Requests |-> {}],
     mask |-> [r \in Requests |-> {}], at |-> [r \in Requests |-> "no"],
     status |-> [r \in Requests |-> "ok"], got |-> [r \in Requests |-> {}],
     asked |-> [r \in Requests |-> {}], local |-> {}, cut |-> {}, young |-> 1, by |-> 0,
     active |-> FALSE, failed |-> FALSE, closing |-> FALSE, endgame |-> FALSE,
     closed |-> FALSE, stale |-> FALSE, ok |-> TRUE]

Other(r) == 3 - r

Covered(p) == p.submitted[1] \union p.submitted[2]

\* Mutant: the new request's events are masked, not the old one's.
MasksNew(p, r) == [q \in Requests |-> IF q = r THEN p.events ELSE {}]

Masks(p, r) == [q \in Requests |-> IF q = r THEN {} ELSE p.events]

\* uv__fast_poll_submit_poll_req and uv__slow_poll_submit_poll_req, into the first request that
\* is free; the kernel may refuse it, or the thread.  Without a free one the fast variant waits.
Submit(p) ==
    LET free == {r \in Requests : p.submitted[r] = {}}
        r == IF 1 \in free THEN 1 ELSE 2
        s == [p EXCEPT !.submitted[r] = p.events, !.mask = Masks(p, r), !.young = r]
        refused == [s EXCEPT !.at[r] = "posted", !.status[r] = "error"]
    IN IF free = {} THEN {[p EXCEPT !.ok = @ /\ ~p.slow]}
       ELSE IF p.slow THEN {[s EXCEPT !.at[r] = "queued"], refused}
       ELSE {[s EXCEPT !.at[r] = "waits", !.cut = (@ \ {r}) \union ({Other(r)} \ free)], refused}

\* uv__poll_set with events.  (In slow mode a third set of events, asked for while both requests
\* are out, runs into the assertion of uv__slow_poll_submit_poll_req and is not followed.)
PollStart(events) ==
    /\ ~poll.closing
    /\ events \in IF poll.slow THEN SlowAsks ELSE FastAsks
    /\ LET p == [poll EXCEPT !.events = events, !.active = TRUE, !.failed = FALSE]
       IN IF events \subseteq Covered(p) THEN poll' = p
          ELSE /\ poll.slow => \E r \in Requests : poll.submitted[r] = {}
               /\ poll' \in Submit(p)

PollStop ==
    ~poll.closing /\ poll' = [poll EXCEPT !.events = {}, !.active = FALSE, !.failed = FALSE]

\* What the kernel may find when it is asked for events: a disconnection is looked for with
\* READABLE too, and reported as READABLE and DISCONNECT.
Found(events) ==
    {e \in SUBSET Events :
        /\ "WRITABLE" \in e => "WRITABLE" \in events
        /\ "DISCONNECT" \in e => "READABLE" \in e
        /\ "READABLE" \in e => "READABLE" \in events \/ ("DISCONNECT" \in events /\ "DISCONNECT" \in e)}

\* A fast request returns: with events, perhaps because the program has closed the socket itself;
\* with none because it was cut short; interrupted; or with an error.
Returns(r) ==
    /\ ~poll.slow /\ poll.at[r] = "waits"
    /\ \E status \in {"ok", "interrupted", "error"}, found \in Found(poll.submitted[r]),
         closed \in BOOLEAN :
         /\ status # "ok" => found = {} /\ ~closed
         /\ status = "ok" /\ found = {} /\ ~closed => r \in poll.cut
         /\ poll' = [poll EXCEPT !.at[r] = "posted", !.status[r] = status, !.got[r] = found,
                                 !.local = IF closed THEN @ \union {r} ELSE @]

\* The slow thread looks at what the handle wants now, first for READABLE and then for WRITABLE,
\* not at what its request was submitted for.
ThreadStarts(r) ==
    /\ poll.at[r] = "queued"
    /\ poll' = [poll EXCEPT !.at[r] = "starts", !.asked[r] = poll.events \intersect {"READABLE"}]

ThreadSelects(r) ==
    /\ poll.at[r] = "starts"
    /\ poll' = [poll EXCEPT !.at[r] = "waits",
                            !.asked[r] = @ \union (poll.events \intersect {"WRITABLE"})]

\* select returns with events, with none after three minutes, or with an error, which
\* uv__slow_poll_thread_proc writes to poll_req_1 whichever request it serves (there it is lost,
\* unless that request waits to be processed).  poll_req_2 then returns with the status and the
\* events it had the last time, if it had any: with whatever that memory holds.
SelectReturns(r) ==
    /\ poll.slow /\ poll.at[r] = "waits"
    /\ LET p == [poll EXCEPT !.at[r] = "posted", !.asked[r] = {}]
       IN \/ \E found \in SUBSET poll.asked[r] :
               poll' = [p EXCEPT !.status[r] = "ok", !.got[r] = found]
          \/ r = 1 /\ poll' = [p EXCEPT !.status[1] = "error"]
          \/ r = 2 /\ \E status \in {"ok", "error"}, found \in SUBSET (UNION SlowAsks) :
               /\ status = "error" => found = {}
               /\ poll' = [p EXCEPT !.status = <<IF poll.at[1] = "posted" THEN "error" ELSE @[1], status>>,
                                    !.got[2] = found]

\* Mutant: a handle that closes asks for its endgame with the first request that returns.
AnyOne(p) == TRUE

LastOne(p) == Covered(p) = {}

\* The end of uv__fast_poll_process_poll_req and uv__slow_poll_process_poll_req.
Again(p) ==
    LET q == [p EXCEPT !.by = 0]
    IN IF ~(q.events \subseteq Covered(q)) THEN Submit(q)
       ELSE IF q.closing /\ LastOne(q) THEN {[q EXCEPT !.endgame = TRUE]}
       ELSE {q}

Told(p, r) == (p.got[r] \intersect p.events) \ p.mask[r]

\* uv__process_poll_req.  An error stops the watcher, but leaves the handle active; a fast request
\* that was interrupted is no error.  A socket that the program closed stops the handle, and
\* what came with that is told all the same.
Process(r) ==
    /\ poll.by = 0 /\ poll.at[r] = "posted"
    /\ LET told == Told(poll, r)
           p == [poll EXCEPT !.submitted[r] = {}, !.at[r] = "no", !.got[r] = {},
                             !.status[r] = "ok", !.cut = @ \ {r}, !.local = @ \ {r},
                             !.ok = @ /\ poll.submitted[r] # {}]
           stopped == IF r \in poll.local THEN [p EXCEPT !.events = {}, !.active = FALSE] ELSE p
       IN \/ /\ poll.status[r] = "error" /\ poll.events # {}
             /\ poll' = [p EXCEPT !.events = {}, !.failed = TRUE, !.by = r]
          \/ /\ poll.status[r] = "interrupted" \/ (poll.status[r] = "error" /\ poll.events = {})
             /\ poll' \in Again(p)
          \/ /\ poll.status[r] = "ok" /\ told # {}
             /\ poll' = [stopped EXCEPT !.by = r, !.stale = @ \/
                            (poll.young # r /\ told \intersect poll.submitted[Other(r)] # {})]
          \/ /\ poll.status[r] = "ok" /\ told = {}
             /\ poll' \in Again(stopped)

CallbackReturns == poll.by # 0 /\ poll' \in Again(poll)

\* uv__poll_close: an exclusive poll makes the requests return; slow ones are waited for.
Close ==
    /\ ~poll.closing
    /\ LET p == [poll EXCEPT !.events = {}, !.active = FALSE, !.failed = FALSE, !.closing = TRUE]
       IN poll' = IF Covered(p) = {} THEN [p EXCEPT !.endgame = TRUE]
                  ELSE IF p.slow THEN p
                  ELSE [p EXCEPT !.cut = {r \in Requests : p.submitted[r] # {}}]

Endgame ==
    /\ poll.by = 0 /\ poll.endgame /\ ~poll.closed
    /\ poll' = [poll EXCEPT !.closed = TRUE, !.ok = @ /\ Covered(poll) = {}]

Next ==
    \/ \E events \in FastAsks \union SlowAsks : PollStart(events)
    \/ PollStop \/ CallbackReturns \/ Close \/ Endgame
    \/ \E r \in Requests :
         Returns(r) \/ ThreadStarts(r) \/ ThreadSelects(r) \/ SelectReturns(r) \/ Process(r)

Spec == Init /\ [][Next]_poll

-----------------------------------------------------------------------------
(* Properties *)

TypeOK ==
    /\ poll.events \subseteq Events /\ poll.by \in 0..2 /\ poll.young \in Requests
    /\ poll.submitted \in [Requests -> SUBSET Events] /\ poll.mask \in [Requests -> SUBSET Events]
    /\ poll.at \in [Requests -> {"no", "queued", "starts", "waits", "posted"}]
    /\ poll.status \in [Requests -> {"ok", "interrupted", "error"}]

\* A request is submitted exactly while it is out; the handle is active exactly while it wants
\* events, but for one that an error stopped.
CountsAreExact ==
    /\ \A r \in Requests : poll.submitted[r] # {} <=> poll.at[r] # "no"
    /\ ~poll.failed => (poll.active <=> poll.events # {})

\* Every event the program wants is covered by a request that is out; only while one of two
\* fast ones is about to return may it be left to the next.  A closing handle waits for a
\* request that will return, or for its endgame.  (Covered is what uv__poll_set goes by.  For a
\* fast request the kernel looks for it; a slow one may have started its thread while the program
\* wanted something else, and then nobody looks for the event until select has timed out.)
NothingStranded ==
    /\ poll.by = 0 /\ ~(poll.events \subseteq Covered(poll)) =>
         \E r \in Requests : r \in poll.cut \/ poll.at[r] = "posted"
    /\ poll.closing /\ ~poll.closed /\ poll.by = 0 =>
         \/ poll.endgame
         \/ \E r \in Requests : poll.at[r] # "no" /\ (poll.at[r] = "waits" => poll.slow \/ r \in poll.cut)

\* What a request brings late is not told for an event that a younger one is out for.  (Whether
\* what it brings has happened is not said: after a failed select poll_req_2 brings what it
\* brought before, see SelectReturns.)
NoStaleEvent == ~poll.stale

\* No third request is needed, but for the third set of events that PollStart cuts, and the
\* endgame finds none out.
AssertsHold == poll.ok

ClosedIsClean == poll.closed => \A r \in Requests : poll.at[r] = "no"
================================================================================
