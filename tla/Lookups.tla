--------------------------------- MODULE Lookups ---------------------------------
(***************************************************************************)
(* Requests that ask the system for a name, an address or random bytes:    *)
(* getaddrinfo.c and getnameinfo.c of _darwin, random.c, and the sources   *)
(* random-getentropy.c and random-devurandom.c.  One request, run on the   *)
(* worker pool (its callback given) or in the calling thread.              *)
(***************************************************************************)
EXTENDS Integers, FiniteSets

CONSTANTS
    BufLen,   \* bound: how many random bytes are asked for at most
    Stride    \* how many of them getentropy gives at most (256)

VARIABLE look

Parts == {"hints", "service", "hostname"}

\* parts are the pointers of a getaddrinfo request that are not NULL, which point into one
\* buffer in this order; buf is the address the buffer was allocated under, NULL without one.
\* pos counts the random bytes got; most is history: the most asked of getentropy at once.
Init == look =
    [at |-> "none", kind |-> "none", async |-> FALSE, parts |-> {}, buf |-> "null", bad |-> FALSE,
     retcode |-> "0", told |-> "none", given |-> FALSE, fd |-> FALSE, from |-> "none",
     len |-> 0, pos |-> 0, most |-> 0, active |-> 0]

Kinds == {"getaddrinfo", "getnameinfo", "random"}

-----------------------------------------------------------------------------
(* The calls *)

\* Mutant: the buffer is looked for at the hostname first.
LastPart(parts) == IF "hostname" \in parts THEN "hostname"
    ELSE IF "service" \in parts THEN "service" ELSE "hints"

\* The first of the pointers that is not NULL: where the buffer begins.
FirstPart(parts) == IF "hints" \in parts THEN "hints"
    ELSE IF "service" \in parts THEN "service" ELSE "hostname"

\* What is allocated begins with the part that is copied first: hints, service, hostname.
Allocated(parts) ==
    CHOOSE p \in parts : \A q \in parts :
        LET place == [hints |-> 1, service |-> 2, hostname |-> 3] IN place[p] <= place[q]

Started(kind, async) ==
    [look EXCEPT !.at = IF async THEN "queued" ELSE "running", !.kind = kind, !.async = async,
                 !.retcode = "0", !.told = "none", !.given = FALSE, !.active = @ + 1,
                 !.len = 0, !.pos = 0, !.most = 0]

\* uv_getaddrinfo: UV_EINVAL without a hostname and a service; the name may not be one that
\* uv__idna_toascii takes, and there may be no memory.
GetAddrInfo(parts, async) ==
    /\ look.at = "none" /\ parts \intersect {"service", "hostname"} # {}
    /\ look' = [Started("getaddrinfo", async) EXCEPT !.parts = parts, !.buf = Allocated(parts)]

\* uv_getnameinfo copies the address, of a family it knows.
GetNameInfo(async) == look.at = "none" /\ look' = Started("getnameinfo", async)

\* uv_random.
Random(n, async) ==
    /\ look.at = "none"
    /\ look' = [Started("random", async) EXCEPT !.len = n, !.from = "entropy"]

\* uv_cancel of a request no worker has taken.
Cancel == look.at = "queued" /\ look' = [look EXCEPT !.at = "cancelled"]

Taken == look.at = "queued" /\ look' = [look EXCEPT !.at = "running"]

-----------------------------------------------------------------------------
(* The work *)

Result(r) == look' = [look EXCEPT !.at = "done", !.retcode = r]

\* uv__getaddrinfo_work and uv__getnameinfo_work, with uv__getaddrinfo_translate_error.
Lookup ==
    /\ look.at = "running" /\ look.kind # "random"
    /\ \E r \in {"0", "UV_EAI_NONAME"} : Result(r)

\* Mutant: every call of getentropy asks for all that is left.
AllLeft(pos, len) == len - pos

\* What the next call of getentropy asks for.
Piece(pos, len) == IF pos + Stride < len THEN Stride ELSE len - pos

\* uv__random_getentropy, one call: it is missing (UV_ENOSYS: uv__random goes on with
\* /dev/urandom, unless /dev/random gives not even a byte), fails, or gives what it was asked for.
GetEntropy ==
    /\ look.at = "running" /\ look.kind = "random" /\ look.from = "entropy"
    /\ \/ /\ look.pos = 0
          /\ \/ look' = [look EXCEPT !.from = "device", !.fd = TRUE]
             \/ Result("error")
       \/ Result("error")
       \/ LET n == Piece(look.pos, look.len)
          IN look' = [look EXCEPT !.pos = @ + n, !.most = IF n > @ THEN n ELSE @,
                                  !.at = IF look.pos + n = look.len THEN "done" ELSE @]

\* Mutant: a short read is taken for all.
FirstRead(pos, len) == pos > 0

\* The loop of uv__random_readpath ends when it has every byte.
Filled(pos, len) == pos = len

\* uv__random_readpath, one read: it closes the device when it has all bytes, at the end of the
\* file (UV_EIO) and after an error.
ReadDevice ==
    /\ look.at = "running" /\ look.kind = "random" /\ look.from = "device"
    /\ IF Filled(look.pos, look.len) THEN look' = [look EXCEPT !.fd = FALSE, !.at = "done"]
       ELSE \/ \E n \in 1..look.len - look.pos : look' = [look EXCEPT !.pos = @ + n]
            \/ look' = [look EXCEPT !.fd = FALSE, !.at = "done", !.retcode = "error"]

-----------------------------------------------------------------------------
(* The end, in the loop's thread *)

\* Mutant: what the worker left is told, cancelled or not.
WorkersWord(l) == l.retcode

\* What the callback is told, the done function having asserted that a cancelled request
\* has no result.
Verdict(l) ==
    IF l.at = "cancelled"
    THEN IF l.kind = "random" THEN "UV_ECANCELED" ELSE "UV_EAI_CANCELED"
    ELSE l.retcode

\* uv__getaddrinfo_done, uv__getnameinfo_done, uv__random_done: the request is unregistered,
\* the buffer freed, and names are given to the callback only with success.
Done ==
    /\ look.at \in {"done", "cancelled"}
    /\ look' = [look EXCEPT !.at = "told", !.active = @ - 1, !.told = Verdict(look),
          !.given = Verdict(look) = "0",
          !.bad = @ \/ (look.kind = "getaddrinfo" /\ FirstPart(look.parts) # look.buf),
          !.parts = {}, !.buf = IF FirstPart(look.parts) = @ THEN "null" ELSE @]

\* The program uses the request again.
Again == look.at = "told" /\ look' = [look EXCEPT !.at = "none"]

Next ==
    \/ \E parts \in SUBSET Parts, async \in BOOLEAN : GetAddrInfo(parts, async)
    \/ \E async \in BOOLEAN : GetNameInfo(async) \/ \E n \in 0..BufLen : Random(n, async)
    \/ Cancel \/ Taken \/ Lookup \/ GetEntropy \/ ReadDevice \/ Done \/ Again

Spec == Init /\ [][Next]_look

-----------------------------------------------------------------------------
(* Properties *)

TypeOK ==
    /\ look.kind \in Kinds \union {"none"} /\ look.parts \subseteq Parts
    /\ look.pos \in 0..look.len /\ look.len \in 0..BufLen

\* The buffer of a request is freed under the address it was allocated under, with every
\* combination of arguments; the device is closed whatever happens; no request stays registered.
ClosedIsClean ==
    /\ ~look.bad
    /\ look.at \in {"none", "told"} => look.buf = "null" /\ ~look.fd /\ look.active = 0

\* A callback that is told of success got what it asked for: all the random bytes, the names
\* of a lookup that ran; a cancelled request never ends in success.
ToldTheTruth == look.at = "told" =>
    /\ look.given => (look.kind = "random" => look.pos = look.len)
    /\ (look.told = "0") <=> look.given

\* getentropy is never asked for more than it gives.
AssertsHold ==
    /\ look.most <= Stride
    /\ look.at = "cancelled" => look.retcode = "0" /\ look.pos = 0
=============================================================================
