------------------------------- MODULE Descriptors -------------------------------
(***************************************************************************)
(* How descriptors come into being: the helpers of _darwin/core.c, pipe.c, *)
(* tcp.c and fs.c that make one or two, set them up step by step and give  *)
(* all or nothing; the fork of another thread in the middle of it          *)
(* (process.c); and the TCP handle that may get its options before it has  *)
(* a socket (tcp.c, uv__stream_open).                                      *)
(***************************************************************************)
EXTENDS Integers, Sequences, FiniteSets

VARIABLE des

Ends == {1, 2}
Options == {"nodelay", "keepalive"}

\* What a helper does, step by step.  "exec" makes a descriptor not inherited, "non" makes it
\* non-blocking; "atomic" makes it with O_CLOEXEC.
Socket == <<<<"make", {1}>>, <<"non", {1}>>, <<"exec", {1}>>>>
Accept1 == <<<<"make", {1}>>, <<"exec", {1}>>, <<"non", {1}>>>>
OpenCloexec == <<<<"atomic", {1}>>>>
Dup2 == <<<<"make", {1}>>, <<"exec", {1}>>>>
Mkstemp == <<<<"lock", {}>>, <<"make", {1}>>, <<"exec", {1}>>, <<"unlock", {}>>>>

\* uv_pipe and uv_socketpair, the ends in `nonblocking` set non-blocking.
Pair(nonblocking) ==
    <<<<"make", {1, 2}>>, <<"exec", {1}>>, <<"exec", {2}>>>>
    \o (IF 1 \in nonblocking THEN <<<<"non", {1}>>>> ELSE <<>>)
    \o (IF 2 \in nonblocking THEN <<<<"non", {2}>>>> ELSE <<>>)

Helpers == {Socket, Accept1, OpenCloexec, Dup2, Mkstemp} \union {Pair(S) : S \in SUBSET Ends}

\* steps are those a thread has still to do; open, exec, non are the descriptors that are open,
\* not inherited, non-blocking; children are those an unrelated child got.
\* tcp is a TCP handle: its socket's options, its flags, whether its socket is bound.
Init == \E helper \in Helpers : des =
    [helper |-> helper, steps |-> helper, open |-> {}, exec |-> {}, non |-> {}, result |-> "none",
     lock |-> FALSE, children |-> {}, others |-> {},
     fd |-> FALSE, flags |-> {}, set |-> {}, listed |-> FALSE]

-----------------------------------------------------------------------------
(* The helpers *)

\* Mutant: only the descriptor that could not be set up is closed.
ThatOne(d, step) == d.open \ step[2]

\* What is still open after a step failed: every helper closes what it made.
LeftOpen(d, step) == d.open \ Ends

\* One step, or its failure; uv__fs_mkstemp unlocks after one as well.
Step ==
    /\ des.result = "none" /\ des.steps # <<>>
    /\ LET step == Head(des.steps)
           rest == Tail(des.steps)
           on == [des EXCEPT !.steps = rest,
                   !.open = IF step[1] \in {"make", "atomic"} THEN step[2] ELSE @,
                   !.exec = IF step[1] \in {"exec", "atomic"} THEN @ \union step[2] ELSE @,
                   !.non = IF step[1] = "non" THEN @ \union step[2] ELSE @,
                   !.lock = (@ \/ step[1] = "lock") /\ step[1] # "unlock",
                   !.result = IF rest = <<>> THEN "given" ELSE @]
       IN \/ des' = on
          \/ /\ step[1] \notin {"lock", "unlock"}
             /\ des' = [des EXCEPT !.steps = <<>>, !.result = "failed", !.lock = FALSE,
                                   !.open = LeftOpen(des, step)]

\* Mutant: uv_spawn forks without the lock.
AtAnyTime(d) == TRUE

\* uv__spawn_and_init_child forks with loop->cloexec_lock held for writing.
MayFork(d) == ~d.lock

\* A child of uv_spawn on the same loop, by fork and exec; and one of another loop, whose lock is
\* another one.
Spawn ==
    /\ MayFork(des)
    /\ des' = [des EXCEPT !.children = @ \union (des.open \ des.exec)]

SpawnElsewhere == des' = [des EXCEPT !.others = @ \union (des.open \ des.exec)]

-----------------------------------------------------------------------------
(* A TCP handle *)

\* uv__tcp_nodelay and uv__tcp_keepalive on the socket, if there is one, and the flag.
Option(o, on) ==
    /\ des.listed
    /\ LET with(S) == IF on THEN S \union {o} ELSE S \ {o}
       IN des' = [des EXCEPT !.flags = with(@), !.set = IF des.fd THEN with(@) ELSE @]

\* Mutant: uv__stream_open does not look at the flags.
Plain(flags) == {}

\* The options uv__stream_open sets on the socket that a handle gets.
Carried(flags) == flags

\* uv_tcp_init_ex without a domain; with one the socket is made at once, by new_socket, and
\* when that fails the handle is taken out of the loop's queue again.
TcpInit(domain, ok) ==
    /\ ~des.listed
    /\ des' = [des EXCEPT !.listed = ~domain \/ ok, !.fd = domain /\ ok, !.flags = {}, !.set = {}]

\* maybe_new_socket from uv_bind, uv_listen or a connect, and uv_tcp_open of a socket that no
\* other handle of the loop has; a failure on the way leaves the handle as it was.
GetsSocket ==
    /\ des.listed /\ ~des.fd
    /\ des' = [des EXCEPT !.fd = TRUE, !.set = Carried(des.flags)]

TcpClose == des.listed /\ des' = [des EXCEPT !.listed = FALSE, !.fd = FALSE]

Next ==
    \/ Step \/ Spawn \/ SpawnElsewhere \/ GetsSocket \/ TcpClose
    \/ \E o \in Options, on \in BOOLEAN : Option(o, on)
    \/ \E domain, ok \in BOOLEAN : TcpInit(domain, ok)

Spec == Init /\ [][Next]_des

-----------------------------------------------------------------------------
(* Properties *)

TypeOK ==
    /\ des.open \subseteq Ends /\ des.exec \subseteq Ends /\ des.flags \subseteq Options
    /\ des.result \in {"none", "given", "failed"}

Wanted == {step[2] : step \in {des.helper[i] : i \in {j \in DOMAIN des.helper :
                                                          des.helper[j][1] = "non"}}}

\* A helper gives every descriptor it made, not inherited and non-blocking as asked, or, when
\* a step failed, none: whatever step that was, no descriptor stays open.
ClosedIsClean ==
    /\ des.result = "failed" => des.open = {} /\ ~des.lock
    /\ des.result = "given" => /\ des.open # {} /\ des.open \subseteq des.exec
                               /\ UNION Wanted \subseteq des.non /\ ~des.lock

\* A child does not get a descriptor of a temporary file that its own loop was making, nor one
\* made with O_CLOEXEC; what other helpers make, or other loops, it may get.
NoDescriptorLost ==
    /\ des.helper \in {Mkstemp, OpenCloexec} => des.children = {}
    /\ des.helper = OpenCloexec => des.others = {}

\* The socket of a handle has the options that were set on the handle, whether before or after
\* it was made.
ToldTheTruth == des.fd => des.set = des.flags
=============================================================================
