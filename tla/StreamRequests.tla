----------------------------- MODULE StreamRequests -----------------------------
(***************************************************************************)
(* What a stream promises for its requests: the connection is answered     *)
(* first; writes are transmitted and answered in the order they were made, *)
(* each once, with success exactly if all of it went out; the connection   *)
(* is shut down for writing when nothing is left to transmit; and every    *)
(* request is answered in the end.                                         *)
(***************************************************************************)
EXTENDS Naturals, Sequences

CONSTANT Writes

VARIABLES
    connection,  \* "none", "asked", "answered"
    unsent,      \* the writes that are to be transmitted
    unanswered,  \* the writes that are to be answered
    sent,        \* the writes that have been transmitted
    verdict,     \* [Writes]: "none", "ok", "failed"
    end          \* the shutdown: "no", "asked", "answered"

writes == <<unsent, unanswered, sent, verdict>>
requests == <<connection, writes, end>>

Init ==
    /\ connection \in {"none", "answered"}
    /\ unsent = <<>> /\ unanswered = <<>> /\ sent = {}
    /\ verdict = [w \in Writes |-> "none"]
    /\ end = "no"

Connect ==
    /\ connection = "none" /\ connection' = "asked"
    /\ UNCHANGED <<writes, end>>

AnswerConnect ==
    /\ connection = "asked" /\ connection' = "answered"
    /\ UNCHANGED <<writes, end>>

Write(w) ==
    /\ connection # "none" /\ end = "no"
    /\ \A i \in DOMAIN unanswered : unanswered[i] # w
    /\ w \notin sent /\ verdict[w] = "none"
    /\ unsent' = Append(unsent, w) /\ unanswered' = Append(unanswered, w)
    /\ UNCHANGED <<connection, sent, verdict, end>>

\* The first write goes out, or will not be.
Send ==
    /\ connection = "answered" /\ end # "answered" /\ unsent # <<>>
    /\ unsent' = Tail(unsent)
    /\ sent' \in {sent, sent \union {Head(unsent)}}
    /\ UNCHANGED <<connection, unanswered, verdict, end>>

\* The stream fails or is closed.
GiveUp ==
    /\ connection = "answered" /\ unsent' = <<>>
    /\ UNCHANGED <<connection, unanswered, sent, verdict, end>>

Answer ==
    /\ unanswered # <<>>
    /\ Len(unsent) < Len(unanswered)
    /\ LET w == Head(unanswered) IN
        verdict' = [verdict EXCEPT ![w] = IF w \in sent THEN "ok" ELSE "failed"]
    /\ unanswered' = Tail(unanswered)
    /\ UNCHANGED <<connection, unsent, sent, end>>

Shutdown ==
    /\ connection # "none" /\ end = "no" /\ end' = "asked"
    /\ UNCHANGED <<connection, writes>>

AnswerShutdown ==
    /\ end = "asked" /\ connection = "answered" /\ unsent = <<>>
    /\ end' = "answered"
    /\ UNCHANGED <<connection, writes>>

Next ==
    \/ Connect \/ AnswerConnect \/ \E w \in Writes : Write(w)
    \/ Send \/ GiveUp \/ Answer \/ Shutdown \/ AnswerShutdown

Fairness ==
    /\ WF_requests(AnswerConnect) /\ WF_requests(Send \/ GiveUp)
    /\ WF_requests(Answer) /\ WF_requests(AnswerShutdown)

Spec == Init /\ [][Next]_requests /\ Fairness
=============================================================================
