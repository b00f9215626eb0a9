------------------------------ MODULE AsyncEvents ------------------------------
(***************************************************************************)
(* What an async handle promises: a callback runs only for a call, several *)
(* calls may share one callback, and no call on an open handle goes        *)
(* without a callback that starts after it.                                *)
(***************************************************************************)
EXTENDS Naturals

CONSTANT Handles

VARIABLES
    phase,  \* [Handles]: "new", "open", "closing", "closed"
    calls   \* [Handles]: calls that are still to be answered

events == <<phase, calls>>

Init ==
    /\ phase \in [Handles -> {"new", "open"}]
    /\ calls = [h \in Handles |-> 0]

Open(h) ==
    /\ phase[h] = "new"
    /\ phase' = [phase EXCEPT ![h] = "open"]
    /\ UNCHANGED calls

Call(h) ==
    /\ phase[h] = "open"
    /\ calls' = [calls EXCEPT ![h] = @ + 1]
    /\ UNCHANGED phase

\* Two calls will be answered together.
Merge(h) ==
    /\ phase[h] = "open" /\ calls[h] >= 2
    /\ calls' = [calls EXCEPT ![h] = @ - 1]
    /\ UNCHANGED phase

\* The callback.
Fire(h) ==
    /\ phase[h] = "open" /\ calls[h] >= 1
    /\ calls' = [calls EXCEPT ![h] = @ - 1]
    /\ UNCHANGED phase

Close(h) ==
    /\ phase[h] = "open"
    /\ phase' = [phase EXCEPT ![h] = "closing"]
    /\ calls' = [calls EXCEPT ![h] = 0]

Closed(h) ==
    /\ phase[h] = "closing"
    /\ phase' = [phase EXCEPT ![h] = "closed"]
    /\ UNCHANGED calls

\* The process has forked: the child answers no call of its parent.
Forget ==
    /\ calls' = [h \in Handles |-> 0]
    /\ UNCHANGED phase

Next ==
    \/ \E h \in Handles : Open(h) \/ Call(h) \/ Merge(h) \/ Fire(h) \/ Close(h) \/ Closed(h)
    \/ Forget

Spec == Init /\ [][Next]_events /\ \A h \in Handles : WF_events(Fire(h))
=============================================================================
