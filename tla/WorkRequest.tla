------------------------------ MODULE WorkRequest ------------------------------
(***************************************************************************)
(* What libuv promises for a request handed to its worker pool, whatever   *)
(* threads, queues and locks it takes: it is executed or cancelled, never  *)
(* both, and delivered once with a verdict that says which.                *)
(***************************************************************************)
CONSTANT Reqs

VARIABLES phase, verdict

Init == /\ phase = [r \in Reqs |-> "idle"]
        /\ verdict = [r \in Reqs |-> "none"]

Move(r, from, to) ==
    /\ phase[r] = from
    /\ phase' = [phase EXCEPT ![r] = to]

\* A request may be submitted again once it has been delivered.
Submit(r) ==
    /\ Move(r, "idle", "queued") \/ Move(r, "delivered", "queued")
    /\ verdict' = [verdict EXCEPT ![r] = "none"]

Start(r) == Move(r, "queued", "running") /\ UNCHANGED verdict
Finish(r) == Move(r, "running", "finished") /\ UNCHANGED verdict
Cancel(r) == Move(r, "queued", "cancelled") /\ UNCHANGED verdict

Deliver(r) ==
    \/ /\ Move(r, "finished", "delivered")
       /\ verdict' = [verdict EXCEPT ![r] = "ok"]
    \/ /\ Move(r, "cancelled", "delivered")
       /\ verdict' = [verdict EXCEPT ![r] = "canceled"]

\* In the child of a fork the pool's threads and queues are gone.
Lose(S) ==
    /\ \A r \in S : phase[r] \in {"queued", "running", "finished", "cancelled"}
    /\ phase' = [r \in Reqs |-> IF r \in S THEN "lost" ELSE phase[r]]
    /\ UNCHANGED verdict

Next ==
    \/ \E r \in Reqs : Submit(r) \/ Start(r) \/ Finish(r) \/ Cancel(r) \/ Deliver(r)
    \/ \E S \in SUBSET Reqs : Lose(S)

Spec == Init /\ [][Next]_<<phase, verdict>>
=============================================================================
