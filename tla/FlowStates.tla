------------------------------ MODULE FlowStates ------------------------------
(***************************************************************************)
(* What the flow table promises about the life of one flow (spec 4.2 and  *)
(* 5): a digest with no record gets a new one; detection of a new flow    *)
(* may conclude; a flow is expired once, either directly (its detection   *)
(* is complete, or no detection thread owns it) or through one expiring   *)
(* pass of its detection thread; only an expired record is removed (a     *)
(* directly expired one possibly in the step that expires it), after      *)
(* which the digest may start a new flow.  Nothing ever goes back: a      *)
(* concluded flow is not detected again, an expiring flow does not        *)
(* conclude, and no record is removed before it is expired.               *)
(***************************************************************************)
CONSTANT Digests

VARIABLE state   \* digest -> its flow's stage

Stages == {"absent", "new", "complete", "expiring", "expired"}

\* Digest d moves from stage a to stage b; every other flow is unchanged.
Move(d, a, b) ==
    /\ state[d] = a
    /\ state' = [state EXCEPT ![d] = b]

Create(d)           == Move(d, "absent", "new")
Conclude(d)         == Move(d, "new", "complete")
StartExpiry(d)      == Move(d, "new", "expiring")
ExpireUndetected(d) == Move(d, "new", "expired")
Expire(d)           == Move(d, "complete", "expired")
FinishExpiry(d)     == Move(d, "expiring", "expired")
Remove(d)           == Move(d, "expired", "absent")

\* A flow expired directly is removed in the same step when nothing else
\* holds it: the sweep expires and erases it under one bucket lock, so
\* no other thread ever sees it expired.
ExpireAndRemove(d) ==
    /\ state[d] \in {"new", "complete"}
    /\ state' = [state EXCEPT ![d] = "absent"]

Init == state = [d \in Digests |-> "absent"]

Next ==
    \E d \in Digests :
        \/ Create(d) \/ Conclude(d) \/ StartExpiry(d) \/ ExpireUndetected(d)
        \/ Expire(d) \/ FinishExpiry(d) \/ Remove(d) \/ ExpireAndRemove(d)

Spec == Init /\ [][Next]_state

====
