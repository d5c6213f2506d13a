----------------------------- MODULE MCManager -----------------------------
(* Instances of Manager for TLC. *)
EXTENDS Manager

AllKinds == {[e \in Entries |-> k] : k \in {"interval", "follow"}}
Pushes == {[e \in Entries |-> "manual"]}
\* A callback panics beside a push worker; a follower delivers its events
\* between two sessions, in the same way.
OnePanic == [k \in Kinds |-> IF \E e \in Entries : k[e] = "follow" THEN 0 ELSE 1]
NoPanic == [k \in Kinds |-> 0]
OnePath == [e \in Entries |-> "db"]
=============================================================================
