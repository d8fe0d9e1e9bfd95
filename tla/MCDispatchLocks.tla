-------------------------- MODULE MCDispatchLocks ---------------------------
(* Small instances of DispatchLocks for TLC. *)
EXTENDS DispatchLocks, TLC

\* Every kind of request; of the assigned worker's reports, which are the same
\* statement, the first.
AllKinds == {req \in Request : req.next \in {"none", "arrived"}}

\* Workers who answer their offers.
Answers == {req \in Request : req.kind \in {"accept", "reject"}}

\* Connections and workers are interchangeable.
LockSymmetry == Permutations(Session) \cup Permutations(Worker)
=============================================================================
