----------------------------- MODULE MCDispatch -----------------------------
(* Small instances of Dispatch for TLC. *)
EXTENDS Dispatch, TLC

\* Workers are interchangeable: no property names one. Jobs are not, because
\* only some of them are priced.
WorkerSymmetry == Permutations(Worker)
=============================================================================
