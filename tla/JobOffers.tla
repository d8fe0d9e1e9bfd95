------------------------------ MODULE JobOffers ------------------------------
(***************************************************************************)
(* What the dispatch service promises about one job, its row and its       *)
(* offers together, as if its requests came one after the other: each      *)
(* request that has an effect is one step. Dispatch implements it for every *)
(* job, and DispatchLocks, whose requests overlap, for the one it has.     *)
(***************************************************************************)
EXTENDS Naturals

CONSTANTS Worker, NoWorker, MaxReplacements

VARIABLES
    status,    \* of the job, as in JobLifecycle
    holder,    \* the worker who has the job
    releases,  \* how often it was given back
    released,  \* the workers who gave it back
    offer,     \* what became of each worker's offer
    gone       \* the workers who left the service

vars == <<status, holder, releases, released, offer, gone>>

Lifecycle == INSTANCE JobLifecycle WITH stage <- status

Init ==
    /\ status = "none" /\ holder = NoWorker
    /\ releases = 0 /\ released = {}
    /\ offer = [w \in Worker |-> "none"]
    /\ gone = {}

\* The open offers expire.
Closed == [w \in Worker |-> IF offer[w] = "offered" THEN "expired" ELSE offer[w]]

Post ==
    /\ status = "none" /\ status' = "offered"
    /\ \E asked \in SUBSET (Worker \ gone) :
          offer' = [w \in Worker |-> IF w \in asked THEN "offered" ELSE "none"]
    /\ UNCHANGED <<holder, releases, released, gone>>

\* An answer that was on its way when the search ran out still counts.
Reject(w) ==
    /\ status \in {"offered", "expired"} /\ offer[w] = "offered"
    /\ offer' = [offer EXCEPT ![w] = "rejected"]
    /\ UNCHANGED <<status, holder, releases, released, gone>>

Accept(w) ==
    /\ status = "offered" /\ offer[w] = "offered"
    /\ status' = "accepted" /\ holder' = w
    /\ offer' = [Closed EXCEPT ![w] = "accepted"]
    /\ UNCHANGED <<releases, released, gone>>

Work ==
    /\ Lifecycle!Work
    /\ UNCHANGED <<holder, releases, released, offer, gone>>

\* While the limit allows one more, other workers are asked, but none who
\* declined the job or gave it up.
GiveUp ==
    LET again == releases < MaxReplacements
        others == {v \in Worker \ (gone \cup released \cup {holder}) :
                     again /\ offer[v] \notin {"rejected", "cancelled"}}
    IN  /\ status \in {"accepted", "arrived"}
        /\ status' = IF again THEN "offered" ELSE "expired"
        /\ holder' = NoWorker
        /\ releases' = releases + 1 /\ released' = released \cup {holder}
        /\ \E asked \in SUBSET others :
              offer' = [v \in Worker |-> IF v = holder THEN "cancelled"
                                         ELSE IF v \in asked THEN "offered" ELSE offer[v]]
        /\ UNCHANGED gone

Cancel ==
    /\ Lifecycle!Cancel
    /\ offer' = [w \in Worker |-> IF offer[w] \in {"offered", "accepted"}
                                  THEN "cancelled" ELSE offer[w]]
    /\ UNCHANGED <<holder, releases, released, gone>>

\* The search runs out, and its open offers with it or later.
Expire ==
    /\ status \in {"offered", "expired"} /\ status' = "expired"
    /\ offer' \in {offer, Closed}
    /\ UNCHANGED <<holder, releases, released, gone>>

\* A worker leaves the service, and the job ends if that worker was on it.
Leave(w) ==
    /\ w \notin gone /\ gone' = gone \cup {w}
    /\ IF holder = w
       THEN /\ holder' = NoWorker
            /\ status' = IF status = "completed" THEN status ELSE "cancelled"
       ELSE UNCHANGED <<holder, status>>
    /\ released' = released \ {w}
    /\ offer' = [offer EXCEPT ![w] = "none"]
    /\ UNCHANGED releases

Next ==
    \/ Post \/ Work \/ GiveUp \/ Cancel \/ Expire
    \/ \E w \in Worker : Reject(w) \/ Accept(w) \/ Leave(w)

Spec == Init /\ [][Next]_vars
=============================================================================
