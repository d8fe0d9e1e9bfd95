---------------------------- MODULE JobLifecycle ----------------------------
(***************************************************************************)
(* The life of one job as its customer and worker see it, whichever table, *)
(* handler or actor moves it. Dispatch and Marketplace implement it.       *)
(***************************************************************************)
VARIABLE stage

Init == stage \in {"none", "offered"}

\* The search ends by itself; a worker who gives the job up before starting
\* reopens it or, the limit used up, ends it.
Search ==
    \/ stage = "none" /\ stage' = "offered"
    \/ stage = "offered" /\ stage' \in {"accepted", "expired"}
    \/ stage \in {"accepted", "arrived"} /\ stage' \in {"offered", "expired"}

\* Work only moves forward one stage at a time, except that the customer may
\* send a finished job back; an old app build finishes without review.
Work ==
    \/ stage = "accepted" /\ stage' = "arrived"
    \/ stage = "arrived" /\ stage' = "started"
    \/ stage = "started" /\ stage' \in {"completion_requested", "completed"}
    \/ stage = "completion_requested" /\ stage' \in {"started", "completed"}

\* The customer may cancel until the job is completed.
Cancel ==
    /\ stage \in {"offered", "accepted", "arrived", "started", "completion_requested"}
    /\ stage' = "cancelled"

Next == Search \/ Work \/ Cancel

Spec == Init /\ [][Next]_stage
=============================================================================
