--------------------------- MODULE JobAssignment ----------------------------
(***************************************************************************)
(* What the dispatch service promises about who does a job, without offers,*)
(* clocks, presence or statuses: a posted job is open until one worker     *)
(* takes it; the worker may give it back, at most MaxReplacements times for *)
(* the job as a whole and each worker once; a closed job stays closed with *)
(* the holder it had. A worker who leaves the service closes what he holds. *)
(***************************************************************************)
EXTENDS Naturals

CONSTANTS Job, Worker, NoWorker, MaxReplacements

VARIABLES
    phase,     \* [Job -> {"unposted", "open", "assigned", "closed"}]
    holder,    \* the worker who has the job
    releases,  \* how often it was given back
    released,  \* the workers who gave it back
    gone       \* the workers who left the service

vars == <<phase, holder, releases, released, gone>>

Init ==
    /\ phase = [j \in Job |-> "unposted"]
    /\ holder = [j \in Job |-> NoWorker]
    /\ releases = [j \in Job |-> 0]
    /\ released = [j \in Job |-> {}]
    /\ gone = {}

Post(j) ==
    /\ phase[j] = "unposted"
    /\ phase' = [phase EXCEPT ![j] = "open"]
    /\ UNCHANGED <<holder, releases, released, gone>>

Assign(j, w) ==
    /\ phase[j] = "open"
    /\ w \notin released[j] \cup gone
    /\ phase' = [phase EXCEPT ![j] = "assigned"]
    /\ holder' = [holder EXCEPT ![j] = w]
    /\ UNCHANGED <<releases, released, gone>>

\* The job goes back to the search while the limit allows one more.
Release(j) ==
    /\ phase[j] = "assigned"
    /\ phase' = [phase EXCEPT ![j] =
                   IF releases[j] < MaxReplacements
                   THEN "open" ELSE "closed"]
    /\ holder' = [holder EXCEPT ![j] = NoWorker]
    /\ releases' = [releases EXCEPT ![j] = @ + 1]
    /\ released' = [released EXCEPT ![j] = @ \cup {holder[j]}]
    /\ UNCHANGED gone

\* Jobs end, several at once when a poll finds their searches overdue.
Close(ended) ==
    /\ \A j \in ended : phase[j] \in {"open", "assigned"}
    /\ phase' = [j \in Job |-> IF j \in ended THEN "closed" ELSE phase[j]]
    /\ UNCHANGED <<holder, releases, released, gone>>

Leave(w) ==
    /\ w \notin gone
    /\ phase' = [j \in Job |-> IF phase[j] = "assigned" /\ holder[j] = w
                              THEN "closed" ELSE phase[j]]
    /\ holder' = [j \in Job |-> IF holder[j] = w THEN NoWorker ELSE holder[j]]
    /\ released' = [j \in Job |-> released[j] \ {w}]
    /\ gone' = gone \cup {w}
    /\ UNCHANGED releases

Next ==
    \/ \E j \in Job : Post(j) \/ Release(j)
    \/ \E j \in Job, w \in Worker : Assign(j, w)
    \/ \E w \in Worker : Leave(w)
    \/ \E ended \in SUBSET Job : Close(ended)

Spec == Init /\ [][Next]_vars
=============================================================================
