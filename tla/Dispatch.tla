------------------------------ MODULE Dispatch ------------------------------
(***************************************************************************)
(* The dispatch core of the worker service: the rows of                    *)
(* worker_job_dispatches and worker_job_offers, the online flag of         *)
(* worker_presence and the ids of notification_outbox, with one action for *)
(* each handler of jobDispatch.js and pendingJob.js, the two handlers of   *)
(* marketplaceOperations.js that move a dispatch, and the deletion of a    *)
(* worker in workerDeletion.js.                                            *)
(*                                                                         *)
(* Every handler is one database transaction on one dispatch row, so it is *)
(* one atomic action here, but for the two that search for workers: they   *)
(* read who is free without a lock on anybody and open the offers later,   *)
(* and other jobs' handlers, heartbeats and deletions come in between. The *)
(* statements inside the transactions on one job and the row locks they    *)
(* take are the subject of DispatchLocks.                                  *)
(***************************************************************************)
EXTENDS Naturals, FiniteSets

CONSTANTS
    Job,              \* customer tasks; each gets at most one dispatch row
    Worker,           \* verified worker enrollments
    NoWorker,         \* accepted_worker_id IS NULL
    MaxReplacements,  \* MAX_REPLACEMENT_ATTEMPTS
    Priced            \* the jobs booked with a pricing_snapshot

ASSUME DispatchAssumption ==
    /\ IsFiniteSet(Worker)
    /\ NoWorker \notin Worker
    /\ MaxReplacements \in Nat
    /\ Priced \subseteq Job

VARIABLES
    status,           \* [Job -> JobStatus], "none" while there is no row
    acceptedBy,       \* accepted_worker_id
    due,              \* expires_at <= NOW()
    attempts,         \* replacement_attempts
    excluded,         \* excluded_worker_ids
    arrivalVerified,  \* arrival_verified_at IS NOT NULL
    cancellation,     \* the marketplace_cancellations row
    offer,            \* [Job -> [Worker -> OfferStatus]], "none": no row
    online,           \* worker_presence.online
    deleted,          \* workers whose worker_enrollments row was deleted
    outbox,           \* event ids ever inserted in notification_outbox
    searching,        \* jobs with a search that has read its candidates
    found             \* [Job -> SUBSET Worker], those candidates

jobVars == <<status, acceptedBy, due, attempts, excluded, arrivalVerified,
             cancellation>>
search == <<searching, found>>
vars == <<jobVars, offer, online, deleted, outbox, search>>

-----------------------------------------------------------------------------
(* Statuses and the worker's transition table *)

Active == {"accepted", "arrived", "started", "completion_requested"}
Terminal == {"completed", "cancelled", "expired"}
JobStatus == {"none", "offered"} \cup Active \cup Terminal
OfferStatus ==
    {"none", "offered", "accepted", "rejected", "expired", "cancelled"}

\* WORKER_JOB_TRANSITIONS: what the assigned worker may ask for next.
Transitions ==
    [accepted |-> {"arrived", "cancelled"},
     arrived  |-> {"started", "cancelled"},
     started  |-> {"completion_requested", "completed"}]

PreviousStatusesFor(next) ==
    {s \in DOMAIN Transitions : next \in Transitions[s]}

\* The statuses an assigned worker requests through the status route; the
\* request to cancel is CancelAndRematch.
WorkerProgress == {"arrived", "started", "completion_requested", "completed"}

-----------------------------------------------------------------------------
(* Notification ids: a hash of type, job and transition. The transition is *)
(* the worker for an assignment, the attempt for a worker cancellation and *)
(* a fixed word, the same for every repetition, for the rest.              *)

EventType == {"booking.created", "job.worker_assigned", "job.worker_cancelled",
              "job.customer_cancelled"} \cup WorkerProgress

\* Mutant of EventId: the worker is left out of the hash.
EventIdOfJobOnly(type, j, w, nth) ==
    [type |-> type, job |-> j, worker |-> NoWorker, nth |-> nth]

EventId(type, j, w, nth) == [type |-> type, job |-> j, worker |-> w, nth |-> nth]

\* INSERT ... ON CONFLICT(event_id) DO NOTHING.
Enqueue(e) == outbox' = outbox \cup {e}

-----------------------------------------------------------------------------
(* Matching *)

Busy(w) == \E j \in Job : status[j] \in Active /\ acceptedBy[j] = w

\* The part of the candidate query that depends on the dispatch state. The
\* rest of it (category, distance, position, token, freshness of the
\* heartbeat, LIMIT 50) picks an arbitrary subset of these workers.
Matchable(w) == online[w] /\ ~Busy(w)

\* Mutants of OpenOffersExpired: nothing is closed; or every answer but an
\* acceptance is overwritten.
OpenOffersKept(j) == offer[j]

AllButAcceptedExpired(j) ==
    [w \in Worker |-> IF offer[j][w] # "accepted" THEN "expired" ELSE offer[j][w]]

OpenOffersExpired(j) ==
    [w \in Worker |-> IF offer[j][w] = "offered" THEN "expired" ELSE offer[j][w]]

-----------------------------------------------------------------------------
TypeOK ==
    /\ status \in [Job -> JobStatus]
    /\ acceptedBy \in [Job -> Worker \cup {NoWorker}]
    /\ due \in [Job -> BOOLEAN]
    /\ attempts \in [Job -> Nat]
    /\ excluded \in [Job -> SUBSET Worker]
    /\ arrivalVerified \in [Job -> BOOLEAN]
    /\ cancellation \in [Job -> {"none", "free", "visit_fee"}]
    /\ offer \in [Job -> [Worker -> OfferStatus]]
    /\ online \in [Worker -> BOOLEAN]
    /\ deleted \subseteq Worker
    /\ outbox \subseteq [type : EventType, job : Job,
                         worker : Worker \cup {NoWorker}, nth : Nat]
    /\ searching \subseteq Job
    /\ found \in [Job -> SUBSET Worker]
    /\ \A j \in Job \ searching : found[j] = {}

Init ==
    /\ status = [j \in Job |-> "none"]
    /\ acceptedBy = [j \in Job |-> NoWorker]
    /\ due = [j \in Job |-> FALSE]
    /\ attempts = [j \in Job |-> 0]
    /\ excluded = [j \in Job |-> {}]
    /\ arrivalVerified = [j \in Job |-> FALSE]
    /\ cancellation = [j \in Job |-> "none"]
    /\ offer = [j \in Job |-> [w \in Worker |-> "none"]]
    /\ online = [w \in Worker |-> FALSE]
    /\ deleted = {}
    /\ outbox = {}
    /\ searching = {}
    /\ found = [j \in Job |-> {}]

-----------------------------------------------------------------------------
(* A search: its transaction has the dispatch row, new or locked, when it  *)
(* reads the candidates, and keeps the other handlers off the row until it *)
(* ends. It locks no worker.                                               *)

RowIsFree(j) == j \notin searching

ReadCandidates(j, eligible) ==
    /\ RowIsFree(j)
    /\ searching' = searching \cup {j}
    /\ \E candidates \in SUBSET eligible : found' = [found EXCEPT ![j] = candidates]
    /\ UNCHANGED <<jobVars, offer, online, deleted, outbox>>

EndSearch(j) ==
    /\ searching' = searching \ {j}
    /\ found' = [found EXCEPT ![j] = {}]

\* An offer names its worker by a foreign key: the commit needs every candidate
\* to be enrolled still, and nothing else of what was read.
FoundAreEnrolled(j) == found[j] \cap deleted = {}

\* That key, or any other failure, rolls the search back.
SearchFails(j) ==
    /\ j \in searching
    /\ EndSearch(j)
    /\ UNCHANGED <<jobVars, offer, online, deleted, outbox>>

-----------------------------------------------------------------------------
(* The customer books, polls, cancels and confirms *)

\* dispatchJob up to its candidates. A repeated request waits for the row and
\* then changes nothing.
FindCandidates(j) ==
    /\ status[j] = "none"
    /\ ReadCandidates(j, {w \in Worker : Matchable(w)})

\* dispatchJob commits: one row per customer task, and an offer to every
\* candidate.
DispatchJob(j) ==
    /\ j \in searching /\ FoundAreEnrolled(j)
    /\ status[j] = "none"
    /\ offer' = [offer EXCEPT ![j] =
                   [w \in Worker |-> IF w \in found[j] THEN "offered" ELSE "none"]]
    /\ status' = [status EXCEPT ![j] = "offered"]
    /\ Enqueue(EventId("booking.created", j, NoWorker, 0))
    /\ EndSearch(j)
    /\ UNCHANGED <<acceptedBy, due, attempts, excluded, arrivalVerified,
                   cancellation, online, deleted>>

\* Mutant of GetDispatchStatus: a search that found nobody is never closed.
GetDispatchStatusWithOffers(j) ==
    /\ status[j] = "offered" /\ due[j]
    /\ \E w \in Worker : offer[j][w] = "offered"
    /\ status' = [status EXCEPT ![j] = "expired"]
    /\ UNCHANGED <<acceptedBy, due, attempts, excluded, arrivalVerified,
                   cancellation, offer, online, deleted, outbox, search>>

\* getDispatchStatus: polling a task expires its own overdue dispatch and
\* leaves its offers alone.
GetDispatchStatus(j) ==
    /\ status[j] = "offered" /\ due[j]
    /\ status' = [status EXCEPT ![j] = "expired"]
    /\ UNCHANGED <<acceptedBy, due, attempts, excluded, arrivalVerified,
                   cancellation, offer, online, deleted, outbox, search>>

\* Mutant of CancellationFee: a worker on the way is enough to owe the fee.
FeeOnceAssigned(j) == IF acceptedBy[j] # NoWorker THEN "visit_fee" ELSE "free"

\* calculateCancellation: the visit fee is owed when an arrival was verified.
CancellationFee(j) == IF arrivalVerified[j] THEN "visit_fee" ELSE "free"

\* updateJobStatusByCustomerTask with 'cancelled'. The assigned worker's id
\* stays in the row.
CustomerCancel(j) ==
    /\ RowIsFree(j)
    /\ status[j] \in {"offered"} \cup Active
    /\ status' = [status EXCEPT ![j] = "cancelled"]
    /\ offer' = [offer EXCEPT ![j] = [w \in Worker |->
                   IF offer[j][w] \in {"offered", "accepted"}
                   THEN "cancelled" ELSE offer[j][w]]]
    /\ cancellation' = IF j \in Priced /\ cancellation[j] = "none"
         THEN [cancellation EXCEPT ![j] = CancellationFee(j)]
         ELSE cancellation
    /\ IF acceptedBy[j] = NoWorker THEN UNCHANGED outbox
       ELSE Enqueue(EventId("job.customer_cancelled", j, NoWorker, 0))
    /\ UNCHANGED <<acceptedBy, due, attempts, excluded, arrivalVerified, online, deleted, search>>

\* updateJobStatusByCustomerTask with 'started': the customer sends a job
\* that awaits confirmation back to work.
CustomerResume(j) ==
    /\ status[j] \in {"completion_requested", "started"}
    /\ status' = [status EXCEPT ![j] = "started"]
    /\ offer' = [offer EXCEPT ![j] = OpenOffersExpired(j)]
    /\ UNCHANGED <<acceptedBy, due, attempts, excluded, arrivalVerified,
                   cancellation, online, deleted, outbox, search>>

\* reportRemainingWork, as far as the dispatch row goes.
ReportRemainingWork(j) ==
    /\ status[j] = "completion_requested"
    /\ status' = [status EXCEPT ![j] = "started"]
    /\ UNCHANGED <<acceptedBy, due, attempts, excluded, arrivalVerified,
                   cancellation, offer, online, deleted, outbox, search>>

\* confirmCompletion, as far as the dispatch row goes (its financial hold,
\* payment and time segments are in Marketplace).
ConfirmCompletion(j) ==
    /\ status[j] = "completion_requested"
    /\ status' = [status EXCEPT ![j] = "completed"]
    /\ UNCHANGED <<acceptedBy, due, attempts, excluded, arrivalVerified,
                   cancellation, offer, online, deleted, outbox, search>>

-----------------------------------------------------------------------------
(* The worker answers offers, works and cancels *)

\* Mutant of CanRespond: the dispatch may have run out.
CanRespondLate(j, w) ==
    offer[j][w] = "offered" /\ status[j] \in {"offered", "expired"}

\* respondToJob requires an offer that is still open on a dispatch that is
\* still open and not overdue.
CanRespond(j, w) ==
    /\ offer[j][w] = "offered"
    /\ status[j] = "offered"
    /\ ~due[j]

RejectJob(j, w) ==
    /\ CanRespond(j, w)
    /\ offer' = [offer EXCEPT ![j][w] = "rejected"]
    /\ UNCHANGED <<jobVars, online, deleted, outbox, search>>

\* The first worker to claim the row gets it; the other open offers expire.
AcceptJob(j, w) ==
    /\ CanRespond(j, w)
    /\ status' = [status EXCEPT ![j] = "accepted"]
    /\ acceptedBy' = [acceptedBy EXCEPT ![j] = w]
    /\ offer' = [offer EXCEPT ![j] = [OpenOffersExpired(j) EXCEPT ![w] = "accepted"]]
    /\ Enqueue(EventId("job.worker_assigned", j, w, 0))
    /\ UNCHANGED <<due, attempts, excluded, arrivalVerified, cancellation, online, deleted, search>>

\* updateJobStatusByWorker. Reporting an arrival also needs a recent position
\* near the job, which an online worker may or may not have.
UpdateJobStatusByWorker(j, w, next) ==
    /\ RowIsFree(j)
    /\ acceptedBy[j] = w
    /\ status[j] \in PreviousStatusesFor(next)
    /\ next = "arrived" => online[w]
    /\ status' = [status EXCEPT ![j] = next]
    /\ arrivalVerified' =
         [arrivalVerified EXCEPT ![j] = arrivalVerified[j] \/ next = "arrived"]
    /\ Enqueue(EventId(next, j, NoWorker, 0))
    /\ UNCHANGED <<acceptedBy, due, attempts, excluded, cancellation, offer, online,
                   deleted, search>>

\* Who a replacement search may offer the job to, after w gave it up.
Replacements(j, w) ==
    {v \in Worker : /\ Matchable(v)
                    /\ v \notin excluded[j] \cup {w}
                    /\ offer[j][v] # "rejected"}

\* Mutant of ReofferedTo: the offer of the worker who cancelled is forgotten.
ReofferedKeepingOwn(candidates, j, w) ==
    [v \in Worker |->
        IF v \in candidates /\ offer[j][v] \notin {"rejected", "cancelled"}
        THEN "offered" ELSE offer[j][v]]

\* The upsert of the replacement offers revives an expired offer only.
ReofferedTo(candidates, j, w) ==
    [v \in Worker |->
        IF v = w THEN "cancelled"
        ELSE IF v \in candidates /\ offer[j][v] \notin {"rejected", "cancelled"}
             THEN "offered" ELSE offer[j][v]]

\* Mutant of CanRematch: off by one.
CanRematchOnceMore(nth) == nth <= MaxReplacements + 1

CanRematch(nth) == nth <= MaxReplacements

\* cancelAndRematchJob up to its candidates: the assigned worker gives the job
\* up before starting.
FindReplacements(j, w) ==
    /\ acceptedBy[j] = w
    /\ status[j] \in PreviousStatusesFor("cancelled")
    /\ CanRematch(attempts[j] + 1)
    /\ ReadCandidates(j, Replacements(j, w))

\* cancelAndRematchJob commits, without a search when the limit is used up. A
\* retry after the cancellation went through changes nothing.
CancelAndRematch(j, w) ==
    LET nth == attempts[j] + 1
        canRematch == CanRematch(nth)
    IN  /\ j \in searching <=> canRematch
        /\ FoundAreEnrolled(j)
        /\ acceptedBy[j] = w
        /\ status[j] \in PreviousStatusesFor("cancelled")
        /\ status' = [status EXCEPT ![j] = IF canRematch THEN "offered" ELSE "expired"]
        /\ acceptedBy' = [acceptedBy EXCEPT ![j] = NoWorker]
        /\ attempts' = [attempts EXCEPT ![j] = nth]
        /\ excluded' = [excluded EXCEPT ![j] = @ \cup {w}]
        /\ due' = [due EXCEPT ![j] = ~canRematch]
        /\ offer' = [offer EXCEPT ![j] = ReofferedTo(found[j], j, w)]
        /\ Enqueue(EventId("job.worker_cancelled", j, NoWorker, nth))
        /\ EndSearch(j)
        /\ UNCHANGED <<arrivalVerified, cancellation, online, deleted>>

\* Mutant of Overdue: the clock alone decides.
OverdueWhateverStatus == {j \in Job : due[j]}

Overdue == {j \in Job : status[j] = "offered" /\ due[j]}

\* getPendingWorkerJob: any worker's recovery poll expires every overdue
\* dispatch and closes the open offers of every expired dispatch. Its two
\* statements commit separately; what others see between them is reached here
\* too, by a GetDispatchStatus of each overdue job before this step.
GetPendingWorkerJob ==
    /\ status' = [j \in Job |-> IF j \in Overdue THEN "expired" ELSE status[j]]
    /\ offer' = [j \in Job |-> IF status[j] = "expired" \/ j \in Overdue
                               THEN OpenOffersExpired(j) ELSE offer[j]]
    /\ UNCHANGED <<acceptedBy, due, attempts, excluded, arrivalVerified,
                   cancellation, online, deleted, outbox, search>>

-----------------------------------------------------------------------------
(* Presence, accounts and time *)

\* updatePresence finds the worker by a verified enrollment.
GoOnline(w) ==
    /\ w \notin deleted
    /\ online' = [online EXCEPT ![w] = TRUE]
    /\ UNCHANGED <<jobVars, offer, deleted, outbox, search>>

\* updatePresence refuses to take a worker with an active job offline. The
\* check and the write are two statements; a worker who accepts a job in between
\* is switched off as by RetireToken.
GoOffline(w) ==
    /\ w \notin deleted
    /\ ~Busy(w)
    /\ online' = [online EXCEPT ![w] = FALSE]
    /\ UNCHANGED <<jobVars, offer, deleted, outbox, search>>

\* A push answered with a definitive registration error retires the token and
\* switches the worker offline, whatever the worker is doing.
RetireToken(w) ==
    /\ online[w]
    /\ online' = [online EXCEPT ![w] = FALSE]
    /\ UNCHANGED <<jobVars, offer, deleted, outbox, search>>

\* The deletion updates the rows that name the worker.
RowsAreFree(w) == \A j \in searching : acceptedBy[j] # w /\ w \notin excluded[j]

\* Mutant of DeleteWorker: jobs that are over keep their worker.
DeleteWorkerOfActiveJobs(w) ==
    /\ w \notin deleted /\ RowsAreFree(w)
    /\ status' = [j \in Job |-> IF acceptedBy[j] = w /\ status[j] \in Active
                               THEN "cancelled" ELSE status[j]]
    /\ acceptedBy' = [j \in Job |-> IF acceptedBy[j] = w /\ status[j] \in Active
                                   THEN NoWorker ELSE acceptedBy[j]]
    /\ excluded' = [j \in Job |-> excluded[j] \ {w}]
    /\ offer' = [j \in Job |-> [offer[j] EXCEPT ![w] = "none"]]
    /\ online' = [online EXCEPT ![w] = FALSE]
    /\ deleted' = deleted \cup {w}
    /\ UNCHANGED <<due, attempts, arrivalVerified, cancellation, outbox, search>>

\* permanentlyDeleteWorker: the worker's active jobs are cancelled, every
\* dispatch forgets the worker, and the offers and the presence go with the
\* enrollment (ON DELETE CASCADE). The database refuses it when a requirement,
\* a payment or another marketplace row names the worker; here any worker may
\* be deleted.
DeleteWorker(w) ==
    /\ w \notin deleted /\ RowsAreFree(w)
    /\ status' = [j \in Job |-> IF acceptedBy[j] = w /\ status[j] \in Active
                               THEN "cancelled" ELSE status[j]]
    /\ acceptedBy' = [j \in Job |-> IF acceptedBy[j] = w THEN NoWorker ELSE acceptedBy[j]]
    /\ excluded' = [j \in Job |-> excluded[j] \ {w}]
    /\ offer' = [j \in Job |-> [offer[j] EXCEPT ![w] = "none"]]
    /\ online' = [online EXCEPT ![w] = FALSE]
    /\ deleted' = deleted \cup {w}
    /\ UNCHANGED <<due, attempts, arrivalVerified, cancellation, outbox, search>>

\* Two minutes pass since the search began, whatever became of it.
Lapse(j) ==
    /\ status[j] # "none" /\ ~due[j]
    /\ due' = [due EXCEPT ![j] = TRUE]
    /\ UNCHANGED <<status, acceptedBy, attempts, excluded, arrivalVerified,
                   cancellation, offer, online, deleted, outbox, search>>

-----------------------------------------------------------------------------
CustomerNext(j) ==
    \/ FindCandidates(j) \/ DispatchJob(j)
    \/ GetDispatchStatus(j)
    \/ CustomerCancel(j)
    \/ CustomerResume(j)
    \/ ReportRemainingWork(j)
    \/ ConfirmCompletion(j)

WorkerNext(j, w) ==
    \/ RejectJob(j, w)
    \/ AcceptJob(j, w)
    \/ \E next \in WorkerProgress : UpdateJobStatusByWorker(j, w, next)
    \/ FindReplacements(j, w) \/ CancelAndRematch(j, w)

PresenceNext(w) == GoOnline(w) \/ GoOffline(w) \/ RetireToken(w)

Next ==
    \/ \E j \in Job : CustomerNext(j) \/ Lapse(j) \/ SearchFails(j)
    \/ \E j \in Job, w \in Worker : WorkerNext(j, w)
    \/ \E w \in Worker : PresenceNext(w) \/ DeleteWorker(w)
    \/ GetPendingWorkerJob

Spec == Init /\ [][Next]_vars

\* The clock runs, and the booking screen polls the dispatch every two
\* seconds while it searches (BookingController._watchDispatch).
Polling == \A j \in Job : WF_vars(Lapse(j)) /\ WF_vars(GetDispatchStatus(j))

FairSpec == Spec /\ Polling

-----------------------------------------------------------------------------
(* Properties *)

\* The dispatch row and its offers tell the same story: a job somebody works
\* on has a worker; that job, or one that is finished, has exactly one accepted
\* offer and it is the assigned worker's (none when the worker is gone); a job
\* that is searched for, or whose search ended, has no assigned worker and no
\* accepted offer; a cancelled job has no live offer.
AssignmentConsistent ==
    \A j \in Job :
        /\ status[j] \in Active => acceptedBy[j] \in Worker
        /\ status[j] \in Active \cup {"completed"} =>
              \A w \in Worker : offer[j][w] = "accepted" <=> w = acceptedBy[j]
        /\ status[j] \in {"none", "offered", "expired"} =>
              /\ acceptedBy[j] = NoWorker
              /\ \A w \in Worker : offer[j][w] # "accepted"
        /\ status[j] = "cancelled" =>
              \A w \in Worker : offer[j][w] \notin {"offered", "accepted"}

\* A worker may only see an open offer while the search is on, or after it
\* ran out and before the next recovery poll closes it; nobody holds an open
\* offer of a job that somebody else is doing.
OpenOffersAreLive ==
    \A j \in Job, w \in Worker :
        offer[j][w] = "offered" => status[j] \in {"offered", "expired"}

\* A worker who gave the job up is out of it for good: the offer stays
\* cancelled and the job is never assigned to that worker again, through any
\* number of replacement searches.
GivenUpForGood ==
    \A j \in Job : \A w \in excluded[j] :
        offer[j][w] = "cancelled" /\ acceptedBy[j] # w

\* Each replacement search was started by a different worker, still excluded or
\* deleted since; the searches stay within the configured limit, and going over
\* it ends the job.
ReplacementBudget ==
    \A j \in Job :
        /\ IsFiniteSet(excluded[j])
        /\ Cardinality(excluded[j]) <= attempts[j]
        /\ attempts[j] <= Cardinality(excluded[j]) + Cardinality(deleted)
        /\ attempts[j] <= MaxReplacements + 1
        /\ attempts[j] > MaxReplacements => status[j] = "expired"

\* "Terminal jobs cannot be revived": neither by the worker, nor by the
\* customer, nor by a poll that arrives late.
TerminalIsFinal ==
    [][\A j \in Job : status[j] \in Terminal => status'[j] = status[j]]_status

\* A worker who declined a job is not asked again, whatever happens to it.
RejectionIsFinal ==
    [][\A j \in Job, w \in Worker :
          offer[j][w] = "rejected" =>
              offer'[j][w] = "rejected" \/ w \in deleted']_offer

\* A job never passes from one worker to another directly: the first must have
\* given it up, and is then excluded from the search that follows, or be
\* deleted, and then the job is over.
HandoverOnlyByRelease ==
    [][\A j \in Job :
          acceptedBy[j] \in Worker /\ acceptedBy'[j] # acceptedBy[j] =>
              /\ acceptedBy'[j] = NoWorker
              /\ \/ /\ acceptedBy[j] \in excluded'[j]
                    /\ status'[j] \in {"offered", "expired"}
                 \/ /\ acceptedBy[j] \in deleted'
                    /\ status'[j] \in {"completed", "cancelled"}]_acceptedBy

\* Every assignment is announced under an id of its own, so the outbox never
\* swallows the message that tells the customer who is coming.
EveryAssignmentAnnounced ==
    [][\A j \in Job :
          acceptedBy'[j] \in Worker /\ acceptedBy[j] = NoWorker =>
              \E e \in outbox' \ outbox :
                  e.type = "job.worker_assigned" /\ e.job = j]_vars

\* A worker whose assignment was announced has taken the job, and so can never
\* take it again: the offer is accepted or cancelled from then on, until the
\* worker is deleted.
AnnouncedOnce ==
    \A e \in outbox : e.type = "job.worker_assigned" =>
        /\ status[e.job] # "none"
        /\ e.worker \in Worker
        /\ \/ offer[e.job][e.worker] \in {"accepted", "cancelled"}
           \/ e.worker \in deleted

\* A deletion is permanent: nothing in the dispatch tables names the worker and
\* no search or heartbeat brings the worker back.
DeletedLeaveNoTrace ==
    \A w \in deleted :
        /\ ~online[w]
        /\ \A j \in Job :
              offer[j][w] = "none" /\ acceptedBy[j] # w /\ w \notin excluded[j]

\* What a cancellation costs is what the customer could expect: the visit fee if
\* an arrival for the job was announced, and nothing if none was. The arrival
\* counts for good, also when the worker who came has given the job up since.
FeeFollowsArrival ==
    \A j \in Job : cancellation[j] # "none" =>
        (cancellation[j] = "visit_fee" <=> EventId("arrived", j, NoWorker, 0) \in outbox)

\* "Worker already has an active job" makes a worker unavailable, so a worker
\* has at most one. The code checks it when it makes offers, not when a worker
\* accepts one: this does not hold.
AtMostOneActiveJob ==
    \A i, j \in Job :
        /\ status[i] \in Active /\ status[j] \in Active
        /\ acceptedBy[i] = acceptedBy[j]
        => i = j

\* The search for a worker, replacement searches included, ends.
SearchEnds == \A j \in Job : <>[](status[j] # "offered")

\* A task that was never dispatched has no trace of a search. With the parts
\* above it makes the invariant inductive.
UndispatchedIsBlank ==
    \A j \in Job : status[j] = "none" =>
        /\ attempts[j] = 0 /\ excluded[j] = {}
        /\ \A w \in Worker : offer[j][w] = "none"

DispatchInv ==
    /\ TypeOK
    /\ AssignmentConsistent
    /\ OpenOffersAreLive
    /\ GivenUpForGood
    /\ ReplacementBudget
    /\ AnnouncedOnce
    /\ DeletedLeaveNoTrace
    /\ UndispatchedIsBlank

-----------------------------------------------------------------------------
(* Dispatch implements JobAssignment *)

Phase ==
    [j \in Job |-> IF status[j] = "none" THEN "unposted"
                   ELSE IF status[j] = "offered" THEN "open"
                   ELSE IF status[j] \in Active THEN "assigned"
                   ELSE "closed"]

Assignment == INSTANCE JobAssignment
    WITH phase <- Phase, holder <- acceptedBy, releases <- attempts,
         released <- excluded, gone <- deleted

ImplementsAssignment == Assignment!Spec

Offers(j) == INSTANCE JobOffers
    WITH status <- status[j], holder <- acceptedBy[j], releases <- attempts[j],
         released <- excluded[j], offer <- offer[j], gone <- deleted

\* For each job by itself every handler, also one that is about all jobs or
\* about a worker, is one request for its row and offers, or does nothing to them.
ImplementsJobOffers ==
    /\ \A j \in Job : Offers(j)!Init
    /\ [][\A j \in Job : [Offers(j)!Next]_(Offers(j)!vars)]_<<jobVars, offer, deleted>>

Lifecycle(j) == INSTANCE JobLifecycle WITH stage <- status[j]

\* Whoever moves a job, the customer, a worker or another worker's poll, and
\* however the requests interleave, it goes through the stages in order.
ImplementsLifecycle ==
    /\ \A j \in Job : Lifecycle(j)!Init
    /\ [][\A j \in Job : [Lifecycle(j)!Next]_(status[j])]_status
=============================================================================
