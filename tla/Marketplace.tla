---------------------------- MODULE Marketplace -----------------------------
(***************************************************************************)
(* One dispatched job from the search to the rating: the tables of         *)
(* marketplaceTransaction.js and the handlers of marketplaceOperations.js, *)
(* together with what the dispatch handlers do to the same rows. Every     *)
(* handler locks the dispatch row first (FOR UPDATE) or, for a payment     *)
(* webhook, the attempt and its payment, and is one transaction.           *)
(*                                                                         *)
(* Amounts are counted in additional labours: an approved request adds one *)
(* to the original labour. Minutes and prices are not modelled here.       *)
(***************************************************************************)
EXTENDS Naturals, Sequences, FiniteSets

CONSTANTS
    Requirement,   \* requests for material or a special tool
    Extra,         \* requests for additional work
    Pause,         \* the worker's own requests for a time segment
    Incident,      \* the worker's safety reports
    Attempt        \* payment attempts

ASSUME MarketplaceAssumption == IsFiniteSet(Extra) /\ IsFiniteSet(Attempt)

VARIABLES
    status,        \* worker_job_dispatches.status
    assigned,      \* accepted_worker_id IS NOT NULL
    hold,          \* worker_job_dispatches.financial_hold
    segment,       \* the open row of marketplace_time_segments
    segmentKeys,   \* the idempotency keys of all its rows
    requirement,   \* marketplace_requirements.status
    extra,         \* marketplace_additional_work.status
    lapsed,        \* its expires_at <= NOW()
    versions,      \* the scope versions after the first: what each one added
    labour,        \* current_labour - original_labour
    payment,       \* marketplace_payments.status, "none": no row
    billed,        \* its approved_additional_labour
    payHold,       \* its financial_hold
    attempt,       \* marketplace_payment_attempts.status
    charges,       \* customer_charge rows of marketplace_ledger_entries
    earned,        \* a row of marketplace_worker_earnings exists
    rated          \* a row of marketplace_ratings exists

work == <<requirement, extra, lapsed, versions, labour>>
timing == <<segment, segmentKeys>>
money == <<payment, billed, payHold, attempt, charges, earned, rated>>
vars == <<status, assigned, hold, timing, work, money>>

Active == {"accepted", "arrived", "started", "completion_requested"}
JobStatus == {"offered", "completed", "cancelled", "expired"} \cup Active

-----------------------------------------------------------------------------
(* Time segments *)

\* The seven segment types differ here in one thing: time spent working is
\* billable, the rest is not.
SegmentType == {"working", "waiting"}

\* Which request a segment came from: its idempotency key. The segment the
\* start of the work opens has a random one.
Key == [of : {"requirement", "confirmation"}, id : Requirement]
       \cup [of : {"pause"}, id : Pause]
       \cup [of : {"incident"}, id : Incident]

KeyOf(kind, id) == [of |-> kind, id |-> id]

NoSegment == [type |-> "none", of |-> "none"]
WorkStarted == [type |-> "working", of |-> "start"]
SegmentOf(type, key) == [type |-> type, of |-> key.of, id |-> key.id]

Segment == {NoSegment, WorkStarted}
           \cup {SegmentOf(type, key) : type \in SegmentType, key \in Key}

IsOpen == segment # NoSegment

\* Mutant of ReplaceOpenSegment: the key is not looked up.
ReplaceOpenSegmentAlways(type, key) ==
    /\ segment' = SegmentOf(type, key)
    /\ segmentKeys' = segmentKeys \cup {key}

\* replaceOpenSegment: closes the open segment and opens another, unless the
\* request was served before.
ReplaceOpenSegment(type, key) ==
    IF key \in segmentKeys THEN UNCHANGED timing
    ELSE /\ segment' = SegmentOf(type, key)
         /\ segmentKeys' = segmentKeys \cup {key}

-----------------------------------------------------------------------------
Approved == {x \in Extra : extra[x] = "approved"}

TypeOK ==
    /\ status \in JobStatus
    /\ assigned \in BOOLEAN /\ hold \in BOOLEAN
    /\ segment \in Segment
    /\ segmentKeys \subseteq Key
    /\ requirement \in [Requirement ->
          {"none", "requested", "acknowledged", "arranged", "confirmed"}]
    /\ extra \in [Extra -> {"none", "pending", "approved", "declined"}]
    /\ lapsed \in [Extra -> BOOLEAN]
    /\ versions \in Seq(Extra)
    /\ labour \in Nat /\ billed \in Nat /\ charges \in Nat
    /\ payment \in {"none", "pending", "success", "failed"}
    /\ payHold \in BOOLEAN /\ earned \in BOOLEAN /\ rated \in BOOLEAN
    /\ attempt \in [Attempt -> {"none", "pending", "success", "failed"}]

Init ==
    /\ status = "offered" /\ assigned = FALSE /\ hold = FALSE
    /\ segment = NoSegment /\ segmentKeys = {}
    /\ requirement = [r \in Requirement |-> "none"]
    /\ extra = [x \in Extra |-> "none"]
    /\ lapsed = [x \in Extra |-> FALSE]
    /\ versions = <<>> /\ labour = 0
    /\ payment = "none" /\ billed = 0 /\ payHold = FALSE
    /\ attempt = [a \in Attempt |-> "none"]
    /\ charges = 0 /\ earned = FALSE /\ rated = FALSE

-----------------------------------------------------------------------------
(* The dispatch handlers (in full in Dispatch) *)

AcceptJob ==
    /\ status = "offered"
    /\ status' = "accepted" /\ assigned' = TRUE
    /\ UNCHANGED <<hold, timing, work, money>>

SearchExpires ==
    /\ status = "offered"
    /\ status' = "expired"
    /\ UNCHANGED <<assigned, hold, timing, work, money>>

CancelAndRematch ==
    /\ status \in {"accepted", "arrived"}
    /\ status' \in {"offered", "expired"}
    /\ assigned' = FALSE
    /\ UNCHANGED <<hold, timing, work, money>>

WorkerArrives ==
    /\ status = "accepted"
    /\ status' = "arrived"
    /\ UNCHANGED <<assigned, hold, timing, work, money>>

\* The working segment opens only where no segment is open yet.
WorkerStarts ==
    /\ status = "arrived"
    /\ status' = "started"
    /\ segment' = IF IsOpen THEN segment ELSE WorkStarted
    /\ UNCHANGED <<assigned, hold, segmentKeys, work, money>>

\* Mutant of WorkerRequestsCompletion: the open segment goes on.
RequestsCompletionTiming ==
    /\ status = "started"
    /\ status' = "completion_requested"
    /\ UNCHANGED <<assigned, hold, timing, work, money>>

WorkerRequestsCompletion ==
    /\ status = "started"
    /\ status' = "completion_requested"
    /\ segment' = NoSegment
    /\ UNCHANGED <<assigned, hold, segmentKeys, work, money>>

\* The route for older app builds: no payment, no hold check, and the open
\* segment stays open.
WorkerCompletes ==
    /\ status = "started"
    /\ status' = "completed"
    /\ UNCHANGED <<assigned, hold, timing, work, money>>

CustomerCancel ==
    /\ status \in {"offered"} \cup Active
    /\ status' = "cancelled"
    /\ UNCHANGED <<assigned, hold, timing, work, money>>

CustomerResume ==
    /\ status = "completion_requested"
    /\ status' = "started"
    /\ UNCHANGED <<assigned, hold, timing, work, money>>

\* permanentlyDeleteWorker: the job loses its worker and, unless it is over, is
\* cancelled. A requirement, a request for additional work or a payment names
\* the worker, and the database then refuses the deletion.
WorkerDeleted ==
    /\ assigned
    /\ \A r \in Requirement : requirement[r] = "none"
    /\ \A x \in Extra : extra[x] = "none"
    /\ payment = "none"
    /\ status' = IF status \in Active THEN "cancelled" ELSE status
    /\ assigned' = FALSE
    /\ UNCHANGED <<hold, timing, work, money>>

-----------------------------------------------------------------------------
(* Requirements and time segments *)

CreateRequirement(r) ==
    /\ assigned /\ status = "started"
    /\ requirement' = IF requirement[r] = "none"
                      THEN [requirement EXCEPT ![r] = "requested"] ELSE requirement
    /\ ReplaceOpenSegment("waiting", KeyOf("requirement", r))
    /\ UNCHANGED <<status, assigned, hold, extra, lapsed, versions, labour, money>>

\* The customer acknowledges or arranges what is missing, whatever the status.
UpdateRequirementByCustomer(r, answer) ==
    /\ requirement[r] \in (IF answer = "acknowledged" THEN {"requested", "acknowledged"}
                           ELSE {"requested", "acknowledged", "arranged"})
    /\ requirement' = [requirement EXCEPT ![r] = answer]
    /\ UNCHANGED <<status, assigned, hold, timing, extra, lapsed, versions, labour, money>>

\* The worker resumes: no status is required, only that the job has a worker.
ConfirmRequirementByWorker(r) ==
    /\ assigned
    /\ requirement[r] \in {"arranged", "confirmed"}
    /\ requirement' = [requirement EXCEPT ![r] = "confirmed"]
    /\ ReplaceOpenSegment("working", KeyOf("confirmation", r))
    /\ UNCHANGED <<status, assigned, hold, extra, lapsed, versions, labour, money>>

StartTimeSegment(p, type) ==
    /\ assigned /\ status = "started"
    /\ ReplaceOpenSegment(type, KeyOf("pause", p))
    /\ UNCHANGED <<status, assigned, hold, work, money>>

-----------------------------------------------------------------------------
(* Additional work and the scope *)

RequestAdditionalWork(x) ==
    /\ assigned /\ status = "started"
    /\ extra[x] = "none"
    /\ extra' = [extra EXCEPT ![x] = "pending"]
    /\ UNCHANGED <<status, assigned, hold, timing, requirement, lapsed, versions,
                   labour, money>>

\* Mutant of Decidable: a decision may be taken again.
DecidableAgain(x) == extra[x] \in {"pending", "approved"} /\ ~lapsed[x]

\* A decision needs a pending request that has not lapsed. (A late decision
\* also writes 'expired', in the transaction that its own error rolls back.)
Decidable(x) == extra[x] = "pending" /\ ~lapsed[x]

DeclineAdditionalWork(x) ==
    /\ Decidable(x)
    /\ extra' = [extra EXCEPT ![x] = "declined"]
    /\ UNCHANGED <<status, assigned, hold, timing, requirement, lapsed, versions,
                   labour, money>>

\* An approval adds a scope version and raises the agreed labour. The job may
\* be completed and billed by then.
ApproveAdditionalWork(x) ==
    /\ Decidable(x)
    /\ extra' = [extra EXCEPT ![x] = "approved"]
    /\ versions' = Append(versions, x)
    /\ labour' = labour + 1
    /\ UNCHANGED <<status, assigned, hold, timing, requirement, lapsed, money>>

Lapse(x) ==
    /\ extra[x] = "pending" /\ ~lapsed[x]
    /\ lapsed' = [lapsed EXCEPT ![x] = TRUE]
    /\ UNCHANGED <<status, assigned, hold, timing, requirement, extra, versions,
                   labour, money>>

-----------------------------------------------------------------------------
(* Review, holds and completion *)

\* Mutant of ReportRemainingWork: a completed job can be reopened too.
ReportRemainingWorkLate ==
    /\ status \in {"completion_requested", "completed"}
    /\ status' = "started"
    /\ UNCHANGED <<assigned, hold, timing, work, money>>

\* The job goes back to work; no segment is opened for it.
ReportRemainingWork ==
    /\ status = "completion_requested"
    /\ status' = "started"
    /\ UNCHANGED <<assigned, hold, timing, work, money>>

\* Both flags are set; the payment's only if it exists. Nothing clears them.
PlaceHold ==
    /\ hold' = TRUE
    /\ payHold' = (payHold \/ payment # "none")

\* createCase: a dispute or a customer's safety report, in any status.
CreateCase ==
    /\ PlaceHold
    /\ UNCHANGED <<status, assigned, timing, work, payment, billed, attempt, charges,
                   earned, rated>>

CreateWorkerSafetyCase(i) ==
    /\ assigned /\ status \in Active
    /\ PlaceHold
    /\ ReplaceOpenSegment("waiting", KeyOf("incident", i))
    /\ UNCHANGED <<status, assigned, work, payment, billed, attempt, charges, earned, rated>>

\* Mutant of Billable: requests nobody decided count as well.
BillableUndecided == {x \in Extra : extra[x] \in {"pending", "approved"}}

\* What confirmCompletion sums up: the approved additional labour.
Billable == Approved

\* Mutant of ConfirmCompletion: a repeated confirmation bills again.
ConfirmCompletionAgain ==
    /\ status \in {"completion_requested", "completed"}
    /\ ~hold
    /\ status' = "completed"
    /\ billed' = Cardinality(Billable) /\ labour' = Cardinality(Billable)
    /\ payment' = IF payment = "none" THEN "pending" ELSE payment
    /\ segment' = NoSegment
    /\ UNCHANGED <<assigned, hold, segmentKeys, requirement, extra, lapsed, versions,
                   payHold, attempt, charges, earned, rated>>

\* Mutant of ConfirmCompletion: the hold is not looked at.
ConfirmCompletionUnderReview ==
    /\ status = "completion_requested"
    /\ status' = "completed"
    /\ billed' = Cardinality(Billable) /\ labour' = Cardinality(Billable)
    /\ payment' = IF payment = "none" THEN "pending" ELSE payment
    /\ segment' = NoSegment
    /\ UNCHANGED <<assigned, hold, segmentKeys, requirement, extra, lapsed, versions,
                   payHold, attempt, charges, earned, rated>>

\* confirmCompletion bills the job once; a repetition finds it completed.
ConfirmCompletion ==
    /\ status = "completion_requested"
    /\ ~hold
    /\ status' = "completed"
    /\ billed' = Cardinality(Billable) /\ labour' = Cardinality(Billable)
    /\ payment' = IF payment = "none" THEN "pending" ELSE payment
    /\ segment' = NoSegment
    /\ UNCHANGED <<assigned, hold, segmentKeys, requirement, extra, lapsed, versions,
                   payHold, attempt, charges, earned, rated>>

-----------------------------------------------------------------------------
(* Payment and rating *)

\* Mutant of CreatePaymentAttempt: neither hold is looked at.
CreatePaymentAttemptUnderReview(a) ==
    /\ payment \notin {"none", "success"}
    /\ attempt[a] = "none"
    /\ attempt' = [attempt EXCEPT ![a] = "pending"]
    /\ UNCHANGED <<status, assigned, hold, timing, work, payment, billed, payHold,
                   charges, earned, rated>>

CreatePaymentAttempt(a) ==
    /\ payment \notin {"none", "success"}
    /\ ~payHold /\ ~hold
    /\ attempt[a] = "none"
    /\ attempt' = [attempt EXCEPT ![a] = "pending"]
    /\ UNCHANGED <<status, assigned, hold, timing, work, payment, billed, payHold,
                   charges, earned, rated>>

\* Mutant of Reconcilable: the attempt's own status is not looked at.
ReconcilableTwice(a) == attempt[a] # "none"

\* A webhook is applied to an attempt that is not final; the same result
\* delivered again changes nothing, and another result is refused.
Reconcilable(a) == attempt[a] = "pending"

ReconcileSuccess(a) ==
    /\ Reconcilable(a)
    /\ attempt' = [attempt EXCEPT ![a] = "success"]
    /\ payment' = "success"
    /\ charges' = charges + 1
    /\ earned' = TRUE
    /\ UNCHANGED <<status, assigned, hold, timing, work, billed, payHold, rated>>

\* Mutant of ReconcileFailure: the earning is written whatever the result.
ReconcileFailureEarns(a) ==
    /\ Reconcilable(a)
    /\ attempt' = [attempt EXCEPT ![a] = "failed"]
    /\ payment' = "failed"
    /\ earned' = TRUE
    /\ UNCHANGED <<status, assigned, hold, timing, work, billed, payHold, charges, rated>>

\* The payment takes the result of whichever attempt reports last.
ReconcileFailure(a) ==
    /\ Reconcilable(a)
    /\ attempt' = [attempt EXCEPT ![a] = "failed"]
    /\ payment' = "failed"
    /\ UNCHANGED <<status, assigned, hold, timing, work, billed, payHold, charges,
                   earned, rated>>

SubmitRating ==
    /\ status = "completed"
    /\ payment = "success"
    /\ ~rated
    /\ rated' = TRUE
    /\ UNCHANGED <<status, assigned, hold, timing, work, payment, billed, payHold,
                   attempt, charges, earned>>

-----------------------------------------------------------------------------
DispatchNext ==
    \/ AcceptJob \/ SearchExpires \/ CancelAndRematch
    \/ WorkerArrives \/ WorkerStarts \/ WorkerRequestsCompletion \/ WorkerCompletes
    \/ CustomerCancel \/ CustomerResume \/ WorkerDeleted

WorkNext ==
    \/ \E r \in Requirement :
          \/ CreateRequirement(r)
          \/ \E answer \in {"acknowledged", "arranged"} :
                UpdateRequirementByCustomer(r, answer)
          \/ ConfirmRequirementByWorker(r)
    \/ \E p \in Pause, type \in SegmentType : StartTimeSegment(p, type)
    \/ \E x \in Extra :
          \/ RequestAdditionalWork(x)
          \/ DeclineAdditionalWork(x)
          \/ ApproveAdditionalWork(x)
          \/ Lapse(x)

ReviewNext ==
    \/ ReportRemainingWork
    \/ CreateCase
    \/ \E i \in Incident : CreateWorkerSafetyCase(i)
    \/ ConfirmCompletion

PaymentNext ==
    \/ \E a \in Attempt :
          CreatePaymentAttempt(a) \/ ReconcileSuccess(a) \/ ReconcileFailure(a)
    \/ SubmitRating

Next == DispatchNext \/ WorkNext \/ ReviewNext \/ PaymentNext

Spec == Init /\ [][Next]_vars

-----------------------------------------------------------------------------
(* Properties *)

\* The hold exists twice, on the job and on its payment, and the two never
\* disagree. It says nothing of a charge: the webhook asks neither.
HoldsAgree == payment # "none" => payHold = hold

\* The agreed labour, the scope versions and the decisions are three records of
\* the same thing: each approved request added one scope version, in some
\* order, and, until the final bill replaces it, one amount to the labour.
ScopeMatchesDecisions ==
    /\ \A x \in Extra : x \in Approved <=> \E n \in DOMAIN versions : versions[n] = x
    /\ \A m, n \in DOMAIN versions : versions[m] = versions[n] => m = n
    /\ payment = "none" => labour = Len(versions)

\* Once a requirement is confirmed nothing, no late repetition of the request
\* either, makes the job wait for it: its waiting segment is not open.
ConfirmedIsNotAwaited ==
    \A r \in Requirement :
        requirement[r] = "confirmed" =>
            segment # SegmentOf("waiting", KeyOf("requirement", r))

\* "Additional time or work cannot increase your bill without your approval":
\* what the payment bills on top is covered by approved requests.
OnlyApprovedIsBilled ==
    /\ billed <= Cardinality(Approved)
    /\ payment = "none" => billed = 0

\* A job's bill, once made, is never changed, by a repeated confirmation or by
\* an approval that comes after it.
BillIsFinal == [][payment # "none" => billed' = billed]_<<payment, billed>>

\* Each successful attempt charges the customer exactly once, however often the
\* provider's webhook is delivered.
ChargesMatchAttempts ==
    charges = Cardinality({a \in Attempt : attempt[a] = "success"})

\* The worker's earning is recorded when, and only when, the customer was
\* charged.
EarnedWhenCharged == earned <=> charges > 0

\* No handler lifts a hold, so a job under review before its bill is never
\* billed and never charged.
HeldBeforeBillIsNeverBilled ==
    [][hold /\ payment = "none" => hold' /\ payment' = "none"]_vars

\* A review fixes what the customer can be charged in all: the charges made and
\* the attempts on their way when the case came. Nothing ends the review and no
\* attempt begins under it; each of those may still succeed, once.
Chargeable == charges + Cardinality({a \in Attempt : attempt[a] = "pending"})

ReviewFixesCharges == [][hold => hold' /\ Chargeable' <= Chargeable]_vars

\* "Final labour uses verified working time": what is timed at the wrong stage,
\* and why. Before the work starts the only open segment is that of a safety
\* stop, maybe an earlier worker's (with it open, the start opens no segment);
\* while the customer reviews the work the only time counted as work is what
\* confirming a requirement opened.
TimingAccounted ==
    /\ status \in {"offered", "accepted", "arrived"} /\ IsOpen => segment.of = "incident"
    /\ status = "completion_requested" /\ segment.type = "working" =>
          segment.of = "confirmation"

\* "This job is under review and cannot be completed yet." The customer's
\* confirmation checks the hold; the worker's 'completed' does not: this does
\* not hold.
HeldJobIsNotCompleted == [][hold /\ status # "completed" => status' # "completed"]_vars

\* "Rating is available after payment is resolved": a rated job is paid. A late
\* failure of another attempt overwrites the success: this does not hold.
RatedJobsArePaid == rated => payment = "success"

\* What is left of it: whoever rated the job was charged for it, whatever the
\* payment's status says now.
RatedWasCharged == rated \/ payment = "success" => charges > 0

-----------------------------------------------------------------------------
(* What makes the invariants above inductive *)

\* A requirement's waiting segment is as old as the requirement, and its
\* resuming segment as its confirmation.
KeysFollowRequirements ==
    \A r \in Requirement :
        /\ requirement[r] # "none" => KeyOf("requirement", r) \in segmentKeys
        /\ KeyOf("confirmation", r) \in segmentKeys => requirement[r] = "confirmed"

\* Only a completed job has a bill, and only a bill can be held or paid.
BillFollowsCompletion ==
    IF payment = "none" THEN ~payHold /\ \A a \in Attempt : attempt[a] = "none"
    ELSE status = "completed"

MarketplaceInv ==
    /\ TypeOK
    /\ HoldsAgree
    /\ ScopeMatchesDecisions
    /\ ConfirmedIsNotAwaited
    /\ OnlyApprovedIsBilled
    /\ ChargesMatchAttempts
    /\ EarnedWhenCharged
    /\ RatedWasCharged
    /\ KeysFollowRequirements
    /\ BillFollowsCompletion

-----------------------------------------------------------------------------
(* The job's life, as in Dispatch *)

Lifecycle == INSTANCE JobLifecycle WITH stage <- status

\* No marketplace handler moves a job in a way the dispatch service would not.
ImplementsLifecycle == Lifecycle!Spec
=============================================================================
