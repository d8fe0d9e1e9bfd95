# A TLA+ model of the gofer backend

gofer is a marketplace for home-service jobs: a customer books a job, the
service offers it to workers near by, one of them accepts, travels, works and
asks for completion, the customer reviews, pays and rates. This directory
models the parts of the backend in which several actors write the same rows,
checks them with TLC on small instances and proves the safety properties for
every instance with TLAPS.

    tlasany M.tla                        parse a module
    tlc -workers 2 -config X.cfg M       check a configuration
    tlapm M.tla                          check the proofs of a module

## 1. Inventory

Paths are relative to `src/`; *ws* stands for `services/worker-service/src/services`.

| Component | State | Operations | Hard part | Correct when |
|---|---|---|---|---|
| **Job dispatch** — *ws*`/jobDispatch.js`, `pendingJob.js`, `jobLifecycle.js` | `worker_job_dispatches`, `worker_job_offers`, `worker_presence`, `marketplace_cancellations` | `dispatchJob`, `getDispatchStatus`, `respondToJob`, `updateJobStatusByWorker`, `updateJobStatusByCustomerTask`, `cancelAndRematchJob`, `getPendingWorkerJob`, `updatePresence` | workers race for one row; overdue searches are expired by whoever polls; replacement rounds; rows read before and written after a lock or a push | row and offers agree; one worker at a time; whoever gave up or declined stays out; the search ends; events are not swallowed |
| **Marketplace transactions** — *ws*`/marketplaceOperations.js`, `marketplaceTransaction.js` | requirements, time segments, additional work, scope versions, cases, payments, attempts, ledger, earnings, ratings | `createRequirement` … `submitRating` | retries with idempotency keys; decisions after the bill; two payment attempts and late webhooks; holds kept twice; two completion routes | only approved work is billed, once; each success charges once; a job under review is not billed |
| **Notification outbox** — `shared/notifications/outbox.js` | `notification_outbox` | `enqueueNotificationEvent`, the publisher's tick | crash between sending and marking; two replicas on one row; endless failures | every recorded event is delivered at least once, and nothing else |
| **Worker accounts** — `routes/workerAccount.routes.js`, *ws*`/workerDeletion.js`, *ws*`/documentStorage.js`, enrollment and review in `index.js`, `scripts/backfillWorkerDocuments.js` | enrollments, documents and their files in two stores, deletion requests, reset marks, the Firebase login; deletion also rewrites dispatch rows | enroll, review, request a deletion, delete (three ways), copy files to the durable store | three deletions racing each other, an acceptance and the script; files and the login are outside the transaction; the status of a request written blindly | files and rows go together; one deletion of an account; nothing that is still to be deleted is forgotten; a worker is told each decision |
| **Pricing engine** — `shared/pricing/workidaPricing.js` | none | configuration, estimate, final price, cancellation fee | rounding, caps, zero and limits | a bill stays within what was booked and approved and covers the payout |
| **Pricing repository** — `shared/pricing/pricingRepository.js` | price versions, audit log | publish, read | two publications at once; a version published between pricing and bill | versions are ordered; a booking's price was in force, and stays its price |
| **Scheduling** — `shared/scheduling/workidaScheduling.js` | none | is a chosen time acceptable | time zones, boundaries | bookings lie in the future |
| **Customer tasks and sessions** — `routes/customer.routes.js`, *ws*`/householdPricing.js` | customers, sessions, tasks, household quotes | quote, book, list | a booking is several statements without a transaction; repeated bookings, expired quotes | one task per booking |
| **Worker availability** — *ws*`/workerAvailability.js` | none (a report over dispatch state) | read | stale when used | agrees with the candidate query |
| **Flutter apps** — `flutter_app/lib` | client state | polling, recovery, heartbeats | answers out of order, restart in mid-flow | the screen follows the server |
| HTTP service, authentication, enrollment checks, migrations, utilities, review data, device services and UI | – | – | I/O, validation or pure data | – |

### How they interact

* The customer app asks for a household quote or computes a price from the
  public price book, books a task with an idempotency key, which prices it again,
  and posts it to `/api/jobs/dispatch`, which
  calls `dispatchJob`; from then on both apps poll. Nothing in the service runs by
  itself except the outbox publisher: a search times out only because somebody
  polls.
* Every handler of dispatch and marketplace is one PostgreSQL transaction that
  locks the dispatch row (`FOR UPDATE`, or a conditional `UPDATE`) and inserts
  its event in `notification_outbox` in the same transaction.
* Marketplace and dispatch share the dispatch row: `status`,
  `accepted_worker_id` and `financial_hold`.
* Deleting a worker locks the enrollment row (`FOR UPDATE`), which conflicts
  with the foreign-key locks that offering to and accepting for that worker
  take, and then rewrites the dispatch rows that name the worker.
* While its transaction is open a deletion removes files one by one; after the
  commit it deletes the Firebase login. The script that copies files runs beside
  the service and takes no lock.
* The price a task was booked with travels as a snapshot from the task to the
  dispatch row and from there to the bill.
* Pushes are sent after the commit; a definitive registration error switches
  the worker offline in another transaction.
* The outbox publisher runs in every service instance and writes one row at a
  time with no transaction around them.
* Payment webhooks come from outside, in any order, late and repeated.

The hazards this gives rise to are listed, each with its line and the
properties that would show it, in `PROJECT.json`.

## 2. Modules

| Module | What it is |
|---|---|
| `JobLifecycle` | the stages of one job, whoever moves it (abstract) |
| `JobAssignment` | who has a job: open, assigned, given back a limited number of times, closed, also because the worker left (abstract) |
| `JobOffers` | one job's row and all its offers, each request that has an effect one step (abstract) |
| `Dispatch` | the dispatch tables, one action per handler; implements all three |
| `DispatchLocks` | the transactions of `Dispatch` on one job, statement by statement, with row locks and pooled connections; implements `JobOffers` and `JobAssignment` |
| `Marketplace` | one job's marketplace tables; implements `JobLifecycle` |
| `WorkerAccount` | the accounts of one phone number: enrollment, review, files, deletion, login |
| `Pricing` | the arithmetic of prices, payouts and household quotes: operators only |
| `Bookings` | price versions, quotes, bookings, jobs and bills of one service; computes with `Pricing` |
| `Delivery` | at-least-once delivery of recorded events (abstract) |
| `Outbox` | the publisher, statement by statement; implements `Delivery` |
| `MCDispatch`, `MCDispatchLocks`, `MCMarketplace`, `MCOutbox`, `MCWorkerAccount`, `MCBookings` | symmetry sets and inputs for TLC |
| `DispatchProofs`, `DispatchLocksProofs`, `MarketplaceProofs`, `OutboxProofs`, `WorkerAccountProofs`, `PricingProofs`, `BookingsProofs` | theorems |

Some definitions stand beside a *mutant* (`CanRespondLate` beside `CanRespond`):
the same operator with a plausible bug in it. Mutants are part of no
specification. `PROJECT.json` names, for each checked property, a mutant which
makes that property fail under its own configuration, so that no property is
vacuous.

### Dispatch

State, by table: `worker_job_dispatches` is `status`, `acceptedBy`, `due`
(`expires_at <= NOW()`), `attempts`, `excluded` and `arrivalVerified`, all
functions of the job; `worker_job_offers` is `offer[j][w]`; `worker_presence`
is `online`; the deletion of a `worker_enrollments` row is `deleted`; what a
search has read and not committed yet is `searching` and `found`;
`marketplace_cancellations` is `cancellation`;
`notification_outbox` is the set of event ids ever inserted, because what
matters here is whether `ON CONFLICT DO NOTHING` drops an event (`EventId`
keeps what the code hashes into the id).

| Action | Code |
|---|---|
| `FindCandidates`, then `DispatchJob` | `dispatchJob` up to its candidates; its offers and commit |
| `GetDispatchStatus` | `getDispatchStatus` (expires its own row) |
| `GetPendingWorkerJob` | `getPendingWorkerJob` and `pendingJob.js` (expires everybody's) |
| `RejectJob`, `AcceptJob` | `respondToJob` |
| `UpdateJobStatusByWorker` | `updateJobStatusByWorker` |
| `FindReplacements`, then `CancelAndRematch` | `cancelAndRematchJob` likewise; without a search when the limit is used up |
| `SearchFails` | either search is rolled back |
| `CustomerCancel`, `CustomerResume` | `updateJobStatusByCustomerTask` |
| `ReportRemainingWork`, `ConfirmCompletion` | what those handlers of `marketplaceOperations.js` do to the dispatch row |
| `GoOnline`, `GoOffline`, `RetireToken` | `updatePresence`, dead push tokens |
| `DeleteWorker` | `permanentlyDeleteWorker`, `ON DELETE CASCADE` included |
| `Lapse` | two minutes pass |

The candidate query's distance, category, position, token and heartbeat
filters pick *any* subset of the workers who are online and idle, so
properties hold whatever they do. A search reads its candidates in one step and
commits its offers in a later one, because it locks no worker: in between a
candidate may take another job, go offline or be found by another search. It
keeps its own dispatch row, new or locked, from one step to the other
(`RowIsFree`); and an offer needs its worker's enrollment, so that a candidate
who is deleted in between makes it fail (`FoundAreEnrolled`, `SearchFails`).

Every other handler is one atomic action: it is a
transaction which locks its dispatch row first or, in `respondToJob`, claims it
with an `UPDATE` whose condition is evaluated again once the row is free.
`getPendingWorkerJob`'s two statements commit separately; the state between
them is the one after a `GetDispatchStatus` of each overdue job. A deletion is
one transaction too. The database refuses it when a marketplace row names the
worker; `Dispatch` has no such rows and lets any worker be deleted, which only
adds behaviours, while `WorkerDeleted` in `Marketplace` has the refusal as its
guard.

### DispatchLocks

The same handlers on one job, below the level of transactions. A `Session` is
a connection of the pool; it serves one request at a time, whose handler is a
path of statements (`First`, `Follow`, `Missed`). A statement first finds its
rows among what is committed and what its own transaction wrote (`Read`), and
then visits them one by one, in any order (`Visit`): it waits for the lock of
the row, evaluates its condition again (`HoldsStill`) and writes a draft that
others see after `Commit`. `Abort` is the database's deadlock detection.

| Statements | Code |
|---|---|
| `claimOffer`, `claimJob`, `closeOthers` | `respondToJob` |
| `cancelJob`, `closeAll` | `updateJobStatusByCustomerTask` |
| `giveUp`, `ownOffer`, `reoffer` | `cancelAndRematchJob` |
| `progress` | `updateJobStatusByWorker` |
| `expire`, `closeExpired` | `getDispatchStatus`; both, one after the other, `getPendingWorkerJob` |

`respondToJob` returns between `BEGIN` and `ROLLBACK` when nobody has enrolled
with the phone number (jobDispatch.js:590): `RespondUnknown` gives the
connection back with its transaction `open`. The next `BEGIN` on it does nothing, a
single statement on it is not committed and keeps its locks, and `NOW()` stays
what it was, until a handler on the same connection commits or rolls back or
the pool closes the connection (`IdleTimeout`). `began` and `clock` are
`NOW()`, counted in search rounds that ran out.

That PostgreSQL and the pool behave like this is taken from their documentation
and marked external in `PROJECT.json`; marketplace handlers and deletions, which
lock the dispatch row or the enrollment first and then write rows of their own,
are not repeated here.

### Marketplace

One job. `extra` is `marketplace_additional_work.status`, `versions` the scope
versions after the first, `segment` the open time segment with the idempotency
key it came from, `segmentKeys` all keys; `payment`, `billed`, `payHold`,
`attempt`, `charges`, `earned`, `rated` are the payment tables. Money is
counted in units of one approved request (`Bookings` has the amounts), and of
time only whether the open segment is timed as work. The actions have the names of the handlers;
`decideAdditionalWork` is `ApproveAdditionalWork` and
`DeclineAdditionalWork`, `reconcilePayment` is `ReconcileSuccess` and
`ReconcileFailure`, and the dispatch handlers are repeated as far as they write
the same rows.

### Outbox

`row` and `resting` are the table's `status` and `next_attempt_at > NOW()`,
`log` its order by `created_at`. Each replica's `phase` is the `await` its
tick stands at, and `batch` what it read and has not finished. Every `UPDATE`
in the code names its row by id only, so `Claim`, `Mark` and `Backoff` overwrite
whatever the row has become since it was read. `Fail` loses a call before its
effect, `SendUnconfirmed` and `MarkUnconfirmed` the answer after it,
`Crash` is a process that stops or a catch block that fails, and
`NotConfigured` is `publishViaHttp` returning false without a URL.

`delivered` means what the publisher takes for it. Over HTTP that is the
notification service's 2xx. With RabbitMQ it is the broker's confirm for the
topic exchange `workida.events` (outbox.js:64-73): the message is published
without `mandatory`, so the broker also confirms one that no queue takes, and no
reader of the exchange is in the repository. There, "received" is said of the
broker only.

### WorkerAccount

One phone number, whose worker may enroll again after a deletion: `account`
has a status for every id the database may give. `document` is the provider
in the row, `file` the set of files there are; a file that no row names is
possible and happens. `working` and `kept` stand for the tables of the other
modules: a job in an active status, and a row that refers to the worker
without `ON DELETE CASCADE` (marketplaceTransaction.js:90, 126, 196, 252, 281).
`owed`, `forgotten`, `copied` and `harmed` are history.

A deletion call goes through `phase`: looked up (`checked`), in the
transaction with the enrollment row locked (`deleting`, `cleared`), after the
commit (`login`, `resolving`, `deferring`). The transaction's writes are drafts
until `CommitDeletion`; files go at once, `DeleteFile` by `DeleteFile`.

| Action | Code |
|---|---|
| `VerifyPhone` | `verify-otp` |
| `BeginEnrollment`, `SaveDocument`, `CommitEnrollment`, `EnrollmentFails` | `POST /workers/enrollments`, one transaction |
| `Approve`, `SimulateKyc` | the two review routes |
| `RecordDeletionRequest`, `DeleteMe`, `DeleteByAdmin`, `CompleteRequest` | the routes, up to `permanentlyDeleteWorker` |
| `DeletionRefused`, `BeginDeletion`, `DeleteFile`, `UndeletableDocument`, `ClearPrefix`, `CommitDeletion`, `DeletionFails` | `permanentlyDeleteWorker` and `deleteWorkerDocumentsForEnrollment` |
| `DeleteLogin`, `LoginFails`, `CloseRequest`, `Crash` | what the routes do after it |
| `UseFirebase`, `ListDocuments`, `CopyDocument`, `MoveDocument`, `BackfillFails` | the script and the change of the configured store |

What the model shows besides its properties, and what explains the exceptions in
them: files of an enrollment that was rolled back stay for ever, since no row
names them; a document whose image could not be decoded has the provider
`metadata_only`, which `deleteWorkerDocument` rejects, so that such an account
cannot be deleted and each attempt may remove other files of it; the script
leaves the local file behind and may write a copy while, or after, its account
is deleted (`copied`); a completion that is slow writes `resolved` over a newer
`pending_auth_cleanup`, and a process that stops after the commit leaves no
record that the login is still there (`forgotten`); an old request, even a
resolved one, deletes whichever account the number has when it is completed.

### Pricing and Bookings

A price has two sides, customer and worker, with the same amounts, so that
one definition (`AdjustedSide`, `Labour`, `Total`) stands for the code's
duplicated lines. A city has a multiplier for each side (workidaPricing.js:180-192);
they are equal in the price book, though nothing validates that, and one
`Percent` stands for both: that the payout is covered is said for equal
multipliers. `Published` is what `savePricingVersion` stores for an
administrator's input, `BuildPricingConfig` what a booking is priced with,
`Estimate` and `Final` what it costs before and after the work.

`Bookings` has one service and one customer. `row` is
`service_pricing_versions`; an administrator in `Locked` holds the advisory
lock and has read what its transaction will write. A call of `POST /tasks` goes
through `sent`, `quoted`, `priced` and `inserted`, one statement at a time, and
may be lost after each. A task is known by its idempotency key: a second call
with the key is the app's repetition (customer_api_service.dart repeats a booking
once, with the same body) and finds the row of the first.

| Action | Code |
|---|---|
| `LockService`, `CommitPricing`, `PricingFails` | `savePricingVersion` |
| `RequestQuote`, `QuoteExpires` | `POST /household-help/quotes`, fifteen minutes later |
| `Send`, `ReadQuote`, `AnswerFromQuote`, `QuoteRefused`, `PriceTask`, `PriceRefused`, `ScheduleRefused`, `InsertTask`, `ConsumeQuote`, `CallLost` | the statements of `POST /tasks` |
| `DispatchTask` | what `dispatchJob` takes from the task |
| `ConfirmCompletion` | the bill of `confirmCompletion` |

Also visible in the model: the price a customer saw is not looked at, a
booking is priced again from the version in force (docs/API.md:139, 171); a
household quote is used by two tasks when two calls with different keys run at
the same time or the first is lost before its last statement; a repetition of a
booking whose quote has expired meanwhile is refused although the task exists;
with a snapshot, approved additional labour is not charged, only approved minutes;
an hourly job without timed minutes (as after a safety stop before the start,
jobDispatch.js:1233) is billed no labour.

## 3. What is checked

| Run | Instance | Shows |
|---|---|---|
| `DispatchOneJob` | 1 priced job, 3 workers, 2 replacements, fairness | row and offers agree; who gave up or declined stays out; the replacement budget; a deleted worker is out of every table for good; assignments are announced; a visit fee stands for an announced arrival; refinement of `JobAssignment` and `JobLifecycle`; every search ends |
| `DispatchTwoJobs` | 2 jobs, 2 workers, 1 replacement | the inductive invariant with jobs competing and searches that commit later than they read; for each job every handler is one request of `JobOffers` or none |
| `DispatchRowLocks` | 1 job, 2 workers, 2 connections, 1 replacement, every kind of request | the inductive invariant; what is committed at any moment is consistent, each commit is one request of `JobOffers`, also with a connection left in a transaction; a deadlock needs an acceptance, a recovery poll or such a connection |
| `MarketplaceOneJob` | 2 requirements, 2 additional works, 1 pause, 1 incident, 3 attempts | the inductive invariant; a late repetition never re-opens a wait; bill, holds, charges and earnings agree; what is timed at the wrong stage is known; the bill is final; a hold is for good and adds no charge but what was being attempted; `JobLifecycle` |
| `OutboxReplicas` | 2 rows, batches of 2, a connected replica and one not; failures stop in the end | no row says `published` that was not received; every recorded event is delivered, and nothing else |
| `WorkerAccounts` | 2 accounts in turn, 1 document, 2 decisions, 1 request, 2 deletion calls, the script | one deletion of an account at a time; files, rows and login go together or it is known why not |
| `Bookings` | 1 hourly service, 2 inputs, 2 revisions by 2 administrators, 1 quote, 2 keys, 2 calls | publications are ordered; a booking's price was in force while it was made, and is the price of job and bill for good; an answered booking is not made again; the bill stays within what was approved |

And five runs TLC must find a counterexample in, because the code does
not do what the repository says of it:

| Run | Property | The code |
|---|---|---|
| `DispatchDoubleBooking` | `AtMostOneActiveJob` | `respondToJob` (jobDispatch.js:608) does not look at the worker's other jobs, the candidate query does: a worker with two open offers accepts both |
| `DispatchAcceptDeadlock` | `AcceptanceNeverDeadlocks` | of two workers who accept at once, the first to claim the job waits for the second's offer (jobDispatch.js:616) and the second for the job: the database ends one of them with an error, and the app shows "Could not accept this job" where "Another worker accepted this job first." is meant |
| `MarketplaceHeldCompletion` | `HeldJobIsNotCompleted` | the worker route of older apps (jobDispatch.js:1187) completes a job under review, without a bill |
| `MarketplaceLateFailure` | `RatedJobsArePaid` | `reconcilePayment` (marketplaceOperations.js:521) stores the result that comes last: a late failure of one attempt overwrites the success of another |
| `WorkerDeletionRefused` | `RequestsAreProcessed` | the enrollment row is deleted (workerDeletion.js:153) while a requirement, extra work, payment, earning or rating refers to it, so the completion of such a worker's request fails each time; the reply to the request says that it is processed within 30 days |

More disagreements are visible in the models without a run of their own:

* A search reads who is free (jobDispatch.js:465-502, 1078-1130) without locking
  anybody and commits its offers later, so a worker who has taken another job or
  gone offline in between gets one: `FindCandidates` and `DispatchJob` are two
  steps. workerAvailability.js:34 calls such a worker unavailable.
* The event id of an arrival (jobDispatch.js:1268) hashes the job and the status
  but not the worker, so a replacement's arrival is dropped as a duplicate, where
  outbox.test.js:5 says that ids are "transition-specific"; `EventId` has it. The
  id of a review (index.js:1658) names the worker and the decision, so a decision
  taken back and taken again tells the worker nothing (`Announcement`).
* `reconcilePayment` (marketplaceOperations.js:498-567) looks at no hold: an
  attempt that was pending when a case was opened charges the job under review,
  where marketplaceOperations.js:465 says that its payment is on hold.
  `ReviewFixesCharges` says that nothing more is charged.
* `confirmRequirementByWorker` (marketplaceOperations.js:128) checks no status and
  starts a working segment while the customer reviews the work, which the bill
  counts; `TimingAccounted` names it as the only way that time is counted there.
* A deletion leaves the local file of a document that was copied to the durable
  store (backfillWorkerDocuments.js:78), and a copy written after it, where
  docs/API.md:208 says that documents are removed; `DeletedLeaveNoFiles` exempts
  them by `copied`.

### Bounds

Nothing is cut off by a state constraint: the number of jobs, workers,
requests, attempts and rows is the only bound, and every counter is bounded
through them; `MaxRevision` bounds the published prices in the guard of `Lock`. With `MaxReplacements = 2` three workers can give up and exceed
the limit, and before that there is a search with one worker excluded, one
offered and one not. Two jobs and two workers are enough for any conflict over
a worker: a conflict is between two jobs that look at one worker, and a second
worker lets either go elsewhere. Locks conflict between two transactions, so two
connections show every conflict (not every ring of three, which `Abort` treats
like a ring of two); of the worker's reports, one statement each, `DispatchRowLocks`
takes the first. Three attempts have one success, one failure
and one that comes after both. One pause and one incident are enough for a
segment opened between any two others. Workers, requirements, additional works
and attempts are interchangeable and reduced by symmetry in runs with safety
properties only. Two accounts show an
account that is enrolled after a deletion with the calls of the first still
running; two calls show every race of two deletions, and one request is
completed by either. With two revisions a price is published twice, each by
whichever administrator locks first; two calls are one booking repeated or two
bookings with one quote, at once or one after the other. The inputs of
`Bookings` are an hourly price with visit and minimum, a dearer one and a change of
model, times below, at and above the estimate, with and without approval. The proofs
below remove the bounds for the safety properties.

### Fairness

* `Dispatch!Polling`: the clock runs (`Lapse`) and the customer's app polls
  while it searches (`BookingController._watchDispatch`, every two seconds).
  No worker is assumed to do anything. Without the polling the search does not
  end: nothing in the service ends it.
* `Outbox!CalmSpec`: every replica goes on with its tick (weak fairness) and
  from some moment on no call fails and no process stops.
* `Outbox!FairSpec` lets failures and crashes go on for ever and asks instead
  that the poll timer keeps firing and that a call made again and again in the
  end succeeds (strong fairness of `Tick`, `Claim`, `Send` and `Mark`). Strong
  fairness of `Tick` is needed because another replica may take what is due
  away between two looks at the table.

* `WorkerAccount!CalmSpec` is the best a deletion request can hope for: jobs
  end, calls go on, an administrator completes every request again and again,
  and from some moment on the worker takes no job and no call fails by itself. It
  is the hypothesis of a counterexample only, and makes it stronger.

For the outbox neither is enough for everything. With failures that never stop and several
rows, two replicas can keep a row waiting for its next attempt, or each
other's published rows `pending`, and a row behind may starve. Even without
failures, a replica that has no transport can put the oldest row back to
`publishing` each time it is published: with `BatchSize = 1` TLC finds the
row behind it starved for ever. The deployed batch is 25, so this needs 25 such
rows; `OutboxReplicas` uses a batch that is larger than the one row such a
replica holds.

## 4. What is proved

For all values of the constants that satisfy the modules' `ASSUME`s (finite
sets of workers, requests and attempts, `NoWorker` is no worker, a natural
replacement limit, a batch of at least one; for `Bookings` that the service in
the price book pays the worker no more than the customer and that inputs,
times and percentages are natural numbers). The proofs are hierarchical: one
lemma per invariant part, one step per action.

| Module | Theorem | Says |
|---|---|---|
| `DispatchProofs` | `Invariance` | `Spec => []DispatchInv` |
| | `TypeCorrect`, `AssignmentConsistency`, `OffersLive`, `GivenUp`, `Budget`, `NoTrace` | its parts |
| | `TerminalFinal`, `RejectionFinal`, `Handover`, `AssignmentAnnounced` | the action properties |
| | `VisitFee` | `Spec => []FeeFollowsArrival` |
| | `Refinement`, `LifecycleRefinement`, `OffersRefinement` | `Dispatch` implements `JobAssignment` and, for each job, `JobLifecycle` and `JobOffers` |
| `DispatchLocksProofs` | `Invariance`, `CommittedConsistency` | `Spec => []LocksInv`, what is committed is consistent |
| | `Refinement` | `DispatchLocks` implements `JobAssignment` |
| | `Atomicity` | `Spec => HandlersAreAtomic`: it implements `JobOffers` |
| | `LifecycleRefinement`, `RejectionFinal`, `GivenUp`, `Budget` | what `Dispatch` promises of a job also holds between its statements |
| | `DeadlocksExplained` | `Spec => []DeadlocksNeedDisorder` |
| `MarketplaceProofs` | `Invariance` | `Spec => []MarketplaceInv` |
| | `TypeCorrect`, `Holds`, `Scope`, `NotAwaited`, `Billing`, `Charging`, `Earning`, `Rated` | its parts |
| | `Timing` | `Spec => []TimingAccounted` |
| | `BillFinal`, `HeldNeverBilled`, `ReviewFixed` | the action properties |
| | `LifecycleRefinement` | `Marketplace` implements `JobLifecycle` |
| `OutboxProofs` | `Invariance`, `Published` | `Spec => []OutboxInv`, a published row was received |
| | `PromiseSafety` | `Outbox` implements the safety part of `Delivery` |
| `WorkerAccountProofs` | `WorkerAccountInvariance` | `Spec => []WorkerAccountInv` |
| | `AccountsAreConsistent`, `DeletionTakesEveryFile`, `OnlyDeletionsLoseFiles`, `LoginCleanupIsTracked` | the invariants of the run |
| `PricingProofs` | `PublishedServiceIsGood`, `BookedConfigurationIsGood` | whatever an administrator enters, the payout of every booking is covered |
| | `PayoutIsCovered`, `FinalWithinApproval` | of the final price, for any minutes |
| `BookingsProofs` | `BookingsInvariance` | `Spec => []BookingsInv` |
| | `PublicationIsOrdered`, `BookedAtACurrentPrice`, `AnsweredOnce`, `BilledWithinApproval` | the invariants of the run |
| | `BookingsKeepTheirPrice` | the action property |

**Dispatch.** `AssignmentConsistent` is not inductive alone: that a
replacement round does not bring back the worker who left needs
`GivenUpForGood` (its offer is `cancelled`, and the upsert revives no cancelled
offer), `ReplacementBudget` needs that `w` was not in `excluded` before
(`GivenUpForGood` again: the assigned worker's offer is `accepted`), that an
assignment's event is new needs `AnnouncedOnce` and, because a deletion takes
the worker's offer away, `DeletedLeaveNoTrace` (a deleted worker gets no new
offer), and the first offers of a job need `UndispatchedIsBlank`. A deletion
also shrinks `excluded`, so `ReplacementBudget` bounds `attempts` from both
sides, by the excluded and the deleted workers. A search rests on what it keeps
locked: whatever happened to its candidates, its own row is as it was read
(`TypeOK` says that nothing is found where no search is on, and the steps of
other handlers on the row have `RowIsFree`). `VisitFee` adds `FeeInv`: an
arrival is recorded and announced together, and the fee is fixed when the job
ends, after which no arrival can be recorded. Whose arrival it was is not part of
it: that of a worker who gave the job up counts, as in the code.

**DispatchLocks.** `CommittedConsistent` says nothing of the transactions in
progress, and each commit publishes what its transaction wrote some steps
before. `LocksInv` adds what each connection has done, as it sees the rows
itself, at each of its statements (`StageInv`): an acceptance at `closeOthers` has
its offer `accepted`, the job on top of an `offered` one, and has closed all
offers but those it has still to visit; and so on for the other handlers. What a
transaction sees differs from what is committed only in rows it has locked, so
these are claims about locks as well. Two facts carry the interleaving. A commit
changes only rows that its transaction had locked, so others see it only in
rows they have not written, and there what `StageInv` says of them still holds
on top of the new rows (`RebasedKeeps`). And whoever has written the job keeps
its row locked, so that meanwhile nothing but rejections of its offers is
committed (`Outcomes`, `OthersRebased`); that is why each statement may rely on
what an earlier one of the same transaction found. A
connection that came back inside a transaction has done nothing but expire a
search and close its offers (`OnlyExpired`), whatever it served before: this is
why the leak does no harm to the committed rows. `CommittedConsistent` has to say
that a cancelled job has no live offer, or the invariant would not be
inductive. Each commit is one step of `JobAssignment`, or none, and every other
step of a connection is none.

`HandlersAreAtomic`, the refinement the run checks, says more: each commit does to the committed row and offers
what one request of `JobOffers` does in one step. This is what justifies the
atomic handlers of `Dispatch`, whose `OffersRefinement` says the same of each of
its actions; both pass through the one abstract specification, so that they can
be compared. For it `StageInv` has to be exact, not only safe: what a
transaction has written is the whole effect of its handler so far and nothing
else (`SameOffers`, `Closing`), and at `commit` the handler is through with its
rows. `JobOffers` shows the two ways in which the order of requests can
be other than the clock's: a rejection that found the search open may be
committed after somebody else expired it, and the open offers of an expired
search close with it or later, in a transaction of their own.
From `Atomicity` follow, without looking at statements again, that the committed
job keeps to `JobLifecycle`, that a committed rejection stands, and, with
`ReleasesCounted`, that no worker gets back a job given up and each release is
counted once. These are not run properties; they need nothing of the
transactions that `LocksInv` and `HandlersAreAtomic` do not say.

`DeadlocksNeedDisorder`: a connection of the ring at a handler's first
statement, without locks, is waited for by nobody; one past it holds the
dispatch row, unless it accepts, and two cannot hold it. The mutant, a
cancellation that closes the offers first, deadlocks with another.

**Marketplace.** That nothing waits for a confirmed requirement needs
`KeysFollowRequirements`: a repeated `createRequirement` finds its key in use.
That holds agree and nothing is charged twice needs `BillFollowsCompletion`:
before the bill there is no attempt, and with it the job can no longer be
confirmed. `ReviewFixed` needs that no attempt begins
under a hold and that a success takes one attempt from
the pending ones and adds one charge. `OnlyApprovedIsBilled` rests on the lemma that `Approved` only
grows, which rests on the finiteness of `Extra`.

**Outbox.** `PublishedWasDelivered` needs that a replica at `mark` has sent
the row it is about to mark, and that a row some replica holds exists.

**WorkerAccount.** That a deletion leaves no file needs to know where files can
be: `FilesNamed` says that a file of an account that is enrolled is named by a
row or is a copy of the script, and that none but copies is left of an account
that a call has cleared. `FilesThere` is the converse, that a row has its
file, or a call is taking files of that account, or one did and was rolled
back; `RowsNamed` keeps the script's list to documents of accounts that were
enrolled. `AccountInv` makes the deletions of one account exclude each other,
so that no call disturbs what another has removed. `ListedPending`, that the
requests a transaction will resolve are still `pending`, keeps `CommitDeletion`
from resolving a `pending_auth_cleanup`: `CleanupTracked` rests on it.

**Pricing and Bookings.** The arithmetic is non-linear; the lemmas say that each
step (proration, blocks, adjustment, payout) is monotone and keeps to the natural
numbers, and everything else follows from monotonicity: a bill is the
estimate of fewer minutes, a payout the price of smaller amounts.
`BookingsInv` is `VersionsInv` (whoever holds the lock has read the newest
version; every version is a good service), `CallsInv` (what each call has is
what its stage says), `AnswersInv` (the quote of an answered call has a task,
and no later call has got past it) and `PricesInv` (what a call computed was in
force since it came; task, job and bill have one snapshot). That the lock is
needed for `PublicationOrder`, and the look at the quote for
`AnsweredIsNotBookedAgain`, is shown by their mutants.

**What is left of what fails.** For most disagreements of section 3 a theorem says
how far the promise still holds. A worker can have two jobs, or
an offer while on another, but a job never has two workers, whatever a search
read before (`Handover`, `AssignmentConsistency`). A replacement's arrival goes
unannounced, but no assignment does (`AssignmentAnnounced`). Acceptances
deadlock, but handlers that lock the dispatch row first never do among
themselves (`DeadlocksExplained`). A job under review can be completed, but if
it was held before its bill it is never billed (`HeldNeverBilled`); it can be
charged, but only by what was being attempted before (`ReviewFixed`). Working
time is counted during a review, but only from a confirmed requirement
(`Timing`). A rated job can have a failed payment, but the
customer was charged (`Rated`). Files outlive an account, but only those of
documents the script has copied (`DeletionTakesEveryFile`). For deletions that are
always refused and for repeated decisions nothing is left to say.

Only model-checked: liveness (`SearchEnds` and the liveness half of
`ImplementsDelivery`), which is outside what the prover handles.

## 5. Not modelled

* The content of documents, their encryption and the payloads older rows
  hold themselves; texts, logging, distances.
* `createCatalogService` and the editor's lists, configurations of the first
  schema version, bookings without an idempotency key (each is a task of its own)
  and bookings with neither a quote nor a duration (they have the budget the
  client names). Rounding is exact; the code rounds floating point products.
* Customers' sessions and the verification of their number, and the status a
  client may set on its task: each is one statement that no modelled decision
  reads.
* Statement-level locking outside `DispatchLocks`: the transactions of
  marketplace handlers and of deletions keep their row locked throughout.
* The append-only event log and the evidence of completion (photos): written
  and never read by a decision.
* What a deletion does to dispatch rows is in `Dispatch`, not repeated in
  `WorkerAccount`; the two meet in `working` and `kept`.
* `markOfferDelivered` sets a time stamp that decides nothing.
* HTTP routing, authentication, enrollment validation, the availability report
  and the user interface: I/O, validation or reads with no state of their own.

## 6. Plan

In this order:

1. Liveness of `DispatchLocks`: every request is answered (deadlocks are
   broken, leaked connections reused or closed), on a smaller instance.
2. An abstract specification of a deletion, account, files and login as one
   step, with `WorkerAccount` implementing it up to the exceptions its
   properties name.
3. `Presence`: tokens, heartbeats and the position that confirms an arrival;
   offers against stale presence.
4. `BookingClient` and `WorkerClient`: the apps' polling and recovery composed
   with an abstract server; what a restart in mid-flow shows.
