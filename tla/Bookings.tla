------------------------------ MODULE Bookings -------------------------------
(***************************************************************************)
(* From a published price to a bill: the price versions of one service     *)
(* (pricingRepository.js), the household quotes and tasks of one customer  *)
(* (customer.routes.js), and what dispatchJob and confirmCompletion take   *)
(* from a task. Publishing is one transaction under an advisory lock; the  *)
(* route that books a task runs its statements one by one, without one, so *)
(* the calls interleave, with each other and with administrators.          *)
(*                                                                         *)
(* A task is known by the idempotency key of its booking; the app sends    *)
(* one with every booking and repeats an unanswered call with the same     *)
(* body. The phone number of the customer is verified. The city and the    *)
(* quantity of a booking are fixed.                                        *)
(***************************************************************************)
EXTENDS Pricing, Sequences

CONSTANTS
    Admin,         \* concurrent calls that publish a price
    Key,           \* idempotency keys
    Call,          \* calls of POST /tasks, repetitions included
    Quote,         \* household quotes
    NoQuote,       \* household_quote_id IS NULL
    Base,          \* the service in the price book
    Value,         \* the inputs administrators send
    Minutes,       \* the durations customers choose
    Scope,         \* the chores they ask quotes for: the minutes of each
    Hours,         \* the hours they ask them for
    Work,          \* [verified, approved] minutes of finished jobs
    Percent,       \* the city's multipliers, customer's and worker's, which are equal
    MaxRevision    \* bound on the published versions

NoKey == "none"

ASSUME BookingsAssumption ==
    /\ NoQuote \notin Quote /\ NoKey \notin Key
    /\ GoodService(Base) /\ \A value \in Value : GoodValue(value)
    /\ Minutes \subseteq Nat \ {0} /\ Percent \in Nat /\ MaxRevision \in Nat
    /\ \A w \in Work : w.verified \in Nat /\ w.approved \in Nat

VARIABLES
    row,           \* service_pricing_versions, by revision
    admin,         \* what each publishing call is at
    quote,         \* gofer_household_quotes
    booking,       \* the body the app sends with each key
    at,            \* where each booking call is
    key,           \* the idempotency key it came with
    offer,         \* the pricing snapshot it computed
    answer,        \* the task it is answered with
    task,          \* gofer_customer_tasks
    job,           \* worker_job_dispatches: budget and pricing_snapshot
    bill,          \* marketplace_payments
    since,         \* history: the revision in force when each call came
    answered,      \* history: the calls that had their task when each call came
    created        \* history: the calls that inserted a task

prices == <<row, admin>>
calls == <<booking, at, key, offer, answer, since, answered>>
work == <<job, bill>>
vars == <<prices, quote, calls, task, created, work>>

None == [kind |-> "none"]

-----------------------------------------------------------------------------
(* Price versions *)

Latest == Len(row)

\* getEffectiveServiceOverride: a service with options stays tiered.
Effective(revision) ==
    IF revision = 0 THEN Base
    ELSE [row[revision].price EXCEPT !.model =
            IF DOMAIN Base.options = {} THEN @ ELSE "tiered"]

\* The revision in force; 0 is the price book.
InForce ==
    IF \E n \in DOMAIN row : row[n].current
    THEN CHOOSE n \in DOMAIN row : row[n].current ELSE 0

\* Mutant of CurrentRevision: the price book is read, not what was published.
RevisionOfBook == 0

\* currentRows: the row not superseded.
CurrentRevision == InForce

\* The one option the bookings choose, where the service has options.
Option == IF DOMAIN Base.options = {} THEN NoOption
          ELSE CHOOSE o \in DOMAIN Base.options : TRUE

Snapshot(revision) ==
    [kind |-> "snapshot", version |-> revision,
     config |-> BuildPricingConfig(Effective(revision), Option, 1, Percent)]

\* The budget of a task is in whole hundreds.
Budget(snapshot, minutes) == Estimate(snapshot.config, minutes).customer \div 100

Locked == {a \in Admin : admin[a].at = "locked"}

\* The input is checked against the price book before the transaction.
Publishable(value) ==
    PolicyKnown(value, Base) /\ ValidPricing(Published(value, Base), Base)

Lock(a, value) ==
    /\ admin[a].at = "idle" /\ Publishable(value) /\ Latest < MaxRevision
    /\ admin' = [admin EXCEPT ![a] =
          [at |-> "locked", price |-> Published(value, Base), current |-> InForce,
           revision |-> Latest + 1]]
    /\ UNCHANGED <<row, quote, calls, task, created, work>>

\* Mutant of LockService: the advisory lock is not taken.
LockNothing(a, value) == Lock(a, value)

\* pg_advisory_xact_lock, then the current row and the next revision.
LockService(a, value) == Locked = {} /\ Lock(a, value)

\* Supersede, insert and audit, all of it visible with the commit. The
\* revision of a version is unique.
CommitPricing(a) ==
    /\ admin[a].at = "locked"
    /\ admin[a].revision = Latest + 1
    /\ row' = Append([n \in DOMAIN row |-> [row[n] EXCEPT !.current = FALSE]],
                     [price |-> admin[a].price, current |-> TRUE,
                      before |-> admin[a].current])
    /\ admin' = [admin EXCEPT ![a] = [at |-> "idle"]]
    /\ UNCHANGED <<quote, calls, task, created, work>>

\* Any error, a revision that exists by now included, rolls everything back.
PricingFails(a) ==
    /\ admin[a].at = "locked"
    /\ admin' = [admin EXCEPT ![a] = [at |-> "idle"]]
    /\ UNCHANGED <<row, quote, calls, task, created, work>>

-----------------------------------------------------------------------------
(* Household quotes *)

\* A session the chosen chores fit into; it can be booked for fifteen minutes.
RequestQuote(q, chores, hours) ==
    /\ quote[q].stage = "none"
    /\ Quotable(chores, hours)
    /\ quote' = [quote EXCEPT ![q] =
          [stage |-> "live", amount |-> BlockRate(hours), task |-> NoKey]]
    /\ UNCHANGED <<prices, calls, task, created, work>>

QuoteExpires(q) ==
    /\ quote[q].stage = "live"
    /\ quote' = [quote EXCEPT ![q].stage = "expired"]
    /\ UNCHANGED <<prices, calls, task, created, work>>

-----------------------------------------------------------------------------
(* POST /tasks *)

Body(c) == booking[key[c]]
Reading(c) == at[c] = "sent"

\* A call, the first with its key or a repetition: a service with a duration, a
\* household quote, or both.
Send(c, k, q, minutes) ==
    /\ at[c] = "idle"
    /\ q = NoQuote => minutes # 0
    /\ q # NoQuote => quote[q].stage # "none"
    /\ booking[k] \in {None, [kind |-> "booking", quote |-> q, minutes |-> minutes]}
    /\ booking' = [booking EXCEPT ![k] =
          [kind |-> "booking", quote |-> q, minutes |-> minutes]]
    /\ at' = [at EXCEPT ![c] = "sent"]
    /\ key' = [key EXCEPT ![c] = k]
    /\ since' = [since EXCEPT ![c] = InForce]
    /\ answered' = [answered EXCEPT ![c] = {d \in Call : answer[d] # NoKey}]
    /\ UNCHANGED <<prices, quote, offer, answer, task, created, work>>

\* Mutant of Consumed: the task a quote was used for is not looked up.
ConsumedIgnored(q) == FALSE

Consumed(q) == quote[q].task # NoKey

Usable(q) == quote[q].stage = "live"

\* No quote, or one to be used.
ReadQuote(c) ==
    /\ Reading(c)
    /\ Body(c).quote # NoQuote => Usable(Body(c).quote) /\ ~Consumed(Body(c).quote)
    /\ at' = [at EXCEPT ![c] = "quoted"]
    /\ UNCHANGED <<prices, quote, booking, key, offer, answer, since, answered, task,
                   created, work>>

\* A quote that was used is answered with its task.
AnswerFromQuote(c) ==
    /\ Reading(c)
    /\ Body(c).quote # NoQuote
    /\ Usable(Body(c).quote) /\ Consumed(Body(c).quote)
    /\ at' = [at EXCEPT ![c] = "answered"]
    /\ answer' = [answer EXCEPT ![c] = quote[Body(c).quote].task]
    /\ UNCHANGED <<prices, quote, booking, key, offer, since, answered, task, created, work>>

\* Refused or lost: the app is told of no task. What a call that booked nothing
\* had computed is forgotten.
Over(c) ==
    LET booked == c \in created
    IN  /\ at' = [at EXCEPT ![c] = "over"]
        /\ key' = [key EXCEPT ![c] = IF booked THEN @ ELSE NoKey]
        /\ offer' = [offer EXCEPT ![c] = None]
        /\ since' = [since EXCEPT ![c] = IF booked THEN @ ELSE 0]
        /\ answered' = [answered EXCEPT ![c] = IF booked THEN @ ELSE {}]
        /\ UNCHANGED <<prices, quote, booking, answer, task, created, work>>

\* An expired quote is refused, a repetition of the call that used it as well.
QuoteRefused(c) ==
    /\ Reading(c)
    /\ Body(c).quote # NoQuote /\ ~Usable(Body(c).quote)
    /\ Over(c)

Offered(revision, minutes) ==
    /\ Effective(revision).active
    /\ Selectable(Effective(revision), Option)
    /\ ValidMinutes(Snapshot(revision).config, minutes)

\* The price is computed again for the booking, whatever the app was shown.
PriceTask(c) ==
    /\ at[c] = "quoted"
    /\ Body(c).minutes # 0 => Offered(CurrentRevision, Body(c).minutes)
    /\ offer' = [offer EXCEPT ![c] =
          IF Body(c).minutes # 0 THEN Snapshot(CurrentRevision) ELSE None]
    /\ at' = [at EXCEPT ![c] = "priced"]
    /\ UNCHANGED <<prices, quote, booking, key, answer, since, answered, task, created, work>>

PriceRefused(c) ==
    /\ at[c] = "quoted"
    /\ Body(c).minutes # 0 /\ ~Offered(CurrentRevision, Body(c).minutes)
    /\ Over(c)

\* validateScheduledAt: by now the chosen time is not in the future.
ScheduleRefused(c) ==
    /\ at[c] = "priced"
    /\ Over(c)

TaskOf(c) ==
    [kind |-> "task", quote |-> Body(c).quote, minutes |-> Body(c).minutes,
     budget |-> IF Body(c).minutes # 0 THEN Budget(offer[c], Body(c).minutes)
                ELSE quote[Body(c).quote].amount,
     snapshot |-> offer[c]]

AfterInsert(c) ==
    /\ created' = IF task[key[c]] = None THEN created \cup {c} ELSE created
    /\ IF Body(c).quote = NoQuote
       THEN /\ at' = [at EXCEPT ![c] = "answered"]
            /\ answer' = [answer EXCEPT ![c] = key[c]]
       ELSE /\ at' = [at EXCEPT ![c] = "inserted"]
            /\ UNCHANGED answer
    /\ offer' = [offer EXCEPT ![c] = None]
    /\ UNCHANGED <<prices, quote, booking, key, since, answered, work>>

\* Mutant of InsertTask: the conflict updates the row it finds.
InsertTaskOverwriting(c) ==
    /\ at[c] = "priced"
    /\ task' = [task EXCEPT ![key[c]] = TaskOf(c)]
    /\ AfterInsert(c)

\* INSERT ... ON CONFLICT: the row of an earlier call with the key is kept.
InsertTask(c) ==
    /\ at[c] = "priced"
    /\ task' = [task EXCEPT ![key[c]] = IF @ = None THEN TaskOf(c) ELSE @]
    /\ AfterInsert(c)

\* A statement of its own: the quote keeps the first task it was used for.
ConsumeQuote(c) ==
    /\ at[c] = "inserted"
    /\ quote' = [quote EXCEPT ![Body(c).quote].task = IF @ = NoKey THEN key[c] ELSE @]
    /\ at' = [at EXCEPT ![c] = "answered"]
    /\ answer' = [answer EXCEPT ![c] = key[c]]
    /\ UNCHANGED <<prices, booking, key, offer, since, answered, task, created, work>>

\* An error or the end of the process: what the statements wrote stays.
CallLost(c) ==
    /\ at[c] \in {"sent", "quoted", "priced", "inserted"}
    /\ Over(c)

-----------------------------------------------------------------------------
(* The job made of a task, and its bill *)

\* POST /jobs/dispatch and dispatchJob: budget and snapshot are the task's, the
\* budget computed from the snapshot once more. A repetition finds the job.
DispatchTask(k) ==
    /\ task[k] # None /\ job[k] = None
    /\ job' = [job EXCEPT ![k] =
          [kind |-> "job", snapshot |-> task[k].snapshot, minutes |-> task[k].minutes,
           budget |-> IF task[k].snapshot = None THEN task[k].budget
                      ELSE Budget(task[k].snapshot, task[k].minutes)]]
    /\ UNCHANGED <<prices, quote, calls, task, created, bill>>

\* What confirmCompletion charges: with a snapshot, the final price for the
\* minutes; approved additional labour counts only without one.
BillFor(j, w) ==
    IF j.snapshot = None
    THEN [kind |-> "bill", work |-> w, labour |-> j.budget + w.additional,
          customer |-> 0, worker |-> 0]
    ELSE LET final == Final(j.snapshot.config, j.minutes, w.verified, w.approved)
         IN  [kind |-> "bill", work |-> w, labour |-> final.customer \div 100,
              customer |-> final.customer, worker |-> final.worker]

ConfirmCompletion(k, w) ==
    /\ job[k] # None /\ bill[k] = None
    /\ bill' = [bill EXCEPT ![k] = BillFor(job[k], w)]
    /\ UNCHANGED <<prices, quote, calls, task, created, job>>

-----------------------------------------------------------------------------
Init ==
    /\ row = <<>>
    /\ admin = [a \in Admin |-> [at |-> "idle"]]
    /\ quote = [q \in Quote |-> [stage |-> "none", amount |-> 0, task |-> NoKey]]
    /\ booking = [k \in Key |-> None]
    /\ at = [c \in Call |-> "idle"]
    /\ key = [c \in Call |-> NoKey]
    /\ offer = [c \in Call |-> None]
    /\ answer = [c \in Call |-> NoKey]
    /\ task = [k \in Key |-> None]
    /\ job = [k \in Key |-> None]
    /\ bill = [k \in Key |-> None]
    /\ since = [c \in Call |-> 0]
    /\ answered = [c \in Call |-> {}]
    /\ created = {}

PricingNext ==
    \E a \in Admin :
        \/ \E value \in Value : LockService(a, value)
        \/ CommitPricing(a) \/ PricingFails(a)

QuoteNext ==
    \E q \in Quote :
        \/ \E chores \in Scope, hours \in Hours : RequestQuote(q, chores, hours)
        \/ QuoteExpires(q)

CallNext ==
    \E c \in Call :
        \/ \E k \in Key, q \in Quote \cup {NoQuote}, minutes \in Minutes \cup {0} :
              Send(c, k, q, minutes)
        \/ ReadQuote(c) \/ AnswerFromQuote(c) \/ QuoteRefused(c)
        \/ PriceTask(c) \/ PriceRefused(c) \/ ScheduleRefused(c)
        \/ InsertTask(c) \/ ConsumeQuote(c) \/ CallLost(c)

JobNext ==
    \E k \in Key :
        \/ DispatchTask(k)
        \/ \E w \in Work : ConfirmCompletion(k, w)

Next == PricingNext \/ QuoteNext \/ CallNext \/ JobNext

Spec == Init /\ [][Next]_vars

-----------------------------------------------------------------------------
(* Properties *)

\* Of two administrators who publish at once one comes after the other: the
\* newest version is the only one in force, every version's audit entry names
\* the one it replaced, and nobody holds the lock with an outdated revision.
PublicationOrder ==
    /\ \A n \in DOMAIN row : row[n].current <=> n = Latest
    /\ \A n \in DOMAIN row : row[n].before = n - 1
    /\ \A a \in Locked : admin[a].revision = Latest + 1 /\ admin[a].current = Latest

\* "Existing bookings retain their saved pricing and scope snapshot": neither a
\* publication nor a repeated call nor the end of the job changes what was
\* booked, dispatched or billed.
BookingKeepsItsPrice ==
    [][\A k \in Key :
        /\ task[k] # None => task'[k] = task[k]
        /\ job[k] # None => job'[k] = job[k]
        /\ bill[k] # None => bill'[k] = bill[k]]_vars

\* The price of a booking was in force at some moment between the call that
\* made the booking and its insertion.
PriceWasCurrent ==
    \A c \in created :
        LET snapshot == task[key[c]].snapshot
        IN  snapshot # None => snapshot.version \in since[c] .. Latest

SameBooking(c, d) ==
    \/ key[c] = key[d]
    \/ Body(c).quote # NoQuote /\ Body(c).quote = Body(d).quote

\* Once a call was answered with its task, no later call for the same booking,
\* with its key or with its quote, books it again.
AnsweredIsNotBookedAgain ==
    \A c \in created : \A d \in answered[c] : ~SameBooking(c, d)

\* "Final labour uses verified working time. Additional time or work cannot
\* increase your bill without your approval": a bill stays within the budget
\* plus the approved time, whatever is published since the booking, and the
\* worker never gets more than the customer pays.
BillWithinApproval ==
    \A k \in Key : bill[k] # None =>
        LET w == bill[k].work
        IN  IF task[k].snapshot = None THEN bill[k].labour = task[k].budget + w.additional
            ELSE /\ bill[k].labour <= Budget(task[k].snapshot, task[k].minutes + w.approved)
                 /\ w.approved = 0 => bill[k].labour <= task[k].budget
                 /\ bill[k].worker <= bill[k].customer
=============================================================================
