--------------------------- MODULE DispatchLocks ----------------------------
(***************************************************************************)
(* The transactions of jobDispatch.js and pendingJob.js statement by       *)
(* statement, on one dispatch row and its offers: PostgreSQL's READ        *)
(* COMMITTED isolation, its row locks and its deadlock detection, and the  *)
(* connections of the pool, one of which may come back with a transaction  *)
(* left open. What is committed implements JobOffers and JobAssignment,    *)
(* which Dispatch implements with each handler as one step.                *)
(*                                                                         *)
(* A statement reads the committed rows and its transaction's own, then    *)
(* visits the rows it found one by one: it waits for the row's lock, looks *)
(* at its condition again and writes.                                      *)
(***************************************************************************)
EXTENDS Naturals, FiniteSets

CONSTANTS
    Worker,           \* verified worker enrollments, each with one offer row
    NoWorker,         \* accepted_worker_id IS NULL
    Session,          \* connections of the pool
    NoSession,        \* the holder of a free lock
    DispatchRow,      \* the row of worker_job_dispatches; an offer row has
                      \* the name of its worker
    NoRow,
    MaxReplacements,  \* MAX_REPLACEMENT_ATTEMPTS
    Traffic           \* the requests made

VARIABLES
    job,         \* the committed dispatch row
    offer,       \* the committed offer rows, "none": no row
    newJob,      \* the dispatch row as the holder of its lock left it
    newOffer,    \* each offer row as the holder of its lock left it
    lock,        \* [Row -> the connection whose transaction wrote or locked it]
    request,     \* the request a connection serves
    statement,   \* the statement it is at, "idle" between requests
    want,        \* the row the statement visits, NoRow before it reads
    rows,        \* the rows it will visit after that one
    open,        \* BEGIN was sent, and no COMMIT or ROLLBACK since
    began,       \* the clock when its transaction began: NOW(); 0 without one
    clock        \* how many search rounds ran out of their two minutes

table == <<job, offer>>
draft == <<newJob, newOffer>>
control == <<request, statement, want, rows>>
vars == <<table, draft, lock, control, open, began, clock>>

Row == {DispatchRow} \cup Worker

-----------------------------------------------------------------------------
(* Requests and their statements *)

Active == {"accepted", "arrived", "started", "completion_requested"}
Terminal == {"completed", "cancelled", "expired"}
JobStatus == {"none", "offered"} \cup Active \cup Terminal
OfferStatus == {"none", "offered", "accepted", "rejected", "expired", "cancelled"}

\* What the assigned worker reports, and from which status.
Progress ==
    [arrived |-> {"accepted"}, started |-> {"arrived"},
     completion_requested |-> {"started"}, completed |-> {"started"}]

\* Mutant of First: a cancellation closes the offers before it ends the job.
FirstOffers ==
    [accept |-> "claimOffer", reject |-> "claimOffer", cancel |-> "closeAll",
     release |-> "giveUp", progress |-> "progress", expire |-> "expire",
     closeExpired |-> "closeExpired"]

\* The statement each kind of request begins with. A poll of the customer is
\* "expire"; a recovery poll of a worker is that and then "closeExpired", on
\* any connection.
First ==
    [accept |-> "claimOffer", reject |-> "claimOffer", cancel |-> "cancelJob",
     release |-> "giveUp", progress |-> "progress", expire |-> "expire",
     closeExpired |-> "closeExpired"]

NoRequest == [kind |-> "none", worker |-> NoWorker, next |-> "none"]

Request ==
    [kind : {"accept", "reject", "release"}, worker : Worker, next : {"none"}]
    \cup [kind : {"progress"}, worker : Worker, next : DOMAIN Progress]
    \cup [kind : {"cancel", "expire", "closeExpired"}, worker : {NoWorker},
          next : {"none"}]

ASSUME LocksAssumption ==
    /\ NoWorker \notin Worker /\ NoSession \notin Session
    /\ DispatchRow \notin Worker /\ NoRow \notin Worker \cup {DispatchRow}
    /\ MaxReplacements \in Nat
    /\ Traffic \subseteq Request

\* pool.query: one statement and no BEGIN.
Autocommit == {"expire", "closeExpired"}

\* The statements that end the handler when they find nothing.
Guarding == {"claimOffer", "claimJob", "cancelJob", "giveUp", "progress"}

Statement ==
    {"idle", "commit", "rollback", "closeOthers", "closeAll", "ownOffer", "reoffer",
     "expire", "closeExpired"} \cup Guarding

Idle(s) == statement[s] = "idle"

\* A connection that went back to the pool inside a transaction.
Leaked(s) == Idle(s) /\ open[s]

-----------------------------------------------------------------------------
(* What a transaction sees: its own writes, and what is committed otherwise *)

SeenJob(s) == IF lock[DispatchRow] = s THEN newJob ELSE job
SeenOffer(s, w) == IF lock[w] = s THEN newOffer[w] ELSE offer[w]

\* expires_at > NOW(), and NOW() is the time the transaction began.
Live(s) == began[s] <= SeenJob(s).attempts

\* The condition a statement puts on a row it is about to write.
Holds(s, row) ==
    LET w == request[s].worker
        seen == SeenJob(s)
        at == statement[s]
    IN  \/ at = "claimOffer" /\ SeenOffer(s, w) = "offered"
        \/ at = "claimJob" /\ seen.status = "offered" /\ Live(s)
        \/ at = "cancelJob" /\ seen.status \in {"offered"} \cup Active
        \/ at = "giveUp" /\ seen.worker = w /\ seen.status \in {"accepted", "arrived"}
        \/ /\ at = "progress" /\ seen.worker = w
           /\ seen.status \in Progress[request[s].next]
        \/ at = "expire" /\ seen.status = "offered" /\ ~Live(s)
        \/ at \in {"closeOthers", "closeExpired"} /\ SeenOffer(s, row) = "offered"
        \/ at = "closeAll" /\ SeenOffer(s, row) # "none"
        \/ at = "ownOffer"
        \/ at = "reoffer" /\ SeenOffer(s, row) \notin {"rejected", "cancelled"}

\* Mutant of HoldsStill: the row is written as it was found.
HoldsAsRead(s, row) == TRUE

\* The condition is looked at again once the row's lock is held.
HoldsStill(s, row) == Holds(s, row)

\* The rows a statement finds when it starts: for a replacement search any of
\* the candidates. Offers are claimed and closed depending on the dispatch
\* status the statement sees then, which is not looked at again.
Found(s) ==
    LET w == request[s].worker
        meeting(those) == {{r \in those : Holds(s, r)}}
        at == statement[s]
    IN  CASE at = "claimOffer" ->
                IF SeenJob(s).status = "offered" /\ Live(s) THEN meeting({w}) ELSE {{}}
          [] at = "closeExpired" ->
                IF SeenJob(s).status = "expired" THEN meeting(Worker) ELSE {{}}
          [] at = "closeOthers" -> meeting(Worker \ {w})
          [] at = "closeAll" -> meeting(Worker)
          [] at = "ownOffer" -> {{w}}
          [] at = "reoffer" ->
                SUBSET {v \in Worker \ SeenJob(s).excluded : SeenOffer(s, v) # "rejected"}
          [] at = "cancelJob" -> IF SeenJob(s).status = "none" THEN {{}} ELSE {{DispatchRow}}
          [] OTHER -> meeting({DispatchRow})

-----------------------------------------------------------------------------
(* What a statement writes, and what comes after it *)

\* The statement after one that did its work.
Follow(s) ==
    LET at == statement[s]
    IN  CASE at = "claimOffer" /\ request[s].kind = "accept" -> "claimJob"
          [] at = "claimJob" -> "closeOthers"
          [] at = "cancelJob" -> "closeAll"
          [] at = "giveUp" -> "ownOffer"
          [] at = "ownOffer" /\ SeenJob(s).status = "offered" -> "reoffer"
          [] OTHER -> "commit"

\* Mutant of Missed: the claim of the job is not checked.
MissedUnchecked(s) == {Follow(s)}

\* The statement after one that found nothing, or nothing it may write. A
\* worker's cancellation that was served before is answered with what it did.
Missed(s) ==
    LET at == statement[s]
    IN  CASE at = "progress" -> {"commit"}
          [] at = "giveUp" -> {"commit", "rollback"}
          [] at = "cancelJob" /\ SeenJob(s).status = "cancelled" -> {"commit"}
          [] at \in {"claimOffer", "claimJob", "cancelJob"} -> {"rollback"}
          [] OTHER -> {Follow(s)}

JobWritten(s) ==
    LET seen == SeenJob(s)
        w == request[s].worker
        at == statement[s]
    IN  CASE at = "claimJob" -> [seen EXCEPT !.status = "accepted", !.worker = w]
          [] at = "cancelJob" -> [seen EXCEPT !.status = "cancelled"]
          [] at = "progress" -> [seen EXCEPT !.status = request[s].next]
          [] at = "expire" -> [seen EXCEPT !.status = "expired"]
          [] at = "giveUp" ->
                [status |-> IF seen.attempts < MaxReplacements THEN "offered" ELSE "expired",
                 worker |-> NoWorker,
                 attempts |-> seen.attempts + 1,
                 excluded |-> seen.excluded \cup {w}]

\* Mutant of OfferWritten: a word of the request is stored.
OfferWrittenVerbatim(s, w) == request[s].kind

OfferWritten(s, w) ==
    LET seen == SeenOffer(s, w)
        at == statement[s]
    IN  CASE at = "claimOffer" ->
                IF request[s].kind = "accept" THEN "accepted" ELSE "rejected"
          [] at \in {"closeOthers", "closeExpired"} -> "expired"
          [] at = "ownOffer" -> "cancelled"
          [] at = "reoffer" -> "offered"
          [] at = "closeAll" ->
                IF seen \in {"offered", "accepted"} THEN "cancelled" ELSE seen

-----------------------------------------------------------------------------
Blank == [status |-> "none", worker |-> NoWorker, attempts |-> 0, excluded |-> {}]

JobRow ==
    [status : JobStatus, worker : Worker \cup {NoWorker},
     attempts : 0..(MaxReplacements + 1), excluded : SUBSET Worker]

TypeOK ==
    /\ {job, newJob} \subseteq JobRow
    /\ {offer, newOffer} \subseteq [Worker -> OfferStatus]
    /\ lock \in [Row -> Session \cup {NoSession}]
    /\ request \in [Session -> Request \cup {NoRequest}]
    /\ statement \in [Session -> Statement]
    /\ want \in [Session -> Row \cup {NoRow}]
    /\ rows \in [Session -> SUBSET Row]
    /\ open \in [Session -> BOOLEAN]
    /\ began \in [Session -> 0..(MaxReplacements + 2)]
    /\ clock \in 0..(MaxReplacements + 2)

Init ==
    /\ job = Blank /\ newJob = Blank
    /\ offer = [w \in Worker |-> "none"] /\ newOffer = offer
    /\ lock = [r \in Row |-> NoSession]
    /\ request = [s \in Session |-> NoRequest]
    /\ statement = [s \in Session |-> "idle"]
    /\ want = [s \in Session |-> NoRow]
    /\ rows = [s \in Session |-> {}]
    /\ open = [s \in Session |-> FALSE]
    /\ began = [s \in Session |-> 0]
    /\ clock = 0

-----------------------------------------------------------------------------
(* Requests *)

\* dispatchJob: the rows exist for nobody before it commits, so nobody waits
\* for them.
DispatchJob ==
    /\ job.status = "none"
    /\ job' = [job EXCEPT !.status = "offered"] /\ newJob' = job'
    /\ \E candidates \in SUBSET Worker :
          offer' = [w \in Worker |-> IF w \in candidates THEN "offered" ELSE "none"]
    /\ newOffer' = offer'
    /\ UNCHANGED <<lock, control, open, began, clock>>

\* The connection turns to statement at, which has not read yet.
GoTo(s, at) ==
    /\ statement' = [statement EXCEPT ![s] = at]
    /\ want' = [want EXCEPT ![s] = NoRow]
    /\ rows' = [rows EXCEPT ![s] = {}]

\* A connection takes a request. On one that was left in a transaction BEGIN
\* does nothing, and a single statement is not committed.
Begin(s, req) ==
    /\ Idle(s) /\ job.status # "none"
    /\ request' = [request EXCEPT ![s] = req]
    /\ GoTo(s, First[req.kind])
    /\ began' = IF open[s] THEN began ELSE [began EXCEPT ![s] = clock]
    /\ open' = [open EXCEPT ![s] = open[s] \/ req.kind \notin Autocommit]
    /\ UNCHANGED <<table, draft, lock, clock>>

\* respondToJob for a phone number nobody enrolled with returns between BEGIN
\* and ROLLBACK.
RespondUnknown(s) ==
    /\ Idle(s) /\ ~open[s]
    /\ open' = [open EXCEPT ![s] = TRUE]
    /\ began' = [began EXCEPT ![s] = clock]
    /\ UNCHANGED <<table, draft, lock, control, clock>>

-----------------------------------------------------------------------------
(* Statements *)

\* The statement reads, and turns to the first of its rows in some order.
Read(s) ==
    /\ statement[s] \notin {"idle", "commit", "rollback"} /\ want[s] = NoRow
    /\ \E found \in Found(s) :
          IF found = {} THEN \E at \in Missed(s) : GoTo(s, at)
          ELSE \E r \in found :
                  /\ want' = [want EXCEPT ![s] = r]
                  /\ rows' = [rows EXCEPT ![s] = found \ {r}]
                  /\ UNCHANGED statement
    /\ UNCHANGED <<table, draft, lock, request, open, began, clock>>

\* On to the next row of the statement, or to the next statement.
Advance(s) ==
    IF rows[s] = {} THEN GoTo(s, Follow(s))
    ELSE \E r \in rows[s] :
            /\ want' = [want EXCEPT ![s] = r]
            /\ rows' = [rows EXCEPT ![s] = @ \ {r}]
            /\ UNCHANGED statement

\* The statement gets the lock of its row, which is kept to the end of the
\* transaction also if the row is not written.
Visit(s) ==
    LET r == want[s]
    IN  /\ r # NoRow /\ lock[r] \in {NoSession, s}
        /\ lock' = [lock EXCEPT ![r] = s]
        /\ IF HoldsStill(s, r)
           THEN /\ IF r = DispatchRow
                   THEN newJob' = JobWritten(s) /\ UNCHANGED newOffer
                   ELSE /\ newOffer' = [newOffer EXCEPT ![r] = OfferWritten(s, r)]
                        /\ UNCHANGED newJob
                /\ Advance(s)
           ELSE /\ UNCHANGED draft
                /\ IF statement[s] \in Guarding THEN \E at \in Missed(s) : GoTo(s, at)
                   ELSE Advance(s)
        /\ UNCHANGED <<table, request, open, began, clock>>

-----------------------------------------------------------------------------
(* The ends of a transaction *)

Publish(s) ==
    /\ job' = IF lock[DispatchRow] = s THEN newJob ELSE job
    /\ offer' = [w \in Worker |-> SeenOffer(s, w)]
    /\ UNCHANGED draft

Undo(s) ==
    /\ newJob' = IF lock[DispatchRow] = s THEN job ELSE newJob
    /\ newOffer' = [w \in Worker |-> IF lock[w] = s THEN offer[w] ELSE newOffer[w]]
    /\ UNCHANGED table

Release(s) ==
    /\ lock' = [r \in Row |-> IF lock[r] = s THEN NoSession ELSE lock[r]]
    /\ open' = [open EXCEPT ![s] = FALSE]
    /\ began' = [began EXCEPT ![s] = 0]

\* The connection goes back to the pool.
Return(s) ==
    /\ request' = [request EXCEPT ![s] = NoRequest]
    /\ GoTo(s, "idle")

\* A single statement commits by itself, unless a transaction is open.
Commit(s) ==
    /\ statement[s] = "commit"
    /\ IF request[s].kind \in Autocommit /\ open[s]
       THEN UNCHANGED <<table, draft, lock, open, began>>
       ELSE Publish(s) /\ Release(s)
    /\ Return(s)
    /\ UNCHANGED clock

Rollback(s) ==
    /\ statement[s] = "rollback"
    /\ Undo(s) /\ Release(s) /\ Return(s)
    /\ UNCHANGED clock

\* The connection s waits for: the holder of the row it wants.
WaitsFor(s) == IF want[s] = NoRow THEN NoSession ELSE lock[want[s]]

\* Connections that wait for each other in a ring.
Ring(ring) ==
    \A t \in ring : WaitsFor(t) \in ring \ {t} /\ \E u \in ring : WaitsFor(u) = t

Deadlocked(s) == \E ring \in SUBSET Session : s \in ring /\ Ring(ring)

\* After deadlock_timeout the database ends one of them with an error. The
\* handler rolls back and answers 500; pool.query closes the connection.
Abort(s) ==
    /\ Deadlocked(s)
    /\ Undo(s) /\ Release(s) /\ Return(s)
    /\ UNCHANGED clock

\* The pool closes a connection it has not used for a while, and the database
\* rolls back what was left open.
IdleTimeout(s) ==
    /\ Leaked(s)
    /\ Undo(s) /\ Release(s)
    /\ UNCHANGED <<control, clock>>

\* Two minutes pass since the search, or its latest round, began.
Lapse ==
    /\ job.status # "none" /\ clock <= job.attempts
    /\ clock' = job.attempts + 1
    /\ UNCHANGED <<table, draft, lock, control, open, began>>

SessionNext(s) ==
    \/ \E req \in Traffic : Begin(s, req)
    \/ RespondUnknown(s)
    \/ Read(s) \/ Visit(s)
    \/ Commit(s) \/ Rollback(s) \/ Abort(s) \/ IdleTimeout(s)

Next == DispatchJob \/ Lapse \/ \E s \in Session : SessionNext(s)

Spec == Init /\ [][Next]_vars

-----------------------------------------------------------------------------
(* Properties *)

\* Whatever the transactions in progress have written, what is committed names
\* one worker, in the row and in the offers alike, no open offer of a job
\* somebody else got, and no live offer of a job the customer cancelled.
CommittedConsistent ==
    /\ job.status \in Active => job.worker \in Worker
    /\ job.status \in Active \cup {"completed"} =>
          \A w \in Worker : offer[w] = "accepted" <=> w = job.worker
    /\ job.status \in {"none", "offered", "expired"} =>
          job.worker = NoWorker /\ \A w \in Worker : offer[w] # "accepted"
    /\ job.status = "cancelled" =>
          \A w \in Worker : offer[w] \notin {"offered", "accepted"}
    /\ \A w \in Worker : offer[w] = "offered" => job.status \in {"offered", "expired"}
    /\ \A w \in job.excluded : offer[w] = "cancelled"

-----------------------------------------------------------------------------
(* Why it holds: how far each transaction has got with the rows, as it sees  *)
(* them. What a transaction sees differs from what is committed only where it *)
(* holds the lock, so the differences below are also claims about locks.     *)

\* The job is as committed, or its search was found to have run out.
SameOrExpired(s) ==
    \/ SeenJob(s) = job
    \/ job.status = "offered" /\ SeenJob(s) = [job EXCEPT !.status = "expired"]

SameOffers(s, workers) == \A w \in workers : SeenOffer(s, w) = offer[w]

\* The search is over and its open offers are closed, except those the
\* statement has still to visit.
Closing(s, pending) ==
    /\ SeenJob(s).status = "expired"
    /\ \A w \in Worker :
          /\ \/ SeenOffer(s, w) = offer[w]
             \/ offer[w] = "offered" /\ SeenOffer(s, w) = "expired"
          /\ SeenOffer(s, w) = "offered" => w \in pending

\* What a connection may have left in an open transaction, or a request that
\* has written nothing yet.
OnlyExpired(s) == SameOrExpired(s) /\ (SameOffers(s, Worker) \/ Closing(s, {}))

Untouched(s) == SeenJob(s) = job /\ SameOffers(s, Worker)

\* respondToJob has claimed the worker's open offer.
Answered(s, answer) ==
    LET w == request[s].worker
    IN  /\ SeenJob(s) = job /\ SameOffers(s, Worker \ {w})
        /\ w \in Worker /\ offer[w] = "offered" /\ SeenOffer(s, w) = answer

\* And then the job, which was open; the other open offers are closed except
\* those it has still to visit.
Accepted(s, pending) ==
    LET w == request[s].worker
    IN  /\ job.status = "offered"
        /\ SeenJob(s) = [job EXCEPT !.status = "accepted", !.worker = w]
        /\ w \in Worker /\ offer[w] = "offered" /\ SeenOffer(s, w) = "accepted"
        /\ \A v \in Worker \ {w} :
              /\ \/ SeenOffer(s, v) = offer[v]
                 \/ offer[v] = "offered" /\ SeenOffer(s, v) = "expired"
              /\ SeenOffer(s, v) = "offered" => v \in pending

\* The customer's cancellation has ended the job, and every live offer except
\* those it has still to visit.
Cancelled(s, pending) ==
    /\ job.status \in {"offered"} \cup Active
    /\ SeenJob(s) = [job EXCEPT !.status = "cancelled"]
    /\ \A v \in Worker :
          /\ \/ SeenOffer(s, v) = offer[v]
             \/ offer[v] \in {"offered", "accepted"} /\ SeenOffer(s, v) = "cancelled"
          /\ SeenOffer(s, v) \in {"offered", "accepted"} => v \in pending

\* The assigned worker has given the job up.
GaveUp(s) ==
    LET w == request[s].worker
    IN  /\ w \in Worker /\ job.worker = w /\ job.status \in {"accepted", "arrived"}
        /\ SeenJob(s) =
              [status |-> IF job.attempts < MaxReplacements THEN "offered" ELSE "expired",
               worker |-> NoWorker, attempts |-> job.attempts + 1,
               excluded |-> job.excluded \cup {w}]

\* And the offer with it; the replacements have theirs.
Reoffered(s) ==
    LET w == request[s].worker
    IN  /\ GaveUp(s) /\ SeenOffer(s, w) = "cancelled"
        /\ \A v \in Worker \ {w} :
              \/ SeenOffer(s, v) = offer[v]
              \/ /\ SeenJob(s).status = "offered"
                 /\ offer[v] \notin {"rejected", "cancelled"} /\ SeenOffer(s, v) = "offered"

\* The assigned worker has reported progress.
Reported(s) ==
    /\ \E next \in DOMAIN Progress :
          job.status \in Progress[next] /\ SeenJob(s) = [job EXCEPT !.status = next]
    /\ SameOffers(s, Worker)

\* The rows the statement has found and not visited, all it may find before.
Pending(s) == IF want[s] = NoRow THEN Worker ELSE rows[s] \cup {want[s]}

\* What its transaction has done to the job and the offers when a connection
\* is at a statement, or about to end.
StageInv(s) ==
    LET at == statement[s]
        kind == request[s].kind
    IN  /\ at \in {"idle", "cancelJob", "giveUp", "progress", "expire"} => OnlyExpired(s)
        /\ at = "claimOffer" =>
              IF want[s] = NoRow THEN OnlyExpired(s) ELSE Untouched(s)
        /\ at = "closeExpired" =>
              IF want[s] = NoRow THEN OnlyExpired(s)
              ELSE SameOrExpired(s) /\ Closing(s, Pending(s))
        /\ at = "claimJob" => Answered(s, "accepted")
        /\ at = "closeOthers" => Accepted(s, Pending(s))
        /\ at = "closeAll" => Cancelled(s, Pending(s))
        /\ at = "ownOffer" => GaveUp(s) /\ SameOffers(s, Worker)
        /\ at = "reoffer" => Reoffered(s) /\ SeenJob(s).status = "offered"
        /\ at = "rollback" => OnlyExpired(s) \/ Answered(s, "accepted")
        /\ at = "commit" =>
              \/ OnlyExpired(s)
              \/ kind = "reject" /\ Answered(s, "rejected")
              \/ kind = "accept" /\ Accepted(s, {})
              \/ kind = "cancel" /\ Cancelled(s, {})
              \/ kind = "release" /\ Reoffered(s)
              \/ kind = "progress" /\ Reported(s)

\* The requests a statement serves, and the rows it visits.
ServedAt(at) ==
    CASE at = "claimOffer" -> {"accept", "reject"}
      [] at \in {"claimJob", "closeOthers"} -> {"accept"}
      [] at \in {"cancelJob", "closeAll"} -> {"cancel"}
      [] at \in {"giveUp", "ownOffer", "reoffer"} -> {"release"}
      [] at \in {"commit", "rollback"} -> DOMAIN First
      [] OTHER -> {at}

VisitedAt(s) ==
    LET at == statement[s]
    IN  CASE at \in {"claimOffer", "ownOffer"} -> {request[s].worker}
          [] at = "closeOthers" -> Worker \ {request[s].worker}
          [] at \in {"closeAll", "closeExpired", "reoffer"} -> Worker
          [] at \in {"idle", "commit", "rollback"} -> {}
          [] OTHER -> {DispatchRow}

\* A connection serves a request its statement belongs to, and visits rows the
\* statement finds.
PathInv(s) ==
    /\ IF Idle(s) THEN request[s] = NoRequest
       ELSE request[s] \in Request /\ request[s].kind \in ServedAt(statement[s])
    /\ IF want[s] = NoRow THEN rows[s] = {}
       ELSE want[s] \in VisitedAt(s) /\ rows[s] \subseteq VisitedAt(s) \ {want[s]}

\* A draft of a row nobody has locked is the committed row; and a connection
\* that rests in the pool with no open transaction has no locks.
DraftsAreLocked ==
    /\ lock[DispatchRow] = NoSession => newJob = job
    /\ \A w \in Worker : lock[w] = NoSession => newOffer[w] = offer[w]
    /\ \A r \in Row, s \in Session : lock[r] = s /\ Idle(s) => open[s]

\* Before the job is posted nothing is locked or served.
UnpostedIsQuiet ==
    job.status = "none" =>
        /\ job = Blank /\ \A w \in Worker : offer[w] = "none"
        /\ \A r \in Row : lock[r] = NoSession
        /\ \A s \in Session : Idle(s)

\* The inductive invariant. A transaction has written just what its statements
\* up to now write, on top of rows that are committed as they were when it
\* locked them; a job out of replacements is expired, so the clock ends.
LocksInv ==
    /\ TypeOK
    /\ CommittedConsistent
    /\ job.attempts > MaxReplacements => job.status = "expired"
    /\ DraftsAreLocked
    /\ UnpostedIsQuiet
    /\ \A s \in Session : PathInv(s) /\ StageInv(s)

-----------------------------------------------------------------------------
\* Where a job with this status is in the assignment protocol.
PhaseOf(status) ==
    IF status = "none" THEN "unposted"
    ELSE IF status = "offered" THEN "open"
    ELSE IF status \in Active THEN "assigned" ELSE "closed"

Assignment == INSTANCE JobAssignment
    WITH Job <- {DispatchRow},
         phase <- [j \in {DispatchRow} |-> PhaseOf(job.status)],
         holder <- [j \in {DispatchRow} |-> job.worker],
         releases <- [j \in {DispatchRow} |-> job.attempts],
         released <- [j \in {DispatchRow} |-> job.excluded],
         gone <- {}

\* The handlers, interleaved statement by statement, are atomic steps of the
\* assignment protocol when they commit.
ImplementsAssignment == Assignment!Spec

Offers == INSTANCE JobOffers
    WITH status <- job.status, holder <- job.worker, releases <- job.attempts,
         released <- job.excluded, gone <- {}

\* The rows and offers change as if the requests came one after the other: a
\* commit is what one handler does to the rows that are committed then, nothing
\* more, nothing less, although it read them earlier and in pieces, and maybe in
\* a transaction that another request had opened.
HandlersAreAtomic == Offers!Spec

\* The committed status goes through the stages of a job in order: no statement
\* that was planned on an older status brings an ended job back.
ImplementsLifecycle == Offers!Lifecycle!Spec

\* A worker whose rejection is committed is not asked again: neither by a
\* replacement search that began before it, nor by a search on top of another
\* request's open transaction.
RejectionIsFinal ==
    [][\A w \in Worker : offer[w] = "rejected" => offer'[w] = "rejected"]_offer

\* Who gave the job up never gets it again, nor an offer of it.
GivenUpForGood ==
    \A w \in job.excluded : offer[w] = "cancelled" /\ job.worker # w

\* Each worker's release is counted once, also when the cancellation is repeated
\* on another connection while the first is running; the last one allowed ends
\* the job.
ReplacementBudget ==
    /\ IsFiniteSet(job.excluded)
    /\ job.attempts = Cardinality(job.excluded)
    /\ job.attempts <= MaxReplacements + 1
    /\ job.attempts > MaxReplacements => job.status = "expired"

\* The statements that open a transaction's work.
Openings == {"claimOffer", "cancelJob", "giveUp", "progress", "expire"}

\* An acceptance claims its offer before the job; a recovery poll closes the
\* offers of an expired job in no order; a request on a connection that came
\* back inside a transaction may hold rows before its first statement.
OutOfOrder(t) ==
    \/ request[t].kind \in {"accept", "closeExpired"}
    \/ statement[t] \in Openings /\ \E r \in Row : lock[r] = t

\* Connections that wait for each other in a ring include one that is out of
\* order: every other handler locks the dispatch row first and may wait for
\* offers then, so cancellations, progress reports, rejections and a customer's
\* polls never deadlock among themselves.
DeadlocksNeedDisorder ==
    \A ring \in SUBSET Session :
        ring # {} /\ Ring(ring) => \E t \in ring : OutOfOrder(t)

\* "Another worker accepted this job first" is what a worker who comes second
\* is told. But the first, when closing the other offers, waits for the second,
\* whose offer is claimed, and the second for the dispatch row: one of them gets
\* an error, and this does not hold.
AcceptanceNeverDeadlocks ==
    \A s \in Session : request[s].kind = "accept" => ~Deadlocked(s)
=============================================================================
