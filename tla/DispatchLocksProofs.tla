------------------------ MODULE DispatchLocksProofs -------------------------
(***************************************************************************)
(* Theorems about DispatchLocks for every number of workers, connections   *)
(* and replacements, and any requests: what is committed is consistent,    *)
(* the transactions, interleaved statement by statement, implement the     *)
(* assignment protocol, each commit is one request of JobOffers, and       *)
(* deadlocks need a handler that is out of order.                          *)
(***************************************************************************)
EXTENDS DispatchLocks, FiniteSetTheorems, TLAPS

-----------------------------------------------------------------------------
(* Types *)

LEMMA Requests ==
  ASSUME NEW req \in Request
  PROVE  /\ req.kind \in DOMAIN First
         /\ req.worker \in Worker \cup {NoWorker}
         /\ req.kind \in {"accept", "reject", "release", "progress"} => req.worker \in Worker
         /\ req.kind = "progress" => req.next \in DOMAIN Progress
  BY DEF Request, First, Progress

LEMMA FirstStatements ==
  ASSUME NEW kind \in DOMAIN First
  PROVE  /\ First[kind] \in {"claimOffer", "cancelJob", "giveUp", "progress", "expire",
                             "closeExpired"}
         /\ kind \in ServedAt(First[kind])
  BY DEF First, ServedAt

LEMMA Reports ==
  ASSUME NEW next \in DOMAIN Progress
  PROVE  next \in Active \cup {"completed"} /\ Progress[next] \subseteq Active
  BY DEF Progress, Active

\* What a transaction sees has the types of the rows.
LEMMA SeenTypes ==
  ASSUME TypeOK, NEW s \in Session
  PROVE  /\ SeenJob(s) \in JobRow
         /\ \A w \in Worker : SeenOffer(s, w) \in OfferStatus
  BY DEF TypeOK, SeenJob, SeenOffer

-----------------------------------------------------------------------------
LEMMA InitInv == Init => LocksInv
  <1> SUFFICES ASSUME Init PROVE LocksInv
    OBVIOUS
  <1> USE LocksAssumption DEF Init
  <1>1. TypeOK
    BY DEF TypeOK, Blank, JobRow, JobStatus, OfferStatus, Statement, Guarding
  <1>2. CommittedConsistent /\ (job.attempts > MaxReplacements => job.status = "expired")
    BY DEF CommittedConsistent, Blank, Active
  <1>3. DraftsAreLocked /\ UnpostedIsQuiet
    BY DEF DraftsAreLocked, UnpostedIsQuiet, Idle
  <1>4. ASSUME NEW s \in Session PROVE PathInv(s) /\ StageInv(s)
    BY DEF PathInv, StageInv, Idle, OnlyExpired, SameOrExpired, SameOffers, Closing, SeenJob,
           SeenOffer, Row
  <1>5. QED
    BY <1>1, <1>2, <1>3, <1>4 DEF LocksInv

-----------------------------------------------------------------------------
(* A step of one transaction, and what the others see *)

\* The connection's control and what it sees are left alone.
Unmoved(t) ==
    /\ table' = table
    /\ SeenJob(t)' = SeenJob(t)
    /\ \A w \in Worker : SeenOffer(t, w)' = SeenOffer(t, w)
    /\ request'[t] = request[t] /\ statement'[t] = statement[t]
    /\ want'[t] = want[t] /\ rows'[t] = rows[t]

LEMMA UnmovedKeeps ==
  ASSUME NEW t \in Session, Unmoved(t), PathInv(t), StageInv(t)
  PROVE  PathInv(t)' /\ StageInv(t)'
  <1>1. PathInv(t)'
    BY DEF Unmoved, PathInv, Idle, VisitedAt, ServedAt
  <1>2. StageInv(t)'
    BY DEF Unmoved, table, StageInv, OnlyExpired, SameOrExpired, SameOffers, Closing, Untouched,
           Answered, Accepted, Cancelled, GaveUp, Reoffered, Reported, Pending
  <1>3. QED
    BY <1>1, <1>2

-----------------------------------------------------------------------------
(* What a statement writes *)

LEMMA Paths ==
  ASSUME NEW s \in Session
  PROVE  /\ Missed(s) \subseteq Statement \ {"idle"}
         /\ Follow(s) \in Statement \ {"idle"}
  BY DEF Missed, Follow, Statement, Guarding

\* Only five statements write the dispatch row, each in its own case.
LEMMA JobVisits ==
  ASSUME LocksInv, NEW s \in Session, want[s] = DispatchRow
  PROVE  statement[s] \in {"claimJob", "cancelJob", "giveUp", "progress", "expire"}
  <1>1. /\ statement[s] \in Statement /\ want[s] \in VisitedAt(s)
        /\ ~Idle(s) => request[s] \in Request /\ request[s].kind \in ServedAt(statement[s])
    BY LocksAssumption DEF LocksInv, PathInv, TypeOK
  <1>2. statement[s] \in {"claimOffer", "ownOffer"} => request[s].worker \in Worker
    BY <1>1, Requests DEF Idle, ServedAt
  <1>3. QED
    BY <1>1, <1>2, LocksAssumption DEF VisitedAt, Statement, Guarding

LEMMA OfferVisits ==
  ASSUME LocksInv, NEW s \in Session, want[s] \in Worker
  PROVE  statement[s] \in {"claimOffer", "closeOthers", "closeAll", "closeExpired",
                           "ownOffer", "reoffer"}
  BY LocksAssumption DEF LocksInv, PathInv, VisitedAt, TypeOK, Statement, Guarding, Row

\* A dispatch row with a status to be changed is as committed.
LEMMA UnexpiredIsCommitted ==
  ASSUME NEW s \in Session, OnlyExpired(s), SeenJob(s).status # "expired", job \in JobRow
  PROVE  SeenJob(s) = job /\ \A w \in Worker : SeenOffer(s, w) = offer[w]
  BY DEF OnlyExpired, SameOrExpired, SameOffers, Closing, JobRow

LEMMA JobWrites ==
  ASSUME LocksInv, NEW s \in Session, want[s] = DispatchRow, Holds(s, DispatchRow)
  PROVE  /\ JobWritten(s) \in JobRow
         /\ SeenJob(s) = job
  <1> DEFINE w == request[s].worker
  <1>1. /\ job \in JobRow /\ SeenJob(s) \in JobRow
        /\ job.attempts > MaxReplacements => job.status = "expired"
        /\ MaxReplacements \in Nat
    BY SeenTypes, LocksAssumption DEF LocksInv, TypeOK
  <1>2. request[s] \in Request /\ request[s].kind \in ServedAt(statement[s])
    BY JobVisits DEF LocksInv, PathInv, Idle
  <1>3. CASE statement[s] = "claimJob"
    BY <1>1, <1>2, <1>3, Requests
    DEF LocksInv, StageInv, Answered, SameOrExpired, Holds, JobWritten, ServedAt, JobRow,
        JobStatus, Active, Terminal
  <1>4. CASE statement[s] \in {"cancelJob", "giveUp", "progress", "expire"}
    <2>1. OnlyExpired(s) /\ SeenJob(s).status # "expired"
      BY <1>4, <1>2, Requests, Reports DEF LocksInv, StageInv, Holds, Active, ServedAt
    <2>2. SeenJob(s) = job
      BY <2>1, <1>1, UnexpiredIsCommitted
    <2>3. CASE statement[s] \in {"cancelJob", "expire"}
      BY <1>1, <2>2, <2>3 DEF Holds, JobWritten, JobRow, JobStatus, Active, Terminal
    <2>4. CASE statement[s] = "giveUp"
      <3>1. job.status \in {"accepted", "arrived"} /\ w \in Worker
        BY <1>2, <2>2, <2>4, Requests DEF Holds, ServedAt
      <3>2. job.attempts + 1 \in 0..(MaxReplacements + 1)
        BY <1>1, <3>1 DEF JobRow
      <3>3. QED
        BY <1>1, <2>2, <2>4, <3>1, <3>2 DEF JobWritten, JobRow, JobStatus, Active, Terminal
    <2>5. CASE statement[s] = "progress"
      <3>1. request[s].next \in DOMAIN Progress
        BY <1>2, <2>5, Requests DEF ServedAt
      <3>2. QED
        BY <1>1, <2>2, <2>5, <3>1, Reports DEF JobWritten, JobRow, JobStatus, Terminal
    <2>6. QED
      BY <1>4, <2>2, <2>3, <2>4, <2>5
  <1>5. QED
    BY <1>3, <1>4, JobVisits

LEMMA OfferWrites ==
  ASSUME LocksInv, NEW s \in Session, want[s] \in Worker
  PROVE  OfferWritten(s, want[s]) \in OfferStatus
  BY OfferVisits, SeenTypes DEF LocksInv, OfferWritten, OfferStatus

-----------------------------------------------------------------------------
(* Type correctness *)

LEMMA GoToTypes ==
  ASSUME TypeOK, NEW s \in Session, NEW at \in Statement, GoTo(s, at)
  PROVE  /\ statement' \in [Session -> Statement]
         /\ want' \in [Session -> Row \cup {NoRow}]
         /\ rows' \in [Session -> SUBSET Row]
  BY DEF TypeOK, GoTo

LEMMA AdvanceTypes ==
  ASSUME TypeOK, NEW s \in Session, Advance(s)
  PROVE  /\ statement' \in [Session -> Statement]
         /\ want' \in [Session -> Row \cup {NoRow}]
         /\ rows' \in [Session -> SUBSET Row]
  <1>1. CASE rows[s] = {}
    BY <1>1, GoToTypes, Paths DEF Advance
  <1>2. CASE rows[s] # {}
    <2>1. PICK r \in rows[s] : /\ want' = [want EXCEPT ![s] = r]
                               /\ rows' = [rows EXCEPT ![s] = @ \ {r}]
                               /\ UNCHANGED statement
      BY <1>2 DEF Advance
    <2>2. QED
      BY <2>1 DEF TypeOK
  <1>3. QED
    BY <1>1, <1>2

LEMMA PublishTypes ==
  ASSUME TypeOK, NEW s \in Session, Publish(s)
  PROVE  {job', newJob'} \subseteq JobRow /\ {offer', newOffer'} \subseteq [Worker -> OfferStatus]
  BY SeenTypes DEF TypeOK, Publish, draft

LEMMA UndoTypes ==
  ASSUME TypeOK, NEW s \in Session, Undo(s)
  PROVE  {job', newJob'} \subseteq JobRow /\ {offer', newOffer'} \subseteq [Worker -> OfferStatus]
  BY DEF TypeOK, Undo, table

LEMMA ReleaseTypes ==
  ASSUME TypeOK, NEW s \in Session, Release(s)
  PROVE  /\ lock' \in [Row -> Session \cup {NoSession}]
         /\ open' \in [Session -> BOOLEAN]
         /\ began' \in [Session -> 0..(MaxReplacements + 2)]
  BY LocksAssumption DEF TypeOK, Release

LEMMA ReturnTypes ==
  ASSUME TypeOK, NEW s \in Session, Return(s)
  PROVE  /\ request' \in [Session -> Request \cup {NoRequest}]
         /\ statement' \in [Session -> Statement]
         /\ want' \in [Session -> Row \cup {NoRow}]
         /\ rows' \in [Session -> SUBSET Row]
  BY DEF TypeOK, Return, GoTo, Statement

LEMMA ReadTypes ==
  ASSUME LocksInv, NEW s \in Session, Read(s)
  PROVE  TypeOK'
  <1> USE LocksAssumption
  <1>0. TypeOK
    BY DEF LocksInv
  <1>1. PICK found \in Found(s) :
          IF found = {} THEN \E at \in Missed(s) : GoTo(s, at)
          ELSE \E r \in found :
                  /\ want' = [want EXCEPT ![s] = r]
                  /\ rows' = [rows EXCEPT ![s] = found \ {r}]
                  /\ UNCHANGED statement
    BY DEF Read
  <1>2. /\ statement' \in [Session -> Statement]
        /\ want' \in [Session -> Row \cup {NoRow}]
        /\ rows' \in [Session -> SUBSET Row]
    <2>1. CASE found = {}
      BY <1>0, <1>1, <2>1, GoToTypes, Paths
    <2>2. CASE found # {}
      <3>1. found \subseteq Row
        <4>1. request[s].worker \in Worker \/ statement[s] \notin {"claimOffer", "ownOffer"}
          BY Requests DEF Read, LocksInv, PathInv, Idle, ServedAt
        <4>2. QED
          BY <4>1 DEF Found, Row
      <3>2. QED
        BY <1>0, <1>1, <2>2, <3>1 DEF TypeOK
    <2>3. QED
      BY <2>1, <2>2
  <1>3. QED
    BY <1>0, <1>2 DEF Read, TypeOK, table, draft

LEMMA VisitTypes ==
  ASSUME LocksInv, NEW s \in Session, Visit(s)
  PROVE  TypeOK'
  <1> USE LocksAssumption
  <1> DEFINE r == want[s]
  <1>0. TypeOK /\ r \in Row /\ lock' = [lock EXCEPT ![r] = s]
    BY DEF LocksInv, TypeOK, Visit
  <1>1. /\ statement' \in [Session -> Statement]
        /\ want' \in [Session -> Row \cup {NoRow}]
        /\ rows' \in [Session -> SUBSET Row]
    <2>1. CASE Advance(s)
      BY <1>0, <2>1, AdvanceTypes
    <2>2. CASE \E at \in Missed(s) : GoTo(s, at)
      BY <1>0, <2>2, GoToTypes, Paths
    <2>3. QED
      BY <2>1, <2>2 DEF Visit
  <1>2. newJob' \in JobRow
    BY <1>0, JobWrites DEF Visit, HoldsStill, TypeOK, draft
  <1>3. newOffer' \in [Worker -> OfferStatus]
    <2>1. CASE newOffer' = newOffer
      BY <1>0, <2>1 DEF TypeOK
    <2>2. CASE r \in Worker /\ newOffer' = [newOffer EXCEPT ![r] = OfferWritten(s, r)]
      BY <1>0, <2>2, OfferWrites DEF TypeOK
    <2>3. QED
      BY <1>0, <2>1, <2>2 DEF Visit, draft, Row
  <1>4. QED
    BY <1>0, <1>1, <1>2, <1>3 DEF Visit, TypeOK, table

LEMMA TypeStep == LocksInv /\ [Next]_vars => TypeOK'
  <1> SUFFICES ASSUME LocksInv, [Next]_vars PROVE TypeOK'
    OBVIOUS
  <1> USE LocksAssumption
  <1>0. TypeOK
    BY DEF LocksInv
  <1>1. CASE DispatchJob
    <2>1. job' \in JobRow /\ offer' \in [Worker -> OfferStatus]
      BY <1>0, <1>1 DEF DispatchJob, TypeOK, JobRow, JobStatus, OfferStatus
    <2>2. QED
      BY <1>0, <1>1, <2>1 DEF DispatchJob, TypeOK, control
  <1>2. CASE Lapse
    <2>1. clock' \in 0..(MaxReplacements + 2)
      BY <1>0, <1>2 DEF Lapse, TypeOK, JobRow
    <2>2. QED
      BY <1>0, <1>2, <2>1 DEF Lapse, TypeOK, table, draft, control
  <1>3. ASSUME NEW s \in Session, NEW req \in Traffic, Begin(s, req)
        PROVE  TypeOK'
    <2>1. req \in Request /\ First[req.kind] \in Statement
      BY Requests, FirstStatements DEF Statement, Guarding
    <2>2. QED
      BY <1>0, <1>3, <2>1, GoToTypes DEF Begin, TypeOK, table, draft
  <1>4. ASSUME NEW s \in Session, RespondUnknown(s)
        PROVE  TypeOK'
    BY <1>0, <1>4 DEF RespondUnknown, TypeOK, table, draft, control
  <1>5. ASSUME NEW s \in Session, Read(s)
        PROVE  TypeOK'
    BY <1>5, ReadTypes
  <1>6. ASSUME NEW s \in Session, Visit(s)
        PROVE  TypeOK'
    BY <1>6, VisitTypes
  <1>7. ASSUME NEW s \in Session, Commit(s)
        PROVE  TypeOK'
    <2>1. CASE Publish(s) /\ Release(s)
      BY <1>0, <1>7, <2>1, PublishTypes, ReleaseTypes, ReturnTypes DEF Commit, TypeOK
    <2>2. CASE UNCHANGED <<table, draft, lock, open, began>>
      BY <1>0, <1>7, <2>2, ReturnTypes DEF Commit, TypeOK, table, draft
    <2>3. QED
      BY <1>7, <2>1, <2>2 DEF Commit
  <1>8. ASSUME NEW s \in Session, Rollback(s) \/ Abort(s)
        PROVE  TypeOK'
    BY <1>0, <1>8, UndoTypes, ReleaseTypes, ReturnTypes DEF Rollback, Abort, TypeOK
  <1>9. ASSUME NEW s \in Session, IdleTimeout(s)
        PROVE  TypeOK'
    BY <1>0, <1>9, UndoTypes, ReleaseTypes DEF IdleTimeout, TypeOK, control
  <1>10. CASE UNCHANGED vars
    BY <1>0, <1>10 DEF vars, table, draft, control, TypeOK
  <1>11. QED
    BY <1>1, <1>2, <1>3, <1>4, <1>5, <1>6, <1>7, <1>8, <1>9, <1>10 DEF Next, SessionNext

-----------------------------------------------------------------------------
(* The path of a request *)

LEMMA GoToEffect ==
  ASSUME TypeOK, NEW s \in Session, NEW at, GoTo(s, at)
  PROVE  /\ statement'[s] = at /\ want'[s] = NoRow /\ rows'[s] = {}
         /\ \A t \in Session \ {s} :
               statement'[t] = statement[t] /\ want'[t] = want[t] /\ rows'[t] = rows[t]
  BY DEF TypeOK, GoTo

LEMMA NextServed ==
  ASSUME NEW s \in Session, PathInv(s), ~Idle(s), NEW at \in Missed(s) \cup {Follow(s)}
  PROVE  at # "idle" /\ request[s].kind \in ServedAt(at)
  <1>1. request[s].kind \in DOMAIN First /\ request[s].kind \in ServedAt(statement[s])
    BY Requests DEF PathInv
  <1>2. QED
    BY <1>1 DEF Missed, Follow, ServedAt, First

LEMMA GoToPath ==
  ASSUME TypeOK, NEW s \in Session, PathInv(s), ~Idle(s),
         NEW at \in Missed(s) \cup {Follow(s)}, GoTo(s, at), request'[s] = request[s]
  PROVE  PathInv(s)'
  BY GoToEffect, NextServed DEF PathInv, Idle, ServedAt

LEMMA AdvancePath ==
  ASSUME TypeOK, NEW s \in Session, PathInv(s), ~Idle(s), want[s] # NoRow, Advance(s),
         UNCHANGED request
  PROVE  PathInv(s)'
  <1>1. CASE rows[s] = {}
    BY <1>1, GoToPath DEF Advance
  <1>2. CASE rows[s] # {}
    <2>1. PICK r \in rows[s] : /\ want' = [want EXCEPT ![s] = r]
                               /\ rows' = [rows EXCEPT ![s] = @ \ {r}]
                               /\ UNCHANGED statement
      BY <1>2 DEF Advance
    <2>2. want'[s] = r /\ rows'[s] = rows[s] \ {r} /\ statement'[s] = statement[s]
      BY <2>1 DEF TypeOK
    <2>3. VisitedAt(s)' = VisitedAt(s) /\ r # NoRow
      BY <2>1, LocksAssumption DEF VisitedAt, TypeOK, Row
    <2>4. QED
      BY <2>1, <2>2, <2>3 DEF PathInv, Idle, ServedAt
  <1>3. QED
    BY <1>1, <1>2

\* A statement finds rows that it visits.
LEMMA FoundVisited ==
  ASSUME TypeOK, NEW s \in Session, PathInv(s), NEW found \in Found(s),
         statement[s] \notin {"idle", "commit", "rollback"}
  PROVE  found \subseteq VisitedAt(s)
  BY DEF Found, VisitedAt, TypeOK, Statement, Guarding

\* The end of a request returns the connection to the pool.
LEMMA ReturnPath ==
  ASSUME TypeOK, NEW s \in Session, Return(s)
  PROVE  /\ PathInv(s)' /\ Idle(s)'
         /\ \A t \in Session \ {s} :
               /\ request'[t] = request[t] /\ statement'[t] = statement[t]
               /\ want'[t] = want[t] /\ rows'[t] = rows[t]
  BY GoToEffect DEF TypeOK, Return, PathInv, Idle

-----------------------------------------------------------------------------
(* A statement reads *)

LEMMA SeenStays ==
  ASSUME NEW t \in Session, UNCHANGED <<table, draft, lock>>
  PROVE  /\ SeenJob(t)' = SeenJob(t)
         /\ \A w \in Worker : SeenOffer(t, w)' = SeenOffer(t, w)
  BY DEF table, draft, SeenJob, SeenOffer

\* A transaction that finds nothing to do keeps what it has done.
LEMMA NothingFound ==
  ASSUME TypeOK, NEW s \in Session, PathInv(s), StageInv(s), Read(s),
         {} \in Found(s), NEW at \in Missed(s), GoTo(s, at)
  PROVE  StageInv(s)'
  <1>0. /\ statement'[s] = at /\ want'[s] = NoRow /\ rows'[s] = {}
        /\ request' = request /\ job' = job /\ offer' = offer
        /\ SeenJob(s)' = SeenJob(s)
        /\ \A w \in Worker : SeenOffer(s, w)' = SeenOffer(s, w)
        /\ request[s].kind \in ServedAt(statement[s])
        /\ want[s] = NoRow
    BY GoToEffect, SeenStays DEF Read, table, PathInv, Idle
  <1>1. CASE statement[s] \in {"claimOffer", "cancelJob", "giveUp", "progress", "expire",
                               "closeExpired"}
    <2>1. at \in {"commit", "rollback"} /\ OnlyExpired(s)
      BY <1>0, <1>1 DEF StageInv, Missed, Follow
    <2>2. QED
      BY <1>0, <2>1 DEF StageInv, OnlyExpired, SameOrExpired, SameOffers, Closing
  <1>2. CASE statement[s] = "claimJob"
    <2>1. at = "rollback" /\ Answered(s, "accepted")
      BY <1>2 DEF StageInv, Missed
    <2>2. QED
      BY <1>0, <2>1 DEF StageInv, Answered, SameOrExpired, SameOffers, Closing
  <1>3. CASE statement[s] = "closeOthers"
    <2>1. at = "commit" /\ request[s].kind = "accept" /\ Accepted(s, Pending(s))
      BY <1>0, <1>3 DEF StageInv, Missed, Follow, ServedAt
    <2>2. \A v \in Worker \ {request[s].worker} : SeenOffer(s, v) # "offered"
      BY <1>3 DEF Found, Holds
    <2>3. QED
      BY <1>0, <2>1, <2>2 DEF StageInv, Accepted
  <1>4. CASE statement[s] = "closeAll"
    <2>1. at = "commit" /\ request[s].kind = "cancel" /\ Cancelled(s, Pending(s))
      BY <1>0, <1>4 DEF StageInv, Missed, Follow, ServedAt
    <2>2. \A v \in Worker : SeenOffer(s, v) = "none"
      BY <1>4 DEF Found, Holds
    <2>3. QED
      BY <1>0, <2>1, <2>2 DEF StageInv, Cancelled
  <1>5. CASE statement[s] = "ownOffer"
    BY <1>5 DEF Found
  <1>6. CASE statement[s] = "reoffer"
    <2>1. at = "commit" /\ request[s].kind = "release" /\ Reoffered(s)
      BY <1>0, <1>6 DEF StageInv, Missed, Follow, ServedAt
    <2>2. QED
      BY <1>0, <2>1 DEF StageInv, Reoffered, GaveUp
  <1>7. QED
    BY <1>1, <1>2, <1>3, <1>4, <1>5, <1>6 DEF Read, TypeOK, Statement, Guarding

LEMMA RowsFound ==
  ASSUME TypeOK, NEW s \in Session, PathInv(s), StageInv(s), Read(s),
         NEW found \in Found(s), NEW r \in found,
         want' = [want EXCEPT ![s] = r], rows' = [rows EXCEPT ![s] = found \ {r}],
         UNCHANGED statement
  PROVE  StageInv(s)'
  <1>0. /\ statement'[s] = statement[s] /\ want'[s] = r /\ rows'[s] = found \ {r}
        /\ request' = request /\ job' = job /\ offer' = offer
        /\ SeenJob(s)' = SeenJob(s)
        /\ \A w \in Worker : SeenOffer(s, w)' = SeenOffer(s, w)
        /\ found \subseteq VisitedAt(s)
        /\ statement[s] \notin {"idle", "commit", "rollback"}
    BY SeenStays, FoundVisited DEF Read, table, TypeOK
  <1>1. CASE statement[s] \in {"cancelJob", "giveUp", "progress", "expire", "claimJob",
                               "ownOffer", "reoffer"}
    BY <1>0, <1>1
    DEF StageInv, OnlyExpired, Answered, SameOrExpired, SameOffers, Closing, Reoffered, GaveUp
  <1>2. statement[s] \in {"closeOthers", "closeAll", "closeExpired"} => found \subseteq Pending(s)'
    BY <1>0, LocksAssumption DEF Pending, VisitedAt
  <1>3. CASE statement[s] = "closeOthers"
    <2>1. \A v \in Worker \ {request[s].worker} : SeenOffer(s, v) = "offered" => v \in found
      BY <1>3 DEF Found, Holds
    <2>2. QED
      BY <1>0, <1>2, <1>3, <2>1 DEF StageInv, Accepted
  <1>4. CASE statement[s] = "closeAll"
    <2>1. \A v \in Worker : SeenOffer(s, v) # "none" => v \in found
      BY <1>4 DEF Found, Holds
    <2>2. QED
      BY <1>0, <1>2, <1>4, <2>1 DEF StageInv, Cancelled
  <1>5. CASE statement[s] = "claimOffer"
    <2>1. SeenJob(s).status = "offered" /\ OnlyExpired(s)
      BY <1>5 DEF Found, StageInv, Read
    <2>2. Untouched(s)
      BY <2>1 DEF OnlyExpired, Closing, Untouched, SameOrExpired, TypeOK, JobRow
    <2>3. r # NoRow
      <3>1. r = request[s].worker /\ request[s].worker \in Worker
        BY <1>0, <1>5, Requests DEF VisitedAt, PathInv, ServedAt, Idle
      <3>2. QED
        BY <3>1, LocksAssumption
    <2>4. QED
      BY <1>0, <1>5, <2>2, <2>3 DEF StageInv, Untouched, SameOffers
  <1>6. CASE statement[s] = "closeExpired"
    <2>1. SeenJob(s).status = "expired" /\ OnlyExpired(s)
      BY <1>6 DEF Found, StageInv, Read
    <2>2. \A v \in Worker : SeenOffer(s, v) = "offered" => v \in found
      BY <1>6, <2>1 DEF Found, Holds
    <2>3. Closing(s, Pending(s))'
      BY <1>0, <1>2, <1>6, <2>1, <2>2 DEF OnlyExpired, Closing, SameOffers
    <2>4. SameOrExpired(s)'
      BY <1>0, <2>1 DEF OnlyExpired, SameOrExpired
    <2>5. r # NoRow
      BY <1>0, <1>6, LocksAssumption DEF VisitedAt
    <2>6. QED
      BY <1>0, <1>6, <2>3, <2>4, <2>5 DEF StageInv
  <1>7. QED
    BY <1>0, <1>1, <1>3, <1>4, <1>5, <1>6 DEF TypeOK, Statement, Guarding

LEMMA ReadSession ==
  ASSUME LocksInv, NEW s \in Session, Read(s)
  PROVE  PathInv(s)' /\ StageInv(s)'
  <1>0. TypeOK /\ PathInv(s) /\ StageInv(s) /\ ~Idle(s) /\ request' = request
    BY DEF LocksInv, Read, Idle
  <1>1. PICK found \in Found(s) :
          IF found = {} THEN \E at \in Missed(s) : GoTo(s, at)
          ELSE \E r \in found :
                  /\ want' = [want EXCEPT ![s] = r]
                  /\ rows' = [rows EXCEPT ![s] = found \ {r}]
                  /\ UNCHANGED statement
    BY DEF Read
  <1>2. CASE found = {}
    <2>1. PICK at \in Missed(s) : GoTo(s, at)
      BY <1>1, <1>2
    <2>2. PathInv(s)'
      BY <1>0, <2>1, GoToPath
    <2>3. StageInv(s)'
      BY <1>0, <1>2, <2>1, NothingFound
    <2>4. QED
      BY <2>2, <2>3
  <1>3. CASE found # {}
    <2>1. PICK r \in found : /\ want' = [want EXCEPT ![s] = r]
                             /\ rows' = [rows EXCEPT ![s] = found \ {r}]
                             /\ UNCHANGED statement
      BY <1>1, <1>3
    <2>2. StageInv(s)'
      BY <1>0, <2>1, RowsFound
    <2>3. found \subseteq VisitedAt(s)
      BY <1>0, FoundVisited DEF Read
    <2>4. want'[s] = r /\ rows'[s] = found \ {r} /\ statement'[s] = statement[s]
      BY <1>0, <2>1 DEF TypeOK
    <2>5. VisitedAt(s)' = VisitedAt(s) /\ r \in VisitedAt(s)
      BY <1>0, <2>3, <2>4 DEF VisitedAt
    <2>6. r # NoRow
      <3>1. VisitedAt(s) \subseteq Row
        BY <1>0, Requests DEF VisitedAt, PathInv, ServedAt, Row
      <3>2. QED
        BY <2>5, <3>1, LocksAssumption DEF Row
    <2>7. PathInv(s)'
      BY <1>0, <2>3, <2>4, <2>5, <2>6 DEF PathInv, Idle, ServedAt
    <2>8. QED
      BY <2>2, <2>7
  <1>4. QED
    BY <1>2, <1>3

-----------------------------------------------------------------------------
(* A statement visits a row *)

\* Getting a lock changes nothing the transaction sees; what it then writes it
\* alone sees.
LEMMA VisitSeen ==
  ASSUME LocksInv, NEW s \in Session, Visit(s)
  PROVE  LET r == want[s]
         IN  /\ SeenJob(s)' = IF r = DispatchRow /\ Holds(s, r) THEN JobWritten(s)
                              ELSE SeenJob(s)
             /\ \A v \in Worker :
                   SeenOffer(s, v)' = IF v = r /\ Holds(s, r) THEN OfferWritten(s, r)
                                      ELSE SeenOffer(s, v)
             /\ \A t \in Session \ {s} : Unmoved(t)
  <1> DEFINE r == want[s]
  <1> USE LocksAssumption
  <1>0. /\ TypeOK /\ r \in Row /\ lock[r] \in {NoSession, s}
        /\ lock' = [lock EXCEPT ![r] = s]
        /\ lock[DispatchRow] = NoSession => newJob = job
        /\ \A w \in Worker : lock[w] = NoSession => newOffer[w] = offer[w]
        /\ job' = job /\ offer' = offer /\ request' = request
    BY DEF LocksInv, TypeOK, Visit, DraftsAreLocked, table
  <1>1. newJob' = IF r = DispatchRow /\ Holds(s, r) THEN JobWritten(s) ELSE newJob
    BY DEF Visit, HoldsStill, draft
  <1>2. \A v \in Worker :
           newOffer'[v] = IF v = r /\ Holds(s, r) THEN OfferWritten(s, r) ELSE newOffer[v]
    BY <1>0 DEF Visit, HoldsStill, draft, TypeOK
  <1>3. lock'[r] = s /\ \A q \in Row \ {r} : lock'[q] = lock[q]
    BY <1>0 DEF TypeOK
  <1>4. SeenJob(s)' = IF r = DispatchRow /\ Holds(s, r) THEN JobWritten(s) ELSE SeenJob(s)
    BY <1>0, <1>1, <1>3 DEF SeenJob, Row
  <1>5. ASSUME NEW v \in Worker
        PROVE  SeenOffer(s, v)' = IF v = r /\ Holds(s, r) THEN OfferWritten(s, r)
                                  ELSE SeenOffer(s, v)
    BY <1>0, <1>2, <1>3 DEF SeenOffer, Row
  <1>6. ASSUME NEW t \in Session \ {s} PROVE Unmoved(t)
    <2>1. SeenJob(t)' = SeenJob(t)
      BY <1>0, <1>1, <1>3 DEF SeenJob, Row
    <2>2. ASSUME NEW v \in Worker PROVE SeenOffer(t, v)' = SeenOffer(t, v)
      BY <1>0, <1>2, <1>3 DEF SeenOffer, Row
    <2>3. statement'[t] = statement[t] /\ want'[t] = want[t] /\ rows'[t] = rows[t]
      <3>1. CASE \E at : GoTo(s, at)
        BY <1>0, <3>1, GoToEffect
      <3>2. CASE \E q : /\ want' = [want EXCEPT ![s] = q]
                        /\ rows' = [rows EXCEPT ![s] = @ \ {q}]
                        /\ UNCHANGED statement
        BY <1>0, <3>2 DEF TypeOK
      <3>3. QED
        BY <3>1, <3>2 DEF Visit, Advance
    <2>4. QED
      BY <1>0, <2>1, <2>2, <2>3 DEF Unmoved, Visit
  <1>7. QED
    BY <1>4, <1>5, <1>6

LEMMA AdvanceEffect ==
  ASSUME TypeOK, NEW s \in Session, Advance(s)
  PROVE  \/ /\ rows[s] = {} /\ statement'[s] = Follow(s) /\ want'[s] = NoRow
         \/ /\ statement'[s] = statement[s] /\ want'[s] \in rows[s]
            /\ want'[s] # NoRow => Pending(s)' = rows[s]
  <1>1. CASE rows[s] = {}
    BY <1>1, GoToEffect DEF Advance
  <1>2. CASE rows[s] # {}
    <2>1. PICK r \in rows[s] : /\ want' = [want EXCEPT ![s] = r]
                               /\ rows' = [rows EXCEPT ![s] = @ \ {r}]
                               /\ UNCHANGED statement
      BY <1>2 DEF Advance
    <2>2. want'[s] = r /\ rows'[s] = rows[s] \ {r}
      BY <2>1 DEF TypeOK
    <2>3. QED
      BY <2>1, <2>2 DEF Pending
  <1>3. QED
    BY <1>1, <1>2

\* Where a visit leads.
LEMMA VisitPath ==
  ASSUME LocksInv, NEW s \in Session, Visit(s)
  PROVE  LET r == want[s]
             at == statement[s]
         IN  /\ r \in VisitedAt(s) /\ r \in Row
             /\ request[s].kind \in ServedAt(at) /\ request[s] \in Request
             /\ request' = request /\ job' = job /\ offer' = offer
             /\ \/ /\ at \in Guarding /\ ~Holds(s, r)
                   /\ statement'[s] \in Missed(s) /\ want'[s] = NoRow
                \/ /\ at \notin Guarding \/ Holds(s, r)
                   /\ \/ rows[s] = {} /\ statement'[s] = Follow(s) /\ want'[s] = NoRow
                      \/ /\ statement'[s] = at /\ want'[s] \in rows[s]
                         /\ Pending(s)' = rows[s]
             /\ at \notin {"closeOthers", "closeAll", "closeExpired", "reoffer"} => rows[s] = {}
  <1> DEFINE r == want[s]
  <1> DEFINE at == statement[s]
  <1> USE LocksAssumption
  <1>0. TypeOK /\ PathInv(s) /\ r # NoRow
    BY DEF LocksInv, Visit
  <1>1. r \in VisitedAt(s) /\ rows[s] \subseteq VisitedAt(s) \ {r} /\ r \in Row
    BY <1>0 DEF PathInv, TypeOK
  <1>2. at \notin {"idle", "commit", "rollback"} /\ at \in Statement
    BY <1>0, <1>1 DEF VisitedAt, TypeOK
  <1>3. request[s].kind \in ServedAt(at) /\ request[s] \in Request
    BY <1>0, <1>2 DEF PathInv, Idle
  <1>4. at \notin {"closeOthers", "closeAll", "closeExpired", "reoffer"} => rows[s] = {}
    BY <1>1, <1>2 DEF VisitedAt
  <1>5. \A q \in rows[s] : q # NoRow
    BY <1>0 DEF TypeOK, Row
  <1>6. CASE at \in Guarding /\ ~Holds(s, r)
    <2>1. PICK next \in Missed(s) : GoTo(s, next)
      BY <1>6 DEF Visit, HoldsStill
    <2>2. QED
      BY <1>0, <1>1, <1>3, <1>4, <1>6, <2>1, GoToEffect DEF Visit, table
  <1>7. CASE at \notin Guarding \/ Holds(s, r)
    <2>1. Advance(s)
      BY <1>7 DEF Visit, HoldsStill
    <2>2. \/ rows[s] = {} /\ statement'[s] = Follow(s) /\ want'[s] = NoRow
          \/ statement'[s] = at /\ want'[s] \in rows[s] /\ Pending(s)' = rows[s]
      BY <1>0, <1>5, <2>1, AdvanceEffect
    <2>3. QED
      BY <1>1, <1>3, <1>4, <1>7, <2>2 DEF Visit, table
  <1>8. QED
    BY <1>6, <1>7

\* The transaction keeps its claims when it visits a row, statement by
\* statement.
LEMMA VisitStage ==
  ASSUME LocksInv, NEW s \in Session, Visit(s)
  PROVE  StageInv(s)'
  <1> PICK r : r = want[s]
    OBVIOUS
  <1> PICK w : w = request[s].worker
    OBVIOUS
  <1> DEFINE at == statement[s]
  <1> DEFINE hold == Holds(s, r)
  <1> USE LocksAssumption
  <1>0. /\ SeenJob(s)' = IF r = DispatchRow /\ hold THEN JobWritten(s) ELSE SeenJob(s)
        /\ \A v \in Worker : SeenOffer(s, v)' = IF v = r /\ hold THEN OfferWritten(s, r)
                                                ELSE SeenOffer(s, v)
    BY VisitSeen
  <1>1. /\ r \in VisitedAt(s) /\ r \in Row
        /\ request[s].kind \in ServedAt(at) /\ request[s] \in Request
        /\ request' = request /\ job' = job /\ offer' = offer
    BY VisitPath
  <1>2. \/ at \in Guarding /\ ~hold /\ statement'[s] \in Missed(s) /\ want'[s] = NoRow
        \/ /\ at \notin Guarding \/ hold
           /\ \/ rows[s] = {} /\ statement'[s] = Follow(s) /\ want'[s] = NoRow
              \/ statement'[s] = at /\ want'[s] \in rows[s] /\ Pending(s)' = rows[s]
    BY VisitPath
  <1>3. at \notin {"closeOthers", "closeAll", "closeExpired", "reoffer"} => rows[s] = {}
    BY VisitPath
  <1>4. TypeOK /\ StageInv(s) /\ job \in JobRow /\ at \in Statement
    BY DEF LocksInv, TypeOK
  <1>5. Pending(s)' = Worker \/ want'[s] # NoRow
    BY DEF Pending
  <1>6. Pending(s) = rows[s] \cup {r}
    BY DEF Visit, Pending
  <1>10. CASE at = "claimOffer"
    <2>1. Untouched(s) /\ r = w /\ w \in Worker /\ rows[s] = {}
      BY <1>1, <1>3, <1>4, <1>10, Requests DEF StageInv, VisitedAt, ServedAt, Visit
    <2>2. CASE hold
      <3>1. SeenOffer(s, w) = "offered" /\ offer[w] = "offered"
        BY <1>10, <2>1, <2>2 DEF Holds, Untouched, SameOffers
      <3>2. SeenJob(s)' = SeenJob(s)
        BY <1>0, <2>1
      <3>3. CASE request[s].kind = "accept"
        <4>1. statement'[s] = "claimJob" /\ SeenOffer(s, w)' = "accepted"
          BY <1>0, <1>2, <1>10, <2>1, <2>2, <3>3 DEF Follow, OfferWritten
        <4>2. Answered(s, "accepted")'
          BY <1>0, <1>1, <2>1, <3>1, <3>2, <4>1
          DEF Untouched, SameOffers, Answered
        <4>3. QED
          BY <4>1, <4>2 DEF StageInv
      <3>4. CASE request[s].kind = "reject"
        <4>1. statement'[s] = "commit" /\ SeenOffer(s, w)' = "rejected"
          BY <1>0, <1>2, <1>10, <2>1, <2>2, <3>4 DEF Follow, OfferWritten
        <4>2. Answered(s, "rejected")'
          BY <1>0, <1>1, <2>1, <3>1, <3>2, <4>1
          DEF Untouched, SameOffers, Answered
        <4>3. QED
          BY <1>1, <3>4, <4>1, <4>2 DEF StageInv
      <3>5. QED
        BY <1>1, <1>10, <3>3, <3>4 DEF ServedAt
    <2>3. CASE ~hold
      <3>1. statement'[s] = "rollback"
        BY <1>2, <1>10, <2>3 DEF Missed, Guarding
      <3>2. OnlyExpired(s)'
        BY <1>0, <1>1, <2>1, <2>3 DEF Untouched, OnlyExpired, SameOrExpired, SameOffers
      <3>3. QED
        BY <3>1, <3>2 DEF StageInv
    <2>4. QED
      BY <2>2, <2>3
  <1>11. CASE at = "claimJob"
    <2>1. Answered(s, "accepted") /\ r = DispatchRow /\ rows[s] = {}
      BY <1>1, <1>3, <1>4, <1>11 DEF StageInv, VisitedAt
    <2>2. CASE hold
      <3>1. SeenJob(s) = job /\ job.status = "offered"
        BY <1>11, <2>1, <2>2, JobWrites DEF Holds
      <3>2. SeenJob(s)' = [job EXCEPT !.status = "accepted", !.worker = w]
        BY <1>0, <1>11, <2>1, <2>2, <3>1 DEF JobWritten
      <3>3. statement'[s] = "closeOthers" /\ Pending(s)' = Worker
        BY <1>2, <1>5, <1>11, <2>1, <2>2 DEF Follow
      <3>4. Accepted(s, Pending(s))'
        BY <1>0, <1>1, <2>1, <3>1, <3>2, <3>3 DEF Answered, SameOffers, Accepted
      <3>5. QED
        BY <3>3, <3>4 DEF StageInv
    <2>3. CASE ~hold
      <3>1. statement'[s] = "rollback"
        BY <1>2, <1>11, <2>3 DEF Missed, Guarding
      <3>2. Answered(s, "accepted")'
        BY <1>0, <1>1, <2>1, <2>3 DEF Answered, SameOffers
      <3>3. QED
        BY <3>1, <3>2 DEF StageInv
    <2>4. QED
      BY <2>2, <2>3
  <1>12. CASE at = "closeOthers"
    <2>1. Accepted(s, rows[s] \cup {r}) /\ r \in Worker \ {w}
      BY <1>1, <1>4, <1>6, <1>12 DEF StageInv, VisitedAt
    <2>2. SeenJob(s)' = SeenJob(s)
      BY <1>0, <2>1
    <2>3. hold <=> SeenOffer(s, r) = "offered"
      BY <1>12 DEF Holds
    <2>4. hold => SeenOffer(s, r)' = "expired"
      BY <1>0, <1>12, <2>1 DEF OfferWritten
    <2>5. \/ statement'[s] = "commit" /\ rows[s] = {}
          \/ statement'[s] = "closeOthers" /\ Pending(s)' = rows[s]
      BY <1>2, <1>12 DEF Guarding, Follow
    <2>6. request'[s].kind = "accept"
      BY <1>1, <1>12 DEF ServedAt
    <2>7. CASE statement'[s] = "commit" /\ rows[s] = {}
      BY <1>0, <1>1, <2>1, <2>2, <2>3, <2>4, <2>6, <2>7 DEF Accepted, StageInv
    <2>8. CASE statement'[s] = "closeOthers" /\ Pending(s)' = rows[s]
      BY <1>0, <1>1, <2>1, <2>2, <2>3, <2>4, <2>8 DEF Accepted, StageInv
    <2>9. QED
      BY <2>5, <2>7, <2>8
  <1>13. CASE at = "cancelJob"
    <2>1. OnlyExpired(s) /\ r = DispatchRow /\ rows[s] = {}
      BY <1>1, <1>3, <1>4, <1>13 DEF StageInv, VisitedAt
    <2>2. CASE hold
      <3>1. SeenJob(s) = job /\ job.status \in {"offered"} \cup Active
        BY <1>13, <2>1, <2>2, JobWrites DEF Holds
      <3>2. SeenJob(s)' = [job EXCEPT !.status = "cancelled"]
        BY <1>0, <1>13, <2>1, <2>2, <3>1 DEF JobWritten
      <3>3. statement'[s] = "closeAll" /\ Pending(s)' = Worker
        BY <1>2, <1>5, <1>13, <2>1, <2>2 DEF Follow
      <3>4. Cancelled(s, Pending(s))'
        BY <1>0, <1>1, <2>1, <3>1, <3>2, <3>3 DEF OnlyExpired, SameOffers, Closing, Cancelled, Active
      <3>5. QED
        BY <3>3, <3>4 DEF StageInv
    <2>3. CASE ~hold
      <3>1. statement'[s] \in {"commit", "rollback"}
        BY <1>2, <1>13, <2>3 DEF Missed, Guarding
      <3>2. OnlyExpired(s)'
        BY <1>0, <1>1, <2>1, <2>3 DEF OnlyExpired, SameOrExpired, SameOffers, Closing
      <3>3. QED
        BY <3>1, <3>2 DEF StageInv
    <2>4. QED
      BY <2>2, <2>3
  <1>14. CASE at = "closeAll"
    <2>1. Cancelled(s, rows[s] \cup {r}) /\ r \in Worker
      BY <1>1, <1>4, <1>6, <1>14 DEF StageInv, VisitedAt
    <2>2. SeenJob(s)' = SeenJob(s)
      BY <1>0, <2>1
    <2>3. hold <=> SeenOffer(s, r) # "none"
      BY <1>14 DEF Holds
    <2>4. hold => SeenOffer(s, r)' = IF SeenOffer(s, r) \in {"offered", "accepted"}
                                     THEN "cancelled" ELSE SeenOffer(s, r)
      BY <1>0, <1>14, <2>1 DEF OfferWritten
    <2>5. \/ statement'[s] = "commit" /\ rows[s] = {}
          \/ statement'[s] = "closeAll" /\ Pending(s)' = rows[s]
      BY <1>2, <1>14 DEF Guarding, Follow
    <2>6. request'[s].kind = "cancel"
      BY <1>1, <1>14 DEF ServedAt
    <2>7. CASE statement'[s] = "commit" /\ rows[s] = {}
      BY <1>0, <1>1, <2>1, <2>2, <2>3, <2>4, <2>6, <2>7 DEF Cancelled, StageInv
    <2>8. CASE statement'[s] = "closeAll" /\ Pending(s)' = rows[s]
      BY <1>0, <1>1, <2>1, <2>2, <2>3, <2>4, <2>8 DEF Cancelled, StageInv
    <2>9. QED
      BY <2>5, <2>7, <2>8
  <1>15. CASE at = "giveUp"
    <2>1. OnlyExpired(s) /\ r = DispatchRow /\ rows[s] = {} /\ w \in Worker
      BY <1>1, <1>3, <1>4, <1>15, Requests DEF StageInv, VisitedAt, ServedAt
    <2>2. CASE hold
      <3>1. SeenJob(s) = job /\ job.status \in {"accepted", "arrived"} /\ job.worker = w
        BY <1>15, <2>1, <2>2, JobWrites DEF Holds
      <3>2. SeenJob(s)' = JobWritten(s) /\ statement'[s] = "ownOffer"
        BY <1>0, <1>2, <1>15, <2>1, <2>2 DEF Follow
      <3>3. GaveUp(s)'
        BY <1>1, <1>15, <2>1, <3>1, <3>2 DEF JobWritten, GaveUp
      <3>4. \A v \in Worker : SeenOffer(s, v)' = offer[v]
        BY <1>0, <2>1, <3>1 DEF OnlyExpired, SameOffers, Closing
      <3>5. QED
        BY <1>1, <3>2, <3>3, <3>4 DEF StageInv, SameOffers
    <2>3. CASE ~hold
      <3>1. statement'[s] \in {"commit", "rollback"}
        BY <1>2, <1>15, <2>3 DEF Missed, Guarding
      <3>2. OnlyExpired(s)'
        BY <1>0, <1>1, <2>1, <2>3 DEF OnlyExpired, SameOrExpired, SameOffers, Closing
      <3>3. QED
        BY <3>1, <3>2 DEF StageInv
    <2>4. QED
      BY <2>2, <2>3
  <1>16. CASE at = "ownOffer"
    <2>1. /\ GaveUp(s) /\ SameOffers(s, Worker)
          /\ r = w /\ w \in Worker /\ rows[s] = {} /\ hold
      BY <1>1, <1>3, <1>4, <1>16, Requests DEF StageInv, VisitedAt, ServedAt, Holds
    <2>2. SeenJob(s)' = SeenJob(s) /\ SeenOffer(s, w)' = "cancelled"
      BY <1>0, <1>16, <2>1 DEF OfferWritten
    <2>3. Reoffered(s)'
      BY <1>0, <1>1, <2>1, <2>2 DEF Reoffered, GaveUp, SameOffers
    <2>4. /\ \/ statement'[s] = "reoffer" /\ SeenJob(s)'.status = "offered"
             \/ statement'[s] = "commit"
          /\ request'[s].kind = "release"
      BY <1>1, <1>2, <1>16, <2>1, <2>2 DEF Follow, ServedAt
    <2>5. QED
      BY <2>3, <2>4 DEF StageInv
  <1>17. CASE at = "reoffer"
    <2>1. Reoffered(s) /\ SeenJob(s).status = "offered" /\ r \in Worker
      BY <1>1, <1>4, <1>17 DEF StageInv, VisitedAt
    <2>2. SeenJob(s)' = SeenJob(s)
      BY <1>0, <2>1
    <2>3. hold => SeenOffer(s, r) \notin {"rejected", "cancelled"} /\ SeenOffer(s, r)' = "offered"
      BY <1>0, <1>17, <2>1 DEF Holds, OfferWritten
    <2>4. Reoffered(s)'
      BY <1>0, <1>1, <2>1, <2>2, <2>3 DEF Reoffered, GaveUp
    <2>5. statement'[s] \in {"reoffer", "commit"} /\ request'[s].kind = "release"
      BY <1>1, <1>2, <1>17 DEF Follow, ServedAt, Guarding
    <2>6. QED
      BY <2>1, <2>2, <2>4, <2>5 DEF StageInv
  <1>18. CASE at = "progress"
    <2>1. OnlyExpired(s) /\ r = DispatchRow /\ rows[s] = {}
      BY <1>1, <1>3, <1>4, <1>18 DEF StageInv, VisitedAt
    <2>2. CASE hold
      <3>1. request[s].next \in DOMAIN Progress /\ request[s].kind = "progress"
        BY <1>1, <1>18, Requests DEF ServedAt
      <3>2. /\ SeenJob(s) = job /\ job.status \in Progress[request[s].next]
            /\ job.status \in Active
        BY <1>18, <2>1, <2>2, <3>1, JobWrites, Reports DEF Holds
      <3>3. SeenJob(s)' = [job EXCEPT !.status = request[s].next] /\ statement'[s] = "commit"
        BY <1>0, <1>2, <1>18, <2>1, <2>2, <3>2 DEF Follow, JobWritten
      <3>4. \A v \in Worker : SeenOffer(s, v)' = offer[v]
        BY <1>0, <2>1, <3>2 DEF OnlyExpired, SameOffers, Closing, Active
      <3>5. QED
        BY <1>1, <3>1, <3>2, <3>3, <3>4 DEF StageInv, Reported, SameOffers
    <2>3. CASE ~hold
      <3>1. statement'[s] = "commit"
        BY <1>2, <1>18, <2>3 DEF Missed, Guarding
      <3>2. OnlyExpired(s)'
        BY <1>0, <1>1, <2>1, <2>3 DEF OnlyExpired, SameOrExpired, SameOffers, Closing
      <3>3. QED
        BY <3>1, <3>2 DEF StageInv
    <2>4. QED
      BY <2>2, <2>3
  <1>19. CASE at = "expire"
    <2>1. OnlyExpired(s) /\ r = DispatchRow /\ statement'[s] = "commit"
      BY <1>1, <1>2, <1>3, <1>4, <1>19 DEF StageInv, VisitedAt, Guarding, Follow
    <2>2. OnlyExpired(s)'
      <3>1. CASE hold
        <4>1. SeenJob(s) = job /\ job.status = "offered"
          BY <1>19, <2>1, <3>1, JobWrites DEF Holds
        <4>2. SeenJob(s)' = [job EXCEPT !.status = "expired"]
          BY <1>0, <1>19, <2>1, <3>1, <4>1 DEF JobWritten
        <4>3. QED
          BY <1>0, <1>1, <2>1, <4>1, <4>2 DEF OnlyExpired, SameOrExpired, SameOffers, Closing
      <3>2. CASE ~hold
        BY <1>0, <1>1, <2>1, <3>2 DEF OnlyExpired, SameOrExpired, SameOffers, Closing
      <3>3. QED
        BY <3>1, <3>2
    <2>3. QED
      BY <2>1, <2>2 DEF StageInv
  <1>20. CASE at = "closeExpired"
    <2>1. SameOrExpired(s) /\ Closing(s, rows[s] \cup {r}) /\ r \in Worker
      BY <1>1, <1>4, <1>6, <1>20 DEF StageInv, VisitedAt, Visit
    <2>2. SeenJob(s)' = SeenJob(s)
      BY <1>0, <2>1
    <2>3. hold <=> SeenOffer(s, r) = "offered"
      BY <1>20 DEF Holds
    <2>4. hold => SeenOffer(s, r)' = "expired"
      BY <1>0, <1>20, <2>1 DEF OfferWritten
    <2>5. \/ statement'[s] = "commit" /\ rows[s] = {}
          \/ /\ statement'[s] = "closeExpired" /\ want'[s] # NoRow
             /\ Pending(s)' = rows[s]
      <3>1. NoRow \notin rows[s]
        BY <1>4 DEF TypeOK, Row
      <3>2. QED
        BY <1>2, <1>20, <3>1 DEF Guarding, Follow
    <2>6. /\ SameOrExpired(s)' /\ SeenJob(s)'.status = "expired"
          /\ \A v \in Worker :
                /\ \/ SeenOffer(s, v)' = offer'[v]
                   \/ offer'[v] = "offered" /\ SeenOffer(s, v)' = "expired"
                /\ SeenOffer(s, v)' = "offered" => v \in rows[s]
      BY <1>0, <1>1, <2>1, <2>2, <2>3, <2>4 DEF Closing, SameOrExpired
    <2>7. CASE statement'[s] = "commit" /\ rows[s] = {}
      BY <2>6, <2>7 DEF StageInv, OnlyExpired, Closing
    <2>8. CASE /\ statement'[s] = "closeExpired" /\ want'[s] # NoRow
               /\ Pending(s)' = rows[s]
      BY <2>6, <2>8 DEF StageInv, Closing
    <2>9. QED
      BY <2>5, <2>7, <2>8
  <1>21. QED
    <2>1. at \notin {"idle", "commit", "rollback"}
      BY <1>1 DEF VisitedAt
    <2>2. QED
      BY <1>4, <1>10, <1>11, <1>12, <1>13, <1>14, <1>15, <1>16, <1>17, <1>18, <1>19,
         <1>20, <2>1 DEF Statement, Guarding

-----------------------------------------------------------------------------
(* A transaction commits, and the committed rows change under the others *)

LEMMA ReportedChanges ==
  ASSUME NEW s \in Session, job \in JobRow, Reported(s)
  PROVE  SeenJob(s) # job /\ job.status \in Active
  <1>1. PICK next \in DOMAIN Progress :
           job.status \in Progress[next] /\ SeenJob(s) = [job EXCEPT !.status = next]
    BY DEF Reported
  <1>2. job.status # next
    BY <1>1 DEF Progress
  <1>3. QED
    BY <1>1, <1>2, Reports DEF JobRow, Progress, Active

\* What a transaction that commits makes of the job and of an offer.
LEMMA Outcomes ==
  ASSUME LocksInv, NEW s \in Session, statement[s] = "commit"
  PROVE  /\ SeenJob(s) = job \/ job.status \in {"offered"} \cup Active
         /\ SeenJob(s).status # "none"
         /\ SeenJob(s) = job =>
               \A v \in Worker :
                  \/ SeenOffer(s, v) = offer[v]
                  \/ offer[v] = "offered" /\ SeenOffer(s, v) = "rejected"
                  \/ offer[v] = "offered" /\ SeenOffer(s, v) = "expired" /\ job.status = "expired"
  <1>1. job \in JobRow /\ job.status # "none" /\ StageInv(s)
    BY DEF LocksInv, TypeOK, UnpostedIsQuiet, Idle
  <1>2. CASE OnlyExpired(s)
    BY <1>1, <1>2 DEF OnlyExpired, SameOrExpired, SameOffers, Closing, JobRow
  <1>3. CASE Answered(s, "rejected")
    BY <1>1, <1>3 DEF Answered, SameOrExpired, SameOffers, Closing, JobRow
  <1>4. CASE Accepted(s, {})
    BY <1>1, <1>4 DEF Accepted, JobRow
  <1>5. CASE Cancelled(s, {})
    BY <1>1, <1>5 DEF Cancelled, JobRow, Active
  <1>6. CASE Reoffered(s)
    BY <1>1, <1>6 DEF Reoffered, GaveUp, JobRow, Active
  <1>7. CASE Reported(s)
    <2>1. PICK next \in DOMAIN Progress :
             job.status \in Progress[next] /\ SeenJob(s) = [job EXCEPT !.status = next]
      BY <1>7 DEF Reported
    <2>2. SeenJob(s).status = next
      BY <1>1, <2>1 DEF JobRow
    <2>3. QED
      BY <1>1, <1>7, <2>1, <2>2, Reports, ReportedChanges DEF Active
  <1>8. QED
    BY <1>1, <1>2, <1>3, <1>4, <1>5, <1>6, <1>7 DEF StageInv

\* The committed rows change where the transaction of t has written nothing,
\* and its own rows stay as they are. While it has written the job, only
\* rejections are committed.
Rebased(t) ==
    /\ request'[t] = request[t] /\ statement'[t] = statement[t]
    /\ want'[t] = want[t] /\ rows'[t] = rows[t]
    /\ job' = job \/ job.status \in {"offered"} \cup Active
    /\ IF SeenJob(t) = job THEN SeenJob(t)' = job'
       ELSE job' = job /\ SeenJob(t)' = SeenJob(t)
    /\ \A v \in Worker : IF SeenOffer(t, v) = offer[v] THEN SeenOffer(t, v)' = offer'[v]
                         ELSE offer'[v] = offer[v] /\ SeenOffer(t, v)' = SeenOffer(t, v)
    /\ SeenJob(t) # job =>
          \A v \in Worker :
             \/ offer'[v] = offer[v]
             \/ offer[v] = "offered" /\ offer'[v] = "rejected"
    /\ job.status = "expired" => \A v \in Worker : offer'[v] = "offered" => offer[v] = "offered"

LEMMA OthersRebased ==
  ASSUME LocksInv, NEW s \in Session, statement[s] = "commit",
         Publish(s), Release(s), Return(s), NEW t \in Session \ {s}
  PROVE  Rebased(t)
  <1> USE LocksAssumption
  <1>0. TypeOK /\ job \in JobRow /\ StageInv(t) /\ draft' = draft
    BY DEF LocksInv, TypeOK, Publish
  <1>1. /\ request'[t] = request[t] /\ statement'[t] = statement[t]
        /\ want'[t] = want[t] /\ rows'[t] = rows[t]
    BY <1>0, ReturnPath
  <1>2. job' = SeenJob(s) /\ \A v \in Worker : offer'[v] = SeenOffer(s, v)
    BY DEF Publish, SeenJob
  <1>3. \A r \in Row : lock'[r] = t <=> lock[r] = t
    BY <1>0 DEF Release, TypeOK
  <1>4. job' = job \/ job.status \in {"offered"} \cup Active
    BY <1>2, Outcomes
  <1>5. IF SeenJob(t) = job THEN SeenJob(t)' = job'
        ELSE job' = job /\ SeenJob(t)' = SeenJob(t)
    BY <1>0, <1>2, <1>3 DEF SeenJob, draft, Row
  <1>6. ASSUME NEW v \in Worker
        PROVE  IF SeenOffer(t, v) = offer[v] THEN SeenOffer(t, v)' = offer'[v]
               ELSE offer'[v] = offer[v] /\ SeenOffer(t, v)' = SeenOffer(t, v)
    BY <1>0, <1>2, <1>3 DEF SeenOffer, draft, Row
  <1>7. ASSUME SeenJob(t) # job, NEW v \in Worker
        PROVE  \/ offer'[v] = offer[v]
               \/ offer[v] = "offered" /\ offer'[v] = "rejected"
    <2>1. SeenJob(s) = job
      BY <1>7 DEF SeenJob
    <2>2. job.status \in {"offered"} \cup Active \/ SameOrExpired(t)
      BY <1>0
      DEF StageInv, Accepted, Cancelled, GaveUp, Reoffered, Reported, TypeOK, Statement,
          Guarding, Active, Progress, OnlyExpired, Answered, Untouched, SameOrExpired
    <2>3. job.status # "expired"
      BY <1>7, <2>2 DEF SameOrExpired, Active
    <2>4. \/ SeenOffer(s, v) = offer[v]
          \/ offer[v] = "offered" /\ SeenOffer(s, v) = "rejected"
      BY <2>1, <2>3, Outcomes
    <2>5. QED
      BY <1>2, <2>4
  <1>8. ASSUME job.status = "expired", NEW v \in Worker, offer'[v] = "offered"
        PROVE  offer[v] = "offered"
    BY <1>2, <1>8, Outcomes DEF Active
  <1>9. QED
    BY <1>1, <1>4, <1>5, <1>6, <1>7, <1>8 DEF Rebased

LEMMA RebasedKeeps ==
  ASSUME LocksInv, NEW t \in Session, Rebased(t)
  PROVE  PathInv(t)' /\ StageInv(t)'
  <1>0. /\ job \in JobRow /\ PathInv(t) /\ StageInv(t)
        /\ request'[t] = request[t] /\ statement'[t] = statement[t]
        /\ Pending(t)' = Pending(t)
        /\ want'[t] = want[t] /\ rows'[t] = rows[t]
    BY DEF LocksInv, TypeOK, Rebased, Pending
  <1>1. PathInv(t)'
    BY <1>0 DEF PathInv, Idle, VisitedAt, ServedAt
  <1>2. SeenJob(t).status = "expired" => SeenJob(t)'.status = "expired"
    BY DEF Rebased, Active
  <1>3. SameOrExpired(t) => SameOrExpired(t)'
    BY DEF Rebased, SameOrExpired
  <1>4. /\ \A workers \in SUBSET Worker : SameOffers(t, workers) => SameOffers(t, workers)'
        /\ Untouched(t) => Untouched(t)'
    BY DEF Rebased, SameOffers, Untouched
  <1>5. ASSUME NEW pending, SameOrExpired(t), Closing(t, pending)
        PROVE  Closing(t, pending)'
    <2>1. SeenJob(t)'.status = "expired"
      BY <1>2, <1>5 DEF Closing
    <2>2. ASSUME NEW v \in Worker
          PROVE  /\ \/ SeenOffer(t, v)' = offer'[v]
                    \/ offer'[v] = "offered" /\ SeenOffer(t, v)' = "expired"
                 /\ SeenOffer(t, v)' = "offered" => v \in pending
      <3>1. SeenOffer(t, v)' = "offered" => SeenOffer(t, v) = "offered"
        BY <1>5 DEF Rebased, SameOrExpired, Closing
      <3>2. QED
        BY <1>5, <3>1 DEF Rebased, Closing
    <2>3. QED
      BY <2>1, <2>2 DEF Closing
  <1>6. OnlyExpired(t) => OnlyExpired(t)'
    BY <1>3, <1>4, <1>5 DEF OnlyExpired
  <1>7. ASSUME NEW answer \in {"accepted", "rejected"}, Answered(t, answer)
        PROVE  Answered(t, answer)'
    <2> PICK w : w = request[t].worker
      OBVIOUS
    <2>1. SameOffers(t, Worker \ {w})'
      BY <1>4, <1>7 DEF Answered
    <2>2. QED
      BY <1>0, <1>3, <1>7, <2>1 DEF Answered, Rebased
  <1>8. ASSUME NEW pending, Accepted(t, pending)
        PROVE  Accepted(t, pending)'
    <2>1. SeenJob(t) # job
      BY <1>0, <1>8 DEF Accepted, JobRow
    <2>2. QED
      BY <1>0, <1>8, <2>1 DEF Accepted, Rebased
  <1>9. ASSUME NEW pending, Cancelled(t, pending)
        PROVE  Cancelled(t, pending)'
    <2>1. SeenJob(t) # job
      BY <1>0, <1>9 DEF Cancelled, JobRow, Active
    <2>2. QED
      BY <1>0, <1>9, <2>1 DEF Cancelled, Rebased
  <1>10. ASSUME job.status \in Active, SeenJob(t) # job
        PROVE  job' = job /\ SeenJob(t)' = SeenJob(t) /\ \A v \in Worker : offer'[v] = offer[v]
    <2>1. \A v \in Worker : offer[v] # "offered"
      BY <1>10 DEF LocksInv, CommittedConsistent, Active
    <2>2. QED
      BY <1>10, <2>1 DEF Rebased
  <1>11. GaveUp(t) => job.status \in Active /\ SeenJob(t) # job
    BY <1>0 DEF GaveUp, JobRow, Active
  <1>12. ASSUME GaveUp(t) PROVE GaveUp(t)'
    BY <1>0, <1>10, <1>11, <1>12 DEF GaveUp
  <1>13. ASSUME Reoffered(t) PROVE Reoffered(t)' /\ SeenJob(t)' = SeenJob(t)
    <2>1. GaveUp(t)
      BY <1>13 DEF Reoffered
    <2>2. \A v \in Worker : SeenOffer(t, v)' = SeenOffer(t, v)
      BY <1>10, <1>11, <2>1 DEF Rebased
    <2>3. QED
      BY <1>0, <1>10, <1>11, <1>13, <2>1, <2>2 DEF Reoffered, GaveUp
  <1>14. ASSUME Reported(t) PROVE Reported(t)'
    <2>1. SeenJob(t) # job /\ job.status \in Active
      BY <1>0, <1>14, ReportedChanges
    <2>2. QED
      BY <1>4, <1>10, <1>14, <2>1 DEF Reported
  <1>15. StageInv(t)'
    BY <1>0, <1>2, <1>3, <1>4, <1>5, <1>6, <1>7, <1>8, <1>9, <1>12, <1>13, <1>14 DEF StageInv
  <1>16. QED
    BY <1>1, <1>15

\* What a transaction commits is consistent, and keeps to the replacement
\* limit.
LEMMA CommitConsistent ==
  ASSUME LocksInv, NEW s \in Session, statement[s] = "commit", Publish(s)
  PROVE  CommittedConsistent' /\ (job'.attempts > MaxReplacements => job'.status = "expired")
  <1> USE LocksAssumption
  <1>0. /\ job \in JobRow /\ StageInv(s) /\ CommittedConsistent
        /\ offer \in [Worker -> OfferStatus]
        /\ job.attempts > MaxReplacements => job.status = "expired"
    BY DEF LocksInv, TypeOK
  <1>1. job' = SeenJob(s) /\ \A v \in Worker : offer'[v] = SeenOffer(s, v)
    BY DEF Publish, SeenJob
  <1>2. CASE OnlyExpired(s)
    BY <1>0, <1>1, <1>2
    DEF OnlyExpired, SameOrExpired, SameOffers, Closing, CommittedConsistent, JobRow, Active
  <1>3. CASE Answered(s, "rejected")
    BY <1>0, <1>1, <1>3
    DEF Answered, SameOffers, CommittedConsistent, JobRow, Active
  <1>4. CASE Accepted(s, {})
    BY <1>0, <1>1, <1>4 DEF Accepted, CommittedConsistent, JobRow, Active
  <1>5. CASE Cancelled(s, {})
    BY <1>0, <1>1, <1>5 DEF Cancelled, CommittedConsistent, JobRow, Active
  <1>6. CASE Reoffered(s)
    <2> PICK w : w = request[s].worker
      OBVIOUS
    <2>1. /\ w \in Worker /\ job.worker = w /\ job.status \in Active
          /\ job' = [status |-> IF job.attempts < MaxReplacements THEN "offered" ELSE "expired",
                     worker |-> NoWorker, attempts |-> job.attempts + 1,
                     excluded |-> job.excluded \cup {w}]
      BY <1>1, <1>6 DEF Reoffered, GaveUp, Active
    <2>2. /\ job'.status = IF job.attempts < MaxReplacements THEN "offered" ELSE "expired"
          /\ job'.worker = NoWorker /\ job'.attempts = job.attempts + 1
          /\ job'.excluded = job.excluded \cup {w}
      BY <2>1
    <2>3. \A v \in Worker : offer[v] = "accepted" <=> v = w
      BY <1>0, <2>1 DEF CommittedConsistent
    <2>4. /\ offer'[w] = "cancelled"
          /\ \A v \in Worker \ {w} :
                \/ offer'[v] = offer[v]
                \/ offer[v] \notin {"rejected", "cancelled"} /\ offer'[v] = "offered"
      BY <1>1, <1>6, <2>1 DEF Reoffered
    <2>5. \A v \in Worker : offer'[v] # "accepted"
      BY <2>3, <2>4
    <2>6. job.excluded \subseteq Worker /\ job.attempts \in Nat
      BY <1>0 DEF JobRow
    <2>7. \A v \in job.excluded : offer[v] = "cancelled"
      BY <1>0 DEF CommittedConsistent
    <2>8. \A v \in job'.excluded : offer'[v] = "cancelled"
      BY <2>2, <2>4, <2>6, <2>7
    <2>9. job'.attempts > MaxReplacements => job'.status = "expired"
      BY <2>2, <2>6
    <2>10. QED
      BY <2>2, <2>5, <2>8, <2>9 DEF CommittedConsistent, Active
  <1>7. CASE Reported(s)
    <2>1. PICK next \in DOMAIN Progress :
             job.status \in Progress[next] /\ SeenJob(s) = [job EXCEPT !.status = next]
      BY <1>7 DEF Reported
    <2>2. /\ job' = [job EXCEPT !.status = next] /\ job.status \in Active
          /\ next \in Active \cup {"completed"}
          /\ \A v \in Worker : offer'[v] = offer[v]
      BY <1>1, <1>7, <2>1, Reports DEF Reported, SameOffers
    <2>3. QED
      BY <1>0, <2>2 DEF CommittedConsistent, JobRow, Active
  <1>8. QED
    BY <1>0, <1>2, <1>3, <1>4, <1>5, <1>6, <1>7 DEF StageInv

\* A transaction that ended has no locks, and its connection sees what is
\* committed.
LEMMA EndedIsClean ==
  ASSUME TypeOK, NEW s \in Session, Release(s)
  PROVE  /\ \A r \in Row : lock'[r] # s /\ lock'[r] = IF lock[r] = s THEN NoSession ELSE lock[r]
         /\ SeenJob(s)' = job'
         /\ \A v \in Worker : SeenOffer(s, v)' = offer'[v]
         /\ OnlyExpired(s)'
  <1>1. \A r \in Row : lock'[r] # s /\ lock'[r] = IF lock[r] = s THEN NoSession ELSE lock[r]
    BY LocksAssumption DEF Release, TypeOK
  <1>2. SeenJob(s)' = job' /\ \A v \in Worker : SeenOffer(s, v)' = offer'[v]
    BY <1>1 DEF SeenJob, SeenOffer, Row
  <1>3. QED
    BY <1>1, <1>2 DEF OnlyExpired, SameOrExpired, SameOffers, Closing

\* A transaction that is undone leaves the others as they were.
LEMMA UndoOthers ==
  ASSUME TypeOK, NEW s \in Session, Undo(s), Release(s), NEW t \in Session \ {s}
  PROVE  /\ SeenJob(t)' = SeenJob(t)
         /\ \A v \in Worker : SeenOffer(t, v)' = SeenOffer(t, v)
  <1>1. \A r \in Row : lock'[r] = t <=> lock[r] = t
    BY LocksAssumption DEF Release, TypeOK
  <1>2. SeenJob(t)' = SeenJob(t)
    BY <1>1 DEF Undo, table, SeenJob, Row
  <1>3. ASSUME NEW v \in Worker PROVE SeenOffer(t, v)' = SeenOffer(t, v)
    BY <1>1 DEF Undo, table, SeenOffer, Row, TypeOK
  <1>4. QED
    BY <1>2, <1>3

\* After either end the drafts of the rows it held are the committed rows.
LEMMA EndDrafts ==
  ASSUME LocksInv, NEW s \in Session, Publish(s) \/ Undo(s), Release(s),
         \A t \in Session \ {s} : statement'[t] = statement[t]
  PROVE  DraftsAreLocked'
  <1>0. TypeOK /\ DraftsAreLocked
    BY DEF LocksInv
  <1>1. \A r \in Row : lock'[r] # s /\ lock'[r] = IF lock[r] = s THEN NoSession ELSE lock[r]
    BY <1>0, EndedIsClean
  <1>2. ASSUME lock'[DispatchRow] = NoSession PROVE newJob' = job'
    BY <1>0, <1>1, <1>2 DEF DraftsAreLocked, Publish, Undo, draft, table, Row
  <1>3. ASSUME NEW v \in Worker, lock'[v] = NoSession PROVE newOffer'[v] = offer'[v]
    BY <1>0, <1>1, <1>3 DEF DraftsAreLocked, Publish, Undo, draft, table, SeenOffer, Row
  <1>4. ASSUME NEW r \in Row, NEW t \in Session, lock'[r] = t, Idle(t)' PROVE open'[t]
    BY <1>0, <1>1, <1>4, LocksAssumption DEF DraftsAreLocked, Release, Idle, TypeOK
  <1>5. QED
    BY <1>2, <1>3, <1>4 DEF DraftsAreLocked

-----------------------------------------------------------------------------
(* The invariant, one step per action *)

\* Everything but types.
Tables ==
    /\ CommittedConsistent
    /\ job.attempts > MaxReplacements => job.status = "expired"
    /\ DraftsAreLocked
    /\ UnpostedIsQuiet

Sessions == \A s \in Session : PathInv(s) /\ StageInv(s)

LEMMA DispatchJobStep ==
  ASSUME LocksInv, DispatchJob PROVE Tables' /\ Sessions'
  <1> USE LocksAssumption
  <1>0. /\ TypeOK /\ job = Blank /\ job.status = "none"
        /\ \A r \in Row : lock[r] = NoSession
        /\ \A s \in Session : Idle(s) /\ PathInv(s)
    BY DEF LocksInv, UnpostedIsQuiet, DispatchJob
  <1>1. /\ job' = [Blank EXCEPT !.status = "offered"] /\ newJob' = job' /\ newOffer' = offer'
        /\ \A w \in Worker : offer'[w] \in {"none", "offered"}
        /\ lock' = lock /\ open' = open
        /\ request' = request /\ statement' = statement /\ want' = want /\ rows' = rows
    BY <1>0 DEF DispatchJob, control
  <1>2. CommittedConsistent' /\ (job'.attempts > MaxReplacements => job'.status = "expired")
    BY <1>1 DEF CommittedConsistent, Blank, Active
  <1>3. DraftsAreLocked' /\ UnpostedIsQuiet'
    BY <1>0, <1>1 DEF DraftsAreLocked, UnpostedIsQuiet, Blank
  <1>4. ASSUME NEW s \in Session PROVE PathInv(s)' /\ StageInv(s)'
    <2>1. PathInv(s)'
      BY <1>0, <1>1 DEF PathInv, Idle, VisitedAt, ServedAt
    <2>2. SeenJob(s)' = job' /\ \A w \in Worker : SeenOffer(s, w)' = offer'[w]
      BY <1>1 DEF SeenJob, SeenOffer
    <2>3. statement'[s] = "idle"
      BY <1>0, <1>1 DEF Idle
    <2>4. QED
      BY <2>1, <2>2, <2>3 DEF StageInv, OnlyExpired, SameOrExpired, SameOffers, Closing
  <1>5. QED
    BY <1>2, <1>3, <1>4 DEF Tables, Sessions

\* A step that leaves the rows and the locks alone disturbs nothing but the
\* connection that makes it.
LEMMA RestingTables ==
  ASSUME LocksInv, UNCHANGED <<table, draft, lock>>,
         \A t \in Session : open[t] => open'[t],
         \A t \in Session : Idle(t)' => Idle(t) \/ open'[t] \/ \A r \in Row : lock[r] # t,
         job.status = "none" => \A t \in Session : Idle(t)'
  PROVE  Tables'
  <1>1. CommittedConsistent' /\ (job'.attempts > MaxReplacements => job'.status = "expired")
    BY DEF LocksInv, CommittedConsistent, table
  <1>2. DraftsAreLocked'
    BY DEF LocksInv, DraftsAreLocked, table, draft
  <1>3. UnpostedIsQuiet'
    BY DEF LocksInv, UnpostedIsQuiet, table
  <1>4. QED
    BY <1>1, <1>2, <1>3 DEF Tables

LEMMA RestingSession ==
  ASSUME LocksInv, UNCHANGED <<table, draft, lock>>, NEW t \in Session,
         request'[t] = request[t], statement'[t] = statement[t],
         want'[t] = want[t], rows'[t] = rows[t]
  PROVE  PathInv(t)' /\ StageInv(t)'
  BY SeenStays, UnmovedKeeps DEF LocksInv, Unmoved

LEMMA BeginStep ==
  ASSUME LocksInv, NEW s \in Session, NEW req \in Traffic, Begin(s, req)
  PROVE  Tables' /\ Sessions'
  <1> USE LocksAssumption
  <1>0. /\ TypeOK /\ Idle(s) /\ PathInv(s) /\ StageInv(s) /\ job.status # "none"
        /\ req \in Request /\ UNCHANGED <<table, draft, lock>>
        /\ GoTo(s, First[req.kind]) /\ request' = [request EXCEPT ![s] = req]
        /\ open' = [open EXCEPT ![s] = open[s] \/ req.kind \notin Autocommit]
    BY DEF LocksInv, Begin
  <1>1. /\ statement'[s] = First[req.kind] /\ want'[s] = NoRow /\ rows'[s] = {}
        /\ request'[s] = req
        /\ \A t \in Session \ {s} :
              /\ request'[t] = request[t] /\ statement'[t] = statement[t]
              /\ want'[t] = want[t] /\ rows'[t] = rows[t]
    BY <1>0, GoToEffect DEF TypeOK
  <1>2. /\ req.kind \in DOMAIN First /\ req.kind \in ServedAt(First[req.kind])
        /\ First[req.kind] \in {"claimOffer", "cancelJob", "giveUp", "progress", "expire",
                                "closeExpired"}
    BY <1>0, Requests, FirstStatements
  <1>3. PathInv(s)'
    BY <1>0, <1>1, <1>2 DEF PathInv, Idle
  <1>4. StageInv(s)'
    <2>1. OnlyExpired(s)
      BY <1>0 DEF StageInv, Idle
    <2>2. OnlyExpired(s)'
      BY <1>0, <2>1, SeenStays DEF OnlyExpired, SameOrExpired, SameOffers, Closing, table
    <2>3. QED
      BY <1>1, <1>2, <2>2 DEF StageInv
  <1>5. Sessions'
    BY <1>0, <1>1, <1>3, <1>4, RestingSession DEF Sessions
  <1>6. ~Idle(s)' /\ \A t \in Session \ {s} : Idle(t)' <=> Idle(t)
    BY <1>1, <1>2 DEF Idle
  <1>7. \A t \in Session : open[t] => open'[t]
    BY <1>0 DEF TypeOK
  <1>8. Tables'
    BY <1>0, <1>6, <1>7, RestingTables
  <1>9. QED
    BY <1>5, <1>8

LEMMA ReadStep ==
  ASSUME LocksInv, NEW s \in Session, Read(s)
  PROVE  Tables' /\ Sessions'
  <1>0. /\ TypeOK /\ UNCHANGED <<table, draft, lock, request, open>> /\ ~Idle(s)
        /\ job.status # "none"
    BY DEF LocksInv, Read, Idle, UnpostedIsQuiet
  <1>1. ASSUME NEW t \in Session \ {s}
        PROVE  statement'[t] = statement[t] /\ want'[t] = want[t] /\ rows'[t] = rows[t]
    <2>1. CASE \E at : GoTo(s, at)
      BY <1>0, <2>1, GoToEffect
    <2>2. CASE \E r, found : /\ want' = [want EXCEPT ![s] = r]
                             /\ rows' = [rows EXCEPT ![s] = found \ {r}]
                             /\ UNCHANGED statement
      BY <1>0, <2>2 DEF TypeOK
    <2>3. QED
      BY <2>1, <2>2 DEF Read
  <1>2. PathInv(s)' /\ StageInv(s)'
    BY ReadSession
  <1>3. Sessions'
    BY <1>0, <1>1, <1>2, RestingSession DEF Sessions
  <1>4. ~Idle(s)'
    <2>1. \A at \in Missed(s) : at # "idle"
      BY Paths
    <2>2. CASE \E at \in Missed(s) : GoTo(s, at)
      BY <1>0, <2>1, <2>2, GoToEffect DEF Idle
    <2>3. CASE UNCHANGED statement
      BY <1>0, <2>3 DEF Idle
    <2>4. QED
      BY <2>2, <2>3 DEF Read
  <1>5. Tables'
    BY <1>0, <1>1, <1>4, RestingTables DEF Idle
  <1>6. QED
    BY <1>3, <1>5

LEMMA VisitStep ==
  ASSUME LocksInv, NEW s \in Session, Visit(s)
  PROVE  Tables' /\ Sessions'
  <1> USE LocksAssumption
  <1> PICK r : r = want[s]
    OBVIOUS
  <1>0. /\ TypeOK /\ PathInv(s) /\ Tables /\ r \in VisitedAt(s) /\ r \in Row
        /\ lock' = [lock EXCEPT ![r] = s] /\ lock[r] \in {NoSession, s}
        /\ table' = table /\ request' = request /\ open' = open
    BY VisitPath DEF LocksInv, Tables, Visit
  <1>1. ~Idle(s) /\ job.status # "none"
    BY <1>0 DEF VisitedAt, Idle, Tables, UnpostedIsQuiet
  <1>2. ~Idle(s)' /\ PathInv(s)'
    <2>1. CASE Advance(s)
      <3>1. PathInv(s)'
        BY <1>0, <1>1, <2>1, AdvancePath DEF Visit
      <3>2. statement'[s] \in {Follow(s), statement[s]}
        BY <1>0, <2>1, AdvanceEffect
      <3>3. QED
        BY <1>1, <3>1, <3>2, Paths DEF Idle
    <2>2. CASE \E at \in Missed(s) : GoTo(s, at)
      BY <1>0, <1>1, <2>2, GoToPath, GoToEffect, Paths DEF Idle
    <2>3. QED
      BY <2>1, <2>2 DEF Visit
  <1>3. StageInv(s)'
    BY VisitStage
  <1>4. \A t \in Session \ {s} : Unmoved(t)
    BY VisitSeen
  <1>5. Sessions'
    BY <1>2, <1>3, <1>4, UnmovedKeeps DEF Sessions, LocksInv
  <1>6. CommittedConsistent' /\ (job'.attempts > MaxReplacements => job'.status = "expired")
    BY <1>0 DEF Tables, CommittedConsistent, table
  <1>7. DraftsAreLocked'
    <2>1. ASSUME lock'[DispatchRow] = NoSession PROVE newJob' = job'
      <3>1. r # DispatchRow /\ lock[DispatchRow] = NoSession
        BY <1>0, <2>1 DEF TypeOK, Row
      <3>2. newJob' = newJob
        BY <3>1 DEF Visit, draft
      <3>3. QED
        BY <1>0, <3>1, <3>2 DEF Tables, DraftsAreLocked, table
    <2>2. ASSUME NEW v \in Worker, lock'[v] = NoSession PROVE newOffer'[v] = offer'[v]
      <3>1. r # v /\ lock[v] = NoSession
        BY <1>0, <2>2 DEF TypeOK, Row
      <3>2. newOffer'[v] = newOffer[v]
        BY <1>0, <3>1 DEF Visit, draft, TypeOK
      <3>3. QED
        BY <1>0, <3>1, <3>2 DEF Tables, DraftsAreLocked, table
    <2>3. ASSUME NEW q \in Row, NEW t \in Session, lock'[q] = t, Idle(t)' PROVE open'[t]
      <3>1. t # s
        BY <1>2, <2>3
      <3>2. lock[q] = t /\ Idle(t)
        BY <1>0, <1>4, <2>3, <3>1 DEF TypeOK, Unmoved, Idle
      <3>3. QED
        BY <1>0, <3>2 DEF Tables, DraftsAreLocked
    <2>4. QED
      BY <2>1, <2>2, <2>3 DEF DraftsAreLocked
  <1>8. UnpostedIsQuiet'
    BY <1>0, <1>1 DEF UnpostedIsQuiet, table
  <1>9. QED
    BY <1>5, <1>6, <1>7, <1>8 DEF Tables

\* The connection returns to the pool and its transaction is over.
LEMMA EndedSession ==
  ASSUME TypeOK, NEW s \in Session, Release(s), Return(s)
  PROVE  PathInv(s)' /\ StageInv(s)'
  BY EndedIsClean, ReturnPath DEF StageInv, Idle

LEMMA CommitStep ==
  ASSUME LocksInv, NEW s \in Session, Commit(s)
  PROVE  Tables' /\ Sessions'
  <1>0. /\ TypeOK /\ statement[s] = "commit" /\ Return(s) /\ job.status # "none"
        /\ StageInv(s)
    BY DEF LocksInv, Commit, UnpostedIsQuiet, Idle
  <1>1. CASE request[s].kind \in Autocommit /\ open[s]
    <2>1. UNCHANGED <<table, draft, lock, open>>
      BY <1>1 DEF Commit
    <2>2. OnlyExpired(s)
      BY <1>0, <1>1 DEF StageInv, Autocommit
    <2>3. OnlyExpired(s)'
      BY <2>1, <2>2, SeenStays DEF OnlyExpired, SameOrExpired, SameOffers, Closing, table
    <2>4. PathInv(s)' /\ StageInv(s)'
      BY <1>0, <2>3, ReturnPath DEF StageInv, Idle
    <2>5. Sessions'
      BY <1>0, <2>1, <2>4, ReturnPath, RestingSession DEF Sessions
    <2>6. \A t \in Session \ {s} : Idle(t)' <=> Idle(t)
      BY <1>0, ReturnPath DEF Idle
    <2>7. Tables'
      BY <1>0, <1>1, <2>1, <2>6, RestingTables
    <2>8. QED
      BY <2>5, <2>7
  <1>2. CASE ~(request[s].kind \in Autocommit /\ open[s])
    <2>1. Publish(s) /\ Release(s)
      BY <1>2 DEF Commit
    <2>2. CommittedConsistent' /\ (job'.attempts > MaxReplacements => job'.status = "expired")
      BY <1>0, <2>1, CommitConsistent
    <2>3. DraftsAreLocked'
      BY <1>0, <2>1, ReturnPath, EndDrafts
    <2>4. UnpostedIsQuiet'
      <3>1. job'.status # "none"
        BY <1>0, <2>1, Outcomes DEF Publish, SeenJob
      <3>2. QED
        BY <3>1 DEF UnpostedIsQuiet
    <2>5. ASSUME NEW t \in Session \ {s} PROVE PathInv(t)' /\ StageInv(t)'
      BY <1>0, <2>1, OthersRebased, RebasedKeeps
    <2>6. Sessions'
      BY <1>0, <2>1, <2>5, EndedSession DEF Sessions
    <2>7. QED
      BY <2>2, <2>3, <2>4, <2>6 DEF Tables
  <1>3. QED
    BY <1>1, <1>2

LEMMA UndoneTables ==
  ASSUME LocksInv, NEW s \in Session, Undo(s), Release(s), job.status # "none",
         \A t \in Session \ {s} : statement'[t] = statement[t]
  PROVE  Tables'
  <1>1. CommittedConsistent' /\ (job'.attempts > MaxReplacements => job'.status = "expired")
    BY DEF LocksInv, CommittedConsistent, Undo, table
  <1>2. DraftsAreLocked'
    BY EndDrafts
  <1>3. UnpostedIsQuiet'
    BY DEF UnpostedIsQuiet, Undo, table
  <1>4. QED
    BY <1>1, <1>2, <1>3 DEF Tables

LEMMA UndoneOthers ==
  ASSUME LocksInv, NEW s \in Session, Undo(s), Release(s), NEW t \in Session \ {s},
         request'[t] = request[t], statement'[t] = statement[t],
         want'[t] = want[t], rows'[t] = rows[t]
  PROVE  PathInv(t)' /\ StageInv(t)'
  <1>1. Unmoved(t)
    BY UndoOthers DEF LocksInv, Unmoved, Undo
  <1>2. QED
    BY <1>1, UnmovedKeeps DEF LocksInv

LEMMA UndoStep ==
  ASSUME LocksInv, NEW s \in Session, Rollback(s) \/ Abort(s)
  PROVE  Tables' /\ Sessions'
  <1>0. TypeOK /\ PathInv(s) /\ Undo(s) /\ Release(s) /\ Return(s)
    BY DEF LocksInv, Rollback, Abort
  <1>1. ~Idle(s)
    <2>1. CASE Rollback(s)
      BY <2>1 DEF Rollback, Idle
    <2>2. CASE Abort(s)
      <3>1. want[s] # NoRow
        BY <2>2, LocksAssumption DEF Abort, Deadlocked, Ring, WaitsFor
      <3>2. QED
        BY <1>0, <3>1 DEF PathInv, VisitedAt, Idle
    <2>3. QED
      BY <2>1, <2>2
  <1>2. job.status # "none"
    BY <1>1 DEF LocksInv, UnpostedIsQuiet
  <1>3. Tables'
    BY <1>0, <1>2, ReturnPath, UndoneTables
  <1>4. Sessions'
    BY <1>0, ReturnPath, EndedSession, UndoneOthers DEF Sessions
  <1>5. QED
    BY <1>3, <1>4

LEMMA IdleTimeoutStep ==
  ASSUME LocksInv, NEW s \in Session, IdleTimeout(s)
  PROVE  Tables' /\ Sessions'
  <1>0. /\ TypeOK /\ PathInv(s) /\ Undo(s) /\ Release(s) /\ UNCHANGED control /\ Idle(s)
        /\ DraftsAreLocked /\ CommittedConsistent /\ UnpostedIsQuiet
    BY DEF LocksInv, IdleTimeout, Leaked
  <1>1. Sessions'
    <2>1. PathInv(s)'
      BY <1>0 DEF control, PathInv, Idle, VisitedAt, ServedAt
    <2>2. StageInv(s)'
      BY <1>0, EndedIsClean DEF StageInv, Idle, control
    <2>3. QED
      BY <1>0, <2>1, <2>2, UndoneOthers DEF Sessions, control
  <1>2. DraftsAreLocked'
    BY <1>0, EndDrafts DEF control
  <1>3. CommittedConsistent' /\ (job'.attempts > MaxReplacements => job'.status = "expired")
    BY <1>0 DEF LocksInv, CommittedConsistent, Undo, table
  <1>4. UnpostedIsQuiet'
    BY <1>0, EndedIsClean DEF UnpostedIsQuiet, Undo, table, control, Idle
  <1>5. QED
    BY <1>1, <1>2, <1>3, <1>4 DEF Tables

LEMMA OtherSteps ==
  ASSUME LocksInv, Lapse \/ (\E s \in Session : RespondUnknown(s)) \/ UNCHANGED vars
  PROVE  Tables' /\ Sessions'
  <1>1. UNCHANGED <<table, draft, lock, control>>
    BY DEF Lapse, RespondUnknown, vars
  <1>2. \A t \in Session : open[t] => open'[t]
    BY DEF Lapse, RespondUnknown, vars, LocksInv, TypeOK
  <1>3. \A t \in Session : Idle(t)' <=> Idle(t)
    BY <1>1 DEF control, Idle
  <1>4. Tables'
    BY <1>1, <1>2, <1>3, RestingTables DEF LocksInv, UnpostedIsQuiet
  <1>5. Sessions'
    BY <1>1, RestingSession DEF Sessions, control
  <1>6. QED
    BY <1>4, <1>5

LEMMA NextInv == LocksInv /\ [Next]_vars => LocksInv'
  <1> SUFFICES ASSUME LocksInv, [Next]_vars PROVE LocksInv'
    OBVIOUS
  <1>1. Tables' /\ Sessions'
    BY DispatchJobStep, BeginStep, ReadStep, VisitStep, CommitStep, UndoStep,
       IdleTimeoutStep, OtherSteps
    DEF Next, SessionNext
  <1>2. TypeOK'
    BY TypeStep
  <1>3. QED
    BY <1>1, <1>2 DEF LocksInv, Tables, Sessions

\* However the statements of the transactions interleave, whoever deadlocks
\* and whatever is rolled back: the invariant of DispatchLocks holds.
THEOREM Invariance == Spec => []LocksInv
  <1>1. QED
    BY InitInv, NextInv, PTL DEF Spec

\* What is committed names one worker, in the row and in the offers alike.
THEOREM CommittedConsistency == Spec => []CommittedConsistent
  <1>1. LocksInv => CommittedConsistent
    BY DEF LocksInv
  <1>2. QED
    BY <1>1, Invariance, PTL

-----------------------------------------------------------------------------
(* What is committed implements JobAssignment *)

LEMMA RefinesInit == Init => Assignment!Init
  BY DEF Init, Assignment!Init, Blank, PhaseOf

\* The search or the work ends and the row keeps everything else.
LEMMA RefinesClose ==
  ASSUME job \in JobRow, job.status \in {"offered"} \cup Active,
         NEW final \in Terminal, job' = [job EXCEPT !.status = final]
  PROVE  Assignment!Next
  <1>1. /\ PhaseOf(job.status) \in {"open", "assigned"} /\ PhaseOf(job'.status) = "closed"
        /\ job'.worker = job.worker /\ job'.attempts = job.attempts
        /\ job'.excluded = job.excluded
    BY DEF PhaseOf, Active, Terminal, JobRow
  <1>2. Assignment!Close({DispatchRow})
    BY <1>1 DEF Assignment!Close
  <1>3. QED
    BY <1>2 DEF Assignment!Next

\* The row keeps its phase and everything else the protocol tells apart.
LEMMA RefinesStutter ==
  ASSUME job \in JobRow, PhaseOf(job'.status) = PhaseOf(job.status),
         job'.worker = job.worker, job'.attempts = job.attempts,
         job'.excluded = job.excluded
  PROVE  UNCHANGED Assignment!vars
  BY DEF Assignment!vars

LEMMA RefinesCommit ==
  ASSUME LocksInv, NEW s \in Session, statement[s] = "commit", Publish(s)
  PROVE  [Assignment!Next]_(Assignment!vars)
  <1> USE LocksAssumption
  <1>0. job \in JobRow /\ StageInv(s) /\ CommittedConsistent /\ job' = SeenJob(s)
    BY DEF LocksInv, TypeOK, Publish, SeenJob
  <1>1. CASE SameOrExpired(s)
    <2>1. CASE job' = job
      BY <1>0, <2>1, RefinesStutter
    <2>2. CASE job.status = "offered" /\ job' = [job EXCEPT !.status = "expired"]
      BY <1>0, <2>2, RefinesClose DEF Terminal
    <2>3. QED
      BY <1>0, <1>1, <2>1, <2>2 DEF SameOrExpired
  <1>2. CASE Accepted(s, {})
    <2> PICK w : w = request[s].worker
      OBVIOUS
    <2>1. /\ w \in Worker /\ offer[w] = "offered" /\ job.status = "offered"
          /\ job' = [job EXCEPT !.status = "accepted", !.worker = w]
      BY <1>0, <1>2 DEF Accepted
    <2>2. w \notin job.excluded
      BY <1>0, <2>1 DEF CommittedConsistent
    <2>3. /\ PhaseOf(job.status) = "open" /\ PhaseOf(job'.status) = "assigned"
          /\ job'.worker = w /\ job'.attempts = job.attempts /\ job'.excluded = job.excluded
      BY <1>0, <2>1 DEF PhaseOf, Active, JobRow
    <2>4. Assignment!Assign(DispatchRow, w)
      BY <2>2, <2>3 DEF Assignment!Assign
    <2>5. QED
      BY <2>1, <2>4 DEF Assignment!Next
  <1>3. CASE Cancelled(s, {})
    BY <1>0, <1>3, RefinesClose DEF Cancelled, Terminal
  <1>4. CASE Reoffered(s)
    <2> PICK w : w = request[s].worker
      OBVIOUS
    <2>1. /\ job.worker = w /\ job.status \in Active
          /\ job'.status = IF job.attempts < MaxReplacements THEN "offered" ELSE "expired"
          /\ job'.worker = NoWorker /\ job'.attempts = job.attempts + 1
          /\ job'.excluded = job.excluded \cup {w}
      BY <1>0, <1>4 DEF Reoffered, GaveUp, Active
    <2>2. /\ PhaseOf(job.status) = "assigned"
          /\ PhaseOf(job'.status) = IF job.attempts < MaxReplacements THEN "open" ELSE "closed"
      BY <2>1 DEF PhaseOf, Active
    <2>3. Assignment!Release(DispatchRow)
      BY <2>1, <2>2 DEF Assignment!Release
    <2>4. QED
      BY <2>3 DEF Assignment!Next
  <1>5. CASE Reported(s)
    <2>1. PICK next \in DOMAIN Progress :
             job.status \in Progress[next] /\ job' = [job EXCEPT !.status = next]
      BY <1>0, <1>5 DEF Reported
    <2>2. job.status \in Active /\ next \in Active \cup {"completed"}
      BY <2>1, Reports
    <2>3. CASE next = "completed"
      BY <1>0, <2>1, <2>2, <2>3, RefinesClose DEF Terminal
    <2>4. CASE next \in Active
      <3>1. /\ PhaseOf(job'.status) = PhaseOf(job.status)
            /\ job'.worker = job.worker /\ job'.attempts = job.attempts
            /\ job'.excluded = job.excluded
        BY <1>0, <2>1, <2>2, <2>4 DEF PhaseOf, Active, JobRow
      <3>2. QED
        BY <1>0, <3>1, RefinesStutter
    <2>5. QED
      BY <2>2, <2>3, <2>4
  <1>6. QED
    BY <1>0, <1>1, <1>2, <1>3, <1>4, <1>5 DEF StageInv, OnlyExpired, Answered, SameOrExpired

LEMMA RefinesStep ==
  ASSUME LocksInv, [Next]_vars PROVE [Assignment!Next]_(Assignment!vars)
  <1>0. job \in JobRow
    BY DEF LocksInv, TypeOK
  <1>1. CASE DispatchJob
    <2>1. /\ PhaseOf(job.status) = "unposted" /\ PhaseOf(job'.status) = "open"
          /\ job'.worker = job.worker /\ job'.attempts = job.attempts
          /\ job'.excluded = job.excluded
      BY <1>0, <1>1 DEF DispatchJob, PhaseOf, JobRow
    <2>2. Assignment!Post(DispatchRow)
      BY <2>1 DEF Assignment!Post
    <2>3. QED
      BY <2>2 DEF Assignment!Next
  <1>2. ASSUME NEW s \in Session, Commit(s), job' # job
        PROVE  [Assignment!Next]_(Assignment!vars)
    <2>1. statement[s] = "commit" /\ Publish(s)
      BY <1>2 DEF Commit, table
    <2>2. QED
      BY <2>1, RefinesCommit
  <1>3. CASE job' = job
    BY <1>0, <1>3, RefinesStutter
  <1>4. QED
    BY <1>1, <1>2, <1>3
    DEF Next, SessionNext, Lapse, Begin, RespondUnknown, Read, Visit, Rollback, Abort,
        IdleTimeout, Undo, table, vars

\* The handlers of the dispatch service, statement by statement on any number of
\* connections, are atomic steps of the assignment protocol when they commit.
THEOREM Refinement == Spec => ImplementsAssignment
  BY RefinesInit, RefinesStep, Invariance, PTL
  DEF Spec, ImplementsAssignment, Assignment!Spec

-----------------------------------------------------------------------------
(* Every commit is one request of JobOffers *)

LEMMA AtomicInit == Init => Offers!Init
  BY DEF Init, Offers!Init, Blank

\* The rows that a transaction commits.
LEMMA Published ==
  ASSUME LocksInv, NEW s \in Session, Publish(s)
  PROVE  /\ job' = SeenJob(s)
         /\ DOMAIN offer = Worker /\ offer' = [v \in Worker |-> SeenOffer(s, v)]
         /\ offer = [v \in Worker |-> offer[v]]
  BY DEF LocksInv, TypeOK, Publish, SeenJob

LEMMA ExpiryIsAtomic ==
  ASSUME LocksInv, NEW s \in Session, Publish(s), OnlyExpired(s)
  PROVE  [Offers!Next]_(Offers!vars)
  <1>0. job \in JobRow
    BY DEF LocksInv, TypeOK
  <1>1. \/ offer' = offer
        \/ offer' = Offers!Closed /\ job'.status = "expired"
    <2>1. CASE SameOffers(s, Worker)
      BY <2>1, Published DEF SameOffers
    <2>2. CASE Closing(s, {})
      BY <2>2, Published DEF Closing, Offers!Closed
    <2>3. QED
      BY <2>1, <2>2 DEF OnlyExpired
  <1>2. \/ job' = job
        \/ job.status = "offered" /\ job' = [job EXCEPT !.status = "expired"]
    BY Published DEF OnlyExpired, SameOrExpired
  <1>3. CASE job' = job /\ offer' = offer
    BY <1>3 DEF Offers!vars
  <1>4. CASE ~(job' = job /\ offer' = offer)
    <2>1. /\ job.status \in {"offered", "expired"} /\ job'.status = "expired"
          /\ job'.worker = job.worker /\ job'.attempts = job.attempts
          /\ job'.excluded = job.excluded
      BY <1>0, <1>1, <1>2, <1>4 DEF JobRow
    <2>2. Offers!Expire
      BY <1>1, <2>1 DEF Offers!Expire
    <2>3. QED
      BY <2>2 DEF Offers!Next
  <1>5. QED
    BY <1>3, <1>4

LEMMA AnswerIsAtomic ==
  ASSUME LocksInv, NEW s \in Session, Publish(s),
         Answered(s, "rejected") \/ Accepted(s, {})
  PROVE  Offers!Next
  <1> PICK w : w = request[s].worker
    OBVIOUS
  <1>0. job \in JobRow /\ CommittedConsistent /\ w \in Worker /\ offer[w] = "offered"
    BY DEF LocksInv, TypeOK, Answered, Accepted
  <1>1. CASE Answered(s, "rejected")
    <2>1. offer' = [offer EXCEPT ![w] = "rejected"]
      BY <1>0, <1>1, Published DEF Answered, SameOffers
    <2>2. job' = job /\ job.status \in {"offered", "expired"}
      BY <1>0, <1>1, Published DEF Answered, CommittedConsistent
    <2>3. Offers!Reject(w)
      BY <1>0, <2>1, <2>2 DEF Offers!Reject
    <2>4. QED
      BY <1>0, <2>3 DEF Offers!Next
  <1>2. CASE Accepted(s, {})
    <2>1. offer' = [Offers!Closed EXCEPT ![w] = "accepted"]
      BY <1>0, <1>2, Published DEF Accepted, Offers!Closed
    <2>2. /\ job.status = "offered" /\ job'.status = "accepted" /\ job'.worker = w
          /\ job'.attempts = job.attempts /\ job'.excluded = job.excluded
      BY <1>0, <1>2, Published DEF Accepted, JobRow
    <2>3. Offers!Accept(w)
      BY <1>0, <2>1, <2>2 DEF Offers!Accept
    <2>4. QED
      BY <1>0, <2>3 DEF Offers!Next
  <1>3. QED
    BY <1>1, <1>2

LEMMA CancellationIsAtomic ==
  ASSUME LocksInv, NEW s \in Session, Publish(s), Cancelled(s, {})
  PROVE  Offers!Next
  <1>1. offer' = [v \in Worker |-> IF offer[v] \in {"offered", "accepted"}
                                   THEN "cancelled" ELSE offer[v]]
    BY Published DEF Cancelled
  <1>2. /\ job.status \in {"offered"} \cup Active /\ job'.status = "cancelled"
        /\ job'.worker = job.worker /\ job'.attempts = job.attempts
        /\ job'.excluded = job.excluded
    BY Published DEF Cancelled, LocksInv, TypeOK, JobRow
  <1>3. Offers!Lifecycle!Cancel
    BY <1>2 DEF Offers!Lifecycle!Cancel, Active
  <1>4. Offers!Cancel
    BY <1>1, <1>2, <1>3 DEF Offers!Cancel
  <1>5. QED
    BY <1>4 DEF Offers!Next

LEMMA ReleaseIsAtomic ==
  ASSUME LocksInv, NEW s \in Session, Publish(s), Reoffered(s)
  PROVE  Offers!Next
  <1> PICK w : w = request[s].worker
    OBVIOUS
  <1> DEFINE again == job.attempts < MaxReplacements
  <1> DEFINE asked == {v \in Worker \ {w} : offer'[v] = "offered"}
  <1>0. job \in JobRow /\ CommittedConsistent
    BY DEF LocksInv, TypeOK
  <1>1. /\ w \in Worker /\ job.worker = w /\ job.status \in {"accepted", "arrived"}
        /\ job'.status = (IF again THEN "offered" ELSE "expired")
        /\ job'.worker = NoWorker /\ job'.attempts = job.attempts + 1
        /\ job'.excluded = job.excluded \cup {w}
    BY Published DEF Reoffered, GaveUp
  <1>2. \A v \in Worker : offer[v] # "offered"
    BY <1>0, <1>1 DEF CommittedConsistent
  <1>3. ASSUME NEW v \in Worker \ {w}
        PROVE  \/ offer'[v] = offer[v]
               \/ again /\ offer[v] \notin {"rejected", "cancelled"} /\ offer'[v] = "offered"
    BY <1>1, Published DEF Reoffered
  <1>4. asked \subseteq {v \in Worker \ ({} \cup job.excluded \cup {job.worker}) :
                          again /\ offer[v] \notin {"rejected", "cancelled"}}
    BY <1>0, <1>1, <1>2, <1>3 DEF CommittedConsistent
  <1>5. offer' = [v \in Worker |-> IF v = job.worker THEN "cancelled"
                                   ELSE IF v \in asked THEN "offered" ELSE offer[v]]
    <2>1. offer'[w] = "cancelled"
      BY <1>1, Published DEF Reoffered
    <2>2. QED
      BY <1>1, <1>3, <2>1, Published
  <1>6. Offers!GiveUp
    BY <1>1, <1>4, <1>5 DEF Offers!GiveUp
  <1>7. QED
    BY <1>6 DEF Offers!Next

LEMMA ReportIsAtomic ==
  ASSUME LocksInv, NEW s \in Session, Publish(s), Reported(s)
  PROVE  Offers!Next
  <1>1. PICK next \in DOMAIN Progress :
           job.status \in Progress[next] /\ job' = [job EXCEPT !.status = next]
    BY Published DEF Reported
  <1>2. /\ job'.status = next /\ job'.worker = job.worker
        /\ job'.attempts = job.attempts /\ job'.excluded = job.excluded
    BY <1>1 DEF LocksInv, TypeOK, JobRow
  <1>3. Offers!Lifecycle!Work
    BY <1>1, <1>2 DEF Offers!Lifecycle!Work, Progress
  <1>4. offer' = offer
    BY Published DEF Reported, SameOffers
  <1>5. Offers!Work
    BY <1>2, <1>3, <1>4 DEF Offers!Work
  <1>6. QED
    BY <1>5 DEF Offers!Next

LEMMA AtomicStep ==
  ASSUME LocksInv, [Next]_vars PROVE [Offers!Next]_(Offers!vars)
  <1>1. CASE DispatchJob
    <2>1. /\ job.status = "none" /\ job'.status = "offered" /\ job'.worker = job.worker
          /\ job'.attempts = job.attempts /\ job'.excluded = job.excluded
      BY <1>1 DEF DispatchJob, LocksInv, TypeOK, JobRow
    <2>2. Offers!Post
      BY <1>1, <2>1 DEF DispatchJob, Offers!Post
    <2>3. QED
      BY <2>2 DEF Offers!Next
  <1>2. ASSUME NEW s \in Session, Commit(s), ~UNCHANGED table
        PROVE  [Offers!Next]_(Offers!vars)
    <2>1. StageInv(s) /\ statement[s] = "commit" /\ Publish(s)
      BY <1>2 DEF LocksInv, Commit, table
    <2>2. \/ OnlyExpired(s) \/ Answered(s, "rejected") \/ Accepted(s, {})
          \/ Cancelled(s, {}) \/ Reoffered(s) \/ Reported(s)
      BY <2>1 DEF StageInv
    <2>3. QED
      BY <2>1, <2>2, ExpiryIsAtomic, AnswerIsAtomic, CancellationIsAtomic, ReleaseIsAtomic,
         ReportIsAtomic
  <1>3. CASE UNCHANGED table
    BY <1>3 DEF table, Offers!vars
  <1>4. QED
    BY <1>1, <1>2, <1>3
    DEF Next, SessionNext, Lapse, Begin, RespondUnknown, Read, Visit, Rollback, Abort,
        IdleTimeout, Undo, vars

\* What a handler commits is what it would have done in one step to the rows
\* that are committed then (respondToJob, cancelAndRematchJob and the others).
THEOREM Atomicity == Spec => HandlersAreAtomic
  BY AtomicInit, AtomicStep, Invariance, PTL DEF Spec, HandlersAreAtomic, Offers!Spec

-----------------------------------------------------------------------------
(* What holds of every commit because it is one request of JobOffers *)

\* No request that is one step moves the job out of order.
LEMMA LifecycleStep ==
  ASSUME CommittedConsistent, Offers!Next PROVE [Offers!Lifecycle!Next]_(job.status)
  <1> USE DEF Offers!Lifecycle!Next, Offers!Lifecycle!Search, Offers!Lifecycle!Work,
              Offers!Lifecycle!Cancel
  <1>1. CASE Offers!Post \/ Offers!GiveUp \/ Offers!Expire
    BY <1>1 DEF Offers!Post, Offers!GiveUp, Offers!Expire
  <1>2. CASE Offers!Work \/ Offers!Cancel
    BY <1>2 DEF Offers!Work, Offers!Cancel
  <1>3. ASSUME NEW w \in Worker, Offers!Reject(w) \/ Offers!Accept(w) \/ Offers!Leave(w)
        PROVE  [Offers!Lifecycle!Next]_(job.status)
    BY <1>3 DEF Offers!Reject, Offers!Accept, Offers!Leave
  <1>4. QED
    BY <1>1, <1>2, <1>3 DEF Offers!Next

\* The committed job goes through its stages in order, however the statements of
\* its customer, its workers and other workers' polls interleave.
THEOREM LifecycleRefinement == Spec => ImplementsLifecycle
  <1>1. Init => Offers!Lifecycle!Init
    BY DEF Init, Blank, Offers!Lifecycle!Init
  <1>2. LocksInv /\ [Next]_vars => [Offers!Lifecycle!Next]_(job.status)
    BY AtomicStep, LifecycleStep DEF LocksInv, Offers!vars
  <1>3. QED
    BY <1>1, <1>2, Invariance, PTL DEF Spec, ImplementsLifecycle, Offers!Lifecycle!Spec

\* A committed rejection stands.
THEOREM RejectionFinal == Spec => RejectionIsFinal
  <1>1. ASSUME LocksInv, [Next]_vars, NEW w \in Worker, offer[w] = "rejected"
        PROVE  offer'[w] = "rejected"
    <2> USE <1>1
    <2>0. /\ offer \in [Worker -> OfferStatus]
          /\ job.status # "none"
          /\ job.worker # w \/ job.status \notin {"accepted", "arrived"}
      BY DEF LocksInv, TypeOK, UnpostedIsQuiet, CommittedConsistent, Active
    <2>1. CASE Offers!Post
      BY <2>0, <2>1 DEF Offers!Post
    <2>2. CASE Offers!Work \/ Offers!Expire \/ Offers!Cancel
      BY <2>2 DEF Offers!Work, Offers!Expire, Offers!Cancel, Offers!Closed
    <2>3. CASE Offers!GiveUp
      BY <2>0, <2>3 DEF Offers!GiveUp
    <2>4. ASSUME NEW v \in Worker, Offers!Reject(v) \/ Offers!Accept(v) \/ Offers!Leave(v)
          PROVE  offer'[w] = "rejected"
      BY <2>0, <2>4 DEF Offers!Reject, Offers!Accept, Offers!Leave, Offers!Closed
    <2>5. CASE UNCHANGED Offers!vars
      BY <2>5 DEF Offers!vars
    <2>6. [Offers!Next]_(Offers!vars)
      BY AtomicStep
    <2>7. QED
      BY <2>1, <2>2, <2>3, <2>4, <2>5, <2>6 DEF Offers!Next
  <1>2. LocksInv /\ [Next]_vars =>
          [\A w \in Worker : offer[w] = "rejected" => offer'[w] = "rejected"]_offer
    BY <1>1
  <1>3. QED
    BY <1>2, Invariance, PTL DEF Spec, RejectionIsFinal

\* Who gave up stays out and was counted once.
ReleasesCounted ==
    /\ job.worker \notin job.excluded
    /\ IsFiniteSet(job.excluded) /\ job.attempts = Cardinality(job.excluded)

LEMMA ReleasesStep ==
  ASSUME LocksInv, ReleasesCounted, [Next]_vars PROVE ReleasesCounted'
  <1>0. /\ job \in JobRow /\ CommittedConsistent
        /\ NoWorker \notin Worker
    BY LocksAssumption DEF LocksInv, TypeOK
  <1>1. ASSUME UNCHANGED <<job.worker, job.attempts, job.excluded>>
        PROVE  ReleasesCounted'
    BY <1>1 DEF ReleasesCounted
  <1>2. CASE Offers!GiveUp
    <2>1. job.worker \in Worker \ job.excluded
      BY <1>0, <1>2 DEF Offers!GiveUp, CommittedConsistent, Active, ReleasesCounted
    <2>2. /\ job'.worker = NoWorker /\ job'.attempts = job.attempts + 1
          /\ job'.excluded = job.excluded \cup {job.worker}
      BY <1>2 DEF Offers!GiveUp
    <2>3. IsFiniteSet(job'.excluded) /\ job'.attempts = Cardinality(job'.excluded)
      BY <2>1, <2>2, FS_AddElement DEF ReleasesCounted
    <2>4. NoWorker \notin job'.excluded
      BY <1>0, <2>1, <2>2 DEF JobRow
    <2>5. QED
      BY <2>2, <2>3, <2>4 DEF ReleasesCounted
  <1>3. ASSUME NEW w \in Worker, Offers!Accept(w) PROVE ReleasesCounted'
    <2>1. w \notin job.excluded
      BY <1>0, <1>3 DEF Offers!Accept, CommittedConsistent
    <2>2. QED
      BY <1>3, <2>1 DEF Offers!Accept, ReleasesCounted
  <1>4. [Offers!Next]_(Offers!vars)
    BY AtomicStep
  <1>5. QED
    BY <1>1, <1>2, <1>3, <1>4
    DEF Offers!Next, Offers!vars, Offers!Post, Offers!Work, Offers!Cancel, Offers!Expire,
        Offers!Reject, Offers!Leave

LEMMA ReleasesInvariance == Spec => []ReleasesCounted
  <1>1. Init => ReleasesCounted
    BY FS_EmptySet DEF Init, Blank, ReleasesCounted
  <1>2. QED
    BY <1>1, ReleasesStep, Invariance, PTL DEF Spec

\* Who gave the job up never gets it again, nor an offer of it.
THEOREM GivenUp == Spec => []GivenUpForGood
  <1>1. LocksInv /\ ReleasesCounted => GivenUpForGood
    BY DEF LocksInv, CommittedConsistent, ReleasesCounted, GivenUpForGood
  <1>2. QED
    BY <1>1, Invariance, ReleasesInvariance, PTL

\* Each release is counted once and the last one allowed ends the job.
THEOREM Budget == Spec => []ReplacementBudget
  <1>1. LocksInv /\ ReleasesCounted => ReplacementBudget
    BY LocksAssumption DEF LocksInv, TypeOK, JobRow, ReleasesCounted, ReplacementBudget
  <1>2. QED
    BY <1>1, Invariance, ReleasesInvariance, PTL

-----------------------------------------------------------------------------
(* Deadlocks *)

\* Who waits in the second or a later statement of a cancellation holds the
\* dispatch row.
LEMMA LaterStatementsHoldTheJob ==
  ASSUME LocksInv, NEW t \in Session, statement[t] \in {"closeAll", "ownOffer", "reoffer"}
  PROVE  lock[DispatchRow] = t
  <1>1. job \in JobRow /\ StageInv(t)
    BY DEF LocksInv, TypeOK
  <1>2. SeenJob(t) # job
    BY <1>1 DEF StageInv, Cancelled, Reoffered, GaveUp, JobRow, Active
  <1>3. QED
    BY <1>2 DEF SeenJob

\* In a ring of waiting connections somebody accepts, closes the offers of an
\* expired job, or works on in a transaction that another request left open.
THEOREM DeadlocksExplained == Spec => []DeadlocksNeedDisorder
  <1>1. ASSUME LocksInv PROVE DeadlocksNeedDisorder
    <2> SUFFICES ASSUME NEW ring \in SUBSET Session, ring # {}, Ring(ring),
                        \A t \in ring : ~OutOfOrder(t)
                 PROVE  FALSE
      BY DEF DeadlocksNeedDisorder
    <2>1. ASSUME NEW t \in ring PROVE lock[DispatchRow] = t
      <3>1. want[t] # NoRow
        BY <1>1, LocksAssumption DEF Ring, WaitsFor
      <3>2. \E r \in Row : lock[r] = t
        <4>1. PICK u \in ring : WaitsFor(u) = t
          BY DEF Ring
        <4>2. want[u] \in Row /\ lock[want[u]] = t
          BY <1>1, <4>1, LocksAssumption DEF WaitsFor, LocksInv, TypeOK
        <4>3. QED
          BY <4>2
      <3>3. /\ statement[t] \notin {"idle", "commit", "rollback"} /\ statement[t] \in Statement
            /\ request[t].kind \in ServedAt(statement[t])
        BY <1>1, <3>1 DEF LocksInv, PathInv, VisitedAt, TypeOK, Idle
      <3>4. statement[t] \in {"closeAll", "ownOffer", "reoffer"}
        BY <3>2, <3>3 DEF OutOfOrder, Openings, ServedAt, Statement, Guarding
      <3>5. QED
        BY <1>1, <3>4, LaterStatementsHoldTheJob
    <2>2. PICK t \in ring : TRUE
      OBVIOUS
    <2>3. WaitsFor(t) \in ring \ {t}
      BY <2>2 DEF Ring
    <2>4. QED
      BY <2>1, <2>2, <2>3
  <1>2. QED
    BY <1>1, Invariance, PTL
=============================================================================
