--------------------------- MODULE DispatchProofs ---------------------------
(***************************************************************************)
(* Theorems about Dispatch for every number of jobs and workers and every  *)
(* replacement limit.                                                      *)
(***************************************************************************)
EXTENDS Dispatch, FiniteSetTheorems, TLAPS

\* What the transition table says, once, as the sets of statuses.
LEMMA PreviousStatuses ==
    /\ PreviousStatusesFor("arrived") = {"accepted"}
    /\ PreviousStatusesFor("started") = {"arrived"}
    /\ PreviousStatusesFor("completion_requested") = {"started"}
    /\ PreviousStatusesFor("completed") = {"started"}
    /\ PreviousStatusesFor("cancelled") = {"accepted", "arrived"}
  BY DEF PreviousStatusesFor, Transitions

\* A search that reads its candidates, or fails, changes no table.
SearchOnly(j) ==
    \/ FindCandidates(j) \/ SearchFails(j)
    \/ \E w \in Worker : FindReplacements(j, w)

LEMMA SearchKeepsTables ==
  ASSUME NEW j \in Job, SearchOnly(j)
  PROVE  UNCHANGED <<jobVars, offer, online, deleted, outbox>>
  BY DEF SearchOnly, FindCandidates, SearchFails, FindReplacements, ReadCandidates

-----------------------------------------------------------------------------
LEMMA InitInv == Init => DispatchInv
  <1> SUFFICES ASSUME Init PROVE DispatchInv
    OBVIOUS
  <1>1. TypeOK
    BY DEF Init, TypeOK, JobStatus, OfferStatus
  <1>2. ReplacementBudget
    BY FS_EmptySet, DispatchAssumption DEF Init, ReplacementBudget
  <1>3. QED
    BY <1>1, <1>2, DispatchAssumption
    DEF Init, DispatchInv, AssignmentConsistent, OpenOffersAreLive, GivenUpForGood,
        AnnouncedOnce, DeletedLeaveNoTrace, UndispatchedIsBlank, Active

-----------------------------------------------------------------------------
(* Type correctness, one step per action. *)

LEMMA TypeStep == TypeOK /\ [Next]_vars => TypeOK'
  <1> SUFFICES ASSUME TypeOK, [Next]_vars PROVE TypeOK'
    OBVIOUS
  <1> USE DispatchAssumption DEF TypeOK, JobStatus, OfferStatus, Active, Terminal, jobVars, search
  <1>1. ASSUME NEW j \in Job, DispatchJob(j) PROVE TypeOK'
    BY <1>1 DEF DispatchJob, EndSearch, Enqueue, EventId, EventType
  <1>2. ASSUME NEW j \in Job, GetDispatchStatus(j) PROVE TypeOK'
    BY <1>2 DEF GetDispatchStatus
  <1>3. ASSUME NEW j \in Job, CustomerCancel(j) PROVE TypeOK'
    BY <1>3 DEF CustomerCancel, CancellationFee, Enqueue, EventId, EventType
  <1>4. ASSUME NEW j \in Job, CustomerResume(j) PROVE TypeOK'
    BY <1>4 DEF CustomerResume, OpenOffersExpired
  <1>5. ASSUME NEW j \in Job, ReportRemainingWork(j) PROVE TypeOK'
    BY <1>5 DEF ReportRemainingWork
  <1>6. ASSUME NEW j \in Job, ConfirmCompletion(j) PROVE TypeOK'
    BY <1>6 DEF ConfirmCompletion
  <1>7. ASSUME NEW j \in Job, NEW w \in Worker, RejectJob(j, w) PROVE TypeOK'
    BY <1>7 DEF RejectJob
  <1>8. ASSUME NEW j \in Job, NEW w \in Worker, AcceptJob(j, w) PROVE TypeOK'
    BY <1>8 DEF AcceptJob, OpenOffersExpired, Enqueue, EventId, EventType
  <1>9. ASSUME NEW j \in Job, NEW w \in Worker, NEW next \in WorkerProgress,
               UpdateJobStatusByWorker(j, w, next)
        PROVE TypeOK'
    BY <1>9 DEF UpdateJobStatusByWorker, WorkerProgress, Enqueue, EventId, EventType
  <1>10. ASSUME NEW j \in Job, NEW w \in Worker, CancelAndRematch(j, w) PROVE TypeOK'
    BY <1>10 DEF CanRematch, CancelAndRematch, ReofferedTo, EndSearch, Enqueue, EventId, EventType
  <1>11. ASSUME GetPendingWorkerJob PROVE TypeOK'
    BY <1>11 DEF GetPendingWorkerJob, OpenOffersExpired
  <1>12. ASSUME NEW w \in Worker, PresenceNext(w) PROVE TypeOK'
    BY <1>12 DEF PresenceNext, GoOnline, GoOffline, RetireToken
  <1>13. ASSUME NEW j \in Job, Lapse(j) PROVE TypeOK'
    BY <1>13 DEF Lapse
  <1>14. ASSUME NEW w \in Worker, DeleteWorker(w) PROVE TypeOK'
    BY <1>14 DEF DeleteWorker
  <1>15. CASE UNCHANGED vars
    BY <1>15 DEF vars
  <1>16. ASSUME NEW j \in Job, SearchOnly(j) PROVE TypeOK'
    <2>1. UNCHANGED <<jobVars, offer, online, deleted, outbox>>
      BY <1>16, SearchKeepsTables
    <2>2. /\ searching' \subseteq Job /\ found' \in [Job -> SUBSET Worker]
          /\ \A i \in Job \ searching' : found'[i] = {}
      <3>1. ASSUME NEW eligible \in SUBSET Worker, ReadCandidates(j, eligible)
            PROVE  /\ searching' \subseteq Job /\ found' \in [Job -> SUBSET Worker]
                   /\ \A i \in Job \ searching' : found'[i] = {}
        BY <3>1 DEF ReadCandidates
      <3>2. CASE FindCandidates(j)
        BY <3>1, <3>2 DEF FindCandidates
      <3>3. ASSUME NEW w \in Worker, FindReplacements(j, w)
            PROVE  ReadCandidates(j, Replacements(j, w)) /\ Replacements(j, w) \in SUBSET Worker
        BY <3>3 DEF FindReplacements, Replacements
      <3>4. CASE SearchFails(j)
        BY <3>4 DEF SearchFails, EndSearch
      <3>5. QED
        BY <1>16, <3>1, <3>2, <3>3, <3>4 DEF SearchOnly
    <2>3. QED
      BY <2>1, <2>2
  <1>17. QED
    BY <1>1, <1>2, <1>3, <1>4, <1>5, <1>6, <1>7, <1>8, <1>9, <1>10, <1>11, <1>12,
       <1>13, <1>14, <1>15, <1>16
    DEF Next, CustomerNext, WorkerNext, SearchOnly

-----------------------------------------------------------------------------
(* The parts of the invariant that say how a job's row and its offers fit,   *)
(* as a predicate of one job. An action changes one job, or expires several. *)

JobInv(j) ==
    /\ status[j] \in Active => acceptedBy[j] \in Worker
    /\ status[j] \in Active \cup {"completed"} =>
          \A w \in Worker : offer[j][w] = "accepted" <=> w = acceptedBy[j]
    /\ status[j] \in {"none", "offered", "expired"} =>
          /\ acceptedBy[j] = NoWorker
          /\ \A w \in Worker : offer[j][w] # "accepted"
    /\ status[j] = "cancelled" =>
          \A w \in Worker : offer[j][w] \notin {"offered", "accepted"}
    /\ \A w \in Worker : offer[j][w] = "offered" => status[j] \in {"offered", "expired"}
    /\ \A w \in excluded[j] : offer[j][w] = "cancelled" /\ acceptedBy[j] # w
    /\ status[j] = "none" =>
          /\ attempts[j] = 0 /\ excluded[j] = {}
          /\ \A w \in Worker : offer[j][w] = "none"
    /\ \A w \in deleted :
          offer[j][w] = "none" /\ acceptedBy[j] # w /\ w \notin excluded[j]

BudgetInv(j) ==
    /\ IsFiniteSet(excluded[j])
    /\ Cardinality(excluded[j]) <= attempts[j]
    /\ attempts[j] <= Cardinality(excluded[j]) + Cardinality(deleted)
    /\ attempts[j] <= MaxReplacements + 1
    /\ attempts[j] > MaxReplacements => status[j] = "expired"

DeletedOffline == \A w \in deleted : ~online[w]

LEMMA DispatchInvSplit ==
    DispatchInv <=> /\ TypeOK
                    /\ \A j \in Job : JobInv(j)
                    /\ \A j \in Job : BudgetInv(j)
                    /\ AnnouncedOnce
                    /\ DeletedOffline
  BY DEF DispatchInv, AssignmentConsistent, OpenOffersAreLive, GivenUpForGood,
         ReplacementBudget, DeletedLeaveNoTrace, UndispatchedIsBlank, JobInv, BudgetInv,
         DeletedOffline

(* A job none of whose columns and offers change keeps its invariants. *)
Untouched(i) ==
    /\ status'[i] = status[i] /\ acceptedBy'[i] = acceptedBy[i]
    /\ attempts'[i] = attempts[i] /\ excluded'[i] = excluded[i]
    /\ offer'[i] = offer[i]
    /\ deleted' = deleted

LEMMA JobStep ==
  ASSUME DispatchInv, [Next]_vars, NEW i \in Job PROVE JobInv(i)'
  <1> USE DispatchAssumption DEF TypeOK, JobStatus, OfferStatus, Active, Terminal, jobVars
  <1>0. TypeOK /\ JobInv(i) /\ BudgetInv(i) /\ DeletedOffline
    BY DispatchInvSplit
  <1>u. ASSUME Untouched(i) PROVE JobInv(i)'
    BY <1>0, <1>u DEF JobInv, Untouched
  <1>1. ASSUME NEW j \in Job, DispatchJob(j) PROVE JobInv(i)'
    BY <1>0, <1>1 DEF JobInv, DispatchJob, FoundAreEnrolled
  <1>2. ASSUME NEW j \in Job, GetDispatchStatus(j) PROVE JobInv(i)'
    BY <1>0, <1>2 DEF JobInv, GetDispatchStatus
  <1>3. ASSUME NEW j \in Job, CustomerCancel(j) PROVE JobInv(i)'
    BY <1>0, <1>3 DEF JobInv, CustomerCancel
  <1>4. ASSUME NEW j \in Job, CustomerResume(j) PROVE JobInv(i)'
    BY <1>0, <1>4 DEF JobInv, CustomerResume, OpenOffersExpired
  <1>5. ASSUME NEW j \in Job, ReportRemainingWork(j) PROVE JobInv(i)'
    BY <1>0, <1>5 DEF JobInv, ReportRemainingWork
  <1>6. ASSUME NEW j \in Job, ConfirmCompletion(j) PROVE JobInv(i)'
    BY <1>0, <1>6 DEF JobInv, ConfirmCompletion
  <1>7. ASSUME NEW j \in Job, NEW w \in Worker, RejectJob(j, w) PROVE JobInv(i)'
    BY <1>0, <1>7 DEF JobInv, RejectJob, CanRespond
  <1>8. ASSUME NEW j \in Job, NEW w \in Worker, AcceptJob(j, w) PROVE JobInv(i)'
    BY <1>0, <1>8 DEF JobInv, AcceptJob, CanRespond, OpenOffersExpired
  <1>9. ASSUME NEW j \in Job, NEW w \in Worker, NEW next \in WorkerProgress,
               UpdateJobStatusByWorker(j, w, next)
        PROVE JobInv(i)'
    BY <1>0, <1>9, PreviousStatuses DEF JobInv, UpdateJobStatusByWorker, WorkerProgress
  <1>10. ASSUME NEW j \in Job, NEW w \in Worker, CancelAndRematch(j, w) PROVE JobInv(i)'
    BY <1>0, <1>10, PreviousStatuses 
    DEF JobInv, CanRematch, CancelAndRematch, ReofferedTo, FoundAreEnrolled
  <1>11. ASSUME GetPendingWorkerJob PROVE JobInv(i)'
    BY <1>0, <1>11 DEF JobInv, GetPendingWorkerJob, OpenOffersExpired, Overdue
  <1>12. ASSUME NEW w \in Worker, PresenceNext(w) PROVE JobInv(i)'
    BY <1>u, <1>12 DEF Untouched, PresenceNext, GoOnline, GoOffline, RetireToken
  <1>13. ASSUME NEW j \in Job, Lapse(j) PROVE JobInv(i)'
    BY <1>u, <1>13 DEF Untouched, Lapse
  <1>14. ASSUME NEW w \in Worker, DeleteWorker(w) PROVE JobInv(i)'
    BY <1>0, <1>14 DEF JobInv, DeleteWorker
  <1>15. CASE UNCHANGED vars
    BY <1>u, <1>15 DEF Untouched, vars
  <1>16. ASSUME NEW j \in Job, SearchOnly(j) PROVE JobInv(i)'
    BY <1>u, <1>16, SearchKeepsTables DEF Untouched
  <1>17. QED
    BY <1>1, <1>2, <1>3, <1>4, <1>5, <1>6, <1>7, <1>8, <1>9, <1>10, <1>11, <1>12,
       <1>13, <1>14, <1>15, <1>16
    DEF Next, CustomerNext, WorkerNext, SearchOnly

-----------------------------------------------------------------------------
(* The budget: only a worker's cancellation counts, and it always adds a     *)
(* worker who was not excluded before; a deletion takes at most that worker  *)
(* out of the excluded and puts it among the deleted.                        *)

LEMMA OneMore ==
  ASSUME NEW S, NEW x, IsFiniteSet(S), x \notin S
  PROVE  IsFiniteSet(S \cup {x}) /\ Cardinality(S \cup {x}) = Cardinality(S) + 1
  BY FS_AddElement

LEMMA OneLessAtMost ==
  ASSUME NEW S, NEW x, IsFiniteSet(S)
  PROVE  /\ IsFiniteSet(S \ {x})
         /\ \/ Cardinality(S \ {x}) = Cardinality(S)
            \/ Cardinality(S \ {x}) = Cardinality(S) - 1
  BY FS_RemoveElement

LEMMA BudgetStep ==
  ASSUME DispatchInv, [Next]_vars, NEW i \in Job PROVE BudgetInv(i)'
  <1> USE DispatchAssumption DEF TypeOK, JobStatus, Active, Terminal, jobVars
  <1>0. TypeOK /\ JobInv(i) /\ BudgetInv(i)
    BY DispatchInvSplit
  <1>f. /\ attempts[i] \in Nat /\ excluded[i] \subseteq Worker
        /\ Cardinality(excluded[i]) \in Nat
        /\ IsFiniteSet(excluded[i]) /\ IsFiniteSet(deleted)
        /\ Cardinality(deleted) \in Nat
    BY <1>0, FS_CardinalityType, FS_Subset DEF BudgetInv
  <1>u. ASSUME attempts'[i] = attempts[i], excluded'[i] = excluded[i],
               deleted' = deleted, status[i] = "expired" => status'[i] = "expired"
        PROVE BudgetInv(i)'
    BY <1>0, <1>u DEF BudgetInv
  <1>1. ASSUME NEW j \in Job, NEW w \in Worker, CancelAndRematch(j, w)
        PROVE BudgetInv(i)'
    <2>1. CASE i # j
      BY <1>u, <1>0, <1>1, <2>1 DEF CanRematch, CancelAndRematch
    <2>2. CASE i = j
      <3>1. /\ w \notin excluded[i] /\ status[i] # "expired"
            /\ attempts'[i] = attempts[i] + 1 /\ deleted' = deleted
            /\ excluded'[i] = excluded[i] \cup {w}
            /\ status'[i] = IF attempts[i] + 1 <= MaxReplacements
                            THEN "offered" ELSE "expired"
        BY <1>0, <1>1, <2>2, PreviousStatuses DEF CanRematch, CancelAndRematch, JobInv
      <3>2. /\ IsFiniteSet(excluded'[i])
            /\ Cardinality(excluded'[i]) = Cardinality(excluded[i]) + 1
        <4>1. /\ IsFiniteSet(excluded[i] \cup {w})
              /\ Cardinality(excluded[i] \cup {w}) = Cardinality(excluded[i]) + 1
          BY <1>f, <3>1, OneMore
        <4>2. QED
          BY <3>1, <4>1
      <3>3. attempts[i] <= MaxReplacements
        BY <1>0, <1>f, <3>1 DEF BudgetInv
      <3>4. QED
        BY <1>0, <1>f, <3>1, <3>2, <3>3 DEF BudgetInv
    <2>3. QED
      BY <2>1, <2>2
  <1>2. ASSUME NEW j \in Job, CustomerNext(j) \/ Lapse(j) PROVE BudgetInv(i)'
    BY <1>u, <1>0, <1>2
    DEF CustomerNext, FindCandidates, ReadCandidates, DispatchJob, GetDispatchStatus,
        CustomerCancel, CustomerResume, ReportRemainingWork, ConfirmCompletion, Lapse
  <1>3. ASSUME NEW j \in Job, NEW w \in Worker, RejectJob(j, w) \/ AcceptJob(j, w)
        PROVE BudgetInv(i)'
    BY <1>u, <1>0, <1>3 DEF RejectJob, AcceptJob, CanRespond
  <1>4. ASSUME NEW j \in Job, NEW w \in Worker, NEW next \in WorkerProgress,
               UpdateJobStatusByWorker(j, w, next)
        PROVE BudgetInv(i)'
    BY <1>u, <1>0, <1>4, PreviousStatuses DEF UpdateJobStatusByWorker, WorkerProgress
  <1>5. ASSUME GetPendingWorkerJob PROVE BudgetInv(i)'
    BY <1>u, <1>0, <1>5 DEF GetPendingWorkerJob
  <1>6. ASSUME NEW w \in Worker, PresenceNext(w) PROVE BudgetInv(i)'
    BY <1>u, <1>6 DEF PresenceNext, GoOnline, GoOffline, RetireToken
  <1>7. ASSUME NEW w \in Worker, DeleteWorker(w) PROVE BudgetInv(i)'
    <2>1. /\ w \notin deleted
          /\ deleted' = deleted \cup {w}
          /\ attempts'[i] = attempts[i]
          /\ excluded'[i] = excluded[i] \ {w}
          /\ status[i] = "expired" => status'[i] = "expired"
      BY <1>0, <1>7 DEF DeleteWorker
    <2>2. Cardinality(deleted') = Cardinality(deleted) + 1
      BY <1>f, <2>1, OneMore
    <2>3. /\ IsFiniteSet(excluded'[i])
          /\ \/ Cardinality(excluded'[i]) = Cardinality(excluded[i])
             \/ Cardinality(excluded'[i]) = Cardinality(excluded[i]) - 1
      BY <1>f, <2>1, OneLessAtMost
    <2>4. Cardinality(excluded'[i]) \in Nat
      BY <2>3, FS_CardinalityType
    <2>5. QED
      BY <1>0, <1>f, <2>1, <2>2, <2>3, <2>4 DEF BudgetInv
  <1>8. CASE UNCHANGED vars
    BY <1>u, <1>8 DEF vars
  <1>9. ASSUME NEW j \in Job, SearchOnly(j) PROVE BudgetInv(i)'
    BY <1>u, <1>9, SearchKeepsTables
  <1>10. QED
    BY <1>1, <1>2, <1>3, <1>4, <1>5, <1>6, <1>7, <1>8, <1>9 DEF Next, WorkerNext, SearchOnly

-----------------------------------------------------------------------------
(* Announcements: an id names a worker who has taken the job, and an offer   *)
(* that was accepted or cancelled never becomes anything but cancelled.      *)

LEMMA TakenOffersStayTaken ==
  ASSUME DispatchInv, [Next]_vars, NEW j \in Job, NEW w \in Worker,
         status[j] # "none", offer[j][w] \in {"accepted", "cancelled"}
  PROVE  /\ status'[j] # "none"
         /\ offer'[j][w] \in {"accepted", "cancelled"} \/ w \in deleted'
  <1> USE DispatchAssumption DEF TypeOK, JobStatus, OfferStatus, Active, Terminal, jobVars
  <1>0. TypeOK /\ JobInv(j)
    BY DispatchInvSplit
  <1>1. ASSUME NEW i \in Job, CustomerNext(i) \/ Lapse(i)
        PROVE status'[j] # "none" /\ offer'[j][w] \in {"accepted", "cancelled"}
    <2>1. CASE DispatchJob(i)
      BY <1>0, <2>1 DEF DispatchJob
    <2>2. CASE CustomerCancel(i)
      BY <1>0, <2>2 DEF CustomerCancel
    <2>3. CASE CustomerResume(i)
      BY <1>0, <2>3 DEF CustomerResume, OpenOffersExpired
    <2>4. CASE GetDispatchStatus(i) \/ ReportRemainingWork(i) \/ ConfirmCompletion(i) \/ Lapse(i)
      BY <1>0, <2>4 DEF GetDispatchStatus, ReportRemainingWork, ConfirmCompletion, Lapse
    <2>5. CASE FindCandidates(i)
      BY <2>5 DEF FindCandidates, ReadCandidates
    <2>6. QED
      BY <1>1, <2>1, <2>2, <2>3, <2>4, <2>5 DEF CustomerNext
  <1>2. ASSUME NEW i \in Job, NEW v \in Worker, RejectJob(i, v) \/ AcceptJob(i, v)
        PROVE status'[j] # "none" /\ offer'[j][w] \in {"accepted", "cancelled"}
    <2>1. i # j \/ v # w
      BY <1>2 DEF RejectJob, AcceptJob, CanRespond
    <2>2. CASE RejectJob(i, v)
      BY <1>0, <2>1, <2>2 DEF RejectJob
    <2>3. CASE AcceptJob(i, v) /\ i # j
      BY <1>0, <2>3 DEF AcceptJob
    <2>4. CASE AcceptJob(i, v) /\ i = j
      <3>1. offer'[j] = [OpenOffersExpired(j) EXCEPT ![v] = "accepted"]
        BY <1>0, <2>4 DEF AcceptJob
      <3>2. offer'[j][w] = offer[j][w]
        BY <2>1, <2>4, <3>1 DEF OpenOffersExpired
      <3>3. status'[j] = "accepted"
        BY <1>0, <2>4 DEF AcceptJob
      <3>4. QED
        BY <3>2, <3>3
    <2>5. QED
      BY <1>2, <2>2, <2>3, <2>4
  <1>3. ASSUME NEW i \in Job, NEW v \in Worker, NEW next \in WorkerProgress,
               UpdateJobStatusByWorker(i, v, next)
        PROVE status'[j] # "none" /\ offer'[j][w] \in {"accepted", "cancelled"}
    BY <1>0, <1>3 DEF UpdateJobStatusByWorker, WorkerProgress
  <1>4. ASSUME NEW i \in Job, NEW v \in Worker, CancelAndRematch(i, v)
        PROVE status'[j] # "none" /\ offer'[j][w] \in {"accepted", "cancelled"}
    BY <1>0, <1>4, PreviousStatuses DEF JobInv, CanRematch, CancelAndRematch, ReofferedTo
  <1>5. ASSUME GetPendingWorkerJob
        PROVE status'[j] # "none" /\ offer'[j][w] \in {"accepted", "cancelled"}
    BY <1>0, <1>5 DEF GetPendingWorkerJob, OpenOffersExpired
  <1>6. ASSUME NEW v \in Worker, PresenceNext(v)
        PROVE status'[j] # "none" /\ offer'[j][w] \in {"accepted", "cancelled"}
    BY <1>6 DEF PresenceNext, GoOnline, GoOffline, RetireToken
  <1>7. ASSUME NEW v \in Worker, DeleteWorker(v)
        PROVE  /\ status'[j] # "none"
               /\ offer'[j][w] \in {"accepted", "cancelled"} \/ w \in deleted'
    BY <1>0, <1>7 DEF DeleteWorker
  <1>8. CASE UNCHANGED vars
    BY <1>8 DEF vars
  <1>9. ASSUME NEW i \in Job, SearchOnly(i)
        PROVE status'[j] # "none" /\ offer'[j][w] \in {"accepted", "cancelled"}
    BY <1>9, SearchKeepsTables
  <1>10. QED
    BY <1>1, <1>2, <1>3, <1>4, <1>5, <1>6, <1>7, <1>8, <1>9 DEF Next, WorkerNext, SearchOnly

LEMMA DeletedGrows == [Next]_vars => deleted \subseteq deleted'
  BY DEF Next, CustomerNext, WorkerNext, PresenceNext, FindCandidates, FindReplacements,
         ReadCandidates, SearchFails, DispatchJob, GetDispatchStatus,
         CustomerCancel, CustomerResume, ReportRemainingWork, ConfirmCompletion, Lapse,
         RejectJob, AcceptJob, UpdateJobStatusByWorker, CancelAndRematch,
         GetPendingWorkerJob, GoOnline, GoOffline, RetireToken, DeleteWorker, jobVars, vars

LEMMA DispatchedStays ==
  ASSUME TypeOK, [Next]_vars, NEW j \in Job, status[j] # "none"
  PROVE  status'[j] # "none"
  BY DEF TypeOK, Next, CustomerNext, WorkerNext, PresenceNext, FindCandidates,
         FindReplacements, ReadCandidates, SearchFails, DispatchJob, GetDispatchStatus, CustomerCancel, CustomerResume, ReportRemainingWork,
         ConfirmCompletion, Lapse, RejectJob, AcceptJob, UpdateJobStatusByWorker,
         WorkerProgress, CancelAndRematch, GetPendingWorkerJob, GoOnline, GoOffline,
         RetireToken, DeleteWorker, jobVars, vars

LEMMA DeletedOfflineStep == DispatchInv /\ [Next]_vars => DeletedOffline'
  <1> SUFFICES ASSUME DispatchInv, [Next]_vars PROVE DeletedOffline'
    OBVIOUS
  <1>1. TypeOK /\ DeletedOffline
    BY DispatchInvSplit
  <1>2. ASSUME NEW w \in Worker, PresenceNext(w) \/ DeleteWorker(w) PROVE DeletedOffline'
    BY <1>1, <1>2
    DEF DeletedOffline, TypeOK, PresenceNext, GoOnline, GoOffline, RetireToken, DeleteWorker
  <1>3. ASSUME UNCHANGED <<online, deleted>> PROVE DeletedOffline'
    BY <1>1, <1>3 DEF DeletedOffline
  <1>4. QED
    BY <1>2, <1>3
    DEF Next, CustomerNext, WorkerNext, FindCandidates, FindReplacements,
        ReadCandidates, SearchFails, DispatchJob, GetDispatchStatus,
        CustomerCancel, CustomerResume, ReportRemainingWork, ConfirmCompletion, Lapse,
        RejectJob, AcceptJob, UpdateJobStatusByWorker, CancelAndRematch,
        GetPendingWorkerJob, vars

LEMMA AnnouncedStep == DispatchInv /\ [Next]_vars => AnnouncedOnce'
  <1> SUFFICES ASSUME DispatchInv, [Next]_vars,
                      NEW e \in outbox', e.type = "job.worker_assigned"
               PROVE  /\ status'[e.job] # "none"
                      /\ e.worker \in Worker
                      /\ \/ offer'[e.job][e.worker] \in {"accepted", "cancelled"}
                         \/ e.worker \in deleted'
    BY DEF AnnouncedOnce
  <1> USE DispatchAssumption DEF jobVars
  <1>0. TypeOK /\ AnnouncedOnce /\ TypeOK'
    BY DispatchInvSplit, TypeStep
  <1>1. CASE e \in outbox
    <2>1. e.job \in Job
      BY <1>0, <1>1 DEF TypeOK
    <2>2. CASE e.worker \in deleted
      <3>1. deleted \subseteq deleted'
        BY DeletedGrows
      <3>2. status'[e.job] # "none"
        BY <1>0, <1>1, <2>1, DispatchedStays DEF AnnouncedOnce
      <3>3. QED
        BY <1>0, <1>1, <2>2, <3>1, <3>2 DEF AnnouncedOnce
    <2>3. CASE e.worker \notin deleted
      BY <1>0, <1>1, <2>1, <2>3, TakenOffersStayTaken DEF AnnouncedOnce
    <2>4. QED
      BY <2>2, <2>3
  <1>2. CASE e \notin outbox
    <2>1. PICK j \in Job, w \in Worker : AcceptJob(j, w) /\ e = EventId("job.worker_assigned", j, w, 0)
      BY <1>2
      DEF Next, CustomerNext, WorkerNext, PresenceNext, FindCandidates, FindReplacements,
          ReadCandidates, SearchFails, DispatchJob, GetDispatchStatus,
          CustomerCancel, CustomerResume, ReportRemainingWork, ConfirmCompletion, Lapse,
          RejectJob, AcceptJob, UpdateJobStatusByWorker, WorkerProgress, CancelAndRematch,
          GetPendingWorkerJob, GoOnline, GoOffline, RetireToken, DeleteWorker, Enqueue,
          EventId, vars
    <2>2. QED
      BY <1>0, <2>1 DEF AcceptJob, EventId, TypeOK, OpenOffersExpired
  <1>3. QED
    BY <1>1, <1>2

-----------------------------------------------------------------------------
(* The inductive invariant and what it gives. *)

LEMMA DispatchInvStep == DispatchInv /\ [Next]_vars => DispatchInv'
  <1> SUFFICES ASSUME DispatchInv, [Next]_vars PROVE DispatchInv'
    OBVIOUS
  <1>1. TypeOK'
    BY TypeStep, DispatchInvSplit
  <1>2. (\A j \in Job : JobInv(j))'
    BY JobStep
  <1>3. (\A j \in Job : BudgetInv(j))'
    BY BudgetStep
  <1>4. AnnouncedOnce'
    BY AnnouncedStep
  <1>5. DeletedOffline'
    BY DeletedOfflineStep
  <1>6. QED
    BY <1>1, <1>2, <1>3, <1>4, <1>5
    DEF DispatchInv, AssignmentConsistent, OpenOffersAreLive, GivenUpForGood,
        ReplacementBudget, DeletedLeaveNoTrace, UndispatchedIsBlank, JobInv, BudgetInv,
        DeletedOffline

\* The inductive invariant holds in every reachable state.
THEOREM Invariance == Spec => []DispatchInv
  BY InitInv, DispatchInvStep, PTL DEF Spec

\* Every column keeps a value the schema's CHECKs allow.
THEOREM TypeCorrect == Spec => []TypeOK
  BY Invariance, PTL DEF DispatchInv

\* A dispatch row and its offers always agree on who has the job.
THEOREM AssignmentConsistency == Spec => []AssignmentConsistent
  BY Invariance, PTL DEF DispatchInv

\* Nobody holds an open offer of a job that is taken or closed.
THEOREM OffersLive == Spec => []OpenOffersAreLive
  BY Invariance, PTL DEF DispatchInv

\* A worker who cancelled a job never has it again.
THEOREM GivenUp == Spec => []GivenUpForGood
  BY Invariance, PTL DEF DispatchInv

\* Replacement searches count distinct workers and stop at the limit, for every
\* limit.
THEOREM Budget == Spec => []ReplacementBudget
  BY Invariance, PTL DEF DispatchInv

\* A deleted worker is gone from every table.
THEOREM NoTrace == Spec => []DeletedLeaveNoTrace
  BY Invariance, PTL DEF DispatchInv

-----------------------------------------------------------------------------
(* What a step may never do. *)

LEMMA TerminalStep ==
  ASSUME TypeOK, [Next]_vars, NEW j \in Job, status[j] \in Terminal
  PROVE  status'[j] = status[j]
  <1> USE DEF TypeOK, JobStatus, Active, Terminal, jobVars
  <1>1. ASSUME NEW i \in Job, CustomerNext(i) \/ Lapse(i) PROVE status'[j] = status[j]
    BY <1>1
    DEF CustomerNext, FindCandidates, ReadCandidates, DispatchJob, GetDispatchStatus,
        CustomerCancel, CustomerResume, ReportRemainingWork, ConfirmCompletion, Lapse
  <1>2. ASSUME NEW i \in Job, NEW w \in Worker, WorkerNext(i, w)
        PROVE status'[j] = status[j]
    BY <1>2, PreviousStatuses
    DEF WorkerNext, RejectJob, AcceptJob, CanRespond, UpdateJobStatusByWorker,
        WorkerProgress, CancelAndRematch, FindReplacements, ReadCandidates
  <1>3. CASE GetPendingWorkerJob
    BY <1>3 DEF GetPendingWorkerJob, Overdue
  <1>4. CASE \E w \in Worker : PresenceNext(w)
    BY <1>4 DEF PresenceNext, GoOnline, GoOffline, RetireToken
  <1>5. ASSUME NEW w \in Worker, DeleteWorker(w) PROVE status'[j] = status[j]
    BY <1>5 DEF DeleteWorker
  <1>6. CASE UNCHANGED vars
    BY <1>6 DEF vars
  <1>7. ASSUME NEW i \in Job, SearchFails(i) PROVE status'[j] = status[j]
    BY <1>7 DEF SearchFails
  <1>8. QED
    BY <1>1, <1>2, <1>3, <1>4, <1>5, <1>6, <1>7 DEF Next

\* No handler moves a completed, cancelled or expired dispatch.
THEOREM TerminalFinal == Spec => TerminalIsFinal
  <1>1. DispatchInv /\ [Next]_vars =>
          [\A j \in Job : status[j] \in Terminal => status'[j] = status[j]]_status
    BY TerminalStep DEF DispatchInv
  <1>2. QED
    BY <1>1, Invariance, PTL DEF Spec, TerminalIsFinal

(* An arrival is recorded in the row and announced together, and a fee is    *)
(* fixed when the job ends, so no later arrival can contradict it.           *)

Arrival(j) == EventId("arrived", j, NoWorker, 0)

FeeInv(j) ==
    /\ arrivalVerified[j] <=> Arrival(j) \in outbox
    /\ cancellation[j] # "none" =>
          /\ status[j] = "cancelled"
          /\ cancellation[j] = "visit_fee" <=> arrivalVerified[j]

LEMMA FeeStep ==
  ASSUME TypeOK, [Next]_vars, NEW i \in Job, FeeInv(i) PROVE FeeInv(i)'
  <1> USE DEF TypeOK, jobVars, Arrival
  <1>t. status[i] = "cancelled" => status'[i] = "cancelled"
    BY TerminalStep DEF Terminal
  <1>u. ASSUME arrivalVerified'[i] = arrivalVerified[i], cancellation'[i] = cancellation[i],
               Arrival(i) \in outbox' <=> Arrival(i) \in outbox
        PROVE  FeeInv(i)'
    BY <1>t, <1>u DEF FeeInv
  <1>1. ASSUME NEW j \in Job, CustomerCancel(j) PROVE FeeInv(i)'
    <2>1. arrivalVerified' = arrivalVerified /\ (Arrival(i) \in outbox' <=> Arrival(i) \in outbox)
      BY <1>1 DEF CustomerCancel, Enqueue, EventId
    <2>2. CASE cancellation'[i] = cancellation[i]
      BY <1>u, <2>1, <2>2
    <2>3. CASE cancellation'[i] # cancellation[i]
      <3>1. i = j /\ status'[i] = "cancelled" /\ cancellation'[i] = CancellationFee(i)
        BY <1>1, <2>3 DEF CustomerCancel
      <3>2. QED
        BY <2>1, <3>1 DEF FeeInv, CancellationFee
    <2>4. QED
      BY <2>2, <2>3
  <1>2. ASSUME NEW j \in Job, NEW w \in Worker, NEW next \in WorkerProgress,
               UpdateJobStatusByWorker(j, w, next)
        PROVE FeeInv(i)'
    <2>1. /\ cancellation' = cancellation
          /\ arrivalVerified'[i] <=> arrivalVerified[i] \/ (i = j /\ next = "arrived")
          /\ Arrival(i) \in outbox' <=> Arrival(i) \in outbox \/ (i = j /\ next = "arrived")
      BY <1>2 DEF UpdateJobStatusByWorker, Enqueue, EventId
    <2>2. CASE i = j
      <3>1. cancellation[i] = "none"
        BY <1>2, <2>2, PreviousStatuses DEF FeeInv, UpdateJobStatusByWorker, WorkerProgress
      <3>2. QED
        BY <2>1, <3>1 DEF FeeInv
    <2>3. CASE i # j
      BY <1>u, <1>2, <2>1, <2>3 DEF UpdateJobStatusByWorker
    <2>4. QED
      BY <2>2, <2>3
  <1>3. ASSUME NEW j \in Job, DispatchJob(j) PROVE FeeInv(i)'
    BY <1>u, <1>3 DEF DispatchJob, Enqueue, EventId
  <1>4. ASSUME NEW j \in Job, NEW w \in Worker, AcceptJob(j, w) \/ CancelAndRematch(j, w)
        PROVE FeeInv(i)'
    BY <1>u, <1>4 DEF AcceptJob, CancelAndRematch, Enqueue, EventId
  <1>5. ASSUME UNCHANGED <<arrivalVerified, cancellation, outbox>> PROVE FeeInv(i)'
    BY <1>u, <1>5
  <1>6. ASSUME NEW j \in Job, SearchOnly(j) PROVE FeeInv(i)'
    BY <1>5, <1>6, SearchKeepsTables
  <1>7. QED
    BY <1>1, <1>2, <1>3, <1>4, <1>5, <1>6
    DEF Next, CustomerNext, WorkerNext, PresenceNext, GetDispatchStatus, CustomerResume,
        ReportRemainingWork, ConfirmCompletion, Lapse, RejectJob, GetPendingWorkerJob,
        GoOnline, GoOffline, RetireToken, DeleteWorker, SearchOnly, vars

\* A cancellation is priced by the arrivals that were announced, for every number
\* of workers and replacements.
THEOREM VisitFee == Spec => []FeeFollowsArrival
  <1> DEFINE AllFees == \A j \in Job : FeeInv(j)
  <1>1. Init => AllFees
    BY DEF Init, FeeInv
  <1>2. AllFees /\ TypeOK /\ [Next]_vars => AllFees'
    BY FeeStep
  <1>3. AllFees => FeeFollowsArrival
    BY DEF FeeInv, FeeFollowsArrival, Arrival
  <1> HIDE DEF AllFees
  <1>4. QED
    BY <1>1, <1>2, <1>3, TypeCorrect, PTL DEF Spec

\* Nothing turns a rejected offer into anything else.
THEOREM RejectionFinal == Spec => RejectionIsFinal
  <1>1. ASSUME DispatchInv, [Next]_vars
        PROVE  [\A j \in Job, w \in Worker :
                   offer[j][w] = "rejected" =>
                      offer'[j][w] = "rejected" \/ w \in deleted']_offer
    <2> SUFFICES ASSUME NEW j \in Job, NEW w \in Worker, offer[j][w] = "rejected"
                 PROVE  offer'[j][w] = "rejected" \/ w \in deleted'
      OBVIOUS
    <2> USE DEF TypeOK, JobStatus, Active, Terminal, jobVars
    <2>0. TypeOK /\ JobInv(j)
      BY <1>1, DispatchInvSplit
    <2>1. ASSUME NEW i \in Job, CustomerNext(i) \/ Lapse(i)
          PROVE offer'[j][w] = "rejected"
      <3>1. CASE DispatchJob(i)
        BY <2>0, <3>1 DEF JobInv, DispatchJob
      <3>2. CASE CustomerCancel(i)
        BY <2>0, <3>2 DEF CustomerCancel
      <3>3. CASE CustomerResume(i)
        BY <2>0, <3>3 DEF CustomerResume, OpenOffersExpired
      <3>4. CASE GetDispatchStatus(i) \/ ReportRemainingWork(i) \/ ConfirmCompletion(i) \/ Lapse(i)
        BY <3>4 DEF GetDispatchStatus, ReportRemainingWork, ConfirmCompletion, Lapse
      <3>5. CASE FindCandidates(i)
        BY <3>5 DEF FindCandidates, ReadCandidates
      <3>6. QED
        BY <2>1, <3>1, <3>2, <3>3, <3>4, <3>5 DEF CustomerNext
    <2>2. ASSUME NEW i \in Job, NEW v \in Worker, RejectJob(i, v)
          PROVE offer'[j][w] = "rejected"
      BY <2>0, <2>2 DEF RejectJob
    <2>3. ASSUME NEW i \in Job, NEW v \in Worker, AcceptJob(i, v)
          PROVE offer'[j][w] = "rejected"
      BY <2>0, <2>3 DEF AcceptJob, CanRespond, OpenOffersExpired
    <2>4. ASSUME NEW i \in Job, NEW v \in Worker, NEW next \in WorkerProgress,
                 UpdateJobStatusByWorker(i, v, next)
          PROVE offer'[j][w] = "rejected"
      BY <2>4 DEF UpdateJobStatusByWorker
    <2>5. ASSUME NEW i \in Job, NEW v \in Worker, CancelAndRematch(i, v)
          PROVE offer'[j][w] = "rejected"
      BY <2>0, <2>5, PreviousStatuses DEF JobInv, CanRematch, CancelAndRematch, ReofferedTo
    <2>6. CASE GetPendingWorkerJob
      BY <2>0, <2>6 DEF GetPendingWorkerJob, OpenOffersExpired
    <2>7. CASE \E v \in Worker : PresenceNext(v)
      BY <2>7 DEF PresenceNext, GoOnline, GoOffline, RetireToken
    <2>8. ASSUME NEW v \in Worker, DeleteWorker(v)
          PROVE offer'[j][w] = "rejected" \/ w \in deleted'
      BY <2>0, <2>8 DEF DeleteWorker
    <2>9. CASE UNCHANGED vars
      BY <2>9 DEF vars
    <2>10. ASSUME NEW i \in Job, SearchOnly(i) PROVE offer'[j][w] = "rejected"
      BY <2>10, SearchKeepsTables
    <2>11. QED
      BY <1>1, <2>1, <2>2, <2>3, <2>4, <2>5, <2>6, <2>7, <2>8, <2>9, <2>10
      DEF Next, WorkerNext, SearchOnly
  <1>2. QED
    BY <1>1, Invariance, PTL DEF Spec, RejectionIsFinal

\* The assigned worker changes only through that worker's own cancellation or
\* deletion.
THEOREM Handover == Spec => HandoverOnlyByRelease
  <1>1. ASSUME DispatchInv, [Next]_vars
        PROVE  [\A j \in Job :
                   acceptedBy[j] \in Worker /\ acceptedBy'[j] # acceptedBy[j] =>
                     /\ acceptedBy'[j] = NoWorker
                     /\ \/ /\ acceptedBy[j] \in excluded'[j]
                           /\ status'[j] \in {"offered", "expired"}
                        \/ /\ acceptedBy[j] \in deleted'
                           /\ status'[j] \in {"completed", "cancelled"}]_acceptedBy
    <2> SUFFICES ASSUME NEW j \in Job, acceptedBy[j] \in Worker, acceptedBy'[j] # acceptedBy[j]
                 PROVE  /\ acceptedBy'[j] = NoWorker
                        /\ \/ /\ acceptedBy[j] \in excluded'[j]
                              /\ status'[j] \in {"offered", "expired"}
                           \/ /\ acceptedBy[j] \in deleted'
                              /\ status'[j] \in {"completed", "cancelled"}
      OBVIOUS
    <2> USE DispatchAssumption DEF TypeOK, JobStatus, Active, Terminal, jobVars
    <2>0. TypeOK /\ JobInv(j)
      BY <1>1, DispatchInvSplit
    <2>1. ASSUME NEW i \in Job, NEW w \in Worker, AcceptJob(i, w) PROVE FALSE
      BY <2>0, <2>1 DEF AcceptJob, CanRespond, JobInv
    <2>2. CASE \E w \in Worker : DeleteWorker(w)
      BY <2>0, <2>2 DEF DeleteWorker, JobInv
    <2>3. CASE \E i \in Job, w \in Worker : CancelAndRematch(i, w)
      BY <2>0, <2>3 DEF CanRematch, CancelAndRematch
    <2>4. QED
      BY <1>1, <2>0, <2>1, <2>2, <2>3
      DEF Next, CustomerNext, WorkerNext, PresenceNext, FindCandidates, FindReplacements,
          ReadCandidates, SearchFails, DispatchJob, GetDispatchStatus,
          CustomerCancel, CustomerResume, ReportRemainingWork, ConfirmCompletion, Lapse,
          RejectJob, UpdateJobStatusByWorker, GetPendingWorkerJob, GoOnline, GoOffline,
          RetireToken, vars
  <1>2. QED
    BY <1>1, Invariance, PTL DEF Spec, HandoverOnlyByRelease

\* The message that announces an assignment is never mistaken for a repetition:
\* the id names the worker, and a worker takes a job at most once.
THEOREM AssignmentAnnounced == Spec => EveryAssignmentAnnounced
  <1>1. ASSUME DispatchInv, [Next]_vars
        PROVE  [\A j \in Job :
                   acceptedBy'[j] \in Worker /\ acceptedBy[j] = NoWorker =>
                     \E e \in outbox' \ outbox :
                        e.type = "job.worker_assigned" /\ e.job = j]_vars
    <2> SUFFICES ASSUME NEW j \in Job, acceptedBy'[j] \in Worker, acceptedBy[j] = NoWorker
                 PROVE  \E e \in outbox' \ outbox :
                          e.type = "job.worker_assigned" /\ e.job = j
      OBVIOUS
    <2> USE DispatchAssumption DEF TypeOK, jobVars
    <2>0. TypeOK /\ AnnouncedOnce /\ (\A i \in Job : JobInv(i))
      BY <1>1, DispatchInvSplit
    <2>1. PICK i \in Job, w \in Worker : AcceptJob(i, w)
      BY <1>1, <2>0
      DEF Next, CustomerNext, WorkerNext, PresenceNext, FindCandidates, FindReplacements,
          ReadCandidates, SearchFails, DispatchJob, GetDispatchStatus,
          CustomerCancel, CustomerResume, ReportRemainingWork, ConfirmCompletion, Lapse,
          RejectJob, UpdateJobStatusByWorker, CancelAndRematch, GetPendingWorkerJob,
          GoOnline, GoOffline, RetireToken, DeleteWorker, vars
    <2>2. i = j /\ acceptedBy'[j] = w
      BY <2>0, <2>1 DEF AcceptJob
    <2> DEFINE e == EventId("job.worker_assigned", j, w, 0)
    <2>3. e \in outbox' /\ e.type = "job.worker_assigned" /\ e.job = j
      BY <2>1, <2>2 DEF AcceptJob, Enqueue, EventId
    <2>4. e \notin outbox
      <3>1. offer[j][w] = "offered"
        BY <2>1, <2>2 DEF AcceptJob, CanRespond
      <3>2. w \notin deleted
        BY <2>0, <3>1 DEF JobInv
      <3>3. e \in outbox => \/ offer[j][w] \in {"accepted", "cancelled"}
                           \/ w \in deleted
        BY <2>0 DEF AnnouncedOnce, EventId
      <3>4. QED
        BY <3>1, <3>2, <3>3
    <2>5. QED
      BY <2>2, <2>3, <2>4
  <1>2. QED
    BY <1>1, Invariance, PTL DEF Spec, EveryAssignmentAnnounced

-----------------------------------------------------------------------------
(* Refinement: every handler is one step of JobAssignment, or none.          *)


LEMMA RefinesInit == Init => Assignment!Init
  BY DEF Init, Assignment!Init, Phase

LEMMA RefinesStep ==
  ASSUME DispatchInv, [Next]_vars PROVE [Assignment!Next]_(Assignment!vars)
  <1> USE DispatchAssumption DEF TypeOK, JobStatus, jobVars
  <1>0. TypeOK /\ (\A j \in Job : JobInv(j)) /\ (\A j \in Job : BudgetInv(j))
    BY DispatchInvSplit
  <1>s. ASSUME Phase' = Phase, UNCHANGED <<acceptedBy, attempts, excluded, deleted>>
        PROVE  [Assignment!Next]_(Assignment!vars)
    BY <1>s DEF Assignment!vars
  <1>c. ASSUME NEW ended \in SUBSET Job,
               \A j \in ended : status[j] \in {"offered"} \cup Active,
               status' = [j \in Job |-> IF j \in ended THEN status'[j] ELSE status[j]],
               \A j \in ended : status'[j] \in Terminal,
               UNCHANGED <<acceptedBy, attempts, excluded, deleted>>
        PROVE  [Assignment!Next]_(Assignment!vars)
    <2>1. Phase' = [j \in Job |-> IF j \in ended THEN "closed" ELSE Phase[j]]
      BY <1>c DEF Phase, Active, Terminal
    <2>2. \A j \in ended : Phase[j] \in {"open", "assigned"}
      BY <1>c DEF Phase, Active
    <2>3. Assignment!Close(ended)
      BY <1>c, <2>1, <2>2 DEF Assignment!Close
    <2>4. QED
      BY <2>3 DEF Assignment!Next
  <1>1. ASSUME NEW j \in Job, DispatchJob(j) PROVE [Assignment!Next]_(Assignment!vars)
    <2>1. Assignment!Post(j)
      BY <1>0, <1>1 DEF DispatchJob, Assignment!Post, Phase
    <2>2. QED
      BY <2>1 DEF Assignment!Next
  <1>2. ASSUME NEW j \in Job, GetDispatchStatus(j) \/ CustomerCancel(j) \/ ConfirmCompletion(j)
        PROVE [Assignment!Next]_(Assignment!vars)
    <2>1. /\ \A i \in {j} : status[i] \in {"offered"} \cup Active
          /\ status' = [i \in Job |-> IF i \in {j} THEN status'[i] ELSE status[i]]
          /\ \A i \in {j} : status'[i] \in Terminal
          /\ UNCHANGED <<acceptedBy, attempts, excluded, deleted>>
      BY <1>0, <1>2
      DEF GetDispatchStatus, CustomerCancel, ConfirmCompletion, Active, Terminal
    <2>2. QED
      BY <1>c, <2>1
  <1>3. ASSUME NEW j \in Job, CustomerResume(j) \/ ReportRemainingWork(j)
        PROVE [Assignment!Next]_(Assignment!vars)
    <2>1. Phase' = Phase /\ UNCHANGED <<acceptedBy, attempts, excluded, deleted>>
      BY <1>0, <1>3 DEF CustomerResume, ReportRemainingWork, Phase, Active
    <2>2. QED
      BY <1>s, <2>1
  <1>4. ASSUME NEW j \in Job, NEW w \in Worker, AcceptJob(j, w)
        PROVE [Assignment!Next]_(Assignment!vars)
    <2>1. w \notin excluded[j] \cup deleted
      BY <1>0, <1>4 DEF AcceptJob, CanRespond, JobInv
    <2>2. Assignment!Assign(j, w)
      BY <1>0, <1>4, <2>1 DEF AcceptJob, CanRespond, Assignment!Assign, Phase, Active
    <2>3. QED
      BY <2>2 DEF Assignment!Next
  <1>5. ASSUME NEW j \in Job, NEW w \in Worker, NEW next \in WorkerProgress,
               UpdateJobStatusByWorker(j, w, next)
        PROVE [Assignment!Next]_(Assignment!vars)
    <2>1. CASE next = "completed"
      <3>1. /\ status[j] \in Active
            /\ status' = [status EXCEPT ![j] = "completed"]
            /\ UNCHANGED <<acceptedBy, attempts, excluded, deleted>>
        BY <1>5, <2>1, PreviousStatuses DEF UpdateJobStatusByWorker, Active
      <3>2. /\ \A i \in {j} : status[i] \in {"offered"} \cup Active
            /\ \A i \in {j} : status'[i] \in Terminal
        BY <1>0, <3>1 DEF Terminal
      <3>3. status' = [i \in Job |-> IF i \in {j} THEN status'[i] ELSE status[i]]
        BY <1>0, <3>1
      <3>4. QED
        BY <1>c, <3>1, <3>2, <3>3
    <2>2. CASE next # "completed"
      <3>1. /\ status[j] \in Active /\ next \in Active
            /\ status' = [status EXCEPT ![j] = next]
            /\ UNCHANGED <<acceptedBy, attempts, excluded, deleted>>
        BY <1>5, <2>2, PreviousStatuses DEF UpdateJobStatusByWorker, WorkerProgress, Active
      <3>2. Phase' = Phase
        BY <1>0, <3>1 DEF Phase, Active
      <3>3. QED
        BY <1>s, <3>1, <3>2
    <2>3. QED
      BY <2>1, <2>2
  <1>6. ASSUME NEW j \in Job, NEW w \in Worker, CancelAndRematch(j, w)
        PROVE [Assignment!Next]_(Assignment!vars)
    <2>1. status[j] \in {"accepted", "arrived"} /\ acceptedBy[j] = w
      BY <1>6, PreviousStatuses DEF CanRematch, CancelAndRematch
    <2>2. attempts[j] < MaxReplacements <=> attempts[j] + 1 <= MaxReplacements
      BY <1>0
    <2>3. Phase' = [Phase EXCEPT ![j] = IF attempts[j] + 1 <= MaxReplacements
                                        THEN "open" ELSE "closed"]
      BY <1>0, <1>6 DEF CanRematch, CancelAndRematch, Phase, Active
    <2>4. Phase[j] = "assigned"
      BY <2>1 DEF Phase, Active
    <2>5. /\ acceptedBy' = [acceptedBy EXCEPT ![j] = NoWorker]
          /\ attempts' = [attempts EXCEPT ![j] = @ + 1]
          /\ excluded' = [excluded EXCEPT ![j] = @ \cup {acceptedBy[j]}]
          /\ deleted' = deleted
      BY <1>0, <1>6, <2>1 DEF CanRematch, CancelAndRematch
    <2>6. Phase' = [Phase EXCEPT ![j] =
                    IF attempts[j] < MaxReplacements
                    THEN "open" ELSE "closed"]
      BY <2>2, <2>3
    <2>7. Assignment!Release(j)
      BY <2>4, <2>5, <2>6 DEF Assignment!Release
    <2>8. QED
      BY <2>7 DEF Assignment!Next
  <1>7. CASE GetPendingWorkerJob
    <2>1. /\ \A i \in Overdue : status[i] \in {"offered"} \cup Active
          /\ status' = [i \in Job |-> IF i \in Overdue THEN status'[i] ELSE status[i]]
          /\ \A i \in Overdue : status'[i] \in Terminal
          /\ UNCHANGED <<acceptedBy, attempts, excluded, deleted>>
          /\ Overdue \in SUBSET Job
      BY <1>0, <1>7 DEF GetPendingWorkerJob, Overdue, Terminal
    <2>2. QED
      BY <1>c, <2>1
  <1>8. ASSUME UNCHANGED <<status, acceptedBy, attempts, excluded, deleted>>
        PROVE  [Assignment!Next]_(Assignment!vars)
    BY <1>s, <1>8 DEF Phase
  <1>9. ASSUME NEW w \in Worker, DeleteWorker(w)
        PROVE  [Assignment!Next]_(Assignment!vars)
    <2> DEFINE closed(j) == acceptedBy[j] = w /\ status[j] \in Active
    <2>1. \A j \in Job : status'[j] = IF closed(j) THEN "cancelled" ELSE status[j]
      BY <1>9 DEF DeleteWorker
    <2>2. Phase' = [j \in Job |-> IF Phase[j] = "assigned" /\ acceptedBy[j] = w
                                  THEN "closed" ELSE Phase[j]]
      <3> SUFFICES ASSUME NEW j \in Job
                   PROVE  Phase'[j] = IF Phase[j] = "assigned" /\ acceptedBy[j] = w
                                      THEN "closed" ELSE Phase[j]
        BY DEF Phase
      <3>1. CASE closed(j)
        BY <2>1, <3>1 DEF Phase, Active
      <3>2. CASE ~closed(j)
        <4>1. Phase'[j] = Phase[j]
          BY <2>1, <3>2 DEF Phase
        <4>2. ~(Phase[j] = "assigned" /\ acceptedBy[j] = w)
          BY <3>2 DEF Phase, Active
        <4>3. QED
          BY <4>1, <4>2
      <3>3. QED
        BY <3>1, <3>2
    <2>3. Assignment!Leave(w)
      BY <1>9, <2>2 DEF DeleteWorker, Assignment!Leave
    <2>4. QED
      BY <2>3 DEF Assignment!Next
  <1>10. ASSUME NEW j \in Job, SearchOnly(j) PROVE [Assignment!Next]_(Assignment!vars)
    BY <1>8, <1>10, SearchKeepsTables
  <1>11. QED
    BY <1>1, <1>2, <1>3, <1>4, <1>5, <1>6, <1>7, <1>8, <1>9, <1>10
    DEF Next, CustomerNext, WorkerNext, PresenceNext, Lapse, RejectJob, GoOnline,
        GoOffline, RetireToken, SearchOnly, vars

\* The dispatch service is an implementation of the assignment protocol: open,
\* taken by one worker, given back within the limit, closed for good.
THEOREM Refinement == Spec => ImplementsAssignment
  BY RefinesInit, RefinesStep, Invariance, PTL
  DEF Spec, ImplementsAssignment, Assignment!Spec

-----------------------------------------------------------------------------
(* Each job of Dispatch implements JobLifecycle *)

LEMMA LifecycleStep ==
  ASSUME TypeOK, [Next]_vars, NEW i \in Job PROVE [Lifecycle(i)!Next]_(status[i])
  <1> DEFINE Goal == [Lifecycle(i)!Next]_(status[i])
  <1> USE DEF TypeOK, JobStatus, Active, jobVars, Lifecycle!Next, Lifecycle!Search,
              Lifecycle!Work, Lifecycle!Cancel
  <1>1. ASSUME NEW j \in Job, CustomerNext(j) PROVE Goal
    BY <1>1 DEF CustomerNext, FindCandidates, ReadCandidates, DispatchJob,
      GetDispatchStatus, CustomerCancel, CustomerResume, ReportRemainingWork,
      ConfirmCompletion
  <1>2. ASSUME NEW j \in Job, NEW w \in Worker, RejectJob(j, w) \/ AcceptJob(j, w)
        PROVE  Goal
    BY <1>2 DEF RejectJob, AcceptJob, CanRespond
  <1>3. ASSUME NEW j \in Job, NEW w \in Worker, NEW next \in WorkerProgress,
               UpdateJobStatusByWorker(j, w, next)
        PROVE  Goal
    BY <1>3, PreviousStatuses DEF UpdateJobStatusByWorker, WorkerProgress
  <1>4. ASSUME NEW j \in Job, NEW w \in Worker, CancelAndRematch(j, w) PROVE Goal
    BY <1>4, PreviousStatuses DEF CancelAndRematch, CanRematch
  <1>5. CASE GetPendingWorkerJob
    BY <1>5 DEF GetPendingWorkerJob, Overdue
  <1>6. ASSUME NEW w \in Worker, DeleteWorker(w) PROVE Goal
    BY <1>6 DEF DeleteWorker
  <1>7. ASSUME UNCHANGED status PROVE Goal
    BY <1>7
  <1>8. ASSUME NEW j \in Job, SearchOnly(j) PROVE Goal
    BY <1>7, <1>8, SearchKeepsTables
  <1>9. QED
    BY <1>1, <1>2, <1>3, <1>4, <1>5, <1>6, <1>7, <1>8
    DEF Next, WorkerNext, PresenceNext, Lapse, GoOnline, GoOffline, RetireToken,
        SearchOnly, vars

\* Every job goes through its stages in order.
THEOREM LifecycleRefinement == Spec => ImplementsLifecycle
  <1>1. Init => \A j \in Job : Lifecycle(j)!Init
    BY DEF Init, Lifecycle!Init
  <1>2. DispatchInv /\ [Next]_vars => [\A j \in Job : [Lifecycle(j)!Next]_(status[j])]_status
    BY LifecycleStep DEF DispatchInv
  <1>3. QED
    BY <1>1, <1>2, Invariance, PTL DEF Spec, ImplementsLifecycle

-----------------------------------------------------------------------------
(* Each job of Dispatch implements JobOffers *)

\* A request for another job is no request for i.
LEMMA OthersKeepRows ==
  ASSUME TypeOK, NEW i \in Job, NEW j \in Job, CustomerNext(j) \/ Lapse(j), j # i
  PROVE  UNCHANGED Offers(i)!vars
  <1>1. /\ status'[i] = status[i] /\ acceptedBy'[i] = acceptedBy[i]
        /\ attempts'[i] = attempts[i] /\ excluded'[i] = excluded[i]
        /\ offer'[i] = offer[i] /\ deleted' = deleted
    BY DEF TypeOK, CustomerNext, FindCandidates, ReadCandidates, DispatchJob,
           GetDispatchStatus, CustomerCancel, CustomerResume, ReportRemainingWork,
           ConfirmCompletion, Lapse, jobVars
  <1>2. QED
    BY <1>1 DEF Offers!vars

LEMMA OtherWorkersKeepRows ==
  ASSUME TypeOK, NEW i \in Job, NEW j \in Job, NEW w \in Worker, WorkerNext(j, w), j # i
  PROVE  UNCHANGED Offers(i)!vars
  <1>1. /\ status'[i] = status[i] /\ acceptedBy'[i] = acceptedBy[i]
        /\ attempts'[i] = attempts[i] /\ excluded'[i] = excluded[i]
        /\ offer'[i] = offer[i] /\ deleted' = deleted
    BY DEF TypeOK, WorkerNext, RejectJob, AcceptJob, UpdateJobStatusByWorker,
           FindReplacements, ReadCandidates, CancelAndRematch, jobVars
  <1>2. QED
    BY <1>1 DEF Offers!vars

LEMMA CustomerRequest ==
  ASSUME DispatchInv, NEW i \in Job, CustomerNext(i) \/ Lapse(i)
  PROVE  [Offers(i)!Next]_(Offers(i)!vars)
  <1> USE DEF TypeOK, jobVars
  <1>0. TypeOK /\ JobInv(i) /\ DeletedOffline
    BY DispatchInvSplit
  <1>1. CASE DispatchJob(i)
    <2>1. found[i] \in SUBSET (Worker \ deleted)
      BY <1>0, <1>1 DEF DispatchJob, FoundAreEnrolled
    <2>2. offer'[i] = [w \in Worker |-> IF w \in found[i] THEN "offered" ELSE "none"]
      BY <1>0, <1>1 DEF DispatchJob
    <2>3. Offers(i)!Post
      BY <1>0, <1>1, <2>1, <2>2 DEF DispatchJob, Offers!Post
    <2>4. QED
      BY <2>3 DEF Offers!Next
  <1>2. CASE GetDispatchStatus(i)
    <2>1. Offers(i)!Expire
      BY <1>0, <1>2 DEF GetDispatchStatus, Offers!Expire
    <2>2. QED
      BY <2>1 DEF Offers!Next
  <1>3. CASE CustomerCancel(i)
    <2>1. Offers(i)!Lifecycle!Cancel
      BY <1>0, <1>3 DEF CustomerCancel, Active, Offers!Lifecycle!Cancel
    <2>2. Offers(i)!Cancel
      BY <1>0, <1>3, <2>1 DEF CustomerCancel, Offers!Cancel
    <2>3. QED
      BY <2>2 DEF Offers!Next
  <1>4. CASE CustomerResume(i) \/ ReportRemainingWork(i) \/ ConfirmCompletion(i)
    <2>1. /\ status[i] \in Active
          /\ \/ Offers(i)!Lifecycle!Work
             \/ status'[i] = status[i]
      BY <1>0, <1>4
      DEF CustomerResume, ReportRemainingWork, ConfirmCompletion, Active,
          Offers!Lifecycle!Work
    <2>2. offer'[i] = offer[i]
      <3>1. OpenOffersExpired(i) = offer[i]
        BY <1>0, <2>1 DEF JobInv, OpenOffersExpired, Active
      <3>2. QED
        BY <1>0, <1>4, <3>1 DEF CustomerResume, ReportRemainingWork, ConfirmCompletion
    <2>3. UNCHANGED <<acceptedBy, attempts, excluded, deleted>>
      BY <1>4 DEF CustomerResume, ReportRemainingWork, ConfirmCompletion
    <2>4. CASE Offers(i)!Lifecycle!Work
      BY <2>2, <2>3, <2>4 DEF Offers!Work, Offers!Next
    <2>5. CASE status'[i] = status[i]
      BY <2>2, <2>3, <2>5 DEF Offers!vars
    <2>6. QED
      BY <2>1, <2>4, <2>5
  <1>5. CASE Lapse(i)
    BY <1>5 DEF Lapse, Offers!vars
  <1>6. CASE FindCandidates(i)
    BY <1>6 DEF FindCandidates, ReadCandidates, Offers!vars
  <1>7. QED
    BY <1>1, <1>2, <1>3, <1>4, <1>5, <1>6 DEF CustomerNext

LEMMA WorkerRequest ==
  ASSUME DispatchInv, NEW i \in Job, NEW w \in Worker, WorkerNext(i, w)
  PROVE  [Offers(i)!Next]_(Offers(i)!vars)
  <1> USE DEF TypeOK, jobVars
  <1>0. TypeOK /\ JobInv(i) /\ DeletedOffline
    BY DispatchInvSplit
  <1>1. CASE RejectJob(i, w)
    <2>1. Offers(i)!Reject(w)
      BY <1>0, <1>1 DEF RejectJob, CanRespond, Offers!Reject
    <2>2. QED
      BY <2>1 DEF Offers!Next
  <1>2. CASE AcceptJob(i, w)
    <2>1. offer'[i] = [Offers(i)!Closed EXCEPT ![w] = "accepted"]
      BY <1>0, <1>2 DEF AcceptJob, OpenOffersExpired, Offers!Closed
    <2>2. Offers(i)!Accept(w)
      BY <1>0, <1>2, <2>1 DEF AcceptJob, CanRespond, Offers!Accept
    <2>3. QED
      BY <2>2 DEF Offers!Next
  <1>3. ASSUME NEW next \in WorkerProgress, UpdateJobStatusByWorker(i, w, next)
        PROVE  Offers(i)!Next
    <2>1. Offers(i)!Lifecycle!Work
      BY <1>0, <1>3, PreviousStatuses
      DEF UpdateJobStatusByWorker, WorkerProgress, Offers!Lifecycle!Work
    <2>2. Offers(i)!Work
      BY <1>3, <2>1 DEF UpdateJobStatusByWorker, Offers!Work
    <2>3. QED
      BY <2>2 DEF Offers!Next
  <1>4. CASE CancelAndRematch(i, w)
    <2> DEFINE again == attempts[i] < MaxReplacements
               others == {v \in Worker \ (deleted \cup excluded[i] \cup {acceptedBy[i]}) :
                            again /\ offer[i][v] \notin {"rejected", "cancelled"}}
    <2> DEFINE asked == {v \in found[i] \ {w} : offer[i][v] \notin {"rejected", "cancelled"}}
    <2>1. again <=> CanRematch(attempts[i] + 1)
      BY <1>0, DispatchAssumption DEF CanRematch
    <2>2. acceptedBy[i] = w /\ status[i] \in {"accepted", "arrived"}
      BY <1>4, PreviousStatuses DEF CancelAndRematch
    <2>3. asked \in SUBSET others
      <3> SUFFICES ASSUME NEW v \in asked PROVE v \in others
        OBVIOUS
      <3>1. again /\ v \in Worker \ deleted
        BY <1>0, <1>4, <2>1 DEF CancelAndRematch, FoundAreEnrolled
      <3>2. v \notin excluded[i]
        BY <1>0 DEF JobInv
      <3>3. QED
        BY <2>2, <3>1, <3>2
    <2>4. offer'[i] = [v \in Worker |-> IF v = acceptedBy[i] THEN "cancelled"
                                        ELSE IF v \in asked THEN "offered" ELSE offer[i][v]]
      BY <1>0, <1>4, <2>2 DEF CancelAndRematch, ReofferedTo
    <2>5. /\ status'[i] = IF again THEN "offered" ELSE "expired"
          /\ acceptedBy'[i] = NoWorker
          /\ attempts'[i] = attempts[i] + 1
          /\ excluded'[i] = excluded[i] \cup {acceptedBy[i]}
          /\ deleted' = deleted
      BY <1>0, <1>4, <2>1, <2>2 DEF CancelAndRematch
    <2> HIDE DEF asked, others
    <2>6. \E a \in SUBSET others :
             offer'[i] = [v \in Worker |-> IF v = acceptedBy[i] THEN "cancelled"
                                           ELSE IF v \in a THEN "offered" ELSE offer[i][v]]
      BY <2>3, <2>4
    <2>7. Offers(i)!GiveUp
      BY <2>2, <2>5, <2>6 DEF others, Offers!GiveUp
    <2>8. QED
      BY <2>7 DEF Offers!Next
  <1>5. CASE FindReplacements(i, w)
    BY <1>5 DEF FindReplacements, ReadCandidates, Offers!vars
  <1>6. QED
    BY <1>1, <1>2, <1>3, <1>4, <1>5 DEF WorkerNext

LEMMA PollRequest ==
  ASSUME DispatchInv, NEW i \in Job, GetPendingWorkerJob
  PROVE  [Offers(i)!Next]_(Offers(i)!vars)
  <1>0. TypeOK
    BY DEF DispatchInv
  <1>1. UNCHANGED <<acceptedBy, attempts, excluded, deleted>>
    BY DEF GetPendingWorkerJob
  <1>2. CASE status[i] = "expired" \/ i \in Overdue
    <2>1. /\ status[i] \in {"offered", "expired"} /\ status'[i] = "expired"
          /\ offer'[i] = OpenOffersExpired(i)
      BY <1>2 DEF GetPendingWorkerJob, Overdue
    <2>2. Offers(i)!Expire
      BY <1>1, <2>1 DEF OpenOffersExpired, Offers!Expire, Offers!Closed
    <2>3. QED
      BY <2>2 DEF Offers!Next
  <1>3. CASE ~(status[i] = "expired" \/ i \in Overdue)
    BY <1>1, <1>3 DEF GetPendingWorkerJob, Offers!vars
  <1>4. QED
    BY <1>2, <1>3

LEMMA DeletionRequest ==
  ASSUME DispatchInv, NEW i \in Job, NEW w \in Worker, DeleteWorker(w)
  PROVE  Offers(i)!Next
  <1>0. TypeOK /\ JobInv(i)
    BY DispatchInvSplit
  <1>1. acceptedBy[i] = w => status[i] \in Active \cup {"completed", "cancelled"}
    BY <1>0, DispatchAssumption DEF JobInv, TypeOK, JobStatus, Active, Terminal
  <1>2. IF acceptedBy[i] = w
        THEN /\ acceptedBy'[i] = NoWorker
             /\ status'[i] = IF status[i] = "completed" THEN status[i] ELSE "cancelled"
        ELSE acceptedBy'[i] = acceptedBy[i] /\ status'[i] = status[i]
    BY <1>1 DEF DeleteWorker, Active
  <1>3. /\ w \notin deleted /\ deleted' = deleted \cup {w}
        /\ excluded'[i] = excluded[i] \ {w}
        /\ offer'[i] = [offer[i] EXCEPT ![w] = "none"]
        /\ attempts' = attempts
    BY DEF DeleteWorker
  <1>4. Offers(i)!Leave(w)
    BY <1>2, <1>3 DEF Offers!Leave
  <1>5. QED
    BY <1>4 DEF Offers!Next

LEMMA OffersStep ==
  ASSUME DispatchInv, [Next]_vars, NEW i \in Job
  PROVE  [Offers(i)!Next]_(Offers(i)!vars)
  <1>0. TypeOK
    BY DEF DispatchInv
  <1>1. ASSUME NEW j \in Job, CustomerNext(j) \/ Lapse(j)
        PROVE  [Offers(i)!Next]_(Offers(i)!vars)
    <2>1. CASE j = i
      BY <1>1, <2>1, CustomerRequest
    <2>2. CASE j # i
      BY <1>0, <1>1, <2>2, OthersKeepRows
    <2>3. QED
      BY <2>1, <2>2
  <1>2. ASSUME NEW j \in Job, NEW w \in Worker, WorkerNext(j, w)
        PROVE  [Offers(i)!Next]_(Offers(i)!vars)
    <2>1. CASE j = i
      BY <1>2, <2>1, WorkerRequest
    <2>2. CASE j # i
      BY <1>0, <1>2, <2>2, OtherWorkersKeepRows
    <2>3. QED
      BY <2>1, <2>2
  <1>3. CASE UNCHANGED <<jobVars, offer, deleted>>
    BY <1>3 DEF jobVars, Offers!vars
  <1>4. QED
    BY <1>1, <1>2, <1>3, PollRequest, DeletionRequest
    DEF Next, PresenceNext, GoOnline, GoOffline, RetireToken, SearchFails, vars

\* For each job by itself every handler is one request of JobOffers, or does
\* nothing to its row and offers.
THEOREM OffersRefinement == Spec => ImplementsJobOffers
  <1>1. Init => \A j \in Job : Offers(j)!Init
    BY DEF Init, Offers!Init
  <1>2. DispatchInv /\ [Next]_vars =>
          [\A j \in Job : [Offers(j)!Next]_(Offers(j)!vars)]_<<jobVars, offer, deleted>>
    BY OffersStep
  <1>3. QED
    BY <1>1, <1>2, Invariance, PTL DEF Spec, ImplementsJobOffers

=============================================================================
