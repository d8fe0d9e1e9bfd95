------------------------- MODULE MarketplaceProofs --------------------------
(***************************************************************************)
(* Theorems about Marketplace for any number of requirements, requests,    *)
(* pauses, incidents and payment attempts.                                 *)
(***************************************************************************)
EXTENDS Marketplace, FiniteSetTheorems, TLAPS

(* Sets of finitely many requests and attempts grow one by one.            *)

LEMMA OneMore ==
  ASSUME NEW S, NEW T, NEW e, IsFiniteSet(T), S \subseteq T, e \in T, e \notin S
  PROVE  Cardinality(S \cup {e}) = Cardinality(S) + 1 /\ Cardinality(S) \in Nat
  BY FS_Subset, FS_AddElement, FS_CardinalityType

LEMMA ApprovedCounts ==
  IsFiniteSet(Approved) /\ Cardinality(Approved) \in Nat
  BY MarketplaceAssumption, FS_Subset, FS_CardinalityType DEF Approved

-----------------------------------------------------------------------------
LEMMA InitInv == Init => MarketplaceInv
  <1> SUFFICES ASSUME Init PROVE MarketplaceInv
    OBVIOUS
  <1>1. TypeOK
    <2>1. segment \in Segment /\ segmentKeys \subseteq Key
      BY DEF Init, Segment
    <2>2. versions \in Seq(Extra)
      BY DEF Init
    <2>3. QED
      BY <2>1, <2>2 DEF Init, TypeOK, JobStatus
  <1>2. ChargesMatchAttempts /\ OnlyApprovedIsBilled
    <2>1. {a \in Attempt : attempt[a] = "success"} = {} /\ Approved = {}
      BY DEF Init, Approved
    <2>2. QED
      BY <2>1, FS_EmptySet DEF Init, ChargesMatchAttempts, OnlyApprovedIsBilled
  <1>3. ScopeMatchesDecisions
    BY DEF Init, ScopeMatchesDecisions, Approved
  <1>4. QED
    BY <1>1, <1>2, <1>3
    DEF Init, MarketplaceInv, HoldsAgree, ConfirmedIsNotAwaited, EarnedWhenCharged,
        RatedWasCharged, KeysFollowRequirements, BillFollowsCompletion, NoSegment, Key,
        SegmentOf, KeyOf

-----------------------------------------------------------------------------
(* Type correctness *)

LEMMA TypeStep == TypeOK /\ [Next]_vars => TypeOK'
  <1> SUFFICES ASSUME TypeOK, [Next]_vars PROVE TypeOK'
    OBVIOUS
  <1> USE DEF TypeOK, JobStatus, work, timing, money
  <1>k. \A r \in Requirement :
           KeyOf("requirement", r) \in Key /\ KeyOf("confirmation", r) \in Key
    BY DEF Key, KeyOf
  <1>l. /\ \A p \in Pause : KeyOf("pause", p) \in Key
        /\ \A i \in Incident : KeyOf("incident", i) \in Key
    BY DEF Key, KeyOf
  <1>s. ASSUME NEW type \in SegmentType, NEW key \in Key, ReplaceOpenSegment(type, key)
        PROVE  segment' \in Segment /\ segmentKeys' \subseteq Key
    BY <1>s DEF ReplaceOpenSegment, Segment
  <1>n. NoSegment \in Segment /\ WorkStarted \in Segment
    BY DEF Segment
  <1>w. "waiting" \in SegmentType /\ "working" \in SegmentType
    BY DEF SegmentType
  <1>1. ASSUME DispatchNext PROVE TypeOK'
    <2>1. CASE WorkerDeleted
      BY <2>1 DEF WorkerDeleted, Active
    <2>2. CASE ~WorkerDeleted
      BY <1>1, <1>n, <2>2 DEF DispatchNext, AcceptJob, SearchExpires, CancelAndRematch,
        WorkerArrives, WorkerStarts, WorkerRequestsCompletion, WorkerCompletes,
        CustomerCancel, CustomerResume, Active
    <2>3. QED
      BY <2>1, <2>2
  <1>2. ASSUME NEW r \in Requirement, CreateRequirement(r) PROVE TypeOK'
    <2>1. ReplaceOpenSegment("waiting", KeyOf("requirement", r))
      BY <1>2 DEF CreateRequirement
    <2>2. QED
      BY <1>2, <1>k, <1>s, <1>w, <2>1 DEF CreateRequirement
  <1>3. ASSUME NEW r \in Requirement, NEW answer \in {"acknowledged", "arranged"},
               UpdateRequirementByCustomer(r, answer)
        PROVE TypeOK'
    BY <1>3 DEF UpdateRequirementByCustomer
  <1>4. ASSUME NEW r \in Requirement, ConfirmRequirementByWorker(r) PROVE TypeOK'
    <2>1. ReplaceOpenSegment("working", KeyOf("confirmation", r))
      BY <1>4 DEF ConfirmRequirementByWorker
    <2>2. QED
      BY <1>4, <1>k, <1>s, <1>w, <2>1 DEF ConfirmRequirementByWorker
  <1>5. ASSUME NEW p \in Pause, NEW type \in SegmentType, StartTimeSegment(p, type)
        PROVE TypeOK'
    <2>1. ReplaceOpenSegment(type, KeyOf("pause", p))
      BY <1>5 DEF StartTimeSegment
    <2>2. QED
      BY <1>5, <1>l, <1>s, <2>1 DEF StartTimeSegment
  <1>6. ASSUME NEW x \in Extra,
               \/ RequestAdditionalWork(x) \/ DeclineAdditionalWork(x)
               \/ ApproveAdditionalWork(x) \/ Lapse(x)
        PROVE TypeOK'
    <2>1. CASE RequestAdditionalWork(x) \/ DeclineAdditionalWork(x)
      BY <2>1 DEF RequestAdditionalWork, DeclineAdditionalWork
    <2>2. CASE ApproveAdditionalWork(x)
      <3>1. versions' \in Seq(Extra) /\ labour' \in Nat
        BY <2>2 DEF ApproveAdditionalWork
      <3>2. QED
        BY <2>2, <3>1 DEF ApproveAdditionalWork
    <2>3. CASE Lapse(x)
      BY <2>3 DEF Lapse
    <2>4. QED
      BY <1>6, <2>1, <2>2, <2>3
  <1>7. ASSUME ReportRemainingWork \/ CreateCase PROVE TypeOK'
    BY <1>7 DEF ReportRemainingWork, CreateCase, PlaceHold, Active
  <1>8. ASSUME NEW i \in Incident, CreateWorkerSafetyCase(i) PROVE TypeOK'
    <2>1. ReplaceOpenSegment("waiting", KeyOf("incident", i))
      BY <1>8 DEF CreateWorkerSafetyCase
    <2>2. QED
      BY <1>8, <1>l, <1>s, <1>w, <2>1 DEF CreateWorkerSafetyCase, PlaceHold
  <1>9. ASSUME ConfirmCompletion PROVE TypeOK'
    BY <1>9, <1>n, ApprovedCounts DEF ConfirmCompletion, Billable
  <1>10. ASSUME NEW a \in Attempt,
                CreatePaymentAttempt(a) \/ ReconcileSuccess(a) \/ ReconcileFailure(a)
         PROVE TypeOK'
    <2>1. CASE CreatePaymentAttempt(a)
      BY <2>1 DEF CreatePaymentAttempt
    <2>2. CASE ReconcileSuccess(a)
      BY <2>2 DEF ReconcileSuccess
    <2>3. CASE ReconcileFailure(a)
      BY <2>3 DEF ReconcileFailure
    <2>4. QED
      BY <1>10, <2>1, <2>2, <2>3
  <1>11. ASSUME SubmitRating PROVE TypeOK'
    BY <1>11 DEF SubmitRating
  <1>12. CASE UNCHANGED vars
    BY <1>12 DEF vars
  <1>13. QED
    BY <1>1, <1>2, <1>3, <1>4, <1>5, <1>6, <1>7, <1>8, <1>9, <1>10, <1>11, <1>12
    DEF Next, WorkNext, ReviewNext, PaymentNext

-----------------------------------------------------------------------------
(* Holds, the bill and the earning *)

LEMMA MoneyStep ==
  ASSUME TypeOK, HoldsAgree, EarnedWhenCharged, BillFollowsCompletion, [Next]_vars
  PROVE  HoldsAgree' /\ EarnedWhenCharged' /\ BillFollowsCompletion'
  <1> USE DEF TypeOK, HoldsAgree, EarnedWhenCharged, BillFollowsCompletion, work, timing,
              money, Active
  <1>u. ASSUME UNCHANGED <<payment, payHold, hold, attempt, charges, earned>>,
               payment = "none" \/ status' = "completed"
        PROVE  HoldsAgree' /\ EarnedWhenCharged' /\ BillFollowsCompletion'
    BY <1>u
  <1>1. CASE DispatchNext
    BY <1>1, <1>u DEF DispatchNext, AcceptJob, SearchExpires, CancelAndRematch,
      WorkerArrives, WorkerStarts, WorkerRequestsCompletion, WorkerCompletes,
      CustomerCancel, CustomerResume, WorkerDeleted
  <1>2. CASE WorkNext
    BY <1>2, <1>u DEF WorkNext, CreateRequirement, UpdateRequirementByCustomer,
      ConfirmRequirementByWorker, StartTimeSegment, RequestAdditionalWork,
      DeclineAdditionalWork, ApproveAdditionalWork, Lapse
  <1>3. ASSUME ReportRemainingWork PROVE UNCHANGED money /\ payment = "none" /\ hold' = hold
    BY <1>3 DEF ReportRemainingWork
  <1>4. CASE CreateCase
    BY <1>4 DEF CreateCase, PlaceHold
  <1>5. ASSUME NEW i \in Incident, CreateWorkerSafetyCase(i)
        PROVE  HoldsAgree' /\ EarnedWhenCharged' /\ BillFollowsCompletion'
    BY <1>5 DEF CreateWorkerSafetyCase, PlaceHold
  <1>6. CASE ConfirmCompletion
    BY <1>6 DEF ConfirmCompletion
  <1>7. ASSUME NEW a \in Attempt, CreatePaymentAttempt(a)
        PROVE  HoldsAgree' /\ EarnedWhenCharged' /\ BillFollowsCompletion'
    BY <1>7 DEF CreatePaymentAttempt
  <1>8. ASSUME NEW a \in Attempt, ReconcileSuccess(a) \/ ReconcileFailure(a)
        PROVE  HoldsAgree' /\ EarnedWhenCharged' /\ BillFollowsCompletion'
    <2>1. payment # "none" /\ status = "completed"
      BY <1>8 DEF ReconcileSuccess, ReconcileFailure, Reconcilable
    <2>2. CASE ReconcileSuccess(a)
      BY <2>1, <2>2 DEF ReconcileSuccess
    <2>3. CASE ReconcileFailure(a)
      BY <2>1, <2>3 DEF ReconcileFailure
    <2>4. QED
      BY <1>8, <2>2, <2>3
  <1>9. CASE SubmitRating
    BY <1>9 DEF SubmitRating
  <1>10. CASE UNCHANGED vars
    BY <1>10 DEF vars
  <1>11. QED
    BY <1>1, <1>2, <1>3, <1>4, <1>5, <1>6, <1>7, <1>8, <1>9, <1>10
    DEF Next, ReviewNext, PaymentNext

LEMMA RatedStep ==
  ASSUME TypeOK, RatedWasCharged, [Next]_vars PROVE RatedWasCharged'
  <1> USE DEF TypeOK, RatedWasCharged, work, timing, money
  <1>1. CASE UNCHANGED <<payment, charges, rated>>
    BY <1>1
  <1>2. CASE ConfirmCompletion
    BY <1>2 DEF ConfirmCompletion
  <1>3. ASSUME NEW a \in Attempt,
               CreatePaymentAttempt(a) \/ ReconcileSuccess(a) \/ ReconcileFailure(a)
        PROVE  RatedWasCharged'
    BY <1>3 DEF CreatePaymentAttempt, ReconcileSuccess, ReconcileFailure
  <1>4. CASE SubmitRating
    BY <1>4 DEF SubmitRating
  <1>5. QED
    BY <1>1, <1>2, <1>3, <1>4
    DEF Next, DispatchNext, WorkNext, ReviewNext, PaymentNext, AcceptJob, SearchExpires,
        CancelAndRematch, WorkerArrives, WorkerStarts, WorkerRequestsCompletion,
        WorkerCompletes, CustomerCancel, CustomerResume, WorkerDeleted, CreateRequirement,
        UpdateRequirementByCustomer, ConfirmRequirementByWorker, StartTimeSegment,
        RequestAdditionalWork, DeclineAdditionalWork, ApproveAdditionalWork, Lapse,
        ReportRemainingWork, CreateCase, CreateWorkerSafetyCase, PlaceHold, vars

-----------------------------------------------------------------------------
(* What is waited for *)

LEMMA WaitStep ==
  ASSUME TypeOK, ConfirmedIsNotAwaited, KeysFollowRequirements, [Next]_vars
  PROVE  ConfirmedIsNotAwaited' /\ KeysFollowRequirements'
  <1> DEFINE Goal == ConfirmedIsNotAwaited' /\ KeysFollowRequirements'
  <1> USE DEF TypeOK, ConfirmedIsNotAwaited, KeysFollowRequirements, KeyOf, SegmentOf
  <1>u. ASSUME UNCHANGED <<requirement, segmentKeys>>,
               segment' = segment \/ segment' = NoSegment \/ segment' = WorkStarted
        PROVE  Goal
    BY <1>u DEF NoSegment, WorkStarted
  <1>o. ASSUME NEW type \in SegmentType, NEW key, key.of \in {"pause", "incident"},
               key = KeyOf(key.of, key.id),
               ReplaceOpenSegment(type, key), UNCHANGED requirement
        PROVE  Goal
    <2>1. CASE key \in segmentKeys
      BY <1>o, <2>1 DEF ReplaceOpenSegment, timing
    <2>2. CASE key \notin segmentKeys
      <3>1. \A r \in Requirement : segment' # SegmentOf("waiting", KeyOf("requirement", r))
        BY <1>o, <2>2 DEF ReplaceOpenSegment
      <3>2. \A r \in Requirement : KeyOf("confirmation", r) # key
        BY <1>o
      <3>3. QED
        BY <1>o, <2>2, <3>1, <3>2 DEF ReplaceOpenSegment
    <2>3. QED
      BY <2>1, <2>2
  <1>1. CASE DispatchNext
    BY <1>1, <1>u DEF DispatchNext, AcceptJob, SearchExpires, CancelAndRematch,
      WorkerArrives, WorkerStarts, WorkerRequestsCompletion, WorkerCompletes,
      CustomerCancel, CustomerResume, WorkerDeleted, work, timing
  <1>2. ASSUME NEW r \in Requirement, CreateRequirement(r) PROVE Goal
    <2>1. CASE KeyOf("requirement", r) \in segmentKeys
      BY <1>2, <2>1 DEF CreateRequirement, ReplaceOpenSegment, timing
    <2>2. CASE KeyOf("requirement", r) \notin segmentKeys
      <3>1. requirement' = [requirement EXCEPT ![r] = "requested"]
        BY <1>2, <2>2 DEF CreateRequirement
      <3>2. \A i \in Requirement : KeyOf("confirmation", i) # KeyOf("requirement", r)
        OBVIOUS
      <3>3. QED
        BY <1>2, <2>2, <3>1, <3>2 DEF CreateRequirement, ReplaceOpenSegment
    <2>3. QED
      BY <2>1, <2>2
  <1>3. ASSUME NEW r \in Requirement, NEW answer \in {"acknowledged", "arranged"},
               UpdateRequirementByCustomer(r, answer)
        PROVE Goal
    BY <1>3 DEF UpdateRequirementByCustomer, timing
  <1>4. ASSUME NEW r \in Requirement, ConfirmRequirementByWorker(r) PROVE Goal
    <2>1. CASE KeyOf("confirmation", r) \in segmentKeys
      BY <1>4, <2>1 DEF ConfirmRequirementByWorker, ReplaceOpenSegment, timing
    <2>2. CASE KeyOf("confirmation", r) \notin segmentKeys
      <3>1. \A i \in Requirement : segment' # SegmentOf("waiting", KeyOf("requirement", i))
        BY <1>4, <2>2 DEF ConfirmRequirementByWorker, ReplaceOpenSegment
      <3>2. \A i \in Requirement :
               KeyOf("confirmation", i) = KeyOf("confirmation", r) => i = r
        OBVIOUS
      <3>3. QED
        BY <1>4, <2>2, <3>1, <3>2 DEF ConfirmRequirementByWorker, ReplaceOpenSegment
    <2>3. QED
      BY <2>1, <2>2
  <1>5. ASSUME NEW p \in Pause, NEW type \in SegmentType, StartTimeSegment(p, type)
        PROVE Goal
    BY <1>5, <1>o DEF StartTimeSegment, work
  <1>6. ASSUME NEW x \in Extra,
               \/ RequestAdditionalWork(x) \/ DeclineAdditionalWork(x)
               \/ ApproveAdditionalWork(x) \/ Lapse(x)
        PROVE Goal
    BY <1>6, <1>u DEF RequestAdditionalWork, DeclineAdditionalWork, ApproveAdditionalWork,
      Lapse, timing
  <1>7. ASSUME NEW i \in Incident, CreateWorkerSafetyCase(i) PROVE Goal
    BY <1>7, <1>o DEF CreateWorkerSafetyCase, work, SegmentType
  <1>8. CASE ReportRemainingWork \/ CreateCase \/ ConfirmCompletion \/ PaymentNext
    BY <1>8, <1>u DEF ReportRemainingWork, CreateCase, ConfirmCompletion, PaymentNext,
      CreatePaymentAttempt, ReconcileSuccess, ReconcileFailure, SubmitRating, work, timing
  <1>9. CASE UNCHANGED vars
    BY <1>9, <1>u DEF vars, work, timing
  <1>10. QED
    BY <1>1, <1>2, <1>3, <1>4, <1>5, <1>6, <1>7, <1>8, <1>9
    DEF Next, WorkNext, ReviewNext

-----------------------------------------------------------------------------
(* The scope, the decisions and the bill *)

LEMMA ScopeStep ==
  ASSUME TypeOK, ScopeMatchesDecisions, [Next]_vars
  PROVE  ScopeMatchesDecisions'
  <1> USE DEF TypeOK, Approved
  <1>u. ASSUME UNCHANGED <<extra, versions, labour>>, payment = "none" \/ payment' # "none"
        PROVE  ScopeMatchesDecisions'
    BY <1>u DEF ScopeMatchesDecisions
  <1>1. CASE DispatchNext
    BY <1>1, <1>u DEF DispatchNext, AcceptJob, SearchExpires, CancelAndRematch,
      WorkerArrives, WorkerStarts, WorkerRequestsCompletion, WorkerCompletes,
      CustomerCancel, CustomerResume, WorkerDeleted, work, money
  <1>2. ASSUME NEW r \in Requirement,
               \/ CreateRequirement(r) \/ ConfirmRequirementByWorker(r)
               \/ \E answer \in {"acknowledged", "arranged"} :
                     UpdateRequirementByCustomer(r, answer)
        PROVE  ScopeMatchesDecisions'
    BY <1>2, <1>u DEF CreateRequirement, ConfirmRequirementByWorker,
      UpdateRequirementByCustomer, money
  <1>3. ASSUME NEW p \in Pause, NEW type \in SegmentType, StartTimeSegment(p, type)
        PROVE  ScopeMatchesDecisions'
    BY <1>3, <1>u DEF StartTimeSegment, work, money
  <1>4. ASSUME NEW x \in Extra, RequestAdditionalWork(x) \/ DeclineAdditionalWork(x) \/ Lapse(x)
        PROVE  ScopeMatchesDecisions'
    <2>1. Approved' = Approved
      BY <1>4 DEF RequestAdditionalWork, DeclineAdditionalWork, Lapse, Decidable
    <2>2. UNCHANGED <<versions, labour, payment>>
      BY <1>4 DEF RequestAdditionalWork, DeclineAdditionalWork, Lapse, money
    <2>3. QED
      BY <2>1, <2>2 DEF ScopeMatchesDecisions
  <1>5. ASSUME NEW x \in Extra, ApproveAdditionalWork(x) PROVE ScopeMatchesDecisions'
    <2>1. /\ extra[x] = "pending" /\ extra' = [extra EXCEPT ![x] = "approved"]
          /\ versions' = Append(versions, x) /\ labour' = labour + 1
          /\ payment' = payment
      BY <1>5 DEF ApproveAdditionalWork, Decidable, money
    <2>2. /\ x \notin Approved /\ Approved' = Approved \cup {x}
      BY <2>1
    <2>3. /\ DOMAIN versions' = DOMAIN versions \cup {Len(versions) + 1}
          /\ Len(versions') = Len(versions) + 1 /\ Len(versions) \in Nat
          /\ DOMAIN versions = 1 .. Len(versions)
          /\ \A n \in DOMAIN versions : versions'[n] = versions[n]
          /\ versions'[Len(versions) + 1] = x
      BY <2>1
    <2>4. \A n \in DOMAIN versions : versions[n] \in Extra /\ versions[n] # x
      BY <2>2 DEF ScopeMatchesDecisions
    <2>5. \A y \in Extra : y \in Approved' <=> \E n \in DOMAIN versions' : versions'[n] = y
      <3> SUFFICES ASSUME NEW y \in Extra
                   PROVE  y \in Approved' <=> \E n \in DOMAIN versions' : versions'[n] = y
        OBVIOUS
      <3>1. y \in Approved' <=> y \in Approved \/ y = x
        BY <2>2
      <3>2. y \in Approved <=> \E n \in DOMAIN versions : versions[n] = y
        BY DEF ScopeMatchesDecisions
      <3>3. (\E n \in DOMAIN versions' : versions'[n] = y)
              <=> y = x \/ \E n \in DOMAIN versions : versions[n] = y
        BY ONLY <2>3
      <3>4. QED
        BY <3>1, <3>2, <3>3
    <2>6. \A m, n \in DOMAIN versions' : versions'[m] = versions'[n] => m = n
      BY <2>3, <2>4 DEF ScopeMatchesDecisions
    <2>7. payment' = "none" => labour' = Len(versions')
      BY <2>1, <2>3 DEF ScopeMatchesDecisions
    <2>8. QED
      BY <2>5, <2>6, <2>7 DEF ScopeMatchesDecisions
  <1>6. CASE ReportRemainingWork \/ CreateCase \/ \E i \in Incident : CreateWorkerSafetyCase(i)
    BY <1>6, <1>u DEF ReportRemainingWork, CreateCase, CreateWorkerSafetyCase, work, money
  <1>7. CASE ConfirmCompletion
    BY <1>7 DEF ConfirmCompletion, ScopeMatchesDecisions
  <1>8. CASE PaymentNext
    BY <1>8, <1>u DEF PaymentNext, CreatePaymentAttempt, ReconcileSuccess,
      ReconcileFailure, SubmitRating, work
  <1>9. CASE UNCHANGED vars
    BY <1>9, <1>u DEF vars, work, money
  <1>10. QED
    BY <1>1, <1>2, <1>3, <1>4, <1>5, <1>6, <1>7, <1>8, <1>9 DEF Next, WorkNext, ReviewNext

\* Decisions are never undone.
LEMMA ApprovedGrows ==
  ASSUME TypeOK, [Next]_vars PROVE Approved \subseteq Approved'
  <1> USE DEF TypeOK, Approved, work
  <1>1. ASSUME NEW x \in Extra,
               \/ RequestAdditionalWork(x) \/ DeclineAdditionalWork(x)
               \/ ApproveAdditionalWork(x) \/ Lapse(x)
        PROVE  Approved \subseteq Approved'
    BY <1>1 DEF RequestAdditionalWork, DeclineAdditionalWork, ApproveAdditionalWork,
      Lapse, Decidable
  <1>2. ASSUME UNCHANGED extra PROVE Approved \subseteq Approved'
    BY <1>2
  <1>3. DispatchNext \/ ReviewNext \/ PaymentNext \/ UNCHANGED vars => UNCHANGED extra
    BY DEF DispatchNext, AcceptJob, SearchExpires, CancelAndRematch,
      WorkerArrives, WorkerStarts, WorkerRequestsCompletion, WorkerCompletes,
      CustomerCancel, CustomerResume, WorkerDeleted, ReviewNext, ReportRemainingWork, CreateCase,
      CreateWorkerSafetyCase, ConfirmCompletion, PaymentNext, CreatePaymentAttempt,
      ReconcileSuccess, ReconcileFailure, SubmitRating, vars
  <1>4. ASSUME NEW r \in Requirement,
               \/ CreateRequirement(r) \/ ConfirmRequirementByWorker(r)
               \/ \E answer \in {"acknowledged", "arranged"} :
                     UpdateRequirementByCustomer(r, answer)
        PROVE  UNCHANGED extra
    BY <1>4 DEF CreateRequirement, ConfirmRequirementByWorker, UpdateRequirementByCustomer
  <1>5. ASSUME NEW p \in Pause, NEW type \in SegmentType, StartTimeSegment(p, type)
        PROVE  UNCHANGED extra
    BY <1>5 DEF StartTimeSegment
  <1>6. QED
    BY <1>1, <1>2, <1>3, <1>4, <1>5 DEF Next, WorkNext

\* The bill is made by confirmCompletion and by nothing else.
LEMMA BillStep ==
  ASSUME TypeOK, BillFollowsCompletion, [Next]_vars
  PROVE  \/ ConfirmCompletion /\ payment = "none" /\ ~hold
         \/ billed' = billed /\ (payment' = "none" <=> payment = "none")
  <1> DEFINE Goal == billed' = billed /\ (payment' = "none" <=> payment = "none")
  <1> USE DEF TypeOK, BillFollowsCompletion, money
  <1>1. CASE DispatchNext
    BY <1>1 DEF DispatchNext, AcceptJob, SearchExpires, CancelAndRematch,
      WorkerArrives, WorkerStarts, WorkerRequestsCompletion, WorkerCompletes,
      CustomerCancel, CustomerResume, WorkerDeleted
  <1>2. CASE WorkNext
    BY <1>2 DEF WorkNext, CreateRequirement, UpdateRequirementByCustomer,
      ConfirmRequirementByWorker, StartTimeSegment, RequestAdditionalWork,
      DeclineAdditionalWork, ApproveAdditionalWork, Lapse
  <1>3. CASE ReportRemainingWork \/ CreateCase \/ \E i \in Incident : CreateWorkerSafetyCase(i)
    BY <1>3 DEF ReportRemainingWork, CreateCase, CreateWorkerSafetyCase
  <1>4. CASE ConfirmCompletion
    BY <1>4 DEF ConfirmCompletion
  <1>5. ASSUME NEW a \in Attempt,
               CreatePaymentAttempt(a) \/ ReconcileSuccess(a) \/ ReconcileFailure(a)
        PROVE  Goal
    BY <1>5 DEF CreatePaymentAttempt, ReconcileSuccess, ReconcileFailure, Reconcilable
  <1>6. CASE SubmitRating
    BY <1>6 DEF SubmitRating
  <1>7. CASE UNCHANGED vars
    BY <1>7 DEF vars
  <1>8. QED
    BY <1>1, <1>2, <1>3, <1>4, <1>5, <1>6, <1>7 DEF Next, ReviewNext, PaymentNext

LEMMA BilledStep ==
  ASSUME TypeOK, TypeOK', OnlyApprovedIsBilled, BillFollowsCompletion, [Next]_vars
  PROVE  OnlyApprovedIsBilled'
  <1>a. Cardinality(Approved) \in Nat /\ Cardinality(Approved') \in Nat
        /\ Cardinality(Approved) <= Cardinality(Approved')
    <2>1. IsFiniteSet(Approved') /\ Approved \subseteq Approved'
      <3>1. Approved' \subseteq Extra
        BY DEF Approved
      <3>2. QED
        BY <3>1, ApprovedGrows, MarketplaceAssumption, FS_Subset
    <2>2. QED
      BY <2>1, FS_Subset, FS_CardinalityType
  <1>1. CASE ConfirmCompletion
    <2>1. Approved' = Approved /\ billed' = Cardinality(Approved) /\ payment' # "none"
      BY <1>1 DEF ConfirmCompletion, Approved, Billable, TypeOK
    <2>2. QED
      BY <1>a, <2>1 DEF OnlyApprovedIsBilled
  <1>2. CASE billed' = billed /\ (payment' = "none" <=> payment = "none")
    <2>1. billed' <= Cardinality(Approved')
      BY <1>2, <1>a DEF OnlyApprovedIsBilled, TypeOK
    <2>2. QED
      BY <1>2, <2>1 DEF OnlyApprovedIsBilled
  <1>3. QED
    BY <1>1, <1>2, BillStep

-----------------------------------------------------------------------------
(* Charges *)

LEMMA AttemptsKept ==
  DispatchNext \/ WorkNext \/ ReviewNext \/ SubmitRating \/ UNCHANGED vars
    => UNCHANGED <<attempt, charges>>
  <1> USE DEF money
  <1>1. DispatchNext => UNCHANGED <<attempt, charges>>
    BY DEF DispatchNext, AcceptJob, SearchExpires, CancelAndRematch,
      WorkerArrives, WorkerStarts, WorkerRequestsCompletion, WorkerCompletes,
      CustomerCancel, CustomerResume, WorkerDeleted
  <1>2. WorkNext => UNCHANGED <<attempt, charges>>
    BY DEF WorkNext, CreateRequirement, UpdateRequirementByCustomer,
      ConfirmRequirementByWorker, StartTimeSegment, RequestAdditionalWork,
      DeclineAdditionalWork, ApproveAdditionalWork, Lapse
  <1>3. ReviewNext \/ SubmitRating \/ UNCHANGED vars => UNCHANGED <<attempt, charges>>
    BY DEF ReviewNext, ReportRemainingWork, CreateCase, CreateWorkerSafetyCase,
      ConfirmCompletion, SubmitRating, vars
  <1>4. QED
    BY <1>1, <1>2, <1>3

Succeeded == {a \in Attempt : attempt[a] = "success"}

LEMMA ChargeStep ==
  ASSUME TypeOK, ChargesMatchAttempts, [Next]_vars
  PROVE  ChargesMatchAttempts'
  <1> USE DEF TypeOK, money
  <1>0. charges = Cardinality(Succeeded)
    BY DEF ChargesMatchAttempts, Succeeded
  <1>u. ASSUME Succeeded' = Succeeded, charges' = charges PROVE ChargesMatchAttempts'
    BY <1>0, <1>u DEF ChargesMatchAttempts, Succeeded
  <1>1. ASSUME NEW a \in Attempt, CreatePaymentAttempt(a) \/ ReconcileFailure(a)
        PROVE  ChargesMatchAttempts'
    <2>1. Succeeded' = Succeeded /\ charges' = charges
      BY <1>1 DEF CreatePaymentAttempt, ReconcileFailure, Reconcilable, Succeeded
    <2>2. QED
      BY <1>u, <2>1
  <1>2. ASSUME NEW a \in Attempt, ReconcileSuccess(a) PROVE ChargesMatchAttempts'
    <2>1. Succeeded' = Succeeded \cup {a} /\ a \notin Succeeded /\ charges' = charges + 1
      BY <1>2 DEF ReconcileSuccess, Reconcilable, Succeeded
    <2>2. Succeeded \subseteq Attempt
      BY DEF Succeeded
    <2>3. Cardinality(Succeeded \cup {a}) = Cardinality(Succeeded) + 1
      BY <2>1, <2>2, OneMore, MarketplaceAssumption
    <2>4. charges' = Cardinality(Succeeded')
      BY <1>0, <2>1, <2>3
    <2>5. QED
      BY <2>4 DEF ChargesMatchAttempts, Succeeded
  <1>3. ASSUME UNCHANGED <<attempt, charges>> PROVE ChargesMatchAttempts'
    BY <1>3, <1>u DEF Succeeded
  <1>4. DispatchNext \/ WorkNext \/ ReviewNext \/ SubmitRating \/ UNCHANGED vars
          => UNCHANGED <<attempt, charges>>
    BY AttemptsKept
  <1>5. QED
    BY <1>1, <1>2, <1>3, <1>4 DEF Next, PaymentNext

-----------------------------------------------------------------------------
LEMMA MarketplaceInvStep == MarketplaceInv /\ [Next]_vars => MarketplaceInv'
  <1> SUFFICES ASSUME MarketplaceInv, [Next]_vars PROVE MarketplaceInv'
    OBVIOUS
  <1>1. TypeOK /\ TypeOK'
    BY TypeStep DEF MarketplaceInv
  <1>2. QED
    BY <1>1, MoneyStep, RatedStep, WaitStep, ScopeStep, BilledStep, ChargeStep
    DEF MarketplaceInv

\* The inductive invariant of the marketplace tables.
THEOREM Invariance == Spec => []MarketplaceInv
  BY InitInv, MarketplaceInvStep, PTL DEF Spec

\* Type correctness.
THEOREM TypeCorrect == Spec => []TypeOK
  <1>1. MarketplaceInv => TypeOK
    BY DEF MarketplaceInv
  <1>2. QED
    BY <1>1, Invariance, PTL

\* The job's hold and its payment's never disagree.
THEOREM Holds == Spec => []HoldsAgree
  <1>1. MarketplaceInv => HoldsAgree
    BY DEF MarketplaceInv
  <1>2. QED
    BY <1>1, Invariance, PTL

\* The scope versions are the approved requests, each once.
THEOREM Scope == Spec => []ScopeMatchesDecisions
  <1>1. MarketplaceInv => ScopeMatchesDecisions
    BY DEF MarketplaceInv
  <1>2. QED
    BY <1>1, Invariance, PTL

\* A confirmed requirement is not waited for again.
THEOREM NotAwaited == Spec => []ConfirmedIsNotAwaited
  <1>1. MarketplaceInv => ConfirmedIsNotAwaited
    BY DEF MarketplaceInv
  <1>2. QED
    BY <1>1, Invariance, PTL

\* Nothing the customer did not approve is billed.
THEOREM Billing == Spec => []OnlyApprovedIsBilled
  <1>1. MarketplaceInv => OnlyApprovedIsBilled
    BY DEF MarketplaceInv
  <1>2. QED
    BY <1>1, Invariance, PTL

\* One charge for each successful attempt.
THEOREM Charging == Spec => []ChargesMatchAttempts
  <1>1. MarketplaceInv => ChargesMatchAttempts
    BY DEF MarketplaceInv
  <1>2. QED
    BY <1>1, Invariance, PTL

\* The worker's earning is there when, and only when, something was charged.
THEOREM Earning == Spec => []EarnedWhenCharged
  <1>1. MarketplaceInv => EarnedWhenCharged
    BY DEF MarketplaceInv
  <1>2. QED
    BY <1>1, Invariance, PTL

\* Whoever rated the job was charged, also when a late failure of another attempt
\* has overwritten the payment's status since (reconcilePayment).
THEOREM Rated == Spec => []RatedWasCharged
  <1>1. MarketplaceInv => RatedWasCharged
    BY DEF MarketplaceInv
  <1>2. QED
    BY <1>1, Invariance, PTL

-----------------------------------------------------------------------------
\* Nobody asks for a requirement before the work starts.
NothingRequiredYet ==
    status \in {"offered", "accepted", "arrived"} =>
        \A r \in Requirement : requirement[r] = "none"

LEMMA TimingStep ==
  ASSUME TypeOK, TimingAccounted, NothingRequiredYet, [Next]_vars
  PROVE  TimingAccounted' /\ NothingRequiredYet'
  <1> DEFINE Goal == TimingAccounted' /\ NothingRequiredYet'
  <1> USE DEF TypeOK, TimingAccounted, NothingRequiredYet, IsOpen
  <1>1. CASE UNCHANGED <<status, segment, requirement>>
    BY <1>1
  <1>2. CASE DispatchNext
    BY <1>2 DEF DispatchNext, AcceptJob, SearchExpires, CancelAndRematch, WorkerArrives,
       WorkerStarts, WorkerRequestsCompletion, WorkerCompletes, CustomerCancel,
       CustomerResume, WorkerDeleted, NoSegment, Active, timing, work
  <1>3. ASSUME NEW r \in Requirement, CreateRequirement(r) PROVE Goal
    BY <1>3 DEF CreateRequirement
  <1>4. ASSUME NEW r \in Requirement, NEW answer,
               UpdateRequirementByCustomer(r, answer)
        PROVE  Goal
    <2>1. UNCHANGED <<status, segment>>
      BY <1>4 DEF UpdateRequirementByCustomer, timing
    <2>2. requirement[r] # "none"
      BY <1>4 DEF UpdateRequirementByCustomer
    <2>3. QED
      BY <2>1, <2>2
  <1>5. ASSUME NEW r \in Requirement, ConfirmRequirementByWorker(r) PROVE Goal
    <2>1. requirement[r] # "none" /\ UNCHANGED status
      BY <1>5 DEF ConfirmRequirementByWorker
    <2>2. segment' = segment \/ segment'.of = "confirmation"
      BY <1>5 DEF ConfirmRequirementByWorker, ReplaceOpenSegment, SegmentOf, KeyOf, timing
    <2>3. QED
      BY <2>1, <2>2
  <1>6. ASSUME NEW p \in Pause, NEW type \in SegmentType, StartTimeSegment(p, type)
        PROVE  Goal
    BY <1>6 DEF StartTimeSegment, work
  <1>7. ASSUME NEW i \in Incident, CreateWorkerSafetyCase(i) PROVE Goal
    <2>1. UNCHANGED <<status, requirement>>
      BY <1>7 DEF CreateWorkerSafetyCase, work
    <2>2. segment' = segment \/ segment' = SegmentOf("waiting", KeyOf("incident", i))
      BY <1>7 DEF CreateWorkerSafetyCase, ReplaceOpenSegment, timing
    <2>3. segment' # segment => segment'.of = "incident" /\ segment'.type = "waiting"
      BY <2>2 DEF SegmentOf, KeyOf
    <2>4. QED
      BY <2>1, <2>3
  <1>8. CASE ReportRemainingWork \/ ConfirmCompletion
    BY <1>8 DEF ReportRemainingWork, ConfirmCompletion
  <1>9. \/ CreateCase \/ PaymentNext \/ UNCHANGED vars
        \/ \E x \in Extra : \/ RequestAdditionalWork(x) \/ DeclineAdditionalWork(x)
                           \/ ApproveAdditionalWork(x) \/ Lapse(x)
        => UNCHANGED <<status, segment, requirement>>
    BY DEF CreateCase, PaymentNext, CreatePaymentAttempt, ReconcileSuccess,
       ReconcileFailure, SubmitRating, RequestAdditionalWork, DeclineAdditionalWork,
       ApproveAdditionalWork, Lapse, vars, timing, work
  <1>10. QED
    BY <1>1, <1>2, <1>3, <1>4, <1>5, <1>6, <1>7, <1>8, <1>9 DEF Next, WorkNext, ReviewNext

\* Time is counted at the wrong stage for two known reasons only: a safety stop
\* before the start, a confirmed requirement during the review.
THEOREM Timing == Spec => []TimingAccounted
  <1>1. Init => TimingAccounted /\ NothingRequiredYet
    BY DEF Init, TimingAccounted, NothingRequiredYet, IsOpen, NoSegment
  <1>2. QED
    BY <1>1, TimingStep, TypeCorrect, PTL DEF Spec

\* A bill is made once and then stays what it is.
THEOREM BillFinal == Spec => BillIsFinal
  <1>1. MarketplaceInv /\ [Next]_vars => [payment # "none" => billed' = billed]_<<payment, billed>>
    BY BillStep DEF MarketplaceInv
  <1>2. QED
    BY <1>1, Invariance, PTL DEF Spec, BillIsFinal

-----------------------------------------------------------------------------
(* Holds are for ever *)

LEMMA HoldStays ==
  ASSUME TypeOK, hold, [Next]_vars PROVE hold'
  <1> USE DEF TypeOK
  <1>1. CASE DispatchNext
    BY <1>1 DEF DispatchNext, AcceptJob, SearchExpires, CancelAndRematch,
      WorkerArrives, WorkerStarts, WorkerRequestsCompletion, WorkerCompletes,
      CustomerCancel, CustomerResume, WorkerDeleted
  <1>2. CASE WorkNext
    BY <1>2 DEF WorkNext, CreateRequirement, UpdateRequirementByCustomer,
      ConfirmRequirementByWorker, StartTimeSegment, RequestAdditionalWork,
      DeclineAdditionalWork, ApproveAdditionalWork, Lapse
  <1>3. CASE ReviewNext
    BY <1>3 DEF ReviewNext, ReportRemainingWork, CreateCase, CreateWorkerSafetyCase,
      ConfirmCompletion, PlaceHold
  <1>4. CASE PaymentNext
    BY <1>4 DEF PaymentNext, CreatePaymentAttempt, ReconcileSuccess, ReconcileFailure,
      SubmitRating
  <1>5. CASE UNCHANGED vars
    BY <1>5 DEF vars
  <1>6. QED
    BY <1>1, <1>2, <1>3, <1>4, <1>5 DEF Next

\* A job that is under review before it is billed is never billed.
THEOREM HeldNeverBilled == Spec => HeldBeforeBillIsNeverBilled
  <1>1. MarketplaceInv /\ [Next]_vars
          => [hold /\ payment = "none" => hold' /\ payment' = "none"]_vars
    BY BillStep, HoldStays DEF MarketplaceInv
  <1>2. QED
    BY <1>1, Invariance, PTL DEF Spec, HeldBeforeBillIsNeverBilled

LEMMA ReviewStep ==
  ASSUME TypeOK, hold, [Next]_vars PROVE Chargeable' <= Chargeable
  <1> DEFINE Pending == {a \in Attempt : attempt[a] = "pending"}
  <1> USE DEF TypeOK
  <1>f. /\ IsFiniteSet(Pending) /\ Cardinality(Pending) \in Nat
        /\ Chargeable = charges + Cardinality(Pending)
        /\ Chargeable' = charges' + Cardinality(Pending')
    BY MarketplaceAssumption, FS_Subset, FS_CardinalityType DEF Chargeable
  <1>u. ASSUME UNCHANGED <<attempt, charges>> PROVE Chargeable' <= Chargeable
    BY <1>f, <1>u
  <1>1. ASSUME NEW a \in Attempt, ReconcileSuccess(a) \/ ReconcileFailure(a)
        PROVE  Chargeable' <= Chargeable
    <2>1. /\ a \in Pending /\ Pending' = Pending \ {a}
          /\ charges' \in {charges, charges + 1}
      BY <1>1 DEF ReconcileSuccess, ReconcileFailure, Reconcilable
    <2> HIDE DEF Pending
    <2>2. Cardinality(Pending \ {a}) = Cardinality(Pending) - 1
      BY <1>f, <2>1, FS_RemoveElement
    <2>3. QED
      BY <1>f, <2>1, <2>2
  <1>2. ASSUME NEW a \in Attempt, CreatePaymentAttempt(a) PROVE FALSE
    BY <1>2 DEF CreatePaymentAttempt
  <1>3. DispatchNext \/ WorkNext \/ ReviewNext \/ SubmitRating \/ UNCHANGED vars
          => UNCHANGED <<attempt, charges>>
    BY AttemptsKept
  <1>4. QED
    BY <1>u, <1>1, <1>2, <1>3 DEF Next, PaymentNext

\* A job under review is charged for the attempts that were on their way, and for
\* nothing else, for any number of attempts.
THEOREM ReviewFixed == Spec => ReviewFixesCharges
  <1>1. TypeOK /\ [Next]_vars => [hold => hold' /\ Chargeable' <= Chargeable]_vars
    BY ReviewStep, HoldStays
  <1>2. QED
    BY <1>1, TypeCorrect, PTL DEF Spec, ReviewFixesCharges

-----------------------------------------------------------------------------
(* Marketplace implements JobLifecycle *)

LEMMA LifecycleStep == [Next]_vars => [Lifecycle!Next]_status
  <1> SUFFICES ASSUME [Next]_vars PROVE [Lifecycle!Next]_status
    OBVIOUS
  <1> USE DEF Lifecycle!Next, Lifecycle!Search, Lifecycle!Work, Lifecycle!Cancel
  <1>1. CASE DispatchNext
    BY <1>1 DEF DispatchNext, AcceptJob, SearchExpires, CancelAndRematch,
      WorkerArrives, WorkerStarts, WorkerRequestsCompletion, WorkerCompletes,
      CustomerCancel, CustomerResume, WorkerDeleted, Active
  <1>2. CASE WorkNext
    BY <1>2 DEF WorkNext, CreateRequirement, UpdateRequirementByCustomer,
      ConfirmRequirementByWorker, StartTimeSegment, RequestAdditionalWork,
      DeclineAdditionalWork, ApproveAdditionalWork, Lapse
  <1>3. CASE ReviewNext
    BY <1>3 DEF ReviewNext, ReportRemainingWork, CreateCase, CreateWorkerSafetyCase,
      ConfirmCompletion
  <1>4. CASE PaymentNext
    BY <1>4 DEF PaymentNext, CreatePaymentAttempt, ReconcileSuccess, ReconcileFailure,
      SubmitRating
  <1>5. CASE UNCHANGED vars
    BY <1>5 DEF vars
  <1>6. QED
    BY <1>1, <1>2, <1>3, <1>4, <1>5 DEF Next

\* The marketplace moves a job only along its life.
THEOREM LifecycleRefinement == Spec => ImplementsLifecycle
  <1>1. Init => Lifecycle!Init
    BY DEF Init, Lifecycle!Init
  <1>2. QED
    BY <1>1, LifecycleStep, PTL DEF Spec, ImplementsLifecycle, Lifecycle!Spec
=============================================================================
