------------------------- MODULE WorkerAccountProofs -------------------------
(***************************************************************************)
(* Proofs about WorkerAccount, for any number of accounts, documents,      *)
(* requests and deletion calls.                                            *)
(*                                                                         *)
(* AccountInv and what every call knows (CallInv) are inductive together;  *)
(* the requests a transaction resolves and the files rest on them.         *)
(***************************************************************************)
EXTENDS WorkerAccount, TLAPS

\* Up to its commit a call has an account; one that an administrator makes to
\* complete a request has the request; only these two go on to the login.
GoodCall(s) ==
    /\ s.phase # "idle" => s.by # "nobody"
    /\ s.phase \in {"checked", "deleting", "cleared"} => s.account \in Account
    /\ s.by = "request" => s.request \in Request
    /\ s.phase = "login" => s.by \in {"worker", "request"}
    /\ s.phase \in {"resolving", "deferring"} => s.by = "request"
    /\ s.phase = "cleared" => s.left = {}

CallInv == \A c \in Call : GoodCall(call[c])

\* What a transaction is to resolve is still pending at its commit.
ListedPending ==
    \A c \in Call : InTransaction(c) =>
        \A r \in call[c].listed : request[r] = "pending"

Lost(a, d) ==
    \/ document[a][d] \in Stored /\ <<document[a][d], a, d>> \notin file
    \/ <<a, d, "saved">> \in backfill /\ <<"firebase", a, d>> \notin file

\* The files of an enrollment are those its rows name, or copies the script made;
\* a deletion leaves only such copies.
FilesNamed ==
    \A p \in Stored, a \in Account, d \in Document : <<p, a, d>> \in file =>
        /\ account[a] # "unused"
        /\ account[a] \in Enrolled \cup {"enrolling"} =>
              <<a, d>> \in copied \/ p = document[a][d]
        /\ account[a] = "deleted" => <<a, d>> \in copied
        /\ \A c \in Call : call[c].phase = "cleared" /\ call[c].account = a =>
              <<a, d>> \in copied

RowsNamed ==
    \A a \in Account, d \in Document :
        /\ account[a] = "unused" => document[a][d] = "none"
        /\ <<a, d, "list">> \in backfill \/ <<a, d, "saved">> \in backfill =>
              account[a] \in Enrolled \cup {"deleted"}
        /\ <<a, d, "saved">> \in backfill => <<a, d>> \in copied

\* The call's transaction has removed files of the account, or its step does.
TakenFrom(c, a) == InTransaction(c) /\ call[c].account = a /\ call[c].left # Document

Removes(c, a, d) == call[c].account = a /\ (DeleteFile(c, d) \/ ClearPrefix(c))

\* A file that is missing was taken by a deletion that goes on, or had to stop.
FilesThere ==
    \A a \in Account, d \in Document :
        /\ account[a] = "enrolling" /\ document[a][d] \in Stored =>
              <<document[a][d], a, d>> \in file
        /\ IsEnrolled(a) /\ Lost(a, d) =>
              a \in harmed \/ \E c \in Call : TakenFrom(c, a)

FileInv == FilesNamed /\ RowsNamed /\ FilesThere

WorkerAccountInv ==
    /\ AccountInv /\ CallInv /\ ListedPending /\ FileInv
    /\ CleanupTracked

-----------------------------------------------------------------------------

LEMMA InitWorkerAccount == Init => WorkerAccountInv
  <1> SUFFICES ASSUME Init PROVE WorkerAccountInv
    OBVIOUS
  <1>1. Idle \in CallState
    BY DEF Idle, CallState, Phase
  <1>2. TypeOK
    BY <1>1 DEF Init, TypeOK, Stored, Enrolled, AccountStatus, Provider, RequestStatus
  <1>3. AccountInv
    BY <1>2 DEF Init, AccountInv, InTransaction, Idle, Enrolled
  <1>4. CallInv /\ ListedPending
    BY DEF Init, CallInv, GoodCall, ListedPending, InTransaction, Idle
  <1>5. FileInv
    BY DEF Init, FileInv, FilesNamed, RowsNamed, FilesThere, Lost, TakenFrom,
       IsEnrolled, Enrolled, Stored
  <1>6. CleanupTracked
    BY DEF Init, CleanupTracked
  <1>7. QED
    BY <1>3, <1>4, <1>5, <1>6 DEF WorkerAccountInv

-----------------------------------------------------------------------------
LEMMA TypeStep ==
  ASSUME TypeOK, CallInv, [Next]_vars
  PROVE  TypeOK'
  <1> USE AccountAssumption
  <1>1. Idle \in CallState
    BY DEF Idle, CallState, Phase
  <1>2. ASSUME EnrollmentNext PROVE TypeOK'
    <2>1. CASE VerifyPhone
      BY <2>1 DEF VerifyPhone, TypeOK, documents, jobs, history
    <2>2. ASSUME NEW a \in Account, BeginEnrollment(a) \/ CommitEnrollment(a)
          PROVE  TypeOK'
      BY <2>2 DEF BeginEnrollment, CommitEnrollment, TypeOK, AccountStatus, Enrolled,
         documents, jobs, history, logins
    <2>3. ASSUME NEW a \in Account, EnrollmentFails(a) PROVE TypeOK'
      BY <2>3 DEF EnrollmentFails, TypeOK, AccountStatus, jobs, history, logins
    <2>4. ASSUME NEW a \in Account, NEW d \in Document, SaveDocument(a, d) PROVE TypeOK'
      BY <2>4 DEF SaveDocument, TypeOK, Provider, Stored, jobs, history, logins
    <2>5. QED
      BY <1>2, <2>1, <2>2, <2>3, <2>4 DEF EnrollmentNext
  <1>3. ASSUME WorkNext PROVE TypeOK'
    <2>1. ASSUME NEW a \in Account, NEW decision \in Decision,
                 Approve(a) \/ SimulateKyc(a, decision)
          PROVE  TypeOK'
      BY <2>1 DEF Approve, SimulateKyc, TypeOK, AccountStatus, Enrolled, StatusAfter,
         Announcement, documents, jobs, history, logins
    <2>2. ASSUME NEW a \in Account, AcceptJob(a) \/ RecordOfWork(a) PROVE TypeOK'
      BY <2>2 DEF AcceptJob, RecordOfWork, TypeOK, documents, history, logins
    <2>3. CASE JobEnds
      BY <2>3 DEF JobEnds, TypeOK, documents, history, logins
    <2>4. ASSUME NEW a \in Account, Approve(a) PROVE TypeOK'
      BY <2>4 DEF Approve, TypeOK, AccountStatus, Enrolled, Announcement, documents, jobs,
         history, logins
    <2>5. QED
      BY <1>3, <2>1, <2>2, <2>3, <2>4 DEF WorkNext
  <1>4. ASSUME NEW c \in Call, NEW kind \in {"worker", "admin", "request"},
               NEW phase \in Phase, NEW a \in Account \cup {NoAccount},
               NEW r \in Request \cup {NoRequest}, Start(c, kind, phase, a, r)
        PROVE  TypeOK'
    <2>1. [Idle EXCEPT !.phase = phase, !.by = kind, !.account = a, !.request = r,
                       !.owner = (kind = "worker")] \in CallState
      BY DEF Idle, CallState
    <2>2. QED
      BY <1>4, <2>1 DEF Start, TypeOK, documents, jobs, history, logins
  <1>5. ASSUME NEW c \in Call, NEW a \in Account, DeleteMe(c, a) \/ DeleteByAdmin(c, a)
        PROVE  TypeOK'
    BY <1>4, <1>5 DEF DeleteMe, DeleteByAdmin, Phase
  <1>6. ASSUME NEW c \in Call, NEW r \in Request, CompleteRequest(c, r) PROVE TypeOK'
    BY <1>4, <1>6 DEF CompleteRequest, Phase
  <1>7. ASSUME NEW r \in Request, RecordDeletionRequest(r) PROVE TypeOK'
    BY <1>7 DEF RecordDeletionRequest, TypeOK, RequestStatus, documents, jobs, history,
       logins
  <1>8. ASSUME NEW c \in Call, CallStep(c) PROVE TypeOK'
    <2>1. call[c] \in CallState
      BY DEF TypeOK
    <2>2. Refused(c) => call' \in [Call -> CallState]
      BY <1>1 DEF Refused, TypeOK
    <2>3. CASE DeletionRefused(c)
      BY <2>2, <2>3 DEF DeletionRefused, TypeOK, documents, jobs, history, logins
    <2>4. CASE BeginDeletion(c)
      BY <2>1, <2>4 DEF BeginDeletion, TypeOK, CallState, Phase, documents, jobs, history,
         logins
    <2>5. ASSUME NEW d \in Document, DeleteFile(c, d) PROVE TypeOK'
      BY <2>1, <2>5 DEF DeleteFile, TypeOK, CallState, documents, jobs, history, logins
    <2>6. CASE UndeletableDocument(c)
      BY <2>1, <2>2, <2>6 DEF UndeletableDocument, CallInv, GoodCall, TypeOK, documents,
         jobs, history, logins
    <2>7. CASE ClearPrefix(c)
      BY <2>1, <2>7 DEF ClearPrefix, TypeOK, CallState, Phase, jobs, history, logins
    <2>8. CASE CommitDeletion(c)
      <3>1. call' \in [Call -> CallState]
        <4>1. ASSUME call' = [call EXCEPT ![c].phase = "login", ![c].listed = {}]
              PROVE  call' \in [Call -> CallState]
          BY <2>1, <4>1 DEF TypeOK, CallState, Phase
        <4>2. QED
          BY <2>2, <2>8, <4>1 DEF CommitDeletion
      <3>2. owed' \in BOOLEAN /\ request' \in [Request -> RequestStatus]
        BY <2>8 DEF CommitDeletion, TypeOK, RequestStatus
      <3>3. QED
        BY <2>8, <3>1, <3>2 DEF CommitDeletion, TypeOK, AccountStatus, history
    <2>9. CASE DeleteLogin(c)
      <3>1. \A b \in Call : call[b] \in CallState
        BY DEF TypeOK
      <3>2. \A b \in Call : [call[b] EXCEPT !.owner = FALSE] \in CallState
        BY <3>1 DEF CallState
      <3>3. [call[c] EXCEPT !.phase = "resolving"] \in CallState
        BY <2>1 DEF CallState, Phase
      <3>4. \A b \in Call :
               (IF b # c THEN [call[b] EXCEPT !.owner = FALSE]
                ELSE IF call[c].by = "worker" THEN Idle
                ELSE [call[c] EXCEPT !.phase = "resolving"]) \in CallState
        BY <1>1, <3>2, <3>3
      <3>5. call' \in [Call -> CallState]
        BY <2>9, <3>4 DEF DeleteLogin
      <3>6. QED
        BY <2>9, <3>5 DEF DeleteLogin, TypeOK, documents, jobs, history
    <2>10. CASE CloseRequest(c)
      BY <2>2, <2>10 DEF CloseRequest, TypeOK, RequestStatus, documents, jobs, history
    <2>11. QED
      BY <1>8, <2>3, <2>4, <2>5, <2>6, <2>7, <2>8, <2>9, <2>10 DEF CallStep
  <1>9. ASSUME NEW c \in Call, CallFails(c) PROVE TypeOK'
    <2>1. Refused(c) => call' \in [Call -> CallState]
      BY <1>1 DEF Refused, TypeOK
    <2>2. CASE DeletionFails(c)
      BY <2>1, <2>2 DEF DeletionFails, InTransaction, CallInv, GoodCall, TypeOK,
         documents, jobs, history, logins
    <2>3. CASE LoginFails(c)
      <3>1. call' \in [Call -> CallState]
        <4>1. ASSUME call' = [call EXCEPT ![c].phase = "deferring"]
              PROVE  call' \in [Call -> CallState]
          <5>1. call[c] \in CallState
            BY DEF TypeOK
          <5>2. QED
            BY <4>1, <5>1 DEF TypeOK, CallState, Phase
        <4>2. QED
          BY <2>1, <2>3, <4>1 DEF LoginFails
      <3>2. request' \in [Request -> RequestStatus]
        BY <2>3 DEF LoginFails, TypeOK, RequestStatus
      <3>3. QED
        BY <2>3, <3>1, <3>2 DEF LoginFails, TypeOK, documents, jobs, history, logins
    <2>4. CASE Crash(c)
      BY <2>1, <2>4 DEF Crash, TypeOK, documents, jobs, history
    <2>5. QED
      BY <1>9, <2>2, <2>3, <2>4 DEF CallFails
  <1>10. ASSUME BackfillNext PROVE TypeOK'
    <2>1. CASE UseFirebase
      BY <2>1 DEF UseFirebase, TypeOK, Stored, documents, jobs, history, logins
    <2>2. CASE ListDocuments
      BY <2>2 DEF ListDocuments, TypeOK, documents, jobs, history, logins
    <2>3. CASE BackfillFails
      BY <2>3 DEF BackfillFails, TypeOK, documents, jobs, history, logins
    <2>4. ASSUME NEW a \in Account, NEW d \in Document, CopyDocument(a, d) PROVE TypeOK'
      BY <2>4 DEF CopyDocument, TypeOK, Stored, jobs, logins
    <2>5. ASSUME NEW a \in Account, NEW d \in Document, MoveDocument(a, d) PROVE TypeOK'
      BY <2>5 DEF MoveDocument, TypeOK, Provider, Stored, jobs, history, logins
    <2>6. QED
      BY <1>10, <2>1, <2>2, <2>3, <2>4, <2>5 DEF BackfillNext
  <1>11. CASE UNCHANGED vars
    BY <1>11 DEF vars, TypeOK, documents, jobs, history, logins
  <1>12. QED
    BY <1>2, <1>3, <1>5, <1>6, <1>7, <1>8, <1>9, <1>10, <1>11 DEF Next, DeletionNext

-----------------------------------------------------------------------------
\* What a call becomes.
LEMMA CallUpdates ==
  ASSUME NEW s \in CallState, GoodCall(s)
  PROVE  /\ GoodCall(Idle) /\ GoodCall([s EXCEPT !.owner = FALSE])
         /\ s.phase = "checked" => \A left, listed :
               GoodCall([s EXCEPT !.phase = "deleting", !.left = left, !.listed = listed])
         /\ s.phase = "deleting" => \A left : GoodCall([s EXCEPT !.left = left])
         /\ s.phase = "deleting" /\ s.left = {} => GoodCall([s EXCEPT !.phase = "cleared"])
         /\ s.phase = "cleared" /\ s.by \in {"worker", "request"} =>
               GoodCall([s EXCEPT !.phase = "login", !.listed = {}])
         /\ s.phase = "login" /\ s.by = "request" =>
               /\ GoodCall([s EXCEPT !.phase = "resolving"])
               /\ GoodCall([s EXCEPT !.phase = "deferring"])
  <1>1. s = [phase |-> s.phase, by |-> s.by, account |-> s.account, request |-> s.request,
             left |-> s.left, listed |-> s.listed, owner |-> s.owner]
    BY DEF CallState
  <1>2. GoodCall(Idle)
    BY DEF GoodCall, Idle
  <1>3. GoodCall([s EXCEPT !.owner = FALSE])
    BY <1>1 DEF GoodCall
  <1>4. ASSUME s.phase = "checked", NEW left, NEW listed
        PROVE  GoodCall([s EXCEPT !.phase = "deleting", !.left = left, !.listed = listed])
    BY <1>1, <1>4 DEF GoodCall
  <1>5. ASSUME s.phase = "deleting", NEW left PROVE GoodCall([s EXCEPT !.left = left])
    BY <1>1, <1>5 DEF GoodCall
  <1>6. ASSUME s.phase = "deleting", s.left = {}
        PROVE  GoodCall([s EXCEPT !.phase = "cleared"])
    BY <1>1, <1>6 DEF GoodCall
  <1>7. ASSUME s.phase = "cleared", s.by \in {"worker", "request"}
        PROVE  GoodCall([s EXCEPT !.phase = "login", !.listed = {}])
    BY <1>1, <1>7 DEF GoodCall
  <1>8. ASSUME s.phase = "login", s.by = "request"
        PROVE  /\ GoodCall([s EXCEPT !.phase = "resolving"])
               /\ GoodCall([s EXCEPT !.phase = "deferring"])
    BY <1>1, <1>8 DEF GoodCall
  <1>9. QED
    BY <1>2, <1>3, <1>4, <1>5, <1>6, <1>7, <1>8

LEMMA CallInvStep ==
  ASSUME TypeOK, CallInv, [Next]_vars
  PROVE  CallInv'
  <1>1. \A b \in Call : call[b] \in CallState /\ GoodCall(call[b])
    BY DEF TypeOK, CallInv
  <1>2. CASE UNCHANGED call
    BY <1>2 DEF CallInv
  <1>3. ASSUME NEW c \in Call, NEW s, GoodCall(s), call' = [call EXCEPT ![c] = s]
        PROVE  CallInv'
    BY <1>3 DEF CallInv, TypeOK
  <1>4. ASSUME NEW c \in Call, Refused(c) PROVE CallInv'
    <2>1. GoodCall(Idle)
      BY DEF GoodCall, Idle
    <2>2. QED
      BY <1>3, <1>4, <2>1 DEF Refused
  <1>5. ASSUME NEW c \in Call, NEW kind, NEW phase, NEW a, NEW r,
               Start(c, kind, phase, a, r), kind # "nobody",
               \/ phase = "checked" /\ a \in Account /\ (kind = "request" => r \in Request)
               \/ phase = "login" /\ kind = "request" /\ r \in Request
        PROVE  CallInv'
    <2> DEFINE s == [Idle EXCEPT !.phase = phase, !.by = kind, !.account = a, !.request = r,
                                 !.owner = (kind = "worker")]
    <2>1. GoodCall(s)
      BY <1>5 DEF GoodCall, Idle
    <2>2. call' = [call EXCEPT ![c] = s]
      BY <1>5 DEF Start
    <2> HIDE DEF s
    <2>3. QED
      BY <1>3, <2>1, <2>2
  <1>6. ASSUME NEW c \in Call, NEW a \in Account, DeleteMe(c, a) \/ DeleteByAdmin(c, a)
        PROVE  CallInv'
    BY <1>5, <1>6 DEF DeleteMe, DeleteByAdmin
  <1>7. ASSUME NEW c \in Call, NEW r \in Request, CompleteRequest(c, r) PROVE CallInv'
    BY <1>5, <1>7 DEF CompleteRequest
  <1>8. ASSUME NEW c \in Call, CallStep(c) PROVE CallInv'
    <2>1. CASE BeginDeletion(c)
      <3> DEFINE pending == {r \in Request : request[r] = "pending"}
      <3>1. /\ call[c].phase = "checked"
            /\ call' = [call EXCEPT ![c] = [call[c] EXCEPT !.phase = "deleting",
                           !.left = Document, !.listed = pending]]
        BY <2>1 DEF BeginDeletion
      <3> HIDE DEF pending
      <3>2. GoodCall([call[c] EXCEPT !.phase = "deleting", !.left = Document,
                                     !.listed = pending])
        BY <1>1, <3>1, CallUpdates
      <3>3. QED
        BY <1>3, <3>1, <3>2
    <2>2. ASSUME NEW d \in Document, DeleteFile(c, d) PROVE CallInv'
      <3>1. /\ call[c].phase = "deleting"
            /\ call' = [call EXCEPT ![c] = [call[c] EXCEPT !.left = call[c].left \ {d}]]
        BY <2>2 DEF DeleteFile
      <3>2. GoodCall([call[c] EXCEPT !.left = call[c].left \ {d}])
        BY <1>1, <3>1, CallUpdates
      <3>3. QED
        BY <1>3, <3>1, <3>2
    <2>3. CASE ClearPrefix(c)
      <3>1. call' = [call EXCEPT ![c] = [call[c] EXCEPT !.phase = "cleared"]]
        BY <2>3 DEF ClearPrefix
      <3>2. QED
        BY <1>1, <1>3, <2>3, <3>1, CallUpdates DEF ClearPrefix
    <2>4. CASE CommitDeletion(c)
      <3>1. CASE call[c].by = "admin"
        BY <1>4, <2>4, <3>1 DEF CommitDeletion
      <3>2. CASE call[c].by # "admin"
        <4>1. call' = [call EXCEPT ![c] = [call[c] EXCEPT !.phase = "login", !.listed = {}]]
          BY <2>4, <3>2 DEF CommitDeletion
        <4>2. call[c].phase = "cleared" /\ call[c].by \in {"worker", "request"}
          BY <1>1, <2>4, <3>2 DEF CallState, CommitDeletion, GoodCall
        <4>3. GoodCall([call[c] EXCEPT !.phase = "login", !.listed = {}])
          BY <1>1, <4>2, CallUpdates
        <4>4. QED
          BY <1>3, <4>1, <4>3
      <3>3. QED
        BY <3>1, <3>2
    <2>5. CASE DeleteLogin(c)
      <3>1. \A b \in Call : call'[b] = IF b # c THEN [call[b] EXCEPT !.owner = FALSE]
                                      ELSE IF call[c].by = "worker" THEN Idle
                                      ELSE [call[c] EXCEPT !.phase = "resolving"]
        BY <2>5 DEF DeleteLogin
      <3>2. \A b \in Call : GoodCall([call[b] EXCEPT !.owner = FALSE])
        BY <1>1, CallUpdates
      <3>3. call[c].by # "worker" => call[c].by = "request"
        BY <1>1, <2>5 DEF DeleteLogin, GoodCall
      <3>4. GoodCall(Idle)
            /\ (call[c].by # "worker" => GoodCall([call[c] EXCEPT !.phase = "resolving"]))
        BY <1>1, <2>5, <3>3, CallUpdates DEF DeleteLogin
      <3>5. QED
        BY <3>1, <3>2, <3>4 DEF CallInv
    <2>6. QED
      BY <1>4, <1>8, <2>1, <2>2, <2>3, <2>4, <2>5
         DEF CallStep, DeletionRefused, UndeletableDocument, CloseRequest
  <1>9. ASSUME NEW c \in Call, CallFails(c) PROVE CallInv'
    <2>1. ASSUME LoginFails(c), call[c].by = "request" PROVE CallInv'
      <3>1. call' = [call EXCEPT ![c] = [call[c] EXCEPT !.phase = "deferring"]]
        BY <2>1 DEF LoginFails
      <3>2. QED
        BY <1>1, <1>3, <2>1, <3>1, CallUpdates DEF LoginFails
    <2>2. QED
      BY <1>4, <1>9, <2>1 DEF CallFails, DeletionFails, LoginFails, Crash
  <1>10. EnrollmentNext \/ WorkNext \/ BackfillNext => UNCHANGED call
    BY DEF EnrollmentNext, VerifyPhone, BeginEnrollment, CommitEnrollment, EnrollmentFails,
           SaveDocument, WorkNext, Approve, SimulateKyc, AcceptJob, RecordOfWork, JobEnds,
           BackfillNext, UseFirebase, ListDocuments, BackfillFails, CopyDocument,
           MoveDocument
  <1>11. QED
    BY <1>2, <1>6, <1>7, <1>8, <1>9, <1>10
       DEF Next, DeletionNext, RecordDeletionRequest, vars

-----------------------------------------------------------------------------
\* The account of a transaction is enrolled, and at most one is: at most one
\* transaction goes on at a time.
LEMMA OneTransaction ==
  ASSUME AccountInv, CallInv
  PROVE  \A b, c \in Call : InTransaction(b) /\ InTransaction(c) => b = c
  <1> SUFFICES ASSUME NEW b \in Call, NEW c \in Call, InTransaction(b), InTransaction(c)
               PROVE  b = c
    OBVIOUS
  <1>1. IsEnrolled(call[b].account) /\ IsEnrolled(call[c].account)
    BY DEF AccountInv
  <1>2. call[b].account \in Account /\ call[c].account \in Account
    BY DEF CallInv, GoodCall, InTransaction
  <1>3. call[b].account = call[c].account
    BY <1>1, <1>2 DEF AccountInv, IsEnrolled
  <1>4. QED
    BY <1>3 DEF AccountInv

LEMMA AccountStep ==
  ASSUME AccountInv, CallInv, [Next]_vars
  PROVE  AccountInv'
  <1> USE AccountAssumption
  <1> DEFINE Open == Enrolled \cup {"enrolling"}
             OneOpen == \A a, b \in Account :
                           account[a] \in Open /\ account[b] \in Open => a = b
             Kept == \A c \in Call : InTransaction(c)' =>
                        InTransaction(c) /\ call'[c].account = call[c].account
  <1>1. TypeOK' /\ TypeOK /\ OneOpen
    BY TypeStep DEF AccountInv
  <1>2. \A c \in Call : call[c] \in CallState
    BY <1>1 DEF TypeOK
  <1>3. ASSUME Kept, OneOpen', owed' => login' /\ reset',
               \A a \in Account : Locked(a)' /\ IsEnrolled(a) => IsEnrolled(a)'
        PROVE  AccountInv'
    <2>1. \A c \in Call : InTransaction(c)' => IsEnrolled(call[c].account)'
      <3> SUFFICES ASSUME NEW c \in Call, InTransaction(c)'
                   PROVE  IsEnrolled(call[c].account)'
        OBVIOUS
      <3>1. InTransaction(c) /\ call'[c].account = call[c].account
        BY <1>3
      <3>2. IsEnrolled(call[c].account) /\ call[c].account \in Account
        BY <3>1 DEF AccountInv, CallInv, GoodCall, InTransaction
      <3>3. Locked(call[c].account)'
        BY <3>1 DEF Locked
      <3>4. QED
        BY <1>3, <3>1, <3>2, <3>3
    <2>2. QED
      BY <1>1, <1>3, <2>1 DEF AccountInv
  <1>4. ASSUME UNCHANGED call PROVE Kept /\ \A a \in Account : Locked(a)' => Locked(a)
    BY <1>4 DEF InTransaction, Locked
  <1>5. ASSUME NEW c \in Call, Refused(c) PROVE Kept
    BY <1>1, <1>5 DEF Refused, Idle, InTransaction, TypeOK
  <1>6. CASE EnrollmentNext
    <2>1. UNCHANGED call
      BY <1>6 DEF EnrollmentNext, VerifyPhone, BeginEnrollment, CommitEnrollment,
         EnrollmentFails, SaveDocument
    <2>2. \A a \in Account : IsEnrolled(a) => account'[a] = account[a]
      BY <1>1, <1>6 DEF EnrollmentNext, VerifyPhone, BeginEnrollment, CommitEnrollment,
         EnrollmentFails, SaveDocument, TypeOK, IsEnrolled, Enrolled
    <2>3. OneOpen'
      <3>1. CASE VerifyPhone \/ \E a \in Account, d \in Document : SaveDocument(a, d)
        BY <1>1, <3>1 DEF VerifyPhone, SaveDocument
      <3>2. ASSUME NEW a \in Account, BeginEnrollment(a) PROVE OneOpen'
        BY <1>1, <3>2 DEF BeginEnrollment, TypeOK
      <3>3. ASSUME NEW a \in Account, CommitEnrollment(a) \/ EnrollmentFails(a)
            PROVE  OneOpen'
        BY <1>1, <3>3 DEF CommitEnrollment, EnrollmentFails, TypeOK, Enrolled
      <3>4. QED
        BY <1>6, <3>1, <3>2, <3>3 DEF EnrollmentNext
    <2>4. owed' => login' /\ reset'
      BY <1>6 DEF EnrollmentNext, VerifyPhone, BeginEnrollment, CommitEnrollment,
         EnrollmentFails, SaveDocument, logins, AccountInv
    <2>5. QED
      BY <1>3, <1>4, <2>1, <2>2, <2>3, <2>4 DEF IsEnrolled
  <1>7. CASE WorkNext
    <2>1. UNCHANGED <<call, logins, reset>>
      BY <1>7 DEF WorkNext, Approve, SimulateKyc, AcceptJob, RecordOfWork, JobEnds
    <2>2. /\ \A a \in Account : IsEnrolled(a) => IsEnrolled(a)'
          /\ \A a \in Account : account'[a] \in Open => account[a] \in Open
      <3>1. ASSUME NEW a \in Account, NEW decision \in Decision, SimulateKyc(a, decision)
            PROVE  \A b \in Account : account'[b] = IF b = a THEN StatusAfter(decision)
                                                   ELSE account[b]
        BY <1>1, <3>1 DEF SimulateKyc, TypeOK
      <3>2. \A decision \in Decision : StatusAfter(decision) \in Enrolled
        BY DEF StatusAfter, Enrolled
      <3>3. ASSUME NEW a \in Account, Approve(a)
            PROVE  \A b \in Account : account'[b] = IF b = a THEN "verified" ELSE account[b]
        BY <1>1, <3>3 DEF Approve, TypeOK
      <3>4. CASE \E a \in Account : \/ Approve(a)
                                    \/ \E decision \in Decision : SimulateKyc(a, decision)
        <4>1. PICK a \in Account : \/ Approve(a)
                                  \/ \E decision \in Decision : SimulateKyc(a, decision)
          BY <3>4
        <4>2. IsEnrolled(a)
          BY <4>1 DEF Approve, SimulateKyc
        <4>3. \A b \in Account : b # a => account'[b] = account[b]
          BY <3>1, <3>3, <4>1
        <4>4. account'[a] \in Enrolled
          BY <3>1, <3>2, <3>3, <4>1 DEF Enrolled
        <4>5. QED
          BY <4>2, <4>3, <4>4 DEF IsEnrolled
      <3>5. CASE UNCHANGED account
        BY <3>5 DEF IsEnrolled
      <3>6. QED
        BY <1>7, <3>4, <3>5 DEF WorkNext, AcceptJob, RecordOfWork, JobEnds
    <2>3. OneOpen'
      BY <1>1, <2>2
    <2>4. Kept /\ (owed' => login' /\ reset')
      BY <1>4, <2>1 DEF logins, AccountInv
    <2>5. QED
      BY <1>3, <2>2, <2>3, <2>4
  <1>8. CASE BackfillNext \/ \E r \in Request : RecordDeletionRequest(r)
    <2>1. UNCHANGED <<account, call, logins, reset>>
      BY <1>8 DEF BackfillNext, UseFirebase, ListDocuments, BackfillFails, CopyDocument,
         MoveDocument, RecordDeletionRequest
    <2>2. QED
      BY <1>1, <1>3, <1>4, <2>1 DEF logins, AccountInv, IsEnrolled
  <1>9. ASSUME NEW c \in Call, NEW kind, NEW phase \in {"checked", "login"}, NEW a, NEW r,
               Start(c, kind, phase, a, r)
        PROVE  AccountInv'
    <2>1. UNCHANGED <<account, logins, reset>> /\ Kept
      BY <1>1, <1>9 DEF Start, Idle, InTransaction, TypeOK
    <2>2. QED
      BY <1>1, <1>3, <2>1 DEF logins, AccountInv, IsEnrolled
  <1>10. ASSUME NEW c \in Call, NEW a \in Account, DeleteMe(c, a) \/ DeleteByAdmin(c, a)
         PROVE  AccountInv'
    BY <1>9, <1>10 DEF DeleteMe, DeleteByAdmin
  <1>11. ASSUME NEW c \in Call, NEW r \in Request, CompleteRequest(c, r) PROVE AccountInv'
    BY <1>9, <1>11 DEF CompleteRequest
  <1>12. ASSUME NEW c \in Call, BeginDeletion(c) PROVE AccountInv'
    <2>1. /\ call[c].phase = "checked" /\ ~Locked(call[c].account)
          /\ IsEnrolled(call[c].account) /\ UNCHANGED <<account, logins, reset>>
          /\ \A b \in Call : b # c => call'[b] = call[b]
          /\ call'[c].account = call[c].account
      BY <1>1, <1>2, <1>12 DEF BeginDeletion, TypeOK, CallState
    <2>2. \A b \in Call : b # c /\ InTransaction(b) => call[b].account # call[c].account
      BY <2>1 DEF Locked
    <2>3. QED
      BY <1>1, <2>1, <2>2 DEF AccountInv, InTransaction, IsEnrolled, logins
  <1>13. ASSUME NEW c \in Call, NEW d \in Document, DeleteFile(c, d) PROVE AccountInv'
    <2>1. UNCHANGED <<account, logins, reset>> /\ Kept
      BY <1>1, <1>2, <1>13 DEF DeleteFile, TypeOK, CallState, InTransaction
    <2>2. QED
      BY <1>1, <1>3, <2>1 DEF logins, AccountInv, IsEnrolled
  <1>14. ASSUME NEW c \in Call, ClearPrefix(c) PROVE AccountInv'
    <2>1. UNCHANGED <<account, logins, reset>> /\ Kept
      BY <1>1, <1>2, <1>14 DEF ClearPrefix, TypeOK, CallState, InTransaction
    <2>2. QED
      BY <1>1, <1>3, <2>1 DEF logins, AccountInv, IsEnrolled
  <1>15. ASSUME NEW c \in Call, CommitDeletion(c) PROVE AccountInv'
    <2>1. /\ InTransaction(c) /\ ~InTransaction(c)'
          /\ \A b \in Call : b # c => call'[b] = call[b]
      BY <1>1, <1>2, <1>15 DEF CommitDeletion, Refused, Idle, TypeOK, CallState,
         InTransaction
    <2>2. Kept /\ \A a \in Account : ~Locked(a)'
      BY <2>1, OneTransaction DEF Locked, InTransaction
    <2>3. OneOpen'
      BY <1>1, <1>15 DEF CommitDeletion, TypeOK, Enrolled
    <2>4. owed' => login' /\ reset'
      BY <1>15 DEF CommitDeletion, AccountInv
    <2>5. QED
      BY <1>3, <2>2, <2>3, <2>4
  <1>16. ASSUME NEW c \in Call, DeleteLogin(c) PROVE AccountInv'
    <2>1. \A b \in Call : b # c =>
             call'[b].phase = call[b].phase /\ call'[b].account = call[b].account
      BY <1>2, <1>16 DEF DeleteLogin, CallState
    <2>2. ~InTransaction(c)'
      BY <1>2, <1>16 DEF DeleteLogin, CallState, InTransaction, Idle
    <2>3. Kept
      BY <2>1, <2>2 DEF InTransaction
    <2>4. UNCHANGED account /\ ~owed'
      BY <1>16 DEF DeleteLogin
    <2>5. QED
      BY <1>1, <1>3, <2>3, <2>4 DEF IsEnrolled
  <1>17. ASSUME NEW c \in Call, LoginFails(c) PROVE AccountInv'
    <2>1. UNCHANGED <<account, logins, reset>> /\ Kept
      BY <1>1, <1>2, <1>5, <1>17 DEF LoginFails, TypeOK, CallState, InTransaction
    <2>2. QED
      BY <1>1, <1>3, <2>1 DEF logins, AccountInv, IsEnrolled
  <1>18. ASSUME NEW c \in Call,
                DeletionRefused(c) \/ UndeletableDocument(c) \/ CloseRequest(c)
                  \/ DeletionFails(c) \/ Crash(c)
         PROVE  AccountInv'
    <2>1. UNCHANGED <<account, owed, login, reset>> /\ Kept
      BY <1>5, <1>18 DEF DeletionRefused, UndeletableDocument, CloseRequest, DeletionFails,
         Crash, logins
    <2>2. QED
      BY <1>1, <1>3, <2>1 DEF AccountInv, IsEnrolled
  <1>19. CASE UNCHANGED vars
    BY <1>1, <1>3, <1>4, <1>19 DEF vars, logins, AccountInv, IsEnrolled
  <1>20. QED
    BY <1>6, <1>7, <1>8, <1>10, <1>11, <1>12, <1>13, <1>14, <1>15, <1>16, <1>17, <1>18,
       <1>19
       DEF Next, DeletionNext, CallStep, CallFails

-----------------------------------------------------------------------------
\* What a transaction resolves stays pending, since nobody else can close it.
LEMMA ListedStep ==
  ASSUME AccountInv, CallInv, ListedPending, [Next]_vars
  PROVE  ListedPending'
  <1>1. TypeOK /\ \A c \in Call : call[c] \in CallState /\ call[c].listed \subseteq Request
    BY DEF AccountInv, TypeOK, CallState
  <1>2. ASSUME \A r \in Request : request[r] = "pending" => request'[r] = "pending",
               \A c \in Call : InTransaction(c)' =>
                  InTransaction(c) /\ call'[c].listed = call[c].listed
        PROVE  ListedPending'
    BY <1>1, <1>2 DEF ListedPending
  <1>3. CASE UNCHANGED <<request, call>>
    BY <1>3 DEF ListedPending, InTransaction
  <1>4. ASSUME NEW c \in Call, Refused(c)
        PROVE  \A b \in Call : InTransaction(b)' =>
                  b # c /\ InTransaction(b) /\ call'[b].listed = call[b].listed
    BY <1>1, <1>4 DEF Refused, Idle, InTransaction, TypeOK
  <1>5. CASE \E r \in Request : RecordDeletionRequest(r)
    BY <1>1, <1>2, <1>5 DEF RecordDeletionRequest, TypeOK, InTransaction
  <1>6. ASSUME NEW c \in Call, NEW kind, NEW phase \in {"checked", "login"}, NEW a, NEW r,
               Start(c, kind, phase, a, r)
        PROVE  ListedPending'
    BY <1>1, <1>2, <1>6 DEF Start, Idle, InTransaction, TypeOK
  <1>7. CASE \E c \in Call, a \in Account : DeleteMe(c, a) \/ DeleteByAdmin(c, a)
    BY <1>6, <1>7 DEF DeleteMe, DeleteByAdmin
  <1>8. CASE \E c \in Call, r \in Request : CompleteRequest(c, r)
    BY <1>6, <1>8 DEF CompleteRequest
  <1>9. ASSUME NEW c \in Call, BeginDeletion(c) PROVE ListedPending'
    <2>1. /\ \A b \in Call : b # c => call'[b] = call[b]
          /\ call'[c].listed = {r \in Request : request[r] = "pending"}
          /\ UNCHANGED request
      BY <1>1, <1>9 DEF BeginDeletion, TypeOK, CallState
    <2>2. QED
      BY <2>1 DEF ListedPending, InTransaction
  <1>10. ASSUME NEW c \in Call,
                ClearPrefix(c) \/ \E d \in Document : DeleteFile(c, d)
         PROVE  ListedPending'
    BY <1>1, <1>2, <1>10 DEF ClearPrefix, DeleteFile, TypeOK, CallState, InTransaction
  <1>11. ASSUME NEW c \in Call, CommitDeletion(c) PROVE ListedPending'
    <2>1. /\ InTransaction(c) /\ ~InTransaction(c)'
          /\ \A b \in Call : b # c => call'[b] = call[b]
      BY <1>1, <1>11 DEF CommitDeletion, Refused, Idle, TypeOK, CallState, InTransaction
    <2>2. \A b \in Call : ~InTransaction(b)'
      BY <2>1, OneTransaction DEF InTransaction
    <2>3. QED
      BY <2>2 DEF ListedPending
  <1>12. ASSUME NEW c \in Call, DeleteLogin(c) PROVE ListedPending'
    <2>1. \A b \in Call : b # c =>
             call'[b].phase = call[b].phase /\ call'[b].listed = call[b].listed
      BY <1>1, <1>12 DEF DeleteLogin, CallState
    <2>2. ~InTransaction(c)' /\ UNCHANGED request
      BY <1>1, <1>12 DEF DeleteLogin, CallState, InTransaction, Idle
    <2>3. QED
      BY <1>2, <2>1, <2>2 DEF InTransaction
  <1>13. ASSUME NEW c \in Call, LoginFails(c) PROVE ListedPending'
    <2>1. \A r \in Request : request[r] = "pending" => request'[r] = "pending"
      BY <1>1, <1>13 DEF LoginFails, TypeOK
    <2>2. \A b \in Call : InTransaction(b)' =>
             InTransaction(b) /\ call'[b].listed = call[b].listed
      BY <1>1, <1>4, <1>13 DEF LoginFails, TypeOK, CallState, InTransaction
    <2>3. QED
      BY <1>2, <2>1, <2>2
  <1>14. ASSUME NEW c \in Call, CloseRequest(c) PROVE ListedPending'
    <2>1. \A b \in Call : InTransaction(b) => call[c].request \notin call[b].listed
      BY <1>14 DEF CloseRequest
    <2>2. \A r \in Request : r # call[c].request => request'[r] = request[r]
      BY <1>1, <1>14 DEF CloseRequest, TypeOK
    <2>3. QED
      BY <1>1, <1>4, <1>14, <2>1, <2>2 DEF CloseRequest, ListedPending
  <1>15. ASSUME NEW c \in Call,
                DeletionRefused(c) \/ UndeletableDocument(c) \/ DeletionFails(c) \/ Crash(c)
         PROVE  ListedPending'
    BY <1>2, <1>4, <1>15 DEF DeletionRefused, UndeletableDocument, DeletionFails, Crash
  <1>16. EnrollmentNext \/ WorkNext \/ BackfillNext \/ UNCHANGED vars =>
            UNCHANGED <<request, call>>
    BY DEF EnrollmentNext, VerifyPhone, BeginEnrollment, CommitEnrollment, EnrollmentFails,
           SaveDocument, WorkNext, Approve, SimulateKyc, AcceptJob, RecordOfWork, JobEnds,
           BackfillNext, UseFirebase, ListDocuments, BackfillFails, CopyDocument,
           MoveDocument, vars
  <1>17. QED
    BY <1>3, <1>5, <1>7, <1>8, <1>9, <1>10, <1>11, <1>12, <1>13, <1>14, <1>15, <1>16
       DEF Next, DeletionNext, CallStep, CallFails

LEMMA CleanupStep ==
  ASSUME AccountInv, CallInv, ListedPending, CleanupTracked, [Next]_vars
  PROVE  CleanupTracked'
  <1> USE AccountAssumption
  <1> DEFINE Pursued == \E c \in Call : call[c].phase \in {"login", "deferring"}
             Noted == \E r \in Request : request[r] = "pending_auth_cleanup"
  <1>1. TypeOK /\ \A c \in Call : call[c] \in CallState /\ call[c].listed \subseteq Request
    BY DEF AccountInv, TypeOK, CallState
  <1>2. owed => forgotten \/ Pursued \/ Noted
    BY DEF CleanupTracked
  <1>3. ASSUME owed' => forgotten' \/ Pursued' \/ Noted' PROVE CleanupTracked'
    BY <1>3 DEF CleanupTracked
  <1>4. CASE UNCHANGED <<logins, request, call>>
    BY <1>4 DEF CleanupTracked, logins
  <1>5. ASSUME NEW c \in Call, Refused(c), call[c].phase \notin {"login", "deferring"}
        PROVE  Pursued => Pursued'
    BY <1>1, <1>5 DEF Refused, TypeOK
  <1>6. CASE VerifyPhone
    BY <1>6 DEF VerifyPhone, CleanupTracked
  <1>7. CASE \E r \in Request : RecordDeletionRequest(r)
    <2>1. Noted => Noted'
      BY <1>1, <1>7 DEF RecordDeletionRequest, TypeOK
    <2>2. QED
      BY <1>2, <1>3, <1>7, <2>1 DEF RecordDeletionRequest, logins
  <1>8. ASSUME NEW c \in Call, NEW kind, NEW phase, NEW a, NEW r,
               Start(c, kind, phase, a, r)
        PROVE  CleanupTracked'
    <2>1. Pursued => Pursued'
      BY <1>1, <1>8 DEF Start, TypeOK
    <2>2. QED
      BY <1>2, <1>3, <1>8, <2>1 DEF Start, logins
  <1>9. CASE \E c \in Call, a \in Account : DeleteMe(c, a) \/ DeleteByAdmin(c, a)
    BY <1>8, <1>9 DEF DeleteMe, DeleteByAdmin
  <1>10. CASE \E c \in Call, r \in Request : CompleteRequest(c, r)
    BY <1>8, <1>10 DEF CompleteRequest
  <1>11. ASSUME NEW c \in Call,
                BeginDeletion(c) \/ ClearPrefix(c) \/ \E d \in Document : DeleteFile(c, d)
         PROVE  CleanupTracked'
    <2>1. UNCHANGED <<logins, request>> /\ Noted' = Noted
      BY <1>11 DEF BeginDeletion, ClearPrefix, DeleteFile
    <2>2. Pursued => Pursued'
      BY <1>1, <1>11 DEF BeginDeletion, ClearPrefix, DeleteFile, TypeOK
    <2>3. QED
      BY <1>2, <1>3, <2>1, <2>2 DEF logins
  <1>12. ASSUME NEW c \in Call, CommitDeletion(c) PROVE CleanupTracked'
    <2>1. CASE call[c].by = "admin"
      <3>1. Noted => Noted'
        <4>1. \A r \in call[c].listed : request[r] = "pending"
          BY <1>12 DEF CommitDeletion, ListedPending, InTransaction
        <4>2. QED
          BY <1>12, <4>1 DEF CommitDeletion
      <3>2. Pursued => Pursued'
        BY <1>5, <1>12, <2>1 DEF CommitDeletion
      <3>3. UNCHANGED <<owed, forgotten>>
        BY <1>12, <2>1 DEF CommitDeletion
      <3>4. QED
        BY <1>2, <1>3, <3>1, <3>2, <3>3
    <2>2. CASE call[c].by # "admin"
      <3>1. call'[c].phase = "login"
        BY <1>1, <1>12, <2>2 DEF CommitDeletion, TypeOK, CallState
      <3>2. QED
        BY <1>3, <3>1
    <2>3. QED
      BY <2>1, <2>2
  <1>13. ASSUME NEW c \in Call, DeleteLogin(c) PROVE CleanupTracked'
    BY <1>3, <1>13 DEF DeleteLogin
  <1>14. ASSUME NEW c \in Call, LoginFails(c) PROVE CleanupTracked'
    <2>1. CASE call[c].by = "request"
      <3>1. call'[c].phase = "deferring"
        BY <1>1, <1>14, <2>1 DEF LoginFails, TypeOK, CallState
      <3>2. QED
        BY <1>3, <3>1
    <2>2. CASE call[c].by # "request"
      <3>1. Noted'
        BY <1>1, <1>14, <2>2 DEF LoginFails, TypeOK
      <3>2. QED
        BY <1>3, <3>1
    <2>3. QED
      BY <2>1, <2>2
  <1>15. ASSUME NEW c \in Call, CloseRequest(c) PROVE CleanupTracked'
    <2>1. call[c].request \in Request /\ UNCHANGED owed
      BY <1>15 DEF CloseRequest, CallInv, GoodCall
    <2>2. CASE call[c].phase = "deferring"
      <3>1. request'[call[c].request] = "pending_auth_cleanup"
        BY <1>1, <1>15, <2>1, <2>2 DEF CloseRequest, TypeOK
      <3>2. QED
        BY <1>3, <2>1, <3>1
    <2>3. CASE call[c].phase # "deferring"
      <3>1. call[c].phase = "resolving" /\ (Pursued => Pursued')
        BY <1>5, <1>15, <2>3 DEF CloseRequest
      <3>2. owed /\ Noted => forgotten' \/ Noted'
        BY <1>1, <1>15, <2>1, <3>1 DEF CloseRequest, TypeOK
      <3>3. forgotten => forgotten'
        BY <1>15 DEF CloseRequest
      <3>4. QED
        BY <1>2, <1>3, <2>1, <3>1, <3>2, <3>3
    <2>4. QED
      BY <2>2, <2>3
  <1>16. ASSUME NEW c \in Call, Crash(c) PROVE CleanupTracked'
    <2>1. CASE call[c].phase = "resolving"
      <3>1. Pursued => Pursued'
        BY <1>5, <1>16, <2>1 DEF Crash
      <3>2. QED
        BY <1>2, <1>3, <1>16, <3>1 DEF Crash
    <2>2. CASE call[c].phase # "resolving"
      BY <1>3, <1>16, <2>2 DEF Crash
    <2>3. QED
      BY <2>1, <2>2
  <1>17. ASSUME NEW c \in Call,
                DeletionRefused(c) \/ UndeletableDocument(c) \/ DeletionFails(c)
         PROVE  CleanupTracked'
    <2>1. Pursued => Pursued'
      BY <1>5, <1>17 DEF DeletionRefused, UndeletableDocument, DeletionFails
    <2>2. QED
      BY <1>2, <1>3, <1>17, <2>1 DEF DeletionRefused, UndeletableDocument, DeletionFails,
         logins
  <1>18. (EnrollmentNext /\ ~VerifyPhone) \/ WorkNext \/ BackfillNext \/ UNCHANGED vars =>
            UNCHANGED <<logins, request, call>>
    BY DEF EnrollmentNext, BeginEnrollment, CommitEnrollment, EnrollmentFails, SaveDocument,
           WorkNext, Approve, SimulateKyc, AcceptJob, RecordOfWork, JobEnds, BackfillNext,
           UseFirebase, ListDocuments, BackfillFails, CopyDocument, MoveDocument, vars
  <1>19. QED
    BY <1>4, <1>6, <1>7, <1>9, <1>10, <1>11, <1>12, <1>13, <1>14, <1>15, <1>16, <1>17, <1>18
       DEF Next, DeletionNext, CallStep, CallFails

\* What may become of an account's status.
LEMMA StatusMoves ==
  ASSUME AccountInv, CallInv, [Next]_vars, NEW a \in Account
  PROVE  \/ account'[a] = account[a]
         \/ account[a] = "unused" /\ account'[a] = "enrolling"
         \/ account[a] = "enrolling" /\ account'[a] \in {"kyc_pending", "undone"}
         \/ account[a] \in Enrolled /\ account'[a] \in Enrolled
         \/ /\ account[a] \in Enrolled /\ account'[a] = "deleted"
            /\ \E c \in Call : call[c].phase = "cleared" /\ call[c].account = a
  <1> USE AccountAssumption
  <1>1. TypeOK
    BY DEF AccountInv
  <1>2. CASE EnrollmentNext
    BY <1>1, <1>2 DEF EnrollmentNext, VerifyPhone, BeginEnrollment, CommitEnrollment,
       EnrollmentFails, SaveDocument, TypeOK
  <1>3. CASE \E b \in Account : Approve(b)
    BY <1>1, <1>3 DEF Approve, TypeOK, IsEnrolled, Enrolled
  <1>4. ASSUME NEW b \in Account, NEW decision \in Decision, SimulateKyc(b, decision)
        PROVE  \/ account'[a] = account[a]
               \/ account[a] \in Enrolled /\ account'[a] \in Enrolled
    <2>1. StatusAfter(decision) \in Enrolled
      BY DEF StatusAfter, Enrolled
    <2>2. account'[a] = IF a = b THEN StatusAfter(decision) ELSE account[a]
      BY <1>1, <1>4 DEF SimulateKyc, TypeOK
    <2>3. account[b] \in Enrolled
      BY <1>4 DEF SimulateKyc, IsEnrolled
    <2>4. QED
      BY <2>1, <2>2, <2>3
  <1>5. ASSUME NEW c \in Call, CommitDeletion(c)
        PROVE  \/ account'[a] = account[a]
               \/ /\ account[a] \in Enrolled /\ account'[a] = "deleted"
                  /\ call[c].phase = "cleared" /\ call[c].account = a
    <2>1. call[c].phase = "cleared" /\ IsEnrolled(call[c].account)
      BY <1>5 DEF CommitDeletion, AccountInv, InTransaction
    <2>2. QED
      BY <1>1, <1>5, <2>1 DEF CommitDeletion, TypeOK, IsEnrolled
  <1>6. \/ \E b \in Account : AcceptJob(b) \/ RecordOfWork(b)
        \/ JobEnds \/ BackfillNext \/ UNCHANGED vars
        \/ DeletionNext /\ ~\E c \in Call : CommitDeletion(c)
        => UNCHANGED account
    BY DEF AcceptJob, RecordOfWork, JobEnds, BackfillNext, UseFirebase, ListDocuments,
           BackfillFails, CopyDocument, MoveDocument, vars, DeletionNext,
           RecordDeletionRequest, DeleteMe, DeleteByAdmin, CompleteRequest, Start, CallStep,
           DeletionRefused, BeginDeletion, DeleteFile, UndeletableDocument, ClearPrefix,
           DeleteLogin, CloseRequest, CallFails, DeletionFails, LoginFails, Crash
  <1>7. QED
    BY <1>2, <1>3, <1>4, <1>5, <1>6 DEF Next, WorkNext

\* Only ClearPrefix brings a call to the end of its files.
LEMMA ClearedBy ==
  ASSUME AccountInv, CallInv, [Next]_vars, NEW c \in Call, call'[c].phase = "cleared"
  PROVE  \/ ClearPrefix(c) /\ call'[c].account = call[c].account
         \/ call[c].phase = "cleared" /\ call'[c].account = call[c].account
  <1>1. TypeOK /\ \A b \in Call : call[b] \in CallState
    BY DEF AccountInv, TypeOK
  <1>2. CASE UNCHANGED call
    BY <1>2
  <1>3. ASSUME NEW b \in Call, NEW s, call' = [call EXCEPT ![b] = s], s.phase # "cleared"
        PROVE  call'[c] = call[c]
    BY <1>1, <1>3 DEF TypeOK
  <1>4. ASSUME NEW b \in Call, Refused(b) PROVE call'[c] = call[c]
    BY <1>3, <1>4 DEF Refused, Idle
  <1>5. ASSUME NEW b \in Call, NEW kind, NEW phase \in {"checked", "login"}, NEW a, NEW r,
               Start(b, kind, phase, a, r)
        PROVE  call'[c] = call[c]
    BY <1>3, <1>5 DEF Start, Idle
  <1>6. CASE \E b \in Call, a \in Account : DeleteMe(b, a) \/ DeleteByAdmin(b, a)
    BY <1>5, <1>6 DEF DeleteMe, DeleteByAdmin
  <1>7. CASE \E b \in Call, r \in Request : CompleteRequest(b, r)
    BY <1>5, <1>7 DEF CompleteRequest
  <1>8. ASSUME NEW b \in Call, BeginDeletion(b) \/ \E d \in Document : DeleteFile(b, d)
        PROVE  call'[c] = call[c]
    BY <1>1, <1>8 DEF BeginDeletion, DeleteFile, TypeOK, CallState
  <1>9. CASE \E b \in Call : ClearPrefix(b)
    <2>1. PICK b \in Call : ClearPrefix(b)
      BY <1>9
    <2>2. call'[c].account = call[c].account /\ (b # c => call'[c] = call[c])
      BY <1>1, <2>1 DEF ClearPrefix, TypeOK, CallState
    <2>3. QED
      BY <2>1, <2>2
  <1>10. ASSUME NEW b \in Call, CommitDeletion(b) PROVE call'[c] = call[c]
    <2>1. b # c => call'[c] = call[c]
      BY <1>1, <1>10 DEF CommitDeletion, Refused, TypeOK
    <2>2. call'[b].phase # "cleared"
      BY <1>1, <1>10 DEF CommitDeletion, Refused, Idle, TypeOK, CallState
    <2>3. QED
      BY <2>1, <2>2
  <1>11. ASSUME NEW b \in Call, DeleteLogin(b)
         PROVE  call[c].phase = "cleared" /\ call'[c].account = call[c].account
    <2>1. b # c
      BY <1>1, <1>11 DEF DeleteLogin, Idle, CallState
    <2>2. call'[c] = [call[c] EXCEPT !.owner = FALSE]
      BY <1>11, <2>1 DEF DeleteLogin
    <2>3. QED
      BY <1>1, <2>2 DEF CallState
  <1>12. ASSUME NEW b \in Call, LoginFails(b) PROVE call'[c] = call[c]
    BY <1>1, <1>4, <1>12 DEF LoginFails, TypeOK, CallState
  <1>13. CASE \E b \in Call : \/ DeletionRefused(b) \/ UndeletableDocument(b)
                              \/ CloseRequest(b) \/ DeletionFails(b) \/ Crash(b)
    BY <1>4, <1>13 DEF DeletionRefused, UndeletableDocument, CloseRequest, DeletionFails,
       Crash
  <1>14. \/ EnrollmentNext \/ WorkNext \/ BackfillNext \/ UNCHANGED vars
         \/ \E r \in Request : RecordDeletionRequest(r)
         => UNCHANGED call
    BY DEF EnrollmentNext, VerifyPhone, BeginEnrollment, CommitEnrollment, EnrollmentFails,
           SaveDocument, WorkNext, Approve, SimulateKyc, AcceptJob, RecordOfWork, JobEnds,
           BackfillNext, UseFirebase, ListDocuments, BackfillFails, CopyDocument,
           MoveDocument, vars, RecordDeletionRequest
  <1>15. QED
    BY <1>2, <1>6, <1>7, <1>8, <1>9, <1>10, <1>11, <1>12, <1>13, <1>14
       DEF Next, DeletionNext, CallStep, CallFails

LEMMA RowsStep ==
  ASSUME AccountInv, CallInv, FilesNamed, RowsNamed, [Next]_vars
  PROVE  RowsNamed'
  <1>1. TypeOK
    BY DEF AccountInv
  <1>2. \A a \in Account :
          /\ account'[a] = "unused" => account[a] = "unused"
          /\ account[a] \in Enrolled \cup {"deleted"} =>
                account'[a] \in Enrolled \cup {"deleted"}
    BY StatusMoves DEF Enrolled
  <1>3. ASSUME \A a \in Account, d \in Document : account[a] = "unused" =>
                  document'[a][d] = document[a][d] \/ document'[a][d] = "none",
               \A a \in Account, d \in Document :
                  /\ <<a, d, "list">> \in backfill' \/ <<a, d, "saved">> \in backfill' =>
                        \/ <<a, d, "list">> \in backfill \/ <<a, d, "saved">> \in backfill
                        \/ IsEnrolled(a) /\ UNCHANGED account
                  /\ <<a, d, "saved">> \in backfill' =>
                        <<a, d, "saved">> \in backfill \/ <<a, d>> \in copied',
               copied \subseteq copied'
        PROVE  RowsNamed'
    <2> SUFFICES ASSUME NEW a \in Account, NEW d \in Document
                 PROVE  /\ account'[a] = "unused" => document'[a][d] = "none"
                        /\ <<a, d, "list">> \in backfill' \/ <<a, d, "saved">> \in backfill'
                              => account'[a] \in Enrolled \cup {"deleted"}
                        /\ <<a, d, "saved">> \in backfill' => <<a, d>> \in copied'
      BY DEF RowsNamed
    <2>1. ASSUME account'[a] = "unused" PROVE document'[a][d] = "none"
      <3>1. account[a] = "unused"
        BY <1>2, <2>1
      <3>2. document[a][d] = "none"
        BY <3>1 DEF RowsNamed
      <3>3. QED
        BY <1>3, <3>1, <3>2
    <2>2. <<a, d, "list">> \in backfill' \/ <<a, d, "saved">> \in backfill'
             => account'[a] \in Enrolled \cup {"deleted"}
      BY <1>2, <1>3 DEF RowsNamed, IsEnrolled
    <2>3. <<a, d, "saved">> \in backfill' => <<a, d>> \in copied'
      BY <1>3 DEF RowsNamed
    <2>4. QED
      BY <2>1, <2>2, <2>3
  <1>4. CASE UNCHANGED <<document, backfill, copied>>
    BY <1>3, <1>4
  <1>5. ASSUME NEW a \in Account, NEW d \in Document, SaveDocument(a, d) PROVE RowsNamed'
    <2>1. account[a] = "enrolling" /\ UNCHANGED <<backfill, copied>>
      BY <1>5 DEF SaveDocument, history
    <2>2. \A b \in Account : b # a => document'[b] = document[b]
      BY <1>1, <1>5 DEF SaveDocument, TypeOK
    <2>3. QED
      BY <1>3, <2>1, <2>2
  <1>6. ASSUME NEW a \in Account, EnrollmentFails(a) PROVE RowsNamed'
    BY <1>1, <1>3, <1>6 DEF EnrollmentFails, TypeOK, history
  <1>7. ASSUME NEW c \in Call, CommitDeletion(c) PROVE RowsNamed'
    BY <1>1, <1>3, <1>7 DEF CommitDeletion, TypeOK, history
  <1>8. CASE UseFirebase \/ ListDocuments \/ BackfillFails
    BY <1>3, <1>8 DEF UseFirebase, ListDocuments, BackfillFails, documents, history
  <1>9. ASSUME NEW a \in Account, NEW d \in Document, CopyDocument(a, d) PROVE RowsNamed'
    BY <1>3, <1>9 DEF CopyDocument
  <1>10. ASSUME NEW a \in Account, NEW d \in Document, MoveDocument(a, d) PROVE RowsNamed'
    <2>1. /\ <<a, d, "saved">> \in backfill /\ backfill' \subseteq backfill
          /\ UNCHANGED copied
      BY <1>10 DEF MoveDocument, history
    <2>2. account[a] # "unused"
      BY <2>1 DEF RowsNamed, Enrolled
    <2>3. \A b \in Account : b # a => document'[b] = document[b]
      BY <1>1, <1>10 DEF MoveDocument, TypeOK
    <2>4. QED
      BY <1>3, <2>1, <2>2, <2>3
  <1>11. \/ VerifyPhone \/ WorkNext \/ UNCHANGED vars
         \/ \E a \in Account : BeginEnrollment(a) \/ CommitEnrollment(a)
         \/ DeletionNext /\ ~\E c \in Call : CommitDeletion(c)
         => UNCHANGED <<document, backfill, copied>>
    BY DEF VerifyPhone, BeginEnrollment, CommitEnrollment, WorkNext, Approve, SimulateKyc,
           AcceptJob, RecordOfWork, JobEnds, vars, DeletionNext, RecordDeletionRequest,
           DeleteMe, DeleteByAdmin, CompleteRequest, Start, CallStep, DeletionRefused,
           BeginDeletion, DeleteFile, UndeletableDocument, ClearPrefix, DeleteLogin,
           CloseRequest, CallFails, DeletionFails, LoginFails, Crash, documents, history
  <1>12. QED
    BY <1>4, <1>5, <1>6, <1>7, <1>8, <1>9, <1>10, <1>11
       DEF Next, EnrollmentNext, BackfillNext

-----------------------------------------------------------------------------
\* Which actions touch a document's row, its files, and the script's list.
LEMMA DocumentMoves ==
  ASSUME AccountInv, [Next]_vars, NEW a \in Account, NEW d \in Document
  PROVE  /\ \/ document'[a][d] = document[a][d]
            \/ SaveDocument(a, d) \/ MoveDocument(a, d)
            \/ account'[a] \in {"undone", "deleted"}
         /\ \A p \in Stored : <<p, a, d>> \in file' =>
               <<p, a, d>> \in file \/ SaveDocument(a, d) \/ CopyDocument(a, d)
         /\ \A p \in Stored : <<p, a, d>> \in file /\ <<p, a, d>> \notin file' =>
               \E c \in Call : Removes(c, a, d)
         /\ <<a, d, "saved">> \in backfill' =>
               <<a, d, "saved">> \in backfill \/ CopyDocument(a, d)
         /\ copied \subseteq copied'
  <1> DEFINE Goal ==
         /\ \/ document'[a][d] = document[a][d]
            \/ SaveDocument(a, d) \/ MoveDocument(a, d)
            \/ account'[a] \in {"undone", "deleted"}
         /\ \A p \in Stored : <<p, a, d>> \in file' =>
               <<p, a, d>> \in file \/ SaveDocument(a, d) \/ CopyDocument(a, d)
         /\ \A p \in Stored : <<p, a, d>> \in file /\ <<p, a, d>> \notin file' =>
               \E c \in Call : Removes(c, a, d)
         /\ <<a, d, "saved">> \in backfill' =>
               <<a, d, "saved">> \in backfill \/ CopyDocument(a, d)
         /\ copied \subseteq copied'
  <1>1. TypeOK
    BY DEF AccountInv
  <1>2. CASE UNCHANGED <<document, file, backfill, copied>>
    BY <1>2
  <1>3. ASSUME NEW b \in Account, NEW e \in Document, SaveDocument(b, e) PROVE Goal
    <2>1. /\ UNCHANGED <<backfill, copied>> /\ file \subseteq file'
          /\ file' \subseteq file \cup {<<configured, b, e>>}
          /\ <<a, d>> # <<b, e>> => document'[a][d] = document[a][d]
      BY <1>1, <1>3 DEF SaveDocument, TypeOK, history
    <2>2. CASE a = b /\ d = e
      BY <1>3, <2>1, <2>2
    <2>3. CASE ~(a = b /\ d = e)
      <3>1. \A p \in Stored : <<p, a, d>> \in file' => <<p, a, d>> \in file
        BY <2>1, <2>3
      <3>2. QED
        BY <2>1, <2>3, <3>1
    <2>4. QED
      BY <2>2, <2>3
  <1>4. ASSUME NEW b \in Account, EnrollmentFails(b) PROVE Goal
    <2>1. /\ UNCHANGED <<file, backfill, copied>>
          /\ account'[b] = "undone" /\ (a # b => document'[a] = document[a])
      BY <1>1, <1>4 DEF EnrollmentFails, TypeOK, history
    <2>2. QED
      BY <2>1
  <1>5. ASSUME NEW c \in Call, CommitDeletion(c) PROVE Goal
    <2>1. /\ UNCHANGED <<file, backfill, copied>>
          /\ a = call[c].account => account'[a] = "deleted"
          /\ a # call[c].account => document'[a] = document[a]
      BY <1>1, <1>5 DEF CommitDeletion, TypeOK, history
    <2>2. QED
      BY <2>1
  <1>6. ASSUME NEW c \in Call, NEW e \in Document, DeleteFile(c, e) PROVE Goal
    <2>1. /\ UNCHANGED <<document, backfill, copied>>
          /\ file' = file \ {<<document[call[c].account][e], call[c].account, e>>}
      BY <1>6 DEF DeleteFile, history
    <2>2. \A p \in Stored : <<p, a, d>> \in file /\ <<p, a, d>> \notin file' =>
             call[c].account = a /\ e = d
      BY <2>1
    <2>3. QED
      BY <1>6, <2>1, <2>2 DEF Removes
  <1>7. ASSUME NEW c \in Call, ClearPrefix(c) PROVE Goal
    <2>1. /\ UNCHANGED <<document, backfill, copied>>
          /\ file' = file \ (PrefixProviders(call[c].account) \X {call[c].account}
                              \X Document)
      BY <1>7 DEF ClearPrefix, history
    <2>2. \A p \in Stored : <<p, a, d>> \in file /\ <<p, a, d>> \notin file' =>
             call[c].account = a
      BY <2>1
    <2>3. QED
      BY <1>7, <2>1, <2>2 DEF Removes
  <1>8. CASE UseFirebase \/ ListDocuments \/ BackfillFails
    BY <1>8 DEF UseFirebase, ListDocuments, BackfillFails, documents, history
  <1>9. ASSUME NEW b \in Account, NEW e \in Document, CopyDocument(b, e) PROVE Goal
    <2>1. /\ UNCHANGED document /\ copied \subseteq copied'
          /\ file \subseteq file' /\ file' \subseteq file \cup {<<"firebase", b, e>>}
          /\ backfill' \subseteq backfill \cup {<<b, e, "saved">>}
      BY <1>9 DEF CopyDocument
    <2>2. CASE a = b /\ d = e
      BY <1>9, <2>1, <2>2
    <2>3. CASE ~(a = b /\ d = e)
      <3>1. \A p \in Stored : <<p, a, d>> \in file' => <<p, a, d>> \in file
        BY <2>1, <2>3
      <3>2. <<a, d, "saved">> \in backfill' => <<a, d, "saved">> \in backfill
        BY <2>1, <2>3
      <3>3. QED
        BY <2>1, <3>1, <3>2
    <2>4. QED
      BY <2>2, <2>3
  <1>10. ASSUME NEW b \in Account, NEW e \in Document, MoveDocument(b, e) PROVE Goal
    <2>1. /\ UNCHANGED <<file, copied>> /\ backfill' \subseteq backfill
          /\ <<a, d>> # <<b, e>> => document'[a][d] = document[a][d]
      BY <1>1, <1>10 DEF MoveDocument, TypeOK, history
    <2>2. QED
      BY <1>10, <2>1
  <1>11. \/ VerifyPhone \/ WorkNext \/ UNCHANGED vars
         \/ \E b \in Account : BeginEnrollment(b) \/ CommitEnrollment(b)
         \/ /\ DeletionNext
            /\ ~\E c \in Call : \/ CommitDeletion(c) \/ ClearPrefix(c)
                               \/ \E e \in Document : DeleteFile(c, e)
         => UNCHANGED <<document, file, backfill, copied>>
    BY DEF VerifyPhone, BeginEnrollment, CommitEnrollment, WorkNext, Approve, SimulateKyc,
           AcceptJob, RecordOfWork, JobEnds, vars, DeletionNext, RecordDeletionRequest,
           DeleteMe, DeleteByAdmin, CompleteRequest, Start, CallStep, DeletionRefused,
           BeginDeletion, UndeletableDocument, DeleteLogin,
           CloseRequest, CallFails, DeletionFails, LoginFails, Crash, documents, history
  <1>12. QED
    BY <1>2, <1>3, <1>4, <1>5, <1>6, <1>7, <1>8, <1>9, <1>10, <1>11
       DEF Next, EnrollmentNext, BackfillNext

LEMMA NamedStep ==
  ASSUME AccountInv, CallInv, FilesNamed, RowsNamed, [Next]_vars
  PROVE  FilesNamed'
  <1>1. TypeOK
    BY DEF AccountInv
  <1> SUFFICES ASSUME NEW p \in Stored, NEW a \in Account, NEW d \in Document,
                      <<p, a, d>> \in file'
               PROVE  /\ account'[a] # "unused"
                      /\ account'[a] \in Enrolled \cup {"enrolling"} =>
                            <<a, d>> \in copied' \/ p = document'[a][d]
                      /\ account'[a] = "deleted" => <<a, d>> \in copied'
                      /\ \A c \in Call : call'[c].phase = "cleared"
                                         /\ call'[c].account = a => <<a, d>> \in copied'
    BY DEF FilesNamed
  <1>2. CASE CopyDocument(a, d) /\ <<p, a, d>> \notin file
    <2>1. <<a, d>> \in copied'
      BY <1>2 DEF CopyDocument
    <2>2. account'[a] \in Enrolled \cup {"deleted"}
      BY <1>2 DEF CopyDocument, RowsNamed
    <2>3. QED
      BY <2>1, <2>2 DEF Enrolled
  <1>3. CASE SaveDocument(a, d)
    <2>1. /\ account[a] = "enrolling" /\ document[a][d] = "none"
          /\ UNCHANGED <<account, call, copied>>
          /\ file' \subseteq file \cup {<<document'[a][d], a, d>>}
      BY <1>1, <1>3 DEF SaveDocument, TypeOK, history
    <2>2. <<p, a, d>> \in file => <<a, d>> \in copied
      BY <2>1 DEF FilesNamed, Stored
    <2>3. \A c \in Call : call[c].phase = "cleared" => call[c].account # a
      BY <2>1 DEF AccountInv, InTransaction, IsEnrolled, Enrolled
    <2>4. QED
      BY <2>1, <2>2, <2>3 DEF Enrolled
  <1>4. CASE <<p, a, d>> \in file /\ ~SaveDocument(a, d)
    <2>1. copied \subseteq copied'
      BY DocumentMoves
    <2>2. account'[a] # "unused"
      <3>1. account[a] # "unused"
        BY <1>4 DEF FilesNamed
      <3>2. QED
        BY <3>1, StatusMoves DEF Enrolled
    <2>3. ASSUME account'[a] \in Enrolled \cup {"enrolling"}
          PROVE  <<a, d>> \in copied' \/ p = document'[a][d]
      <3>1. account[a] \in Enrolled \cup {"enrolling", "unused"}
        BY <2>3, StatusMoves DEF Enrolled
      <3>2. <<a, d>> \in copied \/ p = document[a][d]
        BY <1>4, <3>1 DEF FilesNamed
      <3>3. document'[a][d] = document[a][d] \/ MoveDocument(a, d)
        BY <1>4, <2>3, DocumentMoves DEF Enrolled
      <3>4. MoveDocument(a, d) => <<a, d>> \in copied
        BY DEF MoveDocument, RowsNamed
      <3>5. QED
        BY <2>1, <3>2, <3>3, <3>4
    <2>4. ASSUME account'[a] = "deleted" PROVE <<a, d>> \in copied'
      <3>1. \/ account[a] = "deleted"
            \/ \E c \in Call : call[c].phase = "cleared" /\ call[c].account = a
        BY <2>4, StatusMoves DEF Enrolled
      <3>2. <<a, d>> \in copied
        BY <1>4, <3>1 DEF FilesNamed
      <3>3. QED
        BY <2>1, <3>2
    <2>5. ASSUME NEW c \in Call, call'[c].phase = "cleared", call'[c].account = a
          PROVE  <<a, d>> \in copied'
      <3>1. CASE call[c].phase = "cleared" /\ call[c].account = a
        <4>1. <<a, d>> \in copied
          BY <1>4, <3>1 DEF FilesNamed
        <4>2. QED
          BY <2>1, <4>1
      <3>2. CASE ClearPrefix(c) /\ call[c].account = a
        <4>1. p \notin PrefixProviders(a)
          BY <3>2 DEF ClearPrefix
        <4>2. p # document[a][d]
          BY <4>1 DEF PrefixProviders
        <4>3. account[a] \in Enrolled
          BY <3>2 DEF ClearPrefix, AccountInv, InTransaction, IsEnrolled
        <4>4. <<a, d>> \in copied
          BY <1>4, <4>2, <4>3 DEF FilesNamed
        <4>5. QED
          BY <2>1, <4>4
      <3>3. QED
        BY <2>5, <3>1, <3>2, ClearedBy
    <2>6. QED
      BY <2>2, <2>3, <2>4, <2>5
  <1>5. QED
    BY <1>2, <1>3, <1>4, DocumentMoves

\* A transaction that took files goes on, or leaves a mark, or ends the account.
LEMMA TakenStays ==
  ASSUME AccountInv, CallInv, [Next]_vars, NEW c \in Call, NEW a \in Account,
         TakenFrom(c, a)
  PROVE  \/ a \in harmed'
         \/ account'[a] = "deleted"
         \/ TakenFrom(c, a)'
  <1> DEFINE Goal ==
         \/ a \in harmed'
         \/ account'[a] = "deleted"
         \/ TakenFrom(c, a)'
  <1>1. /\ TypeOK /\ call[c] \in CallState /\ call[c].phase \in {"deleting", "cleared"}
        /\ call[c].account = a /\ call[c].left # Document
    BY DEF AccountInv, TypeOK, InTransaction, TakenFrom
  <1>2. ASSUME call'[c] = call[c] PROVE Goal
    BY <1>2 DEF TakenFrom, InTransaction
  <1>3. CASE UNCHANGED call
    BY <1>2, <1>3
  <1>4. ASSUME NEW b \in Call, NEW s, call' = [call EXCEPT ![b] = s], b # c PROVE Goal
    BY <1>1, <1>2, <1>4 DEF TypeOK
  <1>5. ASSUME NEW b \in Call, Refused(b), b # c PROVE Goal
    BY <1>4, <1>5 DEF Refused
  <1>6. ASSUME NEW b \in Call, NEW kind, NEW phase, NEW e, NEW r,
               Start(b, kind, phase, e, r)
        PROVE  Goal
    <2>1. b # c
      BY <1>1, <1>6 DEF Start
    <2>2. QED
      BY <1>4, <1>6, <2>1 DEF Start
  <1>7. CASE \E b \in Call, e \in Account : DeleteMe(b, e) \/ DeleteByAdmin(b, e)
    BY <1>6, <1>7 DEF DeleteMe, DeleteByAdmin
  <1>8. CASE \E b \in Call, r \in Request : CompleteRequest(b, r)
    BY <1>6, <1>8 DEF CompleteRequest
  <1>9. ASSUME NEW b \in Call, DeletionRefused(b) \/ CloseRequest(b) \/ Crash(b) PROVE Goal
    <2>1. b # c /\ Refused(b)
      BY <1>1, <1>9 DEF DeletionRefused, CloseRequest, Crash
    <2>2. QED
      BY <1>5, <2>1
  <1>10. ASSUME NEW b \in Call, UndeletableDocument(b) \/ DeletionFails(b) PROVE Goal
    <2>1. CASE b = c
      BY <1>1, <1>10, <2>1 DEF UndeletableDocument, DeletionFails, InTransaction
    <2>2. CASE b # c
      BY <1>5, <1>10, <2>2 DEF UndeletableDocument, DeletionFails
    <2>3. QED
      BY <2>1, <2>2
  <1>11. ASSUME NEW b \in Call, BeginDeletion(b) PROVE Goal
    <2>1. b # c
      BY <1>1, <1>11 DEF BeginDeletion
    <2>2. QED
      BY <1>1, <1>2, <1>11, <2>1 DEF BeginDeletion, TypeOK
  <1>12. ASSUME NEW b \in Call, NEW d \in Document, DeleteFile(b, d) PROVE Goal
    <2>1. CASE b = c
      <3>1. call'[c] = [call[c] EXCEPT !.left = @ \ {d}] /\ call[c].phase = "deleting"
        BY <1>1, <1>12, <2>1 DEF DeleteFile, TypeOK
      <3>2. call'[c].left # Document
        BY <1>1, <3>1 DEF CallState
      <3>3. call'[c].phase = "deleting" /\ call'[c].account = a
        BY <1>1, <3>1 DEF CallState
      <3>4. QED
        BY <3>2, <3>3 DEF InTransaction, TakenFrom
    <2>2. CASE b # c
      BY <1>1, <1>2, <1>12, <2>2 DEF DeleteFile, TypeOK
    <2>3. QED
      BY <2>1, <2>2
  <1>13. ASSUME NEW b \in Call, ClearPrefix(b) PROVE Goal
    <2>1. CASE b = c
      <3>1. call'[c] = [call[c] EXCEPT !.phase = "cleared"]
        BY <1>1, <1>13, <2>1 DEF ClearPrefix, TypeOK
      <3>2. call'[c].left # Document /\ call'[c].phase = "cleared" /\ call'[c].account = a
        BY <1>1, <3>1 DEF CallState
      <3>3. QED
        BY <3>2 DEF InTransaction, TakenFrom
    <2>2. CASE b # c
      BY <1>1, <1>2, <1>13, <2>2 DEF ClearPrefix, TypeOK
    <2>3. QED
      BY <2>1, <2>2
  <1>14. ASSUME NEW b \in Call, CommitDeletion(b) PROVE Goal
    <2>1. CASE b = c
      BY <1>1, <1>14, <2>1 DEF CommitDeletion, TypeOK
    <2>2. CASE b # c
      BY <1>1, <1>2, <1>14, <2>2 DEF CommitDeletion, Refused, TypeOK
    <2>3. QED
      BY <2>1, <2>2
  <1>15. ASSUME NEW b \in Call, DeleteLogin(b) PROVE Goal
    <2>1. call'[c] = [call[c] EXCEPT !.owner = FALSE]
      BY <1>1, <1>15 DEF DeleteLogin
    <2>2. call'[c].phase = call[c].phase /\ call'[c].account = a /\ call'[c].left # Document
      BY <1>1, <2>1 DEF CallState
    <2>3. QED
      BY <1>1, <2>2 DEF InTransaction, TakenFrom
  <1>16. ASSUME NEW b \in Call, LoginFails(b) PROVE Goal
    <2>1. b # c
      BY <1>1, <1>16 DEF LoginFails
    <2>2. call'[c] = call[c]
      BY <1>1, <1>16, <2>1 DEF LoginFails, Refused, TypeOK
    <2>3. QED
      BY <1>2, <2>2
  <1>17. \/ EnrollmentNext \/ WorkNext \/ BackfillNext \/ UNCHANGED vars
         \/ \E r \in Request : RecordDeletionRequest(r)
         => UNCHANGED call
    BY DEF EnrollmentNext, VerifyPhone, BeginEnrollment, CommitEnrollment, EnrollmentFails,
           SaveDocument, WorkNext, Approve, SimulateKyc, AcceptJob, RecordOfWork, JobEnds,
           BackfillNext, UseFirebase, ListDocuments, BackfillFails, CopyDocument,
           MoveDocument, vars, RecordDeletionRequest
  <1>18. QED
    BY <1>3, <1>7, <1>8, <1>9, <1>10, <1>11, <1>12, <1>13, <1>14, <1>15, <1>16, <1>17
       DEF Next, DeletionNext, CallStep, CallFails

\* The files that a call's step removes leave it short of all of them.
LEMMA TakenByStep ==
  ASSUME AccountInv, NEW c \in Call, NEW a \in Account, NEW d \in Document,
         Removes(c, a, d)
  PROVE  /\ IsEnrolled(a)
         /\ TakenFrom(c, a)'
  <1>1. /\ TypeOK /\ call[c] \in CallState /\ call[c].account = a
        /\ DeleteFile(c, d) \/ ClearPrefix(c)
    BY DEF AccountInv, TypeOK, Removes
  <1>2. IsEnrolled(a)
    BY <1>1 DEF DeleteFile, ClearPrefix, AccountInv, InTransaction
  <1>3. CASE DeleteFile(c, d)
    <2>1. call'[c] = [call[c] EXCEPT !.left = @ \ {d}] /\ call[c].phase = "deleting"
      BY <1>1, <1>3 DEF DeleteFile, TypeOK
    <2>2. call'[c].left = call[c].left \ {d} /\ call'[c].account = a
          /\ call'[c].phase = "deleting"
      BY <1>1, <2>1 DEF CallState
    <2>3. call'[c].left # Document
      BY <2>2
    <2>4. QED
      BY <1>2, <2>2, <2>3 DEF InTransaction, TakenFrom
  <1>4. CASE ClearPrefix(c)
    <2>1. call'[c] = [call[c] EXCEPT !.phase = "cleared"] /\ call[c].left = {}
      BY <1>1, <1>4 DEF ClearPrefix, TypeOK
    <2>2. call'[c].left = {} /\ call'[c].account = a /\ call'[c].phase = "cleared"
      BY <1>1, <2>1 DEF CallState
    <2>3. QED
      BY <1>2, <2>2 DEF InTransaction, TakenFrom
  <1>5. QED
    BY <1>1, <1>3, <1>4

LEMMA ThereStep ==
  ASSUME AccountInv, CallInv, RowsNamed, FilesThere, [Next]_vars
  PROVE  FilesThere'
  <1> SUFFICES ASSUME NEW a \in Account, NEW d \in Document
               PROVE  /\ account'[a] = "enrolling" /\ document'[a][d] \in Stored =>
                            <<document'[a][d], a, d>> \in file'
                      /\ IsEnrolled(a)' /\ Lost(a, d)' =>
                            \/ a \in harmed'
                            \/ \E c \in Call : TakenFrom(c, a)'
    BY DEF FilesThere
  <1>1. TypeOK
    BY DEF AccountInv
  <1>2. harmed \subseteq harmed'
    <2>1. /\ EnrollmentNext \/ WorkNext \/ BackfillNext \/ UNCHANGED vars =>
                UNCHANGED harmed
          /\ DeletionNext /\ ~(\E c \in Call : UndeletableDocument(c) \/ DeletionFails(c))
                => UNCHANGED harmed
      BY DEF EnrollmentNext, VerifyPhone, BeginEnrollment, CommitEnrollment,
             EnrollmentFails, SaveDocument, WorkNext, Approve, SimulateKyc, AcceptJob,
             RecordOfWork, JobEnds, BackfillNext, UseFirebase, ListDocuments, BackfillFails,
             CopyDocument, MoveDocument, vars, history, DeletionNext, RecordDeletionRequest,
             DeleteMe, DeleteByAdmin, CompleteRequest, Start, CallStep, DeletionRefused,
             BeginDeletion, DeleteFile, ClearPrefix, CommitDeletion, DeleteLogin,
             CloseRequest, CallFails, LoginFails, Crash
    <2>2. (\E c \in Call : UndeletableDocument(c) \/ DeletionFails(c))
             => harmed \subseteq harmed'
      BY DEF UndeletableDocument, DeletionFails
    <2>3. QED
      BY <2>1, <2>2 DEF Next
  <1>3. SaveDocument(a, d) =>
           /\ account[a] = "enrolling" /\ account' = account
           /\ document'[a][d] \in Stored => <<document'[a][d], a, d>> \in file'
    BY <1>1 DEF SaveDocument, TypeOK, Stored
  <1>4. MoveDocument(a, d) =>
           /\ <<a, d, "saved">> \in backfill /\ UNCHANGED account
           /\ account[a] \in Enrolled \cup {"deleted"}
           /\ document'[a][d] = document[a][d] \/ document'[a][d] = "firebase"
    <2>1. MoveDocument(a, d) =>
             document'[a][d] = IF document[a][d] = "local_mock" THEN "firebase"
                               ELSE document[a][d]
      BY <1>1 DEF MoveDocument, TypeOK
    <2>2. MoveDocument(a, d) => <<a, d, "saved">> \in backfill /\ account' = account
      BY DEF MoveDocument
    <2>3. QED
      BY <2>1, <2>2 DEF RowsNamed
  <1>5. CopyDocument(a, d) /\ <<a, d, "saved">> \notin backfill
           /\ <<a, d, "saved">> \in backfill' => <<"firebase", a, d>> \in file'
    BY DEF CopyDocument
  <1>6. ASSUME ~(\E c \in Call : Removes(c, a, d)),
               NEW p \in Stored, <<p, a, d>> \in file
        PROVE  <<p, a, d>> \in file'
    BY <1>6, DocumentMoves
  <1>7. ASSUME account'[a] = "enrolling", document'[a][d] \in Stored
        PROVE  <<document'[a][d], a, d>> \in file'
    <2>1. account[a] \in {"unused", "enrolling"}
      BY <1>7, StatusMoves DEF Enrolled
    <2>2. document'[a][d] = document[a][d] \/ SaveDocument(a, d)
      BY <1>4, <1>7, <2>1, DocumentMoves DEF Enrolled
    <2>3. CASE SaveDocument(a, d)
      BY <1>3, <1>7, <2>3
    <2>4. CASE document'[a][d] = document[a][d]
      <3>1. account[a] = "enrolling"
        BY <1>7, <2>1, <2>4 DEF RowsNamed, Stored
      <3>2. <<document[a][d], a, d>> \in file
        BY <1>7, <2>4, <3>1 DEF FilesThere
      <3>3. ASSUME NEW c \in Call, Removes(c, a, d)
            PROVE  FALSE
        <4>1. IsEnrolled(a)
          BY <3>3, TakenByStep
        <4>2. QED
          BY <3>1, <4>1 DEF IsEnrolled, Enrolled
      <3>4. ~(\E c \in Call : Removes(c, a, d))
        BY <3>3
      <3>5. document[a][d] \in Stored
        BY <1>7, <2>4
      <3>6. <<document[a][d], a, d>> \in file'
        BY <1>6, <3>2, <3>4, <3>5
      <3>7. QED
        BY <2>4, <3>6
    <2>5. QED
      BY <2>2, <2>3, <2>4
  <1>8. ASSUME IsEnrolled(a)', Lost(a, d)'
        PROVE  \/ a \in harmed'
               \/ \E c \in Call : TakenFrom(c, a)'
    <2>1. account[a] = "enrolling" \/ IsEnrolled(a)
      BY <1>8, StatusMoves DEF IsEnrolled, Enrolled
    <2>2. CASE \E c \in Call : Removes(c, a, d)
      <3>1. ASSUME NEW c \in Call, Removes(c, a, d)
            PROVE  TakenFrom(c, a)'
        BY <3>1, TakenByStep
      <3>2. QED
        BY <2>2, <3>1
    <2>3. CASE IsEnrolled(a) /\ Lost(a, d)
      <3>1. CASE a \in harmed
        BY <1>2, <3>1
      <3>2. ASSUME NEW c \in Call, TakenFrom(c, a)
            PROVE  \/ a \in harmed'
                   \/ TakenFrom(c, a)'
        <4>1. account'[a] # "deleted"
          BY <1>8 DEF IsEnrolled, Enrolled
        <4>2. QED
          BY <3>2, <4>1, TakenStays
      <3>3. QED
        BY <2>3, <3>1, <3>2 DEF FilesThere
    <2>4. CASE /\ ~(\E c \in Call : Removes(c, a, d))
               /\ ~(IsEnrolled(a) /\ Lost(a, d))
      <3>1. ~SaveDocument(a, d)
        BY <1>3, <1>8 DEF IsEnrolled, Enrolled
      <3>2. document'[a][d] = document[a][d] \/ MoveDocument(a, d)
        BY <1>8, <3>1, DocumentMoves DEF IsEnrolled, Enrolled
      <3>3. document[a][d] \in Stored => <<document[a][d], a, d>> \in file
        BY <2>1, <2>4 DEF FilesThere, Lost
      <3>4. <<a, d, "saved">> \in backfill => <<"firebase", a, d>> \in file
        BY <2>1, <2>4 DEF RowsNamed, Lost, Enrolled
      <3>5. document'[a][d] \in Stored => <<document'[a][d], a, d>> \in file'
        <4>1. document'[a][d] \in Stored => <<document'[a][d], a, d>> \in file
          BY <1>4, <3>2, <3>3, <3>4
        <4>2. QED
          BY <1>6, <2>4, <4>1
      <3>6. <<a, d, "saved">> \in backfill' => <<"firebase", a, d>> \in file'
        <4>1. CASE <<a, d, "saved">> \in backfill
          BY <1>6, <2>4, <3>4, <4>1 DEF Stored
        <4>2. CASE <<a, d, "saved">> \notin backfill
          BY <1>5, <4>2, DocumentMoves
        <4>3. QED
          BY <4>1, <4>2
      <3>7. QED
        BY <1>8, <3>5, <3>6 DEF Lost
    <2>5. QED
      BY <2>2, <2>3, <2>4
  <1>9. QED
    BY <1>7, <1>8

-----------------------------------------------------------------------------
(* Theorems *)

\* Every reachable state satisfies the inductive invariant.
THEOREM WorkerAccountInvariance == Spec => []WorkerAccountInv
  <1>1. WorkerAccountInv /\ [Next]_vars => WorkerAccountInv'
    <2> SUFFICES ASSUME WorkerAccountInv, [Next]_vars PROVE WorkerAccountInv'
      OBVIOUS
    <2>1. AccountInv /\ CallInv /\ ListedPending /\ FileInv
          /\ CleanupTracked
      BY DEF WorkerAccountInv
    <2>2. TypeOK /\ FilesNamed /\ RowsNamed /\ FilesThere
      BY <2>1 DEF AccountInv, FileInv
    <2>3. AccountInv' /\ CallInv' /\ ListedPending'
      BY <2>1, <2>2, AccountStep, CallInvStep, ListedStep
    <2>4. CleanupTracked'
      BY <2>1, CleanupStep
    <2>5. FileInv'
      <3>1. FilesNamed'
        BY <2>1, <2>2, NamedStep
      <3>2. RowsNamed'
        BY <2>1, <2>2, RowsStep
      <3>3. FilesThere'
        BY <2>1, <2>2, ThereStep
      <3>4. QED
        BY <3>1, <3>2, <3>3 DEF FileInv
    <2>6. QED
      BY <2>3, <2>4, <2>5 DEF WorkerAccountInv
  <1>2. QED
    BY InitWorkerAccount, <1>1, PTL DEF Spec

\* The number has one account, a deletion has it alone, and its old login does
\* not pass for a new one (the locks and the reset row of permanentlyDeleteWorker).
THEOREM AccountsAreConsistent == Spec => []AccountInv
  <1>1. WorkerAccountInv => AccountInv
    BY DEF WorkerAccountInv
  <1>2. QED
    BY WorkerAccountInvariance, <1>1, PTL

\* A committed deletion took every file but copies of the script
\* (deleteWorkerDocumentsForEnrollment).
THEOREM DeletionTakesEveryFile == Spec => []DeletedLeaveNoFiles
  <1>1. WorkerAccountInv => DeletedLeaveNoFiles
    <2> SUFFICES ASSUME WorkerAccountInv, NEW f \in file, account[f[2]] = "deleted"
                 PROVE  <<f[2], f[3]>> \in copied
      BY DEF DeletedLeaveNoFiles
    <2>1. f \in Stored \X Account \X Document
      BY DEF WorkerAccountInv, AccountInv, TypeOK
    <2>2. f = <<f[1], f[2], f[3]>> /\ f[1] \in Stored /\ f[2] \in Account
          /\ f[3] \in Document
      BY <2>1
    <2>3. FilesNamed
      BY DEF WorkerAccountInv, FileInv
    <2>4. QED
      BY <2>2, <2>3 DEF FilesNamed
  <1>2. QED
    BY WorkerAccountInvariance, <1>1, PTL

\* Only a deletion loses the file of an enrolled worker's document: one that goes
\* on, or was rolled back (permanentlyDeleteWorker, saveWorkerDocument, backfill).
THEOREM OnlyDeletionsLoseFiles == Spec => []MissingFilesHaveAReason
  <1>1. WorkerAccountInv => MissingFilesHaveAReason
    <2> SUFFICES ASSUME WorkerAccountInv, NEW a \in Account, NEW d \in Document,
                        IsEnrolled(a), document[a][d] \in Stored,
                        <<document[a][d], a, d>> \notin file
                 PROVE  Locked(a) \/ a \in harmed
      BY DEF MissingFilesHaveAReason
    <2>1. FilesThere
      BY DEF WorkerAccountInv, FileInv
    <2>2. QED
      BY <2>1 DEF FilesThere, Lost, Locked, TakenFrom
  <1>2. QED
    BY WorkerAccountInvariance, <1>1, PTL

\* The login of a deleted account is not forgotten but in two known ways
\* (the cleanup after permanentlyDeleteWorker).
THEOREM LoginCleanupIsTracked == Spec => []CleanupTracked
  <1>1. WorkerAccountInv => CleanupTracked
    BY DEF WorkerAccountInv
  <1>2. QED
    BY WorkerAccountInvariance, <1>1, PTL
=============================================================================
