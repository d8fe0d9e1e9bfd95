---------------------------- MODULE WorkerAccount ----------------------------
(***************************************************************************)
(* The worker accounts of one phone number: enrollment with its documents, *)
(* review, and permanent deletion by the worker, by an administrator, or   *)
(* by an administrator who completes a deletion request (index.js,         *)
(* workerAccount.routes.js, workerDeletion.js, documentStorage.js), and    *)
(* the script that copies documents to the durable store.                  *)
(*                                                                         *)
(* A deletion is one transaction that keeps the enrollment row locked from *)
(* its first statement to its end. Files and the Firebase login are not    *)
(* part of it: each call to them takes effect at once and stays.           *)
(***************************************************************************)
EXTENDS Naturals, FiniteSets

CONSTANTS
    Account,      \* ids an enrollment may get; none is given twice
    Document,     \* the document types of an enrollment
    Decision,     \* the review decisions administrators take
    Request,      \* rows of worker_deletion_requests
    Call,         \* deletion calls in progress at the same time
    NoAccount, NoRequest

ASSUME AccountAssumption ==
    /\ Decision \subseteq {"approved", "verified", "failed", "manual_review"}
    /\ NoAccount \notin Account /\ NoRequest \notin Request

VARIABLES
    configured,   \* DOCUMENT_STORAGE_PROVIDER
    account,      \* worker_enrollments.worker_status, and what became of the rest
    document,     \* worker_documents.storage_provider, "none": no row
    file,         \* the stored files: provider, account, document
    announced,    \* decisions about the present account in notification_outbox
    working,      \* it has a dispatch in an active status
    kept,         \* a requirement, extra work, payment or rating names it
    login,        \* the phone number has a Firebase user
    owed,         \* it is the one of an account whose owner had it deleted
    forgotten,    \* that it is to be deleted was lost
    reset,        \* a row of worker_enrollment_resets
    request,      \* worker_deletion_requests.status, "none": no row
    call,         \* the deletion calls
    backfill,     \* the documents the copying script still has to do
    copied,       \* the documents it ever wrote a copy of
    harmed        \* accounts of which a deletion took files and was rolled back

documents == <<document, file>>
history == <<copied, harmed>>
jobs == <<working, kept>>
logins == <<login, owed, forgotten>>
vars == <<configured, account, documents, announced, jobs, logins, reset, request,
          call, backfill, history>>

Stored == {"local_mock", "firebase"}
Provider == Stored \cup {"metadata_only"}
Enrolled == {"kyc_pending", "manual_review", "rejected", "verified"}

\* "undone": the transaction of the enrollment was rolled back.
AccountStatus == Enrolled \cup {"unused", "enrolling", "undone", "deleted"}

RequestStatus == {"none", "pending", "pending_auth_cleanup", "resolved"}

\* "checked": the account was looked up; "deleting": its row is locked and the
\* files are removed one by one; "cleared": all are; "login": committed, the
\* login is next; "resolving", "deferring": the request's new status is next.
Phase == {"idle", "checked", "deleting", "cleared", "login", "resolving", "deferring"}

CallState ==
    [phase : Phase, by : {"nobody", "worker", "admin", "request"},
     account : Account \cup {NoAccount}, request : Request \cup {NoRequest},
     left : SUBSET Document,      \* documents whose file is still to be deleted
     listed : SUBSET Request,     \* requests its transaction resolves
     owner : BOOLEAN]             \* the login it was made with is the present one

Idle == [phase |-> "idle", by |-> "nobody", account |-> NoAccount,
         request |-> NoRequest, left |-> {}, listed |-> {}, owner |-> FALSE]

TypeOK ==
    /\ configured \in Stored
    /\ account \in [Account -> AccountStatus]
    /\ document \in [Account -> [Document -> Provider \cup {"none"}]]
    /\ file \subseteq Stored \X Account \X Document
    /\ announced \subseteq Decision
    /\ working \in BOOLEAN /\ kept \in BOOLEAN
    /\ login \in BOOLEAN /\ owed \in BOOLEAN /\ forgotten \in BOOLEAN
    /\ reset \in BOOLEAN
    /\ request \in [Request -> RequestStatus]
    /\ call \in [Call -> CallState]
    /\ backfill \subseteq Account \X Document \X {"list", "saved"}
    /\ copied \subseteq Account \X Document
    /\ harmed \subseteq Account

Init ==
    /\ configured = "local_mock"
    /\ account = [a \in Account |-> "unused"]
    /\ document = [a \in Account |-> [d \in Document |-> "none"]]
    /\ file = {}
    /\ announced = {} /\ working = FALSE /\ kept = FALSE
    /\ login = FALSE /\ owed = FALSE /\ forgotten = FALSE
    /\ reset = FALSE
    /\ request = [r \in Request |-> "none"]
    /\ call = [c \in Call |-> Idle]
    /\ backfill = {}
    /\ copied = {} /\ harmed = {}

-----------------------------------------------------------------------------
IsEnrolled(a) == account[a] \in Enrolled
NobodyEnrolled == \A a \in Account : ~IsEnrolled(a)
InTransaction(c) == call[c].phase \in {"deleting", "cleared"}

\* The enrollment row is locked, and with it, through the foreign keys, every
\* statement that would refer to it.
Locked(a) == \E c \in Call : InTransaction(c) /\ call[c].account = a

-----------------------------------------------------------------------------
(* Sign-in and enrollment *)

\* verify-otp: Firebase has the number verified, with the user it knows or a new
\* one, and the mark of an earlier deletion is removed, if it is committed.
VerifyPhone ==
    /\ ~(reset /\ \E c \in Call : InTransaction(c))
    /\ login' = TRUE /\ owed' = FALSE /\ forgotten' = FALSE
    /\ reset' = FALSE
    /\ UNCHANGED <<configured, account, documents, announced, jobs, request, call,
                   backfill, history>>

\* The row of a new enrollment; the unique phone number keeps a second
\* transaction waiting until this one ends.
BeginEnrollment(a) ==
    /\ login
    /\ account[a] = "unused"
    /\ \A b \in Account : account[b] \notin Enrolled \cup {"enrolling"}
    /\ account' = [account EXCEPT ![a] = "enrolling"]
    /\ UNCHANGED <<configured, documents, announced, jobs, logins, reset, request,
                   call, backfill, history>>

\* One document: its file, then its row. An image that cannot be decoded leaves
\* a row without a file.
SaveDocument(a, d) ==
    /\ account[a] = "enrolling" /\ document[a][d] = "none"
    /\ \/ /\ document' = [document EXCEPT ![a][d] = configured]
          /\ file' = file \cup {<<configured, a, d>>}
       \/ /\ document' = [document EXCEPT ![a][d] = "metadata_only"]
          /\ file' = file
    /\ UNCHANGED <<configured, account, announced, jobs, logins, reset, request, call,
                   backfill, history>>

CommitEnrollment(a) ==
    /\ account[a] = "enrolling"
    /\ \A d \in Document : document[a][d] # "none"
    /\ account' = [account EXCEPT ![a] = "kyc_pending"]
    /\ UNCHANGED <<configured, documents, announced, jobs, logins, reset, request,
                   call, backfill, history>>

\* Any failure, after a file was saved as well: the rows go, the files stay.
EnrollmentFails(a) ==
    /\ account[a] = "enrolling"
    /\ account' = [account EXCEPT ![a] = "undone"]
    /\ document' = [document EXCEPT ![a] = [d \in Document |-> "none"]]
    /\ UNCHANGED <<configured, file, announced, jobs, logins, reset, request, call,
                   backfill, history>>

-----------------------------------------------------------------------------
(* Review and work *)

StatusAfter(decision) ==
    CASE decision \in {"approved", "verified"} -> "verified"
      [] decision = "failed" -> "rejected"
      [] decision = "manual_review" -> "manual_review"

\* The event id names the worker and the decision: a decision taken a second
\* time records no second event.
Announcement(decision) == announced \cup {decision}

\* A verified worker is not approved again.
Approve(a) ==
    /\ "approved" \in Decision
    /\ IsEnrolled(a) /\ ~Locked(a)
    /\ account[a] # "verified"
    /\ account' = [account EXCEPT ![a] = "verified"]
    /\ announced' = Announcement("approved")
    /\ UNCHANGED <<configured, documents, jobs, logins, reset, request, call, backfill, history>>

\* kyc/simulate decides whatever the status is.
SimulateKyc(a, decision) ==
    /\ decision \in Decision \ {"approved"}
    /\ IsEnrolled(a) /\ ~Locked(a)
    /\ account' = [account EXCEPT ![a] = StatusAfter(decision)]
    /\ announced' = Announcement(decision)
    /\ UNCHANGED <<configured, documents, jobs, logins, reset, request, call, backfill, history>>

AcceptJob(a) ==
    /\ account[a] = "verified" /\ ~Locked(a)
    /\ ~working
    /\ working' = TRUE
    /\ UNCHANGED <<configured, account, documents, announced, kept, logins, reset,
                   request, call, backfill, history>>

\* A row without ON DELETE CASCADE that refers to the worker.
RecordOfWork(a) ==
    /\ IsEnrolled(a) /\ ~Locked(a)
    /\ working
    /\ kept' = TRUE
    /\ UNCHANGED <<configured, account, documents, announced, working, logins, reset,
                   request, call, backfill, history>>

JobEnds ==
    /\ working
    /\ working' = FALSE
    /\ UNCHANGED <<configured, account, documents, announced, kept, logins, reset,
                   request, call, backfill, history>>

-----------------------------------------------------------------------------
(* Deletion calls up to the transaction *)

RecordDeletionRequest(r) ==
    /\ request[r] = "none"
    /\ request' = [request EXCEPT ![r] = "pending"]
    /\ UNCHANGED <<configured, account, documents, announced, jobs, logins, reset,
                   call, backfill, history>>

Start(c, kind, phase, a, r) ==
    /\ call[c].phase = "idle"
    /\ call' = [call EXCEPT ![c] = [Idle EXCEPT !.phase = phase, !.by = kind,
                                    !.account = a, !.request = r,
                                    !.owner = (kind = "worker")]]
    /\ UNCHANGED <<configured, account, documents, announced, jobs, logins, reset,
                   request, backfill, history>>

\* DELETE /workers/me, refused during a job.
DeleteMe(c, a) ==
    /\ login /\ IsEnrolled(a) /\ ~working
    /\ Start(c, "worker", "checked", a, NoRequest)

\* DELETE /admin/workers/:id, of an account the administrator's list showed.
DeleteByAdmin(c, a) ==
    /\ IsEnrolled(a)
    /\ Start(c, "admin", "checked", a, NoRequest)

\* POST /admin/deletion-requests/:id/complete, whatever the request's status: it
\* is about the account the number has now, or about the login only.
CompleteRequest(c, r) ==
    /\ request[r] # "none"
    /\ \/ \E a \in Account :
             IsEnrolled(a) /\ ~working /\ Start(c, "request", "checked", a, r)
       \/ NobodyEnrolled /\ Start(c, "request", "login", NoAccount, r)

-----------------------------------------------------------------------------
(* permanentlyDeleteWorker *)

Refused(c) == call' = [call EXCEPT ![c] = Idle]

\* The account is gone, or a row keeps it: the transaction is rolled back
\* before any file is touched.
DeletionRefused(c) ==
    /\ call[c].phase = "checked"
    /\ ~Locked(call[c].account)
    /\ ~IsEnrolled(call[c].account) \/ kept
    /\ Refused(c)
    /\ UNCHANGED <<configured, account, documents, announced, jobs, logins, reset,
                   request, backfill, history>>

\* Mutant of BeginDeletion: the enrollment row is read without a lock.
BeginDeletionUnlocked(c) ==
    /\ call[c].phase = "checked"
    /\ IsEnrolled(call[c].account) /\ ~kept
    /\ call' = [call EXCEPT ![c].phase = "deleting", ![c].left = Document,
                            ![c].listed = {r \in Request : request[r] = "pending"}]
    /\ UNCHANGED <<configured, account, documents, announced, jobs, logins, reset,
                   request, backfill, history>>

\* The statements up to the deletion of the enrollment. They show at the commit.
BeginDeletion(c) ==
    /\ call[c].phase = "checked"
    /\ ~Locked(call[c].account)
    /\ IsEnrolled(call[c].account) /\ ~kept
    /\ call' = [call EXCEPT ![c].phase = "deleting", ![c].left = Document,
                            ![c].listed = {r \in Request : request[r] = "pending"}]
    /\ UNCHANGED <<configured, account, documents, announced, jobs, logins, reset,
                   request, backfill, history>>

\* deleteWorkerDocument: a file that is not there counts as deleted.
DeleteFile(c, d) ==
    /\ call[c].phase = "deleting" /\ d \in call[c].left
    /\ document[call[c].account][d] \in Stored
    /\ file' = file \ {<<document[call[c].account][d], call[c].account, d>>}
    /\ call' = [call EXCEPT ![c].left = @ \ {d}]
    /\ UNCHANGED <<configured, account, document, announced, jobs, logins, reset,
                   request, backfill, history>>

\* The providers whose files of an enrollment are removed by its prefix.
PrefixProviders(a) == {configured} \cup ({document[a][d] : d \in Document} \cap Stored)

ClearPrefix(c) ==
    /\ call[c].phase = "deleting" /\ call[c].left = {}
    /\ file' = file \ (PrefixProviders(call[c].account) \X {call[c].account} \X Document)
    /\ call' = [call EXCEPT ![c].phase = "cleared"]
    /\ UNCHANGED <<configured, account, document, announced, jobs, logins, reset,
                   request, backfill, history>>

\* A document without a file cannot be deleted: the call ends each time, after
\* other files may have been deleted.
UndeletableDocument(c) ==
    /\ call[c].phase = "deleting"
    /\ \E d \in call[c].left : document[call[c].account][d] = "metadata_only"
    /\ harmed' = IF call[c].left # Document THEN harmed \cup {call[c].account} ELSE harmed
    /\ Refused(c)
    /\ UNCHANGED <<configured, account, documents, announced, jobs, logins, reset,
                   request, backfill, copied>>

\* A call to the store, a statement or the process fails: the rows come back, the
\* files do not.
DeletionFails(c) ==
    /\ call[c].phase \in {"checked", "deleting", "cleared"}
    /\ harmed' = IF InTransaction(c) /\ call[c].left # Document
                 THEN harmed \cup {call[c].account} ELSE harmed
    /\ Refused(c)
    /\ UNCHANGED <<configured, account, documents, announced, jobs, logins, reset,
                   request, backfill, copied>>

\* Mutant of CommitDeletion: it does not wait for the files.
CommitDeletionEarly(c) ==
    LET a == call[c].account IN
    /\ call[c].phase \in {"deleting", "cleared"}
    /\ account' = [account EXCEPT ![a] = "deleted"]
    /\ document' = [document EXCEPT ![a] = [d \in Document |-> "none"]]
    /\ announced' = {} /\ working' = FALSE /\ kept' = FALSE
    /\ reset' = TRUE
    /\ request' = [r \in Request |-> IF r \in call[c].listed THEN "resolved"
                                     ELSE request[r]]
    /\ IF call[c].by = "admin" THEN Refused(c) /\ UNCHANGED owed
       ELSE /\ call' = [call EXCEPT ![c].phase = "login", ![c].listed = {},
                                        ![c].left = {}]
            /\ owed' = login
    /\ UNCHANGED <<configured, file, login, forgotten, backfill, history>>

CommitDeletion(c) ==
    LET a == call[c].account IN
    /\ call[c].phase = "cleared"
    /\ account' = [account EXCEPT ![a] = "deleted"]
    /\ document' = [document EXCEPT ![a] = [d \in Document |-> "none"]]
    /\ announced' = {} /\ working' = FALSE /\ kept' = FALSE
    /\ reset' = TRUE
    /\ request' = [r \in Request |-> IF r \in call[c].listed THEN "resolved"
                                     ELSE request[r]]
    /\ IF call[c].by = "admin" THEN Refused(c) /\ UNCHANGED owed
       ELSE /\ call' = [call EXCEPT ![c].phase = "login", ![c].listed = {}]
            /\ owed' = login
    /\ UNCHANGED <<configured, file, login, forgotten, backfill, history>>

-----------------------------------------------------------------------------
(* The Firebase login, after the commit *)

\* The worker's call names its own user; the administrator's finds whichever the
\* number has, or none.
DeleteLogin(c) ==
    /\ call[c].phase = "login"
    /\ call[c].by = "worker" => login /\ call[c].owner
    /\ login' = FALSE /\ owed' = FALSE /\ forgotten' = FALSE
    /\ call' = [b \in Call |->
                  IF b # c THEN [call[b] EXCEPT !.owner = FALSE]
                  ELSE IF call[c].by = "worker" THEN Idle
                  ELSE [call[c] EXCEPT !.phase = "resolving"]]
    /\ UNCHANGED <<configured, account, documents, announced, jobs, reset, request,
                   backfill, history>>

\* Mutant of LoginFails: the worker's call ends without a record.
LoginFailsSilently(c) ==
    /\ call[c].phase = "login"
    /\ IF call[c].by = "request" THEN call' = [call EXCEPT ![c].phase = "deferring"]
       ELSE Refused(c)
    /\ UNCHANGED <<configured, account, documents, announced, jobs, logins, reset,
                   request, backfill, history>>

\* The worker's call records a request so that the cleanup is tried again.
LoginFails(c) ==
    /\ call[c].phase = "login"
    /\ IF call[c].by = "request"
       THEN /\ call' = [call EXCEPT ![c].phase = "deferring"]
            /\ UNCHANGED request
       ELSE \E r \in Request :
             /\ request[r] = "none"
             /\ request' = [request EXCEPT ![r] = "pending_auth_cleanup"]
             /\ Refused(c)
    /\ UNCHANGED <<configured, account, documents, announced, jobs, logins, reset,
                   backfill, history>>

\* The request's new status, whatever another call has written since; an open
\* deletion that resolves the request has its row locked.
CloseRequest(c) ==
    /\ call[c].phase \in {"resolving", "deferring"}
    /\ ~\E b \in Call : InTransaction(b) /\ call[c].request \in call[b].listed
    /\ request' = [request EXCEPT ![call[c].request] =
                     IF call[c].phase = "resolving" THEN "resolved"
                     ELSE "pending_auth_cleanup"]
    /\ forgotten' = (forgotten \/ (owed /\ call[c].phase = "resolving"
                       /\ request[call[c].request] = "pending_auth_cleanup"))
    /\ Refused(c)
    /\ UNCHANGED <<configured, account, documents, announced, jobs, login, owed, reset,
                   backfill, history>>

\* The process stops after the commit: nothing records what is still to do.
Crash(c) ==
    /\ call[c].phase \in {"login", "resolving", "deferring"}
    /\ forgotten' = (forgotten \/ (owed /\ call[c].phase # "resolving"))
    /\ Refused(c)
    /\ UNCHANGED <<configured, account, documents, announced, jobs, login, owed, reset,
                   request, backfill, history>>

-----------------------------------------------------------------------------
(* scripts/backfillWorkerDocuments.js *)

\* The service is restarted with the durable store.
UseFirebase ==
    /\ configured = "local_mock"
    /\ \A c \in Call : call[c].phase = "idle"
    /\ \A a \in Account : account[a] # "enrolling"
    /\ configured' = "firebase"
    /\ UNCHANGED <<account, documents, announced, jobs, logins, reset, request, call,
                   backfill, history>>

ListDocuments ==
    /\ configured = "firebase" /\ backfill = {}
    /\ backfill' = {e \in Account \X Document \X {"list"} :
                      IsEnrolled(e[1]) /\ document[e[1]][e[2]] = "local_mock"}
    /\ backfill' # {}
    /\ UNCHANGED <<configured, account, documents, announced, jobs, logins, reset,
                   request, call, history>>

\* Mutant of CopyDocument: the file is moved, before its row is changed.
CopyDocumentMoving(a, d) ==
    /\ <<a, d, "list">> \in backfill
    /\ <<"local_mock", a, d>> \in file
    /\ file' = (file \ {<<"local_mock", a, d>>}) \cup {<<"firebase", a, d>>}
    /\ backfill' = (backfill \ {<<a, d, "list">>}) \cup {<<a, d, "saved">>}
    /\ copied' = copied \cup {<<a, d>>}
    /\ UNCHANGED <<configured, account, document, announced, jobs, logins, reset,
                   request, call, harmed>>

\* A copy is written, if the local file is there.
CopyDocument(a, d) ==
    /\ <<a, d, "list">> \in backfill
    /\ \A b \in Account, e \in Document : <<b, e, "saved">> \notin backfill
    /\ LET rest == backfill \ {<<a, d, "list">>} IN
       IF <<"local_mock", a, d>> \in file
       THEN /\ file' = file \cup {<<"firebase", a, d>>}
            /\ backfill' = rest \cup {<<a, d, "saved">>}
            /\ copied' = copied \cup {<<a, d>>}
       ELSE backfill' = rest /\ UNCHANGED <<file, copied>>
    /\ UNCHANGED <<configured, account, document, announced, jobs, logins, reset,
                   request, call, harmed>>

\* Then the row is changed, if it is still the one that was listed. The local
\* file stays.
MoveDocument(a, d) ==
    /\ <<a, d, "saved">> \in backfill /\ ~Locked(a)
    /\ document' = [document EXCEPT ![a][d] = IF @ = "local_mock" THEN "firebase" ELSE @]
    /\ backfill' = backfill \ {<<a, d, "saved">>}
    /\ UNCHANGED <<configured, account, file, announced, jobs, logins, reset, request,
                   call, history>>

BackfillFails ==
    /\ backfill # {}
    /\ backfill' = {}
    /\ UNCHANGED <<configured, account, documents, announced, jobs, logins, reset,
                   request, call, history>>

-----------------------------------------------------------------------------
EnrollmentNext ==
    \/ VerifyPhone
    \/ \E a \in Account :
          \/ BeginEnrollment(a) \/ CommitEnrollment(a) \/ EnrollmentFails(a)
          \/ \E d \in Document : SaveDocument(a, d)

WorkNext ==
    \/ \E a \in Account :
          \/ Approve(a) \/ AcceptJob(a) \/ RecordOfWork(a)
          \/ \E decision \in Decision : SimulateKyc(a, decision)
    \/ JobEnds

\* What a deletion call does by itself when nothing fails.
CallStep(c) ==
    \/ DeletionRefused(c) \/ BeginDeletion(c)
    \/ \E d \in Document : DeleteFile(c, d)
    \/ UndeletableDocument(c) \/ ClearPrefix(c) \/ CommitDeletion(c)
    \/ DeleteLogin(c) \/ CloseRequest(c)

CallFails(c) == DeletionFails(c) \/ LoginFails(c) \/ Crash(c)

DeletionNext ==
    \/ \E r \in Request : RecordDeletionRequest(r)
    \/ \E c \in Call, a \in Account : DeleteMe(c, a) \/ DeleteByAdmin(c, a)
    \/ \E c \in Call, r \in Request : CompleteRequest(c, r)
    \/ \E c \in Call : CallStep(c) \/ CallFails(c)

BackfillNext ==
    \/ UseFirebase \/ ListDocuments \/ BackfillFails
    \/ \E a \in Account, d \in Document : CopyDocument(a, d) \/ MoveDocument(a, d)

Next == EnrollmentNext \/ WorkNext \/ DeletionNext \/ BackfillNext

Spec == Init /\ [][Next]_vars

\* An administrator completes every request again and again, jobs end, and from
\* some moment on the worker takes none and no call fails that is not refused:
\* the best a request can hope for.
CalmSpec ==
    /\ Spec
    /\ WF_vars(JobEnds)
    /\ \A c \in Call : WF_vars(CallStep(c))
    /\ \A r \in Request : SF_vars(\E c \in Call : CompleteRequest(c, r))
    /\ <>[][/\ \A a \in Account : ~AcceptJob(a)
            /\ \A c \in Call : CallFails(c) => CallStep(c)]_vars

-----------------------------------------------------------------------------
(* Properties *)

\* A deletion that was committed took every file of the account with it, but for
\* the documents the copying script wrote again: the script leaves the local
\* file behind, and may write a copy while the account is being deleted.
DeletedLeaveNoFiles ==
    \A f \in file : account[f[2]] = "deleted" => <<f[2], f[3]>> \in copied

\* An enrolled worker's document has its file, unless the image could not be
\* decoded, or a deletion took the file and is not over or was rolled back.
MissingFilesHaveAReason ==
    \A a \in Account, d \in Document :
        /\ IsEnrolled(a) /\ document[a][d] \in Stored
        /\ <<document[a][d], a, d>> \notin file
        => Locked(a) \/ a \in harmed

\* The login of an account its owner had deleted is being deleted, or a request
\* says that it still has to be. That is lost in two ways only: the process stops
\* before it is written, or an older completion of the request overwrites it.
CleanupTracked ==
    owed => \/ forgotten
            \/ \E c \in Call : call[c].phase \in {"login", "deferring"}
            \/ \E r \in Request : request[r] = "pending_auth_cleanup"

\* At most one account of the number is enrolled or being so; a deletion works on
\* an enrolled account, and on each at most one does; and whoever still has the
\* login of a deleted account is told to verify the number again.
AccountInv ==
    /\ TypeOK
    /\ \A a, b \in Account :
          account[a] \in Enrolled \cup {"enrolling"}
          /\ account[b] \in Enrolled \cup {"enrolling"} => a = b
    /\ \A c \in Call : InTransaction(c) => IsEnrolled(call[c].account)
    /\ \A b, c \in Call : InTransaction(b) /\ InTransaction(c)
          /\ call[b].account = call[c].account => b = c
    /\ owed => login /\ reset

\* A deletion request is processed in the end, or an image that could not be
\* decoded is in the way.
RequestsAreProcessed ==
    \A r \in Request :
        request[r] = "pending" ~>
            \/ request[r] # "pending"
            \/ \E a \in Account, d \in Document : document[a][d] = "metadata_only"
=============================================================================
