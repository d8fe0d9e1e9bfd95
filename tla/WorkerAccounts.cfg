\* Two accounts one after the other, two deletion calls at a time, one request.
SPECIFICATION Spec
CONSTANTS
    Account = {a1, a2}
    Document = {d1}
    Decision = {"approved", "failed"}
    Request = {r1}
    Call = {c1, c2}
    NoAccount = NoAccount
    NoRequest = NoRequest
SYMMETRY AccountSymmetry
INVARIANTS
    AccountInv
    DeletedLeaveNoFiles
    MissingFilesHaveAReason
    CleanupTracked
CHECK_DEADLOCK FALSE
