\* Two workers accept the same job.
SPECIFICATION Spec
CONSTANTS
    Worker = {w1, w2}
    NoWorker = NoWorker
    Session = {s1, s2}
    NoSession = NoSession
    DispatchRow = DispatchRow
    NoRow = NoRow
    MaxReplacements = 0
    Traffic <- Answers
INVARIANTS
    AcceptanceNeverDeadlocks
