\* One job; the three workers can use up the limit of two replacements.
\* Liveness: no symmetry.
SPECIFICATION FairSpec
CONSTANTS
    Job = {j1}
    Worker = {w1, w2, w3}
    NoWorker = NoWorker
    MaxReplacements = 2
    Priced = {j1}
INVARIANTS
    AssignmentConsistent
    GivenUpForGood
    ReplacementBudget
    DeletedLeaveNoTrace
    FeeFollowsArrival
PROPERTIES
    RejectionIsFinal
    EveryAssignmentAnnounced
    ImplementsAssignment
    ImplementsLifecycle
    SearchEnds
