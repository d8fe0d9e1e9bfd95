\* One worker with an offer of each of two jobs.
SPECIFICATION Spec
CONSTANTS
    Job = {j1, j2}
    Worker = {w1}
    NoWorker = NoWorker
    MaxReplacements = 2
    Priced = {}
INVARIANTS
    AtMostOneActiveJob
