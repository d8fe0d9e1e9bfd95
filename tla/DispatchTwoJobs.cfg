\* Two jobs compete for two workers; one replacement search per job, so that
\* two workers are enough to exceed the limit.
SPECIFICATION Spec
CONSTANTS
    Job = {j1, j2}
    Worker = {w1, w2}
    NoWorker = NoWorker
    MaxReplacements = 1
    Priced = {j1}
SYMMETRY WorkerSymmetry
INVARIANTS
    DispatchInv
PROPERTIES
    ImplementsJobOffers
