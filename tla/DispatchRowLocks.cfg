\* Two connections, one of them maybe left in a transaction, and two workers.
SPECIFICATION Spec
CONSTANTS
    Worker = {w1, w2}
    NoWorker = NoWorker
    Session = {s1, s2}
    NoSession = NoSession
    DispatchRow = DispatchRow
    NoRow = NoRow
    MaxReplacements = 1
    Traffic <- AllKinds
INVARIANTS
    LocksInv
    CommittedConsistent
    DeadlocksNeedDisorder
PROPERTIES
    HandlersAreAtomic
SYMMETRY LockSymmetry
