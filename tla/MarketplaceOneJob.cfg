\* One job with two of everything a rule compares, and an attempt more.
SPECIFICATION Spec
CONSTANTS
    Requirement = {r1, r2}
    Extra = {x1, x2}
    Pause = {p1}
    Incident = {i1}
    Attempt = {a1, a2, a3}
SYMMETRY RequestSymmetry
INVARIANTS
    MarketplaceInv
    ScopeMatchesDecisions
    ConfirmedIsNotAwaited
    OnlyApprovedIsBilled
    ChargesMatchAttempts
    TimingAccounted
PROPERTIES
    ImplementsLifecycle
    BillIsFinal
    HeldBeforeBillIsNeverBilled
    ReviewFixesCharges
