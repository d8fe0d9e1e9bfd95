\* Two attempts to pay one bill.
SPECIFICATION Spec
CONSTANTS
    Requirement = {r1}
    Extra = {}
    Pause = {}
    Incident = {i1}
    Attempt = {a1, a2}
INVARIANTS
    RatedJobsArePaid
