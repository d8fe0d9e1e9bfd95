\* One incident or case on a job whose worker uses the older route.
SPECIFICATION Spec
CONSTANTS
    Requirement = {r1}
    Extra = {}
    Pause = {}
    Incident = {i1}
    Attempt = {a1, a2}
PROPERTIES
    HeldJobIsNotCompleted
