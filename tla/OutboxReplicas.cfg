\* Two rows, a connected replica and one that is not.
\* The table may be worked off, so the system may stop.
SPECIFICATION CalmSpec
CONSTANTS
    Event = {e1, e2}
    Publisher = {p1, p2}
    Connected = {p1}
    BatchSize = 2
INVARIANTS
    OutboxInv
    PublishedWasDelivered
PROPERTIES
    ImplementsDelivery
CHECK_DEADLOCK FALSE
