\* Two administrators publish while two calls, maybe for one booking, are made.
SPECIFICATION Spec
CONSTANTS
    Admin = {a1, a2}
    Key = {k1, k2}
    Call = {c1, c2}
    Quote = {q1}
    NoQuote = NoQuote
    Base <- HourlyService
    Value <- Inputs
    Minutes = {45, 60}
    Scope <- Chores
    Hours = {1, 2}
    Work <- JobWork
    Percent = 85
    MaxRevision = 2
SYMMETRY BookingSymmetry
INVARIANTS
    PublicationOrder
    PriceWasCurrent
    AnsweredIsNotBookedAgain
    BillWithinApproval
PROPERTIES
    BookingKeepsItsPrice
CHECK_DEADLOCK FALSE
