\* One account, one deletion request, and nothing fails for ever.
SPECIFICATION CalmSpec
CONSTANTS
    Account = {a1}
    Document = {d1}
    Decision = {"approved"}
    Request = {r1}
    Call = {c1}
    NoAccount = NoAccount
    NoRequest = NoRequest
PROPERTIES
    RequestsAreProcessed
CHECK_DEADLOCK FALSE
