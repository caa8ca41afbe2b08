CONSTANTS
    Scopes = {s1}
    Workers = {w1, w2}
    Callers = {c1}
    WindowLimit = 1
    MaxHead = 2
    MaxRequests = 2
    MaxTerm = 2
SPECIFICATION FairSpec
INVARIANTS
    TypeOK
    ExactlyOnce
    NoLostInput
    NoSwallowedRequest
PROPERTIES
    ImplementsConsumer
    RequestsAnswered
CHECK_DEADLOCK FALSE
