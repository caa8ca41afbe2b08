SPECIFICATION Spec
CONSTANTS
    Workers = {w1, w2}
    WindowLimit = 1
    MaxAttempts = 2
    MaxCharges = 1
    MaxHead = 2
    MaxRequests = 2
    MaxTerm = 2
SYMMETRY Slots
VIEW View
INVARIANTS
    TypeOK
    RequestsCovered
    UnreadIsRemembered
    BlocksStayRetryable
    ChargesBounded
CHECK_DEADLOCK FALSE
