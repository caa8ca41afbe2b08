SPECIFICATION FairSpec
CONSTANTS
    Workers = {w1}
    WindowLimit = 1
    MaxAttempts = 2
    MaxCharges = 1
    MaxHead = 1
    MaxRequests = 2
    MaxTerm = 2
PROPERTIES
    RequestsSettle
CHECK_DEADLOCK FALSE
