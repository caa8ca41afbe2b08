CONSTANTS
    N = 2
    CanBlock = {2}
    MaxWorkers = 1
    PageSize = 2
    ChannelLimit = 1
    RetryLimit = 1
    Backoff = 2
    BlockCheck = 2
    MaxRequests = 2
    MaxRestarts = 1
SPECIFICATION Spec
INVARIANTS
    BoundedMemory
    OneInvocationPerKey
PROPERTIES
    BackoffHolds
