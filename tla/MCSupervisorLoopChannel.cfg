CONSTANTS
    N = 2
    CanBlock = {1, 2}
    MaxWorkers = 1
    PageSize = 2
    ChannelLimit = 1
    RetryLimit = 2
    Backoff = 1
    BlockCheck = 1
    MaxRequests = 2
    MaxRestarts = 0
SPECIFICATION Spec
INVARIANTS
    RetryChannelBounded
