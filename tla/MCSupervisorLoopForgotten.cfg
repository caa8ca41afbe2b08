CONSTANTS
    N = 2
    CanBlock = {2}
    MaxWorkers = 1
    PageSize = 2
    ChannelLimit = 1
    RetryLimit = 1
    Backoff = 1
    BlockCheck = 2
    MaxRequests = 1
    MaxRestarts = 0
SPECIFICATION Spec
INVARIANTS
    NoForgottenRequest
