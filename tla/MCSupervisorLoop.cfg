CONSTANTS
    N = 2
    CanBlock = {}
    MaxWorkers = 1
    PageSize = 2
    ChannelLimit = 1
    RetryLimit = 1
    Backoff = 1
    BlockCheck = 1
    MaxRequests = 2
    MaxRestarts = 1
SPECIFICATION FairSpec
INVARIANTS
    TypeOK
    NoForgottenRequest
PROPERTIES
    RequestsHandled
