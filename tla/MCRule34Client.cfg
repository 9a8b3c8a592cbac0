\* An autocomplete and a post request of a user, and one of a subscription.
SPECIFICATION Spec
CONSTANTS
    i1 = i1
    i2 = i2
    b1 = b1
    Requests = {i1, i2, b1}
    Kind <- MCKind
    Concurrency <- MCConcurrency
    QuotaLimit = 2
    Window = 2
    QueueLimit = 2
    InteractiveBurst = 1
    RetryAfter = {1}
    RecoveryRequests = {i1, b1}
    NoRequest = NoRequest
    Backoff <- MCBackoff
    AlertAfter = 1
    AlertEvery = 2
    Horizon = 3
INVARIANTS
    RollingQuota
    BackgroundTurn
    NobodySleepsInVain
PROPERTIES
    ComponentSpecs
CHECK_DEADLOCK FALSE
