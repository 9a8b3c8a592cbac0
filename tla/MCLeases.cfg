\* Three subscriptions of a user who may have two, one of them active; a
\* deactivated one keeps its claim.  Two overlapping runs of /retry_failed on
\* two failures: a post with a photo's URL, tried once and then downloaded,
\* which the subscription worker meets again, and a post without URLs.
SPECIFICATION LeasesSpec
CONSTANTS
    u1 = u1
    s1 = s1
    s2 = s2
    s3 = s3
    t1 = t1
    t2 = t2
    f1 = f1
    f2 = f2
    w1 = w1
    w2 = w2
    k1 = k1
    k2 = k2
    Users = {u1}
    Subs = {s1, s2, s3}
    Owner <- MCOwner
    Token = {t1, t2}
    NoToken = NoToken
    Interval = {1}
    PauseLength = {1}
    LeaseTicks = 2
    MaxDelay = 1
    EmptyBackoff <- MCEmptyBackoff
    BackoffEntries = 2
    TotalLimit = 2
    ActiveLimit = 1
    Cooldown = 1
    Senders = {w1, w2}
    MostUrls = 1
    Urls <- MCUrls
    Downloadable = {1}
    Tries = 1
    Failures = {f1, f2}
    RetryToken = {k1, k2}
    NoRetryToken = NoRetryToken
    ClaimLimit = 2
    FailureLease = 1
    Contested = {f1}
    MaxRuns = 2
SYMMETRY MCSymmetry
INVARIANTS
    OneCopyPerChain
    RetryDuplicatesExcused
PROPERTIES
    LeaseSpec
    FailureKept
    RetryLeases
