\* Two subscriptions of one user that yield the same post, switched off and
\* on, one crash; a lease that lapses with the next tick unless it is renewed.
SPECIFICATION Spec
CONSTANTS
    u1 = u1
    s1 = s1
    s2 = s2
    t1 = t1
    t2 = t2
    t3 = t3
    p1 = p1
    Users = {u1}
    Subs = {s1, s2}
    Owner <- OneUser
    Token = {t1, t2}
    NoToken = NoToken
    Interval = {1}
    PauseLength = {}
    LeaseTicks = 1
    MaxDelay = 1
    EmptyBackoff <- TwoBackoffs
    BackoffEntries = 2
    TotalLimit = 2
    ActiveLimit = 2
    Cooldown = 0
    Post = {p1}
    NoPost = NoPost
    Matches <- SamePost
    DigestMode = {}
    Configurations = {{u1}}
    Concurrency = 1
    SendAttempts = 1
    AmbiguousDelay = 1
    FailureDelay = 1
    OutageDelay = {0}
    Commands = {"add", "toggle"}
    MaxCrashes = 1
SYMMETRY Tokens
INVARIANTS
    NoUnexplainedDuplicate
    AcceptedAccounted
