\* One subscription, every command of its user, three requests per send,
\* digest mode on and off; the user may lose access with a restart.  Under
\* fairness, with failing statements and shutdowns, due rows are served.
SPECIFICATION FairSpec
CONSTANTS
    u1 = u1
    s1 = s1
    s2 = s2
    t1 = t1
    t2 = t2
    t3 = t3
    p1 = p1
    Users = {u1}
    Subs = {s1}
    Owner <- OneUser
    Token = {t1, t2}
    NoToken = NoToken
    Interval = {1}
    PauseLength = {1}
    LeaseTicks = 2
    MaxDelay = 1
    EmptyBackoff <- TwoBackoffs
    BackoffEntries = 2
    TotalLimit = 2
    ActiveLimit = 2
    Cooldown = 0
    Post = {p1}
    NoPost = NoPost
    Matches <- SamePost
    DigestMode = {s1}
    Configurations = {{u1}, {}}
    Concurrency = 1
    SendAttempts = 3
    AmbiguousDelay = 1
    FailureDelay = 1
    OutageDelay = {0}
    Commands = {"add", "remove", "pause", "interval"}
    MaxCrashes = 0
INVARIANTS
    OneSendAfterRevocation
    RemovedLeavesNothing
PROPERTIES
    ProtocolSpec
    ClaimEnds
    DueServed
