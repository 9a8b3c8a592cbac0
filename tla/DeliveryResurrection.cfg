\* One subscription that is removed while its worker selects.
SPECIFICATION Spec
CONSTANTS
    u1 = u1
    s1 = s1
    s2 = s2
    t1 = t1
    t2 = t2
    t3 = t3
    p1 = p1
    Users = {u1}
    Subs = {s1}
    Owner <- OneUser
    Token = {t1, t2}
    NoToken = NoToken
    Interval = {1}
    PauseLength = {}
    LeaseTicks = 1
    MaxDelay = 1
    EmptyBackoff <- TwoBackoffs
    BackoffEntries = 2
    TotalLimit = 2
    ActiveLimit = 2
    Cooldown = 0
    Post = {p1}
    NoPost = NoPost
    Matches <- SamePost
    DigestMode = {}
    Configurations = {{u1}}
    Concurrency = 1
    SendAttempts = 1
    AmbiguousDelay = 1
    FailureDelay = 1
    OutageDelay = {0}
    Commands = {"add", "remove"}
    MaxCrashes = 0
INVARIANTS
    NoResurrectedProgress
