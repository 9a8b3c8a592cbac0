\* Two launches, three commits, two migrations; two buttons and one look-up
\* over a dictionary of one and a queue of two; three requests to two chats,
\* one of which has a bucket at a time.
SPECIFICATION MCProcessSpec
CONSTANTS
    p1 = p1
    p2 = p2
    k1 = k1
    k2 = k2
    x1 = x1
    r1 = r1
    r2 = r2
    r3 = r3
    c1 = c1
    c2 = c2
    Process = {p1, p2}
    NoProcess = NoProcess
    Tasks <- MCTasks
    MaxCommit = 3
    Feature = {"digests", "claims", "backoff", "progress"}
    Base <- MCBase
    Autocommitted = 1
    Version <- MCVersion
    Needs <- MCNeeds
    Payload = {k1, k2}
    PayloadTTL = 1
    RamLimit = 1
    PendingLimit = 2
    Press = {x1}
    Calls = {r1, r2, r3}
    Chats = {c1, c2}
    ChatOf <- MCChatOf
    Unit = 2
    Burst = 1
    GlobalFill = 2
    ChatFill = 1
    StateTTL = 1
    RegistrySize = 1
    Pauses = {1, 2}
    RetryLimit = 1
    Horizon = 3
SYMMETRY MCSymmetry
INVARIANTS
    ServesAlone
    LossExplained
    CooldownCovered
    RateKept
    NoWaiterForgotten
PROPERTIES
    AnnouncesOwnVersion
CHECK_DEADLOCK FALSE
