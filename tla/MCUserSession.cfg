\* Four updates at the gate; two handlers with at most three buttons and three
\* flows; two updates of favorites, two of the blacklist, two of the settings.
SPECIFICATION UserSpec
CONSTANTS
    t1 = t1
    t2 = t2
    t3 = t3
    t4 = t4
    e1 = e1
    e2 = e2
    e3 = e3
    u1 = u1
    u2 = u2
    d1 = d1
    d2 = d2
    p1 = p1
    p2 = p2
    c1 = c1
    c2 = c2
    Tasks = {t1, t2, t3, t4}
    Entries = {e1, e2, e3}
    NoEntry = NoEntry
    Handler = {d1, d2}
    Opened <- MCOpened
    Keyboard <- MCKeyboard
    MaxPerUser = 2
    MaxGeneration = 3
    MaxButton = 3
    Update = {u1, u2}
    Post = {p1, p2}
    Collection = {c1, c2}
    Editor = {u1, u2}
    Tag = {"x", "y"}
    PresetTags = {"x", "y"}
    Writer = {u1, u2}
    MaxPause = 1
SYMMETRY MCSymmetry
INVARIANTS
    Serialized
    NoUnexplainedStranding
    PendingIsOneFlow
    TwinsExcused
    LibraryIntact
    ManualTagStays
    SettingsKept
PROPERTIES
    StaleForGood
CHECK_DEADLOCK FALSE
