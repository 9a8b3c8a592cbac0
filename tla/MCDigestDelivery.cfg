\* The loop and a press of the button; one item of each of two subscriptions,
\* which may go as an album or one by one.
SPECIFICATION Spec
CONSTANTS
    i1 = i1
    i2 = i2
    s1 = s1
    s2 = s2
    d1 = d1
    d2 = d2
    t1 = t1
    t2 = t2
    t3 = t3
    t4 = t4
    Item = {i1, i2}
    Subs = {s1, s2}
    SubOf <- MCSubOf
    Order <- MCOrder
    Album = {i1, i2}
    Deliverers = {d1, d2}
    Token = {t1, t2, t3, t4}
    NoToken = NoToken
    BatchLimit = 2
    LeaseTicks = 1
    RetryTicks = 1
    Disturbances = 3
SYMMETRY MCDeliverers
INVARIANTS
    RepeatsExcused
    NoCircularWait
PROPERTIES
    LeavesOnlyDelivered
