\* A worker that waits for the head of the queue, and the end of that wait.
SPECIFICATION Spec
CONSTANTS
    u1 = u1
    u2 = u2
    j1 = j1
    j2 = j2
    j3 = j3
    w1 = w1
    w2 = w2
    Users = {u1, u2}
    Jobs = {j1, j2, j3}
    Owner <- MCOwner
    Favorites = {j1}
    NoJob = NoJob
    Workers = {w1, w2}
    QueueCapacity = 2
INVARIANTS
    WorkersStay
