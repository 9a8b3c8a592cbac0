\* Two post requests and an autocomplete; two steps of backoff;
\* alerts and recoveries that get lost or arrive in any order.
SPECIFICATION MCSpec
CONSTANTS
    r1 = r1
    r2 = r2
    a1 = a1
    Requests = {r1, r2, a1}
    RecoveryRequests = {r1, r2}
    NoRequest = NoRequest
    Backoff <- MCBackoff
    AlertAfter = 2
    AlertEvery = 2
    Horizon = 4
INVARIANTS
    OutageTraffic
    BackoffCountsRefusals
    AlertAnswered
PROPERTIES
    HalfOpenResolves
