SPECIFICATION MCSpec
CONSTANTS
    NULL = NULL
    Players = {u1}
    MaxTime = 1
    MatchDate = 1
    MaxFaults = 1
    Choices = {c1}
    Requests = {q1, q2}
    MaxRequests = 3
INVARIANTS
    TypeOK
    CacheAgrees
    GoalsHidden
PROPERTIES
    PodiumClosed
CHECK_DEADLOCK FALSE
