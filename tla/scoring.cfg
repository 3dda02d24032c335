SPECIFICATION Spec
CONSTANTS
    NULL = NULL
    NaN = NaN
    MaxGoals = 5
    Users = {1, 2, 3}
    MaxTotal = 2
    PageMax = 2
    DefaultLimit = 1
INVARIANTS
    FollowsTable
    SqlAgrees
    PagesPartition
    PositionIsRank
    SeedIsPlayable
CHECK_DEADLOCK FALSE
