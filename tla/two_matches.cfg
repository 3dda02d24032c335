SPECIFICATION FairSpec
CONSTANTS
    NULL = NULL
    Users = {u1}
    Matches = {m1, m2}
    Knockout = {}
    Teams = {t1, t2}
    Goals = {0}
    MaxJobs = 2
    FaultKinds = {"enqueue", "job", "crash"}
    MaxFaults = 1
    Registrars = {r1}
    Assigners = {}
    Predictors = {p1}
    Workers = {w1}
INVARIANTS
    OneJobPerMatch
    ScoreIsSumOfPoints
    PointsFollowRules
    NothingForgotten
PROPERTIES
    RegisteredIsScored
    JobsEnd
    KeepsScoreboard
CHECK_DEADLOCK FALSE
