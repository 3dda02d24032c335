SPECIFICATION Spec
CONSTANTS
    NULL = NULL
    Users = {u1}
    Matches = {m1}
    Knockout = {}
    Teams = {t1, t2}
    Goals = {0, 1}
    MaxJobs = 2
    FaultKinds = {}
    MaxFaults = 0
    Registrars = {r1, r2}
    Assigners = {}
    Predictors = {p1}
    Workers = {w1}
SYMMETRY Symmetry
INVARIANTS
    ScoreWithinRules
CHECK_DEADLOCK FALSE
