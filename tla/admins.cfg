SPECIFICATION Spec
CONSTANTS
    NULL = NULL
    Users = {}
    Matches = {m1, m2}
    Knockout = {m2}
    Teams = {t1, t2}
    Goals = {0}
    MaxJobs = 2
    FaultKinds = {}
    MaxFaults = 0
    Registrars = {r1}
    Assigners = {a1}
    Predictors = {}
    Workers = {}
SYMMETRY Symmetry
INVARIANTS
    ResultAllOrNothing
    TeamsDifferUntilPlayed
PROPERTIES
    GroupMatchStands
CHECK_DEADLOCK FALSE
