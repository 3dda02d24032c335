SPECIFICATION Spec
CONSTANTS
    NULL = NULL
    Users = {}
    Matches = {m1}
    Knockout = {m1}
    Teams = {t1, t2}
    Goals = {0, 1}
    MaxJobs = 1
    FaultKinds = {}
    MaxFaults = 0
    Registrars = {r1}
    Assigners = {a1}
    Predictors = {}
    Workers = {}
SYMMETRY Symmetry
PROPERTIES
    ResultIsFinal
CHECK_DEADLOCK FALSE
