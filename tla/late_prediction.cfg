SPECIFICATION Spec
CONSTANTS
    NULL = NULL
    Users = {u1}
    Matches = {m1}
    Knockout = {}
    Teams = {t1, t2}
    Goals = {0, 1}
    MaxJobs = 1
    FaultKinds = {}
    MaxFaults = 0
    Registrars = {r1}
    Assigners = {}
    Predictors = {p1}
    Workers = {w1}
SYMMETRY Symmetry
PROPERTIES
    PlayedPredictionsFrozen
CHECK_DEADLOCK FALSE
