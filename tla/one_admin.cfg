SPECIFICATION Spec
CONSTANTS
    NULL = NULL
    Users = {u1}
    Matches = {m1}
    Knockout = {}
    Teams = {t1, t2}
    Goals = {0, 1}
    MaxJobs = 1
    FaultKinds = {"enqueue", "job", "crash"}
    MaxFaults = 2
    Registrars = {r1}
    Assigners = {}
    Predictors = {p1, p2}
    Workers = {w1}
SYMMETRY Symmetry
INVARIANTS
    RedeliveryIsBounded
PROPERTIES
    ResultIsFinal
CHECK_DEADLOCK FALSE
