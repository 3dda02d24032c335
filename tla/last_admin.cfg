SPECIFICATION Spec
CONSTANTS
    NULL = NULL
    Accounts = {a1, a2}
    Admins = {a1, a2}
    Requests = {q1, q2}
    Kinds = {"status"}
    Nicknames = {a1, a2}
    Chosen = {c1}
    Temporary = {t1}
    ImageTypes = {"png"}
    MaxRequests = 2
    MaxScore = 0
    MaxFaults = 0
SYMMETRY Symmetry
INVARIANTS
    AnAdminStays
CHECK_DEADLOCK FALSE
