SPECIFICATION Spec
CONSTANTS
    NULL = NULL
    Clients = {c1, c2, c3}
    MaxFaults = 2
    Users = {u1}
    Sockets = {s1}
    Requests = {q1}
    MaxChanges = 2
INVARIANTS
    TypeOK
    OneListener
    ListenersAreFew
    DeactivatedAreCut
    DeactivatedAreTold
    KicksAreJust
PROPERTIES
    ListensAgain
CHECK_DEADLOCK FALSE
