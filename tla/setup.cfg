SPECIFICATION Spec
CONSTANTS
    NULL = NULL
    Registrations = {q1, q2}
    Emails = {e1, e2}
    Nicknames = {n1, n2}
    Matches = {s1, s2}
    Seeds = {s1, s2}
    PoolMax = 2
    MaxFaults = 1
    MaxStarts = 3
INVARIANTS
    TypeOK
    AccountsAreUnique
    ConnectionsReturn
    SeededOnce
    
PROPERTIES
    KeepsDirectory
    RegistrationsEnd
CHECK_DEADLOCK FALSE
