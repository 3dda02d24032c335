SPECIFICATION Spec
CONSTANTS
    NULL = NULL
    Accounts = {a1, a2}
    Admins = {a1, a2}
    Requests = {q1, q2}
    Kinds = {"status", "profile", "reset", "image"}
    Nicknames = {a1, a2, n1}
    Chosen = {c1, c2}
    Temporary = {t1}
    ImageTypes = {"png", "jpeg"}
    MaxRequests = 3
    MaxScore = 1
    MaxFaults = 1
SYMMETRY Symmetry
INVARIANTS
    PasswordIsKnown
    CreditsStand
    PasswordColumnsAgree
    AnAdminStaysAlone
    AvatarExists
CHECK_DEADLOCK FALSE
