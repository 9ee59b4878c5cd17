SPECIFICATION Spec
CONSTANTS
    Ids = {i1, i2}
    Sessions = {s1}
    Calls = {c1, c2}
    Passwords = {p1, p2}
    Subjects = {o1}
    AuthRequests = {q1}
    MaxVersion = 2
    None = None
SYMMETRY Symmetry
INVARIANTS
    TypeOK
    SessionsProveCredential
PROPERTIES
    RevokedStaysRevoked
CHECK_DEADLOCK FALSE
