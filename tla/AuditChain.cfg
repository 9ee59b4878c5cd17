SPECIFICATION Spec
CONSTANTS
    Entries = {1, 2, 3}
    Calls = {c1, c2}
    MaxTime = 2
    None = None
    NoUser = NoUser
    NoProof = NoProof
SYMMETRY Symmetry
INVARIANTS
    TypeOK
    VerificationTells
    AppendOrder
CHECK_DEADLOCK FALSE
