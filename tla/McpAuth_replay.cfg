SPECIFICATION Spec
CONSTANTS
    Jtis = {j1, j2, j3}
    Requests = {r1, r2}
    Updates = {}
    Capabilities = {read}
    Read = read
    ReplayCacheMaxEntries = 2
    ClockSkewSeconds = 1
    MaxProofAgeSeconds = 2
    ProofLife = 2
    MaxDrift = 2
    MaxTime = 6
    NoJti = NoJti
SYMMETRY Symmetry
INVARIANTS
    TypeOK
    FirstUseIsFree
PROPERTIES
    NoReplay
