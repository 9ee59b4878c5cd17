SPECIFICATION FairSpec
CONSTANTS
    Jtis = {j1, j2}
    Requests = {r1}
    Updates = {u1, u2}
    Capabilities = {read}
    Read = read
    ReplayCacheMaxEntries = 2
    ClockSkewSeconds = 0
    MaxProofAgeSeconds = 1
    ProofLife = 1
    MaxDrift = 0
    MaxTime = 0
    NoJti = NoJti
PROPERTIES
    SettledAccessHolds
    RevokedStreamsEnd
