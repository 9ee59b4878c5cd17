SPECIFICATION Spec
CONSTANTS
    Records = {r1, r2}
    Clients = {k1, k2, k3}
    Watchers = {w1, w2}
    Calls = {c1, c2}
    Filters = {}
    Topics = {}
    Limits = {}
    AbsoluteMax = 1
    MaxMessages = 0
    NoRecord = NoRecord
    NoClient = NoClient
    NoFilter = NoFilter
    fAll = fAll
    fOne = fOne
    tOne = tOne
    tTwo = tTwo
    Matching <- MCMatching
SYMMETRY Symmetry
INVARIANTS
    OneConnectionPerSession
CHECK_DEADLOCK FALSE
