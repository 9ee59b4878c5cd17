SPECIFICATION Spec
CONSTANTS
    Calls = {c1}
    Handlers = {h1, h2}
    Texts = {t1, t2}
    Torn = Torn
    MaxPid = 2
    None = None
SYMMETRY Symmetry
INVARIANTS
    TypeOK
    FileWhole
    OneBroker
PROPERTIES
    NoLostPush
    OperationApplies
CHECK_DEADLOCK FALSE
