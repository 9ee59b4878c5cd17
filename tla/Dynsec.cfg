SPECIFICATION Spec
CONSTANTS
    Clients = {u}
    Groups = {g}
    CustomRoles = {}
    Acls = {a}
    Calls = {c1, c2}
    Asked <- MCAsked
    MaxRequests = 2
    MaxChanges = 1
    None = None
SYMMETRY Symmetry
INVARIANTS
    TypeOK
    CreationContract
PROPERTIES
    ProvidedRoleIsFound
    MigrationKeepsAccess
    OperatorsChoiceStays
CHECK_DEADLOCK FALSE
