SPECIFICATION Spec
CONSTANTS
    Ada = Ada
    Bea = Bea
    Cyd = Cyd
    r1 = r1
    r2 = r2
    ScopeNames <- MCScopeNames
    AccountIds <- MCAccountIds
    InitialRoots <- MCRoots
    RequestIds <- MCRequestIds
    MaxRequests = 3
SYMMETRY Symmetry
INVARIANTS
    TypeOK
    SomeActiveRoot
    AuditTellsTruth
PROPERTIES
    NoCoup
CHECK_DEADLOCK FALSE
