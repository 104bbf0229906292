SPECIFICATION Spec
CONSTANTS
    Ann = Ann
    Bob = Bob
    Nobody = Nobody
    r1 = r1
    r2 = r2
    AccountIds <- MCAccountIds
    Parts <- MCParts
    RequestIds <- MCRequestIds
    MaxRequests = 4
SYMMETRY Symmetry
CHECK_DEADLOCK FALSE
INVARIANTS
    TypeOK
    OneClaim
PROPERTIES
    ClaimsServed
