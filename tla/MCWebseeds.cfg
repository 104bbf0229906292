SPECIFICATION Spec
CONSTANTS
    u1 = u1
    u2 = u2
    r1 = r1
    r2 = r2
    Urls <- MCUrls
    RequestIds <- MCRequestIds
    MaxRequests = 3
    MaxRestarts = 1
    MaxConcurrent = 1
CHECK_DEADLOCK FALSE
INVARIANTS
    TypeOK
    OnlyProvenServed
    InSyncAlone
PROPERTIES
    Decided
