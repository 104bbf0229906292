CONSTANTS
    w1 = w1
    w2 = w2
    title = title
    description = description
    a = a
    b = b
    u1 = u1
    u2 = u2
    g1 = g1
    g2 = g2
    p1 = p1
    NoRow = NoRow
    NotSet = NotSet
    Workers <- MCWorkers
    Columns <- MCColumns
    Values <- MCValues
    Urls <- MCUrls
    Tags <- MCTags
    Parts <- MCParts
    MaxRequests = 3
SPECIFICATION Spec
CHECK_DEADLOCK FALSE
SYMMETRY Symmetry
INVARIANTS
    TypeOK
    HistoryHolds
PROPERTIES
    EditsTouchOwnFields
