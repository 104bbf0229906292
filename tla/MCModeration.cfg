SPECIFICATION Spec
CONSTANTS
    Uma = Uma
    Adm = Adm
    Rev = Rev
    upload = upload
    dataset = dataset
    onUpload = onUpload
    onUma = onUma
    r1 = r1
    r2 = r2
    ScopeNames <- MCScopeNames
    AccountIds <- MCAccountIds
    Linked <- MCLinked
    Items <- MCItems
    Uploads <- MCUploads
    Owner <- MCOwner
    Posted <- MCPosted
    Reports <- MCReports
    Target <- MCTarget
    RequestIds <- MCRequestIds
    MaxRequests = 3
SYMMETRY Symmetry
CHECK_DEADLOCK FALSE
INVARIANTS
    TypeOK
    AuditHolds
    NameIffPresent
PROPERTIES
    ResolvedOnceAndFully
    DeskSpec
