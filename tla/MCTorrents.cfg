CONSTANTS
    w1 = w1
    w2 = w2
    h1 = h1
    h2 = h2
    n1 = n1
    n2 = n2
    c1 = c1
    c2 = c2
    bare = bare
    Workers <- MCWorkers
    Hashes <- MCHashes
    Names <- MCNames
    Contents <- MCContents
    Bare <- MCBare
    NoFile = NoFile
    MaxRequests = 3
    MaxFailures = 1
SPECIFICATION Spec
CHECK_DEADLOCK FALSE
SYMMETRY Symmetry
INVARIANTS
    TypeOK
    RowMatchesFile
    UploadKeepsTorrent
