SPECIFICATION UdpSpec
CONSTANTS
    c1 = c1
    c2 = c2
    Clients = {c1, c2}
    Pages = 2
    MaxId = 1
    MaxScrapes = 3
INVARIANTS
    UdpTypeOK
    OwnNumbers
    OverflowLosesOnePage
PROPERTIES
    ScrapeEnds
CHECK_DEADLOCK FALSE
