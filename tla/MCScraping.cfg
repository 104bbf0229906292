SPECIFICATION Spec
CONSTANTS
    udp = udp
    http = http
    t1 = t1
    t2 = t2
    Udp <- MCUdp
    Http <- MCHttp
    Torrents <- MCTorrents
    Links <- MCLinks
    MaxScrape = 1
    Workers = 1
    Interval = 1
    MaxBackoff = 3
    Multiplier <- MCMultiplier
    MaxErrors = 2
    MaxRestarts = 1
INVARIANTS
    TypeOK
    CountsFailures
PROPERTIES
    RecordedFailureRests
    AskedAgain
CHECK_DEADLOCK FALSE
