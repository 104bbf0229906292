CONSTANTS
    w1 = w1
    w2 = w2
    s1 = s1
    s2 = s2
    s3 = s3
    j1 = j1
    NoServer = NoServer
    Workers <- MCWorkers
    Servers <- MCServers
    RegisteredJobs <- MCJobs
    MaxStops = 3
    MaxCrashes = 1
SPECIFICATION SchedulerSpec
CHECK_DEADLOCK FALSE
INVARIANTS
    SchedulerTypeOK
    OneSchedulerAlone
    StoreFollowsConfig
PROPERTIES
    OneSchedulerInTheEnd
