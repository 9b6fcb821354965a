SPECIFICATION FairSpec
CONSTANTS
    u1 = u1
    u2 = u2
    u3 = u3
    k1 = k1
    k2 = k2
    s1 = s1
    Users <- TwoUsers
    Workers <- OneWorker
    Services <- OneService
    Service <- SameService
    Requests = 1
    WorkerPools = FALSE
    MaxFaults = 0
    MaxOrphans = 1
    Stoppable <- OneUser
    MayEnd = FALSE
CHECK_DEADLOCK FALSE
PROPERTIES
    
    StoppedUserLeaves
