SPECIFICATION Spec
CONSTANTS
    u1 = u1
    u2 = u2
    u3 = u3
    k1 = k1
    k2 = k2
    s1 = s1
    Users <- TwoUsers
    Workers <- TwoWorkers
    Services <- OneService
    Service <- SameService
    Requests = 1
    WorkerPools = TRUE
    MaxFaults = 1
    MaxOrphans = 1
    Stoppable <- NoUsers
    MayEnd = TRUE
CHECK_DEADLOCK FALSE
SYMMETRY Symmetry
INVARIANTS
    TicketOnce
    LossesAccounted
PROPERTIES
    ServedInTurn
