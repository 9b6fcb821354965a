SPECIFICATION UsersFairSpec
CONSTANTS
    Threads <- TwoThreads
    Tasks <- ThreeUsers
    NoTask = NoTask
    QueueSize = 2
    Capacity = 2
    Initial = 2
    Batch = 1
    ScaleBy = 2
    MaxTarget = 4
    MaxFaults = 1
CHECK_DEADLOCK FALSE
INVARIANTS
    SlotExclusive
    SpawnFinds
    WorkConserving
    TaskOnce
    GracefulDrains
    AccountsSettle
PROPERTIES
    ClockStarts
    ManagerExits
