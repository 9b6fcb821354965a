SPECIFICATION WorkerFairSpec
CONSTANTS
    manager = manager
    broker = broker
    w = w
    t1 = t1
    t2 = t2
    Managers <- OneManager
    Brokers <- OneBroker
    Workers <- OneWorker
    Threads <- TwoThreads
    Days = 2
    MaxCrashes = 0
    LongDays = TRUE
CHECK_DEADLOCK FALSE
PROPERTIES
    ShutdownCompletes
