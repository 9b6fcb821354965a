SPECIFICATION WorkerFairSpec
CONSTANTS
    manager = manager
    broker = broker
    w = w
    t1 = t1
    t2 = t2
    Managers <- OneManager
    Brokers <- OneBroker
    Workers <- OneWorker
    Threads <- TwoThreads
    Days = 3
    MaxCrashes = 1
    LongDays = TRUE
CHECK_DEADLOCK FALSE
INVARIANTS
    WaitersAreCounted
    CountIsExact
    DayStartsTogether
    ThreadsServeTheDay
PROPERTIES
    NobodyAhead
    IsOneParticipant
    EveryDayStarts
    SubsystemsStop
