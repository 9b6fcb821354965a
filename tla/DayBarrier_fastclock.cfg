SPECIFICATION FairSpec
CONSTANTS
    manager = manager
    broker = broker
    worker = worker
    Managers <- OneManager
    Brokers <- OneBroker
    Workers <- OneWorker
    Days = 2
    MaxCrashes = 0
    LongDays = FALSE
CHECK_DEADLOCK FALSE
PROPERTIES
    EveryDayStarts
