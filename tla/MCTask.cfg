SPECIFICATION FairSpec
CONSTANTS
    Task = {t1, t2, t3}
    NoTask = noTask
    NWorkers = 2
    MaxWorkers = 5
    InitialLen = 6
    High = 10
    Low = 3
    Period = 2
    ThreadWord = {0, 6, 24}
    MonitorCalled = TRUE
INVARIANTS
    SlotsHoldWorkers
    TaskInOnePlace
    SharesEven
PROPERTIES
    EveryTaskRun
CHECK_DEADLOCK FALSE
