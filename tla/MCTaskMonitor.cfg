SPECIFICATION FairSpec
CONSTANTS
    Task = {t1, t2, t3}
    NoTask = noTask
    NWorkers = 2
    MaxWorkers = 5
    InitialLen = 6
    High = 10
    Low = 3
    Period = 2
    ThreadWord = {0, 6, 24}
    MonitorCalled = FALSE
PROPERTIES
    MonitorRuns
CHECK_DEADLOCK FALSE
