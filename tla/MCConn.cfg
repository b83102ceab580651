CONSTANTS
    Conns = {c1}
    NoConn = none
    NWorkers = 2
    MaxReqs = 2
    Window = 2
    SockCap = 2
    MaxTasks = 4
    AllowClose = TRUE
    AllowReset = FALSE
SPECIFICATION FairSpec
INVARIANTS SingleSessionThread SessionNotFreed
PROPERTIES RepliesWritten RequestsAnswered ClosedIsFreed
