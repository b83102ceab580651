CONSTANTS
    Conns = {c1}
    NoConn = none
    NWorkers = 2
    MaxReqs = 2
    Window = 2
    SockCap = 1
    MaxTasks = 4
    AllowClose = FALSE
    AllowReset = FALSE
SPECIFICATION FairSpec
PROPERTY RepliesWritten
