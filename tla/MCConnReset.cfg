CONSTANTS
    Conns = {c1}
    NoConn = none
    NWorkers = 2
    MaxReqs = 2
    Window = 2
    SockCap = 2
    MaxTasks = 1
    AllowClose = TRUE
    AllowReset = TRUE
SPECIFICATION Spec
INVARIANTS ListedIffInactive FreeNotForgotten ReplyNotStuck
