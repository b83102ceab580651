CONSTANTS
    Workers = {w1, w2}
    Loop = loop
    NoThread = none
    PipeCap = 1
    MaxNotify = 2
SPECIFICATION FairSpec
INVARIANTS NoLostMessage PipeInv
PROPERTIES MailboxSpec EveryMessageDelivered
