SPECIFICATION FairSpec
CONSTANTS
    s1 = s1
    s2 = s2
    Sess = {s1, s2}
    Words <- MCWords
    Scripts <- MCScripts
    Polite = {s2}
    NullStr = NullStr
INVARIANTS
    RepliesExplained
    OneReplyEach
    StringsWhole
    SplitByStack
PROPERTIES
    PoliteAnswered
CHECK_DEADLOCK FALSE
