SPECIFICATION FairSpec
CONSTANTS MaxPush = 4
INVARIANTS PopsInOrder HarmOnlyAtLastEntry SizeCounts
PROPERTIES EveryEntryPopped
CHECK_DEADLOCK FALSE
