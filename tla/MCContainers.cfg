SPECIFICATION MCSpec
CONSTANTS
    MaxPush = 4
    Key = {k1, k2}
    InitialLen = 6
    Zero = zero
    Word = {zero, a}
    MaxLength = 9
INVARIANTS
    BothWays
    ValuesOwnedOnce
    ArrHolds
    RoomForTwo
PROPERTIES
    DequeSpec
CHECK_DEADLOCK FALSE
