SPECIFICATION MCFairSpec
CONSTANTS
    BUFFER_SIZE = 3
    MaxWire = 3
    MaxRead = 2
    Keys = {"LEFT_SHIFT", "RIGHT_SHIFT", "CAPS_LOCK", "letter", "digit", "enter", "unmapped"}
INVARIANTS
    ReadReturnsSomething
    TypedInOrder
    NoStuckShift
PROPERTIES
    IsQueue
    ReaderServed
