SPECIFICATION Spec
CONSTANTS
    MaxSize = 2
    MaxBytes = 5
    IntMax = 7
INVARIANT ListIsLive
PROPERTY IsByteQueue
PROPERTY EverythingIsRead
CHECK_DEADLOCK FALSE
