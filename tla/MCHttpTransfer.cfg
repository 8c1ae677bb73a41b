SPECIFICATION Spec
CONSTANTS
    MaxRequests = 2
    MaxUnits = 2
INVARIANT WireIsWellFormed
INVARIANT BodyIsNoRequest
INVARIANT NoResponseHangs
INVARIANT NoRequestIsForgotten
CHECK_DEADLOCK FALSE
