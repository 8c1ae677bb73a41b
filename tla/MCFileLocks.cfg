SPECIFICATION LocksSpec
CONSTANTS
    p = p
    q = q
    f1 = f1
    f2 = f2
    f3 = f3
    f4 = f4
    l1 = l1
    l2 = l2
    l3 = l3
    l4 = l4
    Process = {p, q}
    File = {f1, f2, f3, f4}
    Lock = {l1, l2, l3, l4}
    ProcessOf <- MCProcessOf
    Choices <- MCChoices
    MaxInt = 3
    MaxByte = 5
    MaxCalls = 4
INVARIANT WritersAreAlone
INVARIANT NothingStaysLocked
CHECK_DEADLOCK FALSE
PROPERTY EveryLockReturns
