SPECIFICATION Spec
CONSTANTS
    MaxConns = 2
    Clients = {c1}
    Objects = {o1, o2}
    Fallbacks = {o1}
    Kinds = {"call", "noop", "bad"}
    MaxUp = 2
    MaxDown = 1
    MaxDepth = 2
INVARIANT TablesAgree
INVARIANT CrashNeedsReentry
PROPERTY CallsTravelInOrder
PROPERTY EveryCallArrives
CHECK_DEADLOCK FALSE
