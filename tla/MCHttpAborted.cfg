SPECIFICATION Spec
CONSTANTS
    NoService = NoService
    Absent = Absent
    NoKey = NoKey
    Services = {s1}
    Keys = {k1, k2}
    Devices = {d1}
    Factory = "shared"
    Static = static
    AutoCreate = TRUE
    MaxID = 2
    MaxRequests = 2
CHECK_DEADLOCK FALSE
INVARIANT AbortedRequestHasNoDevice
