SPECIFICATION Spec
CONSTANTS
    Signals = {s1, s2}
    MaxAdds = 3
    MaxDepth = 4
SYMMETRY SignalSymmetry
INVARIANT AllMeansAll
INVARIANT NobodyWaitsInVain
CHECK_DEADLOCK FALSE
