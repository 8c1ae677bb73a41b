SPECIFICATION JobsSpec
CONSTANT MaxExecs = 3
INVARIANT JoinedMeansDone
INVARIANT DestroyedIsUnused
PROPERTY EverybodyReturns
CHECK_DEADLOCK FALSE
