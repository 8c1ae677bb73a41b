SPECIFICATION Spec
CONSTANTS
    MaxReplies = 2
    MaxConnects = 2
    MaxLines = 1
    Refusable = {"greeting", "STLS", "USER", "PASS", "SINGLE", "LIST", "SIZE", "RETR"}
    Cancellable = {"pending"}
INVARIANT LineIsForCurrent
INVARIANT NoneWaitsInVain
INVARIANT CompletedIsTrue
INVARIANT PasswordIsEncrypted
PROPERTY EveryReplyFinishes
CHECK_DEADLOCK FALSE
