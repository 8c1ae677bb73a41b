SPECIFICATION Spec
CONSTANTS
    MaxMails = 2
    MaxRecipients = 2
    MaxConnects = 2
    Announced = {"STARTTLS", "PIPELINING", "LOGIN"}
    Refusable = {"greeting", "ehlo", "helo", "starttls", "auth", "cred", "mail", "rcpt", "data", "body"}
    RefusableInPipeline = {"body"}
    HasCredentials = TRUE
INVARIANT FirstMailExists
INVARIANT ReplyMatchesState
INVARIANT BodyFitsEnvelope
INVARIANT NothingIsLost
PROPERTY EveryMailIsReported
CHECK_DEADLOCK FALSE
