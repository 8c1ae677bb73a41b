SPECIFICATION Spec
CONSTANTS
    MaxMails = 1
    MaxRecipients = 1
    MaxConnects = 1
    Announced = {}
    Refusable = {"mail", "rcpt"}
    RefusableInPipeline = {}
    HasCredentials = FALSE
INVARIANT SentMeansAccepted
CHECK_DEADLOCK FALSE
