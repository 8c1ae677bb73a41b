SPECIFICATION Spec
CONSTANTS
    MaxSessions = 2
    MaxSets = 2
INVARIANT SecretsGoToKnownHosts
INVARIANT RefusedIsNotRepeated
INVARIANT CredentialsAreUsed
INVARIANT ReadyMeansAuthenticated
INVARIANT TerminalComesFirst
CHECK_DEADLOCK FALSE
