SPECIFICATION FairSpec
CONSTANTS
    Methods = {"NONE", "LOGIN", "START_TLS"}
    Addresses = {"a", "b", "c"}
    Messages <- MCMessages
    Lines <- MCLines
    MaxSubmits = 2
INVARIANT SubmitSound
INVARIANT FailuresTold
PROPERTY CallEnds
INVARIANT Orderly
CHECK_DEADLOCK FALSE
