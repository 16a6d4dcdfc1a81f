SPECIFICATION Spec
CONSTANTS
    NDEBUG = FALSE
    Fields = {"f"}
    FileFields = {"up"}
    MaxUpload = 2
    MaxInt = 20
    Apps <- MCApps
    Requests <- MCSegRequests
    supported_ <- MCSupported
    fallback_ <- MCFallback
    Refusing = {"deny"}
CHECK_DEADLOCK FALSE
INVARIANT PrefixesApplied
