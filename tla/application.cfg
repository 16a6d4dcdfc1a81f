SPECIFICATION Spec
CONSTANTS
    NDEBUG = FALSE
    Fields = {"f"}
    FileFields = {"up"}
    MaxUpload = 2
    MaxInt = 20
    Apps <- MCApps
    Requests <- MCRequests
    supported_ <- MCSupported
    fallback_ <- MCFallback
    Refusing = {"deny"}
INVARIANT PathResolved
INVARIANT Faithful
INVARIANT UrlInverse
INVARIANT LocaleChosen
INVARIANT Served
CHECK_DEADLOCK FALSE
