SPECIFICATION FairSpec
CONSTANTS
    Urls <- MCUrls
    Bytes <- MCBytes
    Responses <- MCResponses
    Keys = {"k"}
    Vals = {"u", "v"}
    Pairs = {"p=1"}
    MaxSets = 2
    BufSz = 3
PROPERTY CallEnds
INVARIANT ExchangeFaithful
INVARIANT OutcomeRight
CHECK_DEADLOCK FALSE
