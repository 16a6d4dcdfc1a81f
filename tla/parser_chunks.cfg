SPECIFICATION Spec
CONSTANTS
    Bytes <- MCBytes
    Requests <- MCRequests
INVARIANT BodyFaithful
INVARIANT HeadersFaithful
INVARIANT UrlIsSuffix
INVARIANT MessageEnds
