\* Two calls on any backend, below the root log or a named one.
SPECIFICATION FairSpec
CONSTANTS
    MaxCalls = 2
    Last = 2
    MaxAttempts = 2
    MaxUpsets = 1
    Doc = Doc
    Absent = Absent
    Any = Any
    Pending = Pending
    Raised = Raised
    Refused = Refused
    Written = Written
    Nobody = Nobody
INVARIANTS TypeOK OneWinner ListSeesEarlier
PROPERTIES NumberedAreImmutable ImplementsObjectStore CallsReturn
