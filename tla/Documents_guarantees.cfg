\* Three calls on one key, on any backend.
SPECIFICATION Spec
CONSTANTS
    MaxCalls = 3
    MaxAttempts = 2
    MaxUpsets = 1
    Absent = Absent
    Pending = Pending
    Conflict = Conflict
    Missing = Missing
    Raised = Raised
    TimedOut = TimedOut
    Refused = Refused
    Done = Done
INVARIANTS TypeOK OneClaimant UpdatesAreKept AnswersAreTrue ConflictMeansProgress
PROPERTIES ReappearanceIsNoticed
