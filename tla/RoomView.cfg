CONSTANTS
    MaxMsgs = 3
    MaxEdits = 1
    Limit = 1
    MaxDisconnects = 1
    MaxChanges = 1
    MaxRequests = 2
SPECIFICATION Spec
INVARIANTS TypeOK WithheldHasDeadline
PROPERTIES CopiesNeverRegress CatchesUp
