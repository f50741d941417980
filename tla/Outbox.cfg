CONSTANTS
    Inst = {i1}
    Room = {r1, r2}
    MaxEntries = 2
    MaxAttempts = 1
    MaxRestarts = 1
    MaxRetries = 1
    SaveMayFail = TRUE
    AwaitRestore = TRUE
SPECIFICATION Spec
SYMMETRY Symmetry
INVARIANTS TypeOK Durable
PROPERTY GoneIsNeverSent
