CONSTANTS
    Inst = {i1, i2}
    Room = {r1, r2}
    MaxEntries = 2
    MaxAttempts = 2
    MaxRestarts = 1
    MaxRetries = 0
    SaveMayFail = FALSE
    AwaitRestore = TRUE
SPECIFICATION Spec
INVARIANT Durable
