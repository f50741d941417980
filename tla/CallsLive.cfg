\* A direct or group room of two users, one request at a time beside the
\* reconciler; one is removed, or logged out.  What is pushed changes no call.
CONSTANTS
    s1 = s1
    s2 = s2
    s3 = s3
    s4 = s4
    alice = alice
    bob = bob
    carol = carol
    Free = Free
    Session = {s1, s3}
    Owner <- Owners
    Pair = {alice, bob}
    MaxCalls = 1
    MaxRows = 2
    MaxBusy = 1
    MaxRings = 0
    Removable = {bob}
    Revocable = {s1}
    MaxGone <- One
    GroupCapacity = 2
SPECIFICATION LiveSpec
PROPERTIES
    RoomsAreDeleted
    EvictedLoseMedia
    AbandonedCallsEnd
    UnansweredEnds
CHECK_DEADLOCK FALSE
