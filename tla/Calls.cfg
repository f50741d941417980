\* A direct room of alice and bob, or a group of three; alice has two devices.
\* Bob may be removed from the direct room.
CONSTANTS
    s1 = s1
    s2 = s2
    s3 = s3
    s4 = s4
    alice = alice
    bob = bob
    carol = carol
    Free = Free
    Session = {s1, s2, s3, s4}
    Owner <- Owners
    Pair = {alice, bob}
    MaxCalls = 1
    MaxRows = 3
    MaxBusy = 2
    MaxRings = 1
    Removable = {bob}
    Revocable = {}
    MaxGone <- OneInDirect
    GroupCapacity = 2
SPECIFICATION Spec
SYMMETRY Devices
INVARIANTS
    TypeOK
    SeatsKept
    EndedIsEmpty
    MissedIsTrue
CHECK_DEADLOCK FALSE
