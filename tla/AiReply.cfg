\* Two requests at a time.
CONSTANTS
    q1 = q1
    q2 = q2
    Request = {q1, q2}
    MaxRows = 3
    Bounds <- TwoBounds
SPECIFICATION Spec
SYMMETRY Symmetry
INVARIANTS
    TypeOK
    ShownIsPrefix
    OneGeneration
    NoneAbandoned
CHECK_DEADLOCK FALSE
