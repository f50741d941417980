\* Two concurrent handlers, two members, two messages.
CONSTANTS
    Proc = {p1, p2}
    User = {u1, u2}
    Cmid = {c1, c2}
    MsgId = {m1, m2}
    Body = {}
    MaxEdits = 1
    NoProc = NoProc
    NoCmid = NoCmid
    NoMsg = NoMsg
    NoBody = NoBody
SPECIFICATION Spec
SYMMETRY Symmetry
INVARIANTS TypeOK LogDense ExactlyOnce AnnouncedOnce BadgeIsRight
PROPERTIES ReadMonotonic ImplementsFeed
