\* One attachment of any origin, contended for by a message, a note, a ticket
\* and two public messages, completed by two requests at a time.
CONSTANTS
    f = f
    m = m
    m2 = m2
    n = n
    t = t
    u = u
    u2 = u2
    r1 = r1
    r2 = r2
    w = w
    Free = Free
    MaxPurges = 1
    Att = {f}
    Message = {m}
    Note = {n}
    Ticket = {t}
    PublicMessage = {u, u2}
    Request = {r1, r2}
    Worker = {w}
SPECIFICATION LiveSpec
INVARIANTS
    TypeOK
    NeverShared
    LiveFilesKept
PROPERTIES
    ReleasedForGood
    ReleasedFilesGo
    AbandonedIsRemoved
