\* A public file older than a day, the orphan sweep, and a public message.
CONSTANTS
    f = f
    m = m
    m2 = m2
    n = n
    t = t
    u = u
    u2 = u2
    r1 = r1
    r2 = r2
    w = w
    Free = Free
    MaxPurges = 1
    Att = {f}
    Message = {}
    Note = {}
    Ticket = {}
    PublicMessage = {u}
    Request = {r1}
    Worker = {w}
SPECIFICATION Spec
PROPERTY DeleteSparesClaimed
