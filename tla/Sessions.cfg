\* Two tabs of one browser, two refresh requests, two sessions where one is
\* allowed.
CONSTANTS
    t1 = t1
    t2 = t2
    q1 = q1
    q2 = q2
    q3 = q3
    None = None
    Tab = {t1, t2}
    Request = {q1, q2}
    MaxLogins = 2
    MaxTokens = 3
    MaxClears = 2
    MaxSessions = 1
SPECIFICATION Spec
INVARIANTS
    TypeOK
    OneHeir
    ClearedStaysCleared
    SessionLimit
PROPERTIES
    RevokedIsFinal
SYMMETRY Sym
CHECK_DEADLOCK FALSE
