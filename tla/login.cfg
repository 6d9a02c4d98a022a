SPECIFICATION Spec
CONSTANTS
    t1 = t1
    t2 = t2
    p1 = p1
    p2 = p2
    NoSecret = NoSecret
    Task <- TwoTasks
    Password <- TwoPasswords
    MAX_FAILURES = 2
    WINDOW = 1
    LOCKOUT = 2
    MAX_DEVICES = 1
    Worlds <- AllWorlds
CHECK_DEADLOCK FALSE
INVARIANTS
    TypeOK
    SessionsOfThisPassword
    AttemptsBounded
    CodeOnce
    DevicesHaveEnteredACode
PROPERTY
    SessionsKept
