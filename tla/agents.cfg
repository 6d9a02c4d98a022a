SPECIFICATION FairSpec
CONSTANTS
    n1 = n1
    n2 = n2
    r1 = r1
    r2 = r2
    exit = exit
    none = none
    t1 = t1
    t2 = t2
    coll = coll
    NoTask = NoTask
    NoCall = NoCall
    NoBody = NoBody
    NoNode <- none
    Exit <- exit
    Node <- MCNode
    Route <- MCRoute
    Release <- MCRelease
    Task <- TwoTasks
    Collector <- coll
    Worlds <- AllWorlds
CHECK_DEADLOCK FALSE
INVARIANTS
    OnlyAsked
PROPERTIES
    OrderStands
    Serialized
    EventuallySettled
    Withdrawn
