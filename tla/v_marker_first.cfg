SPECIFICATION Spec
CONSTANTS
    s1 = s1
    s2 = s2
    d1 = d1
    web = web
    m1 = m1
    m2 = m2
    m3 = m3
    w1 = w1
    w2 = w2
    none = none
    exit = exit
    t1 = t1
    t2 = t2
    coll = coll
    NoTask = NoTask
    Node <- MCNode
    Role <- MCRole
    MeshAddr <- MCMesh
    WebAddr <- MCWeb
    NoAddr <- none
    ExitNet <- exit
    BadNet <- Nobody
    Port <- MCPort
    Task <- OneRequest
    Collector <- coll
    Ops <- TagOps
    Stored <- MarkerStored
    Newcomers <- Nobody
    Bodies <- Nobody
    NewDirs <- Nobody
    Edits <- Nobody
    Retags <- GiveRole
    Picks <- Nobody
    Clients <- Nobody
    Refused <- Nobody
    Foreign <- Nobody
    Budgets <- One
CHECK_DEADLOCK FALSE
INVARIANT
    DeclaredBeforeHung
