SPECIFICATION Spec
CONSTANTS
    n1 = n1
    n2 = n2
    n3 = n3
    r1 = r1
    m1 = m1
    m2 = m2
    m3 = m3
    w1 = w1
    w2 = w2
    none = none
    exit = exit
    Node <- MCNode
    Role <- MCRole
    MeshAddr <- MCMesh
    WebAddr <- MCWeb
    NoAddr <- none
    ExitNet <- exit
    BadNet <- MCBad
    Port <- MCPort
    Fleets <- MCFleets
    Notes <- MCNotes
    Stored <- MCStored
\* an input, once picked, is the end of a behaviour
CHECK_DEADLOCK FALSE
INVARIANTS
    Isolation
    TagsDeclared
    OpensWhatIsMeant
    GrantsAreUsable
