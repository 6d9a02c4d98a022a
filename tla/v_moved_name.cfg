SPECIFICATION FairSpec
CONSTANTS
    n1 = n1
    n2 = n2
    x1 = x1
    x2 = x2
    a1 = a1
    a2 = a2
    a3 = a3
    z1 = z1
    z2 = z2
    Nobody = Nobody
    Node <- TwoNodes
    Name <- TwoNames
    Addr <- Addresses
    Zone <- TwoZones
    ZoneOf <- ZoneOfName
    PublicName <- OnePublic
    Slot <- TwoSlots
    Task <- TwoTasks
    Worlds <- AllWorlds
INVARIANT
    CertFitsKey
