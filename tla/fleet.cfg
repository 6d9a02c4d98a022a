SPECIFICATION FairSpec
CONSTANTS
    m1 = m1
    m2 = m2
    x1 = x1
    x2 = x2
    Nobody = Nobody
    Machine <- TwoMachines
    Name <- TwoNames
    Id <- ThreeIds
    Key <- TwoKeys
    Misses = 2
    TTL = 3
    Grace = 1
    Retention = 4
    Worlds <- AllWorlds
INVARIANTS
    TypeOK
    AlertsConfirmed
    OneAlertPerCause
    NothingLost
    LinkGrace
    LiveKeysKept
PROPERTIES
    MutedIsSilent
    ToldInTheEnd
