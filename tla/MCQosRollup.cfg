CONSTANTS
    k1 = k1
    u = u
    i1 = i1
    i2 = i2
    h1 = h1
    h2 = h2
    d1 = d1
    p1 = p1
    none = none
    Address <- MCAddress
    Indexer <- MCIndexer
    Hash <- MCHash
    ProbeId <- MCProbeId
    Deployment <- MCDeployment
    Rounds <- MCRounds
    NoProbe <- MCNoProbe
    Owner <- MCOwner
    StoreLag = 1
    Lookback = 2
    MaxGap = 1
    DayLen = 2
    EvidenceWindow = 2
    MinDivergent = 1
    RateNum = 1
    RateDen = 2
    MinMinority = 1
    ConcNum = 1
    ConcDen = 1
    StmtLag = 0
    MaxTime = 3
    MaxCrashes = 1
    MaxRerolls = 1
SPECIFICATION Spec
INVARIANTS
    RollTypeOK
    FeedAccountedUnlessLost
CHECK_DEADLOCK FALSE
