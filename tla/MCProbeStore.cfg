CONSTANTS
    k1 = k1
    k2 = k2
    k3 = k3
    unresolved = unresolved
    ix1 = ix1
    h1 = h1
    h2 = h2
    d1 = d1
    p1 = p1
    p2 = p2
    none = none
    Address <- MCAddress
    Indexer <- MCIndexer
    Hash <- MCHash
    ProbeId <- MCProbeId
    Deployment <- MCDeployment
    Rounds <- MCRounds
    NoProbe <- MCNoProbe
    StoreLag = 1
    MaxTime = 2
SPECIFICATION StoreSpec
SYMMETRY Symmetry
INVARIANTS
    StoreTypeOK
    ClusterDescribesAnswers
    FaultsAreAMinority
PROPERTY
    JudgedIsFrozen
CHECK_DEADLOCK FALSE
