CONSTANTS
    x1 = x1
    x2 = x2
    d1 = d1
    d2 = d2
    none = none
    Cfg <- MCCfg
    Indexer <- MCIndexer
    Deployment <- MCDeployment
    NoDeployment = none
    Windows <- MCWindows
    Evidence <- MCEvidence
    InitialTables <- MCTables
    RollupThreshold = 2
    MinPeers = 2
    LagMargin = 50
    MaxChanges = 2
    MaxFailures = 1
    MaxSkewed = 1
SPECIFICATION Spec
INVARIANTS
    ScorerTypeOK
    PublishedIsDue
PROPERTIES
    WithdrawnOnlyWhenCleared
    ErringStaysNamed
