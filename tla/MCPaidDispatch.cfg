CONSTANTS
    i1 = i1
    i2 = i2
    Indexer <- MCIndexer
    Allocation <- MCAllocation
    OperatorOf <- MCOperatorOf
    Registered <- MCIndexer
    Config <- MCConfig
    Open0 <- MCAllocation
    Funded0 <- MCFunded0
    PageSize = 1
    MaxPages = 2
    MaxTargets = 2
    MaxChanges = 2
    MaxFailures = 1
    MaxRestarts = 1
SPECIFICATION FairSpec
INVARIANTS
    PaidTypeOK
    ExcludedNeverBilled
PROPERTIES
    TableIsRegular
    RefreshKeepsTargets
    TargetsConverge
