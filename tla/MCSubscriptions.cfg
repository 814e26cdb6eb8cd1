CONSTANTS
    s1 = s1
    s2 = s2
    i1 = i1
    w1 = w1
    w2 = w2
    a1 = a1
    a2 = a2
    d1 = d1
    SubId <- MCSubId
    Indexer <- MCIndexer
    Webhook <- MCWebhook
    Discord <- MCDiscord
    Allocation <- MCAllocation
    Deployment <- MCDeployment
    DeploymentOf <- MCDeploymentOf
    Level <- MCLevel
    Cuts <- MCCuts
    Reo <- MCReo
    Content <- MCContent
    World0 <- MCWorld0
    MovePct = 50
    LinesPerKind = 1
    DisableAfter = 2
    MaxPerWebhook = 2
    MaxPerIndexer = 2
    MaxChanges = 2
    MaxFailures = 2
    MaxDeletes = 1
SPECIFICATION FairSpec
INVARIANT
    SubTypeOK
PROPERTIES
    ChangesAreTold
    SubscribersCatchUp
