CONSTANTS
    i1 = i1
    i2 = i2
    i3 = i3
    i4 = i4
    Loops = {"fees", "mirror", "lodestar", "swarm", "stall", "replies"}
    Event <- MCEvent
    MaxBlock = 4
    Page = 2
    MaxFailures = 2
    MaxCrashes = 1
    MaxPost = 5
    PayloadPost = {1, 2, 4, 5}
    PageLen = 3
    CapturePayloads = TRUE
    Indexer = {i1, i2}
    Pair = {1, 2, 3}
    PageSize = 2
    MaxPages = 2
    IngestChanges = 2
    IngestFailures = 1
    Address = {i1, i2, i3, i4}
    SwarmProfile <- MCProfile
    FirstRoster <- MCFirst
    CreatedWindow = 14
    StakeTol = 25
    HighStake = 50
    MinStake = 1
    MinMembers = 3
    CrowdOverlap = 80
    CrowdMinAllocs = 2
    SwarmChanges = 1
    SwarmFailures = 1
    MaxFlips = 4
    MaxAsked = 3
SPECIFICATION AnySpec
INVARIANTS
    LoopsTypeOK
    PassedIsStored
    OneAttempt
    GroupsAreComponents
    StoredIsOneDetection
    SizeNeverInflates
    RepeatsNeedFailures
    FundingNeverBlames
    FeedAndGradeAgree
PROPERTIES
    FeesArrive
    PostsAreStored
    DroppedOnlyWhenGone
    IngestConverges
    RecoveryFollowsStall
    FlagFollowsSource
