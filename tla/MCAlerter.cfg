CONSTANTS
    i1 = i1
    i2 = i2
    Indexer <- MCIndexer
    Confirm = 2
    Day = 3
    MaxChanges = 3
    MaxRestarts = 1
    MaxFailures = 2
SPECIFICATION FairSpec
INVARIANT
    AlerterTypeOK
PROPERTIES
    DebounceIsExact
    ChannelConverges
