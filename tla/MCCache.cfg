SPECIFICATION FairSpec
CONSTANTS
    c1 = c1
    c2 = c2
    Callers <- TwoCallers
    Refreshing = TRUE
    Syncing = TRUE
    TTL = 1
    Cooldown = 1
    ChannelSize = 1
    FetchTime = 1
    MaxVersion = 2
    MaxDeletes = 1
INVARIANTS
    StaleBounded
PROPERTIES
    Converges
