SPECIFICATION FairSpec
CONSTANTS
    me = me
    rival = rival
    ta = ta
    ta2 = ta2
    tb = tb
    none = none
    NoToken <- none
    Me <- me
    Rival <- rival
    Leases <- Both
    Tokens <- AllTokens2
    Mine <- TwoTokens
    Others <- RivalTokens
    LeaseDuration = 5
    Margin = 1
    AttemptTimeout = 2
    RetryMax = 1
    ShutdownTimeout = 4
    AuthorityMargin = 2
    Faults <- AllFaults
    MaxLosses = 1
INVARIANTS
    ServesWithinLease
    AuthorityThroughSettlement
PROPERTIES
    DrainedStaysDrained
    Reconciled
