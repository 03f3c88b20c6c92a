SPECIFICATION Spec
CONSTANTS
    t1 = t1
    t2 = t2
    l1 = l1
    c1 = c1
    c2 = c2
    NoToken = NoToken
    Tokens <- MCTokens
    Leases <- OneLease
    Callers <- MCCallers
    Settlements <- MCSettlements
    Operations = {"register", "drain", "release", "retire", "pong", "health"}
    LeaseDuration = 1
    MaxTime = 2
    MaxEpoch = 1
INVARIANTS
    TypeOK
    RecordAccepted
    EvidenceIsCurrent
PROPERTIES
    NeverReadmitted
    ReplacementWaitsForLeases
    EpochNamesOneMembership
    PongsMonotonic
    ImplementsOwnership
SYMMETRY Interchangeable
