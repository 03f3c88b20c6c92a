SPECIFICATION Spec
CONSTANTS
    t1 = t1
    t2 = t2
    l1 = l1
    l2 = l2
    h1 = h1
    h2 = h2
    d1 = d1
    d2 = d2
    NoToken = NoToken
    NoLease = NoLease
    NoDigest = NoDigest
    Tokens <- MCTokens
    Leases <- MCLeases
    AdmissionOf <- MCAdmissionOf
    Handlers <- MCHandlers
    Digests <- TwoDigests
    Accepts <- FirstOnly
    Faults = {"catalog", "handler"}
    LeaseDuration = 2
    ResultTTL = 2
    ExecutionTimeout = 1
    StalenessThreshold = 1
    MaxToolOutputDeltas = 0
    MaxTime = 3
    MaxGeneration = 2
INVARIANTS
    CallersAgree
    PublishedOnce
PROPERTIES
    PublishedToValidatedAdmission
    ImplementsContract
SYMMETRY Conflicting
CHECK_DEADLOCK FALSE
