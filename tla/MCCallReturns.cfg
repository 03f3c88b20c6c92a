SPECIFICATION FairSpec
CONSTANTS
    t1 = t1
    t2 = t2
    l1 = l1
    l2 = l2
    h1 = h1
    h2 = h2
    d1 = d1
    d2 = d2
    NoToken = NoToken
    NoLease = NoLease
    NoDigest = NoDigest
    Tokens <- OneToken
    Leases <- OneLease
    AdmissionOf <- OneAdmission
    Handlers <- MCHandlers
    Digests <- MCDigests
    Accepts <- OneToken
    Faults = {}
    LeaseDuration = 2
    ResultTTL = 2
    ExecutionTimeout = 1
    StalenessThreshold = 1
    MaxToolOutputDeltas = 0
    MaxTime = 3
    MaxGeneration = 1
PROPERTIES
    HandlersReturn
CHECK_DEADLOCK FALSE
