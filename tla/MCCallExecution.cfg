SPECIFICATION Spec
CONSTANTS
    t1 = t1
    t2 = t2
    l1 = l1
    l2 = l2
    d1 = d1
    NoToken = NoToken
    NoLease = NoLease
    NoDigest = NoDigest
    Tokens <- OneToken
    Leases <- MCLeases
    AdmissionOf <- Replicas
    Digests <- MCDigests
    Digest = d1
    LeaseDuration = 1
    ResultTTL = 2
    ExecutionTimeout = 1
    Settlement = 1
    MaxToolOutputDeltas = 1
    Faults = {"redelivery", "overload"}
    MaxTime = 4
    MaxRequests = 2
    MaxGeneration = 2
    MaxHeld = 1
INVARIANTS
    AtMostOnce
    ClaimsOwnRequest
PROPERTIES
    ImplementsContract
SYMMETRY ReplicasInterchangeable
CHECK_DEADLOCK FALSE
