SPECIFICATION FairSpec
CONSTANTS
    t1 = t1
    t2 = t2
    l1 = l1
    l2 = l2
    d1 = d1
    NoToken = NoToken
    NoLease = NoLease
    NoDigest = NoDigest
    Tokens <- MCTokens
    Leases <- MCLeases
    AdmissionOf <- Replacement
    Digests <- MCDigests
    Digest = d1
    LeaseDuration = 1
    ResultTTL = 3
    ExecutionTimeout = 2
    Settlement = 1
    MaxToolOutputDeltas = 0
    Faults = {"crash", "lost_request", "lost_reply", "drain_error", "redelivery"}
    MaxTime = 4
    MaxRequests = 1
    MaxGeneration = 1
    MaxHeld = 1
INVARIANTS
    NoForeignExecution
PROPERTIES
    TerminalIsFinal
    ClaimIsSettled
CHECK_DEADLOCK FALSE
