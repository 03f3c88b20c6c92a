SPECIFICATION BusySpec
CONSTANTS
    p1 = p1
    p2 = p2
    Procs <- TwoProcs
    Late <- OneLate
    InitialTPM = 1
    DefaultTPM = 4
    MaxTPM <- TwoMaxima
    Scale = 2
    Sizes <- MixedCalls
    MaxJobs = 1
    MaxThrottles = 1
    MaxFaults = 1
PROPERTIES
    NoStepLost
    Recovers
