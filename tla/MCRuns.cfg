SPECIFICATION FairSpec
CONSTANTS
    r1 = r1
    r2 = r2
    u1 = u1
    p1 = p1
    p2 = p2
    q1 = q1
    q2 = q2
    NoRun = NoRun
    NoReader = NoReader
    Deleter = Deleter
    Processes <- MCProcesses
    Runs <- OneRun
    Users <- NoneSet
    Readers <- OneReader
    ProcessOf <- OneProcess
    EngineCancels = TRUE
    Streaming = TRUE
    Abandons = FALSE
    MaxFaults = 1
    Endings = {"completed"}
INVARIANTS
    OutcomeIsWorkflows
    OneLateTurn
PROPERTIES
    ImplementsContract
    EndedRunsStop
    CanceledRunsStop
    ClosedRunsConverge
CHECK_DEADLOCK FALSE
