SPECIFICATION Spec
CONSTANTS
    Calls <- TwoCalls
    AwaitCall <- TheAwaitCall
    Classes <- WorkClasses
    Confirms <- AnyConfirms
    Awaits <- NoAwaits
    Outcomes <- ParallelOutcomes
    Decisions <- NoDecisions
    MaxToolCalls = 3
    MaxFailures = 2
    TimeBudget = 1
    Grace = 1
    OnMissingFields = "await"
    LimitTerminalPlans = FALSE
    HasSession = TRUE
INVARIANTS
    WithinToolCap
    FailureCapKept
PROPERTIES
    NothingStartedLate
