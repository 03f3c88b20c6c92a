SPECIFICATION FairSpec
CONSTANTS
    Calls <- OneCall
    AwaitCall <- TheAwaitCall
    Classes <- AllClasses
    Confirms <- AnyConfirms
    Awaits <- AllAwaits
    Outcomes <- AllOutcomes
    Decisions <- Tightening
    MaxToolCalls = 3
    MaxFailures = 2
    TimeBudget = 1
    Grace = 1
    OnMissingFields = "resume"
    LimitTerminalPlans = FALSE
    HasSession = TRUE
INVARIANTS
    AnsweredOnce
    PlannerSeesAnswers
    FailureClosesCalls
PROPERTIES
    RunEnds
