\* Two workers, a rerun; runs succeed with well-formed results and the store does not fail.
CONSTANTS
    S1 = S1
    S2 = S2
    S3 = S3
    r1 = r1
    r2 = r2
    r3 = r3
    Scenarios <- MCScenarios
    OptionalLabels <- MCOptionalLabels
    Runs <- MCRuns
    RunScenario <- MCRunScenario
    Unlabelled <- MCUnlabelledNone
    ResultChoices <- MCResultChoicesWellFormed
    StatusChoices <- MCStatusSucceeded
    Workers = 2
    MaxStoreFailures = 0
    MaxRedeliveries = 0
SPECIFICATION Spec
INVARIANT SettledVerdictIsLatest
\* The controller is idle once every event has been handled.
CHECK_DEADLOCK FALSE
