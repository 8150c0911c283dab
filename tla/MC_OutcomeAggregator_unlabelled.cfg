\* One worker; r3 carries no snapshot label.
CONSTANTS
    S1 = S1
    S2 = S2
    S3 = S3
    r1 = r1
    r2 = r2
    r3 = r3
    Scenarios <- MCScenarios
    OptionalLabels <- MCOptionalLabels
    Runs <- MCRuns
    RunScenario <- MCRunScenario
    Unlabelled <- MCUnlabelledR3
    ResultChoices <- MCResultChoicesWellFormed
    StatusChoices <- MCStatusSucceeded
    Workers = 1
    MaxStoreFailures = 0
    MaxRedeliveries = 0
SPECIFICATION Spec
PROPERTY PermanentErrorNotRetriedForever
\* The controller is idle once every event has been handled.
CHECK_DEADLOCK FALSE
