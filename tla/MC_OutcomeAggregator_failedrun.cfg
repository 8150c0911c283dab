\* Two workers; runs may fail, results are well formed, the store does not fail.
CONSTANTS
    S1 = S1
    S2 = S2
    S3 = S3
    r1 = r1
    r2 = r2
    r3 = r3
    Scenarios <- MCScenarios
    OptionalLabels <- MCOptionalLabels
    Runs <- MCRunsTwo
    RunScenario <- MCRunScenario
    Unlabelled <- MCUnlabelledNone
    ResultChoices <- MCResultChoicesWellFormed
    StatusChoices <- MCStatusAll
    Workers = 2
    MaxStoreFailures = 0
    MaxRedeliveries = 0
SPECIFICATION Spec
PROPERTY VerdictEventuallyWritten
\* The controller is idle once every event has been handled.
CHECK_DEADLOCK FALSE
