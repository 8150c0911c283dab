\* Two workers, a run without snapshot label (r3), failed runs, malformed results, store failures and duplicate deliveries.
CONSTANTS
    S1 = S1
    S2 = S2
    S3 = S3
    r1 = r1
    r2 = r2
    r3 = r3
    Scenarios <- MCScenarios
    OptionalLabels <- MCOptionalLabels
    Runs <- MCRuns
    RunScenario <- MCRunScenario
    Unlabelled <- MCUnlabelledR3
    ResultChoices <- MCResultChoicesConcurrent
    StatusChoices <- MCStatusAll
    Workers = 2
    MaxStoreFailures = 1
    MaxRedeliveries = 1
SPECIFICATION Spec
INVARIANT TypeOK
INVARIANT VerdictJustified
PROPERTY EventHandlingTerminates
\* The controller is idle once every event has been handled.
CHECK_DEADLOCK FALSE
