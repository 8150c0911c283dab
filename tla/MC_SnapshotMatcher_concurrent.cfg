\* Two workers for builds of both Components, image recording by the build service, failures and duplicate deliveries; the matcher checked against its abstract registry.
CONSTANTS
    cA = cA
    cB = cB
    cC = cC
    b1 = b1
    b2 = b2
    b3 = b3
    b4 = b4
    NoResult = NoResult
    Components <- MCComponents
    Builds <- MCBuildsMissing
    BuildComponent <- MCBuildComponent
    OutputImage <- MCOutputImage
    OutputDigest <- MCOutputDigest
    InitialImage <- MCInitialImage
    InitialComponents <- MCComponents
    Workers = 2
    ImageUpdates = TRUE
    MaxStoreFailures = 1
    MaxRedeliveries = 1
    CacheLag = TRUE
SPECIFICATION Spec
INVARIANT DoneImpliesSnapshot
PROPERTY EventHandlingTerminates
PROPERTY ImplementsSnapshotRegistry
\* The controller is idle once every event has been handled.
CHECK_DEADLOCK FALSE
