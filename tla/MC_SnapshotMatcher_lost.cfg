\* One worker; store calls may fail.
CONSTANTS
    cA = cA
    cB = cB
    cC = cC
    b1 = b1
    b2 = b2
    b3 = b3
    b4 = b4
    NoResult = NoResult
    Components <- MCComponents
    Builds <- MCBuilds
    BuildComponent <- MCBuildComponent
    OutputImage <- MCOutputImage
    OutputDigest <- MCOutputDigest
    InitialImage <- MCInitialImage
    InitialComponents <- MCComponents
    Workers = 1
    ImageUpdates = FALSE
    MaxStoreFailures = 2
    MaxRedeliveries = 0
    CacheLag = FALSE
SPECIFICATION Spec
PROPERTY BuildEventuallySnapshotted
\* The controller is idle once every event has been handled.
CHECK_DEADLOCK FALSE
