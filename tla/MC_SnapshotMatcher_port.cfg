\* One worker, no failures: cB is built into a registry addressed with a port (host:5000), checked against the abstract registry.
CONSTANTS
    cA = cA
    cB = cB
    cC = cC
    b1 = b1
    b2 = b2
    b3 = b3
    b4 = b4
    NoResult = NoResult
    Components <- MCComponents
    Builds <- MCBuilds
    BuildComponent <- MCBuildComponent
    OutputImage <- MCOutputImagePort
    OutputDigest <- MCOutputDigest
    InitialImage <- MCInitialImagePort
    InitialComponents <- MCComponents
    Workers = 1
    ImageUpdates = FALSE
    MaxStoreFailures = 0
    MaxRedeliveries = 0
    CacheLag = FALSE
SPECIFICATION Spec
PROPERTY ImplementsSnapshotRegistry
\* The controller is idle once every event has been handled.
CHECK_DEADLOCK FALSE
