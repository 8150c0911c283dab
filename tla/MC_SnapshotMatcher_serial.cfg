\* One worker, Component images stable while builds (b3 reruns b1, b4 has no image digest) are handled and cC joins the Application, with failures and duplicate deliveries.
CONSTANTS
    cA = cA
    cB = cB
    cC = cC
    b1 = b1
    b2 = b2
    b3 = b3
    b4 = b4
    NoResult = NoResult
    Components <- MCComponentsC
    Builds <- MCBuildsAll
    BuildComponent <- MCBuildComponent
    OutputImage <- MCOutputImage
    OutputDigest <- MCOutputDigest
    InitialImage <- MCInitialImageC
    InitialComponents <- MCComponents
    Workers = 1
    ImageUpdates = FALSE
    MaxStoreFailures = 2
    MaxRedeliveries = 2
    CacheLag = FALSE
SPECIFICATION Spec
INVARIANT TypeOK
INVARIANT NoDuplicateSnapshots
\* The controller is idle once every event has been handled.
CHECK_DEADLOCK FALSE
