\* One worker; the build service records built images on the Components.
CONSTANTS
    cA = cA
    cB = cB
    cC = cC
    b1 = b1
    b2 = b2
    b3 = b3
    b4 = b4
    NoResult = NoResult
    Components <- MCComponents
    Builds <- MCBuilds
    BuildComponent <- MCBuildComponent
    OutputImage <- MCOutputImage
    OutputDigest <- MCOutputDigest
    InitialImage <- MCInitialImage
    InitialComponents <- MCComponents
    Workers = 1
    ImageUpdates = TRUE
    MaxStoreFailures = 0
    MaxRedeliveries = 0
    CacheLag = FALSE
SPECIFICATION Spec
INVARIANT NoDuplicateSnapshots
\* The controller is idle once every event has been handled.
CHECK_DEADLOCK FALSE
