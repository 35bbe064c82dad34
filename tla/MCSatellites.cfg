SPECIFICATION Spec
CONSTANTS
    Requests <- MCRequests
    WellKnown = {"m"}
    Benchmarked = {"m"}
    InferenceRegion = "eu"
    Handlers = {h1, h2}
    Auths = {a1, a2}
    ValidAuths = {a1}
    MaxReceipts = 2
    MaxRestarts = 1
    LocalUsages <- MCLocalUsages
    Threshold = 1
    RoundsUp = FALSE
    MaxEntries = 2
    MaxLost = 1
    SigningKeys = {k1, k2}
    Counts = {0, 1}
    MaxSignings = 3
    Cosigners = {w1, w2}
    WitnessIds = {w1, w2}
    TicksPerSecond = 2
    MaxTicks = 2
    MaxCheckpoints = 2
    MaxServerRuns = 2
    MaxPosts = 3
    BatchSize = 2
    MaxSource = 4
    MaxRuns = 3
    Connections = {c1, c2}
    MaxRequests = 3
    MaxStarts = 2
INVARIANTS
    AcknowledgedPaymentKept
    AttestationClaimsEarned
    ReconcileIsRight
    SignedReceiptVerifies
    VerifyEndpointVouches
    AcknowledgedCosignatureKept
    CompleteAndInOrder
    RowsFollowLog
    AnswersAreTruthful
CHECK_DEADLOCK FALSE
