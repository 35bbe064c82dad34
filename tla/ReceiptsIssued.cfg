SPECIFICATION Spec
CONSTANTS
    Requests <- MCRequests
    WellKnown = {"m"}
    Benchmarked = {"m"}
    InferenceRegion = "eu"
    Handlers = {h1, h2}
    Auths = {a1, a2}
    ValidAuths = {a1}
    MaxReceipts = 1
    MaxRestarts = 0
    LocalUsages <- MCLocalUsages
    Threshold = 1
    RoundsUp = FALSE
    MaxEntries = 0
    MaxLost = 0
    SigningKeys = {k1, k2}
    Counts = {0, 1}
    MaxSignings = 0
    Cosigners = {w1, w2}
    WitnessIds = {w1, w2}
    TicksPerSecond = 2
    MaxTicks = 2
    MaxCheckpoints = 0
    MaxServerRuns = 2
    MaxPosts = 0
    BatchSize = 2
    MaxSource = 0
    MaxRuns = 0
    Connections = {c1, c2}
    MaxRequests = 0
    MaxStarts = 0
INVARIANTS
    IssuedReceiptVerifies
CHECK_DEADLOCK FALSE
