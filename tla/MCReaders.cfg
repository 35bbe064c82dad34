SPECIFICATION ReadersSpec
CONSTANTS
    Builders = {ticker}
    Ticker = ticker
    MaxBatch = 2
    MaxItems = 2
    MaxRows = 5
    FaultKinds <- AllFaults
    MaxFaults = 2
    MonitorRows = 3
    MonitorFaults = 1
    Counts <- SomeCounts
    Threshold = 7
    RoundsUp = TRUE
    PageSize = 2
INVARIANTS
    AlertsAreJustified
    TickCoversPage
    ServedInclusionVerifies
    ServedConsistencyVerifies
PROPERTIES
    EventuallyAlerted
    BatchedReceiptIsServed
