SPECIFICATION FairSpec
CONSTANTS
    Builders = {ticker, h1}
    Ticker = ticker
    MaxBatch = 2
    MaxItems = 2
    MaxRows = 3
    FaultKinds <- AllFaults
    MaxFaults = 1
INVARIANTS
    CheckpointMatchesItsRange
    BatchedIsCovered
    NoGap
    PreviousIsEarlier
    IndInv
PROPERTIES
    AppendOnly
    EventuallyCheckpointed
    ImplementsCheckpointLog
