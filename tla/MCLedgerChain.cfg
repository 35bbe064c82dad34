SPECIFICATION Spec
CONSTANTS
    Builders = {ticker, h1}
    Ticker = ticker
    MaxBatch = 2
    MaxItems = 2
    MaxRows = 3
    FaultKinds <- NoFaults
    MaxFaults = 0
INVARIANTS
    ChainLinked
