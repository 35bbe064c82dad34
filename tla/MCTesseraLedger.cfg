SPECIFICATION MCSpec
CONSTANTS
    Handlers = {h1, h2}
    MaxItems = 2
    MaxRows = 4
    MaxCheckpoints = 2
    FaultKinds <- AllFaults
    MaxFaults = 2
INVARIANTS
    AcceptedIsLoggedOnce
    CheckpointsAreConsistent
    LogProofIsOfItsRoot
