SPECIFICATION Spec
CONSTANTS
    Handlers = {h1}
    MaxItems = 2
    MaxRows = 2
    MaxCheckpoints = 2
    FaultKinds <- NoFaults
    MaxFaults = 0
INVARIANTS
    InclusionProofsVerify
