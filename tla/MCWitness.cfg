SPECIFICATION FairSpec
CONSTANTS
    Watchers = {w1}
    OneShots = {w2}
    Operator = operator
    MaxSize = 2
    MaxCheckpoints = 2
    FaultKinds <- AllFaults
    MaxFaults = 1
INVARIANTS
    ServedNoteOpens
    ThresholdMeansWitnessed
    CosignaturesAreKept
PROPERTIES
    LargestEventuallyCosigned
