SPECIFICATION PublishingSpec
CONSTANTS
    MaxCheckpoints = 2
    MaxOthers = 1
    FaultKinds <- AllFaults
    MaxFaults = 3
    w1 = w1
    w2 = w2
    w3 = w3
    ExternalWitnesses <- WitnessOrder
    BadURL = {w1}
    MaxTree = 2
    MaxFeedFaults = 2
INVARIANTS
    RecordedIndexVerifies
    FeederKnowsWitness
PROPERTIES
    AnchorIsFinal
    LatestEventuallyAnchored
    FeedServesWitness
