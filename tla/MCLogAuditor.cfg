SPECIFICATION Spec
CONSTANTS
    Data <- AllData
    Trees <- AllTrees
    MaxProof = 3
    MaxForged = 3
INVARIANTS
    IncludedReceiptIsThere
    RootDeterminesReceipts
    HonestExtensionAccepted
    InclusionProofAccepted
PROPERTIES
    TrustedNeverRewritten
