SPECIFICATION SigningSpec
CONSTANTS
    SigningKeys = {k1, k2}
    Counts = {0, 1}
    MaxSignings = 3
INVARIANTS
    FulcioReceiptVerifies
CHECK_DEADLOCK FALSE
