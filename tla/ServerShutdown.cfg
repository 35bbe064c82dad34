SPECIFICATION ServerSpec
CONSTANTS
    Connections = {c1}
    MaxRequests = 1
    MaxStarts = 1
INVARIANTS
    ShutdownIsGraceful
CHECK_DEADLOCK FALSE
