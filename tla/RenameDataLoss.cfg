SPECIFICATION Spec
CONSTANTS
    Tx = {1, 2}
    Source <- OwnSource
    Dest <- OneDest
    Nil = Nil
    MAX_INQUIRY_RETRIES = 1
    MaxFailures = 0
CHECK_DEADLOCK FALSE
INVARIANTS
    ContentPreserved
