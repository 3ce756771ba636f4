SPECIFICATION FairSpec
CONSTANTS
    Tx = {1}
    Source <- OneSource
    Dest <- OneDest
    Nil = Nil
    MAX_INQUIRY_RETRIES = 1
    MaxFailures = 2
CHECK_DEADLOCK FALSE
INVARIANTS
    TypeOK
    ContentPreserved
    CommittedIsMoved
PROPERTIES
    UnackedRecordKept
    ParticipantResolves
