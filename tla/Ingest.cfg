CONSTANTS
    Requests = {r1, r2}
    Wait = TRUE
    MaxBacklog = 3
SPECIFICATION FairSpec
INVARIANTS RowsAreTrue ParityAnswerIsCommit
PROPERTIES AcceptedIsDecided
CHECK_DEADLOCK FALSE
