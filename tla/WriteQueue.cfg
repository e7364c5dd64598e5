CONSTANTS
    Tasks = {w1, w2, w3, w4}
    Waits = {w1, w2}
    QueueMax = 1
    BatchMax = 2
SPECIFICATION FairSpec
INVARIANTS TypeOK ExactlyOnce RefusedNeverRuns AckTellsOutcome
PROPERTIES ImplementsCommitLog AcceptedRunOrFew CallReturns
CHECK_DEADLOCK FALSE
