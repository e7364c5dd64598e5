CONSTANTS
    c1 = c1
    c2 = c2
    e1 = e1
    e2 = e2
    e3 = e3
    Conns <- MCConns
    Events <- MCEvents
    QueueMax = 1
    Source <- MCSource
    Service <- MCService
    WantSource <- MCWantSource
    WantService <- MCWantService
SPECIFICATION FairSpec
INVARIANTS StreamsAreTrue
PROPERTIES BroadcastEnds LeaversAreForgotten
CHECK_DEADLOCK FALSE
