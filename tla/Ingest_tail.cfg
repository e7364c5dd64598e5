CONSTANTS
    Requests = {r1, r2}
    Wait = FALSE
    MaxBacklog = 3
SPECIFICATION Spec
INVARIANT EventFollowsWrite
CHECK_DEADLOCK FALSE
