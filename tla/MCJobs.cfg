\* An interval job and a triggered one, two loops and the trigger thread.
SPECIFICATION Spec
CONSTANTS
    Jobs = {"retried", "idle"}
    Loops = {l1, l2}
    Factories = {"given", "none"}
    Backoff = 1
    MaxRetries = 2
    FailureCap = 3
    Monitor = monitor
    NoJob = none
    Hours = 2
    Days = 2
    Kind <- MCKind
    Policy <- MCPolicy
    Period <- MCPeriod
    OpensAt <- MCOpensAt
    ClosesAt <- MCClosesAt
    OpenDays <- MCOpenDays
INVARIANT Withdrawn
SYMMETRY Symmetry
