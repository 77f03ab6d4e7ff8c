\* Stops and starts: two loops alive at once.
SPECIFICATION FairSpec
CONSTANTS
    Jobs = {"skipped"}
    Loops = {l1, l2}
    Factories = {"given", "none"}
    Backoff = 2
    MaxRetries = 2
    FailureCap = 3
    Monitor = monitor
    NoJob = none
    Hours = 3
    Days = 2
    Kind <- MCKind
    Policy <- MCPolicy
    Period <- MCPeriod
    OpensAt <- MCOpensAt
    ClosesAt <- MCClosesAt
    OpenDays <- MCOpenDays
INVARIANT ScheduleIsSound
PROPERTIES
    NoStarvation
    StoppedLoopsEnd
