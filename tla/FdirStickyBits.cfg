SPECIFICATION Spec
CONSTANTS
    StateQueueLength = 4
    ImageOutcomes = {TRUE, FALSE}
    WatchdogTimeout = 3
    RecoveryThreshold = 2
    HeartbeatPeriod = 1
    ScrubPeriod = 1
    InjectPeriod = 2
    SeuThreshold = 2
    CommandQueueLength = 2
    ScrubBits = 1
    Keys = {}
    StallableTasks = {"Heartbeat"}
    MaxKeys = 0
    MaxBusy = 1
INVARIANT GoodCycleMeansAllKicked
