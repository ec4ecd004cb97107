SPECIFICATION Spec
CONSTANTS
    StateQueueLength = 2
    ImageOutcomes = {TRUE, FALSE}
    WatchdogTimeout = 3
    RecoveryThreshold = 2
    HeartbeatPeriod = 1
    ScrubPeriod = 1
    InjectPeriod = 2
    SeuThreshold = 2
    CommandQueueLength = 2
    ScrubBits = 1
    Keys = {"n", "d", "a", "f", "x", "r"}
    StallableTasks = {"MemScrub"}
    MaxKeys = 2
    MaxBusy = 1
INVARIANTS Inv NoRequestIsLost NoCommandIsLost TimeoutMeansSilence InjectionOffUnlessOperator
