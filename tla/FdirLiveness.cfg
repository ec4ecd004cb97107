SPECIFICATION FairSpec
CONSTANTS
    StateQueueLength = 2
    ImageOutcomes = {TRUE, FALSE}
    WatchdogTimeout = 3
    RecoveryThreshold = 2
    HeartbeatPeriod = 1
    ScrubPeriod = 1
    InjectPeriod = 2
    SeuThreshold = 1
    CommandQueueLength = 1
    ScrubBits = 1
    Keys = {}
    StallableTasks = {"Heartbeat", "MemScrub", "FaultInject"}
    MaxKeys = 0
    MaxBusy = 1
PROPERTIES DegradedIsTransient SilenceEndsInSafe RequestsAreServed
