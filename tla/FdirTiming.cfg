SPECIFICATION Spec
CONSTANTS
    StateQueueLength = 4
    ImageOutcomes = {TRUE, FALSE}
    WatchdogTimeout = 35
    RecoveryThreshold = 5
    HeartbeatPeriod = 10
    ScrubPeriod = 8
    InjectPeriod = 30
    SeuThreshold = 5
    CommandQueueLength = 8
    ScrubBits = 2
    Keys = {}
    StallableTasks = {}
    MaxKeys = 0
    MaxBusy = 2
INVARIANTS NoFalseAlarm AlarmInv
