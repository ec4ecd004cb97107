SPECIFICATION FairSpec
CONSTANTS
    ScrubSize = 2
    BitsPerByte = 2
    TickShift = 2
    Ticks = {0, 1, 3}
    FaultQueueLength = 1
    SeuThreshold = 2
    MaxCount = 2
INVARIANTS TypeOK CounterBelowThreshold NothingForgotten
PROPERTIES QueuedIsRepaired AreaIsCleaned
