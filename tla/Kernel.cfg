SPECIFICATION Spec
CONSTANTS
    high = high
    receiver = receiver
    sender = sender
    sleeper = sleeper
    idle = idle
    NoItem = NoItem
    CreationOrder <- Order
    Priority <- Priorities3
    Workloads <- AllWorkloads
    TickModulus = 5
    uxLength = 2
    MaxTicks = 9
    MaxPended = 2
INVARIANTS KernelInv SleepsUntilDue RightTaskRuns FairShare NoLostWakeup
PROPERTIES EmptyOnlyWhenDue ImplementsFifo
CHECK_DEADLOCK FALSE
