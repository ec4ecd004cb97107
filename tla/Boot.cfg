SPECIFICATION MCSpec
CONSTANTS
    BitsPerByte = 2
    Width = 4
    CRC32_POLY = {2, 3}
    Size = 5
    Slots = {1, 3}
    portBYTE_ALIGNMENT = 16
    SizeOfBlockLink = 16
    configTOTAL_HEAP_SIZE = 32768
    Heaps <- AllHeaps
    SizeOfQueue = 144
    SizeOfTCB = 144
    SizeOfStackType = 8
    FaultEvents = 40
    Commands = 32
    TimerCommands = 320
    StateRequestsSize = 32
    TaskConfigs <- ReleaseTasks
    KernelStack = 128
    DEBUG = FALSE
INVARIANTS BootTypeOK HeapIsConsistent ObjectsAreApart RunningIsComplete ConfiguredBootCompletes ModeTellsImage IntactIsAccepted DamageIsRefused CrcIsRemainder
CHECK_DEADLOCK FALSE
