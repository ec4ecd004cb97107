--------------------------------- MODULE Boot ---------------------------------
(***************************************************************************)
(* From the linked image to the running system (src/main.c): main creates  *)
(* the queues, checks the image, creates the tasks and starts the          *)
(* scheduler, all from one heap of limited size; then the state machine's  *)
(* task creates its own queue and enters the first mode.  ImageIntegrity   *)
(* is the check of the image, Heap the allocator.                          *)
(*                                                                         *)
(* Heaps                  records [ucHeap, size] of where the heap may be  *)
(*                        and how many bytes it may have                   *)
(* configTOTAL_HEAP_SIZE  the size the code configures                     *)
(* SizeOfQueue, SizeOfTCB, SizeOfStackType, FaultEvents, Commands, ...     *)
(*                        sizes in bytes: of the kernel's objects, and of  *)
(*                        the items of each queue together                 *)
(* TaskConfigs            task_configs: a sequence of [name, stack_size]   *)
(* KernelStack            configMINIMAL_STACK_SIZE                         *)
(* DEBUG                  whether the build registers its tasks with the   *)
(*                        telemetry                                        *)
(***************************************************************************)
EXTENDS ImageIntegrity, Heap, SystemDefs

CONSTANTS Heaps, configTOTAL_HEAP_SIZE, SizeOfQueue, SizeOfTCB, SizeOfStackType,
          FaultEvents, Commands, TimerCommands, StateRequestsSize,
          TaskConfigs, KernelStack, DEBUG

ASSUME BootAssumption ==
    /\ \A h \in Heaps : h.ucHeap \in Nat \ {0} /\ h.size \in Nat
    /\ {SizeOfQueue, SizeOfTCB, SizeOfStackType, KernelStack} \subseteq Nat \ {0}
    /\ {FaultEvents, Commands, TimerCommands, StateRequestsSize} \subseteq Nat
    /\ DEBUG \in BOOLEAN

(* Between its rounded ends a heap has room for one block's header and     *)
(* more: in less than that prvHeapInit's unsigned sizes wrap.              *)
ASSUME HeapsAssumption == \A h \in Heaps : HoldsAHeader(h.ucHeap, h.size)

ASSUME TaskConfigsAssumption ==
    /\ TaskConfigs \in Seq([name : STRING, stack_size : Nat \ {0}])
    /\ \A i, j \in DOMAIN TaskConfigs : TaskConfigs[i].name = TaskConfigs[j].name => i = j
    /\ \A i \in DOMAIN TaskConfigs : TaskConfigs[i].name \notin {"Idle", "TmrSvc"}

(* The first task's stack is no smaller than the command queue.  *)
ASSUME FirstStackAssumption ==
    /\ TaskConfigs # <<>>
    /\ TaskConfigs[1].stack_size * SizeOfStackType >= SizeOfQueue + Commands

VARIABLES
    build,              \* the heap's place and size, which the build fixes
    heap,
    objects,            \* what was allocated: where, and how many bytes
    call,               \* what main, the kernel or the first task does next
    log,                \* the flight recorder
    gSystemState

bootVars == <<build, heap, objects, call, log, gSystemState>>

(* The calls of main, and those of the scheduler until a task runs.  *)
EventLogLast  == <<"fault_queue_init", "command_init", "image_integrity_verify",
                   "event_log_init", "tasks_create_all", "prvCreateIdleTasks",
                   "xTimerCreateTimerTask", "vTaskStateMachine", "running">>
CallsInOrder  == <<"fault_queue_init", "command_init", "event_log_init",
                   "image_integrity_verify", "tasks_create_all", "prvCreateIdleTasks",
                   "xTimerCreateTimerTask", "vTaskStateMachine", "running">>
Following == CallsInOrder[CHOOSE i \in 2 .. Len(CallsInOrder) : CallsInOrder[i - 1] = call]

(* system_halt, and a configASSERT that fails: for ever.  *)
Stopped == {"system_halt", "configASSERT"}

Queue(name) == <<"queue", name>>
Stack(task) == <<"stack", task>>
Tcb(task)   == <<"tcb", task>>
Exists(object) == object \in DOMAIN objects
TaskExists(task) == Exists(Stack(task)) /\ Exists(Tcb(task))

-----------------------------------------------------------------------------
BootInit ==
    /\ Init
    /\ build \in Heaps
    /\ heap = prvHeapInit(build.ucHeap, build.size)     \* by the first call
    /\ objects = <<>>
    /\ call = CallsInOrder[1]
    /\ log = <<>>
    /\ gSystemState = BOOT

(* The image is patched, and may be damaged, before the system is started. *)
BeforePowerOn ==
    /\ call = CallsInOrder[1]
    /\ PatchKernel \/ \E bits \in Bursts \cup Pairs : Damage(bits)
    /\ UNCHANGED bootVars

Recorded(objs, object, at, bytes) ==
    [o \in DOMAIN objs \cup {object} |->
        IF o = object THEN [at |-> at, bytes |-> bytes] ELSE objs[o]]

(* xQueueGenericCreate: one allocation for the queue and its items.        *)
xQueueCreate(name, bytes) ==
    LET made == pvPortMalloc(heap, SizeOfQueue + bytes) IN
    /\ heap' = made.heap
    /\ objects' = IF made.at = NULL THEN objects
                  ELSE Recorded(objects, Queue(name), made.at, SizeOfQueue + bytes)

(* xTaskCreate: the stack, then the TCB; a stack without a TCB is freed.   *)
prvCreateTask(task, depth) ==
    LET bytes == depth * SizeOfStackType
        stack == pvPortMalloc(heap, bytes)
        tcb   == pvPortMalloc(stack.heap, SizeOfTCB)
    IN IF stack.at = NULL \/ tcb.at = NULL
       THEN /\ heap' = IF stack.at = NULL THEN heap ELSE vPortFree(tcb.heap, stack.at)
            /\ UNCHANGED objects
       ELSE /\ heap' = tcb.heap
            /\ objects' = Recorded(Recorded(objects, Stack(task), stack.at, bytes),
                                   Tcb(task), tcb.at, SizeOfTCB)

Created(object) == object \in DOMAIN objects'

-----------------------------------------------------------------------------
(* main halts when there is no fault queue, but goes on without a command  *)
(* queue.                                                                  *)
FaultQueueInit ==
    /\ call = "fault_queue_init"
    /\ xQueueCreate("Fault", FaultEvents)
    /\ call' = IF Created(Queue("Fault")) THEN Following ELSE "system_halt"
    /\ UNCHANGED <<vars, build, log, gSystemState>>

CommandInit ==
    /\ call = "command_init"
    /\ xQueueCreate("Command", Commands)
    /\ call' = Following
    /\ UNCHANGED <<vars, build, log, gSystemState>>

(* The log is emptied, then records the boot.  *)
EventLogInit ==
    /\ call = "event_log_init"
    /\ log' = << <<"BOOT">> >>
    /\ call' = Following
    /\ UNCHANGED <<vars, build, heap, objects, gSystemState>>

VerifyImage ==
    /\ call = "image_integrity_verify"
    /\ Verify
    /\ log' = IF image_integrity_ok' THEN log ELSE Append(log, <<"IMAGE_CRC_FAIL">>)
    /\ call' = Following
    /\ UNCHANGED <<build, heap, objects, gSystemState>>

(* One turn of the loop in tasks_create_all.  After the last a DEBUG build *)
(* asks for the handle of the idle task, which asserts that there is one.  *)
NextTask == CHOOSE i \in DOMAIN TaskConfigs :
    /\ ~TaskExists(TaskConfigs[i].name)
    /\ \A j \in 1 .. (i - 1) : TaskExists(TaskConfigs[j].name)
IsLastTask(i) == i = Len(TaskConfigs)

CreationIsTrusted(task) == TRUE
CreationSucceeded(task) == Created(Tcb(task))

CreateTask ==
    /\ call = "tasks_create_all"
    /\ LET config == TaskConfigs[NextTask] IN
       /\ prvCreateTask(config.name, config.stack_size)
       /\ call' = IF ~CreationSucceeded(config.name) THEN "system_halt"
                  ELSE IF ~IsLastTask(NextTask) THEN call
                  ELSE IF DEBUG /\ ~TaskExists("Idle") THEN "configASSERT"
                  ELSE Following
    /\ UNCHANGED <<vars, build, log, gSystemState>>

(* vTaskStartScheduler: the idle task, then the timer queue and task; both *)
(* failures end in a configASSERT.                                         *)
CreateIdleTask ==
    /\ call = "prvCreateIdleTasks"
    /\ prvCreateTask("Idle", KernelStack)
    /\ call' = IF CreationSucceeded("Idle") THEN Following ELSE "configASSERT"
    /\ UNCHANGED <<vars, build, log, gSystemState>>

CreateTimerQueue ==
    /\ call = "xTimerCreateTimerTask"
    /\ ~Exists(Queue("Timer"))
    /\ xQueueCreate("Timer", TimerCommands)
    /\ call' = IF Created(Queue("Timer")) THEN call ELSE "configASSERT"
    /\ UNCHANGED <<vars, build, log, gSystemState>>

CreateTimerTask ==
    /\ call = "xTimerCreateTimerTask"
    /\ Exists(Queue("Timer"))
    /\ prvCreateTask("TmrSvc", KernelStack)
    /\ call' = IF CreationSucceeded("TmrSvc") THEN Following ELSE "configASSERT"
    /\ UNCHANGED <<vars, build, log, gSystemState>>

(* vTaskStateMachine up to its loop, which asserts that there is a queue.  *)
StateMachineStarts ==
    /\ call = "vTaskStateMachine"
    /\ xQueueCreate("StateRequest", StateRequestsSize)
    /\ gSystemState' = IF image_integrity_ok THEN NOMINAL ELSE DEGRADED
    /\ log' = Append(log, <<"STATE_CHANGE", gSystemState, gSystemState'>>)
    /\ call' = IF Created(Queue("StateRequest")) THEN Following ELSE "configASSERT"
    /\ UNCHANGED <<vars, build>>

BootStep ==
    \/ FaultQueueInit \/ CommandInit \/ EventLogInit \/ VerifyImage \/ CreateTask
    \/ CreateIdleTask \/ CreateTimerQueue \/ CreateTimerTask \/ StateMachineStarts

BootNext == BeforePowerOn \/ BootStep

BootSpec == BootInit /\ [][BootNext]_<<vars, bootVars>>

-----------------------------------------------------------------------------
BootTypeOK ==
    /\ TypeOK
    /\ build \in Heaps
    /\ \A o \in DOMAIN objects : objects[o].at \in Nat /\ objects[o].bytes \in Nat
    /\ call \in ToSet(CallsInOrder) \cup Stopped
    /\ gSystemState \in {BOOT, NOMINAL, DEGRADED}

(* heap_4 keeps its list: the blocks tile the heap, the free ones are in   *)
(* order and merged, and none is lost when a task cannot be created.       *)
HeapIsConsistent == BlocksTile(heap) /\ FreeListIsExact(heap)

(* What the firmware allocates lies in the heap, in front of the end       *)
(* marker, aligned, and clear of everything else and of all the headers.   *)
ObjectsAreApart ==
    \A o \in DOMAIN objects :
        LET at == objects[o].at
            past == at + objects[o].bytes
        IN /\ build.ucHeap <= at /\ past <= heap.pxEnd
           /\ at % portBYTE_ALIGNMENT = 0
           /\ \A p \in DOMAIN objects \ {o} :
                  objects[p].at >= past \/ objects[p].at + objects[p].bytes <= at
           /\ \A b \in DOMAIN heap.xBlockSize : b >= past \/ After(b) <= at

(* Although main does not look whether there is a command queue, no heap   *)
(* is so small that the system runs without one, or without any other of   *)
(* its queues and tasks: what is created later needs more.                 *)
Names == {TaskConfigs[i].name : i \in DOMAIN TaskConfigs} \cup {"Idle", "TmrSvc"}
RunningIsComplete ==
    call = "running" =>
        /\ \A q \in {"Fault", "Command", "Timer", "StateRequest"} : Exists(Queue(q))
        /\ \A task \in Names : TaskExists(task)

(* With the heap the code configures nothing halts and nothing asserts on  *)
(* the way to the running system (README.md:81 takes this for granted for  *)
(* a DEBUG build too).                                                     *)
ConfiguredBootCompletes == build.size = configTOTAL_HEAP_SIZE => call \notin Stopped

(* What makes it so: the configured heap has more than the blocks of all   *)
(* queues and tasks take, and a block left over.                           *)
QueueNeeds(bytes) == BlockSizeFor(SizeOfQueue + bytes)
TaskNeeds(depth)  == BlockSizeFor(depth * SizeOfStackType) + BlockSizeFor(SizeOfTCB)
TasksNeed == [i \in DOMAIN TaskConfigs |-> TaskNeeds(TaskConfigs[i].stack_size)]
BytesNeeded ==
    QueueNeeds(FaultEvents) + QueueNeeds(Commands) + QueueNeeds(TimerCommands)
        + QueueNeeds(StateRequestsSize) + 2 * TaskNeeds(KernelStack)
        + MapThenSumSet(LAMBDA i : TasksNeed[i], DOMAIN TaskConfigs)
HeapSuffices ==
    \A h \in Heaps : h.size = configTOTAL_HEAP_SIZE =>
        prvHeapInit(h.ucHeap, h.size).xFreeBytesRemaining > BytesNeeded + heapMINIMUM_BLOCK_SIZE

(* Once there is a mode, it and the log say what was true of the image: an *)
(* image that was patched and not damaged, and whose CRC is not 0, boots   *)
(* into NOMINAL, any other into DEGRADED, with a record of the failure     *)
(* between that of the boot and that of the mode.                          *)
ImageIsSound == patched /\ damage = {} /\ image_integrity_computed # {}
ModeTellsImage ==
    gSystemState # BOOT =>
        IF ImageIsSound
        THEN /\ gSystemState = NOMINAL
             /\ log = << <<"BOOT">>, <<"STATE_CHANGE", BOOT, NOMINAL>> >>
        ELSE /\ gSystemState = DEGRADED
             /\ log = << <<"BOOT">>, <<"IMAGE_CRC_FAIL">>, <<"STATE_CHANGE", BOOT, DEGRADED>> >>
=============================================================================
