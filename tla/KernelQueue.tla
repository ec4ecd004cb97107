----------------------------- MODULE KernelQueue -----------------------------
(***************************************************************************)
(* Tasks that delay, send to a queue and receive from it, over the kernel: *)
(* vTaskDelay (FreeRTOS/Source/tasks.c), xQueueGenericSend and             *)
(* xQueueReceive (FreeRTOS/Source/queue.c), and the tick interrupt.        *)
(* An action is what happens with interrupts masked, or with the scheduler *)
(* suspended, when an interrupt can do no more than count a tick; between  *)
(* two actions of a task anything may come in.  Nobody in the firmware     *)
(* waits to send, so a send is one critical section.                       *)
(*                                                                         *)
(* Workloads        what the tasks may do, one of them for a behaviour:    *)
(*                  the times each task passes to vTaskDelay and to        *)
(*                  xQueueReceive, and the items it sends                  *)
(* NoItem           what a slot of the queue holds at first                *)
(* uxLength         the length of the queue                                *)
(* MaxTicks         bound: timer interrupts in a behaviour                  *)
(* MaxPended        bound: ticks while the scheduler is suspended          *)
(***************************************************************************)
EXTENDS KernelTasks

CONSTANTS Workloads, NoItem, uxLength, MaxTicks, MaxPended

ASSUME QueueAssumption ==
    /\ \A w \in Workloads : \A t \in Tasks :
           w.delays[t] \subseteq Ticks \ {0} /\ w.waits[t] \subseteq Ticks
    /\ \A w \in Workloads :          \* the idle task never blocks
           \E t \in Tasks : Priority[t] = 0 /\ w.delays[t] = {} /\ w.waits[t] \subseteq {0}
    /\ uxLength \in Nat \ {0}

VARIABLES
    workload,           \* what the tasks do, a member of Workloads
    k,                  \* the kernel's data
    pcStorage,          \* the queue: its slots
    pcWriteTo,          \* the slot the next item is written to
    pcReadFrom,         \* the slot the last item was read from
    uxMessagesWaiting,  \* items in the queue
    pc,                 \* per task, where it is
    xTicksToWait,       \* per task, the time xQueueReceive still has
    xTimeOut,           \* per task, since when
    xEntryTimeSet       \* per task, whether that is set

queue  == <<pcStorage, pcWriteTo, pcReadFrom, uxMessagesWaiting>>
locals == <<xTicksToWait, xTimeOut, xEntryTimeSet>>
vars   == <<workload, k, queue, pc, locals>>

Slots     == 0 .. (uxLength - 1)
NoTimeOut == [xOverflowCount |-> 0, xTimeOnEntering |-> 0]

Init ==
    /\ workload \in Workloads
    /\ k = InitialKernel
    /\ pcStorage = [s \in Slots |-> NoItem]
    /\ pcWriteTo = 0
    /\ pcReadFrom = uxLength - 1
    /\ uxMessagesWaiting = 0
    /\ pc = [t \in Tasks |-> "run"]
    /\ xTicksToWait = [t \in Tasks |-> 0]
    /\ xTimeOut = [t \in Tasks |-> NoTimeOut]
    /\ xEntryTimeSet = [t \in Tasks |-> FALSE]

-----------------------------------------------------------------------------
Running(t, label) == k.pxCurrentTCB = t /\ pc[t] = label
Goto(t, label)    == pc' = [pc EXCEPT ![t] = label]

(* xTaskResumeAll yields itself, from within its critical section, if a    *)
(* yield is pending; if not, the caller goes on to the label "otherwise".  *)
ResumeAll(t, yielded, otherwise) ==
    LET open == xTaskResumeAll(k) IN
    IF open.xYieldPending
    THEN k' = vTaskSwitchContext(open) /\ Goto(t, yielded)
    ELSE k' = open /\ Goto(t, otherwise)

(* vTaskDelay *)
Delay(t, xTicksToDelay) ==
    /\ Running(t, "run")
    /\ k' = prvAddCurrentTaskToDelayedList(
                [vTaskSuspendAll(k) EXCEPT !.due[t] = xTicksToDelay], xTicksToDelay, FALSE)
    /\ Goto(t, "delayResume")
    /\ UNCHANGED <<workload, queue, locals>>

DelayResume(t) ==
    /\ Running(t, "delayResume")
    /\ ResumeAll(t, "run", "delayYield")
    /\ UNCHANGED <<workload, queue, locals>>

(* portYIELD, an ecall: the task goes on after it when it runs again.  *)
Yield(t, label, next) ==
    /\ Running(t, label)
    /\ k' = vTaskSwitchContext(k)
    /\ Goto(t, next)
    /\ UNCHANGED <<workload, queue, locals>>

-----------------------------------------------------------------------------
(* xQueueGenericSend to the back without waiting: prvCopyDataToQueue, and  *)
(* the first of the waiting receivers is made ready.  Nothing happens when *)
(* the queue is full.                                                      *)
WriteAfterTail(slot) == IF slot + 1 > uxLength THEN 0 ELSE slot + 1
WriteAfter(slot) == (slot + 1) % uxLength
HasRoom == uxMessagesWaiting < uxLength

Send(t, item) ==
    /\ Running(t, "run")
    /\ HasRoom
    /\ pcStorage' = [pcStorage EXCEPT ![pcWriteTo] = item]
    /\ pcWriteTo' = WriteAfter(pcWriteTo)
    /\ uxMessagesWaiting' = uxMessagesWaiting + 1
    /\ k' = IF k.xTasksWaitingToReceive = <<>> THEN k ELSE xTaskRemoveFromEventList(k)
    /\ UNCHANGED <<workload, pcReadFrom, pc, locals>>

-----------------------------------------------------------------------------
(* xQueueReceive.  What it leaves in its locals is dead once it returns.   *)
Return(t) ==
    /\ Goto(t, "run")
    /\ xTicksToWait' = [xTicksToWait EXCEPT ![t] = 0]
    /\ xTimeOut' = [xTimeOut EXCEPT ![t] = NoTimeOut]
    /\ xEntryTimeSet' = [xEntryTimeSet EXCEPT ![t] = FALSE]

Receive(t, wait) ==
    /\ Running(t, "run")
    /\ xTicksToWait' = [xTicksToWait EXCEPT ![t] = wait]
    /\ Goto(t, "check")
    /\ UNCHANGED <<workload, k, queue, xTimeOut, xEntryTimeSet>>

(* The critical section at the head of the loop. *)
TakeItem(t) ==
    /\ Running(t, "check")
    /\ uxMessagesWaiting > 0
    /\ pcReadFrom' = (pcReadFrom + 1) % uxLength      \* prvCopyDataFromQueue
    /\ uxMessagesWaiting' = uxMessagesWaiting - 1
    /\ k' = [k EXCEPT !.due[t] = 0]
    /\ Return(t)
    /\ UNCHANGED <<workload, pcStorage, pcWriteTo>>

GiveUpAtOnce(t) ==
    /\ Running(t, "check")
    /\ uxMessagesWaiting = 0
    /\ xTicksToWait[t] = 0
    /\ Return(t)
    /\ UNCHANGED <<workload, k, queue>>

StartWaiting(t) ==
    /\ Running(t, "check")
    /\ uxMessagesWaiting = 0
    /\ xTicksToWait[t] # 0
    /\ IF xEntryTimeSet[t] THEN UNCHANGED <<k, xTimeOut, xEntryTimeSet>>
       ELSE /\ xTimeOut' = [xTimeOut EXCEPT ![t] = vTaskInternalSetTimeOutState(k)]
            /\ xEntryTimeSet' = [xEntryTimeSet EXCEPT ![t] = TRUE]
            /\ k' = [k EXCEPT !.due[t] = IF xTicksToWait[t] = portMAX_DELAY THEN Forever
                                         ELSE xTicksToWait[t]]
    /\ Goto(t, "suspend")
    /\ UNCHANGED <<workload, queue, xTicksToWait>>

(* The scheduler is suspended.  If the time is over the task goes to look  *)
(* at the queue once more; if not, it counts the time again from now, and  *)
(* waits if the queue is still empty.                                      *)
WaitIsOver(t) ==
    /\ Running(t, "suspend")
    /\ TimedOut(k, xTimeOut[t], xTicksToWait[t])
    /\ xTicksToWait' = [xTicksToWait EXCEPT ![t] = 0]
    /\ k' = vTaskSuspendAll(k)
    /\ Goto(t, "lastResume")
    /\ UNCHANGED <<workload, queue, xTimeOut, xEntryTimeSet>>

WaitWithoutLooking(t) ==
    /\ Running(t, "suspend")
    /\ ~TimedOut(k, xTimeOut[t], xTicksToWait[t])
    /\ k' = vTaskPlaceOnEventList(vTaskSuspendAll(k), xTicksToWait[t])
    /\ Goto(t, "waitResume")
    /\ UNCHANGED <<workload, queue, locals>>

TimeLeft(t) ==
    IF xTicksToWait[t] = portMAX_DELAY THEN portMAX_DELAY
    ELSE xTicksToWait[t] - xElapsedTime(k, xTimeOut[t])

WaitGoesOn(t) ==
    /\ Running(t, "suspend")
    /\ ~TimedOut(k, xTimeOut[t], xTicksToWait[t])
    /\ xTicksToWait' = [xTicksToWait EXCEPT ![t] = TimeLeft(t)]
    /\ xTimeOut' = IF xTicksToWait[t] = portMAX_DELAY THEN xTimeOut
                   ELSE [xTimeOut EXCEPT ![t] = vTaskInternalSetTimeOutState(k)]
    /\ IF uxMessagesWaiting = 0
       THEN /\ k' = vTaskPlaceOnEventList(vTaskSuspendAll(k), TimeLeft(t))
            /\ Goto(t, "waitResume")
       ELSE k' = vTaskSuspendAll(k) /\ Goto(t, "retryResume")
    /\ UNCHANGED <<workload, queue, xEntryTimeSet>>

WaitResume(t) ==
    /\ Running(t, "waitResume")
    /\ ResumeAll(t, "check", "waitYield")
    /\ UNCHANGED <<workload, queue, locals>>

RetryResume(t) ==
    /\ Running(t, "retryResume")
    /\ ResumeAll(t, "check", "check")
    /\ UNCHANGED <<workload, queue, locals>>

LastResume(t) ==
    /\ Running(t, "lastResume")
    /\ ResumeAll(t, "last", "last")
    /\ UNCHANGED <<workload, queue, locals>>

(* The time is over: errQUEUE_EMPTY, unless an item has come after all.    *)
GiveUp(t) ==
    /\ Running(t, "last")
    /\ uxMessagesWaiting = 0
    /\ Return(t)
    /\ UNCHANGED <<workload, k, queue>>

TryOnceMore(t) ==
    /\ Running(t, "last")
    /\ uxMessagesWaiting > 0
    /\ Goto(t, "check")
    /\ UNCHANGED <<workload, k, queue, locals>>

-----------------------------------------------------------------------------
Elapse(kernel) ==       \* history
    [kernel EXCEPT !.due = [t \in Tasks |-> IF @[t] \in {0, Forever} THEN @[t] ELSE @[t] - 1]]

(* The timer interrupt: the tick, and a context switch if it asks for one. *)
Tick ==
    /\ k.xNumOfOverflows * TickModulus + k.xTickCount + k.xPendedTicks < MaxTicks
    /\ k.xPendedTicks < MaxPended
    /\ LET tick == xTaskIncrementTick(Elapse(k)) IN
       k' = IF tick.xSwitchRequired THEN vTaskSwitchContext(tick.kernel) ELSE tick.kernel
    /\ UNCHANGED <<workload, queue, pc, locals>>

Step(t) ==
    \/ \E xTicksToDelay \in workload.delays[t] : Delay(t, xTicksToDelay)
    \/ DelayResume(t)
    \/ Yield(t, "delayYield", "run")
    \/ \E item \in workload.items[t] : Send(t, item)
    \/ \E wait \in workload.waits[t] : Receive(t, wait)
    \/ TakeItem(t) \/ GiveUpAtOnce(t) \/ StartWaiting(t)
    \/ WaitIsOver(t) \/ WaitGoesOn(t)
    \/ WaitResume(t) \/ RetryResume(t) \/ LastResume(t)
    \/ Yield(t, "waitYield", "check")
    \/ GiveUp(t) \/ TryOnceMore(t)

Next == Tick \/ \E t \in Tasks : Step(t)

Spec == Init /\ [][Next]_vars

-----------------------------------------------------------------------------
TypeOK ==
    /\ workload \in Workloads
    /\ k \in Kernel
    /\ pcStorage \in [Slots -> {NoItem} \cup UNION {workload.items[t] : t \in Tasks}]
    /\ pcWriteTo \in Slots /\ pcReadFrom \in Slots
    /\ uxMessagesWaiting \in 0 .. uxLength
    /\ pc \in [Tasks -> {"run", "delayResume", "delayYield", "check", "suspend",
                         "waitResume", "waitYield", "retryResume", "lastResume", "last"}]
    /\ xTicksToWait \in [Tasks -> Ticks]
    /\ xTimeOut \in [Tasks -> TimeOut]
    /\ xEntryTimeSet \in [Tasks -> BOOLEAN]

(* A sleeping task is in the list its wake time belongs to, and the tick   *)
(* count comes to that time exactly when the time the task asked for is    *)
(* over, however often the count or the time wraps in between, and         *)
(* although ticks are counted late while the scheduler is suspended.       *)
TicksToWake(t) ==
    k.xTimeToWake[t] - k.xTickCount
        + IF t \in ToSet(k.pxOverflowDelayedTaskList) THEN TickModulus ELSE 0
SleepsUntilDue ==
    \A t \in Tasks :
        IF t \in Sleepers(k)
        THEN /\ TicksToWake(t) \in 1 .. portMAX_DELAY
             /\ k.due[t] = Max({0, TicksToWake(t) - k.xPendedTicks})
        ELSE IsReady(k, t) \/ (t \in ToSet(k.xSuspendedTaskList) /\ k.due[t] = Forever)

(* Whenever the scheduler is not held up, the running task is ready and no *)
(* ready task has a higher priority.                                       *)
NoneIsHigher == \A t \in Tasks : IsReady(k, t) => Priority[t] <= Priority[k.pxCurrentTCB]
RightTaskRuns ==
    k.uxSchedulerSuspended = 0 /\ pc[k.pxCurrentTCB] \notin {"delayYield", "waitYield"} =>
        IsReady(k, k.pxCurrentTCB) /\ NoneIsHigher

(* What makes it inductive.  Only the running task suspends the scheduler, *)
(* and a task that will is where it has just blocked or is about to yield. *)
SchedulerHeld == {"delayResume", "waitResume", "retryResume", "lastResume"}
Blocking      == {"delayResume", "waitResume", "delayYield", "waitYield"}
Yielding      == {"delayYield", "waitYield"}
ControlInv ==
    /\ k.uxSchedulerSuspended = IF pc[k.pxCurrentTCB] \in SchedulerHeld THEN 1 ELSE 0
    /\ \A t \in Tasks \ {k.pxCurrentTCB} : pc[t] \notin SchedulerHeld
    /\ ~k.xYieldPending
    /\ pc[k.pxCurrentTCB] \notin Blocking => IsReady(k, k.pxCurrentTCB)
    /\ pc[k.pxCurrentTCB] \notin Yielding => NoneIsHigher

(* Who waits has been given a time to wait.  An idle task never waits, and *)
(* so there is always one that is ready.                                   *)
Waits(t)       == \E wait \in workload.waits[t] : wait # 0
NeverBlocks(t) == workload.delays[t] = {} /\ ~Waits(t)
WaitInv ==
    /\ \A t \in Tasks : xTicksToWait[t] # 0 => Waits(t)
    /\ \A t \in Tasks : pc[t] = "suspend" => xTicksToWait[t] # 0
    /\ \A t \in ToSet(k.xTasksWaitingToReceive) : Waits(t)
    /\ \A t \in Tasks : NeverBlocks(t) => IsReady(k, t)

KernelInv == TypeOK /\ InOneList(k) /\ ControlInv /\ WaitInv

(* No ready task starves within its priority, whatever order the others    *)
(* become ready, block and are woken in: other tasks are chosen before it  *)
(* at most twice as often in all as it has peers.  (As often as it has     *)
(* peers is not enough: when the running task blocks, the index moves      *)
(* back, and a task made ready then comes before others.)                  *)
FairShare ==
    \A t \in Tasks :
        k.passed[t] <= 2 * Cardinality({u \in Tasks \ {t} : Priority[u] = Priority[t]})

(* The firmware has one task that waits for a queue.  It never waits while *)
(* there is something in the queue, though a send may come in between its  *)
(* look at the queue and its wait.                                         *)
OneReceiver ==
    \A w \in Workloads : \A t, u \in Tasks :
        w.waits[t] \ {0} # {} /\ w.waits[u] \ {0} # {} => t = u
NoLostWakeup == k.xTasksWaitingToReceive # <<>> => uxMessagesWaiting = 0

(* xQueueReceive returns empty-handed only when the time it was given is   *)
(* over, and with portMAX_DELAY never.                                     *)
EmptyOnlyWhenDue ==
    [][\A t \in Tasks :
        pc[t] \in {"check", "last"} /\ pc'[t] = "run" /\ uxMessagesWaiting' = uxMessagesWaiting
            => k.due[t] = 0]_vars

(* The ring of the queue is a bounded first-in first-out queue.  *)
Contents == [i \in 1 .. uxMessagesWaiting |-> pcStorage[(pcReadFrom + i) % uxLength]]
Fifo == INSTANCE BoundedQueue WITH items <- Contents
ImplementsFifo == Fifo!Spec
=============================================================================
