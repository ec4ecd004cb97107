----------------------------- MODULE KernelTasks -----------------------------
(***************************************************************************)
(* The scheduler's data and what each of its functions does to it          *)
(* (FreeRTOS/Source/tasks.c): single core, preemptive, time-sliced, with   *)
(* INCLUDE_vTaskSuspend, as FreeRTOSConfig.h sets it.  The state is one    *)
(* record, so that a function that calls others is their composition.      *)
(*                                                                         *)
(* CreationOrder    the tasks in the order xTaskCreate gets them, the idle *)
(*                  task, which the scheduler itself creates, the last     *)
(* Priority         of each task; the idle task has 0                      *)
(* TickModulus      2^64, 2^32 in a 32-bit build: the tick count wraps     *)
(***************************************************************************)
EXTENDS KernelLists, Integers

CONSTANTS CreationOrder, Priority, TickModulus

Tasks      == ToSet(CreationOrder)
Priorities == {Priority[t] : t \in Tasks}
TopPriority == Max(Priorities)

ASSUME KernelAssumption ==
    /\ Priority \in [Tasks -> Nat]
    /\ TickModulus \in Nat /\ TickModulus > 2
    /\ \E t \in Tasks : Priority[t] = 0
    /\ CreationOrder \in Seq(Tasks) /\ IsInjective(CreationOrder)

Ticks         == 0 .. (TickModulus - 1)
portMAX_DELAY == TickModulus - 1
Forever       == TickModulus

(***************************************************************************)
(* xTasksWaitingToReceive is the event list of the one queue of the model. *)
(* due and passed are history.  due[t] is the number of timer interrupts   *)
(* until the time task t asked for; passed[t] how often another task of    *)
(* its priority was chosen since t has been ready and was last chosen.     *)
(***************************************************************************)
Kernel == [pxCurrentTCB : Tasks,
           pxReadyTasksLists : [0 .. TopPriority -> [items : Seq(Tasks), index : Nat]],
           uxTopReadyPriority : 0 .. TopPriority,
           xTickCount : Ticks,
           xNumOfOverflows : Nat,
           pxDelayedTaskList : Seq(Tasks),
           pxOverflowDelayedTaskList : Seq(Tasks),
           xSuspendedTaskList : Seq(Tasks),
           xTasksWaitingToReceive : Seq(Tasks),
           xNextTaskUnblockTime : Ticks,
           xTimeToWake : [Tasks -> Ticks],
           xPendedTicks : Nat,
           xYieldPending : BOOLEAN,
           uxSchedulerSuspended : {0, 1},
           due : [Tasks -> 0 .. Forever],
           passed : [Tasks -> Nat]]

ReadyList(k, p) == k.pxReadyTasksLists[p].items
IsReady(k, t)   == Contains(ReadyList(k, Priority[t]), t)
ReadyTasks(k)   == {t \in Tasks : IsReady(k, t)}
Sleepers(k)     == ToSet(k.pxDelayedTaskList) \cup ToSet(k.pxOverflowDelayedTaskList)

-----------------------------------------------------------------------------
(* prvAddTaskToReadyList, taskRECORD_READY_PRIORITY *)
prvAddTaskToReadyListUnrecorded(k, t) ==
    [k EXCEPT !.pxReadyTasksLists[Priority[t]] = vListInsertEnd(@, t)]
prvAddTaskToReadyList(k, t) ==
    [k EXCEPT !.uxTopReadyPriority = IF Priority[t] > @ THEN Priority[t] ELSE @,
              !.pxReadyTasksLists[Priority[t]] = vListInsertEnd(@, t)]

(* The kernel before the first task is created, and what xTaskCreate does  *)
(* while the scheduler does not run yet: the current task is the one       *)
(* created last of those with the highest priority.                        *)
prvInitialiseTaskLists ==
    [pxCurrentTCB |-> Head(CreationOrder),      \* NULL until the first is created
     pxReadyTasksLists |-> [p \in 0 .. TopPriority |-> vListInitialise],
     uxTopReadyPriority |-> 0,
     xTickCount |-> 0, xNumOfOverflows |-> 0,
     pxDelayedTaskList |-> <<>>, pxOverflowDelayedTaskList |-> <<>>,
     xSuspendedTaskList |-> <<>>, xTasksWaitingToReceive |-> <<>>,
     xNextTaskUnblockTime |-> portMAX_DELAY,
     xTimeToWake |-> [t \in Tasks |-> 0],
     xPendedTicks |-> 0, xYieldPending |-> FALSE, uxSchedulerSuspended |-> 0,
     due |-> [t \in Tasks |-> 0], passed |-> [t \in Tasks |-> 0]]
prvAddNewTaskToReadyList(k, t) ==
    [prvAddTaskToReadyList(k, t) EXCEPT
        !.pxCurrentTCB = IF Priority[@] <= Priority[t] THEN t ELSE @]
InitialKernel ==
    FoldLeft(prvAddNewTaskToReadyList, prvInitialiseTaskLists, CreationOrder)

(* taskSELECT_HIGHEST_PRIORITY_TASK: down from uxTopReadyPriority.  *)
SelectHighestPriorityTask(k) ==
    LET p == Max({q \in 0 .. k.uxTopReadyPriority : ReadyList(k, q) # <<>>})
        list == ListNextEntry(k.pxReadyTasksLists[p])
        chosen == ListOwner(list)
    IN [k EXCEPT !.pxReadyTasksLists[p] = list,
                 !.uxTopReadyPriority = p,
                 !.pxCurrentTCB = chosen,
                 !.passed = [t \in Tasks |->
                     IF t = chosen \/ ~IsReady(k, t) THEN 0
                     ELSE IF Priority[t] = p THEN @[t] + 1 ELSE @[t]]]

vTaskSwitchContext(k) ==
    IF k.uxSchedulerSuspended # 0
    THEN [k EXCEPT !.xYieldPending = TRUE]
    ELSE SelectHighestPriorityTask([k EXCEPT !.xYieldPending = FALSE])

vTaskSuspendAll(k) == [k EXCEPT !.uxSchedulerSuspended = @ + 1]

(* prvResetNextTaskUnblockTime *)
HeadWakeTime(k) ==
    IF k.pxDelayedTaskList = <<>> THEN portMAX_DELAY
    ELSE k.xTimeToWake[Head(k.pxDelayedTaskList)]
prvResetNextTaskUnblockTime(k) == [k EXCEPT !.xNextTaskUnblockTime = HeadWakeTime(k)]

(* prvAddCurrentTaskToDelayedList: the wake time may wrap, and the task    *)
(* then waits in the other list until the tick count has wrapped as well.  *)
prvAddCurrentTaskToDelayedList(k, xTicksToWait, xCanBlockIndefinitely) ==
    LET t == k.pxCurrentTCB
        wake == (k.xTickCount + xTicksToWait) % TickModulus
        removed == [k EXCEPT !.pxReadyTasksLists[Priority[t]] = uxListRemove(@, t)]
        timed == [removed EXCEPT !.xTimeToWake[t] = wake]
    IN IF xTicksToWait = portMAX_DELAY /\ xCanBlockIndefinitely
       THEN [removed EXCEPT !.xSuspendedTaskList = Append(@, t)]
       ELSE IF wake < k.xTickCount
       THEN [timed EXCEPT !.pxOverflowDelayedTaskList = vListInsert(@, timed.xTimeToWake, t)]
       ELSE [timed EXCEPT !.pxDelayedTaskList = vListInsert(@, timed.xTimeToWake, t),
                          !.xNextTaskUnblockTime = IF wake < @ THEN wake ELSE @]

(* taskSWITCH_DELAYED_LISTS *)
SwitchDelayedLists(k) ==
    prvResetNextTaskUnblockTime(
        [k EXCEPT !.pxDelayedTaskList = k.pxOverflowDelayedTaskList,
                  !.pxOverflowDelayedTaskList = k.pxDelayedTaskList,
                  !.xNumOfOverflows = @ + 1])

(* A task whose time has come leaves its lists, the queue's included.  The *)
(* wake time it had is not looked at again.                                *)
TimeOutTaskStillWaiting(k, t) ==
    prvAddTaskToReadyList([k EXCEPT !.pxDelayedTaskList = RemoveFirst(@, t)], t)
TimeOutTask(k, t) ==
    prvAddTaskToReadyList(
        [k EXCEPT !.pxDelayedTaskList = RemoveFirst(@, t),
                  !.xTasksWaitingToReceive = RemoveFirst(@, t),
                  !.xTimeToWake[t] = 0], t)

(* The tick proper: the loop over the head of the delayed list ends at the *)
(* first task whose time is still to come.                                 *)
OneTick(k) ==
    LET now == (k.xTickCount + 1) % TickModulus
        counted == [k EXCEPT !.xTickCount = now]
        switched == IF now = 0 THEN SwitchDelayedLists(counted) ELSE counted
        list == switched.pxDelayedTaskList
        n == Max({i \in 0 .. Len(list) : \A j \in 1 .. i : switched.xTimeToWake[list[j]] <= now})
        expired == IF now >= switched.xNextTaskUnblockTime THEN SubSeq(list, 1, n) ELSE <<>>
        woken == FoldLeft(TimeOutTask, switched, expired)
    IN [kernel |-> IF now >= switched.xNextTaskUnblockTime
                   THEN prvResetNextTaskUnblockTime(woken) ELSE woken,
        xSwitchRequired |->
            \/ \E t \in ToSet(expired) : Priority[t] > Priority[k.pxCurrentTCB]
            \/ Len(ReadyList(woken, Priority[k.pxCurrentTCB])) > 1
            \/ k.xYieldPending]

xTaskIncrementTick(k) ==
    IF k.uxSchedulerSuspended = 0 THEN OneTick(k)
    ELSE [kernel |-> [k EXCEPT !.xPendedTicks = @ + 1], xSwitchRequired |-> FALSE]

(* xTaskResumeAll up to its yield: the ticks that came in meanwhile are    *)
(* caught up with.  xPendingReadyList is always empty, see the README.     *)
UnwindTick(k, i) ==
    LET tick == xTaskIncrementTick(k) IN
    [tick.kernel EXCEPT !.xYieldPending = @ \/ tick.xSwitchRequired]
xTaskResumeAllForgettingTicks(k) ==
    [k EXCEPT !.uxSchedulerSuspended = @ - 1, !.xPendedTicks = 0]
xTaskResumeAll(k) ==
    [FoldLeft(UnwindTick, [k EXCEPT !.uxSchedulerSuspended = @ - 1],
              [i \in 1 .. k.xPendedTicks |-> i])
        EXCEPT !.xPendedTicks = 0]

-----------------------------------------------------------------------------
(* vTaskPlaceOnEventList: in the order of priority, first come first.  *)
EventItemValue == [t \in Tasks |-> TopPriority - Priority[t]]
vTaskPlaceOnEventList(k, xTicksToWait) ==
    prvAddCurrentTaskToDelayedList(
        [k EXCEPT !.xTasksWaitingToReceive = vListInsert(@, EventItemValue, k.pxCurrentTCB)],
        xTicksToWait, TRUE)

(* xTaskRemoveFromEventList with the scheduler not suspended, and the      *)
(* caller's yield, at once, to a task of higher priority.                  *)
xTaskRemoveFromEventList(k) ==
    LET t == Head(k.xTasksWaitingToReceive)
        ready == prvAddTaskToReadyList(
            [k EXCEPT !.xTasksWaitingToReceive = Tail(@),
                      !.pxDelayedTaskList = RemoveFirst(@, t),
                      !.pxOverflowDelayedTaskList = RemoveFirst(@, t),
                      !.xSuspendedTaskList = RemoveFirst(@, t),
                      !.xTimeToWake[t] = 0], t)
    IN IF Priority[t] > Priority[k.pxCurrentTCB] THEN vTaskSwitchContext(ready) ELSE ready

-----------------------------------------------------------------------------
(* vTaskInternalSetTimeOutState and xTaskCheckForTimeOut.  *)
TimeOut == [xOverflowCount : Nat, xTimeOnEntering : Ticks]
vTaskInternalSetTimeOutState(k) ==
    [xOverflowCount |-> k.xNumOfOverflows, xTimeOnEntering |-> k.xTickCount]

xElapsedTime(k, timeout) == (k.xTickCount - timeout.xTimeOnEntering) % TickModulus
WrappedAtAll(k, timeout) == k.xNumOfOverflows # timeout.xOverflowCount
WrappedPast(k, timeout) ==
    /\ k.xNumOfOverflows # timeout.xOverflowCount
    /\ k.xTickCount >= timeout.xTimeOnEntering
TimedOut(k, timeout, xTicksToWait) ==
    /\ xTicksToWait # portMAX_DELAY
    /\ WrappedPast(k, timeout) \/ xElapsedTime(k, timeout) >= xTicksToWait

-----------------------------------------------------------------------------
(* The order the kernel keeps its tasks in: every task is in one list for  *)
(* its state, once, and in an event list only while it is not ready.       *)
ReadyListSound(k, p) ==
    LET list == k.pxReadyTasksLists[p] IN
    /\ list.index <= Len(list.items)
    /\ IsInjective(list.items)
    /\ \A t \in ToSet(list.items) : Priority[t] = p
    /\ list.items # <<>> => p <= k.uxTopReadyPriority

InOneList(k) ==
    /\ \A p \in 0 .. TopPriority : ReadyListSound(k, p)
    /\ IsInjective(k.pxDelayedTaskList) /\ IsInjective(k.pxOverflowDelayedTaskList)
    /\ IsInjective(k.xSuspendedTaskList) /\ IsInjective(k.xTasksWaitingToReceive)
    /\ ToSet(k.pxDelayedTaskList) \cap ToSet(k.pxOverflowDelayedTaskList) = {}
    /\ Sleepers(k) \cap ToSet(k.xSuspendedTaskList) = {}
    /\ ReadyTasks(k) = Tasks \ (Sleepers(k) \cup ToSet(k.xSuspendedTaskList))
    /\ ToSet(k.xTasksWaitingToReceive) \cap ReadyTasks(k) = {}
=============================================================================
