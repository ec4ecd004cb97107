------------------------------- MODULE Watchdog -------------------------------
(***************************************************************************)
(* vTaskWatchdog and watchdog_kick (src/watchdog.c) over the notification  *)
(* word of the watchdog task, whose two kernel primitives are modelled as  *)
(* FreeRTOS/Source/tasks.c implements them.  The module says what each     *)
(* step of the task does; posting the state requests is left to the        *)
(* module that composes it with the state machine (EvaluateRequest).       *)
(*                                                                         *)
(* Time is a countdown: "remaining" holds deadline - xTaskGetTickCount(),  *)
(* floored at zero, where the code gives up on (int32_t) remaining <= 0.   *)
(*                                                                         *)
(* WatchdogTimeout    WATCHDOG_TIMEOUT_MS, in ticks of the model           *)
(* RecoveryThreshold  WATCHDOG_RECOVERY_THRESHOLD                          *)
(***************************************************************************)
EXTENDS SystemDefs

CONSTANTS WatchdogTimeout, RecoveryThreshold

ASSUME WatchdogAssumption == /\ WatchdogTimeout \in Nat \ {0}
                             /\ RecoveryThreshold \in Nat \ {0}

VARIABLES
    wdPc,               \* where vTaskWatchdog is
    received,           \* local: the bits collected in this cycle
    current_state,      \* local: the snapshot taken when the cycle began
    remaining,          \* ticks until the cycle's deadline
    successful_cycles,  \* local: good cycles towards recovery
    ulNotifiedValue,    \* TCB: the notification word, a set of bits
    ucNotifyState       \* TCB: "not_waiting", "waiting" or "received"

wdVars == <<wdPc, received, current_state, remaining, successful_cycles,
            ulNotifiedValue, ucNotifyState>>

WdTypeOK ==
    /\ wdPc \in {"start", "begin", "loop", "blocked", "woken", "evaluate"}
    /\ received \in SUBSET WatchdogBits
    /\ current_state \in SystemStates
    /\ remaining \in 0 .. WatchdogTimeout
    /\ successful_cycles \in 0 .. (RecoveryThreshold - 1)
    /\ ulNotifiedValue \in SUBSET WatchdogBits
    /\ ucNotifyState \in {"not_waiting", "waiting", "received"}

(* xWatchdogTaskHandle is NULL until the task has run for the first time.  *)
WdInit ==
    /\ wdPc = "start"
    /\ received = {}
    /\ current_state = BOOT
    /\ remaining = 0
    /\ successful_cycles = 0
    /\ ulNotifiedValue = {}
    /\ ucNotifyState = "not_waiting"

HandleIsSet == wdPc # "start"

-----------------------------------------------------------------------------
(* watchdog_kick by a monitored task: xTaskNotify(..., eSetBits).  Nothing *)
(* happens before the handle is set.  The bit stays in the word; the task  *)
(* is made ready only if it was blocked.                                   *)
NotifyBit(bit) ==
    /\ IF HandleIsSet
       THEN /\ ulNotifiedValue' = ulNotifiedValue \cup {bit}
            /\ ucNotifyState' = "received"
            /\ wdPc' = IF wdPc = "blocked" THEN "woken" ELSE wdPc
       ELSE UNCHANGED <<ulNotifiedValue, ucNotifyState, wdPc>>
    /\ UNCHANGED <<received, current_state, remaining, successful_cycles>>

(* One tick of the kernel as the watchdog sees it: the deadline comes      *)
(* nearer, and unblocks the task when it is reached.                       *)
WatchdogTick ==
    /\ remaining' = IF remaining = 0 THEN 0 ELSE remaining - 1
    /\ wdPc' = IF wdPc = "blocked" /\ remaining' = 0 THEN "woken" ELSE wdPc
    /\ UNCHANGED <<received, current_state, successful_cycles,
                   ulNotifiedValue, ucNotifyState>>

-----------------------------------------------------------------------------
(* The task. *)
ExpectedBits == WatchdogExpectedBits(current_state)
CompleteExactly == received = ExpectedBits
Complete     == ExpectedBits \subseteq received

WatchdogStart ==
    /\ wdPc = "start"
    /\ wdPc' = "begin"
    /\ UNCHANGED <<received, current_state, remaining, successful_cycles,
                   ulNotifiedValue, ucNotifyState>>

BeginCycleOnOldDeadline(state) ==
    /\ wdPc = "begin"
    /\ received' = {}
    /\ current_state' = state
    /\ wdPc' = "loop"
    /\ UNCHANGED <<remaining, successful_cycles, ulNotifiedValue, ucNotifyState>>

(* The head of the outer loop: everything the cycle is judged by is fixed  *)
(* here, the system state included.                                        *)
BeginCycle(state) ==
    /\ wdPc = "begin"
    /\ received' = {}
    /\ current_state' = state
    /\ remaining' = WatchdogTimeout
    /\ wdPc' = "loop"
    /\ UNCHANGED <<successful_cycles, ulNotifiedValue, ucNotifyState>>

LeaveLoop ==
    /\ wdPc = "loop"
    /\ Complete \/ remaining = 0
    /\ wdPc' = "evaluate"
    /\ UNCHANGED <<received, current_state, remaining, successful_cycles,
                   ulNotifiedValue, ucNotifyState>>

(* xTaskNotifyWait(0, 0, &bits, remaining), up to the point where it       *)
(* blocks: a notification already pending is returned without blocking.    *)
NotifyWait ==
    /\ wdPc = "loop"
    /\ ~Complete /\ remaining > 0
    /\ IF ucNotifyState = "received"
       THEN wdPc' = "woken" /\ ucNotifyState' = ucNotifyState
       ELSE wdPc' = "blocked" /\ ucNotifyState' = "waiting"
    /\ UNCHANGED <<received, current_state, remaining, successful_cycles,
                   ulNotifiedValue>>

(* The rest of xTaskNotifyWait: the whole word is returned, and with both  *)
(* clear masks zero none of it is cleared.  Without a notification the     *)
(* call has timed out, and the inner loop ends.                            *)
NotifyReturn ==
    /\ wdPc = "woken"
    /\ IF ucNotifyState = "received"
       THEN received' = received \cup ulNotifiedValue /\ wdPc' = "loop"
       ELSE received' = received /\ wdPc' = "evaluate"
    /\ ucNotifyState' = "not_waiting"
    /\ UNCHANGED <<current_state, remaining, successful_cycles, ulNotifiedValue>>

(* watchdog_evaluate_cycle: the count of good cycles, and the request to   *)
(* post, if any.  A timeout leaves the count as it is.                     *)
RecoveredLate == /\ Complete /\ current_state = DEGRADED
                 /\ successful_cycles + 1 > RecoveryThreshold
Recovered == /\ Complete /\ current_state = DEGRADED
             /\ successful_cycles + 1 >= RecoveryThreshold

TimeoutRequestOnce ==
    IF current_state < DEGRADED THEN {StateRequest(DEGRADED, WatchdogTimedOut)} ELSE {}
TimeoutRequest ==
    CASE current_state < DEGRADED -> {StateRequest(DEGRADED, WatchdogTimedOut)}
      [] current_state = DEGRADED -> {StateRequest(SAFE, WatchdogTimedOut)}
      [] OTHER -> {}

EvaluateRequest ==
    IF Recovered THEN {StateRequest(NOMINAL, WatchdogRecovered)}
    ELSE IF Complete THEN {} ELSE TimeoutRequest

EvaluateCycle ==
    /\ wdPc = "evaluate"
    /\ successful_cycles' =
          IF ~Complete THEN successful_cycles
          ELSE IF current_state = DEGRADED /\ ~Recovered THEN successful_cycles + 1
          ELSE 0
    /\ wdPc' = "begin"
    /\ UNCHANGED <<received, current_state, remaining, ulNotifiedValue, ucNotifyState>>
=============================================================================
