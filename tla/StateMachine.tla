----------------------------- MODULE StateMachine -----------------------------
(***************************************************************************)
(* vTaskStateMachine (src/state_machine.c), the only writer of             *)
(* gSystemState, and the queue the other tasks post state requests to      *)
(* (src/system_state.c).  Every step of the task at which another task or  *)
(* an interrupt may come in between is an action of its own.               *)
(*                                                                         *)
(* StateQueueLength  the length given to xQueueCreate in system_state_init *)
(* ImageOutcomes     what image_integrity_boot_ok() may answer at boot     *)
(***************************************************************************)
EXTENDS SystemDefs, Sequences

CONSTANTS StateQueueLength, ImageOutcomes

ASSUME StateMachineAssumption == /\ StateQueueLength \in Nat \ {0}
                                 /\ ImageOutcomes \subseteq BOOLEAN
                                 /\ ImageOutcomes # {}

VARIABLES
    gSystemState,          \* the system state all tasks read
    xStateRequestQueue,    \* contents of the request queue
    smPc,                  \* where vTaskStateMachine is
    inHand,                \* the local "request" while it is needed, or <<>>
    fault_inject_enabled,  \* the flag of src/fault_inject.c
    imageOk                \* the stored answer of image_integrity_boot_ok()

smVars == <<gSystemState, xStateRequestQueue, smPc, inHand, fault_inject_enabled, imageOk>>

SmTypeOK ==
    /\ gSystemState \in SystemStates
    /\ xStateRequestQueue \in Seq(StateRequests)
    /\ smPc \in {"init", "boot", "receive", "apply", "policy"}
    /\ inHand \in Seq(StateRequests)
    /\ Len(inHand) = IF smPc = "apply" THEN 1 ELSE 0
    /\ fault_inject_enabled \in BOOLEAN
    /\ imageOk \in BOOLEAN

SmInit ==
    /\ gSystemState = BOOT
    /\ xStateRequestQueue = <<>>
    /\ smPc = "init"
    /\ inHand = <<>>
    /\ fault_inject_enabled = TRUE
    /\ imageOk \in ImageOutcomes

-----------------------------------------------------------------------------
(* system_state_request_change, called by the other tasks.  Before the task *)
(* has created the queue, and when the queue is full, the request is lost:  *)
(* every caller ignores the result.                                         *)
AcceptedWithoutQueueCheck == Len(xStateRequestQueue) < StateQueueLength
RequestIsAccepted == smPc # "init" /\ Len(xStateRequestQueue) < StateQueueLength

RequestChange(state, reason) ==
    xStateRequestQueue' =
        IF RequestIsAccepted
        THEN Append(xStateRequestQueue, StateRequest(state, reason))
        ELSE xStateRequestQueue

-----------------------------------------------------------------------------
(* The task.  The queue exists once system_state_init has returned; the    *)
(* first mode is assigned only afterwards.                                 *)
SystemStateInit ==
    /\ smPc = "init"
    /\ xStateRequestQueue' = <<>>
    /\ gSystemState' = BOOT
    /\ smPc' = "boot"
    /\ UNCHANGED <<inHand, fault_inject_enabled, imageOk>>

BootMode == IF imageOk THEN NOMINAL ELSE DEGRADED

Boot ==
    /\ smPc = "boot"
    /\ gSystemState' = BootMode
    /\ smPc' = IF imageOk THEN "receive" ELSE "policy"
    /\ UNCHANGED <<xStateRequestQueue, inHand, fault_inject_enabled, imageOk>>

(* xQueueReceive; its timeout only takes the loop round once more. *)
Receive ==
    /\ smPc = "receive"
    /\ xStateRequestQueue # <<>>
    /\ inHand' = <<Head(xStateRequestQueue)>>
    /\ xStateRequestQueue' = Tail(xStateRequestQueue)
    /\ smPc' = "apply"
    /\ UNCHANGED <<gSystemState, fault_inject_enabled, imageOk>>

(* A request that is refused, or asks for the mode there already is, is    *)
(* dropped here; otherwise the mode is written before the policy is run.   *)
Apply ==
    /\ smPc = "apply"
    /\ gSystemState' = ApplyRequest(gSystemState, inHand[1])
    /\ inHand' = <<>>
    /\ smPc' = IF gSystemState' = gSystemState THEN "receive" ELSE "policy"
    /\ UNCHANGED <<xStateRequestQueue, fault_inject_enabled, imageOk>>

PolicyForbidsInjectionInSafe == gSystemState = SAFE
PolicyForbidsInjection == gSystemState \in {DEGRADED, SAFE}

(* Only a change of mode gets here.  safe_policy_on_degraded_enter and     *)
(* safe_policy_on_enter both switch the automatic injection off;           *)
(* safe_policy_on_exit leaves it as it is.                                 *)
RunPolicy ==
    /\ smPc = "policy"
    /\ fault_inject_enabled' = (fault_inject_enabled /\ ~PolicyForbidsInjection)
    /\ smPc' = "receive"
    /\ UNCHANGED <<gSystemState, xStateRequestQueue, inHand, imageOk>>

SmStepWithoutPolicy == SystemStateInit \/ Boot \/ Receive \/ Apply
SmStep == SystemStateInit \/ Boot \/ Receive \/ Apply \/ RunPolicy
=============================================================================
