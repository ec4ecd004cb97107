------------------------------ MODULE SystemDefs ------------------------------
(***************************************************************************)
(* The vocabulary every task of the firmware shares, without any state:    *)
(* the system states, the reason codes of a state request, the rule by     *)
(* which the state machine accepts a request (src/state_machine.c) and the *)
(* policy helpers, which are pure functions of the system state            *)
(* (src/safe_policy.c).                                                    *)
(***************************************************************************)
EXTENDS Naturals

(* SystemState_t: the enumerators are compared with <, so they are numbers. *)
BOOT     == 0
NOMINAL  == 1
DEGRADED == 2
SAFE     == 3
SystemStates == BOOT .. SAFE

(* The reason codes the code writes as literals, by their meaning. *)
WatchdogTimedOut  == 1
SeuThresholdHit   == 2
WatchdogRecovered == 3
MpuViolations     == 4
OperatorCommand   == 16
Reasons == {WatchdogTimedOut, SeuThresholdHit, WatchdogRecovered,
            MpuViolations, OperatorCommand}

(* StateRequest_t *)
StateRequest(state, reason) == [requested_state |-> state, reason_code |-> reason]
StateRequests == [requested_state : SystemStates, reason_code : Reasons]

(* state_machine_allows_request: upwards always, downwards only to NOMINAL *)
(* from DEGRADED or SAFE and only for a recovery or an operator command.   *)
AllowsOnlyUpwards(current, request) == request.requested_state >= current
AllowsRequest(current, request) ==
    \/ request.requested_state >= current
    \/ /\ request.requested_state = NOMINAL
       /\ current \in {DEGRADED, SAFE}
       /\ request.reason_code \in {WatchdogRecovered, OperatorCommand}

(* state_machine_apply_request: the state after the request. *)
ApplyRequest(current, request) ==
    IF AllowsRequest(current, request) THEN request.requested_state ELSE current

(* The notification bits, each named after the task that sets it. *)
WatchdogBits == {"Heartbeat", "MemScrub", "FaultInject"}

WatchdogExpectedBits(state) ==
    IF state = SAFE THEN {"Heartbeat", "MemScrub"} ELSE WatchdogBits

ForbidsAutoFaultInject(state)  == state # NOMINAL
AllowsAutoFaultInject(state)   == state = NOMINAL
AllowsManualFaultInject(state) == state # SAFE
ScrubsInNominalOnly(state)     == state = NOMINAL
AllowsBackgroundScrub(state)   == state # SAFE
AllowsSeuEscalation(state)     == state < SAFE
=============================================================================
