--------------------------- MODULE StateMachineImpl ---------------------------
(***************************************************************************)
(* The state machine with its queue implements ModeRegister, whatever the  *)
(* order in which other tasks post and however late the task gets to run.  *)
(* The environment is any task that posts one of the requests the code     *)
(* ever posts, or that switches the automatic injection.                   *)
(***************************************************************************)
EXTENDS StateMachine, SequencesExt

VARIABLE lastPosted    \* history: the last request that was accepted

vars == <<smVars, lastPosted>>

(* The calls of system_state_request_change: src/watchdog.c, memory_scrub.c, *)
(* memory_protection.c and command.c.                                        *)
PostedRequests ==
    {StateRequest(DEGRADED, WatchdogTimedOut), StateRequest(SAFE, WatchdogTimedOut),
     StateRequest(NOMINAL, WatchdogRecovered), StateRequest(DEGRADED, SeuThresholdHit),
     StateRequest(DEGRADED, MpuViolations)}
    \cup {StateRequest(s, OperatorCommand) : s \in {NOMINAL, DEGRADED, SAFE}}

Init == SmInit /\ lastPosted = StateRequest(BOOT, OperatorCommand)

Post == \E r \in PostedRequests :
    /\ RequestChange(r.requested_state, r.reason_code)
    /\ lastPosted' = IF RequestIsAccepted THEN r ELSE lastPosted
    /\ UNCHANGED <<gSystemState, smPc, inHand, fault_inject_enabled, imageOk>>

Toggle ==
    /\ smPc # "init"
    /\ fault_inject_enabled' = ~fault_inject_enabled
    /\ UNCHANGED <<gSystemState, xStateRequestQueue, smPc, inHand, imageOk, lastPosted>>

Step == SmStep /\ UNCHANGED lastPosted

Next == Step \/ Post \/ Toggle

Spec == Init /\ [][Next]_vars

-----------------------------------------------------------------------------
(* The mode the requests posted so far lead to: the mode written last, then *)
(* the request in hand, then the queue in order.                            *)
Settled == FoldLeft(ApplyRequest,
                    IF smPc \in {"init", "boot"} THEN BootMode ELSE gSystemState,
                    inHand \o xStateRequestQueue)

Register == INSTANCE ModeRegister WITH mode <- Settled, last <- lastPosted

(* Queueing is invisible: seen through Settled, every request that was      *)
(* accepted takes effect when it is posted, and no step of the task itself  *)
(* (creating the queue, booting, taking a request, applying it, the policy) *)
(* changes what the requests posted so far add up to.                       *)
ImplementsRegister == Register!Spec
=============================================================================
