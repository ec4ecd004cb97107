----------------------------- MODULE ModeRegister -----------------------------
(***************************************************************************)
(* What the state machine promises the tasks that post requests to it: a   *)
(* mode register without a queue.  It starts in the mode the boot check    *)
(* calls for, and a request takes effect at the instant it is posted, in   *)
(* the order of posting, by the same rule for every poster.                *)
(***************************************************************************)
EXTENDS SystemDefs

VARIABLES mode,  \* the mode as of the requests posted so far
          last   \* the last request posted

vars == <<mode, last>>

Init == /\ mode \in {NOMINAL, DEGRADED}
        /\ last = StateRequest(BOOT, OperatorCommand)

Post(r) == /\ last' = r
           /\ mode' = ApplyRequest(mode, r)

Next == \E r \in StateRequests : Post(r)

Spec == Init /\ [][Next]_vars
=============================================================================
