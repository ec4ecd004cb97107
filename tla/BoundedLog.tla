------------------------------ MODULE BoundedLog ------------------------------
(***************************************************************************)
(* What the flight recorder promises (ARCHITECTURE.md, "Flight recorder"): *)
(* the last Capacity events in the order they were recorded; the oldest    *)
(* gives way when there is no room.  A log begins with the event of boot.  *)
(***************************************************************************)
EXTENDS Naturals, Sequences

CONSTANTS Capacity, Event

VARIABLE log

Init == log \in Seq(Event) /\ Len(log) = 1

Record(e) ==
    /\ e \in Event
    /\ log' = IF Len(log) < Capacity THEN Append(log, e) ELSE Append(Tail(log), e)

(* The event recorded is the one the log ends with. *)
Next == Record(log'[Len(log')])

Spec == Init /\ [][Next]_log
=============================================================================
