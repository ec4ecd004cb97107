---------------------------- MODULE BoundedQueue ----------------------------
(***************************************************************************)
(* What the callers of xQueueSend and xQueueReceive may assume of a queue: *)
(* it holds at most uxLength items, and gives them out in the order they   *)
(* were put in, each once.                                                 *)
(***************************************************************************)
EXTENDS Naturals, Sequences

CONSTANT uxLength

VARIABLE items

Send ==
    /\ Len(items) < uxLength
    /\ Len(items') = Len(items) + 1
    /\ SubSeq(items', 1, Len(items)) = items

Receive == items # <<>> /\ items' = Tail(items)

Spec == items = <<>> /\ [][Send \/ Receive]_items
=============================================================================
