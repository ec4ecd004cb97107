------------------------------- MODULE KernelMC -------------------------------
(***************************************************************************)
(* An instance of KernelQueue: one task of high priority, three of the     *)
(* next, which share the processor, and the idle task.                     *)
(***************************************************************************)
EXTENDS KernelQueue

CONSTANTS high, receiver, sender, sleeper, idle

Order    == <<high, receiver, sender, sleeper, idle>>
PriorityOf(t) == CASE t = high -> 2 [] t = idle -> 0 [] OTHER -> 1
Priorities3   == [t \in ToSet(Order) |-> PriorityOf(t)]

Each(h, r, s, l) ==
    (high :> h) @@ (receiver :> r) @@ (sender :> s) @@ (sleeper :> l) @@ (idle :> {})
Nobody == Each({}, {}, {}, {})

(* Tasks that only delay, like Heartbeat, FaultInject and the watchdog.  *)
Delaying  == [delays |-> Each({3}, {1}, {2}, {1, portMAX_DELAY}),
              waits |-> Nobody, items |-> Nobody]
(* The watchdog posts to the state machine, which waits, with a limit as   *)
(* it does or without as CommandHandler does; two other tasks compute.     *)
FromAbove == [delays |-> Each({3}, {}, {}, {}),
              waits |-> Each({}, {2, portMAX_DELAY}, {}, {}),
              items |-> Each({1, 2}, {}, {}, {})]
(* A task of the receiver's own priority sends; time slicing comes in.     *)
Beside    == [delays |-> Each({portMAX_DELAY}, {}, {1}, {}),
              waits |-> Each({}, {2}, {}, {}),
              items |-> Each({}, {}, {1}, {})]
(* A second task takes items without waiting, as MemScrub does.            *)
Polled    == [delays |-> Each({1}, {}, {}, {}),
              waits |-> Each({}, {3}, {}, {0}),
              items |-> Each({1}, {}, {}, {})]

AllWorkloads == {Delaying, FromAbove, Beside, Polled}

ASSUME WorkloadsAssumption == OneReceiver
=============================================================================
