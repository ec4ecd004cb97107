----------------------------- MODULE EventLogRaces -----------------------------
(***************************************************************************)
(* The flight recorder as four tasks of three priorities use it, without   *)
(* any lock: event_log_store and event_log_dump (src/event_log.c) access   *)
(* by access to the shared ring, head and count, in the order of the       *)
(* source.  A task may be interrupted between any two accesses by a task   *)
(* of higher priority, which runs until its own call is over, and takes    *)
(* turns with a task of its own priority.                                  *)
(*                                                                         *)
(* An event is the number of the call that records it.  An entry is a pair *)
(* of events: whose type and arguments, and whose tick and data it holds.  *)
(*                                                                         *)
(* Capacity   EVENT_LOG_CAPACITY                                           *)
(* MaxEvents  bound: calls of event_log_store in a behaviour               *)
(***************************************************************************)
EXTENDS Naturals, FiniteSets

CONSTANTS Capacity, MaxEvents

ASSUME EventLogRacesAssumption == {Capacity, MaxEvents} \subseteq Nat \ {0}

Tasks == {"Watchdog", "StateMachine", "MemScrub", "CommandHandler"}

Priority(t) == CASE t = "Watchdog" -> 4
                 [] t = "StateMachine" -> 3
                 [] OTHER -> 2

VARIABLES
    event_log_entries, event_log_head, event_log_count_value,
    pc,         \* where each task is in event_log_store or event_log_dump
    slot,       \* the entry it writes or reads
    register,   \* the head or count it has loaded, or the dump's index
    event,      \* the event it records
    recorded,   \* calls of event_log_store so far
    disturbed   \* history: events whose recording overlapped with another

vars == <<event_log_entries, event_log_head, event_log_count_value,
          pc, slot, register, event, recorded, disturbed>>

Slots == 0 .. (Capacity - 1)

(* Whatever the tasks do to each other, no store and no read is outside    *)
(* the array, and the count never says there is more than it holds.        *)
TypeOK ==
    /\ event_log_entries \in [Slots -> (0 .. MaxEvents) \X (0 .. MaxEvents)]
    /\ event_log_head \in Slots
    /\ event_log_count_value \in 0 .. Capacity
    /\ pc \in [Tasks -> {"idle", "meta", "data", "loadHead", "storeHead",
                         "loadCount", "storeCount", "select", "copy"}]
    /\ slot \in [Tasks -> Slots]
    /\ register \in [Tasks -> 0 .. Capacity]
    /\ event \in [Tasks -> 0 .. MaxEvents]
    /\ recorded \in 0 .. MaxEvents
    /\ disturbed \in SUBSET (1 .. MaxEvents)

(* As event_log_init has left it but for the event of boot, which the      *)
(* tasks find recorded as event 1.                                         *)
Init ==
    /\ event_log_entries = [s \in Slots |-> IF s = 0 THEN <<1, 1>> ELSE <<0, 0>>]
    /\ event_log_head = 1 % Capacity
    /\ event_log_count_value = 1
    /\ pc = [t \in Tasks |-> "idle"]
    /\ slot = [t \in Tasks |-> 0]
    /\ register = [t \in Tasks |-> 0]
    /\ event = [t \in Tasks |-> 0]
    /\ recorded = 1
    /\ disturbed = {}

-----------------------------------------------------------------------------
Active == {t \in Tasks : pc[t] # "idle"}
Writing == {t \in Active : pc[t] \notin {"select", "copy"}}

CanRun(t) == \A u \in Active : Priority(u) <= Priority(t)

Goto(t, label) == pc' = [pc EXCEPT ![t] = label]
Load(t, value) == register' = [register EXCEPT ![t] = value]

(* entry = &event_log_entries[event_log_head] *)
BeginStore(t) ==
    /\ pc[t] = "idle"
    /\ recorded < MaxEvents
    /\ recorded' = recorded + 1
    /\ event' = [event EXCEPT ![t] = recorded']
    /\ slot' = [slot EXCEPT ![t] = event_log_head]
    /\ disturbed' = IF Writing = {} THEN disturbed
                    ELSE disturbed \cup {recorded'} \cup {event[u] : u \in Writing}
    /\ Goto(t, "meta")
    /\ UNCHANGED <<event_log_entries, event_log_head, event_log_count_value, register>>

StoreMeta(t) ==
    /\ pc[t] = "meta"
    /\ event_log_entries' = [event_log_entries EXCEPT ![slot[t]][1] = event[t]]
    /\ Goto(t, "data")
    /\ UNCHANGED <<event_log_head, event_log_count_value, slot, register, event,
                   recorded, disturbed>>

StoreData(t) ==
    /\ pc[t] = "data"
    /\ event_log_entries' = [event_log_entries EXCEPT ![slot[t]][2] = event[t]]
    /\ Goto(t, "loadHead")
    /\ UNCHANGED <<event_log_head, event_log_count_value, slot, register, event,
                   recorded, disturbed>>

(* The head is loaded again: xTaskGetTickCount has been called meanwhile.  *)
LoadHead(t) ==
    /\ pc[t] = "loadHead"
    /\ Load(t, event_log_head)
    /\ Goto(t, "storeHead")
    /\ UNCHANGED <<event_log_entries, event_log_head, event_log_count_value, slot,
                   event, recorded, disturbed>>

NextHeadUntilFull(t) == IF event_log_count_value < Capacity
                        THEN (register[t] + 1) % Capacity ELSE register[t]
NextHead(t) == (register[t] + 1) % Capacity

StoreHead(t) ==
    /\ pc[t] = "storeHead"
    /\ event_log_head' = NextHead(t)
    /\ Goto(t, "loadCount")
    /\ UNCHANGED <<event_log_entries, event_log_count_value, slot, register, event,
                   recorded, disturbed>>

LoadCount(t) ==
    /\ pc[t] = "loadCount"
    /\ Load(t, event_log_count_value)
    /\ Goto(t, IF event_log_count_value < Capacity THEN "storeCount" ELSE "idle")
    /\ UNCHANGED <<event_log_entries, event_log_head, event_log_count_value, slot,
                   event, recorded, disturbed>>

(* The count compared and the count incremented are one load: nothing is   *)
(* called between them.                                                    *)
CountLoadedAgain(t) == event_log_count_value + 1
NextCount(t) == register[t] + 1

StoreCount(t) ==
    /\ pc[t] = "storeCount"
    /\ event_log_count_value' = NextCount(t)
    /\ Goto(t, "idle")
    /\ UNCHANGED <<event_log_entries, event_log_head, slot, register, event,
                   recorded, disturbed>>

-----------------------------------------------------------------------------
(* event_log_dump, by the command handler.  Each round reads count and     *)
(* head anew.                                                              *)
BeginDump(t) ==
    /\ t = "CommandHandler"
    /\ pc[t] = "idle"
    /\ Load(t, 0)
    /\ Goto(t, "select")
    /\ UNCHANGED <<event_log_entries, event_log_head, event_log_count_value, slot,
                   event, recorded, disturbed>>

DumpSelect(t) ==
    /\ pc[t] = "select"
    /\ IF register[t] < event_log_count_value
       THEN LET start == IF event_log_count_value < Capacity THEN 0 ELSE event_log_head
            IN /\ slot' = [slot EXCEPT ![t] = (start + register[t]) % Capacity]
               /\ Goto(t, "copy")
       ELSE Goto(t, "idle") /\ UNCHANGED slot
    /\ UNCHANGED <<event_log_entries, event_log_head, event_log_count_value, register,
                   event, recorded, disturbed>>

DumpCopy(t) ==
    /\ pc[t] = "copy"
    /\ Load(t, register[t] + 1)
    /\ Goto(t, "select")
    /\ UNCHANGED <<event_log_entries, event_log_head, event_log_count_value, slot,
                   event, recorded, disturbed>>

-----------------------------------------------------------------------------
Step(t) ==
    /\ CanRun(t)
    /\ \/ BeginStore(t) \/ StoreMeta(t) \/ StoreData(t) \/ LoadHead(t) \/ StoreHead(t)
       \/ LoadCount(t) \/ StoreCount(t)
       \/ BeginDump(t) \/ DumpSelect(t) \/ DumpCopy(t)

Next == \E t \in Tasks : Step(t)

Spec == Init /\ [][Next]_vars

-----------------------------------------------------------------------------
(* A race damages only what takes part in it.  An event recorded without   *)
(* any overlap is still in the ring, whole, until Capacity further events  *)
(* have been recorded.                                                     *)
QuietEventsSurvive ==
    \A e \in 1 .. recorded :
        /\ e \notin disturbed
        /\ recorded - e < Capacity
        /\ \A t \in Writing : event[t] # e
        => \E s \in Slots : event_log_entries[s] = <<e, e>>

(* What makes it inductive.  The head falls back when a task that loaded   *)
(* it long ago stores it at last, but it never gets further ahead than     *)
(* there were stores: of the events recorded, all but those whose task has *)
(* still to store the head have moved it on by one at most.                *)
HeadPending == {t \in Tasks : pc[t] \in {"meta", "data", "loadHead", "storeHead"}}
HeadStores  == recorded - Cardinality(HeadPending)

(* The n slots that come after slot s. *)
Ahead(s, n) == {(s + j) % Capacity : j \in 1 .. n}

(* Event e stands whole in the ring, and whatever is in flight is ahead of *)
(* its slot by no more than the events that came after it.                 *)
Settled(e) ==
    \E s \in Slots :
        /\ event_log_entries[s] = <<e, e>>
        /\ event_log_head \in Ahead(s, HeadStores + 1 - e)
        /\ \A t \in HeadPending :
              /\ slot[t] \in Ahead(s, recorded - e)
              /\ pc[t] = "storeHead" => register[t] \in Ahead(s, HeadStores + 1 - e)

(* The task records the last event, and no other task records any.         *)
Alone(t) ==
    /\ Writing = {t}
    /\ event[t] = recorded
    /\ slot[t] = event_log_head
    /\ pc[t] # "meta" => event_log_entries[slot[t]][1] = event[t]
    /\ pc[t] \in {"loadHead", "storeHead"} => event_log_entries[slot[t]][2] = event[t]
    /\ pc[t] = "storeHead" => register[t] = event_log_head

QuietInv ==
    /\ \A t \in Tasks : event[t] <= recorded
    /\ \A t \in HeadPending : event[t] \notin disturbed => Alone(t)
    /\ \A e \in 1 .. recorded :
          /\ e \notin disturbed
          /\ recorded - e < Capacity
          /\ \A t \in HeadPending : event[t] # e
          => Settled(e)

(* What the types rest on: who is about to store a count has loaded one    *)
(* below the capacity, who copies an entry has found an index below it,    *)
(* and who records has been given the number of an event.                  *)
RacesInv ==
    /\ TypeOK
    /\ \A t \in Tasks :
           /\ pc[t] \in {"storeCount", "copy"} => register[t] < Capacity
           /\ t \in Writing => event[t] # 0

RecorderInv == RacesInv /\ QuietInv
=============================================================================
