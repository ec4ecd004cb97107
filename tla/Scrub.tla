-------------------------------- MODULE Scrub --------------------------------
(***************************************************************************)
(* The scrubbed memory, access by access: fault injection                  *)
(* (src/fault_inject.c), the queue of fault events (src/fault_queue.c) and *)
(* the scrubber (src/memory_scrub.c), which share scrub_area and           *)
(* seu_counter without a lock.  MemScrub and CommandHandler have priority  *)
(* 2 and are time-sliced; FaultInject and CommandInput have priority 1 and *)
(* run while neither of the two is ready.                                  *)
(*                                                                         *)
(* A byte of scrub_area is the set of its bits that differ from            *)
(* golden_copy, so that the exclusive or of the injection is a symmetric   *)
(* difference and a restored byte is {}.                                   *)
(*                                                                         *)
(* ScrubSize          SCRUB_SIZE                                           *)
(* BitsPerByte        8 in the code                                        *)
(* TickShift          256: the tick count is shifted by 8 to choose a bit  *)
(* Ticks              the tick counts at which faults are injected         *)
(* FaultQueueLength   FAULT_QUEUE_LENGTH                                   *)
(* SeuThreshold       SEU_THRESHOLD_FOR_DEGRADED                           *)
(* MaxCount           bound: the highest seu_counter a task reads          *)
(***************************************************************************)
EXTENDS SystemDefs, Sequences, Functions

CONSTANTS ScrubSize, BitsPerByte, TickShift, Ticks,
          FaultQueueLength, SeuThreshold, MaxCount

ASSUME ScrubAssumption ==
    /\ Ticks \subseteq Nat
    /\ {ScrubSize, BitsPerByte, TickShift, FaultQueueLength, SeuThreshold} \subseteq Nat \ {0}
    /\ MaxCount \in Nat
    /\ MaxCount >= SeuThreshold

VARIABLES
    gSystemState,   \* the mode; the state machine's own module says more
    scrub_area,     \* per byte, the bits that are wrong
    xFaultQueue,    \* fault events not yet taken
    seu_counter,    \* SEUs since the last escalation
    pc,             \* per task, the access it makes next
    index,          \* per task, the byte in hand
    bit,            \* per task, the bit in hand
    loaded,         \* per task, the byte as it was read
    counted,        \* per task, seu_counter as it was read
    had_event,      \* local of vTaskMemoryScrub
    stale,          \* history: tasks whose byte was written since they read it
    lost            \* history: wrong bits whose event is gone

area   == <<scrub_area, xFaultQueue, stale, lost>>
locals == <<index, bit, loaded, counted>>
vars   == <<gSystemState, area, seu_counter, pc, locals, had_event>>

Bytes      == 0 .. (ScrubSize - 1)
Bits       == 0 .. (BitsPerByte - 1)
FaultEvent == [index : Bytes, bit : Bits]
Scrubbers  == {"MemScrub", "CommandHandler"}
Injectors  == {"FaultInject", "CommandHandler"}
Tasks      == Scrubbers \cup Injectors

(* The counter may pass its threshold, and even climb, while two tasks are *)
(* busy with it: each may write what it counted before the other's reset.  *)
TypeOK ==
    /\ gSystemState \in SystemStates
    /\ scrub_area \in [Bytes -> SUBSET Bits]
    /\ xFaultQueue \in Seq(FaultEvent)
    /\ Len(xFaultQueue) <= FaultQueueLength
    /\ seu_counter \in 0 .. (MaxCount + 1)
    /\ pc \in [Tasks -> {"delay", "drain", "compare", "correct", "scan", "restore",
                         "record", "count", "store", "escalate", "kick",
                         "receive", "inject", "read", "flip", "send"}]
    /\ index \in [Tasks -> Bytes]
    /\ bit \in [Tasks -> Bits]
    /\ loaded \in [Tasks -> SUBSET Bits]
    /\ counted \in [Tasks -> 0 .. MaxCount]
    /\ had_event \in BOOLEAN
    /\ stale \in SUBSET Tasks
    /\ lost \in SUBSET FaultEvent

(* memory_scrub_init has run: MemScrub does it first of all, at a priority *)
(* at which nobody can have injected or asked for anything before.         *)
Init ==
    /\ gSystemState \in {NOMINAL, DEGRADED}
    /\ scrub_area = [b \in Bytes |-> {}]
    /\ xFaultQueue = <<>>
    /\ seu_counter = 0
    /\ pc = [t \in Tasks |-> IF t = "MemScrub" THEN "drain"
                             ELSE IF t = "CommandHandler" THEN "receive" ELSE "delay"]
    /\ index = [t \in Tasks |-> 0]
    /\ bit = [t \in Tasks |-> 0]
    /\ loaded = [t \in Tasks |-> {}]
    /\ counted = [t \in Tasks |-> 0]
    /\ had_event = FALSE
    /\ stale = {}
    /\ lost = {}

-----------------------------------------------------------------------------
Goto(t, label) == pc' = [pc EXCEPT ![t] = label]

ScrubbersIdle == pc["MemScrub"] = "delay" /\ pc["CommandHandler"] = "receive"
CanRun(t) == t \in Scrubbers \/ ScrubbersIdle

(* Task t stands between its read of byte b and its write.  *)
Between(t, b) == pc[t] \in {"correct", "restore", "flip"} /\ index[t] = b

(* A byte is written by task t.  Whoever stands between its own read and   *)
(* write of it holds a value that is stale from then on.  When a task that *)
(* holds such a value writes it, bits come back that another task has put  *)
(* right, and whose events are gone; but the bit that the task inverts     *)
(* itself it is about to report.  A bit that is right is no longer lost.   *)
Revived(t, b, wrong) == (wrong \ scrub_area[b]) \ {bit[t]}

WriteByte(t, b, wrong) ==
    /\ scrub_area' = [scrub_area EXCEPT ![b] = wrong]
    /\ stale' = (stale \cup {u \in Tasks : Between(u, b)}) \ {t}
    /\ lost' = {e \in lost : e.index = b => e.bit \in wrong}
               \cup {e \in FaultEvent : /\ t \in stale
                                        /\ e.index = b /\ e.bit \in Revived(t, b, wrong)}

Load(t, b, k) ==
    /\ index' = [index EXCEPT ![t] = b]
    /\ bit' = [bit EXCEPT ![t] = k]
    /\ loaded' = [loaded EXCEPT ![t] = scrub_area[b]]
    /\ UNCHANGED counted

Forget(t) ==
    /\ index' = [index EXCEPT ![t] = 0]
    /\ bit' = [bit EXCEPT ![t] = 0]
    /\ loaded' = [loaded EXCEPT ![t] = {}]
    /\ counted' = [counted EXCEPT ![t] = 0]

-----------------------------------------------------------------------------
(* inject_random_fault.  The tick count decides which bit is inverted; the *)
(* byte is read and written in two accesses.                               *)
FaultAt(r) == [index |-> r % ScrubSize, bit |-> (r \div TickShift) % BitsPerByte]
Faults == {FaultAt(r) : r \in Ticks}

After(t) == IF t = "FaultInject" THEN "delay" ELSE "receive"

InjectRead(t) ==
    /\ pc[t] = "read"
    /\ \E fault \in Faults : Load(t, fault.index, fault.bit)
    /\ Goto(t, "flip")
    /\ UNCHANGED <<area, seu_counter, had_event>>

Inverted(byte, k) == (byte \ {k}) \cup ({k} \ byte)

InjectFlip(t) ==
    /\ pc[t] = "flip"
    /\ WriteByte(t, index[t], Inverted(loaded[t], bit[t]))
    /\ Goto(t, "send")
    /\ UNCHANGED <<xFaultQueue, locals, seu_counter, had_event>>

(* An event for which the queue has no room is dropped.  *)
QueueHasRoomForOneMore == Len(xFaultQueue) <= FaultQueueLength
QueueHasRoom           == Len(xFaultQueue) < FaultQueueLength

InjectSend(t) ==
    /\ pc[t] = "send"
    /\ LET event == [index |-> index[t], bit |-> bit[t]] IN
       IF QueueHasRoom
       THEN xFaultQueue' = Append(xFaultQueue, event) /\ UNCHANGED lost
       ELSE /\ lost' = IF bit[t] \in scrub_area[index[t]] THEN lost \cup {event} ELSE lost
            /\ UNCHANGED xFaultQueue
    /\ Forget(t)
    /\ Goto(t, After(t))
    /\ UNCHANGED <<scrub_area, stale, seu_counter, had_event>>

Inject(t) == InjectRead(t) \/ InjectFlip(t) \/ InjectSend(t)

-----------------------------------------------------------------------------
(* memory_scrub and memory_scrub_fix_event.  What follows a repair depends *)
(* on which of the two the task is in.                                     *)
InFixEvent(t) == t = "MemScrub" /\ had_event

NextByte(t) ==
    IF index[t] + 1 < ScrubSize
    THEN /\ index' = [index EXCEPT ![t] = @ + 1]
         /\ loaded' = [loaded EXCEPT ![t] = {}]
         /\ counted' = [counted EXCEPT ![t] = 0]
         /\ Goto(t, "scan")
         /\ UNCHANGED bit
    ELSE /\ Forget(t)
         /\ Goto(t, IF t = "MemScrub" THEN "kick" ELSE "receive")

Continue(t) == IF InFixEvent(t) THEN Forget(t) /\ Goto(t, "drain") ELSE NextByte(t)

ScanRead(t) ==
    /\ pc[t] = "scan"
    /\ IF scrub_area[index[t]] = {}
       THEN NextByte(t)
       ELSE Load(t, index[t], 0) /\ Goto(t, "restore")
    /\ UNCHANGED <<area, seu_counter, had_event>>

ScanRestore(t) ==
    /\ pc[t] = "restore"
    /\ WriteByte(t, index[t], {})
    /\ Goto(t, "record")
    /\ UNCHANGED <<xFaultQueue, locals, seu_counter, had_event>>

(* memory_scrub_record_seu: the mode, then the counter, which is read and  *)
(* written in two accesses; the value written decides on the escalation.   *)
RecordSeu(t) ==
    /\ pc[t] = "record"
    /\ IF AllowsSeuEscalation(gSystemState)
       THEN Goto(t, "count") /\ UNCHANGED locals
       ELSE Continue(t)
    /\ UNCHANGED <<area, seu_counter, had_event>>

CountRead(t) ==
    /\ pc[t] = "count"
    /\ seu_counter <= MaxCount
    /\ counted' = [counted EXCEPT ![t] = seu_counter]
    /\ Goto(t, "store")
    /\ UNCHANGED <<area, seu_counter, index, bit, loaded, had_event>>

ReachesThresholdOnly(count) == count = SeuThreshold
ReachesThreshold(count)     == count >= SeuThreshold

CountStore(t) ==
    /\ pc[t] = "store"
    /\ seu_counter' = counted[t] + 1
    /\ IF ReachesThreshold(counted[t] + 1)
       THEN Goto(t, "escalate") /\ UNCHANGED locals
       ELSE Continue(t)
    /\ UNCHANGED <<area, had_event>>

(* The request goes to the state machine, the counter starts again.  *)
Escalate(t) ==
    /\ pc[t] = "escalate"
    /\ seu_counter' = 0
    /\ Continue(t)
    /\ UNCHANGED <<area, had_event>>

Scan(t) == \/ ScanRead(t) \/ ScanRestore(t)
           \/ RecordSeu(t) \/ CountRead(t) \/ CountStore(t) \/ Escalate(t)

-----------------------------------------------------------------------------
(* The tasks. *)
MemScrubWakes ==
    /\ pc["MemScrub"] = "delay"
    /\ Goto("MemScrub", "drain")
    /\ UNCHANGED <<area, seu_counter, locals, had_event>>

TakeEvent ==
    /\ pc["MemScrub"] = "drain"
    /\ xFaultQueue # <<>>
    /\ index' = [index EXCEPT !["MemScrub"] = Head(xFaultQueue).index]
    /\ bit' = [bit EXCEPT !["MemScrub"] = Head(xFaultQueue).bit]
    /\ xFaultQueue' = Tail(xFaultQueue)
    /\ had_event' = TRUE
    /\ Goto("MemScrub", "compare")
    /\ UNCHANGED <<scrub_area, stale, lost, seu_counter, loaded, counted>>

ValidBeforeLastByte(b, k) == b < ScrubSize - 1 /\ k < BitsPerByte
ValidEvent(b, k)          == b < ScrubSize /\ k < BitsPerByte

CompareBit ==
    /\ pc["MemScrub"] = "compare"
    /\ IF /\ ValidEvent(index["MemScrub"], bit["MemScrub"])
          /\ bit["MemScrub"] \in scrub_area[index["MemScrub"]]
       THEN Load("MemScrub", index["MemScrub"], bit["MemScrub"]) /\ Goto("MemScrub", "correct")
       ELSE Forget("MemScrub") /\ Goto("MemScrub", "drain")
    /\ UNCHANGED <<area, seu_counter, had_event>>

(* The byte is written as it was read, but for the one bit.  *)
CorrectBit ==
    /\ pc["MemScrub"] = "correct"
    /\ WriteByte("MemScrub", index["MemScrub"], loaded["MemScrub"] \ {bit["MemScrub"]})
    /\ Goto("MemScrub", "record")
    /\ UNCHANGED <<xFaultQueue, locals, seu_counter, had_event>>

NoMoreEvents ==
    /\ pc["MemScrub"] = "drain"
    /\ xFaultQueue = <<>>
    /\ Goto("MemScrub", IF ~had_event /\ AllowsBackgroundScrub(gSystemState)
                        THEN "scan" ELSE "kick")
    /\ UNCHANGED <<area, seu_counter, locals, had_event>>

KickAndDelay ==
    /\ pc["MemScrub"] = "kick"
    /\ had_event' = FALSE
    /\ Goto("MemScrub", "delay")
    /\ UNCHANGED <<area, seu_counter, locals>>

MemScrub == \/ MemScrubWakes \/ TakeEvent \/ CompareBit \/ CorrectBit
            \/ NoMoreEvents \/ KickAndDelay \/ Scan("MemScrub")

FaultInjectWakes ==
    /\ pc["FaultInject"] = "delay"
    /\ AllowsAutoFaultInject(gSystemState)
    /\ Goto("FaultInject", "read")
    /\ UNCHANGED <<area, seu_counter, locals, had_event>>

FaultInject == /\ CanRun("FaultInject")
               /\ FaultInjectWakes \/ Inject("FaultInject")

(* A key that CommandInput passes on is in the handler's hands at once.    *)
CommandInput ==
    /\ ScrubbersIdle
    /\ \E next \in {"inject", "scan"} : Goto("CommandHandler", next)
    /\ UNCHANGED <<area, seu_counter, locals, had_event>>

HandleInjectCommand ==
    /\ pc["CommandHandler"] = "inject"
    /\ Goto("CommandHandler", IF AllowsManualFaultInject(gSystemState)
                              THEN "read" ELSE "receive")
    /\ UNCHANGED <<area, seu_counter, locals, had_event>>

CommandHandler == \/ HandleInjectCommand \/ Inject("CommandHandler")
                  \/ Scan("CommandHandler")

(* The state machine applies what anybody may have asked for.  *)
StateMachine ==
    /\ \E r \in StateRequests :
          /\ r.requested_state # BOOT
          /\ gSystemState' = ApplyRequest(gSystemState, r)
    /\ UNCHANGED <<area, seu_counter, pc, locals, had_event>>

TaskStep == /\ MemScrub \/ FaultInject \/ CommandHandler \/ CommandInput
            /\ UNCHANGED gSystemState

Next == TaskStep \/ StateMachine

Spec == Init /\ [][Next]_vars

(* The two tasks of one priority take turns, and vTaskDelay returns.  Both *)
(* block for hundreds of ticks between short pieces of work, so FaultInject *)
(* gets the processor again and again, and finishes what it has begun.     *)
FairSpec == /\ Spec
            /\ WF_vars(MemScrub /\ UNCHANGED gSystemState)
            /\ WF_vars(CommandHandler /\ UNCHANGED gSystemState)
            /\ SF_vars(FaultInject /\ UNCHANGED gSystemState)

-----------------------------------------------------------------------------
(* Safety. *)

(* Whatever increments are lost or doubled, the counter stands at or above *)
(* its threshold only while a task is about to escalate and reset it: no   *)
(* escalation is passed over, and the count cannot run away.               *)
CounterBelowThreshold ==
    (\A t \in Scrubbers : pc[t] # "escalate") => seu_counter < SeuThreshold

(* A bit is queued while an event of it is, and reported while an event is *)
(* queued or in somebody's hands.                                          *)
Queued(fault) == fault \in Range(xFaultQueue)
Reported(b, k) ==
    \/ Queued([index |-> b, bit |-> k])
    \/ \E t \in Tasks : /\ pc[t] \in {"compare", "correct", "send"}
                        /\ index[t] = b /\ bit[t] = k

(* No wrong bit is forgotten, in any mode: each has an event on its way to *)
(* the scrubber, except for the bits that are lost, and a bit is lost in   *)
(* two ways only.  Its event found the queue full, or a task wrote back a  *)
(* byte that another task had written since the read.  A task that repairs *)
(* or injects undisturbed never brings back a bit nobody will look for,    *)
(* and no event is given up before its bit is right.                       *)
NothingForgotten ==
    \A b \in Bytes : \A k \in scrub_area[b] :
        Reported(b, k) \/ [index |-> b, bit |-> k] \in lost

-----------------------------------------------------------------------------
(* Liveness. *)

(* A queued bit is put right, even in SAFE, where nobody looks for wrong   *)
(* bits and a fault injected late may strike.                              *)
QueuedIsRepaired ==
    \A fault \in Faults : Queued(fault) ~> (fault.bit \notin scrub_area[fault.index])

(* Once the injections stop and the system is out of SAFE, the area ends   *)
(* without an error, whatever was dropped or undone before.                *)
Quiet == \A t \in Injectors : pc[t] \notin {"read", "flip", "send"}
AreaIsCleaned ==
    <>[](Quiet /\ gSystemState # SAFE) => <>[](\A b \in Bytes : scrub_area[b] = {})
=============================================================================
