------------------------------- MODULE EventLog -------------------------------
(***************************************************************************)
(* The flight recorder (src/event_log.c): a ring of Capacity entries with  *)
(* a head and a count, and the functions that record one kind of event     *)
(* each.  A call is one step here, as it is at boot and whenever no other  *)
(* task interrupts it; EventLogRaces takes the calls apart.                *)
(*                                                                         *)
(* Capacity            EVENT_LOG_CAPACITY                                  *)
(* Ticks, Checksums    32-bit values xTaskGetTickCount and the image CRCs  *)
(*                     may have                                            *)
(* ScrubBytes, Bits    where a corrected bit of scrub_area may be          *)
(* MissingBits         masks of watchdog bits that may be missing          *)
(* ReasonCodes         reasons of the transitions that are recorded        *)
(***************************************************************************)
EXTENDS SystemDefs, Sequences

CONSTANTS Capacity, Ticks, Checksums, ScrubBytes, Bits, MissingBits, ReasonCodes

ASSUME EventLogAssumption ==
    /\ Capacity \in Nat \ {0}
    /\ Ticks \cup Checksums \subseteq Nat
    /\ ScrubBytes \cup MissingBits \subseteq Nat
    /\ Bits \subseteq 0 .. 7
    /\ ReasonCodes \subseteq Reasons

VARIABLES
    event_log_entries,      \* the ring, indexed from 0
    event_log_head,         \* the slot written next
    event_log_count_value   \* how many slots hold an entry

vars == <<event_log_entries, event_log_head, event_log_count_value>>

EventTypes == {"BOOT", "STATE_CHANGE", "WATCHDOG_TIMEOUT", "SEU_CORRECTED",
               "MEM_PROT_THRESHOLD", "SAFE_POLICY", "OPERATOR", "IMAGE_CRC_FAIL"}

(* EventLogEntry_t.  arg_a and arg_b have eight bits, and what is cast to  *)
(* uint8_t loses the rest.                                                 *)
EventLogEntry_t == [type : EventTypes, arg_a : 0 .. 255, arg_b : 0 .. 255,
                    tick : Nat, data : Nat]

Entry(type, a, b, tick, data) ==
    [type |-> type, arg_a |-> a, arg_b |-> b, tick |-> tick, data |-> data]

uint8_t(n) == n % 256

(* The static array starts out as zeros, which read as the event of boot.  *)
BootEntry == Entry("BOOT", 0, 0, 0, 0)

-----------------------------------------------------------------------------
(* The ring. *)
NextHead == (event_log_head + 1) % Capacity

NextCountOffByOne ==
    IF event_log_count_value + 1 < Capacity
    THEN event_log_count_value + 1 ELSE event_log_count_value
NextCount == IF event_log_count_value < Capacity
             THEN event_log_count_value + 1 ELSE event_log_count_value

event_log_store(entry) ==
    /\ event_log_entries' = [event_log_entries EXCEPT ![event_log_head] = entry]
    /\ event_log_head' = NextHead
    /\ event_log_count_value' = NextCount

(* event_log_get_entry_chronological, for an index below the count: the    *)
(* oldest entry is in slot 0 until the ring is full, and at the head then. *)
OldestIgnoringWrap == 0
Oldest == IF event_log_count_value < Capacity THEN 0 ELSE event_log_head
Chronological(index) == event_log_entries[(Oldest + index) % Capacity]

(* What event_log_dump prints, entry by entry. *)
event_log_dump == [i \in 1 .. event_log_count_value |-> Chronological(i - 1)]

-----------------------------------------------------------------------------
(* main calls event_log_init before any other function of the module.      *)
Init ==
    /\ event_log_entries = [slot \in 0 .. (Capacity - 1) |-> BootEntry]
    /\ event_log_head = 1 % Capacity
    /\ event_log_count_value = 1

(* The event_log_record_* functions, with the arguments their callers have:*)
(* reason 0 or 5 for the first mode, the keys "a", "d" and "n" by their    *)
(* codes, and the count of violations only when it reaches its threshold.  *)
StateChange ==
    \E from, to \in SystemStates, reason \in ReasonCodes \cup {0, 5}, tick \in Ticks :
        /\ from # to
        /\ IF from = BOOT THEN reason \in {0, 5}
           ELSE AllowsRequest(from, StateRequest(to, reason))
        /\ event_log_store(Entry("STATE_CHANGE", from, to, tick, reason))

WatchdogTimeout ==
    \E missing \in MissingBits, state \in SystemStates, tick \in Ticks :
        event_log_store(Entry("WATCHDOG_TIMEOUT", state, 0, tick, missing))

event_log_record_seu_corrected(byte, bit, tick) ==
    event_log_store(Entry("SEU_CORRECTED", uint8_t(byte), bit, tick, 0))

SeuCorrected ==
    \E byte \in ScrubBytes, bit \in Bits, tick \in Ticks :
        event_log_record_seu_corrected(byte, bit, tick)

MemProtThreshold ==
    \E tick \in Ticks : event_log_store(Entry("MEM_PROT_THRESHOLD", 0, 0, tick, 3))

SafePolicy ==
    \E entering \in {0, 1}, tick \in Ticks :
        event_log_store(Entry("SAFE_POLICY", entering, 0, tick, 0))

Operator ==
    \E key \in {97, 100, 110}, tick \in Ticks :
        event_log_store(Entry("OPERATOR", key, 0, tick, 0))

(* The computed checksum takes the place of the tick. *)
ImageCrcFail ==
    \E expected, computed \in Checksums :
        event_log_store(Entry("IMAGE_CRC_FAIL", 0, 0, computed, expected))

Next == \/ StateChange \/ WatchdogTimeout \/ SeuCorrected \/ MemProtThreshold
        \/ SafePolicy \/ Operator \/ ImageCrcFail

Spec == Init /\ [][Next]_vars

-----------------------------------------------------------------------------
TypeOK ==
    /\ event_log_entries \in [0 .. (Capacity - 1) -> EventLogEntry_t]
    /\ event_log_head \in 0 .. (Capacity - 1)
    /\ event_log_count_value \in 1 .. Capacity

(* Until the ring is full its entries begin in slot 0 and end before the   *)
(* head: what makes the dump start where the oldest entry is.              *)
RingInv ==
    /\ TypeOK
    /\ event_log_count_value < Capacity => event_log_head = event_log_count_value

(* The recorder is a bounded log: what event_log_dump prints is always the *)
(* last Capacity events in the order in which they were recorded.          *)
History == INSTANCE BoundedLog WITH log <- event_log_dump, Event <- EventLogEntry_t
IsBoundedLog == History!Spec
=============================================================================
