---------------------------- MODULE EventLogProofs ----------------------------
(***************************************************************************)
(* Proof, for a ring of any capacity and any events, that the flight       *)
(* recorder of EventLog implements a bounded log.                          *)
(***************************************************************************)
EXTENDS EventLog, SequenceTheorems, TLAPS

USE EventLogAssumption

-----------------------------------------------------------------------------
(* Arithmetic of the ring. *)

LEMMA ModIsUnique ==
  ASSUME NEW x \in Nat, x < Capacity
  PROVE  x % Capacity = x
  OBVIOUS

LEMMA ModWraps ==
  ASSUME NEW x \in Nat, Capacity <= x, x < 2 * Capacity
  PROVE  x % Capacity = x - Capacity
  OBVIOUS

LEMMA SumInRing ==
  ASSUME NEW x \in 0 .. (Capacity - 1), NEW i \in 0 .. Capacity
  PROVE  (x + i) % Capacity = IF x + i < Capacity THEN x + i ELSE x + i - Capacity
<1>1. CASE x + i < Capacity
  BY <1>1, ModIsUnique
<1>2. CASE x + i >= Capacity
  BY <1>2, ModWraps
<1> QED BY <1>1, <1>2

LEMMA ByteIsCut == ASSUME NEW n \in Nat PROVE uint8_t(n) \in 0 .. 255
  BY DEF uint8_t

-----------------------------------------------------------------------------
(* A step of the recorder stores some well-formed entry and nothing else.  *)
LEMMA StepStores ==
  ASSUME Next
  PROVE  \E e \in EventLogEntry_t : event_log_store(e)
<1> USE DEF EventLogEntry_t, Entry, EventTypes, SystemStates, BOOT, SAFE
<1>1. CASE StateChange
  <2>1. PICK from, to \in SystemStates, reason \in ReasonCodes \cup {0, 5}, tick \in Ticks :
             event_log_store(Entry("STATE_CHANGE", from, to, tick, reason))
    BY <1>1 DEF StateChange
  <2>2. reason \in Nat
    BY DEF Reasons, WatchdogTimedOut, SeuThresholdHit, WatchdogRecovered,
           MpuViolations, OperatorCommand
  <2> QED BY <2>1, <2>2
<1>2. CASE WatchdogTimeout
  BY <1>2 DEF WatchdogTimeout
<1>3. CASE SeuCorrected
  <2>1. PICK byte \in ScrubBytes, bit \in Bits, tick \in Ticks :
             event_log_store(Entry("SEU_CORRECTED", uint8_t(byte), bit, tick, 0))
    BY <1>3 DEF SeuCorrected, event_log_record_seu_corrected
  <2>2. uint8_t(byte) \in 0 .. 255 /\ bit \in 0 .. 255 /\ tick \in Nat
    BY ByteIsCut
  <2> QED BY <2>1, <2>2
<1>4. CASE MemProtThreshold
  BY <1>4 DEF MemProtThreshold
<1>5. CASE SafePolicy
  BY <1>5 DEF SafePolicy
<1>6. CASE Operator
  BY <1>6 DEF Operator
<1>7. CASE ImageCrcFail
  BY <1>7 DEF ImageCrcFail
<1> QED BY <1>1, <1>2, <1>3, <1>4, <1>5, <1>6, <1>7 DEF Next

LEMMA StorePreservesRing ==
  ASSUME RingInv, NEW e \in EventLogEntry_t, event_log_store(e)
  PROVE  RingInv'
<1>1. event_log_head' = IF event_log_head + 1 < Capacity THEN event_log_head + 1 ELSE 0
  <2>1. event_log_head \in 0 .. (Capacity - 1) /\ 1 \in 0 .. Capacity
    BY DEF RingInv, TypeOK
  <2>2. (event_log_head + 1) % Capacity = IF event_log_head + 1 < Capacity
                                          THEN event_log_head + 1
                                          ELSE event_log_head + 1 - Capacity
    BY ONLY <2>1, SumInRing
  <2> QED BY <2>1, <2>2 DEF event_log_store, NextHead
<1> QED BY <1>1 DEF RingInv, TypeOK, event_log_store, NextCount

(* What a dump prints is a sequence of entries, the one at each place      *)
(* being found by arithmetic without remainders.                           *)
Place(oldest, i) == IF oldest + i <= Capacity THEN oldest + i - 1
                                              ELSE oldest + i - 1 - Capacity

DumpIsWindow ==
  /\ event_log_dump \in Seq(EventLogEntry_t)
  /\ Len(event_log_dump) = event_log_count_value
  /\ \A i \in 1 .. event_log_count_value :
        event_log_dump[i] = event_log_entries[Place(Oldest, i)]

LEMMA DumpedEntries == RingInv => DumpIsWindow
<1> SUFFICES ASSUME RingInv PROVE DumpIsWindow
  OBVIOUS
<1>1. Oldest \in 0 .. (Capacity - 1)
  BY DEF RingInv, TypeOK, Oldest
<1>2. ASSUME NEW i \in 1 .. event_log_count_value
      PROVE  (Oldest + (i - 1)) % Capacity = Place(Oldest, i)
  <2>1. i - 1 \in 0 .. Capacity
    BY DEF RingInv, TypeOK
  <2>2. Oldest + i <= Capacity <=> Oldest + (i - 1) < Capacity
    BY <1>1 DEF RingInv, TypeOK
  <2> QED BY <1>1, <2>1, <2>2, SumInRing DEF Place
<1>3. \A i \in 1 .. event_log_count_value : Chronological(i - 1) \in EventLogEntry_t
  BY <1>1, <1>2 DEF Chronological, RingInv, TypeOK, Place
<1>4. event_log_dump \in [1 .. event_log_count_value -> EventLogEntry_t]
  BY <1>3 DEF event_log_dump
<1>5. event_log_count_value \in Nat
  BY DEF RingInv, TypeOK
<1> QED BY <1>2, <1>4, <1>5, SeqDef DEF DumpIsWindow, event_log_dump, Chronological

(* The heart of it: a store appends its entry to what a dump prints, and   *)
(* makes the oldest entry give way when the ring is full.                  *)
LEMMA StoreRecords ==
  ASSUME RingInv, NEW e \in EventLogEntry_t, event_log_store(e)
  PROVE  event_log_dump' = IF Len(event_log_dump) < Capacity
                           THEN Append(event_log_dump, e)
                           ELSE Append(Tail(event_log_dump), e)
<1>1. /\ event_log_dump \in Seq(EventLogEntry_t)
      /\ Len(event_log_dump) = event_log_count_value
      /\ \A i \in 1 .. event_log_count_value :
            event_log_dump[i] = event_log_entries[Place(Oldest, i)]
  BY DumpedEntries DEF DumpIsWindow
<1>2. RingInv'
  BY StorePreservesRing
<1>3. /\ event_log_dump' \in Seq(EventLogEntry_t)
      /\ Len(event_log_dump') = event_log_count_value'
      /\ \A i \in 1 .. event_log_count_value' :
            event_log_dump'[i] = event_log_entries'[Place(Oldest', i)]
  <2>1. DumpIsWindow'
    BY <1>2, DumpedEntries, PTL
  <2> QED BY <2>1 DEF DumpIsWindow
<1>4. /\ event_log_head \in 0 .. (Capacity - 1)
      /\ event_log_count_value \in 1 .. Capacity
      /\ event_log_count_value < Capacity => event_log_head = event_log_count_value
      /\ event_log_count_value' < Capacity => event_log_head' = event_log_count_value'
  BY <1>2 DEF RingInv, TypeOK
<1>5. event_log_head' = IF event_log_head + 1 < Capacity THEN event_log_head + 1 ELSE 0
  <2>1. (event_log_head + 1) % Capacity = IF event_log_head + 1 < Capacity
                                          THEN event_log_head + 1
                                          ELSE event_log_head + 1 - Capacity
    <3>1. event_log_head \in 0 .. (Capacity - 1) /\ 1 \in 0 .. Capacity
      BY <1>4, EventLogAssumption
    <3> QED BY ONLY <3>1, SumInRing
  <2> QED BY <1>4, <2>1 DEF event_log_store, NextHead
<1>6. /\ event_log_entries' = [event_log_entries EXCEPT ![event_log_head] = e]
      /\ event_log_entries \in [0 .. (Capacity - 1) -> EventLogEntry_t]
      /\ event_log_count_value' = IF event_log_count_value < Capacity
                                  THEN event_log_count_value + 1 ELSE event_log_count_value
  BY DEF event_log_store, NextCount, RingInv, TypeOK
<1>7. Capacity \in Nat \ {0}
  OBVIOUS
<1>8. CASE event_log_count_value < Capacity
  <2>1. Oldest = 0 /\ Oldest' = 0
    BY <1>4, <1>5, <1>6, <1>7, <1>8 DEF Oldest
  <2>2. Append(event_log_dump, e) \in Seq(EventLogEntry_t)
        /\ Len(Append(event_log_dump, e)) = event_log_count_value + 1
        /\ \A i \in 1 .. (event_log_count_value + 1) : Append(event_log_dump, e)[i] =
              IF i = event_log_count_value + 1 THEN e ELSE event_log_dump[i]
    BY <1>1, <1>4
  <2>3. ASSUME NEW i \in 1 .. (event_log_count_value + 1)
        PROVE  event_log_dump'[i] = Append(event_log_dump, e)[i]
    <3>1. event_log_dump'[i] = event_log_entries'[i - 1]
      BY <1>3, <1>4, <1>6, <1>7, <1>8, <2>1 DEF Place
    <3>2. CASE i = event_log_count_value + 1
      BY <1>4, <1>6, <1>8, <2>2, <3>1, <3>2
    <3>3. CASE i # event_log_count_value + 1
      <4>1. event_log_dump[i] = event_log_entries[i - 1]
        BY <1>1, <1>4, <1>7, <1>8, <2>1, <3>3 DEF Place
      <4>2. i - 1 # event_log_head /\ i - 1 \in 0 .. (Capacity - 1)
        BY <1>4, <1>7, <1>8, <3>3
      <4> QED BY <1>6, <2>2, <3>1, <3>3, <4>1, <4>2
    <3> QED BY <3>2, <3>3
  <2>4. event_log_dump' = Append(event_log_dump, e)
    BY <1>3, <1>6, <1>8, <2>2, <2>3, SeqEqual
  <2> QED BY <1>1, <1>8, <2>4
<1>9. CASE ~(event_log_count_value < Capacity)
  <2>1. /\ event_log_count_value = Capacity /\ event_log_count_value' = Capacity
        /\ Oldest = event_log_head /\ Oldest' = event_log_head'
    BY <1>4, <1>6, <1>7, <1>9 DEF Oldest
  <2>2. Tail(event_log_dump) \in Seq(EventLogEntry_t)
        /\ Len(Tail(event_log_dump)) = Capacity - 1
        /\ \A i \in 1 .. (Capacity - 1) : Tail(event_log_dump)[i] = event_log_dump[i + 1]
    <3>1. event_log_dump # <<>>
      BY <1>1, <1>7, <2>1
    <3> QED BY <1>1, <2>1, <3>1, HeadTailProperties
  <2>3. Append(Tail(event_log_dump), e) \in Seq(EventLogEntry_t)
        /\ Len(Append(Tail(event_log_dump), e)) = Capacity
        /\ \A i \in 1 .. Capacity : Append(Tail(event_log_dump), e)[i] =
              IF i = Capacity THEN e ELSE Tail(event_log_dump)[i]
    BY <1>7, <2>2
  <2>4. ASSUME NEW i \in 1 .. Capacity
        PROVE  event_log_dump'[i] = Append(Tail(event_log_dump), e)[i]
    <3>1. event_log_dump'[i] = event_log_entries'[Place(event_log_head', i)]
      BY <1>3, <2>1
    <3>2. CASE i = Capacity
      <4>1. Place(event_log_head', i) = event_log_head
        BY <1>4, <1>5, <1>7, <3>2 DEF Place
      <4> QED BY <1>4, <1>6, <2>3, <3>1, <3>2, <4>1
    <3>3. CASE i # Capacity
      <4>1. /\ Place(event_log_head', i) = Place(event_log_head, i + 1)
            /\ Place(event_log_head', i) # event_log_head
            /\ Place(event_log_head', i) \in 0 .. (Capacity - 1)
        BY <1>4, <1>5, <1>7, <3>3 DEF Place
      <4>2. event_log_dump[i + 1] = event_log_entries[Place(event_log_head, i + 1)]
        BY <1>1, <1>7, <2>1, <3>3
      <4>3. Append(Tail(event_log_dump), e)[i] = event_log_dump[i + 1]
        BY <1>7, <2>2, <2>3, <3>3
      <4> QED BY <1>6, <3>1, <4>1, <4>2, <4>3
    <3> QED BY <3>2, <3>3
  <2>5. event_log_dump' = Append(Tail(event_log_dump), e)
    BY <1>3, <2>1, <2>3, <2>4, SeqEqual
  <2> QED BY <1>1, <1>9, <2>5
<1> QED BY <1>8, <1>9

-----------------------------------------------------------------------------
LEMMA InitRing == Init => RingInv
<1> SUFFICES ASSUME Init PROVE RingInv
  OBVIOUS
<1>1. BootEntry \in EventLogEntry_t
  BY DEF BootEntry, Entry, EventLogEntry_t, EventTypes
<1>2. 1 % Capacity = IF 1 < Capacity THEN 1 ELSE 0
  <2>1. 0 \in 0 .. (Capacity - 1) /\ 1 \in 0 .. Capacity
    OBVIOUS
  <2>2. (0 + 1) % Capacity = IF 0 + 1 < Capacity THEN 0 + 1 ELSE 0 + 1 - Capacity
    BY ONLY <2>1, SumInRing
  <2> QED BY <2>2
<1> QED BY <1>1, <1>2 DEF Init, RingInv, TypeOK

(* The ring is well-formed and, until it is full, begins in slot 0.        *)
THEOREM RingIsWellFormed == Spec => []RingInv
<1>1. Init => RingInv
  BY InitRing
<1>2. RingInv /\ [Next]_vars => RingInv'
  <2> SUFFICES ASSUME RingInv, [Next]_vars PROVE RingInv'
    OBVIOUS
  <2>1. CASE Next
    BY <2>1, StepStores, StorePreservesRing
  <2>2. CASE UNCHANGED vars
    BY <2>2 DEF vars, RingInv, TypeOK
  <2> QED BY <2>1, <2>2
<1> QED BY <1>1, <1>2, PTL DEF Spec

(* The flight recorder implements a bounded log: after any number of       *)
(* events a dump prints the last of them, in order, as many as there is    *)
(* room for.                                                               *)
THEOREM RecorderIsBoundedLog == Spec => IsBoundedLog
<1>1. Init => History!Init
  <2> SUFFICES ASSUME Init PROVE History!Init
    OBVIOUS
  <2>1. RingInv
    BY InitRing
  <2> QED BY <2>1, DumpedEntries DEF DumpIsWindow, History!Init, Init
<1>2. RingInv /\ [Next]_vars => [History!Next]_event_log_dump
  <2> SUFFICES ASSUME RingInv, [Next]_vars PROVE [History!Next]_event_log_dump
    OBVIOUS
  <2>1. CASE Next
    <3>1. PICK e \in EventLogEntry_t : event_log_store(e)
      BY <2>1, StepStores
    <3>2. event_log_dump' = IF Len(event_log_dump) < Capacity
                            THEN Append(event_log_dump, e)
                            ELSE Append(Tail(event_log_dump), e)
      BY <3>1, StoreRecords
    <3>3. event_log_dump \in Seq(EventLogEntry_t) /\ event_log_dump # <<>>
      BY DumpedEntries DEF DumpIsWindow, RingInv, TypeOK
    <3>4. event_log_dump'[Len(event_log_dump')] = e
      BY <3>2, <3>3
    <3> QED BY <3>2, <3>4 DEF History!Next, History!Record
  <2>2. CASE UNCHANGED vars
    BY <2>2 DEF vars, event_log_dump, Chronological, Oldest
  <2> QED BY <2>1, <2>2
<1> QED BY <1>1, <1>2, RingIsWellFormed, PTL DEF Spec, IsBoundedLog, History!Spec
=============================================================================
