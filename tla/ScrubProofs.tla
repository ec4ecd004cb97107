----------------------------- MODULE ScrubProofs -----------------------------
(***************************************************************************)
(* Proofs about the scrubbed memory, for any area, queue and thresholds:   *)
(* the types, the bound on seu_counter, and that no wrong bit is forgotten *)
(* but for those that are lost (MemoryInv, which adds the fact that last   *)
(* one rests on: a task between its read and its write of a byte holds     *)
(* what the byte still is, unless another task has written it since).      *)
(***************************************************************************)
EXTENDS Scrub, TLAPS

LoadedIsCurrent ==
    \A t \in Tasks, b \in Bytes :
        t \notin stale /\ Between(t, b) => loaded[t] = scrub_area[b]

MemoryInv == TypeOK /\ LoadedIsCurrent /\ NothingForgotten

-----------------------------------------------------------------------------
(* Helpers. *)

(* The constants are positive.  *)
LEMMA Positive ==
    /\ ScrubSize \in Nat /\ ScrubSize > 0
    /\ BitsPerByte \in Nat /\ BitsPerByte > 0
    /\ TickShift \in Nat /\ TickShift > 0
    /\ FaultQueueLength \in Nat /\ FaultQueueLength > 0
    /\ SeuThreshold \in Nat /\ SeuThreshold > 0
    /\ MaxCount \in Nat /\ MaxCount >= SeuThreshold
  BY ScrubAssumption

(* The first byte and the first bit exist.  *)
LEMMA ZeroInRange == 0 \in Bytes /\ 0 \in Bits
  BY Positive DEF Bytes, Bits

(* inject_random_fault never leaves the area or the byte.  *)
LEMMA FaultInArea ==
    ASSUME NEW fault \in Faults
    PROVE  fault.index \in Bytes /\ fault.bit \in Bits
<1>1. PICK r \in Ticks : fault = FaultAt(r)
  BY DEF Faults
<1>2. r \in Nat /\ r \div TickShift \in Nat
  BY Positive, ScrubAssumption
<1>3. r % ScrubSize \in Bytes
  BY <1>2, Positive DEF Bytes
<1>4. (r \div TickShift) % BitsPerByte \in Bits
  BY <1>2, Positive DEF Bits
<1> QED
  BY <1>1, <1>3, <1>4 DEF FaultAt

(* What a queue holds after an event was sent, and before one is taken.  *)
LEMMA RangeOfAppend ==
    ASSUME NEW S, NEW s \in Seq(S), NEW e \in S
    PROVE  Range(Append(s, e)) = Range(s) \cup {e}
<1> DEFINE a == Append(s, e)
<1>1. a \in Seq(S) /\ Len(a) = Len(s) + 1 /\ a[Len(s) + 1] = e
  OBVIOUS
<1>2. \A i \in 1 .. Len(s) : a[i] = s[i]
  OBVIOUS
<1>3. DOMAIN s = 1 .. Len(s) /\ DOMAIN a = 1 .. (Len(s) + 1)
  OBVIOUS
<1>4. 1 .. (Len(s) + 1) = (1 .. Len(s)) \cup {Len(s) + 1}
  OBVIOUS
<1> QED
  BY <1>1, <1>2, <1>3, <1>4 DEF Range

LEMMA RangeOfTail ==
    ASSUME NEW S, NEW s \in Seq(S), s # <<>>
    PROVE  /\ Head(s) \in S
           /\ Tail(s) \in Seq(S)
           /\ Len(Tail(s)) = Len(s) - 1
           /\ Range(s) = {Head(s)} \cup Range(Tail(s))
<1>1. Head(s) = s[1] /\ Tail(s) \in Seq(S) /\ Len(Tail(s)) = Len(s) - 1
  OBVIOUS
<1>2. DOMAIN s = 1 .. Len(s) /\ DOMAIN Tail(s) = 1 .. (Len(s) - 1) /\ Len(s) \in Nat \ {0}
  OBVIOUS
<1>3. \A i \in 1 .. (Len(s) - 1) : Tail(s)[i] = s[i + 1]
  OBVIOUS
<1>4. ASSUME NEW x \in Range(s)
      PROVE  x \in {Head(s)} \cup Range(Tail(s))
  <2>1. PICK i \in 1 .. Len(s) : x = s[i]
    BY <1>2 DEF Range
  <2>2. CASE i = 1
    BY <2>1, <2>2, <1>1
  <2>3. CASE i # 1
    <3>1. i - 1 \in 1 .. (Len(s) - 1) /\ (i - 1) + 1 = i
      BY <2>3, <1>2
    <3>2. x = Tail(s)[i - 1]
      BY <3>1, <2>1, <1>3
    <3> QED
      BY <3>1, <3>2, <1>2 DEF Range
  <2> QED
    BY <2>2, <2>3
<1>5. ASSUME NEW x \in {Head(s)} \cup Range(Tail(s))
      PROVE  x \in Range(s)
  <2>1. CASE x = Head(s)
    <3>1. 1 \in DOMAIN s
      BY <1>2
    <3> QED
      BY <2>1, <3>1, <1>1 DEF Range
  <2>2. CASE x \in Range(Tail(s))
    <3>1. PICK i \in 1 .. (Len(s) - 1) : x = Tail(s)[i]
      BY <2>2, <1>2 DEF Range
    <3>2. i + 1 \in 1 .. Len(s) /\ x = s[i + 1]
      BY <3>1, <1>2, <1>3
    <3> QED
      BY <3>2, <1>2 DEF Range
  <2> QED
    BY <1>5, <2>1, <2>2
<1>6. Range(s) = {Head(s)} \cup Range(Tail(s))
  BY <1>4, <1>5
<1> QED
  BY <1>1, <1>6

-----------------------------------------------------------------------------
(* Type correctness. *)

(* What a task does to its locals keeps their types.  *)
LocalsTyped ==
    /\ index \in [Tasks -> Bytes]
    /\ bit \in [Tasks -> Bits]
    /\ loaded \in [Tasks -> SUBSET Bits]
    /\ counted \in [Tasks -> 0 .. MaxCount]

PcTyped == pc \in [Tasks -> {"delay", "drain", "compare", "correct", "scan", "restore",
                             "record", "count", "store", "escalate", "kick",
                             "receive", "inject", "read", "flip", "send"}]

LEMMA ForgetKeepsTypes ==
    ASSUME LocalsTyped, NEW t \in Tasks, Forget(t)
    PROVE  LocalsTyped'
<1>1. index' \in [Tasks -> Bytes] /\ bit' \in [Tasks -> Bits]
  BY ZeroInRange DEF LocalsTyped, Forget
<1>2. loaded' \in [Tasks -> SUBSET Bits]
  BY DEF LocalsTyped, Forget
<1>3. counted' \in [Tasks -> 0 .. MaxCount]
  BY Positive DEF LocalsTyped, Forget
<1> QED
  BY <1>1, <1>2, <1>3 DEF LocalsTyped

LEMMA LoadKeepsTypes ==
    ASSUME TypeOK, NEW t \in Tasks, NEW b \in Bytes, NEW k \in Bits, Load(t, b, k)
    PROVE  LocalsTyped'
<1>1. index' \in [Tasks -> Bytes] /\ bit' \in [Tasks -> Bits]
  BY DEF TypeOK, Load
<1>2. scrub_area[b] \in SUBSET Bits
  BY DEF TypeOK
<1>3. loaded' \in [Tasks -> SUBSET Bits]
  BY <1>2 DEF TypeOK, Load
<1>4. counted' \in [Tasks -> 0 .. MaxCount]
  BY DEF TypeOK, Load
<1> QED
  BY <1>1, <1>3, <1>4 DEF LocalsTyped

LEMMA WriteKeepsTypes ==
    ASSUME TypeOK, NEW t \in Tasks, NEW b \in Bytes, NEW wrong \in SUBSET Bits,
           WriteByte(t, b, wrong)
    PROVE  /\ scrub_area' \in [Bytes -> SUBSET Bits]
           /\ stale' \in SUBSET Tasks /\ lost' \in SUBSET FaultEvent
<1>1. scrub_area' \in [Bytes -> SUBSET Bits]
  BY DEF TypeOK, WriteByte
<1>2. stale' \in SUBSET Tasks /\ lost' \in SUBSET FaultEvent
  BY DEF TypeOK, WriteByte
<1> QED
  BY <1>1, <1>2

LEMMA ContinueKeepsTypes ==
    ASSUME TypeOK, NEW t \in Tasks, Continue(t) \/ NextByte(t)
    PROVE  LocalsTyped' /\ PcTyped'
<1>1. LocalsTyped /\ PcTyped
  BY DEF TypeOK, LocalsTyped, PcTyped
<1>2. ASSUME NextByte(t)
      PROVE  LocalsTyped' /\ PcTyped'
  <2>1. CASE index[t] + 1 < ScrubSize
    <3>1. index' = [index EXCEPT ![t] = @ + 1] /\ bit' = bit
      BY <1>2, <2>1 DEF NextByte
    <3>2. index[t] + 1 \in Bytes
      BY <1>1, <2>1, Positive DEF LocalsTyped, Bytes
    <3>3. index' \in [Tasks -> Bytes] /\ bit' \in [Tasks -> Bits]
      BY <1>1, <3>1, <3>2 DEF LocalsTyped
    <3>4. loaded' \in [Tasks -> SUBSET Bits]
      BY <1>1, <1>2, <2>1 DEF LocalsTyped, NextByte
    <3>5. counted' \in [Tasks -> 0 .. MaxCount]
      BY <1>1, <1>2, <2>1, Positive DEF LocalsTyped, NextByte
    <3>6. PcTyped'
      BY <1>1, <1>2, <2>1 DEF PcTyped, NextByte, Goto
    <3> QED
      BY <3>3, <3>4, <3>5, <3>6 DEF LocalsTyped
  <2>2. CASE ~(index[t] + 1 < ScrubSize)
    <3>1. Forget(t)
      BY <1>2, <2>2 DEF NextByte
    <3>2. PcTyped'
      BY <1>1, <1>2, <2>2 DEF PcTyped, NextByte, Goto
    <3> QED
      BY <1>1, <3>1, <3>2, ForgetKeepsTypes
  <2> QED
    BY <2>1, <2>2
<1>3. ASSUME InFixEvent(t), Continue(t)
      PROVE  LocalsTyped' /\ PcTyped'
  <2>1. Forget(t) /\ Goto(t, "drain")
    BY <1>3 DEF Continue
  <2>2. PcTyped'
    BY <1>1, <2>1 DEF PcTyped, Goto
  <2> QED
    BY <1>1, <2>1, <2>2, ForgetKeepsTypes
<1> QED
  BY <1>2, <1>3 DEF Continue

SharedTyped ==
    /\ scrub_area \in [Bytes -> SUBSET Bits]
    /\ xFaultQueue \in Seq(FaultEvent)
    /\ Len(xFaultQueue) <= FaultQueueLength
    /\ seu_counter \in 0 .. (MaxCount + 1)
    /\ had_event \in BOOLEAN
    /\ stale \in SUBSET Tasks
    /\ lost \in SUBSET FaultEvent

LEMMA TypeParts ==
    TypeOK <=> gSystemState \in SystemStates /\ SharedTyped /\ LocalsTyped /\ PcTyped
  BY DEF TypeOK, SharedTyped, LocalsTyped, PcTyped

LEMMA InjectKeepsTypes ==
    ASSUME TypeOK, NEW t \in Injectors, Inject(t)
    PROVE  SharedTyped' /\ LocalsTyped' /\ PcTyped'
<1>1. t \in Tasks
  BY DEF Tasks
<1>2. SharedTyped /\ LocalsTyped /\ PcTyped
  BY TypeParts
<1>3. CASE InjectRead(t)
  <2>1. PICK fault \in Faults : Load(t, fault.index, fault.bit)
    BY <1>3 DEF InjectRead
  <2>2. LocalsTyped'
    BY <1>1, <2>1, FaultInArea, LoadKeepsTypes
  <2>3. PcTyped'
    BY <1>1, <1>2, <1>3 DEF InjectRead, Goto, PcTyped
  <2>4. SharedTyped'
    BY <1>2, <1>3 DEF InjectRead, SharedTyped, area
  <2> QED
    BY <2>2, <2>3, <2>4
<1>4. CASE InjectFlip(t)
  <2>1. index[t] \in Bytes /\ Inverted(loaded[t], bit[t]) \in SUBSET Bits
    BY <1>1, <1>2 DEF LocalsTyped, Inverted
  <2>2. /\ scrub_area' \in [Bytes -> SUBSET Bits]
        /\ stale' \in SUBSET Tasks /\ lost' \in SUBSET FaultEvent
    BY <1>1, <1>4, <2>1, WriteKeepsTypes DEF InjectFlip
  <2>3. SharedTyped'
    BY <1>2, <1>4, <2>2 DEF InjectFlip, SharedTyped
  <2>4. LocalsTyped' /\ PcTyped'
    BY <1>1, <1>2, <1>4 DEF InjectFlip, LocalsTyped, PcTyped, Goto, locals
  <2> QED
    BY <2>3, <2>4
<1>5. CASE InjectSend(t)
  <2>1. LocalsTyped'
    BY <1>1, <1>2, <1>5, ForgetKeepsTypes DEF InjectSend
  <2>2. PcTyped'
    BY <1>1, <1>2, <1>5 DEF InjectSend, Goto, After, PcTyped
  <2>e. [index |-> index[t], bit |-> bit[t]] \in FaultEvent
    BY <1>1, <1>2 DEF LocalsTyped, FaultEvent
  <2>3. CASE QueueHasRoom
    <3>1. [index |-> index[t], bit |-> bit[t]] \in FaultEvent
      BY <2>e
    <3>2. xFaultQueue' = Append(xFaultQueue, [index |-> index[t], bit |-> bit[t]])
      BY <1>5, <2>3 DEF InjectSend
    <3>3. xFaultQueue' \in Seq(FaultEvent) /\ Len(xFaultQueue') = Len(xFaultQueue) + 1
      BY <1>2, <3>1, <3>2 DEF SharedTyped
    <3>4. Len(xFaultQueue') <= FaultQueueLength
      BY <1>2, <2>3, <3>3, Positive DEF QueueHasRoom, SharedTyped
    <3> QED
      BY <1>2, <1>5, <2>1, <2>2, <2>3, <3>3, <3>4 DEF InjectSend, SharedTyped
  <2>4. CASE ~QueueHasRoom
    BY <1>2, <1>5, <2>1, <2>2, <2>4, <2>e DEF InjectSend, SharedTyped
  <2> QED
    BY <2>3, <2>4
<1> QED
  BY <1>3, <1>4, <1>5 DEF Inject

LEMMA ScanKeepsTypes ==
    ASSUME TypeOK, NEW t \in Scrubbers, Scan(t)
    PROVE  SharedTyped' /\ LocalsTyped' /\ PcTyped'
<1>1. t \in Tasks
  BY DEF Tasks
<1>2. SharedTyped /\ LocalsTyped /\ PcTyped
  BY TypeParts
<1>3. CASE ScanRead(t)
  <2>1. SharedTyped'
    BY <1>2, <1>3 DEF ScanRead, SharedTyped, area
  <2>2. CASE NextByte(t)
    BY <1>1, <2>1, <2>2, ContinueKeepsTypes
  <2>3. CASE Load(t, index[t], 0) /\ Goto(t, "restore")
    <3>1. LocalsTyped'
      BY <1>1, <1>2, <2>3, ZeroInRange, LoadKeepsTypes DEF LocalsTyped
    <3>2. PcTyped'
      BY <1>1, <1>2, <2>3 DEF Goto, PcTyped
    <3> QED
      BY <2>1, <3>1, <3>2
  <2> QED
    BY <1>3, <2>2, <2>3 DEF ScanRead
<1>4. CASE ScanRestore(t)
  <2>1. /\ scrub_area' \in [Bytes -> SUBSET Bits]
        /\ stale' \in SUBSET Tasks /\ lost' \in SUBSET FaultEvent
    BY <1>1, <1>2, <1>4, WriteKeepsTypes DEF ScanRestore, LocalsTyped
  <2> QED
    BY <1>1, <1>2, <1>4, <2>1 DEF ScanRestore, SharedTyped, LocalsTyped, PcTyped, Goto, locals
<1>5. CASE RecordSeu(t)
  <2>1. SharedTyped'
    BY <1>2, <1>5 DEF RecordSeu, SharedTyped, area
  <2>2. CASE Goto(t, "count") /\ UNCHANGED locals
    BY <1>1, <1>2, <2>1, <2>2 DEF LocalsTyped, PcTyped, Goto, locals
  <2> QED
    BY <1>1, <1>5, <2>1, <2>2, ContinueKeepsTypes DEF RecordSeu
<1>6. CASE CountRead(t)
  <2>1. seu_counter \in 0 .. MaxCount
    BY <1>2, <1>6, Positive DEF CountRead, SharedTyped
  <2>2. counted' \in [Tasks -> 0 .. MaxCount]
    BY <1>2, <1>6, <2>1 DEF CountRead, LocalsTyped
  <2> QED
    BY <1>1, <1>2, <1>6, <2>2 DEF CountRead, SharedTyped, LocalsTyped, PcTyped, Goto, area
<1>7. CASE CountStore(t)
  <2>1. seu_counter' \in 0 .. (MaxCount + 1)
    BY <1>1, <1>2, <1>7, Positive DEF CountStore, LocalsTyped
  <2>2. SharedTyped'
    BY <1>2, <1>7, <2>1 DEF CountStore, SharedTyped, area
  <2>3. CASE Goto(t, "escalate") /\ UNCHANGED locals
    BY <1>1, <1>2, <2>2, <2>3 DEF LocalsTyped, PcTyped, Goto, locals
  <2> QED
    BY <1>1, <1>7, <2>2, <2>3, ContinueKeepsTypes DEF CountStore
<1>8. CASE Escalate(t)
  <2>1. seu_counter' \in 0 .. (MaxCount + 1)
    BY <1>8, Positive DEF Escalate
  <2>2. SharedTyped'
    BY <1>2, <1>8, <2>1 DEF Escalate, SharedTyped, area
  <2> QED
    BY <1>1, <1>8, <2>2, ContinueKeepsTypes DEF Escalate
<1> QED
  BY <1>3, <1>4, <1>5, <1>6, <1>7, <1>8 DEF Scan

LEMMA MemScrubKeepsTypes ==
    ASSUME TypeOK, MemScrub
    PROVE  SharedTyped' /\ LocalsTyped' /\ PcTyped'
<1>1. "MemScrub" \in Tasks /\ "MemScrub" \in Scrubbers
  BY DEF Tasks, Scrubbers
<1>2. SharedTyped /\ LocalsTyped /\ PcTyped
  BY TypeParts
<1>3. CASE MemScrubWakes
  BY <1>2, <1>3 DEF MemScrubWakes, SharedTyped, LocalsTyped, PcTyped, Goto, area, locals
<1>4. CASE TakeEvent
  <2>1. /\ Head(xFaultQueue) \in FaultEvent
        /\ Tail(xFaultQueue) \in Seq(FaultEvent)
        /\ Len(Tail(xFaultQueue)) = Len(xFaultQueue) - 1
    BY <1>2, <1>4, RangeOfTail DEF TakeEvent, SharedTyped
  <2>2. Head(xFaultQueue).index \in Bytes /\ Head(xFaultQueue).bit \in Bits
    BY <2>1 DEF FaultEvent
  <2>3. index' \in [Tasks -> Bytes] /\ bit' \in [Tasks -> Bits]
    BY <1>2, <1>4, <2>2 DEF TakeEvent, LocalsTyped
  <2>4. xFaultQueue' \in Seq(FaultEvent) /\ Len(xFaultQueue') <= FaultQueueLength
    BY <1>2, <1>4, <2>1, Positive DEF TakeEvent, SharedTyped
  <2>5. PcTyped'
    BY <1>2, <1>4 DEF TakeEvent, PcTyped, Goto
  <2> QED
    BY <1>2, <1>4, <2>3, <2>4, <2>5 DEF TakeEvent, SharedTyped, LocalsTyped
<1>5. CASE CompareBit
  <2>1. SharedTyped'
    BY <1>2, <1>5 DEF CompareBit, SharedTyped, area
  <2>2. PcTyped'
    BY <1>2, <1>5 DEF CompareBit, PcTyped, Goto
  <2>3. CASE Forget("MemScrub")
    BY <1>1, <1>2, <2>1, <2>2, <2>3, ForgetKeepsTypes
  <2>4. CASE Load("MemScrub", index["MemScrub"], bit["MemScrub"])
    <3>1. index["MemScrub"] \in Bytes /\ bit["MemScrub"] \in Bits
      BY <1>1, <1>2 DEF LocalsTyped
    <3> QED
      BY <1>1, <2>1, <2>2, <2>4, <3>1, LoadKeepsTypes
  <2> QED
    BY <1>5, <2>3, <2>4 DEF CompareBit
<1>6. CASE CorrectBit
  <2>1. index["MemScrub"] \in Bytes /\ loaded["MemScrub"] \ {bit["MemScrub"]} \in SUBSET Bits
    BY <1>1, <1>2 DEF LocalsTyped
  <2>2. /\ scrub_area' \in [Bytes -> SUBSET Bits]
        /\ stale' \in SUBSET Tasks /\ lost' \in SUBSET FaultEvent
    BY <1>1, <1>6, <2>1, WriteKeepsTypes DEF CorrectBit
  <2> QED
    BY <1>2, <1>6, <2>2 DEF CorrectBit, SharedTyped, LocalsTyped, PcTyped, Goto, locals
<1>7. CASE NoMoreEvents
  BY <1>2, <1>7 DEF NoMoreEvents, SharedTyped, LocalsTyped, PcTyped, Goto, area, locals
<1>8. CASE KickAndDelay
  BY <1>2, <1>8 DEF KickAndDelay, SharedTyped, LocalsTyped, PcTyped, Goto, area, locals
<1>9. CASE Scan("MemScrub")
  BY <1>1, <1>9, ScanKeepsTypes
<1> QED
  BY <1>3, <1>4, <1>5, <1>6, <1>7, <1>8, <1>9 DEF MemScrub

LEMMA OtherTasksKeepTypes ==
    ASSUME TypeOK, FaultInject \/ CommandHandler \/ CommandInput
    PROVE  SharedTyped' /\ LocalsTyped' /\ PcTyped'
<1>1. /\ "CommandHandler" \in Injectors /\ "CommandHandler" \in Scrubbers
      /\ "FaultInject" \in Injectors
  BY DEF Injectors, Scrubbers
<1>2. SharedTyped /\ LocalsTyped /\ PcTyped
  BY TypeParts
<1>3. CASE FaultInjectWakes
  BY <1>2, <1>3 DEF FaultInjectWakes, SharedTyped, LocalsTyped, PcTyped, Goto, area, locals
<1>4. CASE HandleInjectCommand
  BY <1>2, <1>4 DEF HandleInjectCommand, SharedTyped, LocalsTyped, PcTyped, Goto, area, locals
<1>5. CASE CommandInput
  BY <1>2, <1>5 DEF CommandInput, SharedTyped, LocalsTyped, PcTyped, Goto, area, locals
<1>6. CASE Inject("FaultInject") \/ Inject("CommandHandler") \/ Scan("CommandHandler")
  BY <1>1, <1>6, InjectKeepsTypes, ScanKeepsTypes
<1> QED
  BY <1>3, <1>4, <1>5, <1>6 DEF FaultInject, CommandHandler

(* ApplyRequest stays within the modes.  *)
LEMMA ModeTyped ==
    ASSUME gSystemState \in SystemStates, NEW r \in StateRequests
    PROVE  ApplyRequest(gSystemState, r) \in SystemStates
  BY DEF ApplyRequest, StateRequests, SystemStates

(* The types hold for every size of the area, the queue and the counts.    *)
THEOREM ScrubTypeCorrect == Spec => []TypeOK
<1>1. Init => TypeOK
  <2>1. ASSUME Init
        PROVE  TypeOK
    <3>1. xFaultQueue \in Seq(FaultEvent) /\ Len(xFaultQueue) <= FaultQueueLength
      BY <2>1, Positive DEF Init
    <3>2. counted \in [Tasks -> 0 .. MaxCount] /\ seu_counter \in 0 .. (MaxCount + 1)
      BY <2>1, Positive DEF Init
    <3>3. gSystemState \in SystemStates
      BY <2>1 DEF Init, SystemStates, BOOT, NOMINAL, DEGRADED, SAFE
    <3> QED
      BY <2>1, <3>1, <3>2, <3>3, ZeroInRange DEF Init, TypeOK
  <2> QED
    BY <2>1
<1>2. TypeOK /\ [Next]_vars => TypeOK'
  <2> SUFFICES ASSUME TypeOK, [Next]_vars
               PROVE  TypeOK'
    OBVIOUS
  <2>1. CASE TaskStep
    <3>1. gSystemState' \in SystemStates
      BY <2>1 DEF TaskStep, TypeOK
    <3>2. SharedTyped' /\ LocalsTyped' /\ PcTyped'
      BY <2>1, MemScrubKeepsTypes, OtherTasksKeepTypes DEF TaskStep
    <3> QED
      BY <3>1, <3>2 DEF TypeOK, SharedTyped, LocalsTyped, PcTyped
  <2>2. CASE StateMachine
    <3>1. gSystemState' \in SystemStates
      BY <2>2, ModeTyped DEF StateMachine, TypeOK
    <3> QED
      BY <2>2, <3>1 DEF StateMachine, TypeOK, area, locals
  <2>3. CASE UNCHANGED vars
    BY <2>3 DEF TypeOK, vars, area, locals
  <2> QED
    BY <2>1, <2>2, <2>3 DEF Next
<1> QED
  BY <1>1, <1>2, PTL DEF Spec

-----------------------------------------------------------------------------
(* The counter. *)

(* Task t moves and nobody else does.  *)
MovesOnly(t) == \A u \in Tasks \ {t} : pc'[u] = pc[u]

LEMMA GotoMovesOnly ==
    ASSUME TypeOK, NEW t \in Tasks, NEW label, Goto(t, label)
    PROVE  MovesOnly(t) /\ pc'[t] = label
  BY DEF TypeOK, Goto, MovesOnly

LEMMA ContinueMovesOnly ==
    ASSUME TypeOK, NEW t \in Tasks, Continue(t) \/ NextByte(t)
    PROVE  MovesOnly(t) /\ pc'[t] \in {"drain", "scan", "kick", "receive"}
<1>1. PICK label \in {"drain", "scan", "kick", "receive"} : Goto(t, label)
  BY DEF Continue, NextByte
<1> QED
  BY <1>1, GotoMovesOnly

(* A step that leaves the counter alone and no escalation unfinished.  *)
QuietStep ==
    /\ seu_counter' = seu_counter
    /\ \E t \in Tasks : pc[t] # "escalate" /\ MovesOnly(t)

LEMMA QuietStepKeepsCounter ==
    ASSUME TypeOK, CounterBelowThreshold, QuietStep
    PROVE  CounterBelowThreshold'
<1>1. SUFFICES ASSUME \A u \in Scrubbers : pc'[u] # "escalate"
               PROVE  seu_counter < SeuThreshold
  BY DEF CounterBelowThreshold, QuietStep
<1>2. PICK t \in Tasks : pc[t] # "escalate" /\ MovesOnly(t)
  BY DEF QuietStep
<1>3. \A u \in Scrubbers : pc[u] # "escalate"
  BY <1>1, <1>2 DEF MovesOnly, Tasks
<1> QED
  BY <1>3 DEF CounterBelowThreshold

LEMMA ScanKeepsCounter ==
    ASSUME TypeOK, CounterBelowThreshold, NEW t \in Scrubbers, Scan(t)
    PROVE  CounterBelowThreshold'
<1>1. t \in Tasks
  BY DEF Tasks
<1>2. CASE ScanRead(t)
  <2>1. MovesOnly(t) /\ pc[t] # "escalate"
    BY <1>1, <1>2, ContinueMovesOnly, GotoMovesOnly DEF ScanRead
  <2> QED
    BY <1>1, <1>2, <2>1, QuietStepKeepsCounter DEF ScanRead, QuietStep
<1>3. CASE ScanRestore(t)
  <2>1. MovesOnly(t) /\ pc[t] # "escalate"
    BY <1>1, <1>3, GotoMovesOnly DEF ScanRestore
  <2> QED
    BY <1>1, <1>3, <2>1, QuietStepKeepsCounter DEF ScanRestore, QuietStep
<1>4. CASE RecordSeu(t)
  <2>1. MovesOnly(t) /\ pc[t] # "escalate"
    BY <1>1, <1>4, ContinueMovesOnly, GotoMovesOnly DEF RecordSeu
  <2> QED
    BY <1>1, <1>4, <2>1, QuietStepKeepsCounter DEF RecordSeu, QuietStep
<1>5. CASE CountRead(t)
  <2>1. MovesOnly(t) /\ pc[t] # "escalate"
    BY <1>1, <1>5, GotoMovesOnly DEF CountRead
  <2> QED
    BY <1>1, <1>5, <2>1, QuietStepKeepsCounter DEF CountRead, QuietStep
<1>6. CASE CountStore(t)
  <2>1. counted[t] \in Nat /\ seu_counter' = counted[t] + 1
    BY <1>1, <1>6, Positive DEF CountStore, TypeOK
  <2>2. CASE ReachesThreshold(counted[t] + 1)
    <3>1. pc'[t] = "escalate"
      BY <1>1, <1>6, <2>2, GotoMovesOnly DEF CountStore
    <3> QED
      BY <3>1 DEF CounterBelowThreshold
  <2>3. CASE ~ReachesThreshold(counted[t] + 1)
    BY <2>1, <2>3, Positive DEF CounterBelowThreshold, ReachesThreshold
  <2> QED
    BY <2>2, <2>3
<1>7. CASE Escalate(t)
  BY <1>7, Positive DEF Escalate, CounterBelowThreshold
<1> QED
  BY <1>2, <1>3, <1>4, <1>5, <1>6, <1>7 DEF Scan

LEMMA InjectIsQuiet ==
    ASSUME TypeOK, NEW t \in Injectors, Inject(t)
    PROVE  QuietStep
<1>1. t \in Tasks
  BY DEF Tasks
<1>2. pc[t] # "escalate" /\ seu_counter' = seu_counter
  BY DEF Inject, InjectRead, InjectFlip, InjectSend
<1>3. MovesOnly(t)
  BY <1>1, GotoMovesOnly DEF Inject, InjectRead, InjectFlip, InjectSend
<1> QED
  BY <1>1, <1>2, <1>3 DEF QuietStep

LEMMA TaskStepKeepsCounter ==
    ASSUME TypeOK, CounterBelowThreshold, TaskStep
    PROVE  CounterBelowThreshold'
<1>1. /\ {"MemScrub", "CommandHandler"} \subseteq Scrubbers
      /\ {"FaultInject", "CommandHandler"} \subseteq Injectors
      /\ {"MemScrub", "CommandHandler", "FaultInject"} \subseteq Tasks
  BY DEF Scrubbers, Injectors, Tasks
<1>2. CASE \/ MemScrubWakes \/ TakeEvent \/ CompareBit \/ CorrectBit
           \/ NoMoreEvents \/ KickAndDelay
  <2>1. pc["MemScrub"] # "escalate" /\ seu_counter' = seu_counter
    BY <1>2 DEF MemScrubWakes, TakeEvent, CompareBit, CorrectBit, NoMoreEvents, KickAndDelay
  <2>2. MovesOnly("MemScrub")
    BY <1>1, <1>2, GotoMovesOnly
       DEF MemScrubWakes, TakeEvent, CompareBit, CorrectBit, NoMoreEvents, KickAndDelay
  <2> QED
    BY <1>1, <2>1, <2>2, QuietStepKeepsCounter DEF QuietStep
<1>3. CASE FaultInjectWakes
  <2>1. MovesOnly("FaultInject") /\ pc["FaultInject"] # "escalate"
    BY <1>1, <1>3, GotoMovesOnly DEF FaultInjectWakes
  <2> QED
    BY <1>1, <1>3, <2>1, QuietStepKeepsCounter DEF FaultInjectWakes, QuietStep
<1>4. CASE CommandInput \/ HandleInjectCommand
  <2>1. MovesOnly("CommandHandler") /\ pc["CommandHandler"] # "escalate"
    BY <1>1, <1>4, GotoMovesOnly DEF CommandInput, HandleInjectCommand, ScrubbersIdle
  <2> QED
    BY <1>1, <1>4, <2>1, QuietStepKeepsCounter
       DEF CommandInput, HandleInjectCommand, QuietStep
<1>5. CASE Inject("FaultInject") \/ Inject("CommandHandler")
  BY <1>1, <1>5, InjectIsQuiet, QuietStepKeepsCounter
<1>6. CASE Scan("MemScrub") \/ Scan("CommandHandler")
  BY <1>1, <1>6, ScanKeepsCounter
<1> QED
  BY <1>2, <1>3, <1>4, <1>5, <1>6 DEF TaskStep, MemScrub, FaultInject, CommandHandler

(* However the two scrubbing tasks interleave, seu_counter stands at its   *)
(* threshold only while one of them is about to escalate and reset it.     *)
THEOREM CounterIsBounded == Spec => []CounterBelowThreshold
<1>1. Init => CounterBelowThreshold
  BY Positive DEF Init, CounterBelowThreshold
<1>2. TypeOK /\ CounterBelowThreshold /\ [Next]_vars => CounterBelowThreshold'
  <2> SUFFICES ASSUME TypeOK, CounterBelowThreshold, [Next]_vars
               PROVE  CounterBelowThreshold'
    OBVIOUS
  <2>1. CASE TaskStep
    BY <2>1, TaskStepKeepsCounter
  <2>2. CASE StateMachine \/ UNCHANGED vars
    BY <2>2 DEF StateMachine, CounterBelowThreshold, vars
  <2> QED
    BY <2>1, <2>2 DEF Next
<1> QED
  BY <1>1, <1>2, ScrubTypeCorrect, PTL DEF Spec

-----------------------------------------------------------------------------
(* The memory. *)

(* Task t moves on and its locals may change; those of the others do not.  *)
WorksAlone(t) ==
    \A u \in Tasks \ {t} : /\ pc'[u] = pc[u]
                           /\ index'[u] = index[u]
                           /\ bit'[u] = bit[u]
                           /\ loaded'[u] = loaded[u]

Reporting(t) == pc[t] \in {"compare", "correct", "send"}

(* A step that leaves the memory and the queue alone: what the task takes  *)
(* in hand is current, and a report is not dropped while the bit is wrong. *)
LEMMA LocalStepKeepsMemory ==
    ASSUME MemoryInv, NEW t \in Tasks, WorksAlone(t), UNCHANGED area,
           pc'[t] \in {"correct", "restore", "flip"} => loaded'[t] = scrub_area[index'[t]],
           Reporting(t) => \/ bit[t] \notin scrub_area[index[t]]
                           \/ /\ pc'[t] \in {"compare", "correct", "send"}
                              /\ index'[t] = index[t]
                              /\ bit'[t] = bit[t]
    PROVE  LoadedIsCurrent' /\ NothingForgotten'
<1>1. /\ scrub_area' = scrub_area /\ xFaultQueue' = xFaultQueue
      /\ stale' = stale /\ lost' = lost
  BY DEF area
<1>2. LoadedIsCurrent'
  <2> SUFFICES ASSUME NEW u \in Tasks, NEW b \in Bytes, u \notin stale,
                      pc'[u] \in {"correct", "restore", "flip"}, index'[u] = b
               PROVE  loaded'[u] = scrub_area[b]
    BY <1>1 DEF LoadedIsCurrent, Between
  <2>1. CASE u = t
    BY <2>1
  <2>2. CASE u # t
    BY <2>2 DEF WorksAlone, MemoryInv, LoadedIsCurrent, Between
  <2> QED
    BY <2>1, <2>2
<1>3. NothingForgotten'
  <2> SUFFICES ASSUME NEW b \in Bytes, NEW k \in scrub_area[b],
                      [index |-> b, bit |-> k] \notin lost
               PROVE  Reported(b, k)'
    BY <1>1 DEF NothingForgotten
  <2>1. Reported(b, k)
    BY DEF MemoryInv, NothingForgotten
  <2>2. CASE Queued([index |-> b, bit |-> k])
    BY <1>1, <2>2 DEF Reported, Queued
  <2>3. CASE \E u \in Tasks : Reporting(u) /\ index[u] = b /\ bit[u] = k
    <3>1. PICK u \in Tasks : Reporting(u) /\ index[u] = b /\ bit[u] = k
      BY <2>3
    <3>2. /\ pc'[u] \in {"compare", "correct", "send"}
          /\ index'[u] = b
          /\ bit'[u] = k
      BY <3>1 DEF WorksAlone, Reporting
    <3> QED
      BY <3>2 DEF Reported
  <2> QED
    BY <2>1, <2>2, <2>3 DEF Reported, Reporting
<1> QED
  BY <1>2, <1>3

(* A task writes the byte in its hand: what it leaves wrong was wrong when *)
(* it read the byte and is not the bit it repairs, or is the bit it has    *)
(* just inverted and is about to report.  If its value is not stale it     *)
(* makes nothing else wrong; if it is, what it makes wrong is lost.        *)
LEMMA WriteStepKeepsMemory ==
    ASSUME MemoryInv, NEW t \in Tasks, WorksAlone(t), Between(t, index[t]),
           NEW wrong, WriteByte(t, index[t], wrong), xFaultQueue' = xFaultQueue,
           index'[t] = index[t], bit'[t] = bit[t], pc'[t] \in {"record", "send"},
           \A k \in wrong : \/ k \in loaded[t] /\ k # bit[t]
                            \/ pc'[t] = "send" /\ k = bit[t]
    PROVE  LoadedIsCurrent' /\ NothingForgotten'
<1>1. /\ index[t] \in Bytes
      /\ scrub_area'[index[t]] = wrong
      /\ \A c \in Bytes \ {index[t]} : scrub_area'[c] = scrub_area[c]
  BY DEF MemoryInv, TypeOK, WriteByte
<1>2. \A u \in Tasks \ {t} : u \in stale' <=> u \in stale \/ Between(u, index[t])
  BY DEF WriteByte
<1>3. wrong \subseteq Bits
  BY DEF MemoryInv, TypeOK
<1>4. LoadedIsCurrent'
  <2> SUFFICES ASSUME NEW u \in Tasks, NEW b \in Bytes, u \notin stale',
                      pc'[u] \in {"correct", "restore", "flip"}, index'[u] = b
               PROVE  loaded'[u] = scrub_area'[b]
    BY DEF LoadedIsCurrent, Between
  <2>1. u # t
    OBVIOUS
  <2>2. Between(u, b) /\ loaded'[u] = loaded[u]
    BY <2>1 DEF WorksAlone, Between
  <2>3. b # index[t] /\ u \notin stale
    BY <1>2, <2>1, <2>2
  <2> QED
    BY <1>1, <2>2, <2>3 DEF MemoryInv, LoadedIsCurrent
<1>5. NothingForgotten'
  <2> SUFFICES ASSUME NEW b \in Bytes, NEW k \in scrub_area'[b],
                      [index |-> b, bit |-> k] \notin lost'
               PROVE  Reported(b, k)'
    BY DEF NothingForgotten
  <2> DEFINE e == [index |-> b, bit |-> k]
  <2>0. k \in Bits /\ e \in FaultEvent /\ e.index = b /\ e.bit = k
    BY <1>1, <1>3 DEF MemoryInv, TypeOK, FaultEvent
  <2>1. ASSUME Reported(b, k), b # index[t] \/ (k # bit[t] /\ pc[t] # "send")
        PROVE  Reported(b, k)'
    <3>1. CASE Queued([index |-> b, bit |-> k])
      BY <3>1 DEF Reported, Queued
    <3>2. CASE \E u \in Tasks : Reporting(u) /\ index[u] = b /\ bit[u] = k
      <4>1. PICK u \in Tasks : Reporting(u) /\ index[u] = b /\ bit[u] = k
        BY <3>2
      <4>2. u # t
        BY <2>1, <4>1
      <4> QED
        BY <4>1, <4>2 DEF WorksAlone, Reporting, Reported
    <3> QED
      BY <2>1, <3>1, <3>2 DEF Reported, Reporting
  <2>2. CASE b # index[t]
    <3>1. k \in scrub_area[b]
      BY <1>1, <2>2
    <3>2. e \notin lost
      BY <2>0, <2>2 DEF WriteByte
    <3> QED
      BY <2>1, <2>2, <3>1, <3>2 DEF MemoryInv, NothingForgotten
  <2>3. CASE b = index[t]
    <3>1. k \in wrong
      BY <1>1, <2>3
    <3>2. e \notin lost
      BY <2>0, <3>1 DEF WriteByte
    <3>3. CASE pc'[t] = "send" /\ k = bit[t]
      BY <2>3, <3>3 DEF Reported
    <3>4. CASE k \in loaded[t] /\ k # bit[t]
      <4>1. k \in scrub_area[b]
        <5>1. SUFFICES ASSUME k \notin scrub_area[b]
                       PROVE  FALSE
          OBVIOUS
        <5>2. k \in Revived(t, b, wrong)
          BY <3>1, <3>4, <5>1 DEF Revived
        <5>3. t \notin stale
          BY <2>0, <2>3, <5>2 DEF WriteByte
        <5>4. loaded[t] = scrub_area[b]
          BY <2>3, <5>3 DEF MemoryInv, LoadedIsCurrent
        <5> QED
          BY <3>4, <5>1, <5>4
      <4>2. Reported(b, k) /\ pc[t] # "send"
        BY <3>2, <4>1 DEF MemoryInv, NothingForgotten, Between
      <4> QED
        BY <2>1, <3>4, <4>2
    <3> QED
      BY <3>1, <3>3, <3>4
  <2> QED
    BY <2>2, <2>3
<1> QED
  BY <1>4, <1>5

(* What the helpers do to the tasks.  *)
LEMMA LoadWorksAlone ==
    ASSUME TypeOK, NEW t \in Tasks, NEW b \in Bytes, NEW k \in Bits, NEW label,
           Load(t, b, k), Goto(t, label)
    PROVE  /\ WorksAlone(t)
           /\ pc'[t] = label /\ index'[t] = b /\ bit'[t] = k
           /\ loaded'[t] = scrub_area[b]
  BY DEF TypeOK, Load, Goto, WorksAlone

LEMMA GotoWorksAlone ==
    ASSUME TypeOK, NEW t \in Tasks, NEW label, Goto(t, label),
           UNCHANGED <<index, bit, loaded>>
    PROVE  /\ WorksAlone(t)
           /\ pc'[t] = label /\ index'[t] = index[t] /\ bit'[t] = bit[t]
  BY DEF TypeOK, Goto, WorksAlone

LEMMA ForgetWorksAlone ==
    ASSUME TypeOK, NEW t \in Tasks, NEW label, Goto(t, label), Forget(t)
    PROVE  WorksAlone(t) /\ pc'[t] = label
  BY DEF TypeOK, Goto, Forget, WorksAlone

LEMMA ContinueWorksAlone ==
    ASSUME TypeOK, NEW t \in Tasks, Continue(t) \/ NextByte(t)
    PROVE  WorksAlone(t) /\ pc'[t] \in {"drain", "scan", "kick", "receive"}
<1>1. CASE NextByte(t) /\ index[t] + 1 < ScrubSize
  BY <1>1 DEF TypeOK, NextByte, Goto, WorksAlone
<1>2. CASE \E label \in {"drain", "kick", "receive"} : Forget(t) /\ Goto(t, label)
  BY <1>2, ForgetWorksAlone
<1> QED
  BY <1>1, <1>2 DEF Continue, NextByte

LEMMA InjectKeepsMemory ==
    ASSUME MemoryInv, NEW t \in Injectors, Inject(t)
    PROVE  LoadedIsCurrent' /\ NothingForgotten'
<1>1. TypeOK /\ t \in Tasks
  BY DEF MemoryInv, Tasks
<1>2. CASE InjectRead(t)
  <2>1. PICK fault \in Faults : Load(t, fault.index, fault.bit)
    BY <1>2 DEF InjectRead
  <2>2. /\ WorksAlone(t) /\ ~Reporting(t)
        /\ pc'[t] = "flip" /\ loaded'[t] = scrub_area[index'[t]]
    BY <1>1, <1>2, <2>1, FaultInArea, LoadWorksAlone DEF InjectRead, Reporting
  <2> QED
    BY <1>1, <1>2, <2>2, LocalStepKeepsMemory DEF InjectRead
<1>3. CASE InjectFlip(t)
  <2>1. /\ WorksAlone(t) /\ pc'[t] = "send"
        /\ index'[t] = index[t] /\ bit'[t] = bit[t]
    BY <1>1, <1>3, GotoWorksAlone DEF InjectFlip, locals
  <2>2. \A k \in Inverted(loaded[t], bit[t]) : (k \in loaded[t] /\ k # bit[t]) \/ k = bit[t]
    BY DEF Inverted
  <2>3. Between(t, index[t])
    BY <1>3 DEF InjectFlip, Between
  <2> QED
    BY <1>1, <1>3, <2>1, <2>2, <2>3, WriteStepKeepsMemory DEF InjectFlip
<1>4. CASE InjectSend(t)
  <2> DEFINE event == [index |-> index[t], bit |-> bit[t]]
  <2>1. /\ WorksAlone(t) /\ pc'[t] \in {"delay", "receive"}
        /\ pc[t] = "send" /\ scrub_area' = scrub_area
    BY <1>1, <1>4, ForgetWorksAlone DEF InjectSend, After
  <2>2. /\ stale' = stale /\ lost \subseteq lost'
        /\ Range(xFaultQueue) \subseteq Range(xFaultQueue')
        /\ bit[t] \in scrub_area[index[t]] =>
              event \in lost' \/ event \in Range(xFaultQueue')
    <3>1. CASE QueueHasRoom
      <4>1. xFaultQueue \in Seq(FaultEvent) /\ event \in FaultEvent
        BY <1>1 DEF TypeOK, FaultEvent
      <4>2. xFaultQueue' = Append(xFaultQueue, event) /\ lost' = lost /\ stale' = stale
        BY <1>4, <3>1 DEF InjectSend
      <4>3. Range(xFaultQueue') = Range(xFaultQueue) \cup {event}
        BY <4>1, <4>2, RangeOfAppend
      <4> QED
        BY <4>2, <4>3
    <3>2. CASE ~QueueHasRoom
      BY <1>4, <3>2 DEF InjectSend
    <3> QED
      BY <3>1, <3>2
  <2>3. LoadedIsCurrent'
    <3> SUFFICES ASSUME NEW u \in Tasks, NEW b \in Bytes, u \notin stale',
                        pc'[u] \in {"correct", "restore", "flip"}, index'[u] = b
                 PROVE  loaded'[u] = scrub_area[b]
      BY <2>1 DEF LoadedIsCurrent, Between
    <3>1. u # t /\ u \notin stale
      BY <2>1, <2>2
    <3> QED
      BY <2>1, <3>1 DEF WorksAlone, MemoryInv, LoadedIsCurrent, Between
  <2>4. NothingForgotten'
    <3> SUFFICES ASSUME NEW b \in Bytes, NEW k \in scrub_area[b],
                        [index |-> b, bit |-> k] \notin lost'
                 PROVE  Reported(b, k)'
      BY <2>1 DEF NothingForgotten
    <3>1. Reported(b, k)
      BY <2>2 DEF MemoryInv, NothingForgotten
    <3>2. CASE Queued([index |-> b, bit |-> k])
      BY <2>2, <3>2 DEF Reported, Queued
    <3>3. CASE Reporting(t) /\ index[t] = b /\ bit[t] = k
      BY <2>2, <3>3 DEF Reported, Queued
    <3>4. CASE \E u \in Tasks \ {t} : Reporting(u) /\ index[u] = b /\ bit[u] = k
      BY <2>1, <3>4 DEF Reported, Reporting, WorksAlone
    <3> QED
      BY <3>1, <3>2, <3>3, <3>4 DEF Reported, Reporting
  <2> QED
    BY <2>3, <2>4
<1> QED
  BY <1>2, <1>3, <1>4 DEF Inject

LEMMA ScanKeepsMemory ==
    ASSUME MemoryInv, NEW t \in Scrubbers, Scan(t)
    PROVE  LoadedIsCurrent' /\ NothingForgotten'
<1>1. TypeOK /\ t \in Tasks
  BY DEF MemoryInv, Tasks
<1>2. index[t] \in Bytes
  BY <1>1 DEF TypeOK
<1>3. CASE ScanRead(t)
  <2>1. /\ WorksAlone(t) /\ ~Reporting(t)
        /\ pc'[t] = "restore" => loaded'[t] = scrub_area[index'[t]]
        /\ pc'[t] \in {"drain", "scan", "kick", "receive", "restore"}
    <3>1. CASE NextByte(t)
      BY <1>1, <1>3, <3>1, ContinueWorksAlone DEF ScanRead, Reporting
    <3>2. CASE Load(t, index[t], 0) /\ Goto(t, "restore")
      BY <1>1, <1>2, <1>3, <3>2, ZeroInRange, LoadWorksAlone DEF ScanRead, Reporting
    <3> QED
      BY <1>3, <3>1, <3>2 DEF ScanRead
  <2> QED
    BY <1>1, <1>3, <2>1, LocalStepKeepsMemory DEF ScanRead
<1>4. CASE ScanRestore(t)
  <2>1. /\ WorksAlone(t) /\ pc'[t] = "record"
        /\ index'[t] = index[t] /\ bit'[t] = bit[t]
    BY <1>1, <1>4, GotoWorksAlone DEF ScanRestore, locals
  <2>2. Between(t, index[t])
    BY <1>4 DEF ScanRestore, Between
  <2> QED
    BY <1>1, <1>4, <2>1, <2>2, WriteStepKeepsMemory DEF ScanRestore
<1>5. CASE RecordSeu(t) \/ CountRead(t) \/ CountStore(t) \/ Escalate(t)
  <2>1. UNCHANGED area /\ ~Reporting(t)
    BY <1>5 DEF RecordSeu, CountRead, CountStore, Escalate, Reporting
  <2>2. CASE Continue(t)
    BY <1>1, <2>1, <2>2, ContinueWorksAlone, LocalStepKeepsMemory
  <2>3. CASE \E label \in {"count", "store", "escalate"} :
                Goto(t, label) /\ UNCHANGED <<index, bit, loaded>>
    BY <1>1, <2>1, <2>3, GotoWorksAlone, LocalStepKeepsMemory
  <2> QED
    BY <1>5, <2>2, <2>3 DEF RecordSeu, CountRead, CountStore, Escalate, locals
<1> QED
  BY <1>3, <1>4, <1>5 DEF Scan

LEMMA MemScrubKeepsMemory ==
    ASSUME MemoryInv, MemScrub
    PROVE  LoadedIsCurrent' /\ NothingForgotten'
<1>1. /\ TypeOK
      /\ "MemScrub" \in Tasks /\ "MemScrub" \in Scrubbers
      /\ index["MemScrub"] \in Bytes /\ bit["MemScrub"] \in Bits
  BY DEF MemoryInv, TypeOK, Tasks, Scrubbers
<1>2. CASE MemScrubWakes \/ NoMoreEvents \/ KickAndDelay
  <2>1. /\ WorksAlone("MemScrub")
        /\ pc'["MemScrub"] \in {"drain", "scan", "kick", "delay"}
        /\ ~Reporting("MemScrub")
        /\ UNCHANGED area
    BY <1>1, <1>2, GotoWorksAlone
       DEF MemScrubWakes, NoMoreEvents, KickAndDelay, Reporting, locals
  <2> QED
    BY <1>1, <2>1, LocalStepKeepsMemory
<1>3. CASE TakeEvent
  <2>1. Range(xFaultQueue) = {Head(xFaultQueue)} \cup Range(xFaultQueue')
    BY <1>1, <1>3, RangeOfTail DEF TakeEvent, TypeOK
  <2>2. /\ pc["MemScrub"] = "drain" /\ pc'["MemScrub"] = "compare"
        /\ index'["MemScrub"] = Head(xFaultQueue).index
        /\ bit'["MemScrub"] = Head(xFaultQueue).bit
        /\ WorksAlone("MemScrub")
        /\ scrub_area' = scrub_area /\ stale' = stale /\ lost' = lost
    BY <1>1, <1>3 DEF TakeEvent, Goto, TypeOK, WorksAlone
  <2>3. LoadedIsCurrent'
    <3> SUFFICES ASSUME NEW u \in Tasks, NEW b \in Bytes, u \notin stale,
                        pc'[u] \in {"correct", "restore", "flip"}, index'[u] = b
                 PROVE  loaded'[u] = scrub_area[b]
      BY <2>2 DEF LoadedIsCurrent, Between
    <3>1. u # "MemScrub"
      BY <2>2
    <3> QED
      BY <2>2, <3>1 DEF WorksAlone, MemoryInv, LoadedIsCurrent, Between
  <2>4. NothingForgotten'
    <3> SUFFICES ASSUME NEW b \in Bytes, NEW k \in scrub_area[b],
                        [index |-> b, bit |-> k] \notin lost
                 PROVE  Reported(b, k)'
      BY <2>2 DEF NothingForgotten
    <3>1. Reported(b, k)
      BY DEF MemoryInv, NothingForgotten
    <3>2. CASE [index |-> b, bit |-> k] = Head(xFaultQueue)
      <4>1. index'["MemScrub"] = b /\ bit'["MemScrub"] = k
        BY <2>2, <3>2
      <4> QED
        BY <1>1, <2>2, <4>1 DEF Reported
    <3>3. CASE [index |-> b, bit |-> k] \in Range(xFaultQueue')
      BY <3>3 DEF Reported, Queued
    <3>4. CASE \E u \in Tasks \ {"MemScrub"} : Reporting(u) /\ index[u] = b /\ bit[u] = k
      BY <2>2, <3>4 DEF Reported, Reporting, WorksAlone
    <3> QED
      BY <2>1, <2>2, <3>1, <3>2, <3>3, <3>4 DEF Reported, Reporting, Queued
  <2> QED
    BY <2>3, <2>4
<1>4. CASE CompareBit
  <2>1. pc["MemScrub"] = "compare" /\ UNCHANGED area
    BY <1>4 DEF CompareBit
  <2>2. CASE /\ Load("MemScrub", index["MemScrub"], bit["MemScrub"])
             /\ Goto("MemScrub", "correct")
    BY <1>1, <2>1, <2>2, LoadWorksAlone, LocalStepKeepsMemory
  <2>3. CASE /\ Forget("MemScrub") /\ Goto("MemScrub", "drain")
             /\ bit["MemScrub"] \notin scrub_area[index["MemScrub"]]
    BY <1>1, <2>1, <2>3, ForgetWorksAlone, LocalStepKeepsMemory
  <2>4. ValidEvent(index["MemScrub"], bit["MemScrub"])
    BY <1>1, Positive DEF ValidEvent, Bytes, Bits
  <2> QED
    BY <1>4, <2>2, <2>3, <2>4 DEF CompareBit
<1>5. CASE CorrectBit
  <2>1. /\ WorksAlone("MemScrub") /\ pc'["MemScrub"] = "record"
        /\ index'["MemScrub"] = index["MemScrub"] /\ bit'["MemScrub"] = bit["MemScrub"]
    BY <1>1, <1>5, GotoWorksAlone DEF CorrectBit, locals
  <2>2. Between("MemScrub", index["MemScrub"])
    BY <1>5 DEF CorrectBit, Between
  <2> QED
    BY <1>1, <1>5, <2>1, <2>2, WriteStepKeepsMemory DEF CorrectBit
<1>6. CASE Scan("MemScrub")
  BY <1>1, <1>6, ScanKeepsMemory
<1> QED
  BY <1>2, <1>3, <1>4, <1>5, <1>6 DEF MemScrub

LEMMA OtherTasksKeepMemory ==
    ASSUME MemoryInv, FaultInject \/ CommandHandler \/ CommandInput
    PROVE  LoadedIsCurrent' /\ NothingForgotten'
<1>1. /\ TypeOK
      /\ {"CommandHandler", "FaultInject"} \subseteq Injectors
      /\ {"CommandHandler", "FaultInject"} \subseteq Tasks
      /\ "CommandHandler" \in Scrubbers
  BY DEF MemoryInv, Injectors, Scrubbers, Tasks
<1>2. CASE FaultInjectWakes
  <2>1. /\ WorksAlone("FaultInject") /\ pc'["FaultInject"] = "read"
        /\ ~Reporting("FaultInject") /\ UNCHANGED area
    BY <1>1, <1>2, GotoWorksAlone DEF FaultInjectWakes, Reporting, locals
  <2> QED
    BY <1>1, <2>1, LocalStepKeepsMemory
<1>3. CASE HandleInjectCommand \/ CommandInput
  <2>1. /\ WorksAlone("CommandHandler")
        /\ pc'["CommandHandler"] \in {"read", "receive", "inject", "scan"}
        /\ ~Reporting("CommandHandler") /\ UNCHANGED area
    BY <1>1, <1>3, GotoWorksAlone
       DEF HandleInjectCommand, CommandInput, ScrubbersIdle, Reporting, locals
  <2> QED
    BY <1>1, <2>1, LocalStepKeepsMemory
<1>4. CASE Inject("FaultInject") \/ Inject("CommandHandler") \/ Scan("CommandHandler")
  BY <1>1, <1>4, InjectKeepsMemory, ScanKeepsMemory
<1> QED
  BY <1>2, <1>3, <1>4 DEF FaultInject, CommandHandler

(* Each wrong bit has an event on its way to the scrubber, for any sizes   *)
(* of the area, the byte and the queue, unless it is lost: its event was   *)
(* dropped for want of room, or a task that held an outdated value of the  *)
(* byte has brought it back.                                               *)
THEOREM NoErrorIsForgotten == Spec => []NothingForgotten
<1>1. Init => LoadedIsCurrent /\ NothingForgotten
  BY DEF Init, LoadedIsCurrent, NothingForgotten, Between, Tasks, Scrubbers, Injectors
<1>2. TypeOK /\ LoadedIsCurrent /\ NothingForgotten /\ [Next]_vars
         => LoadedIsCurrent' /\ NothingForgotten'
  <2> SUFFICES ASSUME TypeOK, LoadedIsCurrent, NothingForgotten, [Next]_vars
               PROVE  LoadedIsCurrent' /\ NothingForgotten'
    OBVIOUS
  <2>1. MemoryInv
    BY DEF MemoryInv
  <2>2. CASE TaskStep
    BY <2>1, <2>2, MemScrubKeepsMemory, OtherTasksKeepMemory DEF TaskStep
  <2>3. CASE StateMachine \/ UNCHANGED vars
    <3>1. UNCHANGED <<scrub_area, xFaultQueue, stale, lost, pc, index, bit, loaded>>
      BY <2>3 DEF StateMachine, vars, area, locals
    <3> QED
      BY <3>1 DEF LoadedIsCurrent, NothingForgotten, Between, Reported, Queued
  <2> QED
    BY <2>2, <2>3 DEF Next
<1> QED
  BY <1>1, <1>2, ScrubTypeCorrect, PTL DEF Spec
=============================================================================
