-------------------------- MODULE KernelQueueProofs --------------------------
(***************************************************************************)
(* Proofs about the kernel and its queue, for a queue of any length and    *)
(* any tasks, priorities, delays, waits and items.                         *)
(*                                                                         *)
(* First, the ring buffer of the queue is a bounded first-in first-out     *)
(* queue: nothing is assumed of the scheduler, the proof holds for every   *)
(* order in which tasks and interrupts may come.                           *)
(* Then the scheduler.  The lists of the kernel hold each task once, in    *)
(* the list of its state, whatever is done to them (the sections from      *)
(* "Lists without duplicates" to "The kernel at the start" are about the   *)
(* operations of KernelTasks alone); from that, who runs and who waits.    *)
(* How often a task is passed over is bounded by its place and that of the *)
(* index in its list (Fair).                                               *)
(* Last, the times.  Every delayed list is in the order of wake times, and *)
(* the next time to unblock is the first of them (Timed); what is left of  *)
(* a wait is what is left of the time a task was given (Timely).           *)
(***************************************************************************)
EXTENDS KernelQueue, SequenceTheorems, FiniteSetTheorems, TLAPS

-----------------------------------------------------------------------------
(* The ring of the queue. *)

(* Between the slot last read and the slot written next lie the items.  *)
RingInv ==
    /\ pcStorage = [s \in Slots |-> pcStorage[s]]
    /\ pcReadFrom \in Slots
    /\ uxMessagesWaiting \in 0 .. uxLength
    /\ pcWriteTo = (pcReadFrom + 1 + uxMessagesWaiting) % uxLength

-----------------------------------------------------------------------------
(* Arithmetic of the ring. *)

LEMMA LengthIsPositive == uxLength \in Nat /\ uxLength > 0
  BY QueueAssumption

LEMMA ModIsUnique ==
    ASSUME NEW x \in Nat, x < uxLength
    PROVE  x % uxLength = x
  BY LengthIsPositive

LEMMA ModWraps ==
    ASSUME NEW x \in Nat, uxLength <= x, x < 2 * uxLength
    PROVE  x % uxLength = x - uxLength
  BY LengthIsPositive

LEMMA SumInRing ==
    ASSUME NEW s \in Slots, NEW i \in 0 .. uxLength
    PROVE  /\ (s + i) % uxLength = IF s + i < uxLength THEN s + i ELSE s + i - uxLength
           /\ (s + i) % uxLength \in Slots
<1>1. s + i \in Nat /\ s + i < 2 * uxLength
  BY LengthIsPositive DEF Slots
<1>2. CASE s + i < uxLength
  <2>1. (s + i) % uxLength = s + i
    BY <1>1, <1>2, ModIsUnique
  <2> QED
    BY <1>1, <1>2, <2>1, LengthIsPositive DEF Slots
<1>3. CASE s + i >= uxLength
  BY <1>1, <1>3, ModWraps, LengthIsPositive DEF Slots
<1> QED
  BY <1>1, <1>2, <1>3, LengthIsPositive

(* The place of the i-th item, and the slot behind the last one.  *)
LEMMA Places ==
    ASSUME RingInv, NEW i \in 1 .. uxLength
    PROVE  /\ (pcReadFrom + i) % uxLength \in Slots
           /\ (pcReadFrom + i) % uxLength =
                  IF pcReadFrom + i < uxLength THEN pcReadFrom + i ELSE pcReadFrom + i - uxLength
<1>1. i \in 0 .. uxLength /\ pcReadFrom \in Slots
  BY LengthIsPositive DEF RingInv
<1> QED
  BY <1>1, SumInRing

(* The queue's items are a sequence, and lie in the slots one by one.  *)
ContentsInSlots ==
    /\ Contents \in Seq({pcStorage[s] : s \in Slots})
    /\ Len(Contents) = uxMessagesWaiting
    /\ \A i \in 1 .. uxMessagesWaiting :
          Contents[i] = pcStorage[(pcReadFrom + i) % uxLength]

LEMMA ContentsIsSequence == RingInv => ContentsInSlots
<1> SUFFICES ASSUME RingInv
             PROVE  ContentsInSlots
  OBVIOUS
<1>1. uxMessagesWaiting \in Nat /\ uxMessagesWaiting <= uxLength
  BY LengthIsPositive DEF RingInv
<1>2. \A i \in 1 .. uxMessagesWaiting : (pcReadFrom + i) % uxLength \in Slots
  BY <1>1, Places, LengthIsPositive
<1>3. Contents \in [1 .. uxMessagesWaiting -> {pcStorage[s] : s \in Slots}]
  BY <1>2 DEF Contents
<1> QED
  BY <1>1, <1>3, SeqDef DEF Contents, ContentsInSlots

LEMMA NextContentsIsSequence == RingInv' => ContentsInSlots'
  BY ContentsIsSequence, PTL

-----------------------------------------------------------------------------
(* The two steps that change the queue. *)

LEMMA SendAppends ==
    ASSUME RingInv, NEW t, NEW item, Send(t, item)
    PROVE  RingInv' /\ Fifo!Send
<1>1. /\ pcReadFrom \in Nat /\ pcReadFrom < uxLength
      /\ uxMessagesWaiting \in Nat /\ uxMessagesWaiting < uxLength
      /\ pcReadFrom' = pcReadFrom /\ uxMessagesWaiting' = uxMessagesWaiting + 1
  BY LengthIsPositive DEF RingInv, Slots, Send, HasRoom
<1>2. pcWriteTo = (pcReadFrom + (1 + uxMessagesWaiting)) % uxLength
  BY <1>1 DEF RingInv
<1>3. 1 + uxMessagesWaiting \in 1 .. uxLength
  BY <1>1, LengthIsPositive
<1>4. /\ pcWriteTo \in Slots
      /\ pcWriteTo = IF pcReadFrom + (1 + uxMessagesWaiting) < uxLength
                     THEN pcReadFrom + (1 + uxMessagesWaiting)
                     ELSE pcReadFrom + (1 + uxMessagesWaiting) - uxLength
  BY <1>2, <1>3, Places
<1>5. pcStorage' = [s \in Slots |-> IF s = pcWriteTo THEN item ELSE pcStorage[s]]
  BY <1>4 DEF Send, RingInv
<1>6. RingInv'
  <2>1. pcStorage' = [s \in Slots |-> pcStorage'[s]]
    BY <1>5
  <2>2. pcWriteTo' = (pcReadFrom + 1 + (uxMessagesWaiting + 1)) % uxLength
    <3>1. pcWriteTo' = (pcWriteTo + 1) % uxLength
      BY DEF Send, WriteAfter
    <3>2. pcWriteTo \in Slots /\ 1 \in 0 .. uxLength
      BY <1>4, LengthIsPositive
    <3>3. pcWriteTo' = IF pcWriteTo + 1 < uxLength THEN pcWriteTo + 1
                                                  ELSE pcWriteTo + 1 - uxLength
      BY <3>1, <3>2, SumInRing
    <3>4. CASE uxMessagesWaiting + 2 <= uxLength
      <4>1. uxMessagesWaiting + 2 \in 1 .. uxLength
        BY <1>1, <3>4, LengthIsPositive
      <4>2. (pcReadFrom + (uxMessagesWaiting + 2)) % uxLength =
                IF pcReadFrom + (uxMessagesWaiting + 2) < uxLength
                THEN pcReadFrom + (uxMessagesWaiting + 2)
                ELSE pcReadFrom + (uxMessagesWaiting + 2) - uxLength
        BY <4>1, Places
      <4>3. pcReadFrom + 1 + (uxMessagesWaiting + 1) = pcReadFrom + (uxMessagesWaiting + 2)
        BY <1>1
      <4>4. pcWriteTo' = (pcReadFrom + (uxMessagesWaiting + 2)) % uxLength
        BY ONLY <1>1, <1>4, <3>3, <4>2, LengthIsPositive
      <4> QED
        BY <4>3, <4>4
    <3>5. CASE uxMessagesWaiting + 2 > uxLength
      <4>1. uxMessagesWaiting + 1 = uxLength
        BY <1>1, <3>5, LengthIsPositive
      <4>2. pcWriteTo = pcReadFrom
        BY ONLY <1>1, <1>4, <4>1, LengthIsPositive
      <4>3. /\ pcReadFrom + 1 + (uxMessagesWaiting + 1) = (pcReadFrom + 1) + uxLength
            /\ pcReadFrom + 1 \in Nat
        BY <1>1, <4>1, LengthIsPositive
      <4>4. ((pcReadFrom + 1) + uxLength) % uxLength = (pcReadFrom + 1) % uxLength
        BY <1>1, LengthIsPositive
      <4> QED
        BY <3>1, <4>2, <4>3, <4>4
    <3> QED
      BY <1>1, <3>4, <3>5, LengthIsPositive
  <2> QED
    BY <1>1, <2>1, <2>2, LengthIsPositive DEF RingInv, Slots
<1>7. /\ Contents \in Seq({pcStorage[s] : s \in Slots})
      /\ Len(Contents) = uxMessagesWaiting
      /\ \A i \in 1 .. uxMessagesWaiting :
            Contents[i] = pcStorage[(pcReadFrom + i) % uxLength]
  BY ContentsIsSequence DEF ContentsInSlots
<1>8. /\ Contents' \in Seq({pcStorage'[s] : s \in Slots})
      /\ Len(Contents') = uxMessagesWaiting + 1
      /\ \A i \in 1 .. (uxMessagesWaiting + 1) :
            Contents'[i] = pcStorage'[(pcReadFrom + i) % uxLength]
  BY <1>1, <1>6, NextContentsIsSequence DEF ContentsInSlots
<1>9. ASSUME NEW i \in 1 .. uxMessagesWaiting
      PROVE  Contents'[i] = Contents[i]
  <2>1. i \in 1 .. uxLength /\ i \in Nat /\ i >= 1 /\ i <= uxMessagesWaiting
    BY <1>1, LengthIsPositive
  <2>2. /\ (pcReadFrom + i) % uxLength \in Slots
        /\ (pcReadFrom + i) % uxLength =
               IF pcReadFrom + i < uxLength THEN pcReadFrom + i ELSE pcReadFrom + i - uxLength
    BY <2>1, Places
  <2>3. (pcReadFrom + i) % uxLength # pcWriteTo
    BY ONLY <1>1, <1>4, <2>1, <2>2, LengthIsPositive
  <2>4. pcStorage'[(pcReadFrom + i) % uxLength] = pcStorage[(pcReadFrom + i) % uxLength]
    BY <1>5, <2>2, <2>3
  <2> QED
    BY <1>1, <1>7, <1>8, <2>1, <2>4
<1>10. SubSeq(Contents', 1, Len(Contents)) = Contents
  BY <1>1, <1>7, <1>8, <1>9
<1> QED
  BY <1>1, <1>6, <1>7, <1>8, <1>10 DEF Fifo!Send

LEMMA TakeItemRemoves ==
    ASSUME RingInv, NEW t, TakeItem(t)
    PROVE  RingInv' /\ Fifo!Receive
<1>1. /\ pcReadFrom \in Nat /\ pcReadFrom < uxLength
      /\ uxMessagesWaiting \in Nat /\ 0 < uxMessagesWaiting /\ uxMessagesWaiting <= uxLength
      /\ pcReadFrom' = (pcReadFrom + 1) % uxLength
      /\ uxMessagesWaiting' = uxMessagesWaiting - 1
      /\ pcStorage' = pcStorage /\ pcWriteTo' = pcWriteTo
  BY LengthIsPositive DEF RingInv, Slots, TakeItem
<1>2. pcReadFrom' \in Slots /\ pcReadFrom' =
          IF pcReadFrom + 1 < uxLength THEN pcReadFrom + 1 ELSE pcReadFrom + 1 - uxLength
  <2>1. 1 \in 1 .. uxLength
    BY LengthIsPositive
  <2> QED
    BY <1>1, <2>1, Places
<1>3. ASSUME NEW i \in 0 .. uxMessagesWaiting
      PROVE  (pcReadFrom' + i) % uxLength = (pcReadFrom + (i + 1)) % uxLength
  <2>1. CASE pcReadFrom + 1 < uxLength
    <3>1. pcReadFrom' + i = pcReadFrom + (i + 1)
      BY <1>1, <1>2, <2>1
    <3> QED
      BY <3>1
  <2>2. CASE pcReadFrom + 1 >= uxLength
    <3>1. pcReadFrom' = 0 /\ pcReadFrom + (i + 1) = i + uxLength /\ i \in Nat
      BY <1>1, <1>2, <2>2, LengthIsPositive
    <3>2. i <= uxLength
      BY <1>1, LengthIsPositive
    <3>3. (i + uxLength) % uxLength = i % uxLength
      BY <3>1, <3>2, LengthIsPositive
    <3> QED
      BY <3>1, <3>3
  <2> QED
    BY <1>1, <2>1, <2>2, LengthIsPositive
<1>4. RingInv'
  <2>1. uxMessagesWaiting' \in 0 .. uxLength
    BY <1>1, LengthIsPositive
  <2>2. pcWriteTo' = (pcReadFrom' + 1 + uxMessagesWaiting') % uxLength
    <3>1. pcReadFrom' \in Nat /\ pcReadFrom' + 1 + uxMessagesWaiting' = pcReadFrom' + uxMessagesWaiting
      BY <1>1, <1>2, LengthIsPositive DEF Slots
    <3>2. uxMessagesWaiting \in 0 .. uxMessagesWaiting
      BY <1>1
    <3>3. (pcReadFrom' + uxMessagesWaiting) % uxLength
             = (pcReadFrom + (uxMessagesWaiting + 1)) % uxLength
      BY <1>3, <3>2
    <3>4. pcReadFrom + (uxMessagesWaiting + 1) = pcReadFrom + 1 + uxMessagesWaiting
      BY <1>1
    <3> QED
      BY <1>1, <3>1, <3>3, <3>4 DEF RingInv
  <2> QED
    BY <1>1, <1>2, <2>1, <2>2 DEF RingInv
<1>5. /\ Contents \in Seq({pcStorage[s] : s \in Slots})
      /\ Len(Contents) = uxMessagesWaiting
      /\ \A i \in 1 .. uxMessagesWaiting :
            Contents[i] = pcStorage[(pcReadFrom + i) % uxLength]
  BY ContentsIsSequence DEF ContentsInSlots
<1>6. /\ Contents' \in Seq({pcStorage[s] : s \in Slots})
      /\ Len(Contents') = uxMessagesWaiting - 1
      /\ \A i \in 1 .. (uxMessagesWaiting - 1) :
            Contents'[i] = pcStorage[(pcReadFrom' + i) % uxLength]
  BY <1>1, <1>4, NextContentsIsSequence DEF ContentsInSlots
<1>7. ASSUME NEW i \in 1 .. (uxMessagesWaiting - 1)
      PROVE  Contents'[i] = Contents[i + 1]
  <2>1. i \in 0 .. uxMessagesWaiting /\ i + 1 \in 1 .. uxMessagesWaiting
    BY <1>1
  <2>2. (pcReadFrom' + i) % uxLength = (pcReadFrom + (i + 1)) % uxLength
    BY <1>3, <2>1
  <2> QED
    BY <1>5, <1>6, <2>1, <2>2
<1>8. Contents # <<>> /\ Contents' = Tail(Contents)
  BY <1>1, <1>5, <1>6, <1>7
<1> QED
  BY <1>4, <1>8 DEF Fifo!Receive

-----------------------------------------------------------------------------
LEMMA OthersLeaveQueue ==
    ASSUME UNCHANGED queue
    PROVE  UNCHANGED Contents /\ (RingInv => RingInv')
  BY DEF queue, Contents, RingInv

LEMMA StepOfQueue ==
    ASSUME RingInv, [Next]_vars
    PROVE  RingInv' /\ [Fifo!Send \/ Fifo!Receive]_Contents
<1>1. CASE \E t \in Tasks : \E item \in workload.items[t] : Send(t, item)
  BY <1>1, SendAppends
<1>2. CASE \E t \in Tasks : TakeItem(t)
  BY <1>2, TakeItemRemoves
<1>3. CASE UNCHANGED queue
  BY <1>3, OthersLeaveQueue
<1>4. Next => \/ \E t \in Tasks : \E item \in workload.items[t] : Send(t, item)
              \/ \E t \in Tasks : TakeItem(t)
              \/ UNCHANGED queue
  BY DEF Next, Tick, Step, Delay, DelayResume, Yield, Receive, GiveUpAtOnce, StartWaiting,
         WaitIsOver, WaitGoesOn, WaitResume, RetryResume, LastResume, GiveUp, TryOnceMore
<1>5. UNCHANGED vars => UNCHANGED queue
  BY DEF vars
<1> QED
  BY <1>1, <1>2, <1>3, <1>4, <1>5

(* Items leave the queue in the order in which they were sent, each once,  *)
(* and never more than uxLength are held.                                  *)
THEOREM QueueIsFifo == Spec => ImplementsFifo
<1>1. Init => RingInv /\ Contents = <<>>
  <2> SUFFICES ASSUME Init
               PROVE  RingInv /\ Contents = <<>>
    OBVIOUS
  <2>1. pcStorage = [s \in Slots |-> pcStorage[s]]
    BY DEF Init
  <2>2. uxLength % uxLength = 0
    BY LengthIsPositive
  <2>3. pcReadFrom + 1 + uxMessagesWaiting = uxLength
    BY LengthIsPositive DEF Init
  <2>4. RingInv
    BY <2>1, <2>2, <2>3, LengthIsPositive DEF Init, RingInv, Slots
  <2>5. Contents = <<>>
    BY <2>4, ContentsIsSequence DEF Init, ContentsInSlots
  <2> QED
    BY <2>4, <2>5
<1>2. RingInv /\ [Next]_vars => RingInv' /\ [Fifo!Send \/ Fifo!Receive]_Contents
  BY StepOfQueue
<1> QED
  BY <1>1, <1>2, PTL DEF Spec, ImplementsFifo, Fifo!Spec

TimeOutFold == INSTANCE Folding WITH op <- TimeOutTask

-----------------------------------------------------------------------------
(* Lists without duplicates. *)

LEMMA ItemsOf ==
  ASSUME NEW E, NEW s \in Seq(E)
  PROVE  /\ Len(s) \in Nat /\ DOMAIN s = 1 .. Len(s)
         /\ ToSet(s) = {s[i] : i \in 1 .. Len(s)} /\ ToSet(s) \subseteq E
         /\ \A e : e \in ToSet(s) <=> \E i \in 1 .. Len(s) : s[i] = e
BY DEF ToSet

LEMMA RemovedOnce ==
  ASSUME NEW E, NEW s \in Seq(E), IsInjective(s), NEW i \in 1 .. Len(s)
  PROVE  /\ RemoveAt(s, i) \in Seq(E) /\ Len(RemoveAt(s, i)) = Len(s) - 1
         /\ IsInjective(RemoveAt(s, i))
         /\ ToSet(RemoveAt(s, i)) = ToSet(s) \ {s[i]}
<1> DEFINE r == RemoveAt(s, i)
           n == Len(s)
<1>1. /\ r \in Seq(E) /\ Len(r) = n - 1
      /\ \A j \in 1 .. (n - 1) : r[j] = IF j < i THEN s[j] ELSE s[j + 1]
  BY TimeOutFold!Removed DEF RemoveAt, TimeOutFold!RemoveAt
<1>2. n \in Nat /\ i \in Nat /\ 1 <= i /\ i <= n
  OBVIOUS
<1>3. \A j, m \in 1 .. n : s[j] = s[m] => j = m
  BY DEF IsInjective
<1>4. ToSet(s) = {s[j] : j \in 1 .. n} /\ ToSet(r) = {r[j] : j \in 1 .. (n - 1)}
      /\ DOMAIN r = 1 .. (n - 1)
  BY <1>1 DEF ToSet
<1> HIDE DEF r, n
<1>5. \A j \in 1 .. (n - 1) : \E m \in 1 .. n : m # i /\ r[j] = s[m] /\ (m = j \/ m = j + 1)
  <2> TAKE j \in 1 .. (n - 1)
  <2>1. CASE j < i
    <3>1. j \in 1 .. n /\ j # i
      BY <1>2, <2>1
    <3> QED
      BY <1>1, <2>1, <3>1
  <2>2. CASE ~(j < i)
    <3>1. j + 1 \in 1 .. n /\ j + 1 # i
      BY <1>2, <2>2
    <3> QED
      BY <1>1, <2>2, <3>1
  <2> QED
    BY <2>1, <2>2
<1>6. \A m \in 1 .. n : m # i => \E j \in 1 .. (n - 1) : r[j] = s[m]
  <2> TAKE m \in 1 .. n
  <2>1. CASE m < i
    <3>1. m \in 1 .. (n - 1)
      BY <1>2, <2>1
    <3> QED
      BY <1>1, <2>1, <3>1
  <2>2. CASE m > i
    <3>1. m - 1 \in 1 .. (n - 1) /\ ~(m - 1 < i) /\ (m - 1) + 1 = m
      BY <1>2, <2>2
    <3> QED
      BY <1>1, <3>1
  <2> QED
    BY <1>2, <2>1, <2>2
<1>7. ToSet(r) = ToSet(s) \ {s[i]}
  <2>1. \A x : x \in ToSet(r) => x \in ToSet(s) /\ x # s[i]
    BY <1>2, <1>3, <1>4, <1>5
  <2>2. \A x : x \in ToSet(s) /\ x # s[i] => x \in ToSet(r)
    BY <1>4, <1>6
  <2> QED
    BY <2>1, <2>2
<1>8. \A j, m \in 1 .. (n - 1) : r[j] = r[m] => j = m
  <2> SUFFICES ASSUME NEW j \in 1 .. (n - 1), NEW m \in 1 .. (n - 1), r[j] = r[m]
               PROVE  j = m
    OBVIOUS
  <2>1. j \in 1 .. n /\ j + 1 \in 1 .. n /\ m \in 1 .. n /\ m + 1 \in 1 .. n
    BY <1>2
  <2> QED
    BY <1>1, <1>2, <1>3, <2>1
<1> QED
  BY <1>1, <1>4, <1>7, <1>8 DEF r, n, IsInjective

LEMMA InsertedOnce ==
  ASSUME NEW E, NEW s \in Seq(E), IsInjective(s), NEW i \in 1 .. (Len(s) + 1),
         NEW e \in E, e \notin ToSet(s)
  PROVE  /\ InsertAt(s, i, e) \in Seq(E) /\ Len(InsertAt(s, i, e)) = Len(s) + 1
         /\ IsInjective(InsertAt(s, i, e))
         /\ ToSet(InsertAt(s, i, e)) = ToSet(s) \cup {e}
<1> DEFINE r == InsertAt(s, i, e)
           n == Len(s)
<1>1. /\ r \in Seq(E) /\ Len(r) = n + 1
      /\ \A j \in 1 .. (n + 1) : r[j] = IF j < i THEN s[j] ELSE IF j = i THEN e ELSE s[j - 1]
  <2> DEFINE q == TimeOutFold!InsertAt(s, i, e)
  <2>1. /\ q \in Seq(E) /\ Len(q) = Len(s) + 1
        /\ \A j \in 1 .. (Len(s) + 1) :
              q[j] = IF j < i THEN s[j] ELSE IF j = i THEN e ELSE s[j - 1]
    BY TimeOutFold!Inserted
  <2>2. r = q
    BY DEF InsertAt, TimeOutFold!InsertAt
  <2> HIDE DEF q, r
  <2> QED
    BY <2>1, <2>2
<1>2. n \in Nat /\ i \in Nat /\ 1 <= i /\ i <= n + 1
  OBVIOUS
<1>3. \A j, m \in 1 .. n : s[j] = s[m] => j = m
  BY DEF IsInjective
<1>4. ToSet(s) = {s[j] : j \in 1 .. n} /\ ToSet(r) = {r[j] : j \in 1 .. (n + 1)}
      /\ DOMAIN r = 1 .. (n + 1)
  <2> HIDE DEF r
  <2> QED
    BY <1>1, ItemsOf
<1> HIDE DEF r, n
<1>5. \A j \in 1 .. (n + 1) :
         \/ j = i /\ r[j] = e
         \/ j < i /\ j \in 1 .. n /\ r[j] = s[j]
         \/ j > i /\ j - 1 \in 1 .. n /\ r[j] = s[j - 1]
  BY <1>1, <1>2
<1>6. \A m \in 1 .. n : \E j \in 1 .. (n + 1) : r[j] = s[m]
  <2> TAKE m \in 1 .. n
  <2>1. CASE m < i
    <3>1. m \in 1 .. (n + 1)
      BY <1>2
    <3> QED
      BY <1>1, <2>1, <3>1
  <2>2. CASE ~(m < i)
    <3>1. m + 1 \in 1 .. (n + 1) /\ ~(m + 1 < i) /\ m + 1 # i /\ (m + 1) - 1 = m
      BY <1>2, <2>2
    <3> QED
      BY <1>1, <3>1
  <2> QED
    BY <2>1, <2>2
<1>7. i \in 1 .. (n + 1) /\ r[i] = e
  BY <1>2, <1>5
<1>8. ToSet(r) = ToSet(s) \cup {e}
  <2>1. \A x : x \in ToSet(r) => x \in ToSet(s) \cup {e}
    BY <1>4, <1>5
  <2>2. \A x : x \in ToSet(s) \cup {e} => x \in ToSet(r)
    BY <1>4, <1>6, <1>7
  <2> QED
    BY <2>1, <2>2
<1>9. \A m \in 1 .. n : s[m] # e
  BY <1>4
<1>10. \A j, m \in 1 .. (n + 1) : r[j] = r[m] => j = m
  <2> SUFFICES ASSUME NEW j \in 1 .. (n + 1), NEW m \in 1 .. (n + 1), r[j] = r[m]
               PROVE  j = m
    OBVIOUS
  <2>1. /\ \/ j = i /\ r[j] = e
           \/ j < i /\ j \in 1 .. n /\ r[j] = s[j]
           \/ j > i /\ j - 1 \in 1 .. n /\ r[j] = s[j - 1]
        /\ \/ m = i /\ r[m] = e
           \/ m < i /\ m \in 1 .. n /\ r[m] = s[m]
           \/ m > i /\ m - 1 \in 1 .. n /\ r[m] = s[m - 1]
    BY <1>5
  <2> QED
    BY <1>2, <1>3, <1>9, <2>1
<1> QED
  BY <1>1, <1>4, <1>8, <1>10 DEF r, n, IsInjective

LEMMA AppendedOnce ==
  ASSUME NEW E, NEW s \in Seq(E), IsInjective(s), NEW e \in E, e \notin ToSet(s)
  PROVE  /\ Append(s, e) \in Seq(E) /\ Len(Append(s, e)) = Len(s) + 1
         /\ IsInjective(Append(s, e))
         /\ ToSet(Append(s, e)) = ToSet(s) \cup {e}
<1> DEFINE r == Append(s, e)
           n == Len(s)
<1>1. /\ r \in Seq(E) /\ Len(r) = n + 1 /\ n \in Nat /\ r[n + 1] = e
      /\ \A j \in 1 .. n : r[j] = s[j]
  BY AppendProperties
<1>2. /\ DOMAIN s = 1 .. n /\ DOMAIN r = 1 .. (n + 1)
      /\ \A x : x \in ToSet(s) <=> \E i \in 1 .. n : s[i] = x
      /\ \A x : x \in ToSet(r) <=> \E i \in 1 .. (n + 1) : r[i] = x
  <2> HIDE DEF r
  <2> QED
    BY <1>1, ItemsOf
<1>3. \A j, m \in 1 .. n : s[j] = s[m] => j = m
  BY <1>2 DEF IsInjective
<1> HIDE DEF r, n
<1>4. \A j \in 1 .. (n + 1) : j \in 1 .. n \/ j = n + 1
  BY <1>1
<1>5. \A j \in 1 .. n : j \in 1 .. (n + 1) /\ s[j] # e
  BY <1>1, <1>2
<1>6. n + 1 \in 1 .. (n + 1)
  BY <1>1
<1>7. \A x : x \in ToSet(r) <=> x \in ToSet(s) \cup {e}
  BY <1>1, <1>2, <1>4, <1>5, <1>6
<1>8. \A j, m \in 1 .. (n + 1) : r[j] = r[m] => j = m
  BY <1>1, <1>3, <1>4, <1>5
<1> QED
  BY <1>1, <1>2, <1>7, <1>8 DEF r, n, IsInjective

LEMMA TakenFirst ==
  ASSUME NEW E, NEW s \in Seq(E), IsInjective(s), s # <<>>
  PROVE  /\ Head(s) \in ToSet(s) /\ Tail(s) \in Seq(E) /\ Len(Tail(s)) = Len(s) - 1
         /\ IsInjective(Tail(s))
         /\ ToSet(Tail(s)) = ToSet(s) \ {Head(s)}
<1> DEFINE r == Tail(s)
           n == Len(s)
<1>1. /\ r \in Seq(E) /\ Len(r) = n - 1 /\ n \in Nat /\ n > 0 /\ Head(s) = s[1]
      /\ \A j \in 1 .. (n - 1) : r[j] = s[j + 1]
  BY HeadTailProperties
<1>2. /\ DOMAIN s = 1 .. n /\ DOMAIN r = 1 .. (n - 1)
      /\ \A x : x \in ToSet(s) <=> \E i \in 1 .. n : s[i] = x
      /\ \A x : x \in ToSet(r) <=> \E i \in 1 .. (n - 1) : r[i] = x
  <2> HIDE DEF r
  <2> QED
    BY <1>1, ItemsOf
<1>3. \A j, m \in 1 .. n : s[j] = s[m] => j = m
  BY <1>2 DEF IsInjective
<1> HIDE DEF r, n
<1>4. \A j \in 1 .. n : j = 1 \/ (j - 1 \in 1 .. (n - 1) /\ (j - 1) + 1 = j)
  BY <1>1
<1>5. \A j \in 1 .. (n - 1) : j + 1 \in 1 .. n /\ j + 1 # 1
  BY <1>1
<1>6. 1 \in 1 .. n
  BY <1>1
<1>7. \A x : x \in ToSet(r) <=> x \in ToSet(s) /\ x # s[1]
  <2>1. \A x : x \in ToSet(r) => x \in ToSet(s) /\ x # s[1]
    BY <1>1, <1>2, <1>3, <1>5, <1>6
  <2>2. \A x : x \in ToSet(s) /\ x # s[1] => x \in ToSet(r)
    BY <1>1, <1>2, <1>4
  <2> QED
    BY <2>1, <2>2
<1>8. \A j, m \in 1 .. (n - 1) : r[j] = r[m] => j = m
  BY <1>1, <1>3, <1>5
<1> QED
  BY <1>1, <1>2, <1>6, <1>7, <1>8 DEF r, n, IsInjective

(* The position of an item. *)
LEMMA FoundAt ==
  ASSUME NEW E, NEW s \in Seq(E), IsInjective(s), NEW e \in ToSet(s)
  PROVE  /\ SelectInSeq(s, LAMBDA i : i = e) \in 1 .. Len(s)
         /\ s[SelectInSeq(s, LAMBDA i : i = e)] = e
<1> DEFINE I == {i \in 1 .. Len(s) : s[i] = e}
<1>1. PICK i \in 1 .. Len(s) : s[i] = e
  BY ItemsOf
<1>2. I # {} /\ I \in SUBSET Nat
  BY <1>1
<1>3. Min(I) \in I
  <2> HIDE DEF I
  <2> QED
    BY <1>2, TimeOutFold!MinIsLeast DEF Min, TimeOutFold!Min
<1>4. SelectInSeq(s, LAMBDA j : j = e) = Min(I)
  BY <1>2 DEF SelectInSeq
<1> QED
  BY <1>3, <1>4

LEMMA RemovedFirst ==
  ASSUME NEW E, NEW s \in Seq(E), IsInjective(s), NEW e
  PROVE  /\ RemoveFirst(s, e) \in Seq(E)
         /\ IsInjective(RemoveFirst(s, e))
         /\ ToSet(RemoveFirst(s, e)) = ToSet(s) \ {e}
<1>1. CASE e \in ToSet(s)
  <2> DEFINE i == SelectInSeq(s, LAMBDA v : v = e)
  <2>1. i \in 1 .. Len(s) /\ s[i] = e
    BY <1>1, FoundAt
  <2>2. RemoveFirst(s, e) = RemoveAt(s, i)
    BY <1>1, ItemsOf DEF RemoveFirst
  <2> HIDE DEF i
  <2> QED
    BY <2>1, <2>2, RemovedOnce
<1>2. CASE e \notin ToSet(s)
  <2>1. RemoveFirst(s, e) = s
    BY <1>2, ItemsOf DEF RemoveFirst
  <2> QED
    BY <1>2, <2>1
<1> QED
  BY <1>1, <1>2
-----------------------------------------------------------------------------
(* The operations on lists. *)

ListsOf(E) == [items : Seq(E), index : Nat]
ListSound(list) == list.index <= Len(list.items) /\ IsInjective(list.items)

LEMMA EndInserted ==
  ASSUME NEW E, NEW list \in ListsOf(E), ListSound(list),
         NEW e \in E, e \notin ToSet(list.items)
  PROVE  /\ vListInsertEnd(list, e) \in ListsOf(E)
         /\ ListSound(vListInsertEnd(list, e))
         /\ ToSet(vListInsertEnd(list, e).items) = ToSet(list.items) \cup {e}
<1> DEFINE s == list.items
           i == list.index
<1>1. /\ s \in Seq(E) /\ i \in Nat /\ IsInjective(s) /\ i <= Len(s) /\ e \notin ToSet(s)
      /\ Len(s) \in Nat
  BY DEF ListsOf, ListSound
<1>2. CASE i = 0
  <2> DEFINE q == Append(s, e)
  <2>1. vListInsertEnd(list, e) = [list EXCEPT !.items = q]
    BY <1>2 DEF vListInsertEnd
  <2>2. /\ q \in Seq(E) /\ Len(q) = Len(s) + 1 /\ IsInjective(q) /\ ToSet(q) = ToSet(s) \cup {e}
    <3> HIDE DEF s
    <3> QED
      BY <1>1, AppendedOnce
  <2> HIDE DEF q
  <2>3. [list EXCEPT !.items = q] = [items |-> q, index |-> i]
    BY DEF ListsOf
  <2> QED
    BY <1>1, <2>1, <2>2, <2>3 DEF ListsOf, ListSound
<1>3. CASE i # 0
  <2> DEFINE q == InsertAt(s, i, e)
  <2>1. vListInsertEnd(list, e) = [items |-> q, index |-> i + 1]
    BY <1>3 DEF vListInsertEnd
  <2>2. /\ q \in Seq(E) /\ Len(q) = Len(s) + 1 /\ IsInjective(q) /\ ToSet(q) = ToSet(s) \cup {e}
    <3>1. i \in 1 .. (Len(s) + 1)
      BY <1>1, <1>3
    <3> HIDE DEF s, i
    <3> QED
      BY <1>1, <3>1, InsertedOnce
  <2> HIDE DEF q
  <2> QED
    BY <1>1, <2>1, <2>2 DEF ListsOf, ListSound
<1> QED
  BY <1>2, <1>3

LEMMA ListRemoved ==
  ASSUME NEW E, NEW list \in ListsOf(E), ListSound(list), NEW e \in ToSet(list.items)
  PROVE  /\ uxListRemove(list, e) \in ListsOf(E)
         /\ ListSound(uxListRemove(list, e))
         /\ ToSet(uxListRemove(list, e).items) = ToSet(list.items) \ {e}
<1> DEFINE s == list.items
           i == list.index
           at == SelectInSeq(s, LAMBDA j : j = e)
           q == RemoveAt(s, at)
<1>1. /\ s \in Seq(E) /\ i \in Nat /\ IsInjective(s) /\ i <= Len(s) /\ e \in ToSet(s)
      /\ Len(s) \in Nat
  BY DEF ListsOf, ListSound
<1>2. uxListRemove(list, e) = [items |-> q, index |-> IF at <= i THEN i - 1 ELSE i]
  BY DEF uxListRemove
<1>3. at \in 1 .. Len(s) /\ s[at] = e
  <2> HIDE DEF s
  <2> QED
    BY <1>1, FoundAt
<1> HIDE DEF at
<1>4. /\ q \in Seq(E) /\ Len(q) = Len(s) - 1 /\ IsInjective(q) /\ ToSet(q) = ToSet(s) \ {e}
  <2> HIDE DEF s
  <2> QED
    BY <1>1, <1>3, RemovedOnce
<1> HIDE DEF q
<1> QED
  BY <1>1, <1>2, <1>3, <1>4 DEF ListsOf, ListSound

LEMMA NextEntry ==
  ASSUME NEW E, NEW list \in ListsOf(E), ListSound(list), list.items # <<>>
  PROVE  /\ ListNextEntry(list) \in ListsOf(E)
         /\ ListSound(ListNextEntry(list))
         /\ ListNextEntry(list).items = list.items
         /\ ListOwner(ListNextEntry(list)) \in ToSet(list.items)
<1> DEFINE s == list.items
           i == list.index
           j == IF i = Len(s) THEN 1 ELSE i + 1
<1>1. /\ s \in Seq(E) /\ i \in Nat /\ IsInjective(s) /\ i <= Len(s)
      /\ Len(s) \in Nat /\ Len(s) > 0
  BY EmptySeq DEF ListsOf, ListSound
<1>2. ListNextEntry(list) = [items |-> s, index |-> j]
  BY DEF ListNextEntry, ListsOf
<1>3. j \in 1 .. Len(s)
  BY <1>1
<1>4. s[j] \in ToSet(s)
  <2> HIDE DEF s, j
  <2> QED
    BY <1>1, <1>3, ItemsOf
<1> HIDE DEF j
<1> QED
  BY <1>1, <1>2, <1>3, <1>4 DEF ListsOf, ListSound, ListOwner

LEMMA ValueInserted ==
  ASSUME NEW E, NEW s \in Seq(E), IsInjective(s), NEW e \in E, e \notin ToSet(s), NEW value
  PROVE  /\ vListInsert(s, value, e) \in Seq(E)
         /\ IsInjective(vListInsert(s, value, e))
         /\ ToSet(vListInsert(s, value, e)) = ToSet(s) \cup {e}
<1> DEFINE later == {i \in DOMAIN s : value[s[i]] > value[e]}
           i == IF later = {} THEN Len(s) + 1 ELSE Min(later)
<1>1. DOMAIN s = 1 .. Len(s) /\ Len(s) \in Nat
  OBVIOUS
<1>2. later # {} => Min(later) \in later
  <2>1. later \in SUBSET Nat
    BY <1>1
  <2> HIDE DEF later
  <2> QED
    BY <2>1, TimeOutFold!MinIsLeast DEF Min, TimeOutFold!Min
<1>3. i \in 1 .. (Len(s) + 1)
  BY <1>1, <1>2
<1>4. vListInsert(s, value, e) = InsertAt(s, i, e)
  BY DEF vListInsert
<1> HIDE DEF i
<1> QED
  BY <1>3, <1>4, InsertedOnce

LEMMA KernelFields ==
  ASSUME NEW kern \in Kernel
  PROVE  /\ kern.pxCurrentTCB \in Tasks
         /\ kern.pxReadyTasksLists \in [0 .. TopPriority -> ListsOf(Tasks)]
         /\ kern.uxTopReadyPriority \in 0 .. TopPriority
         /\ kern.xTickCount \in Ticks /\ kern.xNumOfOverflows \in Nat
         /\ kern.pxDelayedTaskList \in Seq(Tasks) /\ kern.pxOverflowDelayedTaskList \in Seq(Tasks)
         /\ kern.xSuspendedTaskList \in Seq(Tasks) /\ kern.xTasksWaitingToReceive \in Seq(Tasks)
         /\ kern.xNextTaskUnblockTime \in Ticks
         /\ kern.xTimeToWake \in [Tasks -> Ticks]
         /\ kern.xPendedTicks \in Nat /\ kern.xYieldPending \in BOOLEAN
         /\ kern.uxSchedulerSuspended \in {0, 1}
         /\ kern.due \in [Tasks -> 0 .. Forever] /\ kern.passed \in [Tasks -> Nat]
BY DEF Kernel, ListsOf

LEMMA PrioritiesAreBounded == \E n \in Nat : Priorities \subseteq 0 .. n
<1> DEFINE c == CreationOrder
           Below(m, n) == \A i \in 1 .. m : Priority[c[i]] <= n
           B == {m \in Nat : m <= Len(c) => \E n \in Nat : Below(m, n)}
<1>1. c \in Seq(Tasks) /\ Len(c) \in Nat /\ Tasks = {c[i] : i \in 1 .. Len(c)}
  BY KernelAssumption DEF Tasks, ToSet
<1>2. \A t \in Tasks : Priority[t] \in Nat
  BY KernelAssumption
<1> HIDE DEF c
<1>3. Below(0, 0)
  OBVIOUS
<1>4. ASSUME NEW m \in Nat, m + 1 <= Len(c), NEW n \in Nat, Below(m, n)
      PROVE  \E q \in Nat : Below(m + 1, q)
  <2>1. \A i \in 1 .. (m + 1) : Priority[c[i]] \in Nat
    BY <1>1, <1>2, <1>4
  <2>2. PICK q \in Nat : q = Priority[c[m + 1]]
    BY <2>1
  <2>3. ASSUME NEW i \in 1 .. (m + 1)
        PROVE  Priority[c[i]] <= n + q
    <3>1. CASE i = m + 1
      BY <2>2, <3>1
    <3>2. CASE i \in 1 .. m
      BY <1>4, <2>1, <2>2, <3>2
    <3>3. i = m + 1 \/ i \in 1 .. m
      BY ONLY m \in Nat, i \in 1 .. (m + 1)
    <3> QED
      BY <3>1, <3>2, <3>3
  <2>4. Below(m + 1, n + q) /\ n + q \in Nat
    BY <2>3
  <2> HIDE DEF Below
  <2> QED
    BY <2>4
<1> HIDE DEF Below
<1>5. /\ 0 \in B
      /\ \A m \in Nat : m \in B => m + 1 \in B
  <2>1. 0 \in B
    BY <1>3
  <2>2. ASSUME NEW m \in Nat, m \in B
        PROVE  m + 1 \in B
    <3>1. CASE m + 1 <= Len(c)
      <4>1. m <= Len(c)
        BY <1>1, <3>1
      <4>2. PICK n \in Nat : Below(m, n)
        BY <2>2, <4>1
      <4>3. \E q \in Nat : Below(m + 1, q)
        BY <1>4, <3>1, <4>2
      <4> QED
        BY <4>3
    <3>2. CASE ~(m + 1 <= Len(c))
      BY <3>2
    <3> QED
      BY <3>1, <3>2
  <2> QED
    BY <2>1, <2>2
<1> HIDE DEF B
<1>6. Len(c) \in B
  BY <1>1, <1>5, TimeOutFold!NatSetInduction
<1>7. PICK n \in Nat : Below(Len(c), n)
  BY <1>1, <1>6 DEF B
<1>8. Priorities \subseteq 0 .. n
  BY <1>1, <1>2, <1>7 DEF Priorities, Below
<1> QED
  BY <1>8

LEMMA PriorityRange ==
  /\ TopPriority \in Nat
  /\ \A t \in Tasks : Priority[t] \in 0 .. TopPriority
<1>1. Priorities \subseteq Nat /\ Priorities # {}
  BY KernelAssumption DEF Priorities
<1>2. PICK n \in Nat : Priorities \subseteq 0 .. n
  BY PrioritiesAreBounded
<1>3. TopPriority \in Priorities /\ \A p \in Priorities : p <= TopPriority
  BY <1>1, <1>2, TimeOutFold!MaxIsGreatest DEF TopPriority, Max, TimeOutFold!Max
<1> QED
  BY <1>1, <1>3 DEF Priorities

-----------------------------------------------------------------------------
(* Where the tasks are. *)

ItemsAt(kern, p) == ToSet(kern.pxReadyTasksLists[p].items)
Suspended(kern)  == ToSet(kern.xSuspendedTaskList)
Blocked(kern)    == Sleepers(kern) \cup Suspended(kern)

ReadySound(kern)   == \A p \in 0 .. TopPriority : ReadyListSound(kern, p)
BlockedSound(kern) ==
    /\ IsInjective(kern.pxDelayedTaskList) /\ IsInjective(kern.pxOverflowDelayedTaskList)
    /\ IsInjective(kern.xSuspendedTaskList)
    /\ ToSet(kern.pxDelayedTaskList) \cap ToSet(kern.pxOverflowDelayedTaskList) = {}
    /\ Sleepers(kern) \cap Suspended(kern) = {}
WaitersBlocked(kern) ==
    /\ IsInjective(kern.xTasksWaitingToReceive)
    /\ ToSet(kern.xTasksWaitingToReceive) \cap ReadyTasks(kern) = {}

LEMMA ListsAndWaiters ==
  ASSUME NEW kern
  PROVE  InOneList(kern) <=> /\ ReadySound(kern) /\ BlockedSound(kern) /\ WaitersBlocked(kern)
                          /\ ReadyTasks(kern) = Tasks \ Blocked(kern)
BY DEF InOneList, ReadySound, BlockedSound, WaitersBlocked, Suspended, Blocked

LEMMA ReadyIs ==
  ASSUME NEW kern \in Kernel
  PROVE  /\ \A t \in Tasks : t \in ReadyTasks(kern) <=> t \in ItemsAt(kern, Priority[t])
         /\ \A t \in Tasks : t \in ReadyTasks(kern) <=> IsReady(kern, t)
         /\ ReadyTasks(kern) \subseteq Tasks
<1> SUFFICES ASSUME NEW t \in Tasks
             PROVE  IsReady(kern, t) <=> t \in ItemsAt(kern, Priority[t])
  BY DEF ReadyTasks
<1> DEFINE s == kern.pxReadyTasksLists[Priority[t]].items
<1>1. s \in Seq(Tasks)
  BY KernelFields, PriorityRange DEF ListsOf
<1>2. IsReady(kern, t) <=> \E i \in 1 .. Len(s) : s[i] = t
  BY DEF IsReady, ReadyList, Contains
<1>3. ItemsAt(kern, Priority[t]) = ToSet(s)
  BY DEF ItemsAt
<1> HIDE DEF s
<1> QED
  BY <1>1, <1>2, <1>3, ItemsOf

(* What is known of one ready list.  *)
LEMMA OneReadyList ==
  ASSUME NEW kern \in Kernel, ReadySound(kern), NEW p \in 0 .. TopPriority
  PROVE  /\ kern.pxReadyTasksLists[p] \in ListsOf(Tasks) /\ ListSound(kern.pxReadyTasksLists[p])
         /\ ItemsAt(kern, p) = {t \in ReadyTasks(kern) : Priority[t] = p}
         /\ kern.pxReadyTasksLists[p].items # <<>> => p <= kern.uxTopReadyPriority
         /\ kern.pxReadyTasksLists[p].items # <<>> <=> ItemsAt(kern, p) # {}
<1> DEFINE list == kern.pxReadyTasksLists[p]
<1>1. list \in ListsOf(Tasks)
  BY KernelFields
<1>2. /\ ListSound(list) /\ \A t \in ItemsAt(kern, p) : Priority[t] = p
      /\ list.items # <<>> => p <= kern.uxTopReadyPriority
  BY DEF ReadySound, ReadyListSound, ListSound, ItemsAt
<1>3. list.items \in Seq(Tasks) /\ ItemsAt(kern, p) = ToSet(list.items)
  BY <1>1 DEF ListsOf, ItemsAt
<1>4. ItemsAt(kern, p) \subseteq Tasks /\ (list.items # <<>> <=> ItemsAt(kern, p) # {})
  <2> DEFINE s == list.items
  <2>1. s \in Seq(Tasks) /\ ItemsAt(kern, p) = ToSet(s)
    BY <1>3
  <2> HIDE DEF s
  <2>2. s # <<>> <=> Len(s) > 0
    BY <2>1, EmptySeq
  <2>3. /\ Len(s) \in Nat /\ ToSet(s) \subseteq Tasks
        /\ \A e : e \in ToSet(s) <=> \E i \in 1 .. Len(s) : s[i] = e
    BY <2>1, ItemsOf
  <2>4. Len(s) > 0 => s[1] \in ToSet(s)
    BY <2>3
  <2>5. s # <<>> <=> ToSet(s) # {}
    BY <2>2, <2>3, <2>4
  <2> QED
    BY <2>1, <2>3, <2>5 DEF s
<1>5. ItemsAt(kern, p) = {t \in ReadyTasks(kern) : Priority[t] = p}
  BY <1>2, <1>4, ReadyIs
<1> QED
  BY <1>1, <1>2, <1>4, <1>5

HeldBelow(kern, n) ==
    \A p \in 0 .. TopPriority : kern.pxReadyTasksLists[p].items # <<>> => p <= n

LEMMA HeldBelowTop ==
  ASSUME NEW kern \in Kernel, ReadySound(kern), NEW n \in Nat, kern.uxTopReadyPriority <= n
  PROVE  HeldBelow(kern, n)
<1>1. kern.uxTopReadyPriority \in Nat /\ 0 .. TopPriority \subseteq Nat
  BY KernelFields, PriorityRange
<1> QED
  BY <1>1 DEF ReadySound, ReadyListSound, HeldBelow

(* A ready list is replaced by another.  *)
LEMMA ReadyListReplaced ==
  ASSUME NEW kern \in Kernel, ReadySound(kern), NEW r \in Kernel,
         NEW p \in 0 .. TopPriority, NEW list \in ListsOf(Tasks), ListSound(list),
         r.pxReadyTasksLists = [kern.pxReadyTasksLists EXCEPT ![p] = list],
         \A t \in ToSet(list.items) : Priority[t] = p,
         HeldBelow(kern, r.uxTopReadyPriority),
         list.items # <<>> => p <= r.uxTopReadyPriority
  PROVE  /\ ReadySound(r)
         /\ ReadyTasks(r) = (ReadyTasks(kern) \ ItemsAt(kern, p)) \cup ToSet(list.items)
<1>1. \A q \in 0 .. TopPriority :
         r.pxReadyTasksLists[q] = IF q = p THEN list ELSE kern.pxReadyTasksLists[q]
  BY KernelFields
<1>3. ASSUME NEW q \in 0 .. TopPriority
      PROVE  ReadyListSound(r, q)
  <2>1. CASE q = p
    BY <1>1, <2>1 DEF ReadyListSound, ListSound
  <2>2. CASE q # p
    <3>1. ReadyListSound(kern, q) /\ r.pxReadyTasksLists[q] = kern.pxReadyTasksLists[q]
      BY <1>1, <2>2 DEF ReadySound
    <3> QED
      BY <3>1 DEF ReadyListSound, HeldBelow
  <2> QED
    BY <2>1, <2>2
<1>4. ReadySound(r)
  BY <1>3 DEF ReadySound
<1>5. \A q \in 0 .. TopPriority :
         ItemsAt(r, q) = IF q = p THEN ToSet(list.items) ELSE ItemsAt(kern, q)
  BY <1>1 DEF ItemsAt
<1>6. ToSet(list.items) \subseteq Tasks
  <2>1. list.items \in Seq(Tasks)
    BY DEF ListsOf
  <2> QED
    BY <2>1, ItemsOf
<1>7. ItemsAt(kern, p) = {t \in ReadyTasks(kern) : Priority[t] = p}
  BY OneReadyList
<1>8. \A t \in Tasks : t \in ReadyTasks(r) <=>
         t \in (ReadyTasks(kern) \ ItemsAt(kern, p)) \cup ToSet(list.items)
  <2> TAKE t \in Tasks
  <2>1. /\ t \in ReadyTasks(kern) <=> t \in ItemsAt(kern, Priority[t])
        /\ t \in ReadyTasks(r) <=> t \in ItemsAt(r, Priority[t])
    BY ReadyIs
  <2> QED
    BY <1>5, <1>7, <2>1, PriorityRange
<1>9. ReadyTasks(kern) \subseteq Tasks /\ ReadyTasks(r) \subseteq Tasks
  BY ReadyIs
<1> QED
  BY <1>4, <1>6, <1>8, <1>9

CreateFold == INSTANCE Folding WITH op <- prvAddNewTaskToReadyList
UnwindFold == INSTANCE Folding WITH op <- UnwindTick

-----------------------------------------------------------------------------
(* What the operations leave alone. *)

SameControl(kern, r) ==
    /\ r.pxCurrentTCB = kern.pxCurrentTCB
    /\ r.xYieldPending = kern.xYieldPending
    /\ r.uxSchedulerSuspended = kern.uxSchedulerSuspended
SameBlocked(kern, r) ==
    /\ r.pxDelayedTaskList = kern.pxDelayedTaskList
    /\ r.pxOverflowDelayedTaskList = kern.pxOverflowDelayedTaskList
    /\ r.xSuspendedTaskList = kern.xSuspendedTaskList
SameWaiters(kern, r) == r.xTasksWaitingToReceive = kern.xTasksWaitingToReceive
SameReady(kern, r) ==
    /\ r.pxReadyTasksLists = kern.pxReadyTasksLists
    /\ r.uxTopReadyPriority = kern.uxTopReadyPriority

LEMMA SameMeansSame ==
  ASSUME NEW kern, NEW r
  PROVE  /\ SameReady(kern, r) => ReadyTasks(r) = ReadyTasks(kern) /\ (ReadySound(kern) => ReadySound(r))
         /\ SameBlocked(kern, r) => /\ Blocked(r) = Blocked(kern) /\ Sleepers(r) = Sleepers(kern)
                                 /\ Suspended(r) = Suspended(kern)
                                 /\ (BlockedSound(kern) => BlockedSound(r))
BY DEF SameReady, SameBlocked, ReadyTasks, IsReady, ReadyList, ReadySound, ReadyListSound,
       Blocked, BlockedSound, Sleepers, Suspended

BecomesReady(kern, t, r) ==
    /\ r \in Kernel /\ ReadySound(r) /\ ReadyTasks(r) = ReadyTasks(kern) \cup {t}
    /\ SameControl(kern, r) /\ SameBlocked(kern, r) /\ SameWaiters(kern, r)

LEMMA MadeReady ==
  ASSUME NEW kern \in Kernel, ReadySound(kern), NEW t \in Tasks, t \notin ReadyTasks(kern)
  PROVE  BecomesReady(kern, t, prvAddTaskToReadyList(kern, t))
<1> DEFINE p == Priority[t]
           old == kern.pxReadyTasksLists[p]
           list == vListInsertEnd(old, t)
           top == IF p > kern.uxTopReadyPriority THEN p ELSE kern.uxTopReadyPriority
           r == prvAddTaskToReadyList(kern, t)
           lists == [kern.pxReadyTasksLists EXCEPT ![p] = list]
<1>1. p \in 0 .. TopPriority /\ kern.uxTopReadyPriority \in 0 .. TopPriority /\ TopPriority \in Nat
  BY PriorityRange, KernelFields
<1>2. /\ old \in ListsOf(Tasks) /\ ListSound(old)
      /\ ToSet(old.items) = {u \in ReadyTasks(kern) : Priority[u] = p}
  BY <1>1, OneReadyList DEF ItemsAt
<1>3. t \notin ToSet(old.items)
  BY <1>2
<1>4. /\ list \in ListsOf(Tasks) /\ ListSound(list)
      /\ ToSet(list.items) = ToSet(old.items) \cup {t}
  <2> HIDE DEF old
  <2> QED
    BY <1>2, <1>3, EndInserted
<1>5. top \in 0 .. TopPriority /\ kern.uxTopReadyPriority <= top /\ p <= top
  BY <1>1
<1>6. r = [kern EXCEPT !.uxTopReadyPriority = top, !.pxReadyTasksLists = lists]
  BY DEF prvAddTaskToReadyList
<1>7. \A u \in ToSet(list.items) : Priority[u] = p
  BY <1>2, <1>4
<1> HIDE DEF top, list, r, p
<1>8. lists \in [0 .. TopPriority -> [items : Seq(Tasks), index : Nat]]
  BY <1>1, <1>4, KernelFields DEF ListsOf
<1> HIDE DEF lists
<1>9. /\ r \in Kernel /\ r.pxReadyTasksLists = lists /\ r.uxTopReadyPriority = top
      /\ SameControl(kern, r) /\ SameBlocked(kern, r) /\ SameWaiters(kern, r)
  BY <1>5, <1>6, <1>8 DEF Kernel, SameControl, SameBlocked, SameWaiters
<1>10. /\ ReadySound(r)
       /\ ReadyTasks(r) = (ReadyTasks(kern) \ ItemsAt(kern, p)) \cup ToSet(list.items)
  <2>1. r.pxReadyTasksLists = [kern.pxReadyTasksLists EXCEPT ![p] = list]
    BY <1>9 DEF lists
  <2>2. HeldBelow(kern, r.uxTopReadyPriority) /\ p <= r.uxTopReadyPriority
    BY <1>1, <1>5, <1>9, HeldBelowTop
  <2> QED
    BY <1>1, <1>4, <1>7, <1>9, <2>1, <2>2, ReadyListReplaced
<1>11. ItemsAt(kern, p) = ToSet(old.items) /\ ToSet(old.items) \subseteq ReadyTasks(kern)
  BY <1>2 DEF ItemsAt
<1> QED
  BY <1>4, <1>9, <1>10, <1>11 DEF BecomesReady, r

(* The first half of prvAddCurrentTaskToDelayedList. *)
RemovedFromReady(kern, t) ==
    [kern EXCEPT !.pxReadyTasksLists[Priority[t]] = uxListRemove(@, t)]

LEMMA MadeUnready ==
  ASSUME NEW kern \in Kernel, ReadySound(kern), NEW t \in ReadyTasks(kern)
  PROVE  LET r == RemovedFromReady(kern, t) IN
         /\ r \in Kernel /\ ReadySound(r) /\ ReadyTasks(r) = ReadyTasks(kern) \ {t}
         /\ SameControl(kern, r) /\ SameBlocked(kern, r) /\ SameWaiters(kern, r)
<1> DEFINE p == Priority[t]
           old == kern.pxReadyTasksLists[p]
           list == uxListRemove(old, t)
           r == RemovedFromReady(kern, t)
           lists == [kern.pxReadyTasksLists EXCEPT ![p] = list]
<1>0. t \in Tasks
  BY DEF ReadyTasks
<1>1. p \in 0 .. TopPriority /\ kern.uxTopReadyPriority \in 0 .. TopPriority /\ TopPriority \in Nat
  BY <1>0, PriorityRange, KernelFields
<1>2. /\ old \in ListsOf(Tasks) /\ ListSound(old)
      /\ ToSet(old.items) = {u \in ReadyTasks(kern) : Priority[u] = p}
      /\ ItemsAt(kern, p) # {} => p <= kern.uxTopReadyPriority
  BY <1>1, OneReadyList DEF ItemsAt
<1>3. t \in ToSet(old.items)
  BY <1>2
<1>4. /\ list \in ListsOf(Tasks) /\ ListSound(list)
      /\ ToSet(list.items) = ToSet(old.items) \ {t}
  <2> HIDE DEF old
  <2> QED
    BY <1>2, <1>3, ListRemoved
<1>6. r = [kern EXCEPT !.pxReadyTasksLists = lists]
  BY DEF RemovedFromReady
<1>7. \A u \in ToSet(list.items) : Priority[u] = p
  BY <1>2, <1>4
<1>12. p <= kern.uxTopReadyPriority
  BY <1>2, <1>3 DEF ItemsAt
<1> HIDE DEF list, r, p
<1>8. lists \in [0 .. TopPriority -> [items : Seq(Tasks), index : Nat]]
  BY <1>1, <1>4, KernelFields DEF ListsOf
<1> HIDE DEF lists
<1>9. /\ r \in Kernel /\ r.pxReadyTasksLists = lists /\ r.uxTopReadyPriority = kern.uxTopReadyPriority
      /\ SameControl(kern, r) /\ SameBlocked(kern, r) /\ SameWaiters(kern, r)
  BY <1>6, <1>8 DEF Kernel, SameControl, SameBlocked, SameWaiters
<1>10. /\ ReadySound(r)
       /\ ReadyTasks(r) = (ReadyTasks(kern) \ ItemsAt(kern, p)) \cup ToSet(list.items)
  <2>1. r.pxReadyTasksLists = [kern.pxReadyTasksLists EXCEPT ![p] = list]
    BY <1>9 DEF lists
  <2>2. HeldBelow(kern, r.uxTopReadyPriority) /\ p <= r.uxTopReadyPriority
    BY <1>1, <1>9, <1>12, HeldBelowTop
  <2> QED
    BY <1>1, <1>4, <1>7, <1>9, <2>1, <2>2, ReadyListReplaced
<1>11. ItemsAt(kern, p) = ToSet(old.items) /\ ToSet(old.items) \subseteq ReadyTasks(kern)
       /\ \A u \in ReadyTasks(kern) : u \notin ToSet(old.items) => u # t
  BY <1>2, <1>3 DEF ItemsAt
<1>13. ReadyTasks(r) = ReadyTasks(kern) \ {t}
  BY <1>4, <1>10, <1>11
<1> QED
  BY <1>9, <1>10, <1>13 DEF r

-----------------------------------------------------------------------------
(* The running task blocks. *)

PlacesSound(kern) ==
    ReadySound(kern) /\ BlockedSound(kern) /\ ReadyTasks(kern) = Tasks \ Blocked(kern)

BecomesBlocked(kern, r) ==
    /\ r \in Kernel /\ PlacesSound(r)
    /\ ReadyTasks(r) = ReadyTasks(kern) \ {kern.pxCurrentTCB}
    /\ SameControl(kern, r) /\ SameWaiters(kern, r)

LEMMA TicksAreNumbers ==
  /\ TickModulus \in Nat /\ TickModulus > 2 /\ Ticks \subseteq Nat /\ portMAX_DELAY \in Ticks /\ 0 \in Ticks
  /\ \A n \in Nat : n % TickModulus \in Ticks
BY KernelAssumption DEF Ticks, portMAX_DELAY

LEMMA SameAgain ==
  ASSUME NEW kern, NEW m, NEW r
  PROVE  /\ SameControl(kern, m) /\ SameControl(m, r) => SameControl(kern, r)
         /\ SameWaiters(kern, m) /\ SameWaiters(m, r) => SameWaiters(kern, r)
         /\ SameBlocked(kern, m) /\ SameBlocked(m, r) => SameBlocked(kern, r)
BY DEF SameControl, SameWaiters, SameBlocked

(* Two of the lists stay, and the third gets the task.  *)
LEMMA OneListGrows ==
  ASSUME NEW kern \in Kernel, PlacesSound(kern), NEW t \in ReadyTasks(kern),
         NEW r \in Kernel, ReadySound(r), ReadyTasks(r) = ReadyTasks(kern) \ {t},
         IsInjective(r.pxDelayedTaskList), IsInjective(r.pxOverflowDelayedTaskList),
         IsInjective(r.xSuspendedTaskList),
         NEW list \in {"delayed", "overflow", "suspended"},
         ToSet(r.pxDelayedTaskList) =
             ToSet(kern.pxDelayedTaskList) \cup IF list = "delayed" THEN {t} ELSE {},
         ToSet(r.pxOverflowDelayedTaskList) =
             ToSet(kern.pxOverflowDelayedTaskList) \cup IF list = "overflow" THEN {t} ELSE {},
         Suspended(r) = Suspended(kern) \cup IF list = "suspended" THEN {t} ELSE {}
  PROVE  PlacesSound(r)
<1> DEFINE d == ToSet(kern.pxDelayedTaskList)
           o == ToSet(kern.pxOverflowDelayedTaskList)
           s == Suspended(kern)
           dd == ToSet(r.pxDelayedTaskList)
           oo == ToSet(r.pxOverflowDelayedTaskList)
           ss == Suspended(r)
           a == ReadyTasks(kern)
           aa == ReadyTasks(r)
<1>1. d \cap o = {} /\ (d \cup o) \cap s = {} /\ a = Tasks \ (d \cup o \cup s)
  BY DEF PlacesSound, BlockedSound, Blocked, Sleepers
<1>2. /\ dd = d \cup IF list = "delayed" THEN {t} ELSE {}
      /\ oo = o \cup IF list = "overflow" THEN {t} ELSE {}
      /\ ss = s \cup IF list = "suspended" THEN {t} ELSE {}
      /\ aa = a \ {t} /\ t \in a
  OBVIOUS
<1> HIDE DEF d, o, s, dd, oo, ss, a, aa
<1>3. t \notin d /\ t \notin o /\ t \notin s /\ t \in Tasks
  BY <1>1, <1>2
<1>4. dd \cap oo = {} /\ (dd \cup oo) \cap ss = {} /\ aa = Tasks \ (dd \cup oo \cup ss)
  <2>1. CASE list = "delayed"
    BY <1>1, <1>2, <1>3, <2>1
  <2>2. CASE list = "overflow"
    BY <1>1, <1>2, <1>3, <2>2
  <2>3. CASE list = "suspended"
    BY <1>1, <1>2, <1>3, <2>3
  <2> QED
    BY <2>1, <2>2, <2>3
<1> QED
  BY <1>4 DEF dd, oo, ss, aa, PlacesSound, BlockedSound, Blocked, Sleepers

LEMMA CurrentBlocks ==
  ASSUME NEW kern \in Kernel, PlacesSound(kern), kern.pxCurrentTCB \in ReadyTasks(kern),
         NEW ticks \in Nat, NEW forever
  PROVE  BecomesBlocked(kern, prvAddCurrentTaskToDelayedList(kern, ticks, forever))
<1> DEFINE t == kern.pxCurrentTCB
           wake == (kern.xTickCount + ticks) % TickModulus
           removed == RemovedFromReady(kern, t)
           times == [kern.xTimeToWake EXCEPT ![t] = wake]
           timed == [removed EXCEPT !.xTimeToWake[t] = wake]
           next == IF wake < kern.xNextTaskUnblockTime THEN wake ELSE kern.xNextTaskUnblockTime
           r == prvAddCurrentTaskToDelayedList(kern, ticks, forever)
<1>1. /\ t \in Tasks /\ wake \in Ticks
      /\ kern.xNextTaskUnblockTime \in Ticks
      /\ times \in [Tasks -> Ticks]
  <2>1. kern.xTickCount + ticks \in Nat
    <3>1. kern.xTickCount \in Ticks
      BY KernelFields
    <3>2. kern.xTickCount \in Nat
      BY <3>1, TicksAreNumbers
    <3> QED
      BY <3>2
  <2> HIDE DEF wake
  <2>2. wake \in Ticks
    BY <2>1, TicksAreNumbers DEF wake
  <2> QED
    BY <2>2, KernelFields
<1>2. next \in Ticks
  BY <1>1
<1>3. /\ removed \in Kernel /\ ReadySound(removed) /\ ReadyTasks(removed) = ReadyTasks(kern) \ {t}
      /\ SameControl(kern, removed) /\ SameBlocked(kern, removed) /\ SameWaiters(kern, removed)
  BY MadeUnready DEF PlacesSound
<1>4. removed.xTimeToWake = kern.xTimeToWake /\ removed.xNextTaskUnblockTime = kern.xNextTaskUnblockTime
  BY DEF RemovedFromReady
<1>5. /\ kern.pxDelayedTaskList \in Seq(Tasks) /\ kern.pxOverflowDelayedTaskList \in Seq(Tasks)
      /\ kern.xSuspendedTaskList \in Seq(Tasks)
      /\ IsInjective(kern.pxDelayedTaskList) /\ IsInjective(kern.pxOverflowDelayedTaskList)
      /\ IsInjective(kern.xSuspendedTaskList)
      /\ t \notin ToSet(kern.pxDelayedTaskList) /\ t \notin ToSet(kern.pxOverflowDelayedTaskList)
      /\ t \notin ToSet(kern.xSuspendedTaskList)
  BY KernelFields DEF PlacesSound, BlockedSound, Blocked, Sleepers, Suspended
<1>6. r = IF ticks = portMAX_DELAY /\ forever
          THEN [removed EXCEPT !.xSuspendedTaskList = Append(@, t)]
          ELSE IF wake < kern.xTickCount
          THEN [timed EXCEPT !.pxOverflowDelayedTaskList = vListInsert(@, timed.xTimeToWake, t)]
          ELSE [timed EXCEPT !.pxDelayedTaskList = vListInsert(@, timed.xTimeToWake, t),
                             !.xNextTaskUnblockTime = IF wake < @ THEN wake ELSE @]
  BY DEF prvAddCurrentTaskToDelayedList, RemovedFromReady
<1>7. timed = [removed EXCEPT !.xTimeToWake = times]
  BY <1>4
<1>8. timed.xTimeToWake = times
  <2> HIDE DEF times, removed
  <2> QED
    BY <1>3, <1>7 DEF Kernel
<1> HIDE DEF wake, removed, times, next, r
<1>9. CASE ticks = portMAX_DELAY /\ forever
  <2> DEFINE list == Append(kern.xSuspendedTaskList, t)
  <2>1. list \in Seq(Tasks) /\ IsInjective(list) /\ ToSet(list) = Suspended(kern) \cup {t}
    BY <1>1, <1>5, AppendedOnce DEF Suspended
  <2>2. r = [removed EXCEPT !.xSuspendedTaskList = list]
    BY <1>3, <1>6, <1>9 DEF SameBlocked
  <2> HIDE DEF list
  <2>3. /\ r \in Kernel /\ SameReady(removed, r) /\ SameControl(removed, r) /\ SameWaiters(removed, r)
        /\ r.pxDelayedTaskList = removed.pxDelayedTaskList
        /\ r.pxOverflowDelayedTaskList = removed.pxOverflowDelayedTaskList
        /\ r.xSuspendedTaskList = list
    BY <1>3, <2>1, <2>2 DEF Kernel, SameReady, SameControl, SameWaiters
  <2>4. ReadySound(r) /\ ReadyTasks(r) = ReadyTasks(kern) \ {t}
    BY <1>3, <2>3, SameMeansSame
  <2>5. PlacesSound(r)
    <3> DEFINE which == "suspended"
    <3>1. /\ ToSet(r.pxDelayedTaskList) = ToSet(kern.pxDelayedTaskList)
          /\ ToSet(r.pxOverflowDelayedTaskList) = ToSet(kern.pxOverflowDelayedTaskList)
          /\ Suspended(r) = Suspended(kern) \cup {t}
          /\ IsInjective(r.pxDelayedTaskList) /\ IsInjective(r.pxOverflowDelayedTaskList)
          /\ IsInjective(r.xSuspendedTaskList)
      BY <1>3, <1>5, <2>1, <2>3 DEF SameBlocked, Suspended
    <3>2. which \in {"delayed", "overflow", "suspended"} /\ which # "delayed" /\ which # "overflow"
          /\ which = "suspended"
      OBVIOUS
    <3> HIDE DEF which
    <3> QED
      BY <2>3, <2>4, <3>1, <3>2, OneListGrows
  <2>6. SameControl(kern, r) /\ SameWaiters(kern, r)
    BY <1>3, <2>3, SameAgain
  <2> QED
    BY <2>3, <2>4, <2>5, <2>6 DEF BecomesBlocked, r
<1>10. CASE ~(ticks = portMAX_DELAY /\ forever) /\ wake < kern.xTickCount
  <2> DEFINE list == vListInsert(kern.pxOverflowDelayedTaskList, times, t)
  <2>1. list \in Seq(Tasks) /\ IsInjective(list)
        /\ ToSet(list) = ToSet(kern.pxOverflowDelayedTaskList) \cup {t}
    BY <1>1, <1>5, ValueInserted
  <2>2. r = [removed EXCEPT !.xTimeToWake = times, !.pxOverflowDelayedTaskList = list]
    BY <1>3, <1>6, <1>7, <1>8, <1>10 DEF SameBlocked
  <2> HIDE DEF list
  <2>3. /\ r \in Kernel /\ SameReady(removed, r) /\ SameControl(removed, r) /\ SameWaiters(removed, r)
        /\ r.pxDelayedTaskList = removed.pxDelayedTaskList
        /\ r.pxOverflowDelayedTaskList = list
        /\ r.xSuspendedTaskList = removed.xSuspendedTaskList
    BY <1>1, <1>3, <2>1, <2>2 DEF Kernel, SameReady, SameControl, SameWaiters
  <2>4. ReadySound(r) /\ ReadyTasks(r) = ReadyTasks(kern) \ {t}
    BY <1>3, <2>3, SameMeansSame
  <2>5. PlacesSound(r)
    <3> DEFINE which == "overflow"
    <3>1. /\ ToSet(r.pxDelayedTaskList) = ToSet(kern.pxDelayedTaskList)
          /\ ToSet(r.pxOverflowDelayedTaskList) = ToSet(kern.pxOverflowDelayedTaskList) \cup {t}
          /\ Suspended(r) = Suspended(kern)
          /\ IsInjective(r.pxDelayedTaskList) /\ IsInjective(r.pxOverflowDelayedTaskList)
          /\ IsInjective(r.xSuspendedTaskList)
      BY <1>3, <1>5, <2>1, <2>3 DEF SameBlocked, Suspended
    <3>2. which \in {"delayed", "overflow", "suspended"} /\ which # "delayed" /\ which # "suspended"
          /\ which = "overflow"
      OBVIOUS
    <3> HIDE DEF which
    <3> QED
      BY <2>3, <2>4, <3>1, <3>2, OneListGrows
  <2>6. SameControl(kern, r) /\ SameWaiters(kern, r)
    BY <1>3, <2>3, SameAgain
  <2> QED
    BY <2>3, <2>4, <2>5, <2>6 DEF BecomesBlocked, r
<1>11. CASE ~(ticks = portMAX_DELAY /\ forever) /\ ~(wake < kern.xTickCount)
  <2> DEFINE list == vListInsert(kern.pxDelayedTaskList, times, t)
  <2>1. list \in Seq(Tasks) /\ IsInjective(list)
        /\ ToSet(list) = ToSet(kern.pxDelayedTaskList) \cup {t}
    BY <1>1, <1>5, ValueInserted
  <2>2. r = [removed EXCEPT !.xTimeToWake = times, !.pxDelayedTaskList = list,
                            !.xNextTaskUnblockTime = next]
    <3>1. timed.pxDelayedTaskList = kern.pxDelayedTaskList
          /\ timed.xNextTaskUnblockTime = kern.xNextTaskUnblockTime
      BY <1>3, <1>4, <1>7 DEF SameBlocked, Kernel
    <3>2. r = [timed EXCEPT !.pxDelayedTaskList = list, !.xNextTaskUnblockTime = next]
      BY <1>6, <1>8, <1>11, <3>1 DEF next
    <3> QED
      BY <1>7, <3>2
  <2> HIDE DEF list
  <2>3. /\ r \in Kernel /\ SameReady(removed, r) /\ SameControl(removed, r) /\ SameWaiters(removed, r)
        /\ r.pxDelayedTaskList = list
        /\ r.pxOverflowDelayedTaskList = removed.pxOverflowDelayedTaskList
        /\ r.xSuspendedTaskList = removed.xSuspendedTaskList
    BY <1>1, <1>2, <1>3, <2>1, <2>2 DEF Kernel, SameReady, SameControl, SameWaiters
  <2>4. ReadySound(r) /\ ReadyTasks(r) = ReadyTasks(kern) \ {t}
    BY <1>3, <2>3, SameMeansSame
  <2>5. PlacesSound(r)
    <3> DEFINE which == "delayed"
    <3>1. /\ ToSet(r.pxDelayedTaskList) = ToSet(kern.pxDelayedTaskList) \cup {t}
          /\ ToSet(r.pxOverflowDelayedTaskList) = ToSet(kern.pxOverflowDelayedTaskList)
          /\ Suspended(r) = Suspended(kern)
          /\ IsInjective(r.pxDelayedTaskList) /\ IsInjective(r.pxOverflowDelayedTaskList)
          /\ IsInjective(r.xSuspendedTaskList)
      BY <1>3, <1>5, <2>1, <2>3 DEF SameBlocked, Suspended
    <3>2. which \in {"delayed", "overflow", "suspended"} /\ which # "overflow" /\ which # "suspended"
          /\ which = "delayed"
      OBVIOUS
    <3> HIDE DEF which
    <3> QED
      BY <2>3, <2>4, <3>1, <3>2, OneListGrows
  <2>6. SameControl(kern, r) /\ SameWaiters(kern, r)
    BY <1>3, <2>3, SameAgain
  <2> QED
    BY <2>3, <2>4, <2>5, <2>6 DEF BecomesBlocked, r
<1> QED
  BY <1>9, <1>10, <1>11 DEF r

-----------------------------------------------------------------------------
(* The running task waits for the queue. *)

Waiters(kern) == ToSet(kern.xTasksWaitingToReceive)
Ordered(kern) == kern \in Kernel /\ InOneList(kern)

LEMMA OrderedIs ==
  ASSUME NEW kern
  PROVE  Ordered(kern) <=> kern \in Kernel /\ PlacesSound(kern) /\ WaitersBlocked(kern)
BY ListsAndWaiters DEF Ordered, PlacesSound

LEMMA CurrentWaits ==
  ASSUME NEW kern, Ordered(kern), kern.pxCurrentTCB \in ReadyTasks(kern), NEW ticks \in Nat
  PROVE  LET r == vTaskPlaceOnEventList(kern, ticks) IN
         /\ Ordered(r) /\ ReadyTasks(r) = ReadyTasks(kern) \ {kern.pxCurrentTCB}
         /\ SameControl(kern, r) /\ Waiters(r) = Waiters(kern) \cup {kern.pxCurrentTCB}
<1> DEFINE t == kern.pxCurrentTCB
           list == vListInsert(kern.xTasksWaitingToReceive, EventItemValue, t)
           m == [kern EXCEPT !.xTasksWaitingToReceive = list]
           r == vTaskPlaceOnEventList(kern, ticks)
<1>1. kern \in Kernel /\ PlacesSound(kern) /\ WaitersBlocked(kern) /\ t \in Tasks
  BY OrderedIs, KernelFields
<1>2. /\ kern.xTasksWaitingToReceive \in Seq(Tasks) /\ IsInjective(kern.xTasksWaitingToReceive)
      /\ t \notin ToSet(kern.xTasksWaitingToReceive)
      /\ Waiters(kern) \cap ReadyTasks(kern) = {}
  BY <1>1, KernelFields DEF WaitersBlocked, Waiters
<1>3. list \in Seq(Tasks) /\ IsInjective(list) /\ ToSet(list) = Waiters(kern) \cup {t}
  BY <1>1, <1>2, ValueInserted DEF Waiters
<1>4. r = prvAddCurrentTaskToDelayedList(m, ticks, TRUE)
  BY DEF vTaskPlaceOnEventList
<1> HIDE DEF list, r
<1>5. /\ m \in Kernel /\ SameReady(kern, m) /\ SameControl(kern, m) /\ SameBlocked(kern, m)
      /\ m.xTasksWaitingToReceive = list
  BY <1>1, <1>3 DEF Kernel, SameReady, SameControl, SameBlocked
<1> HIDE DEF m
<1>6. /\ ReadyTasks(m) = ReadyTasks(kern) /\ ReadySound(m) /\ BlockedSound(m)
      /\ Blocked(m) = Blocked(kern) /\ m.pxCurrentTCB = t
  BY <1>1, <1>5, SameMeansSame DEF PlacesSound, SameControl
<1>7. PlacesSound(m) /\ m.pxCurrentTCB \in ReadyTasks(m)
  BY <1>1, <1>6 DEF PlacesSound
<1>8. /\ r \in Kernel /\ PlacesSound(r) /\ ReadyTasks(r) = ReadyTasks(kern) \ {t}
      /\ SameControl(m, r) /\ SameWaiters(m, r)
  BY <1>4, <1>5, <1>6, <1>7, CurrentBlocks DEF BecomesBlocked
<1>9. SameControl(kern, r) /\ r.xTasksWaitingToReceive = list
  BY <1>5, <1>8, SameAgain DEF SameWaiters
<1>10. WaitersBlocked(r) /\ Waiters(r) = Waiters(kern) \cup {t}
  BY <1>2, <1>3, <1>8, <1>9 DEF WaitersBlocked, Waiters
<1>11. Ordered(r)
  BY <1>8, <1>10, OrderedIs
<1> QED
  BY <1>8, <1>9, <1>10, <1>11 DEF r

-----------------------------------------------------------------------------
(* A task wakes up. *)

Wakes(kern, t, r) ==
    /\ Ordered(r) /\ ReadyTasks(r) = ReadyTasks(kern) \cup {t}
    /\ SameControl(kern, r) /\ Waiters(r) = Waiters(kern) \ {t}
    /\ ToSet(r.pxDelayedTaskList) = ToSet(kern.pxDelayedTaskList) \ {t}

LEMMA TaskWakes ==
  ASSUME NEW kern, Ordered(kern), NEW t \in Tasks, t \notin ReadyTasks(kern),
         NEW m \in Kernel, SameReady(kern, m), SameControl(kern, m),
         IsInjective(m.pxDelayedTaskList), IsInjective(m.pxOverflowDelayedTaskList),
         IsInjective(m.xSuspendedTaskList), IsInjective(m.xTasksWaitingToReceive),
         ToSet(m.pxDelayedTaskList) = ToSet(kern.pxDelayedTaskList) \ {t},
         ToSet(m.pxOverflowDelayedTaskList) = ToSet(kern.pxOverflowDelayedTaskList) \ {t},
         Suspended(m) = Suspended(kern) \ {t},
         Waiters(m) = Waiters(kern) \ {t}
  PROVE  Wakes(kern, t, prvAddTaskToReadyList(m, t))
<1> DEFINE r == prvAddTaskToReadyList(m, t)
<1>1. kern \in Kernel /\ PlacesSound(kern) /\ WaitersBlocked(kern)
  BY OrderedIs
<1>2. ReadyTasks(m) = ReadyTasks(kern) /\ ReadySound(m)
  BY <1>1, SameMeansSame DEF PlacesSound
<1>3. BecomesReady(m, t, r)
  BY <1>2, MadeReady
<1> HIDE DEF r
<1>4. /\ r \in Kernel /\ ReadySound(r) /\ ReadyTasks(r) = ReadyTasks(kern) \cup {t}
      /\ SameControl(m, r) /\ SameBlocked(m, r) /\ SameWaiters(m, r)
  BY <1>2, <1>3 DEF BecomesReady
<1>5. SameControl(kern, r) /\ Waiters(r) = Waiters(kern) \ {t}
      /\ ToSet(r.pxDelayedTaskList) = ToSet(kern.pxDelayedTaskList) \ {t}
      /\ IsInjective(r.xTasksWaitingToReceive)
  BY <1>4, SameAgain DEF SameWaiters, SameBlocked, Waiters
<1>6. BlockedSound(m) /\ Blocked(m) = Blocked(kern) \ {t}
  BY <1>1 DEF PlacesSound, BlockedSound, Blocked, Sleepers, Suspended
<1>7. BlockedSound(r) /\ Blocked(r) = Blocked(kern) \ {t}
  BY <1>4, <1>6, SameMeansSame
<1>8. ReadyTasks(r) = Tasks \ Blocked(r)
  BY <1>1, <1>4, <1>7 DEF PlacesSound
<1>9. WaitersBlocked(r)
  BY <1>1, <1>4, <1>5 DEF WaitersBlocked, Waiters
<1>10. Ordered(r)
  BY <1>4, <1>7, <1>8, <1>9, OrderedIs DEF PlacesSound
<1> QED
  BY <1>4, <1>5, <1>10 DEF Wakes, r

LEMMA TaskTimesOut ==
  ASSUME NEW kern, Ordered(kern), NEW t \in ToSet(kern.pxDelayedTaskList)
  PROVE  Wakes(kern, t, TimeOutTask(kern, t))
<1> DEFINE delayed == RemoveFirst(kern.pxDelayedTaskList, t)
           waiters == RemoveFirst(kern.xTasksWaitingToReceive, t)
           times == [kern.xTimeToWake EXCEPT ![t] = 0]
           m == [kern EXCEPT !.pxDelayedTaskList = delayed, !.xTasksWaitingToReceive = waiters,
                             !.xTimeToWake = times]
<1>1. kern \in Kernel /\ PlacesSound(kern) /\ WaitersBlocked(kern)
  BY OrderedIs
<1>2. /\ kern.pxDelayedTaskList \in Seq(Tasks) /\ IsInjective(kern.pxDelayedTaskList)
      /\ kern.xTasksWaitingToReceive \in Seq(Tasks) /\ IsInjective(kern.xTasksWaitingToReceive)
      /\ IsInjective(kern.pxOverflowDelayedTaskList) /\ IsInjective(kern.xSuspendedTaskList)
  BY <1>1, KernelFields DEF PlacesSound, BlockedSound, WaitersBlocked
<1>3. /\ t \in Tasks /\ t \notin ReadyTasks(kern)
      /\ t \notin ToSet(kern.pxOverflowDelayedTaskList) /\ t \notin Suspended(kern)
  <2>1. t \in Tasks
    BY <1>2, ItemsOf
  <2> QED
    BY <1>1, <2>1 DEF PlacesSound, BlockedSound, Blocked, Sleepers, Suspended
<1>4. /\ delayed \in Seq(Tasks) /\ IsInjective(delayed)
      /\ ToSet(delayed) = ToSet(kern.pxDelayedTaskList) \ {t}
  BY <1>2, RemovedFirst
<1>5. /\ waiters \in Seq(Tasks) /\ IsInjective(waiters)
      /\ ToSet(waiters) = ToSet(kern.xTasksWaitingToReceive) \ {t}
  BY <1>2, RemovedFirst
<1>6. times \in [Tasks -> Ticks]
  BY <1>1, KernelFields, TicksAreNumbers
<1>7. TimeOutTask(kern, t) = prvAddTaskToReadyList(m, t)
  BY DEF TimeOutTask
<1> HIDE DEF delayed, waiters, times
<1>8. /\ m \in Kernel /\ SameReady(kern, m) /\ SameControl(kern, m)
      /\ m.pxDelayedTaskList = delayed /\ m.xTasksWaitingToReceive = waiters
      /\ m.pxOverflowDelayedTaskList = kern.pxOverflowDelayedTaskList
      /\ m.xSuspendedTaskList = kern.xSuspendedTaskList
  BY <1>1, <1>4, <1>5, <1>6 DEF Kernel, SameReady, SameControl
<1> HIDE DEF m
<1>9. /\ IsInjective(m.pxDelayedTaskList) /\ IsInjective(m.pxOverflowDelayedTaskList)
      /\ IsInjective(m.xSuspendedTaskList) /\ IsInjective(m.xTasksWaitingToReceive)
      /\ ToSet(m.pxDelayedTaskList) = ToSet(kern.pxDelayedTaskList) \ {t}
      /\ ToSet(m.pxOverflowDelayedTaskList) = ToSet(kern.pxOverflowDelayedTaskList) \ {t}
      /\ Suspended(m) = Suspended(kern) \ {t}
      /\ Waiters(m) = Waiters(kern) \ {t}
  BY <1>2, <1>3, <1>4, <1>5, <1>8 DEF Suspended, Waiters
<1>10. Wakes(kern, t, prvAddTaskToReadyList(m, t))
  <2>1. PICK u \in Tasks : u = t
    BY <1>3
  <2>2. Wakes(kern, u, prvAddTaskToReadyList(m, u))
    BY <1>3, <1>8, <1>9, <2>1, TaskWakes
  <2> QED
    BY <2>1, <2>2
<1> QED
  BY <1>7, <1>10

(* xTaskRemoveFromEventList, but for the yield. *)
ReceiverWoken(kern) ==
    LET t == Head(kern.xTasksWaitingToReceive) IN
    prvAddTaskToReadyList(
        [kern EXCEPT !.xTasksWaitingToReceive = Tail(@),
                     !.pxDelayedTaskList = RemoveFirst(@, t),
                     !.pxOverflowDelayedTaskList = RemoveFirst(@, t),
                     !.xSuspendedTaskList = RemoveFirst(@, t),
                     !.xTimeToWake[t] = 0], t)

LEMMA ReceiverWakes ==
  ASSUME NEW kern, Ordered(kern), kern.xTasksWaitingToReceive # <<>>
  PROVE  LET t == Head(kern.xTasksWaitingToReceive) IN
         t \in Waiters(kern) /\ t \in Tasks /\ Wakes(kern, t, ReceiverWoken(kern))
<1> DEFINE t == Head(kern.xTasksWaitingToReceive)
           waiters == Tail(kern.xTasksWaitingToReceive)
           delayed == RemoveFirst(kern.pxDelayedTaskList, t)
           overflow == RemoveFirst(kern.pxOverflowDelayedTaskList, t)
           suspended == RemoveFirst(kern.xSuspendedTaskList, t)
           times == [kern.xTimeToWake EXCEPT ![t] = 0]
           m == [kern EXCEPT !.xTasksWaitingToReceive = waiters, !.pxDelayedTaskList = delayed,
                             !.pxOverflowDelayedTaskList = overflow,
                             !.xSuspendedTaskList = suspended, !.xTimeToWake = times]
<1>1. kern \in Kernel /\ PlacesSound(kern) /\ WaitersBlocked(kern)
  BY OrderedIs
<1>2. /\ kern.pxDelayedTaskList \in Seq(Tasks) /\ IsInjective(kern.pxDelayedTaskList)
      /\ kern.pxOverflowDelayedTaskList \in Seq(Tasks) /\ IsInjective(kern.pxOverflowDelayedTaskList)
      /\ kern.xSuspendedTaskList \in Seq(Tasks) /\ IsInjective(kern.xSuspendedTaskList)
      /\ kern.xTasksWaitingToReceive \in Seq(Tasks) /\ IsInjective(kern.xTasksWaitingToReceive)
  BY <1>1, KernelFields DEF PlacesSound, BlockedSound, WaitersBlocked
<1>3. /\ t \in Waiters(kern) /\ waiters \in Seq(Tasks) /\ IsInjective(waiters)
      /\ ToSet(waiters) = Waiters(kern) \ {t}
  BY <1>2, TakenFirst DEF Waiters
<1>4. t \in Tasks /\ t \notin ReadyTasks(kern)
  <2>1. Waiters(kern) \subseteq Tasks
    BY <1>2, ItemsOf DEF Waiters
  <2> QED
    BY <1>1, <1>3, <2>1 DEF WaitersBlocked, Waiters
<1>5. times \in [Tasks -> Ticks]
  BY <1>1, KernelFields, TicksAreNumbers
<1>6. ReceiverWoken(kern) = prvAddTaskToReadyList(m, t)
  BY DEF ReceiverWoken
<1> HIDE DEF t, waiters
<1>7. /\ delayed \in Seq(Tasks) /\ IsInjective(delayed)
      /\ ToSet(delayed) = ToSet(kern.pxDelayedTaskList) \ {t}
      /\ overflow \in Seq(Tasks) /\ IsInjective(overflow)
      /\ ToSet(overflow) = ToSet(kern.pxOverflowDelayedTaskList) \ {t}
      /\ suspended \in Seq(Tasks) /\ IsInjective(suspended)
      /\ ToSet(suspended) = ToSet(kern.xSuspendedTaskList) \ {t}
  BY <1>2, RemovedFirst
<1> HIDE DEF delayed, overflow, suspended, times
<1>8. /\ m \in Kernel /\ SameReady(kern, m) /\ SameControl(kern, m)
      /\ m.pxDelayedTaskList = delayed /\ m.xTasksWaitingToReceive = waiters
      /\ m.pxOverflowDelayedTaskList = overflow /\ m.xSuspendedTaskList = suspended
  BY <1>1, <1>3, <1>5, <1>7 DEF Kernel, SameReady, SameControl
<1> HIDE DEF m
<1>9. /\ IsInjective(m.pxDelayedTaskList) /\ IsInjective(m.pxOverflowDelayedTaskList)
      /\ IsInjective(m.xSuspendedTaskList) /\ IsInjective(m.xTasksWaitingToReceive)
      /\ ToSet(m.pxDelayedTaskList) = ToSet(kern.pxDelayedTaskList) \ {t}
      /\ ToSet(m.pxOverflowDelayedTaskList) = ToSet(kern.pxOverflowDelayedTaskList) \ {t}
      /\ Suspended(m) = Suspended(kern) \ {t}
      /\ Waiters(m) = Waiters(kern) \ {t}
  BY <1>3, <1>7, <1>8 DEF Suspended, Waiters
<1>10. Wakes(kern, t, ReceiverWoken(kern))
  BY <1>4, <1>6, <1>8, <1>9, TaskWakes
<1> QED
  BY <1>3, <1>4, <1>10 DEF t

-----------------------------------------------------------------------------
(* The choice of the task that runs next. *)

Highest(kern) == \A t \in ReadyTasks(kern) : Priority[t] <= Priority[kern.pxCurrentTCB]
Selects(kern, r) ==
    /\ Ordered(r) /\ ReadyTasks(r) = ReadyTasks(kern)
    /\ SameBlocked(kern, r) /\ SameWaiters(kern, r)
    /\ r.pxCurrentTCB \in ReadyTasks(r) /\ Highest(r)
    /\ r.xYieldPending = kern.xYieldPending
    /\ r.uxSchedulerSuspended = kern.uxSchedulerSuspended

LEMMA HighestIsSelected ==
  ASSUME NEW kern, Ordered(kern), ReadyTasks(kern) # {}
  PROVE  Selects(kern, SelectHighestPriorityTask(kern))
<1> DEFINE Q == {q \in 0 .. kern.uxTopReadyPriority : ReadyList(kern, q) # <<>>}
           p == Max(Q)
           old == kern.pxReadyTasksLists[p]
           list == ListNextEntry(old)
           chosen == ListOwner(list)
           passed == [t \in Tasks |->
                         IF t = chosen \/ ~IsReady(kern, t) THEN 0
                         ELSE IF Priority[t] = p THEN kern.passed[t] + 1 ELSE kern.passed[t]]
           lists == [kern.pxReadyTasksLists EXCEPT ![p] = list]
           r == SelectHighestPriorityTask(kern)
<1>1. kern \in Kernel /\ PlacesSound(kern) /\ WaitersBlocked(kern) /\ ReadySound(kern)
  BY OrderedIs DEF PlacesSound
<1>2. /\ kern.uxTopReadyPriority \in 0 .. TopPriority /\ TopPriority \in Nat
      /\ 0 .. kern.uxTopReadyPriority \subseteq 0 .. TopPriority
      /\ kern.uxTopReadyPriority \in Nat
  BY <1>1, KernelFields, PriorityRange
<1>3. ASSUME NEW t \in ReadyTasks(kern)
      PROVE  Priority[t] \in Q
  <2>1. t \in Tasks /\ Priority[t] \in 0 .. TopPriority
    BY PriorityRange DEF ReadyTasks
  <2>2. ItemsAt(kern, Priority[t]) # {}
    BY <1>1, <2>1, ReadyIs
  <2>3. /\ kern.pxReadyTasksLists[Priority[t]].items # <<>>
        /\ Priority[t] <= kern.uxTopReadyPriority
    BY <1>1, <2>1, <2>2, OneReadyList
  <2> QED
    BY <1>2, <2>1, <2>3 DEF ReadyList
<1>4. p \in Q /\ \A q \in Q : q <= p
  <2>1. Q # {} /\ Q \in SUBSET (0 .. kern.uxTopReadyPriority)
    BY <1>3
  <2> HIDE DEF Q
  <2> QED
    BY <1>2, <2>1, TimeOutFold!MaxIsGreatest DEF Max, TimeOutFold!Max
<1>5. /\ p \in 0 .. TopPriority /\ p <= kern.uxTopReadyPriority
      /\ kern.pxReadyTasksLists[p].items # <<>>
  BY <1>2, <1>4 DEF ReadyList
<1>6. r = [kern EXCEPT !.pxReadyTasksLists = lists, !.uxTopReadyPriority = p,
                       !.pxCurrentTCB = chosen, !.passed = passed]
  BY DEF SelectHighestPriorityTask
<1>7. HeldBelow(kern, p)
  <2>1. ASSUME NEW q \in 0 .. TopPriority, kern.pxReadyTasksLists[q].items # <<>>
        PROVE  q <= p
    <3>1. q \in Q
      BY <1>1, <1>2, <2>1, OneReadyList DEF ReadyList
    <3> QED
      BY <1>4, <3>1
  <2> QED
    BY <2>1 DEF HeldBelow
<1> HIDE DEF Q, p
<1>8. /\ old \in ListsOf(Tasks) /\ ListSound(old) /\ old.items # <<>>
      /\ ToSet(old.items) = {t \in ReadyTasks(kern) : Priority[t] = p}
  BY <1>1, <1>5, OneReadyList DEF ItemsAt
<1>9. /\ list \in ListsOf(Tasks) /\ ListSound(list) /\ list.items = old.items
      /\ chosen \in ToSet(old.items)
  <2> HIDE DEF old
  <2> QED
    BY <1>8, NextEntry
<1>10. chosen \in Tasks /\ chosen \in ReadyTasks(kern) /\ Priority[chosen] = p
  BY <1>8, <1>9 DEF ReadyTasks
<1> HIDE DEF old, list, chosen
<1>11. passed \in [Tasks -> Nat]
  <2>1. kern.passed \in [Tasks -> Nat]
    BY <1>1, KernelFields
  <2> QED
    BY <2>1
<1>12. lists \in [0 .. TopPriority -> [items : Seq(Tasks), index : Nat]]
  BY <1>1, <1>5, <1>9, KernelFields DEF ListsOf
<1> HIDE DEF passed, lists, r
<1>13. /\ r \in Kernel /\ r.pxReadyTasksLists = lists /\ r.uxTopReadyPriority = p
       /\ r.pxCurrentTCB = chosen /\ SameBlocked(kern, r) /\ SameWaiters(kern, r)
       /\ r.xYieldPending = kern.xYieldPending
       /\ r.uxSchedulerSuspended = kern.uxSchedulerSuspended
  BY <1>1, <1>5, <1>6, <1>10, <1>11, <1>12 DEF Kernel, SameBlocked, SameWaiters
<1>14. /\ ReadySound(r)
       /\ ReadyTasks(r) = (ReadyTasks(kern) \ ItemsAt(kern, p)) \cup ToSet(list.items)
  <2>1. r.pxReadyTasksLists = [kern.pxReadyTasksLists EXCEPT ![p] = list]
    BY <1>13 DEF lists
  <2>2. HeldBelow(kern, r.uxTopReadyPriority) /\ p <= r.uxTopReadyPriority
    BY <1>2, <1>5, <1>7, <1>13
  <2>3. \A t \in ToSet(list.items) : Priority[t] = p
    BY <1>8, <1>9
  <2> QED
    BY <1>1, <1>5, <1>9, <1>13, <2>1, <2>2, <2>3, ReadyListReplaced
<1>15. ReadyTasks(r) = ReadyTasks(kern)
  <2>1. ItemsAt(kern, p) = ToSet(list.items)
    BY <1>9 DEF ItemsAt, old
  <2>2. ToSet(list.items) \subseteq ReadyTasks(kern)
    BY <1>8, <1>9
  <2> QED
    BY <1>14, <2>1, <2>2
<1>16. PlacesSound(r) /\ WaitersBlocked(r)
  BY <1>1, <1>13, <1>14, <1>15, SameMeansSame DEF PlacesSound, WaitersBlocked, SameWaiters
<1>17. Highest(r)
  BY <1>3, <1>4, <1>10, <1>13, <1>15 DEF Highest
<1>18. Ordered(r)
  BY <1>13, <1>16, OrderedIs
<1> QED
  BY <1>10, <1>13, <1>15, <1>17, <1>18 DEF Selects, r

Switches(kern, r) ==
    /\ Ordered(r) /\ ReadyTasks(r) = ReadyTasks(kern) /\ Waiters(r) = Waiters(kern)
    /\ r.pxCurrentTCB \in ReadyTasks(r) /\ Highest(r)
    /\ r.xYieldPending = FALSE /\ r.uxSchedulerSuspended = 0

LEMMA ContextSwitches ==
  ASSUME NEW kern, Ordered(kern), ReadyTasks(kern) # {}, kern.uxSchedulerSuspended = 0
  PROVE  Switches(kern, vTaskSwitchContext(kern))
<1> DEFINE m == [kern EXCEPT !.xYieldPending = FALSE]
           r == SelectHighestPriorityTask(m)
<1>1. kern \in Kernel /\ PlacesSound(kern) /\ WaitersBlocked(kern)
  BY OrderedIs
<1>2. /\ m \in Kernel /\ SameReady(kern, m) /\ SameBlocked(kern, m) /\ SameWaiters(kern, m)
      /\ m.xYieldPending = FALSE /\ m.uxSchedulerSuspended = 0
  BY <1>1 DEF Kernel, SameReady, SameBlocked, SameWaiters
<1>3. vTaskSwitchContext(kern) = r
  BY DEF vTaskSwitchContext
<1> HIDE DEF m
<1>4. /\ ReadyTasks(m) = ReadyTasks(kern) /\ PlacesSound(m) /\ WaitersBlocked(m)
  BY <1>1, <1>2, SameMeansSame DEF PlacesSound, WaitersBlocked, SameWaiters
<1>5. Selects(m, r)
  BY <1>2, <1>4, OrderedIs, HighestIsSelected
<1> HIDE DEF r
<1>6. Switches(kern, r)
  BY <1>2, <1>4, <1>5 DEF Selects, Switches, SameWaiters, Waiters
<1> QED
  BY <1>3, <1>6

-----------------------------------------------------------------------------
(* The tick. *)

LEMMA KernelFolds ==
  /\ \A base, seq : TimeOutFold!FoldLeft(TimeOutTask, base, seq) = FoldLeft(TimeOutTask, base, seq)
  /\ \A base, seq : UnwindFold!FoldLeft(UnwindTick, base, seq) = FoldLeft(UnwindTick, base, seq)
  /\ \A base, seq : CreateFold!FoldLeft(prvAddNewTaskToReadyList, base, seq)
                        = FoldLeft(prvAddNewTaskToReadyList, base, seq)
<1>1. \A base, seq : TimeOutFold!FoldLeft(TimeOutTask, base, seq) = FoldLeft(TimeOutTask, base, seq)
  BY DEF TimeOutFold!FoldLeft, TimeOutFold!MapThenFoldSet, TimeOutFold!Max,
         FoldLeft, MapThenFoldSet, Max
<1>2. \A base, seq : UnwindFold!FoldLeft(UnwindTick, base, seq) = FoldLeft(UnwindTick, base, seq)
  BY DEF UnwindFold!FoldLeft, UnwindFold!MapThenFoldSet, UnwindFold!Max,
         FoldLeft, MapThenFoldSet, Max
<1>3. \A base, seq : CreateFold!FoldLeft(prvAddNewTaskToReadyList, base, seq)
                         = FoldLeft(prvAddNewTaskToReadyList, base, seq)
  BY DEF CreateFold!FoldLeft, CreateFold!MapThenFoldSet, CreateFold!Max,
         FoldLeft, MapThenFoldSet, Max
<1> QED
  BY <1>1, <1>2, <1>3

NothingMoves(kern, r) ==
    Ordered(r) /\ ReadyTasks(r) = ReadyTasks(kern) /\ Waiters(r) = Waiters(kern)

LEMMA SameLists ==
  ASSUME NEW kern, Ordered(kern), NEW r \in Kernel,
         SameReady(kern, r), SameBlocked(kern, r), SameWaiters(kern, r)
  PROVE  NothingMoves(kern, r)
<1>1. kern \in Kernel /\ PlacesSound(kern) /\ WaitersBlocked(kern)
  BY OrderedIs
<1>2. ReadyTasks(r) = ReadyTasks(kern) /\ PlacesSound(r) /\ WaitersBlocked(r)
      /\ Waiters(r) = Waiters(kern)
  BY <1>1, SameMeansSame DEF PlacesSound, WaitersBlocked, SameWaiters, Waiters
<1> QED
  BY <1>2, OrderedIs DEF NothingMoves

LEMMA UnblockTimeReset ==
  ASSUME NEW kern, Ordered(kern)
  PROVE  LET r == prvResetNextTaskUnblockTime(kern) IN
         /\ NothingMoves(kern, r) /\ SameControl(kern, r)
         /\ r.pxDelayedTaskList = kern.pxDelayedTaskList
<1> DEFINE time == HeadWakeTime(kern)
           r == prvResetNextTaskUnblockTime(kern)
<1>1. kern \in Kernel
  BY DEF Ordered
<1>2. time \in Ticks
  <2>1. kern.pxDelayedTaskList \in Seq(Tasks) /\ kern.xTimeToWake \in [Tasks -> Ticks]
    BY <1>1, KernelFields
  <2>2. kern.pxDelayedTaskList # <<>> => Head(kern.pxDelayedTaskList) \in Tasks
    BY <2>1, HeadTailProperties
  <2> QED
    BY <2>1, <2>2, TicksAreNumbers DEF HeadWakeTime
<1>3. r = [kern EXCEPT !.xNextTaskUnblockTime = time]
  BY DEF prvResetNextTaskUnblockTime
<1> HIDE DEF time, r
<1>4. /\ r \in Kernel /\ SameReady(kern, r) /\ SameControl(kern, r) /\ SameBlocked(kern, r)
      /\ SameWaiters(kern, r)
  BY <1>1, <1>2, <1>3 DEF Kernel, SameReady, SameControl, SameBlocked, SameWaiters
<1>5. NothingMoves(kern, r)
  BY <1>4, SameLists
<1> QED
  BY <1>4, <1>5 DEF r, SameBlocked

LEMMA DelayedListsSwitch ==
  ASSUME NEW kern, Ordered(kern)
  PROVE  LET r == SwitchDelayedLists(kern) IN NothingMoves(kern, r) /\ SameControl(kern, r)
<1> DEFINE overflows == kern.xNumOfOverflows + 1
           m == [kern EXCEPT !.pxDelayedTaskList = kern.pxOverflowDelayedTaskList,
                             !.pxOverflowDelayedTaskList = kern.pxDelayedTaskList,
                             !.xNumOfOverflows = overflows]
           r == SwitchDelayedLists(kern)
<1>1. kern \in Kernel /\ PlacesSound(kern) /\ WaitersBlocked(kern)
  BY OrderedIs
<1>2. overflows \in Nat
  BY <1>1, KernelFields
<1>3. r = prvResetNextTaskUnblockTime(m)
  BY DEF SwitchDelayedLists
<1> HIDE DEF overflows, r
<1>4. /\ m \in Kernel /\ SameReady(kern, m) /\ SameControl(kern, m) /\ SameWaiters(kern, m)
      /\ m.pxDelayedTaskList = kern.pxOverflowDelayedTaskList
      /\ m.pxOverflowDelayedTaskList = kern.pxDelayedTaskList
      /\ m.xSuspendedTaskList = kern.xSuspendedTaskList
  BY <1>1, <1>2 DEF Kernel, SameReady, SameControl, SameWaiters
<1> HIDE DEF m
<1>5. /\ ReadyTasks(m) = ReadyTasks(kern) /\ ReadySound(m)
      /\ BlockedSound(m) /\ Blocked(m) = Blocked(kern)
      /\ WaitersBlocked(m) /\ Waiters(m) = Waiters(kern)
  <2>1. ReadyTasks(m) = ReadyTasks(kern) /\ ReadySound(m)
    BY <1>1, <1>4, SameMeansSame DEF PlacesSound
  <2>2. Sleepers(m) = Sleepers(kern) /\ Suspended(m) = Suspended(kern)
    BY <1>4 DEF Sleepers, Suspended
  <2>3. BlockedSound(m) /\ Blocked(m) = Blocked(kern)
    BY <1>1, <1>4, <2>2 DEF PlacesSound, BlockedSound, Blocked
  <2> QED
    BY <1>1, <1>4, <2>1, <2>3 DEF WaitersBlocked, Waiters, SameWaiters
<1>6. Ordered(m)
  BY <1>1, <1>4, <1>5, OrderedIs DEF PlacesSound
<1>7. NothingMoves(m, r) /\ SameControl(m, r)
  BY <1>3, <1>6, UnblockTimeReset
<1> QED
  BY <1>4, <1>5, <1>7, SameAgain DEF NothingMoves, r

-----------------------------------------------------------------------------
(* Everyone at the head of the delayed list whose time has come wakes up. *)

MoreReady(kern, r) ==
    /\ Ordered(r) /\ SameControl(kern, r)
    /\ ReadyTasks(kern) \subseteq ReadyTasks(r) /\ Waiters(r) \subseteq Waiters(kern)

LEMMA AllTimeOut ==
  ASSUME NEW kern, Ordered(kern), NEW expired \in Seq(Tasks), IsInjective(expired),
         ToSet(expired) \subseteq ToSet(kern.pxDelayedTaskList)
  PROVE  LET r == FoldLeft(TimeOutTask, kern, expired) IN
         MoreReady(kern, r) /\ ReadyTasks(r) = ReadyTasks(kern) \cup ToSet(expired)
<1> DEFINE n == Len(expired)
           woken(m) == {expired[j] : j \in 1 .. m}
           Reached(m, r) ==
               /\ Ordered(r) /\ ReadyTasks(r) = ReadyTasks(kern) \cup woken(m)
               /\ SameControl(kern, r) /\ Waiters(r) \subseteq Waiters(kern)
               /\ ToSet(r.pxDelayedTaskList) = ToSet(kern.pxDelayedTaskList) \ woken(m)
           V == [m \in 0 .. n |-> {r \in Kernel : Reached(m, r)}]
<1>1. /\ n \in Nat /\ DOMAIN expired = 1 .. n /\ ToSet(expired) = woken(n)
      /\ \A j \in 1 .. n : expired[j] \in ToSet(kern.pxDelayedTaskList) /\ expired[j] \in Tasks
      /\ \A i, j \in 1 .. n : expired[i] = expired[j] => i = j
  <2>1. n \in Nat /\ DOMAIN expired = 1 .. n /\ ToSet(expired) = woken(n)
    BY ItemsOf
  <2>2. \A j \in 1 .. n : expired[j] \in ToSet(expired) /\ expired[j] \in Tasks
    BY <2>1
  <2>3. \A i, j \in 1 .. n : expired[i] = expired[j] => i = j
    BY <2>1 DEF IsInjective
  <2> HIDE DEF n, woken, V, Reached
  <2> QED
    BY <2>1, <2>2, <2>3
<1>2. kern \in V[0]
  <2>1. woken(0) = {}
    OBVIOUS
  <2>2. Reached(0, kern)
    <3> HIDE DEF woken
    <3> QED
      BY <2>1 DEF SameControl
  <2>3. kern \in Kernel /\ 0 \in 0 .. n
    BY <1>1 DEF Ordered
  <2> HIDE DEF Reached, n
  <2> QED
    BY <2>2, <2>3
<1>3. ASSUME NEW m \in 1 .. n, NEW v \in V[m - 1]
      PROVE  TimeOutTask(v, expired[m]) \in V[m]
  <2> DEFINE t == expired[m]
             r == TimeOutTask(v, t)
  <2>1. m - 1 \in 0 .. n /\ m \in 0 .. n
    BY <1>1
  <2>2. Reached(m - 1, v)
    <3> HIDE DEF Reached, n
    <3> QED
      BY <2>1
  <2>3. t \in ToSet(kern.pxDelayedTaskList) /\ t \notin woken(m - 1)
    BY <1>1
  <2>4. woken(m) = woken(m - 1) \cup {t}
    <3>1. 1 .. m = (1 .. (m - 1)) \cup {m}
      BY <1>1
    <3> QED
      BY <3>1
  <2> HIDE DEF t, r, woken, V, n
  <2>5. t \in ToSet(v.pxDelayedTaskList) /\ Ordered(v)
    BY <2>2, <2>3
  <2>6. Wakes(v, t, r)
    BY <2>5, TaskTimesOut DEF r
  <2>7. Reached(m, r) /\ r \in Kernel
    BY <2>2, <2>4, <2>6, SameAgain DEF Wakes, Ordered
  <2> HIDE DEF Reached
  <2> QED
    BY <2>1, <2>7 DEF V, r, t
<1> HIDE DEF V, Reached, woken
<1>4. FoldLeft(TimeOutTask, kern, expired) \in V[n]
  <2>1. TimeOutFold!FoldLeft(TimeOutTask, kern, expired) \in V[n]
    BY <1>1, <1>2, <1>3, TimeOutFold!FoldLeftReaches
  <2> QED
    BY <2>1, KernelFolds
<1>5. Reached(n, FoldLeft(TimeOutTask, kern, expired))
  BY <1>1, <1>4 DEF V
<1> QED
  BY <1>1, <1>5 DEF Reached, MoreReady

LEMMA FrontOfList ==
  ASSUME NEW E, NEW s \in Seq(E), IsInjective(s), NEW n \in 0 .. Len(s)
  PROVE  /\ SubSeq(s, 1, n) \in Seq(E) /\ IsInjective(SubSeq(s, 1, n))
         /\ ToSet(SubSeq(s, 1, n)) \subseteq ToSet(s)
<1> DEFINE f == SubSeq(s, 1, n)
<1>1. Len(s) \in Nat /\ n \in Nat /\ n <= Len(s) /\ 1 .. n \subseteq 1 .. Len(s)
  OBVIOUS
<1>2. f \in Seq(E) /\ Len(f) = n /\ \A j \in 1 .. n : f[j] = s[j]
  <2>1. \A j \in 1 .. n : s[j] \in E
    BY <1>1
  <2> QED
    BY <1>1, <2>1, SubSeqProperties
<1> HIDE DEF f
<1>3. DOMAIN f = 1 .. n /\ ToSet(f) = {f[j] : j \in 1 .. n}
  BY <1>2, ItemsOf
<1>4. ToSet(s) = {s[j] : j \in 1 .. Len(s)} /\ DOMAIN s = 1 .. Len(s)
  BY ItemsOf
<1>5. IsInjective(f)
  BY <1>1, <1>2, <1>3, <1>4 DEF IsInjective
<1>6. ToSet(f) \subseteq ToSet(s)
  BY <1>1, <1>2, <1>3, <1>4
<1> QED
  BY <1>2, <1>5, <1>6 DEF f

(* A tick with the scheduler running. *)
LEMMA TickWakes ==
  ASSUME NEW kern, Ordered(kern)
  PROVE  LET tick == OneTick(kern) IN
         /\ tick.xSwitchRequired \in BOOLEAN /\ MoreReady(kern, tick.kernel)
         /\ Highest(kern) /\ ~tick.xSwitchRequired => Highest(tick.kernel)
<1> DEFINE now == (kern.xTickCount + 1) % TickModulus
           counted == [kern EXCEPT !.xTickCount = now]
           switched == IF now = 0 THEN SwitchDelayedLists(counted) ELSE counted
           list == switched.pxDelayedTaskList
           I == {i \in 0 .. Len(list) : \A j \in 1 .. i : switched.xTimeToWake[list[j]] <= now}
           n == Max(I)
           due == now >= switched.xNextTaskUnblockTime
           expired == IF due THEN SubSeq(list, 1, n) ELSE <<>>
           woken == FoldLeft(TimeOutTask, switched, expired)
           r == IF due THEN prvResetNextTaskUnblockTime(woken) ELSE woken
           tick == OneTick(kern)
<1>1. now \in Ticks
  <2>1. kern.xTickCount \in Nat
    BY KernelFields, TicksAreNumbers DEF Ordered
  <2>2. kern.xTickCount + 1 \in Nat
    BY <2>1
  <2> QED
    BY <2>2, TicksAreNumbers
<1>2. /\ tick.kernel = r
      /\ tick.xSwitchRequired \in BOOLEAN
      /\ ~tick.xSwitchRequired => \A t \in ToSet(expired) : ~(Priority[t] > Priority[kern.pxCurrentTCB])
  BY DEF OneTick
<1> HIDE DEF now, tick
<1>3. NothingMoves(kern, counted) /\ SameControl(kern, counted)
  <2>1. /\ counted \in Kernel /\ SameReady(kern, counted) /\ SameControl(kern, counted)
        /\ SameBlocked(kern, counted) /\ SameWaiters(kern, counted)
    BY <1>1 DEF Ordered, Kernel, SameReady, SameControl, SameBlocked, SameWaiters
  <2> HIDE DEF counted
  <2> QED
    BY <2>1, SameLists
<1> HIDE DEF counted
<1>4. NothingMoves(kern, switched) /\ SameControl(kern, switched)
  <2>1. CASE now = 0
    <3>1. Ordered(counted)
      BY <1>3 DEF NothingMoves
    <3>2. NothingMoves(counted, switched) /\ SameControl(counted, switched)
      BY <2>1, <3>1, DelayedListsSwitch
    <3> HIDE DEF switched
    <3> QED
      BY <1>3, <3>2, SameAgain DEF NothingMoves
  <2>2. CASE now # 0
    BY <1>3, <2>2
  <2> QED
    BY <2>1, <2>2
<1> HIDE DEF switched
<1>5. list \in Seq(Tasks) /\ IsInjective(list) /\ Ordered(switched)
  <2>1. switched \in Kernel /\ BlockedSound(switched)
    BY <1>4, OrderedIs DEF NothingMoves, PlacesSound
  <2> QED
    BY <1>4, <2>1, KernelFields DEF BlockedSound, NothingMoves
<1> HIDE DEF list
<1>6. n \in 0 .. Len(list)
  <2>1. Len(list) \in Nat
    BY <1>5
  <2>2. I # {} /\ I \in SUBSET (0 .. Len(list))
    <3>1. 0 \in 0 .. Len(list) /\ \A j \in 1 .. 0 : switched.xTimeToWake[list[j]] <= now
      BY <2>1
    <3> QED
      BY <3>1
  <2>3. n \in I
    <3> HIDE DEF I
    <3> QED
      BY <2>1, <2>2, TimeOutFold!MaxIsGreatest DEF Max, TimeOutFold!Max
  <2> QED
    BY <2>3
<1> HIDE DEF n, due
<1>7. expired \in Seq(Tasks) /\ IsInjective(expired) /\ ToSet(expired) \subseteq ToSet(list)
  <2>1. CASE due
    BY <1>5, <1>6, <2>1, FrontOfList
  <2>2. CASE ~due
    BY <2>2 DEF IsInjective, ToSet
  <2> QED
    BY <2>1, <2>2
<1> HIDE DEF expired
<1>8. MoreReady(switched, woken) /\ ReadyTasks(woken) = ReadyTasks(switched) \cup ToSet(expired)
  BY <1>5, <1>7, AllTimeOut DEF list
<1> HIDE DEF woken
<1>9. NothingMoves(woken, r) /\ SameControl(woken, r)
  <2>1. CASE due
    BY <1>8, <2>1, UnblockTimeReset DEF MoreReady
  <2>2. CASE ~due
    BY <1>8, <2>2 DEF MoreReady, NothingMoves, SameControl
  <2> QED
    BY <2>1, <2>2
<1> HIDE DEF r
<1>10. MoreReady(kern, r) /\ ReadyTasks(r) = ReadyTasks(kern) \cup ToSet(expired)
  BY <1>4, <1>8, <1>9, SameAgain DEF MoreReady, NothingMoves
<1>11. Highest(kern) /\ ~tick.xSwitchRequired => Highest(r)
  <2> SUFFICES ASSUME Highest(kern), ~tick.xSwitchRequired, NEW t \in ReadyTasks(r)
               PROVE  Priority[t] <= Priority[kern.pxCurrentTCB]
    BY <1>10 DEF Highest, MoreReady, SameControl
  <2>1. CASE t \in ReadyTasks(kern)
    BY <2>1 DEF Highest
  <2>2. CASE t \in ToSet(expired)
    <3>1. /\ t \in Tasks /\ kern.pxCurrentTCB \in Tasks
          /\ ~(Priority[t] > Priority[kern.pxCurrentTCB])
      <4>1. kern.pxCurrentTCB \in Tasks
        BY KernelFields DEF Ordered
      <4>2. t \in Tasks
        BY <1>7, <2>2, ItemsOf
      <4> QED
        BY <1>2, <2>2, <4>1, <4>2
    <3>2. Priority[t] \in Nat /\ Priority[kern.pxCurrentTCB] \in Nat
      BY <3>1, KernelAssumption
    <3> QED
      BY <3>1, <3>2
  <2> QED
    BY <1>10, <2>1, <2>2
<1> QED
  BY <1>2, <1>10, <1>11 DEF tick

-----------------------------------------------------------------------------
(* The scheduler is resumed. *)

Resumes(kern, r) ==
    /\ Ordered(r) /\ r.pxCurrentTCB = kern.pxCurrentTCB /\ r.uxSchedulerSuspended = 0
    /\ ReadyTasks(kern) \subseteq ReadyTasks(r) /\ Waiters(r) \subseteq Waiters(kern)
    /\ Highest(kern) => r.xYieldPending \/ Highest(r)

LEMMA PendedTickCounts ==
  ASSUME NEW kern, NEW v, Resumes(kern, v), NEW i
  PROVE  Resumes(kern, UnwindTick(v, i))
<1> DEFINE tick == OneTick(v)
           pending == tick.kernel.xYieldPending \/ tick.xSwitchRequired
           r == UnwindTick(v, i)
<1>1. Ordered(v) /\ v.uxSchedulerSuspended = 0
  BY DEF Resumes
<1>2. /\ tick.xSwitchRequired \in BOOLEAN /\ MoreReady(v, tick.kernel)
      /\ Highest(v) /\ ~tick.xSwitchRequired => Highest(tick.kernel)
  BY <1>1, TickWakes
<1>3. r = [tick.kernel EXCEPT !.xYieldPending = pending]
  BY <1>1 DEF UnwindTick, xTaskIncrementTick
<1>4. /\ Ordered(tick.kernel) /\ tick.kernel \in Kernel /\ SameControl(v, tick.kernel)
      /\ ReadyTasks(v) \subseteq ReadyTasks(tick.kernel)
      /\ Waiters(tick.kernel) \subseteq Waiters(v)
  BY <1>2 DEF MoreReady, Ordered
<1>5. tick.kernel.xYieldPending \in BOOLEAN /\ tick.kernel.xYieldPending = v.xYieldPending
  BY <1>4, KernelFields DEF SameControl
<1>6. pending \in BOOLEAN /\ (pending <=> v.xYieldPending \/ tick.xSwitchRequired)
  BY <1>2, <1>5
<1> HIDE DEF tick, r, pending
<1>7. /\ r \in Kernel /\ SameReady(tick.kernel, r) /\ SameBlocked(tick.kernel, r)
      /\ SameWaiters(tick.kernel, r)
      /\ r.pxCurrentTCB = tick.kernel.pxCurrentTCB
      /\ r.uxSchedulerSuspended = tick.kernel.uxSchedulerSuspended
      /\ r.xYieldPending = pending
  BY <1>3, <1>4, <1>6 DEF Kernel, SameReady, SameBlocked, SameWaiters
<1>8. NothingMoves(tick.kernel, r)
  BY <1>4, <1>7, SameLists
<1>9. /\ r.pxCurrentTCB = v.pxCurrentTCB /\ r.uxSchedulerSuspended = 0
  BY <1>1, <1>4, <1>7 DEF SameControl
<1>10. Highest(tick.kernel) => Highest(r)
  BY <1>7, <1>8 DEF Highest, NothingMoves
<1>11. Highest(kern) => r.xYieldPending \/ Highest(r)
  BY <1>2, <1>6, <1>7, <1>10 DEF Resumes
<1>12. /\ Ordered(r) /\ r.pxCurrentTCB = kern.pxCurrentTCB
       /\ ReadyTasks(kern) \subseteq ReadyTasks(r) /\ Waiters(r) \subseteq Waiters(kern)
  BY <1>4, <1>8, <1>9 DEF Resumes, NothingMoves
<1> QED
  BY <1>9, <1>11, <1>12 DEF Resumes, r

LEMMA SchedulerResumes ==
  ASSUME NEW kern, Ordered(kern), kern.uxSchedulerSuspended = 1
  PROVE  Resumes(kern, xTaskResumeAll(kern))
<1> DEFINE open == [kern EXCEPT !.uxSchedulerSuspended = kern.uxSchedulerSuspended - 1]
           n == kern.xPendedTicks
           seq == [i \in 1 .. n |-> i]
           V == {v \in Kernel : Resumes(kern, v)}
           caught == FoldLeft(UnwindTick, open, seq)
           r == xTaskResumeAll(kern)
<1>1. kern \in Kernel /\ n \in Nat /\ DOMAIN seq = 1 .. n
  BY KernelFields DEF Ordered
<1>2. r = [caught EXCEPT !.xPendedTicks = 0]
  BY DEF xTaskResumeAll
<1> HIDE DEF r, caught, n
<1>3. open \in V
  <2>1. open = [kern EXCEPT !.uxSchedulerSuspended = 0]
    OBVIOUS
  <2> HIDE DEF open
  <2>2. /\ open \in Kernel /\ SameReady(kern, open) /\ SameBlocked(kern, open)
        /\ SameWaiters(kern, open) /\ open.pxCurrentTCB = kern.pxCurrentTCB
        /\ open.uxSchedulerSuspended = 0
    BY <1>1, <2>1 DEF Kernel, SameReady, SameBlocked, SameWaiters
  <2>3. NothingMoves(kern, open)
    BY <2>2, SameLists
  <2>4. Highest(kern) => Highest(open)
    BY <2>2, <2>3 DEF Highest, NothingMoves
  <2>5. Resumes(kern, open)
    BY <2>2, <2>3, <2>4 DEF Resumes, NothingMoves
  <2> QED
    BY <2>2, <2>5
<1>4. \A v \in V, m \in 1 .. n : UnwindTick(v, seq[m]) \in V
  BY PendedTickCounts DEF Resumes, Ordered
<1> HIDE DEF V, open, seq
<1>5. caught \in V
  <2>1. UnwindFold!FoldLeft(UnwindTick, open, seq) \in V
    BY <1>1, <1>3, <1>4, UnwindFold!FoldLeftStays
  <2> QED
    BY <2>1, KernelFolds DEF caught
<1>6. caught \in Kernel /\ Resumes(kern, caught)
  BY <1>5 DEF V
<1>7. /\ r \in Kernel /\ SameReady(caught, r) /\ SameBlocked(caught, r)
      /\ SameWaiters(caught, r) /\ SameControl(caught, r)
  BY <1>2, <1>6 DEF Kernel, SameReady, SameBlocked, SameWaiters, SameControl
<1>8. NothingMoves(caught, r)
  BY <1>6, <1>7, SameLists DEF Resumes
<1>9. Highest(caught) => Highest(r)
  BY <1>7, <1>8 DEF Highest, NothingMoves, SameControl
<1>10. Resumes(kern, r)
  BY <1>6, <1>7, <1>8, <1>9 DEF Resumes, NothingMoves, SameControl
<1> QED
  BY <1>10 DEF r

-----------------------------------------------------------------------------
(* A send wakes a receiver, and yields to it if it is of higher priority. *)

SendsTo(kern, t, r) ==
    /\ Ordered(r) /\ ReadyTasks(r) = ReadyTasks(kern) \cup {t}
    /\ Waiters(r) = Waiters(kern) \ {t}
    /\ r.pxCurrentTCB \in ReadyTasks(r) /\ Highest(r)
    /\ r.xYieldPending = FALSE /\ r.uxSchedulerSuspended = 0

LEMMA ReceiverRuns ==
  ASSUME NEW kern, Ordered(kern), kern.xTasksWaitingToReceive # <<>>,
         kern.pxCurrentTCB \in ReadyTasks(kern), Highest(kern),
         kern.xYieldPending = FALSE, kern.uxSchedulerSuspended = 0
  PROVE  LET t == Head(kern.xTasksWaitingToReceive) IN
         t \in Waiters(kern) /\ SendsTo(kern, t, xTaskRemoveFromEventList(kern))
<1> DEFINE t == Head(kern.xTasksWaitingToReceive)
           ready == ReceiverWoken(kern)
           r == xTaskRemoveFromEventList(kern)
<1>1. t \in Waiters(kern) /\ t \in Tasks /\ Wakes(kern, t, ready)
  BY ReceiverWakes
<1>2. r = IF Priority[t] > Priority[kern.pxCurrentTCB] THEN vTaskSwitchContext(ready) ELSE ready
  BY DEF xTaskRemoveFromEventList, ReceiverWoken
<1> HIDE DEF t, ready, r
<1>3. /\ Ordered(ready) /\ ReadyTasks(ready) = ReadyTasks(kern) \cup {t}
      /\ Waiters(ready) = Waiters(kern) \ {t} /\ ready.pxCurrentTCB = kern.pxCurrentTCB
      /\ ready.xYieldPending = FALSE /\ ready.uxSchedulerSuspended = 0
  BY <1>1 DEF Wakes, SameControl
<1>4. CASE Priority[t] > Priority[kern.pxCurrentTCB]
  <2>1. Switches(ready, r)
    BY <1>2, <1>3, <1>4, ContextSwitches
  <2>2. SendsTo(kern, t, r)
    BY <1>3, <2>1 DEF Switches, SendsTo
  <2> QED
    BY <1>1, <2>2 DEF t, r
<1>5. CASE ~(Priority[t] > Priority[kern.pxCurrentTCB])
  <2>1. Priority[t] \in Nat /\ Priority[kern.pxCurrentTCB] \in Nat
    <3>1. kern.pxCurrentTCB \in Tasks
      BY KernelFields DEF Ordered
    <3> QED
      BY <1>1, <3>1, KernelAssumption
  <2>2. Priority[t] <= Priority[kern.pxCurrentTCB]
    BY <1>5, <2>1
  <2>3. Highest(ready)
    BY <1>3, <2>2 DEF Highest
  <2>4. SendsTo(kern, t, r)
    BY <1>2, <1>3, <1>5, <2>3 DEF SendsTo
  <2> QED
    BY <1>1, <2>4 DEF t, r
<1> QED
  BY <1>4, <1>5

-----------------------------------------------------------------------------
(* The kernel at the start: all tasks are ready. *)

NothingCounted(r) ==
    /\ r.xTickCount = 0 /\ r.xNumOfOverflows = 0 /\ r.xPendedTicks = 0
    /\ r.due = [t \in Tasks |-> 0] /\ r.passed = [t \in Tasks |-> 0]
Starts(r) ==
    /\ Ordered(r) /\ ReadyTasks(r) = Tasks /\ Highest(r) /\ NothingCounted(r)
    /\ Waiters(r) = {} /\ r.xYieldPending = FALSE /\ r.uxSchedulerSuspended = 0

LEMMA NobodyAtFirst ==
  LET r == prvInitialiseTaskLists IN
  /\ r \in Kernel /\ ReadySound(r) /\ ReadyTasks(r) = {} /\ NothingCounted(r)
  /\ r.pxDelayedTaskList = <<>> /\ r.pxOverflowDelayedTaskList = <<>>
  /\ r.xSuspendedTaskList = <<>> /\ r.xTasksWaitingToReceive = <<>>
  /\ r.xYieldPending = FALSE /\ r.uxSchedulerSuspended = 0
<1> DEFINE r == prvInitialiseTaskLists
           lists == [p \in 0 .. TopPriority |-> vListInitialise]
           first == Head(CreationOrder)
           zeros == [t \in Tasks |-> 0]
<1>1. first \in Tasks
  <2>1. CreationOrder \in Seq(Tasks) /\ Tasks # {}
    BY KernelAssumption
  <2>2. CreationOrder # <<>>
    BY <2>1, ItemsOf DEF Tasks
  <2> QED
    BY <2>1, <2>2, HeadTailProperties
<1>2. lists \in [0 .. TopPriority -> [items : Seq(Tasks), index : Nat]]
  <2>1. <<>> \in Seq(Tasks)
    OBVIOUS
  <2>2. vListInitialise \in [items : Seq(Tasks), index : Nat]
    BY <2>1 DEF vListInitialise
  <2> QED
    BY <2>2
<1>3. zeros \in [Tasks -> Ticks] /\ zeros \in [Tasks -> 0 .. Forever] /\ zeros \in [Tasks -> Nat]
  BY TicksAreNumbers DEF Forever
<1>4. r = [pxCurrentTCB |-> first,
           pxReadyTasksLists |-> lists,
           uxTopReadyPriority |-> 0,
           xTickCount |-> 0, xNumOfOverflows |-> 0,
           pxDelayedTaskList |-> <<>>, pxOverflowDelayedTaskList |-> <<>>,
           xSuspendedTaskList |-> <<>>, xTasksWaitingToReceive |-> <<>>,
           xNextTaskUnblockTime |-> portMAX_DELAY,
           xTimeToWake |-> zeros,
           xPendedTicks |-> 0, xYieldPending |-> FALSE, uxSchedulerSuspended |-> 0,
           due |-> zeros, passed |-> zeros]
  BY DEF prvInitialiseTaskLists
<1>5. \A p \in 0 .. TopPriority : lists[p].items = <<>> /\ lists[p].index = 0
  BY DEF vListInitialise
<1>9. NothingCounted(r)
  BY <1>4 DEF NothingCounted
<1> HIDE DEF first, lists, zeros, r
<1>6. /\ r \in Kernel /\ r.pxReadyTasksLists = lists
      /\ r.pxDelayedTaskList = <<>> /\ r.pxOverflowDelayedTaskList = <<>>
      /\ r.xSuspendedTaskList = <<>> /\ r.xTasksWaitingToReceive = <<>>
      /\ r.xYieldPending = FALSE /\ r.uxSchedulerSuspended = 0
  <2>1. <<>> \in Seq(Tasks) /\ 0 \in 0 .. TopPriority
    BY PriorityRange
  <2> QED
    BY <1>1, <1>2, <1>3, <1>4, <2>1, TicksAreNumbers DEF Kernel
<1>7. ReadySound(r)
  <2>1. /\ IsInjective(<<>>) /\ ToSet(<<>>) = {} /\ Len(<<>>) = 0
    BY DEF IsInjective, ToSet
  <2> QED
    BY <1>5, <1>6, <2>1 DEF ReadySound, ReadyListSound
<1>8. ReadyTasks(r) = {}
  <2>1. ToSet(<<>>) = {}
    BY DEF ToSet
  <2>2. \A t \in Tasks : ItemsAt(r, Priority[t]) = {}
    BY <1>5, <1>6, <2>1, PriorityRange DEF ItemsAt
  <2> QED
    BY <1>6, <2>2, ReadyIs
<1> QED
  BY <1>6, <1>7, <1>8, <1>9 DEF r

LEMMA EverybodyStarts == Starts(InitialKernel)
<1> DEFINE c == CreationOrder
           n == Len(c)
           start == prvInitialiseTaskLists
           made(m) == {c[j] : j \in 1 .. m}
           Reached(m, r) ==
               /\ ReadySound(r) /\ ReadyTasks(r) = made(m) /\ Highest(r) /\ NothingCounted(r)
               /\ SameBlocked(start, r) /\ SameWaiters(start, r)
               /\ r.xYieldPending = FALSE /\ r.uxSchedulerSuspended = 0
           V == [m \in 0 .. n |-> {r \in Kernel : Reached(m, r)}]
<1>1. /\ n \in Nat /\ DOMAIN c = 1 .. n /\ Tasks = made(n)
      /\ \A j \in 1 .. n : c[j] \in Tasks
      /\ \A i, j \in 1 .. n : c[i] = c[j] => i = j
  <2>1. c \in Seq(Tasks) /\ IsInjective(c)
    BY KernelAssumption
  <2>2. n \in Nat /\ DOMAIN c = 1 .. n /\ Tasks = made(n) /\ \A j \in 1 .. n : c[j] \in Tasks
    BY <2>1, ItemsOf DEF Tasks
  <2>3. \A i, j \in 1 .. n : c[i] = c[j] => i = j
    BY <2>1, <2>2 DEF IsInjective
  <2> HIDE DEF n, made, V, Reached, c
  <2> QED
    BY <2>2, <2>3
<1>2. start \in V[0]
  <2>1. made(0) = {}
    OBVIOUS
  <2> HIDE DEF made
  <2>2. start \in Kernel /\ Reached(0, start)
    <3> HIDE DEF start
    <3>1. /\ start \in Kernel /\ ReadySound(start) /\ ReadyTasks(start) = {} /\ NothingCounted(start)
          /\ start.xYieldPending = FALSE /\ start.uxSchedulerSuspended = 0
      BY NobodyAtFirst DEF start
    <3> QED
      BY <2>1, <3>1 DEF Highest, SameBlocked, SameWaiters
  <2>3. 0 \in 0 .. n
    BY <1>1
  <2> HIDE DEF Reached, n, start
  <2> QED
    BY <2>2, <2>3
<1>3. ASSUME NEW m \in 1 .. n, NEW v \in V[m - 1]
      PROVE  prvAddNewTaskToReadyList(v, c[m]) \in V[m]
  <2> DEFINE t == c[m]
             ready == prvAddTaskToReadyList(v, t)
             runs == IF Priority[v.pxCurrentTCB] <= Priority[t] THEN t ELSE v.pxCurrentTCB
             r == prvAddNewTaskToReadyList(v, t)
  <2>1. m - 1 \in 0 .. n /\ m \in 0 .. n
    BY <1>1
  <2>2. v \in Kernel /\ Reached(m - 1, v)
    <3> HIDE DEF Reached, n
    <3> QED
      BY <2>1
  <2>3. t \in Tasks /\ t \notin made(m - 1)
    BY <1>1
  <2>4. made(m) = made(m - 1) \cup {t}
    <3>1. 1 .. m = (1 .. (m - 1)) \cup {m}
      BY <1>1
    <3> QED
      BY <3>1
  <2> HIDE DEF t, ready, made, V, n, start
  <2>5. BecomesReady(v, t, ready)
    BY <2>2, <2>3, MadeReady DEF ready
  <2>6. r = [ready EXCEPT !.pxCurrentTCB = runs]
    <3>1. ready.pxCurrentTCB = v.pxCurrentTCB
      BY <2>5 DEF BecomesReady, SameControl
    <3> QED
      BY <3>1 DEF prvAddNewTaskToReadyList, ready
  <2>7. v.pxCurrentTCB \in Tasks /\ runs \in Tasks
    BY <2>2, <2>3, KernelFields
  <2>8. /\ Priority[v.pxCurrentTCB] \in Nat /\ Priority[t] \in Nat
        /\ \A u \in Tasks : Priority[u] \in Nat
    BY <2>3, <2>7, KernelAssumption
  <2>9. \A u \in ReadyTasks(v) \cup {t} : Priority[u] <= Priority[runs]
    <3> TAKE u \in ReadyTasks(v) \cup {t}
    <3>1. u \in Tasks /\ Priority[u] \in Nat
      BY <2>3, <2>8 DEF ReadyTasks
    <3>2. u \in ReadyTasks(v) => Priority[u] <= Priority[v.pxCurrentTCB]
      BY <2>2 DEF Highest
    <3> QED
      BY <2>8, <3>1, <3>2
  <2>17. NothingCounted(ready)
    BY <2>2 DEF ready, prvAddTaskToReadyList, Kernel, NothingCounted
  <2> HIDE DEF runs, r
  <2>10. /\ ready \in Kernel /\ ReadySound(ready) /\ ReadyTasks(ready) = ReadyTasks(v) \cup {t}
         /\ SameControl(v, ready) /\ SameBlocked(v, ready) /\ SameWaiters(v, ready)
    BY <2>5 DEF BecomesReady
  <2>11. /\ r \in Kernel /\ SameReady(ready, r) /\ SameBlocked(ready, r) /\ SameWaiters(ready, r)
         /\ r.pxCurrentTCB = runs /\ r.xYieldPending = ready.xYieldPending
         /\ r.uxSchedulerSuspended = ready.uxSchedulerSuspended
         /\ NothingCounted(r)
    BY <2>6, <2>7, <2>10, <2>17 DEF Kernel, SameReady, SameBlocked, SameWaiters, NothingCounted
  <2>12. ReadySound(r) /\ ReadyTasks(r) = ReadyTasks(v) \cup {t}
    BY <2>10, <2>11, SameMeansSame
  <2>13. Highest(r)
    BY <2>9, <2>11, <2>12 DEF Highest
  <2>14. SameBlocked(start, r) /\ SameWaiters(start, r)
    BY <2>2, <2>10, <2>11, SameAgain
  <2>15. r.xYieldPending = FALSE /\ r.uxSchedulerSuspended = 0
    BY <2>2, <2>10, <2>11 DEF SameControl
  <2>16. Reached(m, r) /\ r \in Kernel
    BY <2>2, <2>4, <2>11, <2>12, <2>13, <2>14, <2>15
  <2> HIDE DEF Reached
  <2> QED
    BY <2>1, <2>16 DEF V, r, t
<1> HIDE DEF V, Reached, made, n
<1>4. InitialKernel \in V[n]
  <2>1. CreateFold!FoldLeft(prvAddNewTaskToReadyList, start, c) \in V[n]
    <3> HIDE DEF c, start
    <3> QED
      BY <1>1, <1>2, <1>3, CreateFold!FoldLeftReaches
  <2> QED
    BY <2>1, KernelFolds DEF InitialKernel
<1>5. InitialKernel \in Kernel /\ Reached(n, InitialKernel)
  BY <1>1, <1>4 DEF V
<1> HIDE DEF c
<1> DEFINE r == InitialKernel
<1> HIDE DEF r
<1>6. /\ r \in Kernel /\ ReadySound(r) /\ ReadyTasks(r) = Tasks /\ Highest(r) /\ NothingCounted(r)
      /\ r.pxDelayedTaskList = <<>> /\ r.pxOverflowDelayedTaskList = <<>>
      /\ r.xSuspendedTaskList = <<>> /\ r.xTasksWaitingToReceive = <<>>
      /\ r.xYieldPending = FALSE /\ r.uxSchedulerSuspended = 0
  BY <1>1, <1>5, NobodyAtFirst DEF Reached, SameBlocked, SameWaiters, r
<1>7. IsInjective(<<>>) /\ ToSet(<<>>) = {}
  BY DEF IsInjective, ToSet
<1>8. /\ BlockedSound(r) /\ Blocked(r) = {} /\ WaitersBlocked(r) /\ Waiters(r) = {}
  BY <1>6, <1>7 DEF BlockedSound, Blocked, Sleepers, Suspended, WaitersBlocked, Waiters
<1>9. Ordered(r)
  BY <1>6, <1>8, OrderedIs DEF PlacesSound
<1> QED
  BY <1>6, <1>8, <1>9 DEF Starts, r

-----------------------------------------------------------------------------
(* Who runs, and where the tasks are. *)

Plain  == {"run", "check", "suspend", "last"}
Labels == {"run", "delayResume", "delayYield", "check", "suspend",
           "waitResume", "waitYield", "retryResume", "lastResume", "last"}

Controls(kern, at) ==
    /\ kern.uxSchedulerSuspended = IF at[kern.pxCurrentTCB] \in SchedulerHeld THEN 1 ELSE 0
    /\ \A t \in Tasks \ {kern.pxCurrentTCB} : at[t] \notin SchedulerHeld
    /\ kern.xYieldPending = FALSE
    /\ at[kern.pxCurrentTCB] \notin Blocking => kern.pxCurrentTCB \in ReadyTasks(kern)
    /\ at[kern.pxCurrentTCB] \notin Yielding => Highest(kern)
Controlled(kern, at) == Ordered(kern) /\ at \in [Tasks -> Labels] /\ Controls(kern, at)

LEMMA LabelKinds ==
  /\ Plain \subseteq Labels /\ Plain \cap SchedulerHeld = {} /\ Plain \cap Blocking = {}
  /\ Plain \cap Yielding = {} /\ Yielding \cap SchedulerHeld = {} /\ Yielding \subseteq Blocking
  /\ Yielding \subseteq Labels /\ SchedulerHeld \subseteq Labels
  /\ {"retryResume", "lastResume"} \subseteq SchedulerHeld
  /\ {"retryResume", "lastResume"} \cap Blocking = {}
  /\ {"delayResume", "waitResume"} \subseteq SchedulerHeld
  /\ {"delayResume", "waitResume"} \subseteq Blocking
BY DEF Plain, Labels, SchedulerHeld, Blocking, Yielding

LEMMA CurrentIsTask ==
  ASSUME NEW kern, Ordered(kern)
  PROVE  kern.pxCurrentTCB \in Tasks
BY KernelFields DEF Ordered

(* The running task goes on, and the kernel stays. *)
LEMMA GoesOn ==
  ASSUME NEW kern, NEW at, Controlled(kern, at), NEW t, t = kern.pxCurrentTCB, at[t] \in Plain,
         NEW r, NothingMoves(kern, r), SameControl(kern, r), NEW label \in Plain
  PROVE  Controlled(r, [at EXCEPT ![t] = label])
<1> DEFINE now == [at EXCEPT ![t] = label]
<1>1. /\ t \in Tasks /\ now \in [Tasks -> Labels] /\ now[t] = label
      /\ \A u \in Tasks \ {t} : now[u] = at[u]
  BY CurrentIsTask, LabelKinds DEF Controlled
<1> HIDE DEF now
<1>2. /\ kern.uxSchedulerSuspended = 0 /\ kern.xYieldPending = FALSE
      /\ t \in ReadyTasks(kern) /\ Highest(kern)
      /\ \A u \in Tasks \ {t} : at[u] \notin SchedulerHeld
  BY LabelKinds DEF Controlled, Controls
<1>3. /\ Ordered(r) /\ r.pxCurrentTCB = t /\ r.uxSchedulerSuspended = 0 /\ r.xYieldPending = FALSE
      /\ t \in ReadyTasks(r) /\ Highest(r)
  BY <1>2 DEF NothingMoves, SameControl, Highest
<1>4. Controls(r, now)
  BY <1>1, <1>2, <1>3, LabelKinds DEF Controls
<1> QED
  BY <1>1, <1>3, <1>4 DEF Controlled, now

(* It suspends the scheduler. *)
LEMMA SchedulerSuspends ==
  ASSUME NEW kern, Ordered(kern), kern.uxSchedulerSuspended = 0
  PROVE  LET r == vTaskSuspendAll(kern) IN
         /\ NothingMoves(kern, r) /\ r.pxCurrentTCB = kern.pxCurrentTCB
         /\ r.xYieldPending = kern.xYieldPending /\ r.uxSchedulerSuspended = 1
<1> DEFINE r == vTaskSuspendAll(kern)
<1>1. r = [kern EXCEPT !.uxSchedulerSuspended = 1]
  BY DEF vTaskSuspendAll
<1> HIDE DEF r
<1>2. /\ r \in Kernel /\ SameReady(kern, r) /\ SameBlocked(kern, r)
      /\ SameWaiters(kern, r) /\ r.pxCurrentTCB = kern.pxCurrentTCB
      /\ r.uxSchedulerSuspended = 1 /\ r.xYieldPending = kern.xYieldPending
  BY <1>1 DEF Ordered, Kernel, SameReady, SameBlocked, SameWaiters
<1> QED
  BY <1>2, SameLists DEF r

LEMMA HoldsScheduler ==
  ASSUME NEW kern, NEW at, Controlled(kern, at), NEW t, t = kern.pxCurrentTCB, at[t] \in Plain,
         NEW label \in {"retryResume", "lastResume"}
  PROVE  LET r == vTaskSuspendAll(kern) IN
         NothingMoves(kern, r) /\ Controlled(r, [at EXCEPT ![t] = label])
<1> DEFINE now == [at EXCEPT ![t] = label]
           r == vTaskSuspendAll(kern)
<1>1. /\ t \in Tasks /\ now \in [Tasks -> Labels] /\ now[t] = label
      /\ \A u \in Tasks \ {t} : now[u] = at[u]
  BY CurrentIsTask, LabelKinds DEF Controlled
<1> HIDE DEF now, r
<1>2. /\ kern.uxSchedulerSuspended = 0 /\ kern.xYieldPending = FALSE
      /\ t \in ReadyTasks(kern) /\ Highest(kern)
      /\ \A u \in Tasks \ {t} : at[u] \notin SchedulerHeld
  BY LabelKinds DEF Controlled, Controls
<1>3. /\ NothingMoves(kern, r) /\ r.pxCurrentTCB = t
      /\ r.xYieldPending = FALSE /\ r.uxSchedulerSuspended = 1
  BY <1>2, SchedulerSuspends DEF Controlled, r
<1>4. Ordered(r) /\ t \in ReadyTasks(r) /\ Highest(r)
  BY <1>2, <1>3 DEF NothingMoves, Highest
<1>5. Controls(r, now)
  BY <1>1, <1>2, <1>3, <1>4, LabelKinds DEF Controls
<1> QED
  BY <1>1, <1>3, <1>4, <1>5 DEF Controlled, now, r

(* It blocks, with the scheduler suspended. *)
LEMMA Blocks ==
  ASSUME NEW kern, NEW at, Controlled(kern, at), NEW t, t = kern.pxCurrentTCB, at[t] \in Plain,
         NEW r, Ordered(r), ReadyTasks(r) = ReadyTasks(kern) \ {t}, r.pxCurrentTCB = t,
         r.xYieldPending = FALSE, r.uxSchedulerSuspended = 1,
         NEW label \in {"delayResume", "waitResume"}
  PROVE  Controlled(r, [at EXCEPT ![t] = label])
<1> DEFINE now == [at EXCEPT ![t] = label]
<1>1. /\ t \in Tasks /\ now \in [Tasks -> Labels] /\ now[t] = label
      /\ \A u \in Tasks \ {t} : now[u] = at[u]
  BY CurrentIsTask, LabelKinds DEF Controlled
<1> HIDE DEF now
<1>2. Highest(kern) /\ \A u \in Tasks \ {t} : at[u] \notin SchedulerHeld
  BY LabelKinds DEF Controlled, Controls
<1>3. Highest(r)
  BY <1>2 DEF Highest
<1>4. Controls(r, now)
  BY <1>1, <1>2, <1>3, LabelKinds DEF Controls
<1> QED
  BY <1>1, <1>4 DEF Controlled, now

(* Whoever runs after a context switch is ready, and none is higher. *)
LEMMA SwitchIsControlled ==
  ASSUME NEW r, Ordered(r), r.pxCurrentTCB \in ReadyTasks(r), Highest(r),
         r.xYieldPending = FALSE, r.uxSchedulerSuspended = 0,
         NEW at \in [Tasks -> Labels], \A u \in Tasks : at[u] \notin SchedulerHeld
  PROVE  Controlled(r, at)
BY CurrentIsTask DEF Controlled, Controls

(* What a step may do to the others: none of them blocks, none begins to wait. *)
NoneBlocks(kern, r) ==
    ReadyTasks(kern) \subseteq ReadyTasks(r) /\ Waiters(r) \subseteq Waiters(kern)

LEMMA Opens ==
  ASSUME NEW kern, NEW at, Controlled(kern, at), NEW t, t = kern.pxCurrentTCB,
         at[t] \in SchedulerHeld, ReadyTasks(kern) # {},
         NEW yielded \in Plain, NEW otherwise \in Plain \cup Yielding,
         otherwise \in Plain => at[t] \in {"retryResume", "lastResume"}
  PROVE  LET open == xTaskResumeAll(kern)
             next == vTaskSwitchContext(open) IN
         IF open.xYieldPending
         THEN NoneBlocks(kern, next) /\ Controlled(next, [at EXCEPT ![t] = yielded])
         ELSE NoneBlocks(kern, open) /\ Controlled(open, [at EXCEPT ![t] = otherwise])
<1> DEFINE open == xTaskResumeAll(kern)
           next == vTaskSwitchContext(open)
<1>1. /\ t \in Tasks /\ at \in [Tasks -> Labels] /\ Ordered(kern)
      /\ kern.uxSchedulerSuspended = 1 /\ Highest(kern)
      /\ \A u \in Tasks \ {t} : at[u] \notin SchedulerHeld
      /\ at[t] \in {"retryResume", "lastResume"} => t \in ReadyTasks(kern)
  BY CurrentIsTask, LabelKinds DEF Controlled, Controls
<1>2. Resumes(kern, open)
  BY <1>1, SchedulerResumes
<1> HIDE DEF open
<1>3. /\ Ordered(open) /\ open.pxCurrentTCB = t /\ open.uxSchedulerSuspended = 0
      /\ ReadyTasks(kern) \subseteq ReadyTasks(open) /\ Waiters(open) \subseteq Waiters(kern)
      /\ open.xYieldPending \/ Highest(open)
  BY <1>1, <1>2 DEF Resumes
<1>4. CASE open.xYieldPending
  <2> DEFINE now == [at EXCEPT ![t] = yielded]
  <2>1. now \in [Tasks -> Labels] /\ \A u \in Tasks : now[u] \notin SchedulerHeld
    BY <1>1, LabelKinds
  <2>2. ReadyTasks(open) # {}
    BY <1>3
  <2>3. Switches(open, next)
    BY <1>3, <2>2, ContextSwitches
  <2> HIDE DEF now, next
  <2>4. Controlled(next, now)
    BY <2>1, <2>3, SwitchIsControlled DEF Switches
  <2>5. NoneBlocks(kern, next)
    BY <1>3, <2>3 DEF Switches, NoneBlocks
  <2> QED
    BY <1>4, <2>4, <2>5 DEF now, next, open
<1>5. CASE ~open.xYieldPending
  <2> DEFINE now == [at EXCEPT ![t] = otherwise]
  <2>1. /\ now \in [Tasks -> Labels] /\ \A u \in Tasks : now[u] \notin SchedulerHeld
        /\ now[t] = otherwise
    BY <1>1, LabelKinds
  <2>2. open.xYieldPending = FALSE
    <3>1. open.xYieldPending \in BOOLEAN
      BY <1>3, KernelFields DEF Ordered
    <3> QED
      BY <1>5, <3>1
  <2>3. otherwise \notin Blocking => t \in ReadyTasks(open)
    BY <1>1, <1>3, LabelKinds
  <2> HIDE DEF now, next
  <2>4. Controls(open, now)
    BY <1>1, <1>3, <1>5, <2>1, <2>2, <2>3, LabelKinds DEF Controls
  <2>5. Controlled(open, now) /\ NoneBlocks(kern, open)
    BY <1>3, <2>1, <2>4 DEF Controlled, NoneBlocks
  <2> QED
    BY <1>5, <2>5 DEF now, open
<1> QED
  BY <1>4, <1>5 DEF open, next

LEMMA Yields ==
  ASSUME NEW kern, NEW at, Controlled(kern, at), NEW t, t = kern.pxCurrentTCB,
         at[t] \in Yielding, ReadyTasks(kern) # {}, NEW label \in Plain
  PROVE  LET r == vTaskSwitchContext(kern) IN
         NoneBlocks(kern, r) /\ Controlled(r, [at EXCEPT ![t] = label])
<1> DEFINE r == vTaskSwitchContext(kern)
           now == [at EXCEPT ![t] = label]
<1>1. /\ t \in Tasks /\ at \in [Tasks -> Labels] /\ Ordered(kern)
      /\ kern.uxSchedulerSuspended = 0
      /\ \A u \in Tasks \ {t} : at[u] \notin SchedulerHeld
  BY CurrentIsTask, LabelKinds DEF Controlled, Controls
<1>2. now \in [Tasks -> Labels] /\ \A u \in Tasks : now[u] \notin SchedulerHeld
  BY <1>1, LabelKinds
<1>3. Switches(kern, r)
  BY <1>1, ContextSwitches
<1> HIDE DEF r, now
<1>4. Controlled(r, now) /\ NoneBlocks(kern, r)
  BY <1>2, <1>3, SwitchIsControlled DEF Switches, NoneBlocks
<1> QED
  BY <1>4 DEF r, now

LEMMA StaysControlled ==
  ASSUME NEW kern, NEW at, Controlled(kern, at), NEW r, NothingMoves(kern, r), SameControl(kern, r)
  PROVE  Controlled(r, at)
<1>1. Highest(kern) => Highest(r)
  BY DEF NothingMoves, SameControl, Highest
<1> QED
  BY <1>1 DEF Controlled, Controls, NothingMoves, SameControl

LEMMA TimeElapses ==
  ASSUME NEW kern, Ordered(kern)
  PROVE  NothingMoves(kern, Elapse(kern)) /\ SameControl(kern, Elapse(kern))
<1> DEFINE due == [t \in Tasks |-> IF kern.due[t] \in {0, Forever} THEN kern.due[t]
                                   ELSE kern.due[t] - 1]
           r == Elapse(kern)
<1>1. due \in [Tasks -> 0 .. Forever]
  <2>1. kern.due \in [Tasks -> 0 .. Forever] /\ Forever \in Nat
    BY KernelFields, TicksAreNumbers DEF Ordered, Forever
  <2>2. ASSUME NEW t \in Tasks
        PROVE  due[t] \in 0 .. Forever
    <3>1. kern.due[t] \in 0 .. Forever
      BY <2>1
    <3> QED
      BY <2>1, <3>1
  <2> QED
    BY <2>2
<1>2. r = [kern EXCEPT !.due = due]
  BY DEF Elapse
<1> HIDE DEF due, r
<1>3. /\ r \in Kernel /\ SameReady(kern, r) /\ SameBlocked(kern, r)
      /\ SameWaiters(kern, r) /\ SameControl(kern, r)
  BY <1>1, <1>2 DEF Ordered, Kernel, SameReady, SameBlocked, SameWaiters, SameControl
<1> QED
  BY <1>3, SameLists DEF r

(* The timer interrupt. *)
AfterTick(kern) ==
    LET tick == xTaskIncrementTick(Elapse(kern)) IN
    IF tick.xSwitchRequired THEN vTaskSwitchContext(tick.kernel) ELSE tick.kernel

LEMMA TickIsControlled ==
  ASSUME NEW kern, NEW at, Controlled(kern, at), ReadyTasks(kern) # {}
  PROVE  NoneBlocks(kern, AfterTick(kern)) /\ Controlled(AfterTick(kern), at)
<1> DEFINE e == Elapse(kern)
           tick == xTaskIncrementTick(e)
           r == AfterTick(kern)
<1>1. Ordered(kern) /\ NothingMoves(kern, e) /\ SameControl(kern, e)
  BY TimeElapses DEF Controlled
<1>2. r = IF tick.xSwitchRequired THEN vTaskSwitchContext(tick.kernel) ELSE tick.kernel
  BY DEF AfterTick
<1> HIDE DEF e, r
<1>3. Controlled(e, at) /\ Ordered(e) /\ ReadyTasks(e) = ReadyTasks(kern)
      /\ Waiters(e) = Waiters(kern)
  BY <1>1, StaysControlled DEF NothingMoves
<1>4. CASE e.uxSchedulerSuspended = 0
  <2>1. tick = OneTick(e)
    BY <1>4 DEF xTaskIncrementTick
  <2> HIDE DEF tick
  <2>2. /\ tick.xSwitchRequired \in BOOLEAN /\ MoreReady(e, tick.kernel)
        /\ Highest(e) /\ ~tick.xSwitchRequired => Highest(tick.kernel)
    BY <1>3, <2>1, TickWakes
  <2>3. /\ Ordered(tick.kernel) /\ tick.kernel.pxCurrentTCB = e.pxCurrentTCB
        /\ tick.kernel.uxSchedulerSuspended = 0 /\ tick.kernel.xYieldPending = e.xYieldPending
        /\ ReadyTasks(e) \subseteq ReadyTasks(tick.kernel)
        /\ Waiters(tick.kernel) \subseteq Waiters(e)
    BY <1>4, <2>2 DEF MoreReady, SameControl
  <2>4. at \in [Tasks -> Labels] /\ \A u \in Tasks : at[u] \notin SchedulerHeld
    BY <1>3, <1>4 DEF Controlled, Controls
  <2>5. CASE tick.xSwitchRequired
    <3>1. r = vTaskSwitchContext(tick.kernel) /\ ReadyTasks(tick.kernel) # {}
      BY <1>2, <1>3, <2>3, <2>5
    <3>2. Switches(tick.kernel, r)
      BY <2>3, <3>1, ContextSwitches
    <3>3. Controlled(r, at) /\ NoneBlocks(kern, r)
      BY <1>3, <2>3, <2>4, <3>2, SwitchIsControlled DEF Switches, NoneBlocks
    <3> QED
      BY <3>3 DEF r
  <2>6. CASE ~tick.xSwitchRequired
    <3>1. r = tick.kernel
      BY <1>2, <2>6
    <3>2. Controls(r, at)
      BY <1>3, <1>4, <2>2, <2>3, <2>6, <3>1 DEF Controlled, Controls
    <3>3. Controlled(r, at) /\ NoneBlocks(kern, r)
      BY <1>3, <2>3, <2>4, <3>1, <3>2 DEF Controlled, NoneBlocks
    <3> QED
      BY <3>3 DEF r
  <2> QED
    BY <2>5, <2>6
<1>5. CASE e.uxSchedulerSuspended # 0
  <2> DEFINE pended == e.xPendedTicks + 1
  <2>1. tick = [kernel |-> [e EXCEPT !.xPendedTicks = pended], xSwitchRequired |-> FALSE]
    BY <1>5 DEF xTaskIncrementTick
  <2>2. r = [e EXCEPT !.xPendedTicks = pended]
    BY <1>2, <2>1
  <2>3. pended \in Nat /\ e \in Kernel
    BY <1>3, KernelFields DEF Ordered
  <2> HIDE DEF tick, pended
  <2>4. /\ r \in Kernel /\ SameReady(e, r) /\ SameBlocked(e, r)
        /\ SameWaiters(e, r) /\ SameControl(e, r)
    BY <2>2, <2>3 DEF Kernel, SameReady, SameBlocked, SameWaiters, SameControl
  <2>5. NothingMoves(e, r)
    BY <1>3, <2>4, SameLists
  <2>6. Controlled(r, at) /\ NoneBlocks(kern, r)
    BY <1>3, <2>4, <2>5, StaysControlled DEF NothingMoves, NoneBlocks
  <2> QED
    BY <2>6 DEF r
<1> QED
  BY <1>4, <1>5

LEMMA SendIsControlled ==
  ASSUME NEW kern, NEW at, Controlled(kern, at), at[kern.pxCurrentTCB] = "run",
         kern.xTasksWaitingToReceive # <<>>
  PROVE  LET r == xTaskRemoveFromEventList(kern) IN
         /\ NoneBlocks(kern, r) /\ Controlled(r, at)
         /\ Waiters(r) = Waiters(kern) \ {Head(kern.xTasksWaitingToReceive)}
<1> DEFINE r == xTaskRemoveFromEventList(kern)
           t == Head(kern.xTasksWaitingToReceive)
<1>1. /\ Ordered(kern) /\ kern.pxCurrentTCB \in ReadyTasks(kern) /\ Highest(kern)
      /\ kern.xYieldPending = FALSE /\ kern.uxSchedulerSuspended = 0
      /\ at \in [Tasks -> Labels] /\ \A u \in Tasks : at[u] \notin SchedulerHeld
  BY DEF Controlled, Controls, SchedulerHeld, Blocking, Yielding
<1>2. t \in Waiters(kern) /\ SendsTo(kern, t, r)
  BY <1>1, ReceiverRuns
<1> HIDE DEF r, t
<1>3. Controlled(r, at) /\ NoneBlocks(kern, r) /\ Waiters(r) = Waiters(kern) \ {t}
  BY <1>1, <1>2, SwitchIsControlled DEF SendsTo, NoneBlocks
<1> QED
  BY <1>3 DEF r, t

-----------------------------------------------------------------------------
(* The invariant, taken apart. *)

Waiting ==
    /\ \A t \in Waiters(k) : Waits(t)
    /\ \A t \in Tasks : NeverBlocks(t) => t \in ReadyTasks(k)
KernelPart == Controlled(k, pc) /\ Waiting

QueuePart ==
    /\ workload \in Workloads
    /\ pcStorage \in [Slots -> {NoItem} \cup UNION {workload.items[t] : t \in Tasks}]
    /\ pcWriteTo \in Slots /\ pcReadFrom \in Slots
    /\ uxMessagesWaiting \in 0 .. uxLength
TimePart ==
    /\ xTicksToWait \in [Tasks -> Ticks]
    /\ xTimeOut \in [Tasks -> TimeOut]
    /\ xEntryTimeSet \in [Tasks -> BOOLEAN]
    /\ \A t \in Tasks : xTicksToWait[t] # 0 => Waits(t)
    /\ \A t \in Tasks : pc[t] = "suspend" => xTicksToWait[t] # 0

LEMMA InvariantParts == KernelInv <=> KernelPart /\ QueuePart /\ TimePart
<1>1. ASSUME Ordered(k), pc \in [Tasks -> Labels]
      PROVE  /\ Controls(k, pc) <=> ControlInv
             /\ \A t \in Tasks : IsReady(k, t) <=> t \in ReadyTasks(k)
  <2>1. k.pxCurrentTCB \in Tasks
    BY <1>1, CurrentIsTask
  <2>2. k.xYieldPending \in BOOLEAN
    BY <1>1, KernelFields DEF Ordered
  <2>3. \A t \in Tasks : IsReady(k, t) <=> t \in ReadyTasks(k)
    BY DEF ReadyTasks
  <2>4. NoneIsHigher <=> Highest(k)
    BY <2>3 DEF NoneIsHigher, Highest, ReadyTasks
  <2> QED
    BY <2>1, <2>2, <2>3, <2>4 DEF Controls, ControlInv
<1>2. KernelInv <=> /\ Ordered(k) /\ pc \in [Tasks -> Labels] /\ QueuePart
                    /\ ControlInv /\ WaitInv
                    /\ xTicksToWait \in [Tasks -> Ticks]
                    /\ xTimeOut \in [Tasks -> TimeOut]
                    /\ xEntryTimeSet \in [Tasks -> BOOLEAN]
  BY DEF KernelInv, TypeOK, Labels, Ordered, QueuePart
<1>3. ASSUME Ordered(k), pc \in [Tasks -> Labels]
      PROVE  WaitInv <=> /\ Waiting
                         /\ \A t \in Tasks : xTicksToWait[t] # 0 => Waits(t)
                         /\ \A t \in Tasks : pc[t] = "suspend" => xTicksToWait[t] # 0
  BY <1>1, <1>3 DEF WaitInv, Waiting, Waiters
<1> QED
  BY <1>1, <1>2, <1>3 DEF KernelPart, Controlled, TimePart

LEMMA SomeoneIsReady == KernelPart /\ workload \in Workloads => ReadyTasks(k) # {}
<1> SUFFICES ASSUME KernelPart, workload \in Workloads
             PROVE  ReadyTasks(k) # {}
  OBVIOUS
<1>1. PICK t \in Tasks : workload.delays[t] = {} /\ workload.waits[t] \subseteq {0}
  BY QueueAssumption
<1>2. NeverBlocks(t)
  BY <1>1 DEF NeverBlocks, Waits
<1> QED
  BY <1>1, <1>2 DEF KernelPart, Waiting

(* Nobody begins to wait. *)
FewerWait == Waiters(k') \subseteq Waiters(k)

LEMMA StillWaiting ==
  Waiting /\ NoneBlocks(k, k') /\ workload' = workload => Waiting' /\ FewerWait
<1> SUFFICES ASSUME Waiting, NoneBlocks(k, k'), workload' = workload
             PROVE  Waiting' /\ FewerWait
  OBVIOUS
<1>1. \A t \in Tasks : (Waits(t)' <=> Waits(t)) /\ (NeverBlocks(t)' <=> NeverBlocks(t))
  BY DEF Waits, NeverBlocks
<1>2. Waiters(k') \subseteq Waiters(k) /\ ReadyTasks(k) \subseteq ReadyTasks(k')
  BY DEF NoneBlocks
<1>3. ASSUME NEW t \in Waiters(k')
      PROVE  Waits(t)'
  BY <1>2 DEF Waiting, Waits
<1> QED
  BY <1>1, <1>2, <1>3 DEF Waiting, FewerWait

LEMMA NothingBlocks ==
  ASSUME NEW kern, NEW r, NothingMoves(kern, r)
  PROVE  NoneBlocks(kern, r)
BY DEF NothingMoves, NoneBlocks

LEMMA DueIsHistory ==
  ASSUME NEW kern, Ordered(kern), NEW t, NEW d \in 0 .. Forever
  PROVE  LET r == [kern EXCEPT !.due[t] = d] IN
         NothingMoves(kern, r) /\ SameControl(kern, r)
<1> DEFINE due == [kern.due EXCEPT ![t] = d]
           r == [kern EXCEPT !.due[t] = d]
<1>1. due \in [Tasks -> 0 .. Forever]
  BY KernelFields DEF Ordered
<1>2. r = [kern EXCEPT !.due = due]
  OBVIOUS
<1> HIDE DEF due, r
<1>3. /\ r \in Kernel /\ SameReady(kern, r) /\ SameBlocked(kern, r)
      /\ SameWaiters(kern, r) /\ SameControl(kern, r)
  BY <1>1, <1>2 DEF Ordered, Kernel, SameReady, SameBlocked, SameWaiters, SameControl
<1>4. NothingMoves(kern, r)
  BY <1>3, SameLists
<1> QED
  BY <1>3, <1>4 DEF r

(* A step that leaves the kernel's lists alone and goes on.  *)
LEMMA PlainStep ==
  ASSUME KernelPart, workload' = workload, NEW t, k.pxCurrentTCB = t, pc[t] \in Plain,
         NothingMoves(k, k'), SameControl(k, k'),
         NEW label \in Plain, pc' = [pc EXCEPT ![t] = label]
  PROVE  KernelPart' /\ FewerWait
<1>1. Controlled(k', [pc EXCEPT ![t] = label])
  BY GoesOn DEF KernelPart
<1>2. Waiting' /\ FewerWait
  BY NothingBlocks, StillWaiting DEF KernelPart
<1> QED
  BY <1>1, <1>2 DEF KernelPart

LEMMA SameKernel == KernelPart /\ k' = k => NothingMoves(k, k') /\ SameControl(k, k')
BY DEF KernelPart, Controlled, NothingMoves, SameControl

(* The scheduler is resumed, or the task yields.  *)
LEMMA ResumeStep ==
  ASSUME KernelPart, workload \in Workloads, workload' = workload,
         NEW t, k.pxCurrentTCB = t, pc[t] \in SchedulerHeld,
         NEW yielded \in Plain, NEW otherwise \in Plain \cup Yielding,
         otherwise \in Plain => pc[t] \in {"retryResume", "lastResume"},
         ResumeAll(t, yielded, otherwise)
  PROVE  KernelPart' /\ FewerWait
<1> DEFINE open == xTaskResumeAll(k)
           next == vTaskSwitchContext(open)
<1>1. IF open.xYieldPending
      THEN NoneBlocks(k, next) /\ Controlled(next, [pc EXCEPT ![t] = yielded])
      ELSE NoneBlocks(k, open) /\ Controlled(open, [pc EXCEPT ![t] = otherwise])
  <2>1. Controlled(k, pc) /\ ReadyTasks(k) # {}
    BY SomeoneIsReady DEF KernelPart
  <2> QED
    BY <2>1, Opens
<1>2. IF open.xYieldPending
      THEN k' = next /\ pc' = [pc EXCEPT ![t] = yielded]
      ELSE k' = open /\ pc' = [pc EXCEPT ![t] = otherwise]
  BY DEF ResumeAll, Goto
<1> HIDE DEF open, next
<1>3. NoneBlocks(k, k') /\ Controlled(k', pc')
  BY <1>1, <1>2
<1>4. Waiting' /\ FewerWait
  BY <1>3, StillWaiting DEF KernelPart
<1> QED
  BY <1>3, <1>4 DEF KernelPart

LEMMA YieldStep ==
  ASSUME KernelPart, workload \in Workloads, NEW t,
         NEW label \in Yielding, NEW next \in Plain, Yield(t, label, next)
  PROVE  KernelPart' /\ FewerWait
<1>1. /\ k.pxCurrentTCB = t /\ pc[t] \in Yielding /\ k' = vTaskSwitchContext(k)
      /\ pc' = [pc EXCEPT ![t] = next] /\ workload' = workload
  BY DEF Yield, Running, Goto
<1>2. Controlled(k, pc) /\ ReadyTasks(k) # {}
  BY SomeoneIsReady DEF KernelPart
<1>3. NoneBlocks(k, k') /\ Controlled(k', pc')
  BY <1>1, <1>2, Yields
<1>4. Waiting' /\ FewerWait
  BY <1>1, <1>3, StillWaiting DEF KernelPart
<1> QED
  BY <1>3, <1>4 DEF KernelPart

(* The running task blocks: an idle task does not.  *)
LEMMA BlockStep ==
  ASSUME KernelPart, workload' = workload, NEW t, k.pxCurrentTCB = t, pc[t] \in Plain,
         Ordered(k'), ReadyTasks(k') = ReadyTasks(k) \ {t}, k'.pxCurrentTCB = t,
         k'.xYieldPending = FALSE, k'.uxSchedulerSuspended = 1,
         NEW label \in {"delayResume", "waitResume"}, pc' = [pc EXCEPT ![t] = label],
         Waiters(k') \subseteq Waiters(k) \cup {u \in {t} : Waits(u)}, ~NeverBlocks(t)
  PROVE  KernelPart'
<1>1. Controlled(k', pc')
  BY Blocks DEF KernelPart
<1>2. \A u : (Waits(u)' <=> Waits(u)) /\ (NeverBlocks(u)' <=> NeverBlocks(u))
  BY DEF Waits, NeverBlocks
<1>3. ASSUME NEW u \in Waiters(k')
      PROVE  Waits(u)'
  BY <1>2 DEF KernelPart, Waiting
<1>4. ASSUME NEW u \in Tasks, NeverBlocks(u)'
      PROVE  u \in ReadyTasks(k')
  BY <1>2, <1>4 DEF KernelPart, Waiting
<1>5. Waiting'
  BY <1>3, <1>4 DEF Waiting
<1> QED
  BY <1>1, <1>5 DEF KernelPart

(* What vTaskSuspendAll leaves for the operation that follows.  *)
LEMMA SuspendedStep ==
  ASSUME KernelPart, NEW t, k.pxCurrentTCB = t, pc[t] \in Plain
  PROVE  LET s == vTaskSuspendAll(k) IN
         /\ NothingMoves(k, s) /\ Ordered(s) /\ s.pxCurrentTCB = t /\ t \in ReadyTasks(s)
         /\ s.xYieldPending = FALSE /\ s.uxSchedulerSuspended = 1
<1>1. /\ Ordered(k) /\ k.uxSchedulerSuspended = 0 /\ k.xYieldPending = FALSE
      /\ t \in ReadyTasks(k)
  BY LabelKinds DEF KernelPart, Controlled, Controls
<1> DEFINE s == vTaskSuspendAll(k)
<1>2. /\ NothingMoves(k, s) /\ s.pxCurrentTCB = t
      /\ s.xYieldPending = FALSE /\ s.uxSchedulerSuspended = 1
  BY <1>1, SchedulerSuspends
<1> HIDE DEF s
<1>3. Ordered(s) /\ t \in ReadyTasks(s)
  BY <1>1, <1>2 DEF NothingMoves
<1> QED
  BY <1>2, <1>3 DEF s

LEMMA WorkloadTimes ==
  ASSUME workload \in Workloads, NEW t \in Tasks
  PROVE  workload.delays[t] \subseteq Ticks \ {0} /\ workload.waits[t] \subseteq Ticks
BY QueueAssumption

LEMMA DelayStep ==
  ASSUME KernelPart, workload \in Workloads, NEW t \in Tasks,
         NEW ticks \in workload.delays[t], Delay(t, ticks)
  PROVE  KernelPart' /\ FewerWait
<1> DEFINE s == vTaskSuspendAll(k)
           m == [s EXCEPT !.due[t] = ticks]
<1>1. ticks \in Nat /\ ticks \in 0 .. Forever
  BY WorkloadTimes, TicksAreNumbers DEF Ticks, Forever
<1>2. /\ k.pxCurrentTCB = t /\ pc[t] \in Plain
      /\ k' = prvAddCurrentTaskToDelayedList(m, ticks, FALSE)
      /\ pc' = [pc EXCEPT ![t] = "delayResume"] /\ workload' = workload
  BY DEF Delay, Running, Goto, Plain
<1> HIDE DEF m
<1>3. /\ NothingMoves(k, s) /\ Ordered(s) /\ s.pxCurrentTCB = t /\ t \in ReadyTasks(s)
      /\ s.xYieldPending = FALSE /\ s.uxSchedulerSuspended = 1
  BY <1>2, SuspendedStep
<1> HIDE DEF s
<1>4. NothingMoves(s, m) /\ SameControl(s, m)
  BY <1>1, <1>3, DueIsHistory DEF m
<1>5. /\ NothingMoves(k, m) /\ Ordered(m) /\ m.pxCurrentTCB = t /\ t \in ReadyTasks(m)
      /\ m.xYieldPending = FALSE /\ m.uxSchedulerSuspended = 1
  BY <1>3, <1>4 DEF NothingMoves, SameControl
<1>6. m \in Kernel /\ PlacesSound(m) /\ WaitersBlocked(m)
  BY <1>5, OrderedIs
<1>7. BecomesBlocked(m, k')
  BY <1>1, <1>2, <1>5, <1>6, CurrentBlocks
<1>8. /\ ReadyTasks(k') = ReadyTasks(m) \ {t} /\ SameControl(m, k') /\ SameWaiters(m, k')
      /\ k' \in Kernel /\ PlacesSound(k')
  BY <1>5, <1>7 DEF BecomesBlocked
<1>9. Ordered(k')
  <2>1. WaitersBlocked(k')
    BY <1>6, <1>8 DEF WaitersBlocked, SameWaiters
  <2> QED
    BY <1>8, <2>1, OrderedIs
<1>10. /\ ReadyTasks(k') = ReadyTasks(k) \ {t} /\ Waiters(k') = Waiters(k)
       /\ k'.pxCurrentTCB = t /\ k'.xYieldPending = FALSE /\ k'.uxSchedulerSuspended = 1
  BY <1>5, <1>8 DEF NothingMoves, SameControl, SameWaiters, Waiters
<1>11. ~NeverBlocks(t)
  BY DEF NeverBlocks
<1> QED
  BY <1>2, <1>9, <1>10, <1>11, BlockStep DEF FewerWait

-----------------------------------------------------------------------------
(* The time that is left. *)

LEMMA TimeLeftIsTicks ==
  ASSUME KernelPart, TimePart, NEW t \in Tasks, ~TimedOut(k, xTimeOut[t], xTicksToWait[t])
  PROVE  TimeLeft(t) \in Ticks
<1> DEFINE elapsed == xElapsedTime(k, xTimeOut[t])
           wait == xTicksToWait[t]
<1>1. wait \in Ticks /\ xTimeOut[t] \in TimeOut /\ k \in Kernel
  BY DEF KernelPart, TimePart, Controlled, Ordered
<1>2. elapsed \in Nat
  <2>1. k.xTickCount \in Int /\ xTimeOut[t].xTimeOnEntering \in Int
    <3>1. k.xTickCount \in Ticks /\ xTimeOut[t].xTimeOnEntering \in Ticks
      BY <1>1, KernelFields DEF TimeOut
    <3> QED
      BY <3>1 DEF Ticks
  <2>2. k.xTickCount - xTimeOut[t].xTimeOnEntering \in Int
    BY <2>1
  <2>3. \A i \in Int : i % TickModulus \in Nat
    BY TicksAreNumbers
  <2> QED
    BY <2>2, <2>3 DEF xElapsedTime
<1>3. CASE wait = portMAX_DELAY
  BY <1>3, TicksAreNumbers DEF TimeLeft
<1>4. CASE wait # portMAX_DELAY
  <2>1. ~(elapsed >= wait) /\ TimeLeft(t) = wait - elapsed
    BY <1>4 DEF TimedOut, TimeLeft
  <2> HIDE DEF elapsed, wait
  <2> QED
    BY <1>1, <1>2, <2>1, TicksAreNumbers DEF Ticks
<1> QED
  BY <1>3, <1>4

LEMMA WaitGoesOnStep ==
  ASSUME KernelPart, TimePart, workload \in Workloads, NEW t \in Tasks, WaitGoesOn(t)
  PROVE  KernelPart'
<1> DEFINE s == vTaskSuspendAll(k)
<1>1. /\ k.pxCurrentTCB = t /\ pc[t] = "suspend" /\ pc[t] \in Plain /\ workload' = workload
      /\ ~TimedOut(k, xTimeOut[t], xTicksToWait[t])
  BY DEF WaitGoesOn, Running, Plain
<1>2. TimeLeft(t) \in Ticks /\ TimeLeft(t) \in Nat
  BY <1>1, TimeLeftIsTicks, TicksAreNumbers
<1>3. CASE uxMessagesWaiting = 0
  <2>1. /\ k' = vTaskPlaceOnEventList(s, TimeLeft(t))
        /\ pc' = [pc EXCEPT ![t] = "waitResume"]
    BY <1>3 DEF WaitGoesOn, Goto
  <2>2. /\ NothingMoves(k, s) /\ Ordered(s) /\ s.pxCurrentTCB = t /\ t \in ReadyTasks(s)
        /\ s.xYieldPending = FALSE /\ s.uxSchedulerSuspended = 1
    BY <1>1, SuspendedStep
  <2> HIDE DEF s
  <2>3. /\ Ordered(k') /\ ReadyTasks(k') = ReadyTasks(s) \ {t}
        /\ SameControl(s, k') /\ Waiters(k') = Waiters(s) \cup {t}
    BY <1>2, <2>1, <2>2, CurrentWaits
  <2>4. /\ ReadyTasks(k') = ReadyTasks(k) \ {t} /\ Waiters(k') = Waiters(k) \cup {t}
        /\ k'.pxCurrentTCB = t /\ k'.xYieldPending = FALSE /\ k'.uxSchedulerSuspended = 1
    BY <2>2, <2>3 DEF NothingMoves, SameControl
  <2>5. Waits(t) /\ ~NeverBlocks(t)
    BY <1>1 DEF TimePart, NeverBlocks
  <2> QED
    BY <1>1, <2>1, <2>3, <2>4, <2>5, BlockStep
<1>4. CASE uxMessagesWaiting # 0
  <2>1. k' = vTaskSuspendAll(k) /\ pc' = [pc EXCEPT ![t] = "retryResume"]
    BY <1>4 DEF WaitGoesOn, Goto
  <2>2. NothingMoves(k, k') /\ Controlled(k', pc')
    BY <1>1, <2>1, HoldsScheduler DEF KernelPart
  <2>3. Waiting'
    BY <1>1, <2>2, NothingBlocks, StillWaiting DEF KernelPart
  <2> QED
    BY <2>2, <2>3 DEF KernelPart
<1> QED
  BY <1>3, <1>4

LEMMA WaitIsOverStep ==
  ASSUME KernelPart, NEW t \in Tasks, WaitIsOver(t)
  PROVE  KernelPart' /\ FewerWait
<1>1. /\ k.pxCurrentTCB = t /\ pc[t] \in Plain /\ workload' = workload
      /\ k' = vTaskSuspendAll(k) /\ pc' = [pc EXCEPT ![t] = "lastResume"]
  BY DEF WaitIsOver, Running, Plain, Goto
<1>2. NothingMoves(k, k') /\ Controlled(k', pc')
  BY <1>1, HoldsScheduler DEF KernelPart
<1>3. Waiting' /\ FewerWait
  BY <1>1, <1>2, NothingBlocks, StillWaiting DEF KernelPart
<1> QED
  BY <1>2, <1>3 DEF KernelPart

LEMMA SendStep ==
  ASSUME KernelPart, NEW t \in Tasks, NEW item, Send(t, item)
  PROVE  KernelPart' /\ FewerWait
<1>1. /\ k.pxCurrentTCB = t /\ pc[t] = "run" /\ pc' = pc /\ workload' = workload
      /\ k' = IF k.xTasksWaitingToReceive = <<>> THEN k ELSE xTaskRemoveFromEventList(k)
  BY DEF Send, Running
<1>2. CASE k.xTasksWaitingToReceive = <<>>
  <2>1. k' = k
    BY <1>1, <1>2
  <2> QED
    BY <1>1, <2>1 DEF KernelPart, Waiting, Waits, NeverBlocks, FewerWait
<1>3. CASE k.xTasksWaitingToReceive # <<>>
  <2>1. NoneBlocks(k, k') /\ Controlled(k', pc')
    BY <1>1, <1>3, SendIsControlled DEF KernelPart
  <2>2. Waiting' /\ FewerWait
    BY <1>1, <2>1, StillWaiting DEF KernelPart
  <2> QED
    BY <2>1, <2>2 DEF KernelPart
<1> QED
  BY <1>2, <1>3

LEMMA TickStep ==
  ASSUME KernelPart, workload \in Workloads, Tick
  PROVE  KernelPart' /\ FewerWait
<1>1. k' = AfterTick(k) /\ pc' = pc /\ workload' = workload
  BY DEF Tick, AfterTick
<1>2. NoneBlocks(k, k') /\ Controlled(k', pc')
  BY <1>1, SomeoneIsReady, TickIsControlled DEF KernelPart
<1>3. Waiting' /\ FewerWait
  BY <1>1, <1>2, StillWaiting DEF KernelPart
<1> QED
  BY <1>2, <1>3 DEF KernelPart

LEMMA ReceiverSteps ==
  ASSUME KernelPart, TimePart, NEW t \in Tasks,
         \/ \E wait \in workload.waits[t] : Receive(t, wait)
         \/ TakeItem(t) \/ GiveUpAtOnce(t) \/ StartWaiting(t) \/ GiveUp(t) \/ TryOnceMore(t)
  PROVE  KernelPart' /\ FewerWait
<1>0. Ordered(k) /\ Forever \in Nat /\ Ticks \subseteq 0 .. Forever /\ 0 \in 0 .. Forever
  BY TicksAreNumbers DEF KernelPart, Controlled, Forever, Ticks
<1>1. ASSUME NEW wait \in workload.waits[t], Receive(t, wait)
      PROVE  KernelPart' /\ FewerWait
  <2>1. /\ k.pxCurrentTCB = t /\ pc[t] \in Plain /\ k' = k /\ workload' = workload
        /\ pc' = [pc EXCEPT ![t] = "check"] /\ "check" \in Plain
    BY <1>1 DEF Receive, Running, Goto, Plain
  <2> QED
    BY <2>1, SameKernel, PlainStep
<1>2. CASE TakeItem(t)
  <2>1. /\ k.pxCurrentTCB = t /\ pc[t] \in Plain /\ k' = [k EXCEPT !.due[t] = 0]
        /\ workload' = workload
        /\ pc' = [pc EXCEPT ![t] = "run"] /\ "run" \in Plain
    BY <1>2 DEF TakeItem, Running, Return, Goto, Plain
  <2>2. NothingMoves(k, k') /\ SameControl(k, k')
    BY <1>0, <2>1, DueIsHistory
  <2> QED
    BY <2>1, <2>2, PlainStep
<1>3. CASE GiveUpAtOnce(t) \/ GiveUp(t)
  <2>1. /\ k.pxCurrentTCB = t /\ pc[t] \in Plain /\ k' = k /\ workload' = workload
        /\ pc' = [pc EXCEPT ![t] = "run"] /\ "run" \in Plain
    BY <1>3 DEF GiveUpAtOnce, GiveUp, Running, Return, Goto, Plain
  <2> QED
    BY <2>1, SameKernel, PlainStep
<1>4. CASE StartWaiting(t)
  <2> DEFINE d == IF xTicksToWait[t] = portMAX_DELAY THEN Forever ELSE xTicksToWait[t]
  <2>1. /\ k.pxCurrentTCB = t /\ pc[t] \in Plain /\ workload' = workload
        /\ k' = k \/ k' = [k EXCEPT !.due[t] = d]
        /\ pc' = [pc EXCEPT ![t] = "suspend"] /\ "suspend" \in Plain
    BY <1>4 DEF StartWaiting, Running, Goto, Plain
  <2>2. d \in 0 .. Forever
    <3>1. xTicksToWait[t] \in Ticks
      BY DEF TimePart
    <3>2. xTicksToWait[t] \in 0 .. Forever
      BY <1>0, <3>1
    <3>3. Forever \in 0 .. Forever
      BY <1>0
    <3> QED
      BY <3>2, <3>3
  <2> HIDE DEF d
  <2>3. NothingMoves(k, k') /\ SameControl(k, k')
    <3>1. CASE k' = k
      BY <3>1, SameKernel
    <3>2. CASE k' = [k EXCEPT !.due[t] = d]
      BY <1>0, <2>2, <3>2, DueIsHistory
    <3> QED
      BY <2>1, <3>1, <3>2
  <2> QED
    BY <2>1, <2>3, PlainStep
<1>5. CASE TryOnceMore(t)
  <2>1. /\ k.pxCurrentTCB = t /\ pc[t] \in Plain /\ k' = k /\ workload' = workload
        /\ pc' = [pc EXCEPT ![t] = "check"] /\ "check" \in Plain
    BY <1>5 DEF TryOnceMore, Running, Goto, Plain
  <2> QED
    BY <2>1, SameKernel, PlainStep
<1> QED
  BY <1>1, <1>2, <1>3, <1>4, <1>5

LEMMA ResumingSteps ==
  ASSUME KernelPart, workload \in Workloads, NEW t \in Tasks,
         \/ DelayResume(t) \/ WaitResume(t) \/ RetryResume(t) \/ LastResume(t)
         \/ Yield(t, "delayYield", "run") \/ Yield(t, "waitYield", "check")
  PROVE  KernelPart' /\ FewerWait
<1>0. /\ {"run", "check", "last"} \subseteq Plain
      /\ {"delayYield", "waitYield"} \subseteq Yielding
      /\ {"delayYield", "waitYield"} \cap Plain = {}
  BY DEF Plain, Yielding
<1>1. CASE DelayResume(t)
  <2>1. /\ k.pxCurrentTCB = t /\ pc[t] = "delayResume" /\ workload' = workload
        /\ ResumeAll(t, "run", "delayYield")
    BY <1>1 DEF DelayResume, Running
  <2> QED
    BY <1>0, <2>1, LabelKinds, ResumeStep
<1>2. CASE WaitResume(t)
  <2>1. /\ k.pxCurrentTCB = t /\ pc[t] = "waitResume" /\ workload' = workload
        /\ ResumeAll(t, "check", "waitYield")
    BY <1>2 DEF WaitResume, Running
  <2> QED
    BY <1>0, <2>1, LabelKinds, ResumeStep
<1>3. CASE RetryResume(t)
  <2>1. /\ k.pxCurrentTCB = t /\ pc[t] = "retryResume" /\ workload' = workload
        /\ ResumeAll(t, "check", "check")
    BY <1>3 DEF RetryResume, Running
  <2> QED
    BY <1>0, <2>1, LabelKinds, ResumeStep
<1>4. CASE LastResume(t)
  <2>1. /\ k.pxCurrentTCB = t /\ pc[t] = "lastResume" /\ workload' = workload
        /\ ResumeAll(t, "last", "last")
    BY <1>4 DEF LastResume, Running
  <2> QED
    BY <1>0, <2>1, LabelKinds, ResumeStep
<1>5. CASE Yield(t, "delayYield", "run")
  BY <1>0, <1>5, YieldStep
<1>6. CASE Yield(t, "waitYield", "check")
  BY <1>0, <1>6, YieldStep
<1> QED
  BY <1>1, <1>2, <1>3, <1>4, <1>5, <1>6

LEMMA KernelStep ==
  ASSUME KernelInv, [Next]_vars
  PROVE  KernelPart'
<1>1. KernelPart /\ TimePart /\ workload \in Workloads
  BY InvariantParts DEF QueuePart
<1>2. CASE Tick
  BY <1>1, <1>2, TickStep
<1>3. ASSUME NEW t \in Tasks, Step(t)
      PROVE  KernelPart'
  <2>1. CASE \E xTicksToDelay \in workload.delays[t] : Delay(t, xTicksToDelay)
    BY <1>1, <2>1, DelayStep
  <2>2. CASE \/ DelayResume(t) \/ WaitResume(t) \/ RetryResume(t) \/ LastResume(t)
             \/ Yield(t, "delayYield", "run") \/ Yield(t, "waitYield", "check")
    BY <1>1, <2>2, ResumingSteps
  <2>3. CASE \E item \in workload.items[t] : Send(t, item)
    BY <1>1, <2>3, SendStep
  <2>4. CASE \/ \E wait \in workload.waits[t] : Receive(t, wait)
             \/ TakeItem(t) \/ GiveUpAtOnce(t) \/ StartWaiting(t) \/ GiveUp(t) \/ TryOnceMore(t)
    BY <1>1, <2>4, ReceiverSteps
  <2>5. CASE WaitIsOver(t)
    BY <1>1, <2>5, WaitIsOverStep
  <2>6. CASE WaitGoesOn(t)
    BY <1>1, <2>6, WaitGoesOnStep
  <2> QED
    BY <1>3, <2>1, <2>2, <2>3, <2>4, <2>5, <2>6 DEF Step
<1>4. CASE UNCHANGED vars
  <2>1. k' = k /\ pc' = pc /\ workload' = workload
    BY <1>4 DEF vars
  <2> QED
    BY <1>1, <2>1 DEF KernelPart, Waiting, Waits, NeverBlocks
<1> QED
  BY <1>2, <1>3, <1>4 DEF Next

-----------------------------------------------------------------------------
(* The queue and the times. *)

LEMMA QueueStep ==
  ASSUME KernelInv, [Next]_vars
  PROVE  QueuePart'
<1>1. QueuePart /\ uxLength \in Nat /\ uxLength > 0
  BY InvariantParts, QueueAssumption
<1>2. \A i \in Nat : i % uxLength \in Slots
  BY <1>1 DEF Slots
<1>3. Slots \subseteq Nat
  BY DEF Slots
<1>4. ASSUME NEW t \in Tasks, NEW item \in workload.items[t], Send(t, item)
      PROVE  QueuePart'
  <2> DEFINE Items == {NoItem} \cup UNION {workload.items[u] : u \in Tasks}
  <2>1. pcStorage \in [Slots -> Items] /\ item \in Items
    BY <1>1 DEF QueuePart
  <2> HIDE DEF Items
  <2>2. pcStorage' \in [Slots -> Items]
    BY <1>4, <2>1 DEF Send
  <2>3. workload' = workload /\ Items' = Items
    BY <1>4 DEF Send, Items
  <2>4. pcWriteTo + 1 \in Nat
    BY <1>1, <1>3 DEF QueuePart
  <2>5. pcWriteTo' \in Slots /\ pcReadFrom' \in Slots
    BY <1>1, <1>2, <1>4, <2>4 DEF QueuePart, Send, WriteAfter
  <2>6. uxMessagesWaiting' \in 0 .. uxLength
    BY <1>1, <1>4 DEF QueuePart, Send, HasRoom
  <2> QED
    BY <1>1, <2>2, <2>3, <2>5, <2>6 DEF QueuePart, Items
<1>5. ASSUME NEW t \in Tasks, TakeItem(t)
      PROVE  QueuePart'
  <2>1. /\ uxMessagesWaiting' = uxMessagesWaiting - 1 /\ uxMessagesWaiting > 0
        /\ pcReadFrom' = (pcReadFrom + 1) % uxLength /\ workload' = workload
        /\ pcStorage' = pcStorage /\ pcWriteTo' = pcWriteTo
    BY <1>5 DEF TakeItem
  <2>2. pcReadFrom \in Nat
    BY <1>1, <1>3 DEF QueuePart
  <2>3. pcReadFrom' \in Slots
    <3> DEFINE next == pcReadFrom + 1
    <3>1. next \in Nat
      BY <2>2
    <3> QED
      BY <1>2, <2>1, <3>1
  <2>4. uxMessagesWaiting' \in 0 .. uxLength
    BY <1>1, <2>1 DEF QueuePart
  <2> QED
    BY <1>1, <2>1, <2>3, <2>4 DEF QueuePart
<1>6. CASE workload' = workload /\ UNCHANGED queue
  BY <1>1, <1>6 DEF QueuePart, queue
<1>7. CASE Tick
  <2>1. workload' = workload /\ UNCHANGED queue
    BY <1>7 DEF Tick
  <2> QED
    BY <1>6, <2>1
<1>8. ASSUME NEW t \in Tasks, Step(t)
      PROVE  QueuePart'
  <2>1. CASE \E ticks \in workload.delays[t] : Delay(t, ticks)
    BY <1>6, <2>1 DEF Delay
  <2>2. CASE DelayResume(t) \/ WaitResume(t) \/ RetryResume(t) \/ LastResume(t)
    BY <1>6, <2>2 DEF DelayResume, WaitResume, RetryResume, LastResume
  <2>3. CASE Yield(t, "delayYield", "run") \/ Yield(t, "waitYield", "check")
    BY <1>6, <2>3 DEF Yield
  <2>4. CASE \E wait \in workload.waits[t] : Receive(t, wait)
    BY <1>6, <2>4 DEF Receive
  <2>5. CASE GiveUpAtOnce(t) \/ StartWaiting(t) \/ GiveUp(t) \/ TryOnceMore(t)
    BY <1>6, <2>5 DEF GiveUpAtOnce, StartWaiting, GiveUp, TryOnceMore
  <2>6. CASE WaitIsOver(t) \/ WaitGoesOn(t)
    BY <1>6, <2>6 DEF WaitIsOver, WaitGoesOn
  <2> QED
    BY <1>4, <1>5, <1>8, <2>1, <2>2, <2>3, <2>4, <2>5, <2>6 DEF Step
<1>9. CASE UNCHANGED vars
  BY <1>6, <1>9 DEF vars
<1> QED
  BY <1>7, <1>8, <1>9 DEF Next

LEMMA SameTimes ==
  ASSUME TimePart, workload' = workload, UNCHANGED locals,
         \A t \in Tasks : pc'[t] = "suspend" => pc[t] = "suspend"
  PROVE  TimePart'
BY DEF TimePart, locals, Waits

LEMMA PcMoves ==
  ASSUME NEW t, NEW label, label # "suspend", pc' = [pc EXCEPT ![t] = label],
         pc \in [Tasks -> Labels]
  PROVE  \A u \in Tasks : pc'[u] = "suspend" => pc[u] = "suspend"
BY DEF Labels

(* The locals change at the running task alone.  *)
LEMMA TimesChange ==
  ASSUME TimePart, workload' = workload, NEW t \in Tasks,
         NEW wait \in Ticks, NEW since \in TimeOut, NEW set \in BOOLEAN,
         xTicksToWait' = [xTicksToWait EXCEPT ![t] = wait],
         xTimeOut' = [xTimeOut EXCEPT ![t] = since],
         xEntryTimeSet' = [xEntryTimeSet EXCEPT ![t] = set],
         wait # 0 => Waits(t),
         NEW label, pc' = [pc EXCEPT ![t] = label], label = "suspend" => wait # 0,
         pc \in [Tasks -> Labels]
  PROVE  TimePart'
<1>1. /\ xTicksToWait' \in [Tasks -> Ticks] /\ xTimeOut' \in [Tasks -> TimeOut]
      /\ xEntryTimeSet' \in [Tasks -> BOOLEAN]
  BY DEF TimePart
<1>2. \A u \in Tasks : Waits(u)' <=> Waits(u)
  BY DEF Waits
<1>3. ASSUME NEW u \in Tasks
      PROVE  (xTicksToWait'[u] # 0 => Waits(u)') /\ (pc'[u] = "suspend" => xTicksToWait'[u] # 0)
  <2>1. CASE u = t
    BY <1>2, <2>1 DEF TimePart
  <2>2. CASE u # t
    BY <1>2, <2>2 DEF TimePart
  <2> QED
    BY <2>1, <2>2
<1> QED
  BY <1>1, <1>3 DEF TimePart

LEMMA TimeStep ==
  ASSUME KernelInv, [Next]_vars
  PROVE  TimePart'
<1>1. /\ KernelPart /\ TimePart /\ workload \in Workloads /\ pc \in [Tasks -> Labels]
      /\ k \in Kernel
  BY InvariantParts DEF QueuePart, KernelPart, Controlled, Ordered
<1>2. 0 \in Ticks /\ NoTimeOut \in TimeOut /\ vTaskInternalSetTimeOutState(k) \in TimeOut
  BY <1>1, KernelFields, TicksAreNumbers DEF NoTimeOut, TimeOut, vTaskInternalSetTimeOutState
<1>3. CASE Tick \/ UNCHANGED vars
  <2>1. workload' = workload /\ UNCHANGED locals /\ pc' = pc
    BY <1>3 DEF Tick, vars
  <2> QED
    BY <1>1, <2>1, SameTimes
<1>4. ASSUME NEW t \in Tasks, Step(t)
      PROVE  TimePart'
  <2>0. /\ xTicksToWait \in [Tasks -> Ticks] /\ xTimeOut \in [Tasks -> TimeOut]
        /\ xEntryTimeSet \in [Tasks -> BOOLEAN]
        /\ xTicksToWait = [xTicksToWait EXCEPT ![t] = xTicksToWait[t]]
        /\ xTimeOut = [xTimeOut EXCEPT ![t] = xTimeOut[t]]
        /\ xEntryTimeSet = [xEntryTimeSet EXCEPT ![t] = xEntryTimeSet[t]]
        /\ xTicksToWait[t] \in Ticks /\ xTimeOut[t] \in TimeOut /\ xEntryTimeSet[t] \in BOOLEAN
        /\ xTicksToWait[t] # 0 => Waits(t)
    BY <1>1 DEF TimePart
  <2>1. CASE \/ \E ticks \in workload.delays[t] : Delay(t, ticks)
             \/ DelayResume(t) \/ WaitResume(t) \/ RetryResume(t) \/ LastResume(t)
             \/ Yield(t, "delayYield", "run") \/ Yield(t, "waitYield", "check") \/ TryOnceMore(t)
    <3>1. workload' = workload /\ UNCHANGED locals
      BY <2>1 DEF Delay, DelayResume, WaitResume, RetryResume, LastResume, Yield, TryOnceMore
    <3>2. PICK label : label # "suspend" /\ pc' = [pc EXCEPT ![t] = label]
      BY <2>1 DEF Delay, DelayResume, WaitResume, RetryResume, LastResume, Yield, TryOnceMore,
                  ResumeAll, Goto
    <3> QED
      BY <1>1, <3>1, <3>2, PcMoves, SameTimes
  <2>2. CASE \E item \in workload.items[t] : Send(t, item)
    <3>1. workload' = workload /\ UNCHANGED locals /\ pc' = pc
      BY <2>2 DEF Send
    <3> QED
      BY <1>1, <3>1, SameTimes
  <2>3. ASSUME NEW wait \in workload.waits[t], Receive(t, wait)
        PROVE  TimePart'
    <3>1. /\ workload' = workload /\ xTicksToWait' = [xTicksToWait EXCEPT ![t] = wait]
          /\ pc' = [pc EXCEPT ![t] = "check"]
      BY <2>3 DEF Receive, Goto
    <3>2. wait \in Ticks /\ (wait # 0 => Waits(t))
      BY <1>1, WorkloadTimes DEF Waits
    <3>3. PICK since \in TimeOut, set \in BOOLEAN :
             /\ xTimeOut' = [xTimeOut EXCEPT ![t] = since]
             /\ xEntryTimeSet' = [xEntryTimeSet EXCEPT ![t] = set]
      BY <2>0, <2>3 DEF Receive
    <3> QED
      BY <1>1, <3>1, <3>2, <3>3, TimesChange
  <2>4. CASE TakeItem(t) \/ GiveUpAtOnce(t) \/ GiveUp(t)
    <3>1. workload' = workload /\ Return(t)
      BY <2>4 DEF TakeItem, GiveUpAtOnce, GiveUp
    <3>2. /\ xTicksToWait' = [xTicksToWait EXCEPT ![t] = 0]
          /\ xTimeOut' = [xTimeOut EXCEPT ![t] = NoTimeOut]
          /\ xEntryTimeSet' = [xEntryTimeSet EXCEPT ![t] = FALSE]
          /\ pc' = [pc EXCEPT ![t] = "run"]
      BY <3>1 DEF Return, Goto
    <3> QED
      BY <1>1, <1>2, <3>1, <3>2, TimesChange
  <2>5. CASE StartWaiting(t)
    <3>1. /\ workload' = workload /\ xTicksToWait[t] # 0 /\ xTicksToWait' = xTicksToWait
          /\ pc' = [pc EXCEPT ![t] = "suspend"]
      BY <2>5 DEF StartWaiting, Goto
    <3>2. CASE xEntryTimeSet[t]
      <4>1. xTimeOut' = xTimeOut /\ xEntryTimeSet' = xEntryTimeSet
        BY <2>5, <3>2 DEF StartWaiting
      <4> QED
        BY <1>1, <2>0, <3>1, <4>1, TimesChange
    <3>3. CASE ~xEntryTimeSet[t]
      <4>1. /\ xTimeOut' = [xTimeOut EXCEPT ![t] = vTaskInternalSetTimeOutState(k)]
            /\ xEntryTimeSet' = [xEntryTimeSet EXCEPT ![t] = TRUE]
        BY <2>5, <3>3 DEF StartWaiting
      <4> QED
        BY <1>1, <1>2, <2>0, <3>1, <4>1, TimesChange
    <3> QED
      BY <3>2, <3>3
  <2>6. CASE WaitIsOver(t)
    <3>1. /\ workload' = workload /\ xTicksToWait' = [xTicksToWait EXCEPT ![t] = 0]
          /\ pc' = [pc EXCEPT ![t] = "lastResume"]
      BY <2>6 DEF WaitIsOver, Goto
    <3>2. PICK since \in TimeOut, set \in BOOLEAN :
             /\ xTimeOut' = [xTimeOut EXCEPT ![t] = since]
             /\ xEntryTimeSet' = [xEntryTimeSet EXCEPT ![t] = set]
      BY <2>0, <2>6 DEF WaitIsOver
    <3> QED
      BY <1>1, <1>2, <3>1, <3>2, TimesChange
  <2>7. CASE WaitGoesOn(t)
    <3> DEFINE left == TimeLeft(t)
               since == IF xTicksToWait[t] = portMAX_DELAY THEN xTimeOut[t]
                        ELSE vTaskInternalSetTimeOutState(k)
    <3>1. left \in Ticks /\ since \in TimeOut
      <4>1. ~TimedOut(k, xTimeOut[t], xTicksToWait[t])
        BY <2>7 DEF WaitGoesOn
      <4> QED
        BY <1>1, <1>2, <2>0, <4>1, TimeLeftIsTicks
    <3>2. xTicksToWait[t] # 0 /\ Waits(t)
      BY <1>1, <2>7 DEF WaitGoesOn, Running, TimePart
    <3>3. /\ workload' = workload /\ xTicksToWait' = [xTicksToWait EXCEPT ![t] = left]
          /\ xTimeOut' = [xTimeOut EXCEPT ![t] = since] /\ xEntryTimeSet' = xEntryTimeSet
      BY <2>0, <2>7 DEF WaitGoesOn
    <3>4. PICK label : label # "suspend" /\ pc' = [pc EXCEPT ![t] = label]
      BY <2>7 DEF WaitGoesOn, Goto
    <3> HIDE DEF left, since
    <3> QED
      BY <1>1, <2>0, <3>1, <3>2, <3>3, <3>4, TimesChange
  <2> QED
    BY <1>4, <2>1, <2>2, <2>3, <2>4, <2>5, <2>6, <2>7 DEF Step
<1> QED
  BY <1>3, <1>4 DEF Next

-----------------------------------------------------------------------------
LEMMA KernelInitially == Init => KernelInv
<1> SUFFICES ASSUME Init
             PROVE  KernelInv
  OBVIOUS
<1>1. /\ workload \in Workloads /\ k = InitialKernel /\ pc = [t \in Tasks |-> "run"]
      /\ pcStorage = [s \in Slots |-> NoItem] /\ pcWriteTo = 0 /\ pcReadFrom = uxLength - 1
      /\ uxMessagesWaiting = 0 /\ xTicksToWait = [t \in Tasks |-> 0]
      /\ xTimeOut = [t \in Tasks |-> NoTimeOut] /\ xEntryTimeSet = [t \in Tasks |-> FALSE]
  BY DEF Init
<1>2. /\ Ordered(k) /\ ReadyTasks(k) = Tasks /\ Highest(k) /\ Waiters(k) = {}
      /\ k.xYieldPending = FALSE /\ k.uxSchedulerSuspended = 0
  BY <1>1, EverybodyStarts DEF Starts
<1>3. k.pxCurrentTCB \in Tasks /\ pc \in [Tasks -> Labels]
      /\ \A t \in Tasks : pc[t] \notin SchedulerHeld /\ pc[t] # "suspend"
  BY <1>1, <1>2, CurrentIsTask DEF Labels, SchedulerHeld
<1>4. KernelPart
  <2>1. Controlled(k, pc)
    BY <1>2, <1>3, SwitchIsControlled
  <2> QED
    BY <1>2, <2>1 DEF KernelPart, Waiting
<1>5. QueuePart
  BY <1>1, QueueAssumption DEF QueuePart, Slots
<1>6. TimePart
  <2>1. 0 \in Ticks /\ NoTimeOut \in TimeOut
    BY TicksAreNumbers DEF NoTimeOut, TimeOut
  <2> QED
    BY <1>1, <1>3, <2>1 DEF TimePart
<1> QED
  BY <1>4, <1>5, <1>6, InvariantParts

(* The invariant of the kernel: every task is in one list for its state,   *)
(* once; the scheduler is held up only by who runs; no yield is forgotten; *)
(* an idle task is always ready.                                           *)
THEOREM KernelStaysOrdered == Spec => []KernelInv
<1>1. Init => KernelInv
  BY KernelInitially
<1>2. KernelInv /\ [Next]_vars => KernelInv'
  <2> SUFFICES ASSUME KernelInv, [Next]_vars
               PROVE  KernelInv'
    OBVIOUS
  <2>1. KernelPart' /\ QueuePart' /\ TimePart'
    BY KernelStep, QueueStep, TimeStep
  <2>2. (KernelInv <=> KernelPart /\ QueuePart /\ TimePart)'
    BY InvariantParts, PTL
  <2> QED
    BY <2>1, <2>2
<1> QED
  BY <1>1, <1>2, PTL DEF Spec

(* Whenever the scheduler is not held up and no yield is about to come,    *)
(* the running task is ready and no ready task has a higher priority.      *)
THEOREM HighestPriorityRuns == Spec => []RightTaskRuns
<1>1. KernelInv => RightTaskRuns
  <2> SUFFICES ASSUME KernelInv, k.uxSchedulerSuspended = 0,
                      pc[k.pxCurrentTCB] \notin {"delayYield", "waitYield"}
               PROVE  IsReady(k, k.pxCurrentTCB) /\ NoneIsHigher
    BY DEF RightTaskRuns
  <2>1. pc[k.pxCurrentTCB] \notin SchedulerHeld
    BY DEF KernelInv, ControlInv
  <2>2. pc[k.pxCurrentTCB] \notin Blocking /\ pc[k.pxCurrentTCB] \notin Yielding
    BY <2>1 DEF Blocking, Yielding, SchedulerHeld
  <2> QED
    BY <2>2 DEF KernelInv, ControlInv
<1> QED
  BY <1>1, KernelStaysOrdered, PTL

-----------------------------------------------------------------------------
(* No wakeup is lost. *)

LEMMA EmptyList ==
  ASSUME NEW kern, Ordered(kern)
  PROVE  Waiters(kern) = {} <=> kern.xTasksWaitingToReceive = <<>>
<1>1. kern.xTasksWaitingToReceive \in Seq(Tasks)
  BY KernelFields DEF Ordered
<1> DEFINE list == kern.xTasksWaitingToReceive
<1>2. Waiters(kern) = {list[i] : i \in 1 .. Len(list)} /\ Len(list) \in Nat
  BY <1>1, ItemsOf DEF Waiters
<1>3. list = <<>> <=> Len(list) = 0
  BY <1>1, EmptySeq
<1>4. CASE Len(list) = 0
  BY <1>2, <1>3, <1>4
<1>5. CASE Len(list) # 0
  <2>1. 1 \in 1 .. Len(list)
    BY <1>2, <1>5
  <2>2. list[1] \in Waiters(kern)
    BY <1>2, <2>1
  <2> QED
    BY <1>3, <1>5, <2>2
<1> QED
  BY <1>4, <1>5

LEMMA OnlyOneWaits ==
  ASSUME OneReceiver, KernelPart, workload \in Workloads,
         NEW t \in Waiters(k), NEW u \in Waiters(k)
  PROVE  t = u
<1>1. t \in Tasks /\ u \in Tasks
  <2>1. k.xTasksWaitingToReceive \in Seq(Tasks)
    BY KernelFields DEF KernelPart, Controlled, Ordered
  <2> QED
    BY <2>1, ItemsOf DEF Waiters
<1>2. workload.waits[t] \ {0} # {} /\ workload.waits[u] \ {0} # {}
  BY DEF KernelPart, Waiting, Waits
<1> QED
  BY <1>1, <1>2 DEF OneReceiver

(* A send finds the one task that waits, and wakes it. *)
LEMMA SendWakes ==
  ASSUME OneReceiver, KernelPart, workload \in Workloads, NEW t, NEW item, Send(t, item)
  PROVE  Waiters(k') = {}
<1>1. /\ Controlled(k, pc) /\ Ordered(k) /\ pc[k.pxCurrentTCB] = "run"
      /\ k' = IF k.xTasksWaitingToReceive = <<>> THEN k ELSE xTaskRemoveFromEventList(k)
  BY DEF Send, Running, KernelPart, Controlled
<1>2. CASE k.xTasksWaitingToReceive = <<>>
  BY <1>1, <1>2, EmptyList
<1>3. CASE k.xTasksWaitingToReceive # <<>>
  <2>1. Waiters(k') = Waiters(k) \ {Head(k.xTasksWaitingToReceive)}
    BY <1>1, <1>3, SendIsControlled
  <2>2. Head(k.xTasksWaitingToReceive) \in Waiters(k)
    <3>1. k.xTasksWaitingToReceive \in Seq(Tasks)
      BY <1>1, KernelFields DEF Ordered
    <3>2. /\ 1 \in 1 .. Len(k.xTasksWaitingToReceive)
          /\ Head(k.xTasksWaitingToReceive) = k.xTasksWaitingToReceive[1]
      BY <1>3, <3>1
    <3> QED
      BY <3>1, <3>2, ItemsOf DEF Waiters
  <2> QED
    BY <2>1, <2>2, OnlyOneWaits
<1> QED
  BY <1>2, <1>3

Empty == Waiters(k) # {} => uxMessagesWaiting = 0

LEMMA StaysEmpty ==
  ASSUME Empty, FewerWait, uxMessagesWaiting' = uxMessagesWaiting
  PROVE  Empty'
BY DEF Empty, FewerWait

LEMMA EmptyStep ==
  ASSUME OneReceiver, KernelInv, Empty, [Next]_vars
  PROVE  Empty'
<1>1. KernelPart /\ TimePart /\ workload \in Workloads
  BY InvariantParts DEF QueuePart
<1>2. CASE Tick
  <2>1. uxMessagesWaiting' = uxMessagesWaiting
    BY <1>2 DEF Tick, queue
  <2> QED
    BY <1>1, <1>2, <2>1, TickStep, StaysEmpty
<1>3. ASSUME NEW t \in Tasks, Step(t)
      PROVE  Empty'
  <2>1. CASE \E ticks \in workload.delays[t] : Delay(t, ticks)
    <3>1. uxMessagesWaiting' = uxMessagesWaiting
      BY <2>1 DEF Delay, queue
    <3> QED
      BY <1>1, <2>1, <3>1, DelayStep, StaysEmpty
  <2>2. CASE \/ DelayResume(t) \/ WaitResume(t) \/ RetryResume(t) \/ LastResume(t)
             \/ Yield(t, "delayYield", "run") \/ Yield(t, "waitYield", "check")
    <3>1. uxMessagesWaiting' = uxMessagesWaiting
      BY <2>2 DEF DelayResume, WaitResume, RetryResume, LastResume, Yield, queue
    <3> QED
      BY <1>1, <2>2, <3>1, ResumingSteps, StaysEmpty
  <2>3. CASE \E item \in workload.items[t] : Send(t, item)
    BY <1>1, <2>3, SendWakes DEF Empty
  <2>4. CASE \/ \E wait \in workload.waits[t] : Receive(t, wait)
             \/ GiveUpAtOnce(t) \/ StartWaiting(t) \/ GiveUp(t) \/ TryOnceMore(t)
    <3>1. uxMessagesWaiting' = uxMessagesWaiting
      BY <2>4 DEF Receive, GiveUpAtOnce, StartWaiting, GiveUp, TryOnceMore, queue
    <3>2. FewerWait
      BY <1>1, <2>4, ReceiverSteps
    <3> QED
      BY <3>1, <3>2, StaysEmpty
  <2>5. CASE TakeItem(t)
    <3>1. uxMessagesWaiting # 0
      BY <2>5 DEF TakeItem
    <3>2. FewerWait
      BY <1>1, <2>5, ReceiverSteps
    <3> QED
      BY <3>1, <3>2 DEF Empty, FewerWait
  <2>6. CASE WaitIsOver(t)
    <3>1. uxMessagesWaiting' = uxMessagesWaiting
      BY <2>6 DEF WaitIsOver, queue
    <3> QED
      BY <1>1, <2>6, <3>1, WaitIsOverStep, StaysEmpty
  <2>7. CASE WaitGoesOn(t)
    <3>1. uxMessagesWaiting' = uxMessagesWaiting
      BY <2>7 DEF WaitGoesOn, queue
    <3>2. CASE uxMessagesWaiting = 0
      BY <3>1, <3>2 DEF Empty
    <3>3. CASE uxMessagesWaiting # 0
      <4>1. k' = vTaskSuspendAll(k)
        BY <2>7, <3>3 DEF WaitGoesOn
      <4>2. k.xTasksWaitingToReceive = k'.xTasksWaitingToReceive
        BY <4>1 DEF vTaskSuspendAll
      <4>3. FewerWait
        BY <4>2 DEF FewerWait, Waiters
      <4> QED
        BY <3>1, <4>3, StaysEmpty
    <3> QED
      BY <3>2, <3>3
  <2> QED
    BY <1>3, <2>1, <2>2, <2>3, <2>4, <2>5, <2>6, <2>7 DEF Step
<1>4. CASE UNCHANGED vars
  <2>1. k' = k /\ uxMessagesWaiting' = uxMessagesWaiting
    BY <1>4 DEF vars, queue
  <2> QED
    BY <2>1 DEF Empty
<1> QED
  BY <1>2, <1>3, <1>4 DEF Next

(* The one task that waits for the queue never waits while there is        *)
(* something in it.                                                        *)
THEOREM NoWakeupIsLost ==
  ASSUME OneReceiver
  PROVE  Spec => []NoLostWakeup
<1>1. Init => Empty
  BY DEF Init, Empty
<1>2. KernelInv /\ Empty /\ [Next]_vars => Empty'
  BY EmptyStep
<1>3. KernelInv /\ Empty => NoLostWakeup
  <2> SUFFICES ASSUME KernelInv, Empty
               PROVE  NoLostWakeup
    OBVIOUS
  <2>1. Waiters(k) = {} <=> k.xTasksWaitingToReceive = <<>>
    BY InvariantParts, EmptyList DEF KernelPart, Controlled
  <2> QED
    BY <2>1 DEF Empty, NoLostWakeup
<1> QED
  BY <1>1, <1>2, <1>3, KernelStaysOrdered, PTL DEF Spec
-----------------------------------------------------------------------------
(* Where an insertion and a removal leave the other items.  *)

LEMMA PlacesAfterInsert ==
  ASSUME NEW E, NEW s \in Seq(E), NEW i \in 1 .. (Len(s) + 1), NEW e \in E
  PROVE  /\ InsertAt(s, i, e) \in Seq(E) /\ Len(InsertAt(s, i, e)) = Len(s) + 1
         /\ \A j \in 1 .. (Len(s) + 1) :
               /\ j < i => InsertAt(s, i, e)[j] = s[j]
               /\ j = i => InsertAt(s, i, e)[j] = e
               /\ j > i => InsertAt(s, i, e)[j] = s[j - 1]
<1> DEFINE q == TimeOutFold!InsertAt(s, i, e)
<1>1. q \in Seq(E)
  BY TimeOutFold!Inserted
<1>2. TimeOutFold!Spliced(q, s, i, e)
  BY TimeOutFold!InsertionSplices
<1>3. InsertAt(s, i, e) = q
  BY DEF InsertAt, TimeOutFold!InsertAt
<1> HIDE DEF q
<1> QED
  BY <1>1, <1>2, <1>3 DEF TimeOutFold!Spliced

Spliced(q, s, i, e) == TimeOutFold!Spliced(q, s, i, e)

LEMMA InsertionSplices ==
  ASSUME NEW E, NEW s \in Seq(E), NEW i \in 1 .. (Len(s) + 1), NEW e \in E
  PROVE  Spliced(InsertAt(s, i, e), s, i, e)
<1> DEFINE q == TimeOutFold!InsertAt(s, i, e)
<1>1. TimeOutFold!Spliced(q, s, i, e)
  BY TimeOutFold!InsertionSplices
<1>2. InsertAt(s, i, e) = q
  BY DEF InsertAt, TimeOutFold!InsertAt
<1> HIDE DEF q
<1> QED
  BY <1>1, <1>2 DEF Spliced

LEMMA PlacesAfterRemove ==
  ASSUME NEW E, NEW s \in Seq(E), NEW i \in 1 .. Len(s)
  PROVE  /\ RemoveAt(s, i) \in Seq(E) /\ Len(RemoveAt(s, i)) = Len(s) - 1
         /\ \A j \in 1 .. (Len(s) - 1) : RemoveAt(s, i)[j] = IF j < i THEN s[j] ELSE s[j + 1]
<1> DEFINE q == TimeOutFold!RemoveAt(s, i)
<1>1. /\ q \in Seq(E) /\ Len(q) = Len(s) - 1
      /\ \A j \in 1 .. (Len(s) - 1) : q[j] = IF j < i THEN s[j] ELSE s[j + 1]
  BY TimeOutFold!Removed
<1>2. RemoveAt(s, i) = q
  BY DEF RemoveAt, TimeOutFold!RemoveAt
<1> HIDE DEF q
<1> QED
  BY <1>1, <1>2

LEMMA NoMoreThanElements ==
  ASSUME NEW E, NEW s \in Seq(E), IsInjective(s), NEW S, ToSet(s) \subseteq S, IsFiniteSet(S)
  PROVE  Len(s) <= Cardinality(S)
<1>1. Len(s) \in Nat /\ DOMAIN s = 1 .. Len(s) /\ s \in [1 .. Len(s) -> S]
  BY ItemsOf
<1>2. \A i, j \in 1 .. Len(s) : s[i] = s[j] => i = j
  BY <1>1 DEF IsInjective
<1>3. IsFiniteSet(1 .. Len(s)) /\ Cardinality(1 .. Len(s)) = Len(s)
  BY <1>1, FS_Interval
<1>4. ~(Cardinality(S) < Cardinality(1 .. Len(s)))
  BY <1>1, <1>2, <1>3, FS_PigeonHole
<1>5. Cardinality(S) \in Nat
  BY FS_CardinalityType
<1> QED
  BY <1>1, <1>3, <1>4, <1>5

-----------------------------------------------------------------------------
(* Fair shares.  n tasks share the processor with the one at place i of a  *)
(* ready list of len items whose index is at index; it has been passed     *)
(* over count times.  Until the index has come to the end of the list, the *)
(* items it still has to pass were there when the task was chosen, or made *)
(* ready, last: an item made ready goes behind the index.  From the end    *)
(* marker on the items before the task are chosen, once each.              *)
FairPlace(i, len, index, count, n) ==
    IF i <= index THEN count + (len - index) <= n
    ELSE count + (i - 1 - index) <= 2 * n
FairList(list, passed, n) ==
    \A i \in 1 .. Len(list.items) :
        FairPlace(i, Len(list.items), list.index, passed[list.items[i]], n)

LEMMA FairAfterInsert ==
  ASSUME NEW E, NEW list \in ListsOf(E), ListSound(list), NEW e \in E,
         NEW passed \in [E -> Nat], NEW n \in Nat,
         passed[e] = 0, Len(list.items) <= n, FairList(list, passed, n)
  PROVE  FairList(vListInsertEnd(list, e), passed, n)
<1> DEFINE s == list.items
           x == list.index
           len == Len(s)
<1>1. s \in Seq(E) /\ x \in Nat /\ x <= len /\ len \in Nat /\ len <= n
  BY DEF ListsOf, ListSound
<1>2. \A i \in 1 .. len : s[i] \in E /\ passed[s[i]] \in Nat /\ FairPlace(i, len, x, passed[s[i]], n)
  BY <1>1 DEF FairList
<1>3. CASE x = 0
  <2> DEFINE q == Append(s, e)
  <2>1. vListInsertEnd(list, e) = [list EXCEPT !.items = q]
    BY <1>3 DEF vListInsertEnd
  <2>2. Len(q) = len + 1 /\ q[len + 1] = e /\ \A i \in 1 .. len : q[i] = s[i]
    BY <1>1, AppendProperties
  <2> HIDE DEF q
  <2>3. /\ vListInsertEnd(list, e).items = q /\ vListInsertEnd(list, e).index = 0
    BY <1>3, <2>1 DEF ListsOf
  <2> HIDE DEF s, x, len
  <2>4. ASSUME NEW i \in 1 .. (len + 1)
        PROVE  FairPlace(i, len + 1, 0, passed[q[i]], n)
    <3>1. CASE i \in 1 .. len
      <4>1. passed[q[i]] \in Nat /\ FairPlace(i, len, 0, passed[q[i]], n)
        BY <1>2, <1>3, <2>2, <3>1
      <4> QED
        BY <1>1, <3>1, <4>1 DEF FairPlace
    <3>2. CASE i = len + 1
      BY <1>1, <2>2, <3>2 DEF FairPlace
    <3> QED
      BY <1>1, <3>1, <3>2
  <2> QED
    BY <2>2, <2>3, <2>4 DEF FairList
<1>4. CASE x # 0
  <2> DEFINE q == InsertAt(s, x, e)
  <2>1. vListInsertEnd(list, e) = [items |-> q, index |-> x + 1]
    BY <1>4 DEF vListInsertEnd
  <2> HIDE DEF s, x, len
  <2>2. Len(q) = len + 1
        /\ \A j \in 1 .. (len + 1) : q[j] = IF j < x THEN s[j] ELSE IF j = x THEN e ELSE s[j - 1]
    <3>1. x \in 1 .. (Len(s) + 1)
      BY <1>1, <1>4 DEF len
    <3>2. s \in Seq(E)
      BY <1>1
    <3>3. Spliced(InsertAt(s, x, e), s, x, e)
      BY <3>1, <3>2, InsertionSplices
    <3>4. len = Len(s) /\ len \in Nat
      BY <1>1 DEF len
    <3> HIDE DEF q
    <3>5. Spliced(q, s, x, e)
      BY <3>3 DEF q
    <3>6. ASSUME NEW j \in 1 .. (len + 1)
          PROVE  q[j] = IF j < x THEN s[j] ELSE IF j = x THEN e ELSE s[j - 1]
      BY <1>1, <3>4, <3>5 DEF Spliced, TimeOutFold!Spliced
    <3> QED
      BY <3>4, <3>5, <3>6 DEF Spliced, TimeOutFold!Spliced
  <2> HIDE DEF q
  <2>4. ASSUME NEW i \in 1 .. (len + 1)
        PROVE  FairPlace(i, len + 1, x + 1, passed[q[i]], n)
    <3>1. CASE i < x
      <4>1. i \in 1 .. len /\ q[i] = s[i]
        BY <1>1, <2>2, <3>1
      <4>2. passed[q[i]] \in Nat /\ FairPlace(i, len, x, passed[q[i]], n)
        BY <1>2, <4>1
      <4> QED
        BY <1>1, <3>1, <4>1, <4>2 DEF FairPlace
    <3>2. CASE i = x
      BY <1>1, <2>2, <3>2 DEF FairPlace
    <3>3. CASE i > x
      <4>1. i - 1 \in 1 .. len /\ q[i] = s[i - 1]
        BY <1>1, <1>4, <2>2, <3>3
      <4>2. passed[q[i]] \in Nat /\ FairPlace(i - 1, len, x, passed[q[i]], n)
        BY <1>2, <4>1
      <4> QED
        BY <1>1, <3>3, <4>1, <4>2 DEF FairPlace
    <3> QED
      BY <1>1, <3>1, <3>2, <3>3
  <2> QED
    BY <2>1, <2>2, <2>4 DEF FairList
<1> QED
  BY <1>3, <1>4

LEMMA FairAfterRemove ==
  ASSUME NEW E, NEW list \in ListsOf(E), ListSound(list), NEW e \in ToSet(list.items),
         NEW passed \in [E -> Nat], NEW n \in Nat, FairList(list, passed, n)
  PROVE  FairList(uxListRemove(list, e), passed, n)
<1> DEFINE s == list.items
           x == list.index
           len == Len(s)
           at == SelectInSeq(s, LAMBDA j : j = e)
           q == RemoveAt(s, at)
           y == IF at <= x THEN x - 1 ELSE x
<1>1. s \in Seq(E) /\ x \in Nat /\ x <= len /\ len \in Nat /\ IsInjective(s)
  BY DEF ListsOf, ListSound
<1>2. \A i \in 1 .. len : s[i] \in E /\ passed[s[i]] \in Nat /\ FairPlace(i, len, x, passed[s[i]], n)
  BY <1>1 DEF FairList
<1>3. uxListRemove(list, e) = [items |-> q, index |-> y]
  BY DEF uxListRemove
<1>4. at \in 1 .. len
  <2> HIDE DEF s
  <2> QED
    BY <1>1, FoundAt DEF s
<1> HIDE DEF at, s, len
<1>5. Len(q) = len - 1 /\ \A j \in 1 .. (len - 1) : q[j] = IF j < at THEN s[j] ELSE s[j + 1]
  BY <1>1, <1>4, PlacesAfterRemove DEF len
<1> HIDE DEF q, x
<1>6. ASSUME NEW i \in 1 .. (len - 1)
      PROVE  FairPlace(i, len - 1, y, passed[q[i]], n)
  <2>1. CASE i < at
    <3>1. i \in 1 .. len /\ q[i] = s[i]
      BY <1>1, <1>5, <2>1
    <3>2. passed[q[i]] \in Nat /\ FairPlace(i, len, x, passed[q[i]], n)
      BY <1>2, <3>1
    <3> QED
      BY <1>1, <1>4, <2>1, <3>1, <3>2 DEF FairPlace
  <2>2. CASE i >= at
    <3>1. i + 1 \in 1 .. len /\ q[i] = s[i + 1]
      BY <1>1, <1>4, <1>5, <2>2
    <3>2. passed[q[i]] \in Nat /\ FairPlace(i + 1, len, x, passed[q[i]], n)
      BY <1>2, <3>1
    <3> QED
      BY <1>1, <1>4, <2>2, <3>1, <3>2 DEF FairPlace
  <2> QED
    BY <1>4, <2>1, <2>2
<1> HIDE DEF y
<1> QED
  BY <1>3, <1>5, <1>6 DEF FairList

(* The one that is chosen starts again, every other has been passed over.  *)
LEMMA FairAfterNext ==
  ASSUME NEW E, NEW list \in ListsOf(E), ListSound(list), list.items # <<>>,
         NEW passed \in [E -> Nat], NEW n \in Nat, Len(list.items) <= n + 1,
         FairList(list, passed, n),
         NEW counts, counts[ListOwner(ListNextEntry(list))] = 0,
         \A t \in ToSet(list.items) :
             t # ListOwner(ListNextEntry(list)) => counts[t] = passed[t] + 1
  PROVE  FairList(ListNextEntry(list), counts, n)
<1> DEFINE s == list.items
           x == list.index
           len == Len(s)
           y == IF x = len THEN 1 ELSE x + 1
<1>1. s \in Seq(E) /\ x \in Nat /\ x <= len /\ len \in Nat /\ len > 0 /\ len <= n + 1
  BY EmptySeq DEF ListsOf, ListSound
<1>2. \A i \in 1 .. len : s[i] \in E /\ passed[s[i]] \in Nat /\ FairPlace(i, len, x, passed[s[i]], n)
  BY <1>1 DEF FairList
<1>3. ListNextEntry(list) = [items |-> s, index |-> y]
  BY DEF ListNextEntry, ListsOf
<1>4. y \in 1 .. len /\ ListOwner(ListNextEntry(list)) = s[y]
  BY <1>1, <1>3 DEF ListOwner
<1>5. \A i \in 1 .. len : counts[s[i]] = 0 \/ counts[s[i]] = passed[s[i]] + 1
  <2> HIDE DEF s, y
  <2> QED
    BY <1>1, <1>4, ItemsOf DEF s, len
<1>6. counts[s[y]] = 0
  BY <1>4
<1>7. \A i \in 1 .. len : i # y /\ counts[s[i]] # 0 => counts[s[i]] = passed[s[i]] + 1
  BY <1>5
<1> HIDE DEF s, x, len
<1>8. ASSUME NEW i \in 1 .. len
      PROVE  FairPlace(i, len, y, counts[s[i]], n)
  <2>1. CASE i = y
    BY <1>1, <1>6, <2>1 DEF FairPlace
  <2>2. CASE i # y /\ counts[s[i]] = passed[s[i]] + 1
    BY <1>1, <1>2, <2>2 DEF FairPlace
  <2>3. CASE i # y /\ counts[s[i]] = 0
    BY <1>1, <1>2, <2>3 DEF FairPlace
  <2> QED
    BY <1>5, <2>1, <2>2, <2>3
<1> HIDE DEF y
<1> QED
  BY <1>3, <1>8 DEF FairList, s, len

(* The tasks that share a priority, and how many they are beside oneself.  *)
Peers(p)  == {t \in Tasks : Priority[t] = p}
Others(p) == Cardinality(Peers(p)) - 1

LEMMA PeersAreFinite == \A p : IsFiniteSet(Peers(p)) /\ Cardinality(Peers(p)) \in Nat
<1>1. IsFiniteSet(Tasks)
  <2>1. /\ CreationOrder \in Seq(Tasks) /\ Len(CreationOrder) \in Nat
        /\ Tasks = {CreationOrder[i] : i \in 1 .. Len(CreationOrder)}
    BY KernelAssumption DEF Tasks, ToSet
  <2>2. CreationOrder \in Surjection(1 .. Len(CreationOrder), Tasks)
    BY <2>1 DEF Surjection
  <2> QED
    BY <2>1, <2>2, FS_Interval, FS_Surjection
<1>2. \A p : Peers(p) \in SUBSET Tasks
  BY DEF Peers
<1>3. \A p : IsFiniteSet(Peers(p))
  BY <1>1, <1>2, FS_Subset
<1> QED
  BY <1>3, FS_CardinalityType

LEMMA OthersAre ==
  ASSUME NEW t \in Tasks
  PROVE  /\ Others(Priority[t]) \in Nat
         /\ Others(Priority[t]) = Cardinality({u \in Tasks \ {t} : Priority[u] = Priority[t]})
<1> DEFINE P == Peers(Priority[t])
<1>1. IsFiniteSet(P) /\ t \in P
  BY PeersAreFinite DEF Peers
<1>2. {u \in Tasks \ {t} : Priority[u] = Priority[t]} = P \ {t}
  BY DEF Peers
<1> HIDE DEF P
<1>3. IsFiniteSet(P \ {t}) /\ Cardinality(P \ {t}) = Cardinality(P) - 1
  BY <1>1, FS_RemoveElement
<1>4. Cardinality(P \ {t}) \in Nat
  BY <1>3, FS_CardinalityType
<1> QED
  BY <1>2, <1>3, <1>4 DEF Others, P

LEMMA ListLength ==
  ASSUME NEW kern \in Kernel, ReadySound(kern), NEW t \in Tasks
  PROVE  LET items == kern.pxReadyTasksLists[Priority[t]].items IN
         /\ Len(items) <= Others(Priority[t]) + 1
         /\ t \notin ReadyTasks(kern) => Len(items) <= Others(Priority[t])
<1> DEFINE p == Priority[t]
           items == kern.pxReadyTasksLists[p].items
<1>1. p \in 0 .. TopPriority
  BY PriorityRange
<1>2. items \in Seq(Tasks) /\ IsInjective(items)
      /\ ToSet(items) = {u \in ReadyTasks(kern) : Priority[u] = p}
  BY <1>1, OneReadyList DEF ItemsAt, ListsOf, ListSound
<1>3. IsFiniteSet(Peers(p)) /\ Cardinality(Peers(p)) \in Nat /\ ToSet(items) \subseteq Peers(p)
  BY <1>2, PeersAreFinite DEF Peers, ReadyTasks
<1>4. t \notin ReadyTasks(kern) => ToSet(items) \subseteq Peers(p) \ {t}
  BY <1>2, <1>3
<1>5. /\ IsFiniteSet(Peers(p) \ {t}) /\ Cardinality(Peers(p) \ {t}) = Cardinality(Peers(p)) - 1
  BY <1>3, FS_RemoveElement DEF Peers
<1> HIDE DEF items, p
<1>6. Len(items) \in Nat /\ Len(items) <= Cardinality(Peers(p))
  BY <1>2, <1>3, NoMoreThanElements
<1>7. t \notin ReadyTasks(kern) => Len(items) <= Cardinality(Peers(p) \ {t})
  BY <1>2, <1>4, <1>5, NoMoreThanElements
<1>8. Len(items) <= Others(p) + 1 /\ (t \notin ReadyTasks(kern) => Len(items) <= Others(p))
  BY <1>3, <1>5, <1>6, <1>7 DEF Others
<1> QED
  BY <1>8 DEF items, p

(* What makes FairShare inductive. *)
Fair(kern) ==
    /\ \A p \in 0 .. TopPriority : FairList(kern.pxReadyTasksLists[p], kern.passed, Others(p))
    /\ \A t \in Tasks \ ReadyTasks(kern) : kern.passed[t] = 0
    /\ kern.passed[kern.pxCurrentTCB] = 0

LEMMA FairMeansShared ==
  ASSUME NEW kern \in Kernel, ReadySound(kern), Fair(kern), NEW t \in Tasks
  PROVE  kern.passed[t] <= 2 * Others(Priority[t])
<1> DEFINE p == Priority[t]
           list == kern.pxReadyTasksLists[p]
<1>1. Others(p) \in Nat /\ kern.passed[t] \in Nat /\ p \in 0 .. TopPriority
  BY OthersAre, KernelFields, PriorityRange
<1>2. CASE t \in ReadyTasks(kern)
  <2>1. t \in ToSet(list.items) /\ list \in ListsOf(Tasks) /\ ListSound(list)
    BY <1>1, <1>2, OneReadyList DEF ItemsAt
  <2>2. FairList(list, kern.passed, Others(p))
    BY <1>1 DEF Fair
  <2> HIDE DEF list, p
  <2>3. /\ list.items \in Seq(Tasks) /\ Len(list.items) \in Nat /\ list.index \in Nat
        /\ list.index <= Len(list.items)
    BY <2>1 DEF ListsOf, ListSound
  <2>4. PICK i \in 1 .. Len(list.items) : list.items[i] = t
    BY <2>1, <2>3, ItemsOf
  <2>5. FairPlace(i, Len(list.items), list.index, kern.passed[t], Others(p))
    BY <2>2, <2>4 DEF FairList
  <2> QED
    BY <1>1, <2>3, <2>5 DEF FairPlace, p
<1>3. CASE t \notin ReadyTasks(kern)
  BY <1>1, <1>3 DEF Fair
<1> QED
  BY <1>2, <1>3

(* The operations. *)
SameShares(kern, r) ==
    /\ r.pxReadyTasksLists = kern.pxReadyTasksLists
    /\ r.passed = kern.passed
    /\ r.pxCurrentTCB = kern.pxCurrentTCB

LEMMA FairIfSame ==
  ASSUME NEW kern, NEW r, Fair(kern), SameShares(kern, r)
  PROVE  Fair(r)
<1>1. ReadyTasks(r) = ReadyTasks(kern)
  BY DEF SameShares, ReadyTasks, IsReady, ReadyList
<1> QED
  BY <1>1 DEF Fair, SameShares

(* One ready list has changed. *)
LEMMA FairListReplaced ==
  ASSUME NEW kern \in Kernel, Fair(kern), NEW t \in Tasks, NEW list,
         FairList(list, kern.passed, Others(Priority[t])), kern.passed[t] = 0,
         NEW r, r.pxReadyTasksLists = [kern.pxReadyTasksLists EXCEPT ![Priority[t]] = list],
         r.passed = kern.passed, r.pxCurrentTCB = kern.pxCurrentTCB,
         ReadyTasks(kern) \ {t} \subseteq ReadyTasks(r)
  PROVE  Fair(r)
<1>1. \A p \in 0 .. TopPriority : FairList(r.pxReadyTasksLists[p], r.passed, Others(p))
  <2> SUFFICES ASSUME NEW p \in 0 .. TopPriority
               PROVE  FairList(r.pxReadyTasksLists[p], r.passed, Others(p))
    OBVIOUS
  <2>1. r.pxReadyTasksLists[p] = IF p = Priority[t] THEN list ELSE kern.pxReadyTasksLists[p]
    BY KernelFields
  <2> QED
    BY <2>1 DEF Fair
<1>2. \A u \in Tasks \ ReadyTasks(r) : r.passed[u] = 0
  BY DEF Fair
<1> QED
  BY <1>1, <1>2 DEF Fair

LEMMA FairMadeReady ==
  ASSUME NEW kern \in Kernel, ReadySound(kern), NEW t \in Tasks, t \notin ReadyTasks(kern),
         Fair(kern)
  PROVE  Fair(prvAddTaskToReadyList(kern, t))
<1> DEFINE p == Priority[t]
           old == kern.pxReadyTasksLists[p]
           list == vListInsertEnd(old, t)
           r == prvAddTaskToReadyList(kern, t)
<1>1. p \in 0 .. TopPriority /\ Others(p) \in Nat /\ kern.passed \in [Tasks -> Nat]
      /\ kern.passed[t] = 0
  BY PriorityRange, OthersAre, KernelFields DEF Fair
<1>2. /\ old \in ListsOf(Tasks) /\ ListSound(old) /\ t \notin ToSet(old.items)
      /\ Len(old.items) <= Others(p) /\ FairList(old, kern.passed, Others(p))
  BY <1>1, OneReadyList, ListLength DEF ItemsAt, Fair
<1>3. FairList(list, kern.passed, Others(p))
  <2> HIDE DEF old, p
  <2> QED
    BY <1>1, <1>2, FairAfterInsert
<1>4. /\ r.pxReadyTasksLists = [kern.pxReadyTasksLists EXCEPT ![p] = list]
      /\ r.passed = kern.passed /\ r.pxCurrentTCB = kern.pxCurrentTCB
  BY DEF prvAddTaskToReadyList, Kernel
<1>5. ReadyTasks(r) = ReadyTasks(kern) \cup {t}
  BY MadeReady DEF BecomesReady
<1> HIDE DEF r, list
<1>6. Fair(r)
  BY <1>1, <1>3, <1>4, <1>5, FairListReplaced
<1> QED
  BY <1>6 DEF r

LEMMA FairMadeUnready ==
  ASSUME NEW kern \in Kernel, ReadySound(kern), NEW t \in ReadyTasks(kern), t = kern.pxCurrentTCB,
         Fair(kern)
  PROVE  Fair(RemovedFromReady(kern, t))
<1> DEFINE p == Priority[t]
           old == kern.pxReadyTasksLists[p]
           list == uxListRemove(old, t)
           r == RemovedFromReady(kern, t)
<1>0. t \in Tasks
  BY DEF ReadyTasks
<1>1. p \in 0 .. TopPriority /\ Others(p) \in Nat /\ kern.passed \in [Tasks -> Nat]
      /\ kern.passed[t] = 0
  BY <1>0, PriorityRange, OthersAre, KernelFields DEF Fair
<1>2. /\ old \in ListsOf(Tasks) /\ ListSound(old) /\ t \in ToSet(old.items)
      /\ FairList(old, kern.passed, Others(p))
  BY <1>1, OneReadyList DEF ItemsAt, Fair
<1>3. FairList(list, kern.passed, Others(p))
  <2> HIDE DEF old, p
  <2> QED
    BY <1>1, <1>2, FairAfterRemove
<1>4. /\ r.pxReadyTasksLists = [kern.pxReadyTasksLists EXCEPT ![p] = list]
      /\ r.passed = kern.passed /\ r.pxCurrentTCB = kern.pxCurrentTCB
  BY DEF RemovedFromReady, Kernel
<1>5. ReadyTasks(r) = ReadyTasks(kern) \ {t}
  BY MadeUnready
<1> HIDE DEF r, list
<1>6. Fair(r)
  BY <1>0, <1>1, <1>3, <1>4, <1>5, FairListReplaced
<1> QED
  BY <1>6 DEF r

LEMMA HighestIsFilled ==
  ASSUME NEW kern, Ordered(kern), ReadyTasks(kern) # {}
  PROVE  LET p == Max({q \in 0 .. kern.uxTopReadyPriority : ReadyList(kern, q) # <<>>}) IN
         p \in 0 .. TopPriority /\ ReadyList(kern, p) # <<>>
<1> DEFINE Q == {q \in 0 .. kern.uxTopReadyPriority : ReadyList(kern, q) # <<>>}
<1>1. kern \in Kernel /\ ReadySound(kern)
  BY OrderedIs DEF PlacesSound
<1>2. /\ kern.uxTopReadyPriority \in Nat /\ kern.uxTopReadyPriority \in 0 .. TopPriority
      /\ TopPriority \in Nat
  BY <1>1, KernelFields, PriorityRange
<1>3. PICK t \in ReadyTasks(kern) : TRUE
  OBVIOUS
<1>4. t \in Tasks /\ Priority[t] \in 0 .. TopPriority /\ ItemsAt(kern, Priority[t]) # {}
  BY <1>1, <1>3, PriorityRange, ReadyIs DEF ReadyTasks
<1>5. Priority[t] \in Q
  BY <1>1, <1>2, <1>4, OneReadyList DEF ReadyList
<1>6. Max(Q) \in Q
  <2>1. Q # {} /\ Q \in SUBSET (0 .. kern.uxTopReadyPriority)
    BY <1>5
  <2> HIDE DEF Q
  <2> QED
    BY <1>2, <2>1, TimeOutFold!MaxIsGreatest DEF Max, TimeOutFold!Max
<1> QED
  BY <1>2, <1>6

LEMMA FairSelected ==
  ASSUME NEW kern, Ordered(kern), ReadyTasks(kern) # {}, Fair(kern)
  PROVE  Fair(SelectHighestPriorityTask(kern))
<1> DEFINE p == Max({q \in 0 .. kern.uxTopReadyPriority : ReadyList(kern, q) # <<>>})
           old == kern.pxReadyTasksLists[p]
           list == ListNextEntry(old)
           chosen == ListOwner(list)
           counts == [t \in Tasks |->
                         IF t = chosen \/ ~IsReady(kern, t) THEN 0
                         ELSE IF Priority[t] = p THEN kern.passed[t] + 1 ELSE kern.passed[t]]
           r == SelectHighestPriorityTask(kern)
<1>1. kern \in Kernel /\ ReadySound(kern) /\ Selects(kern, r)
  BY OrderedIs, HighestIsSelected DEF PlacesSound
<1>2. /\ r.pxReadyTasksLists = [kern.pxReadyTasksLists EXCEPT ![p] = list]
      /\ r.passed = counts /\ r.pxCurrentTCB = chosen
  BY <1>1 DEF SelectHighestPriorityTask, Kernel
<1>3. p \in 0 .. TopPriority /\ old.items # <<>>
  BY HighestIsFilled DEF ReadyList
<1> HIDE DEF r, p
<1>4. /\ kern.passed \in [Tasks -> Nat] /\ ReadyTasks(kern) \subseteq Tasks
      /\ \A t \in Tasks : t \in ReadyTasks(kern) <=> IsReady(kern, t)
  BY <1>1, KernelFields, ReadyIs
<1>5. /\ old \in ListsOf(Tasks) /\ ListSound(old)
      /\ ToSet(old.items) = {t \in ReadyTasks(kern) : Priority[t] = p}
      /\ FairList(old, kern.passed, Others(p))
  BY <1>1, <1>3, OneReadyList DEF ItemsAt, Fair
<1>6. list.items = old.items /\ chosen \in ToSet(old.items)
  <2> HIDE DEF old
  <2> QED
    BY <1>3, <1>5, NextEntry
<1>7. chosen \in Tasks /\ Priority[chosen] = p
  BY <1>4, <1>5, <1>6
<1>8. Others(p) \in Nat /\ Len(old.items) <= Others(p) + 1
  BY <1>1, <1>7, OthersAre, ListLength
<1>9. /\ counts[chosen] = 0
      /\ \A t \in ToSet(old.items) : t # chosen => counts[t] = kern.passed[t] + 1
  <2> HIDE DEF chosen, old
  <2> QED
    BY <1>4, <1>5, <1>7
<1>10. FairList(list, counts, Others(p))
  <2> HIDE DEF old, counts
  <2> QED
    BY <1>3, <1>4, <1>5, <1>8, <1>9, FairAfterNext
<1> HIDE DEF list, old, chosen
<1>11. \A q \in 0 .. TopPriority : FairList(r.pxReadyTasksLists[q], counts, Others(q))
  <2> SUFFICES ASSUME NEW q \in 0 .. TopPriority
               PROVE  FairList(r.pxReadyTasksLists[q], counts, Others(q))
    OBVIOUS
  <2>1. CASE q = p
    <3>1. r.pxReadyTasksLists[q] = list
      BY <1>1, <1>2, <2>1, KernelFields
    <3> QED
      BY <1>10, <2>1, <3>1
  <2>2. CASE q # p
    <3> DEFINE other == kern.pxReadyTasksLists[q]
    <3>1. r.pxReadyTasksLists[q] = other
      BY <1>1, <1>2, <2>2, KernelFields
    <3>2. /\ other.items \in Seq(Tasks) /\ FairList(other, kern.passed, Others(q))
          /\ ToSet(other.items) = {t \in ReadyTasks(kern) : Priority[t] = q}
      BY <1>1, OneReadyList DEF ItemsAt, Fair, ListsOf
    <3> HIDE DEF other
    <3>3. \A i \in 1 .. Len(other.items) :
              other.items[i] \in ReadyTasks(kern) /\ Priority[other.items[i]] = q
      BY <3>2, ItemsOf
    <3>4. \A i \in 1 .. Len(other.items) :
              counts[other.items[i]] = kern.passed[other.items[i]]
      BY <1>4, <1>7, <2>2, <3>3
    <3> QED
      BY <3>1, <3>2, <3>4 DEF FairList
  <2> QED
    BY <2>1, <2>2
<1>12. \A t \in Tasks \ ReadyTasks(r) : counts[t] = 0
  BY <1>1, <1>4 DEF Selects
<1> HIDE DEF counts
<1> QED
  BY <1>2, <1>9, <1>11, <1>12 DEF Fair, r

LEMMA FairSwitched ==
  ASSUME NEW kern, Ordered(kern), ReadyTasks(kern) # {}, kern.uxSchedulerSuspended = 0,
         Fair(kern)
  PROVE  Fair(vTaskSwitchContext(kern))
<1> DEFINE m == [kern EXCEPT !.xYieldPending = FALSE]
<1>1. m \in Kernel /\ SameReady(kern, m) /\ SameBlocked(kern, m) /\ SameWaiters(kern, m)
      /\ SameShares(kern, m)
  BY DEF Ordered, Kernel, SameReady, SameBlocked, SameWaiters, SameShares
<1>2. vTaskSwitchContext(kern) = SelectHighestPriorityTask(m)
  BY DEF vTaskSwitchContext
<1> HIDE DEF m
<1>3. NothingMoves(kern, m) /\ Fair(m)
  BY <1>1, SameLists, FairIfSame
<1> QED
  BY <1>2, <1>3, FairSelected DEF NothingMoves

LEMMA FairBlocked ==
  ASSUME NEW kern \in Kernel, ReadySound(kern), kern.pxCurrentTCB \in ReadyTasks(kern), Fair(kern),
         NEW ticks, NEW forever
  PROVE  Fair(prvAddCurrentTaskToDelayedList(kern, ticks, forever))
<1> DEFINE m == RemovedFromReady(kern, kern.pxCurrentTCB)
           r == prvAddCurrentTaskToDelayedList(kern, ticks, forever)
<1>1. Fair(m) /\ m \in Kernel
  BY FairMadeUnready, MadeUnready
<1>2. SameShares(m, r)
  BY <1>1 DEF prvAddCurrentTaskToDelayedList, RemovedFromReady, SameShares, Kernel
<1> HIDE DEF m, r
<1>3. Fair(r)
  BY <1>1, <1>2, FairIfSame
<1> QED
  BY <1>3 DEF r

LEMMA FairPlaced ==
  ASSUME NEW kern, Ordered(kern), kern.pxCurrentTCB \in ReadyTasks(kern), Fair(kern), NEW ticks
  PROVE  Fair(vTaskPlaceOnEventList(kern, ticks))
<1> DEFINE t == kern.pxCurrentTCB
           waiters == vListInsert(kern.xTasksWaitingToReceive, EventItemValue, t)
           m == [kern EXCEPT !.xTasksWaitingToReceive = waiters]
<1>1. /\ kern \in Kernel /\ ReadySound(kern) /\ t \notin Waiters(kern) /\ t \in Tasks
      /\ kern.xTasksWaitingToReceive \in Seq(Tasks) /\ IsInjective(kern.xTasksWaitingToReceive)
  <2>1. kern \in Kernel /\ PlacesSound(kern) /\ WaitersBlocked(kern)
    BY OrderedIs
  <2> QED
    BY <2>1, KernelFields DEF PlacesSound, WaitersBlocked, Waiters
<1>2. waiters \in Seq(Tasks)
  BY <1>1, ValueInserted DEF Waiters
<1>3. vTaskPlaceOnEventList(kern, ticks) = prvAddCurrentTaskToDelayedList(m, ticks, TRUE)
  BY DEF vTaskPlaceOnEventList
<1> HIDE DEF waiters
<1>4. m \in Kernel /\ SameReady(kern, m) /\ SameShares(kern, m)
  BY <1>1, <1>2 DEF Kernel, SameReady, SameShares
<1> HIDE DEF m
<1>5. ReadySound(m) /\ ReadyTasks(m) = ReadyTasks(kern) /\ Fair(m) /\ m.pxCurrentTCB = t
  BY <1>1, <1>4, SameMeansSame, FairIfSame DEF SameShares
<1> QED
  BY <1>3, <1>4, <1>5, FairBlocked

-----------------------------------------------------------------------------
(* Sorted lists.  *)

Sorted(items, value) ==
    \A i, j \in 1 .. Len(items) : i < j => value[items[i]] <= value[items[j]]

LEMMA SortedAfterRemove ==
  ASSUME NEW E, NEW s \in Seq(E), IsInjective(s), NEW e, NEW value, Sorted(s, value),
         NEW next, \A x \in ToSet(s) : x # e => next[x] = value[x]
  PROVE  Sorted(RemoveFirst(s, e), next)
<1> DEFINE r == RemoveFirst(s, e)
<1>1. Len(s) \in Nat /\ \A i \in 1 .. Len(s) : s[i] \in ToSet(s)
  BY ItemsOf
<1>2. CASE e \in ToSet(s)
  <2> DEFINE at == SelectInSeq(s, LAMBDA v : v = e)
  <2>1. at \in 1 .. Len(s) /\ s[at] = e
    BY <1>2, FoundAt
  <2>2. r = RemoveAt(s, at)
    BY <1>2, ItemsOf DEF RemoveFirst
  <2> HIDE DEF at, r
  <2>3. Len(r) = Len(s) - 1 /\ \A j \in 1 .. (Len(s) - 1) : r[j] = IF j < at THEN s[j] ELSE s[j + 1]
    BY <2>1, <2>2, PlacesAfterRemove
  <2>4. \A j \in 1 .. Len(s) : j # at => s[j] # e
    BY <1>1, <2>1 DEF IsInjective
  <2>5. \A j \in 1 .. Len(s) : j # at => next[s[j]] = value[s[j]]
    BY <1>1, <2>4
  <2> SUFFICES ASSUME NEW i \in 1 .. Len(r), NEW j \in 1 .. Len(r), i < j
               PROVE  next[r[i]] <= next[r[j]]
    BY DEF Sorted, r
  <2>6. PICK x \in 1 .. Len(s) : x = IF i < at THEN i ELSE i + 1
    BY <1>1, <2>3
  <2>7. PICK y \in 1 .. Len(s) : y = IF j < at THEN j ELSE j + 1
    BY <1>1, <2>3
  <2>8. r[i] = s[x] /\ r[j] = s[y]
    BY <1>1, <2>3, <2>6, <2>7
  <2>9. x < y /\ x # at /\ y # at
    BY <2>1, <2>6, <2>7
  <2> QED
    BY <2>5, <2>8, <2>9 DEF Sorted
<1>3. CASE e \notin ToSet(s)
  <2>1. r = s
    BY <1>3, ItemsOf DEF RemoveFirst
  <2>2. \A i \in 1 .. Len(s) : next[s[i]] = value[s[i]]
    BY <1>1, <1>3
  <2> QED
    BY <2>1, <2>2 DEF Sorted
<1> QED
  BY <1>2, <1>3

LEMMA SortedAfterInsert ==
  ASSUME NEW E, NEW s \in Seq(E), NEW e \in E, NEW value \in [E -> Nat], Sorted(s, value)
  PROVE  Sorted(vListInsert(s, value, e), value)
<1> DEFINE later == {i \in DOMAIN s : value[s[i]] > value[e]}
           at == IF later = {} THEN Len(s) + 1 ELSE Min(later)
           r == vListInsert(s, value, e)
<1>1. /\ DOMAIN s = 1 .. Len(s) /\ Len(s) \in Nat /\ value[e] \in Nat
      /\ \A i \in 1 .. Len(s) : s[i] \in E /\ value[s[i]] \in Nat
  OBVIOUS
<1>2. later # {} => Min(later) \in later /\ \A x \in later : Min(later) <= x
  <2>1. later \in SUBSET Nat
    BY <1>1
  <2> HIDE DEF later
  <2> QED
    BY <2>1, TimeOutFold!MinIsLeast DEF Min, TimeOutFold!Min
<1>3. at \in 1 .. (Len(s) + 1)
  BY <1>1, <1>2
<1>4. \A i \in 1 .. Len(s) : i < at => value[s[i]] <= value[e]
  <2> SUFFICES ASSUME NEW i \in 1 .. Len(s), i < at
               PROVE  value[s[i]] <= value[e]
    OBVIOUS
  <2>1. i \notin later
    <3> HIDE DEF later
    <3> QED
      BY <1>1, <1>2, <1>3
  <2>2. ~(value[s[i]] > value[e])
    BY <1>1, <2>1
  <2> QED
    BY <1>1, <2>2
<1>5. \A i \in 1 .. Len(s) : at <= i => value[e] <= value[s[i]]
  <2> SUFFICES ASSUME NEW i \in 1 .. Len(s), at <= i
               PROVE  value[e] <= value[s[i]]
    OBVIOUS
  <2>1. later # {}
    BY <1>1
  <2>2. at \in 1 .. Len(s) /\ value[s[at]] > value[e]
    BY <1>1, <1>2, <2>1
  <2> HIDE DEF at
  <2>3. value[s[at]] <= value[s[i]]
    BY <1>1, <2>2 DEF Sorted
  <2> QED
    BY <1>1, <2>2, <2>3
<1>6. r = InsertAt(s, at, e)
  BY DEF vListInsert
<1> HIDE DEF at, r
<1>7. Len(r) = Len(s) + 1
      /\ \A j \in 1 .. (Len(s) + 1) :
            /\ j < at => r[j] = s[j]
            /\ j = at => r[j] = e
            /\ j > at => r[j] = s[j - 1]
  <2>2. /\ Len(InsertAt(s, at, e)) = Len(s) + 1
        /\ \A j \in 1 .. (Len(s) + 1) :
              /\ j < at => InsertAt(s, at, e)[j] = s[j]
              /\ j = at => InsertAt(s, at, e)[j] = e
              /\ j > at => InsertAt(s, at, e)[j] = s[j - 1]
    BY <1>3, PlacesAfterInsert
  <2> QED
    BY <1>6, <2>2
<1> SUFFICES ASSUME NEW i \in 1 .. Len(r), NEW j \in 1 .. Len(r), i < j
             PROVE  value[r[i]] <= value[r[j]]
  BY DEF Sorted, r
<1>8. \A x, y \in 1 .. Len(s) : x <= y => value[s[x]] <= value[s[y]]
  BY <1>1 DEF Sorted
<1>9. CASE j < at
  <2>1. i \in 1 .. Len(s) /\ j \in 1 .. Len(s) /\ i <= j /\ r[i] = s[i] /\ r[j] = s[j]
    BY <1>1, <1>3, <1>7, <1>9
  <2> QED
    BY <1>8, <2>1
<1>10. CASE j = at
  BY <1>1, <1>3, <1>4, <1>7, <1>10
<1>11. CASE at < j /\ i < at
  <2>1. i \in 1 .. Len(s) /\ j - 1 \in 1 .. Len(s) /\ i <= j - 1 /\ r[i] = s[i] /\ r[j] = s[j - 1]
    BY <1>1, <1>3, <1>7, <1>11
  <2> QED
    BY <1>8, <2>1
<1>12. CASE at < j /\ i = at
  <2>1. j - 1 \in 1 .. Len(s) /\ at <= j - 1 /\ r[i] = e /\ r[j] = s[j - 1]
    BY <1>1, <1>3, <1>7, <1>12
  <2> QED
    BY <1>5, <2>1
<1>13. CASE at < j /\ at < i
  <2>1. i - 1 \in 1 .. Len(s) /\ j - 1 \in 1 .. Len(s) /\ i - 1 <= j - 1
        /\ r[i] = s[i - 1] /\ r[j] = s[j - 1]
    BY <1>1, <1>3, <1>7, <1>13
  <2> QED
    BY <1>8, <2>1
<1> QED
  BY <1>1, <1>3, <1>7, <1>9, <1>10, <1>11, <1>12, <1>13

(* The front of a sorted list whose values have been reached is all that   *)
(* have been.                                                              *)
LEMMA ReachedFront ==
  ASSUME NEW E, NEW s \in Seq(E), NEW value \in [E -> Nat], Sorted(s, value), NEW now \in Nat,
         NEW n \in 0 .. Len(s), \A j \in 1 .. n : value[s[j]] <= now,
         \A i \in 0 .. Len(s) : (\A j \in 1 .. i : value[s[j]] <= now) => i <= n
  PROVE  \A e : e \in ToSet(SubSeq(s, 1, n)) <=> e \in ToSet(s) /\ value[e] <= now
<1> DEFINE f == SubSeq(s, 1, n)
<1>1. Len(s) \in Nat /\ \A i \in 1 .. Len(s) : s[i] \in E /\ value[s[i]] \in Nat
  OBVIOUS
<1>3. \A j \in 1 .. Len(s) : value[s[j]] <= now => j <= n
  <2> SUFFICES ASSUME NEW j \in 1 .. Len(s), value[s[j]] <= now
               PROVE  j <= n
    OBVIOUS
  <2>1. \A m \in 1 .. j : m \in 1 .. Len(s) /\ value[s[m]] <= value[s[j]]
    BY <1>1 DEF Sorted
  <2>2. \A m \in 1 .. j : value[s[m]] <= now
    BY <1>1, <2>1
  <2>3. j \in 0 .. Len(s)
    BY <1>1
  <2> QED
    BY <2>2, <2>3
<1>4. n \in 0 .. Len(s) /\ \A j \in 1 .. n : value[s[j]] <= now
  OBVIOUS
<1>5. Len(f) = n /\ f \in Seq(E) /\ \A j \in 1 .. n : f[j] = s[j]
  <2>1. \A j \in 1 .. n : s[j] \in E
    BY <1>1, <1>4
  <2> QED
    BY <1>1, <1>4, <2>1, SubSeqProperties
<1> HIDE DEF f
<1>6. ASSUME NEW e
      PROVE  e \in ToSet(f) <=> e \in ToSet(s) /\ value[e] <= now
  <2>1. e \in ToSet(f) <=> \E j \in 1 .. n : s[j] = e
    <3>1. e \in ToSet(f) <=> \E j \in 1 .. n : f[j] = e
      BY <1>5, ItemsOf
    <3> QED
      BY <1>5, <3>1
  <2>2. e \in ToSet(s) <=> \E j \in 1 .. Len(s) : s[j] = e
    BY ItemsOf
  <2>3. ASSUME NEW j \in 1 .. Len(s), s[j] = e, value[e] <= now
        PROVE  e \in ToSet(f)
    <3>1. j \in 1 .. n
      BY <1>1, <1>3, <1>4, <2>3
    <3> QED
      BY <2>1, <2>3, <3>1
  <2>4. ASSUME NEW j \in 1 .. n, s[j] = e
        PROVE  e \in ToSet(s) /\ value[e] <= now
    <3>1. j \in 1 .. Len(s)
      BY <1>1, <1>4
    <3> QED
      BY <1>4, <2>2, <2>4, <3>1
  <2> QED
    BY <2>1, <2>2, <2>3, <2>4
<1> QED
  BY <1>6 DEF f

LEMMA HeadIsLeast ==
  ASSUME NEW E, NEW s \in Seq(E), s # <<>>, NEW value \in [E -> Nat], Sorted(s, value)
  PROVE  Head(s) \in ToSet(s) /\ \A e \in ToSet(s) : value[Head(s)] <= value[e]
<1>1. Head(s) = s[1] /\ Len(s) \in Nat /\ 1 \in 1 .. Len(s)
  BY EmptySeq
<1>2. \A i \in 1 .. Len(s) : value[s[i]] \in Nat
  OBVIOUS
<1>3. \A i \in 1 .. Len(s) : value[s[1]] <= value[s[i]]
  BY <1>1, <1>2 DEF Sorted
<1> QED
  BY <1>1, <1>3, ItemsOf

-----------------------------------------------------------------------------
(* Absolute time: the ticks counted since the start, however often the     *)
(* tick count has wrapped.  WakeTime is when a sleeping task wakes, Clock  *)
(* counts the pended ticks too.                                            *)

Delayed(kern)   == ToSet(kern.pxDelayedTaskList)
Overflown(kern) == ToSet(kern.pxOverflowDelayedTaskList)
Time(kern)      == kern.xNumOfOverflows * TickModulus + kern.xTickCount
Clock(kern)     == Time(kern) + kern.xPendedTicks
WakeTime(kern, t) ==
    kern.xNumOfOverflows * TickModulus + kern.xTimeToWake[t]
        + IF t \in Overflown(kern) THEN TickModulus ELSE 0

(* The delayed lists are in the order of their wake times, and every one   *)
(* of these is still to come: before the tick count wraps or after.        *)
ListsSorted(kern) ==
    /\ Sorted(kern.pxDelayedTaskList, kern.xTimeToWake)
    /\ Sorted(kern.pxOverflowDelayedTaskList, kern.xTimeToWake)
    /\ \A t \in Delayed(kern) : kern.xNextTaskUnblockTime <= kern.xTimeToWake[t]
    /\ \A t \in Overflown(kern) : kern.xTimeToWake[t] < kern.xTickCount
Timed(kern) ==
    /\ ListsSorted(kern)
    /\ \A t \in Delayed(kern) : kern.xTickCount < kern.xTimeToWake[t]

LEMMA OverflowsCount ==
  \A n \in Nat : n * TickModulus \in Nat /\ (n + 1) * TickModulus = n * TickModulus + TickModulus
<1>1. TickModulus \in Nat
  BY TicksAreNumbers
<1> QED
  BY <1>1

LEMMA TimeIsNatural ==
  ASSUME NEW kern \in Kernel
  PROVE  /\ Time(kern) \in Nat /\ Clock(kern) \in Nat /\ kern.xPendedTicks \in Nat
         /\ kern.xTickCount \in Nat /\ kern.xTickCount < TickModulus /\ TickModulus \in Nat
         /\ kern.xNumOfOverflows * TickModulus \in Nat /\ kern.xNumOfOverflows \in Nat
         /\ kern.xNextTaskUnblockTime \in Nat
         /\ \A t \in Tasks : /\ kern.xTimeToWake[t] \in Nat /\ kern.xTimeToWake[t] < TickModulus
                             /\ WakeTime(kern, t) \in Nat
<1>1. /\ kern.xTickCount \in Ticks /\ kern.xNumOfOverflows \in Nat /\ kern.xPendedTicks \in Nat
      /\ kern.xTimeToWake \in [Tasks -> Ticks] /\ kern.xNextTaskUnblockTime \in Ticks
  BY KernelFields
<1>2. /\ TickModulus \in Nat /\ kern.xNumOfOverflows * TickModulus \in Nat
      /\ \A n \in Ticks : n \in Nat /\ n < TickModulus
  <2>1. TickModulus \in Nat /\ kern.xNumOfOverflows * TickModulus \in Nat
    BY <1>1, TicksAreNumbers, OverflowsCount
  <2>2. \A n \in Ticks : n \in Nat /\ n < TickModulus
    BY <2>1 DEF Ticks
  <2> QED
    BY <2>1, <2>2
<1>3. \A t \in Tasks : kern.xTimeToWake[t] \in Nat /\ kern.xTimeToWake[t] < TickModulus
  BY <1>1, <1>2
<1>4. \A t \in Tasks : WakeTime(kern, t) \in Nat
  BY <1>2, <1>3 DEF WakeTime
<1> QED
  BY <1>1, <1>2, <1>3, <1>4 DEF Time, Clock

(* What a time-out leaves alone. *)
SameTime(kern, r) ==
    /\ r.xTickCount = kern.xTickCount /\ r.xNumOfOverflows = kern.xNumOfOverflows
    /\ r.xPendedTicks = kern.xPendedTicks /\ r.due = kern.due

TakesOut(kern, r, gone) ==
    /\ SameTime(kern, r)
    /\ Delayed(r) = Delayed(kern) \ gone
    /\ r.pxOverflowDelayedTaskList = kern.pxOverflowDelayedTaskList
    /\ r.xSuspendedTaskList = kern.xSuspendedTaskList
    /\ r.xNextTaskUnblockTime = kern.xNextTaskUnblockTime
    /\ \A t \in Tasks \ gone : r.xTimeToWake[t] = kern.xTimeToWake[t]
    /\ Sorted(kern.pxDelayedTaskList, kern.xTimeToWake) =>
           Sorted(r.pxDelayedTaskList, r.xTimeToWake)
    /\ Fair(kern) => Fair(r)

LEMMA TimeOutTakesOut ==
  ASSUME NEW kern, Ordered(kern), NEW t \in Delayed(kern)
  PROVE  TakesOut(kern, TimeOutTask(kern, t), {t})
<1> DEFINE delayed == RemoveFirst(kern.pxDelayedTaskList, t)
           waiters == RemoveFirst(kern.xTasksWaitingToReceive, t)
           times == [kern.xTimeToWake EXCEPT ![t] = 0]
           m == [kern EXCEPT !.pxDelayedTaskList = delayed, !.xTasksWaitingToReceive = waiters,
                             !.xTimeToWake = times]
           r == TimeOutTask(kern, t)
<1>1. /\ kern \in Kernel /\ PlacesSound(kern) /\ WaitersBlocked(kern)
      /\ kern.pxDelayedTaskList \in Seq(Tasks) /\ IsInjective(kern.pxDelayedTaskList)
      /\ kern.xTasksWaitingToReceive \in Seq(Tasks) /\ IsInjective(kern.xTasksWaitingToReceive)
  <2>1. kern \in Kernel /\ PlacesSound(kern) /\ WaitersBlocked(kern)
    BY OrderedIs
  <2> QED
    BY <2>1, KernelFields DEF PlacesSound, BlockedSound, WaitersBlocked
<1>2. t \in Tasks /\ t \notin ReadyTasks(kern) /\ ReadySound(kern)
  <2>1. t \in Tasks
    BY <1>1, ItemsOf DEF Delayed
  <2> QED
    BY <1>1, <2>1 DEF PlacesSound, Blocked, Sleepers, Delayed
<1>3. delayed \in Seq(Tasks) /\ ToSet(delayed) = Delayed(kern) \ {t} /\ waiters \in Seq(Tasks)
  BY <1>1, RemovedFirst DEF Delayed
<1>4. times \in [Tasks -> Ticks] /\ \A u \in Tasks : u # t => times[u] = kern.xTimeToWake[u]
  BY <1>1, KernelFields, TicksAreNumbers
<1>5. Sorted(kern.pxDelayedTaskList, kern.xTimeToWake) => Sorted(delayed, times)
  <2>1. \A u \in ToSet(kern.pxDelayedTaskList) : u # t => times[u] = kern.xTimeToWake[u]
    BY <1>1, <1>4, ItemsOf
  <2>2. kern.pxDelayedTaskList \in Seq(Tasks) /\ IsInjective(kern.pxDelayedTaskList)
    BY <1>1
  <2> HIDE DEF times
  <2> SUFFICES ASSUME Sorted(kern.pxDelayedTaskList, kern.xTimeToWake)
               PROVE  Sorted(delayed, times)
    OBVIOUS
  <2>3. PICK s \in Seq(Tasks) : s = kern.pxDelayedTaskList
    BY <2>2
  <2>4. IsInjective(s) /\ Sorted(s, kern.xTimeToWake)
        /\ \A u \in ToSet(s) : u # t => times[u] = kern.xTimeToWake[u]
    BY <2>1, <2>2, <2>3
  <2>5. Sorted(RemoveFirst(s, t), times)
    BY <2>4, SortedAfterRemove
  <2> QED
    BY <2>3, <2>5
<1>6. r = prvAddTaskToReadyList(m, t)
  BY DEF TimeOutTask
<1> HIDE DEF delayed, waiters, times, r
<1>7. /\ m \in Kernel /\ SameReady(kern, m) /\ SameShares(kern, m) /\ SameTime(kern, m)
      /\ m.pxDelayedTaskList = delayed /\ m.xTimeToWake = times
      /\ m.pxOverflowDelayedTaskList = kern.pxOverflowDelayedTaskList
      /\ m.xSuspendedTaskList = kern.xSuspendedTaskList
      /\ m.xNextTaskUnblockTime = kern.xNextTaskUnblockTime
  BY <1>1, <1>3, <1>4 DEF Kernel, SameReady, SameShares, SameTime
<1> HIDE DEF m
<1>8. ReadySound(m) /\ t \notin ReadyTasks(m) /\ (Fair(kern) => Fair(m))
  BY <1>2, <1>7, SameMeansSame, FairIfSame
<1>9. Fair(kern) => Fair(r)
  BY <1>2, <1>6, <1>7, <1>8, FairMadeReady
<1>10. /\ SameTime(m, r) /\ SameBlocked(m, r) /\ r.xTimeToWake = m.xTimeToWake
       /\ r.xNextTaskUnblockTime = m.xNextTaskUnblockTime
  BY <1>6, <1>7 DEF prvAddTaskToReadyList, Kernel, SameTime, SameBlocked
<1>11. TakesOut(kern, r, {t})
  BY <1>3, <1>4, <1>5, <1>7, <1>9, <1>10 DEF TakesOut, SameTime, SameBlocked, Delayed
<1> QED
  BY <1>11 DEF r

LEMMA TakesOutMore ==
  ASSUME NEW kern, NEW m, NEW r, NEW gone, NEW more, TakesOut(kern, m, gone), TakesOut(m, r, more)
  PROVE  TakesOut(kern, r, gone \cup more)
<1>1. \A t \in Tasks \ (gone \cup more) : r.xTimeToWake[t] = kern.xTimeToWake[t]
  BY DEF TakesOut
<1> QED
  BY <1>1 DEF TakesOut, SameTime

LEMMA AllTakenOut ==
  ASSUME NEW kern, Ordered(kern), NEW expired \in Seq(Tasks), IsInjective(expired),
         ToSet(expired) \subseteq Delayed(kern)
  PROVE  TakesOut(kern, FoldLeft(TimeOutTask, kern, expired), ToSet(expired))
<1> DEFINE n == Len(expired)
           woken(m) == {expired[j] : j \in 1 .. m}
           Reached(m, r) == Ordered(r) /\ TakesOut(kern, r, woken(m))
           V == [m \in 0 .. n |-> {r \in Kernel : Reached(m, r)}]
<1>1. /\ n \in Nat /\ DOMAIN expired = 1 .. n /\ ToSet(expired) = woken(n)
      /\ \A j \in 1 .. n : expired[j] \in Delayed(kern) /\ expired[j] \in Tasks
      /\ \A i, j \in 1 .. n : expired[i] = expired[j] => i = j
  <2>1. n \in Nat /\ DOMAIN expired = 1 .. n /\ ToSet(expired) = woken(n)
    BY ItemsOf
  <2>2. \A j \in 1 .. n : expired[j] \in ToSet(expired) /\ expired[j] \in Tasks
    BY <2>1
  <2>3. \A i, j \in 1 .. n : expired[i] = expired[j] => i = j
    BY <2>1 DEF IsInjective
  <2> HIDE DEF n, woken, V, Reached
  <2> QED
    BY <2>1, <2>2, <2>3
<1>2. kern \in V[0]
  <2>1. woken(0) = {}
    OBVIOUS
  <2>2. Reached(0, kern)
    <3> HIDE DEF woken
    <3> QED
      BY <2>1 DEF TakesOut, SameTime
  <2>3. kern \in Kernel /\ 0 \in 0 .. n
    BY <1>1 DEF Ordered
  <2> HIDE DEF Reached, n
  <2> QED
    BY <2>2, <2>3
<1>3. ASSUME NEW m \in 1 .. n, NEW v \in V[m - 1]
      PROVE  TimeOutTask(v, expired[m]) \in V[m]
  <2> DEFINE t == expired[m]
             r == TimeOutTask(v, t)
  <2>1. m - 1 \in 0 .. n /\ m \in 0 .. n
    BY <1>1
  <2>2. Reached(m - 1, v)
    <3> HIDE DEF Reached, n
    <3> QED
      BY <2>1
  <2>3. t \in Delayed(kern) /\ t \notin woken(m - 1)
    BY <1>1
  <2>4. woken(m) = woken(m - 1) \cup {t}
    <3>1. 1 .. m = (1 .. (m - 1)) \cup {m}
      BY <1>1
    <3> QED
      BY <3>1
  <2> HIDE DEF t, r, woken, V, n
  <2>5. t \in Delayed(v) /\ Ordered(v)
    BY <2>2, <2>3 DEF TakesOut
  <2>6. Wakes(v, t, r) /\ TakesOut(v, r, {t})
    BY <2>5, TaskTimesOut, TimeOutTakesOut DEF r, Delayed
  <2>7. TakesOut(kern, r, woken(m))
    BY <2>2, <2>4, <2>6, TakesOutMore
  <2>8. Reached(m, r) /\ r \in Kernel
    BY <2>6, <2>7 DEF Wakes, Ordered
  <2> HIDE DEF Reached
  <2> QED
    BY <2>1, <2>8 DEF V, r, t
<1> HIDE DEF V, Reached, woken
<1>4. FoldLeft(TimeOutTask, kern, expired) \in V[n]
  <2>1. TimeOutFold!FoldLeft(TimeOutTask, kern, expired) \in V[n]
    BY <1>1, <1>2, <1>3, TimeOutFold!FoldLeftReaches
  <2> QED
    BY <2>1, KernelFolds
<1>5. Reached(n, FoldLeft(TimeOutTask, kern, expired))
  BY <1>1, <1>4 DEF V
<1> QED
  BY <1>1, <1>5 DEF Reached

-----------------------------------------------------------------------------
(* What the passing of time does: it only wakes, and only who is due.      *)

Keeps(kern, r) ==
    /\ SameTime(kern, r) /\ SameBlocked(kern, r)
    /\ r.xTimeToWake = kern.xTimeToWake /\ r.xNextTaskUnblockTime = kern.xNextTaskUnblockTime

LEMMA KeptIsSame ==
  ASSUME NEW kern, NEW r, Keeps(kern, r)
  PROVE  /\ Time(r) = Time(kern) /\ Clock(r) = Clock(kern)
         /\ Sleepers(r) = Sleepers(kern) /\ Suspended(r) = Suspended(kern)
         /\ Delayed(r) = Delayed(kern) /\ Overflown(r) = Overflown(kern)
         /\ \A t : WakeTime(r, t) = WakeTime(kern, t)
         /\ ListsSorted(kern) => ListsSorted(r)
         /\ Timed(kern) => Timed(r)
<1>1. /\ Time(r) = Time(kern) /\ Clock(r) = Clock(kern)
      /\ Sleepers(r) = Sleepers(kern) /\ Suspended(r) = Suspended(kern)
      /\ Delayed(r) = Delayed(kern) /\ Overflown(r) = Overflown(kern)
  BY DEF Keeps, SameTime, SameBlocked, Time, Clock, Sleepers, Suspended, Delayed, Overflown
<1>2. \A t : WakeTime(r, t) = WakeTime(kern, t)
  BY <1>1 DEF Keeps, SameTime, WakeTime
<1>3. ListsSorted(kern) => ListsSorted(r)
  BY <1>1 DEF Keeps, SameTime, SameBlocked, ListsSorted
<1>4. Timed(kern) => Timed(r)
  BY <1>1, <1>3 DEF Keeps, SameTime, Timed
<1> QED
  BY <1>1, <1>2, <1>3, <1>4

(* Who has woken was due, or is in early. *)
PassesBut(kern, r, early) ==
    /\ r.due = kern.due /\ Time(kern) <= Time(r)
    /\ Sleepers(r) \subseteq Sleepers(kern) /\ Suspended(r) \subseteq Suspended(kern)
    /\ \A t \in Sleepers(r) : WakeTime(r, t) = WakeTime(kern, t)
    /\ \A t \in Sleepers(kern) \ Sleepers(r) : WakeTime(kern, t) <= Time(r) \/ t \in early
    /\ Fair(kern) => Fair(r)
Passes(kern, r) == PassesBut(kern, r, {})

LEMMA SleepersAreTasks ==
  ASSUME NEW kern \in Kernel
  PROVE  /\ Sleepers(kern) = Delayed(kern) \cup Overflown(kern)
         /\ Sleepers(kern) \subseteq Tasks /\ Delayed(kern) \subseteq Tasks
         /\ Overflown(kern) \subseteq Tasks /\ Suspended(kern) \subseteq Tasks
<1>1. /\ kern.pxDelayedTaskList \in Seq(Tasks) /\ kern.pxOverflowDelayedTaskList \in Seq(Tasks)
      /\ kern.xSuspendedTaskList \in Seq(Tasks)
  BY KernelFields
<1>2. Sleepers(kern) = Delayed(kern) \cup Overflown(kern)
  BY DEF Sleepers, Delayed, Overflown
<1>3. Delayed(kern) \subseteq Tasks /\ Overflown(kern) \subseteq Tasks /\ Suspended(kern) \subseteq Tasks
  BY <1>1, ItemsOf DEF Delayed, Overflown, Suspended
<1> QED
  BY <1>2, <1>3

LEMMA PassesOn ==
  ASSUME NEW kern \in Kernel, NEW m \in Kernel, NEW r \in Kernel, NEW early,
         PassesBut(kern, m, early), Passes(m, r)
  PROVE  PassesBut(kern, r, early)
<1>1. Time(kern) \in Nat /\ Time(m) \in Nat /\ Time(r) \in Nat
  BY TimeIsNatural
<1>2. \A t \in Sleepers(kern) : WakeTime(kern, t) \in Nat
  BY SleepersAreTasks, TimeIsNatural
<1>3. ASSUME NEW t \in Sleepers(kern) \ Sleepers(r)
      PROVE  WakeTime(kern, t) <= Time(r) \/ t \in early
  <2>1. CASE t \in Sleepers(m)
    <3>1. WakeTime(m, t) = WakeTime(kern, t) /\ WakeTime(m, t) <= Time(r)
      BY <1>3, <2>1 DEF PassesBut, Passes
    <3> QED
      BY <3>1
  <2>2. CASE t \notin Sleepers(m)
    <3>1. WakeTime(kern, t) <= Time(m) \/ t \in early
      BY <1>3, <2>2 DEF PassesBut
    <3>2. Time(m) <= Time(r)
      BY DEF PassesBut, Passes
    <3> QED
      BY <1>1, <1>2, <1>3, <3>1, <3>2
  <2> QED
    BY <2>1, <2>2
<1>4. Time(kern) <= Time(r)
  BY <1>1 DEF PassesBut, Passes
<1> QED
  BY <1>3, <1>4 DEF PassesBut, Passes

LEMMA KeptPasses ==
  ASSUME NEW kern \in Kernel, NEW r, Keeps(kern, r), Fair(kern) => Fair(r)
  PROVE  Passes(kern, r)
<1>1. Time(kern) \in Nat
  BY TimeIsNatural
<1> QED
  BY <1>1, KeptIsSame DEF Passes, PassesBut, Keeps, SameTime

-----------------------------------------------------------------------------
(* A tick, in two: the time is counted, and the lists change over when it  *)
(* wraps; then those whose time has come wake up.                          *)

CountedKernel(kern) ==
    LET now == (kern.xTickCount + 1) % TickModulus
        counted == [kern EXCEPT !.xTickCount = now]
    IN IF now = 0 THEN SwitchDelayedLists(counted) ELSE counted
WokenKernel(kern) ==
    LET list == kern.pxDelayedTaskList
        n == Max({i \in 0 .. Len(list) : \A j \in 1 .. i : kern.xTimeToWake[list[j]] <= kern.xTickCount})
    IN IF kern.xTickCount >= kern.xNextTaskUnblockTime
       THEN prvResetNextTaskUnblockTime(FoldLeft(TimeOutTask, kern, SubSeq(list, 1, n)))
       ELSE kern

LEMMA NobodyTimesOut ==
  ASSUME NEW base
  PROVE  FoldLeft(TimeOutTask, base, <<>>) = base
<1> DEFINE V == [m \in 0 .. 0 |-> {base}]
           seq == <<>>
<1>1. Len(seq) = 0 /\ 0 \in Nat /\ DOMAIN seq = 1 .. 0
  BY EmptySeq
<1>2. base \in V[0]
  OBVIOUS
<1>3. 1 .. 0 = {}
  OBVIOUS
<1> HIDE DEF V, seq
<1>4. TimeOutFold!FoldLeft(TimeOutTask, base, seq) \in V[0]
  BY <1>1, <1>2, <1>3, TimeOutFold!FoldLeftReaches
<1>5. FoldLeft(TimeOutTask, base, seq) \in {base}
  BY <1>4, KernelFolds DEF V
<1> QED
  BY <1>5 DEF seq

LEMMA TickInTwo ==
  ASSUME NEW kern \in Kernel
  PROVE  OneTick(kern).kernel = WokenKernel(CountedKernel(kern))
<1> DEFINE now == (kern.xTickCount + 1) % TickModulus
           counted == [kern EXCEPT !.xTickCount = now]
           s == CountedKernel(kern)
           list == s.pxDelayedTaskList
           n == Max({i \in 0 .. Len(list) : \A j \in 1 .. i : s.xTimeToWake[list[j]] <= now})
           due == now >= s.xNextTaskUnblockTime
           expired == IF due THEN SubSeq(list, 1, n) ELSE <<>>
           woken == FoldLeft(TimeOutTask, s, expired)
<1>1. OneTick(kern).kernel = IF due THEN prvResetNextTaskUnblockTime(woken) ELSE woken
  BY DEF OneTick, CountedKernel
<1>2. s.xTickCount = now
  <2>1. counted.xTickCount = now
    BY DEF Kernel
  <2>2. SwitchDelayedLists(counted).xTickCount = counted.xTickCount
    BY DEF SwitchDelayedLists, prvResetNextTaskUnblockTime, Kernel
  <2> QED
    BY <2>1, <2>2 DEF CountedKernel
<1> HIDE DEF now, s
<1>3. WokenKernel(s) =
          IF due THEN prvResetNextTaskUnblockTime(FoldLeft(TimeOutTask, s, SubSeq(list, 1, n)))
          ELSE s
  BY <1>2 DEF WokenKernel
<1> HIDE DEF due, list, n
<1>4. ~due => woken = s
  BY NobodyTimesOut
<1> QED
  BY <1>1, <1>3, <1>4 DEF s

LEMMA UnblockTimeKeeps ==
  ASSUME NEW kern \in Kernel
  PROVE  LET r == prvResetNextTaskUnblockTime(kern) IN
         /\ SameTime(kern, r) /\ SameBlocked(kern, r) /\ r.xTimeToWake = kern.xTimeToWake
         /\ SameShares(kern, r)
         /\ Sorted(kern.pxDelayedTaskList, kern.xTimeToWake) =>
                \A t \in Delayed(r) : r.xNextTaskUnblockTime <= r.xTimeToWake[t]
<1> DEFINE r == prvResetNextTaskUnblockTime(kern)
           list == kern.pxDelayedTaskList
<1>1. /\ SameTime(kern, r) /\ SameBlocked(kern, r) /\ r.xTimeToWake = kern.xTimeToWake
      /\ SameShares(kern, r) /\ r.xNextTaskUnblockTime = HeadWakeTime(kern)
      /\ r.pxDelayedTaskList = list
  BY DEF prvResetNextTaskUnblockTime, Kernel, SameTime, SameBlocked, SameShares
<1> HIDE DEF r
<1>2. list \in Seq(Tasks) /\ kern.xTimeToWake \in [Tasks -> Nat]
  BY KernelFields, TicksAreNumbers
<1>3. ASSUME Sorted(list, kern.xTimeToWake), NEW t \in Delayed(r)
      PROVE  r.xNextTaskUnblockTime <= r.xTimeToWake[t]
  <2>1. t \in ToSet(list)
    BY <1>1 DEF Delayed
  <2>2. list # <<>>
    BY <2>1 DEF ToSet
  <2>3. kern.xTimeToWake[Head(list)] <= kern.xTimeToWake[t]
    <3> HIDE DEF list
    <3> QED
      BY <1>2, <1>3, <2>1, <2>2, HeadIsLeast
  <2> QED
    BY <1>1, <2>2, <2>3 DEF HeadWakeTime
<1> QED
  BY <1>1, <1>3 DEF r

(* Half a tick: the time has come, and who is due has not woken yet. *)
Counts(kern, s) ==
    /\ Ordered(s) /\ ListsSorted(s) /\ Time(s) = Time(kern) + 1
    /\ s.due = kern.due /\ s.xPendedTicks = kern.xPendedTicks
    /\ \A t \in Delayed(s) : s.xTickCount <= s.xTimeToWake[t]
    /\ Sleepers(s) = Sleepers(kern) /\ Suspended(s) = Suspended(kern)
    /\ \A t \in Sleepers(kern) : WakeTime(s, t) = WakeTime(kern, t)
    /\ Fair(kern) => Fair(s)

LEMMA TickCounts ==
  ASSUME NEW kern, Ordered(kern), Timed(kern)
  PROVE  Counts(kern, CountedKernel(kern))
<1> DEFINE now == (kern.xTickCount + 1) % TickModulus
           c == [kern EXCEPT !.xTickCount = now]
           s == CountedKernel(kern)
           turn == SwitchDelayedLists(c)
<1>1. kern \in Kernel
  BY DEF Ordered
<1>2. /\ kern.xTickCount \in Nat /\ kern.xTickCount < TickModulus /\ TickModulus \in Nat
      /\ kern.xNumOfOverflows \in Nat /\ kern.xNumOfOverflows * TickModulus \in Nat
      /\ (kern.xNumOfOverflows + 1) * TickModulus = kern.xNumOfOverflows * TickModulus + TickModulus
      /\ \A t \in Tasks : kern.xTimeToWake[t] \in Nat /\ kern.xTimeToWake[t] < TickModulus
  BY <1>1, TimeIsNatural, OverflowsCount
<1>3. /\ now \in Ticks
      /\ now = 0 <=> kern.xTickCount = TickModulus - 1
      /\ now # 0 => now = kern.xTickCount + 1
  <2>1. kern.xTickCount < TickModulus - 1 => now = kern.xTickCount + 1 /\ now # 0
    <3> SUFFICES ASSUME kern.xTickCount < TickModulus - 1
                 PROVE  now = kern.xTickCount + 1 /\ now # 0
      OBVIOUS
    <3>1. kern.xTickCount + 1 \in Nat /\ kern.xTickCount + 1 < TickModulus
      BY <1>2
    <3>2. \A n \in Nat : n < TickModulus => n % TickModulus = n
      BY TicksAreNumbers
    <3> QED
      BY <1>2, <3>1, <3>2
  <2>2. kern.xTickCount = TickModulus - 1 => now = 0
    <3>1. TickModulus % TickModulus = 0
      BY TicksAreNumbers
    <3> QED
      BY <1>2, <3>1
  <2>3. now \in Ticks
    <3>1. kern.xTickCount + 1 \in Nat
      BY <1>2
    <3> QED
      BY <3>1, TicksAreNumbers
  <2> HIDE DEF now
  <2> QED
    BY <1>2, <2>1, <2>2, <2>3
<1>4. s = IF now = 0 THEN turn ELSE c
  BY DEF CountedKernel
<1> HIDE DEF now, s
<1>5. /\ Ordered(c) /\ SameShares(kern, c) /\ SameBlocked(kern, c) /\ c.xTickCount = now
      /\ c.xNumOfOverflows = kern.xNumOfOverflows /\ c.xPendedTicks = kern.xPendedTicks
      /\ c.due = kern.due /\ c.xTimeToWake = kern.xTimeToWake
      /\ c.xNextTaskUnblockTime = kern.xNextTaskUnblockTime
  <2>1. /\ c \in Kernel /\ SameReady(kern, c) /\ SameBlocked(kern, c) /\ SameWaiters(kern, c)
    BY <1>1, <1>3 DEF Kernel, SameReady, SameBlocked, SameWaiters
  <2>2. /\ SameShares(kern, c) /\ c.xTickCount = now
        /\ c.xNumOfOverflows = kern.xNumOfOverflows /\ c.xPendedTicks = kern.xPendedTicks
        /\ c.due = kern.due /\ c.xTimeToWake = kern.xTimeToWake
        /\ c.xNextTaskUnblockTime = kern.xNextTaskUnblockTime
    BY <1>1 DEF Kernel, SameShares
  <2> HIDE DEF c
  <2> QED
    BY <2>1, <2>2, SameLists DEF NothingMoves
<1> HIDE DEF c
<1>6. CASE now # 0
  <2>1. s = c /\ c.xTickCount = kern.xTickCount + 1
    BY <1>3, <1>4, <1>5, <1>6
  <2>2. /\ Delayed(c) = Delayed(kern) /\ Overflown(c) = Overflown(kern)
        /\ Sleepers(c) = Sleepers(kern) /\ Suspended(c) = Suspended(kern)
    BY <1>5 DEF SameBlocked, Delayed, Overflown, Sleepers, Suspended
  <2>3. Delayed(kern) \subseteq Tasks /\ Overflown(kern) \subseteq Tasks
    BY <1>1, SleepersAreTasks
  <2>4. \A t \in Delayed(c) : c.xTickCount <= c.xTimeToWake[t]
    <3>1. \A t \in Delayed(kern) : kern.xTickCount < kern.xTimeToWake[t]
      BY DEF Timed
    <3> QED
      BY <1>2, <1>5, <2>1, <2>2, <2>3, <3>1
  <2>5. ListsSorted(c)
    <3>1. \A t \in Overflown(c) : c.xTimeToWake[t] < c.xTickCount
      <4>1. \A t \in Overflown(kern) : kern.xTimeToWake[t] < kern.xTickCount
        BY DEF Timed, ListsSorted
      <4> QED
        BY <1>2, <1>5, <2>1, <2>2, <2>3, <4>1
    <3> QED
      BY <1>5, <2>2, <3>1 DEF Timed, ListsSorted, SameBlocked
  <2>6. Time(c) = Time(kern) + 1
    BY <1>2, <1>5, <2>1 DEF Time
  <2>7. \A t : WakeTime(c, t) = WakeTime(kern, t)
    BY <1>5, <2>2 DEF WakeTime
  <2>8. Fair(kern) => Fair(c)
    BY <1>5, FairIfSame
  <2> QED
    BY <1>5, <2>1, <2>2, <2>4, <2>5, <2>6, <2>7, <2>8 DEF Counts, s
<1>7. CASE now = 0
  <2>1. s = turn /\ kern.xTickCount = TickModulus - 1
    BY <1>3, <1>4, <1>7
  <2>2. Delayed(kern) = {}
    <3>1. Delayed(kern) \subseteq Tasks
      BY <1>1, SleepersAreTasks
    <3>2. \A t \in Delayed(kern) : kern.xTickCount < kern.xTimeToWake[t]
      BY DEF Timed
    <3> QED
      BY <1>2, <2>1, <3>1, <3>2
  <2> DEFINE overflows == c.xNumOfOverflows + 1
             m == [c EXCEPT !.pxDelayedTaskList = c.pxOverflowDelayedTaskList,
                            !.pxOverflowDelayedTaskList = c.pxDelayedTaskList,
                            !.xNumOfOverflows = overflows]
  <2>3. turn = prvResetNextTaskUnblockTime(m)
    BY DEF SwitchDelayedLists
  <2>4. Ordered(turn)
    BY <1>5, DelayedListsSwitch DEF NothingMoves
  <2> HIDE DEF turn
  <2>5. /\ m \in Kernel /\ m.pxDelayedTaskList = kern.pxOverflowDelayedTaskList
        /\ m.pxOverflowDelayedTaskList = kern.pxDelayedTaskList
        /\ m.xSuspendedTaskList = kern.xSuspendedTaskList
        /\ m.xNumOfOverflows = kern.xNumOfOverflows + 1 /\ m.xTickCount = 0
        /\ m.xPendedTicks = kern.xPendedTicks /\ m.due = kern.due
        /\ m.xTimeToWake = kern.xTimeToWake /\ SameShares(kern, m)
    <3>1. c \in Kernel /\ overflows \in Nat
      BY <1>2, <1>5 DEF Ordered
    <3> HIDE DEF overflows
    <3>2. /\ m \in Kernel /\ m.pxDelayedTaskList = c.pxOverflowDelayedTaskList
          /\ m.pxOverflowDelayedTaskList = c.pxDelayedTaskList
          /\ m.xSuspendedTaskList = c.xSuspendedTaskList
          /\ m.xNumOfOverflows = overflows /\ m.xTickCount = c.xTickCount
          /\ m.xPendedTicks = c.xPendedTicks /\ m.due = c.due
          /\ m.xTimeToWake = c.xTimeToWake /\ SameShares(c, m)
      BY <3>1 DEF Kernel, SameShares
    <3> HIDE DEF m
    <3> QED
      BY <1>5, <1>7, <3>2 DEF SameBlocked, SameShares, overflows
  <2> HIDE DEF m
  <2>6. /\ SameTime(m, turn) /\ SameBlocked(m, turn) /\ turn.xTimeToWake = m.xTimeToWake
        /\ SameShares(m, turn)
        /\ Sorted(m.pxDelayedTaskList, m.xTimeToWake) =>
               \A t \in Delayed(turn) : turn.xNextTaskUnblockTime <= turn.xTimeToWake[t]
    BY <2>3, <2>5, UnblockTimeKeeps
  <2>7. /\ turn.pxDelayedTaskList = kern.pxOverflowDelayedTaskList
        /\ turn.pxOverflowDelayedTaskList = kern.pxDelayedTaskList
        /\ turn.xSuspendedTaskList = kern.xSuspendedTaskList
        /\ turn.xNumOfOverflows = kern.xNumOfOverflows + 1 /\ turn.xTickCount = 0
        /\ turn.xPendedTicks = kern.xPendedTicks /\ turn.due = kern.due
        /\ turn.xTimeToWake = kern.xTimeToWake /\ SameShares(kern, turn)
    BY <2>5, <2>6 DEF SameTime, SameBlocked, SameShares
  <2>8. /\ Delayed(turn) = Overflown(kern) /\ Overflown(turn) = {}
        /\ Sleepers(turn) = Overflown(kern) /\ Sleepers(kern) = Overflown(kern)
        /\ Suspended(turn) = Suspended(kern)
    BY <2>2, <2>7 DEF Delayed, Overflown, Sleepers, Suspended
  <2>9. Overflown(kern) \subseteq Tasks
    BY <1>1, SleepersAreTasks
  <2>10. \A t \in Delayed(turn) : turn.xTickCount <= turn.xTimeToWake[t]
    BY <1>2, <2>7, <2>8, <2>9
  <2>11. ListsSorted(turn)
    <3>1. /\ Sorted(kern.pxDelayedTaskList, kern.xTimeToWake)
          /\ Sorted(kern.pxOverflowDelayedTaskList, kern.xTimeToWake)
      BY DEF Timed, ListsSorted
    <3> QED
      BY <2>5, <2>6, <2>7, <2>8, <3>1 DEF ListsSorted
  <2>12. Time(turn) = Time(kern) + 1
    BY <1>2, <2>1, <2>7 DEF Time
  <2>13. \A t \in Sleepers(kern) : WakeTime(turn, t) = WakeTime(kern, t)
    <3> SUFFICES ASSUME NEW t \in Overflown(kern)
                 PROVE  WakeTime(turn, t) = WakeTime(kern, t)
      BY <2>8
    <3>1. kern.xTimeToWake[t] \in Nat /\ t \notin Overflown(turn)
      BY <1>2, <2>8, <2>9
    <3>2. WakeTime(turn, t) = (kern.xNumOfOverflows + 1) * TickModulus + kern.xTimeToWake[t]
      BY <1>2, <2>7, <3>1 DEF WakeTime
    <3>3. WakeTime(kern, t) =
              kern.xNumOfOverflows * TickModulus + kern.xTimeToWake[t] + TickModulus
      BY DEF WakeTime
    <3> QED
      BY <1>2, <3>1, <3>2, <3>3
  <2>14. Fair(kern) => Fair(turn)
    BY <2>7, FairIfSame
  <2> QED
    BY <2>1, <2>4, <2>7, <2>8, <2>10, <2>11, <2>12, <2>13, <2>14 DEF Counts, s
<1> QED
  BY <1>6, <1>7

LEMMA DueWake ==
  ASSUME NEW s, Ordered(s), ListsSorted(s),
         \A t \in Delayed(s) : s.xTickCount <= s.xTimeToWake[t]
  PROVE  LET r == WokenKernel(s) IN
         Timed(r) /\ Passes(s, r) /\ Time(r) = Time(s) /\ r.xPendedTicks = s.xPendedTicks
<1> DEFINE list == s.pxDelayedTaskList
           now == s.xTickCount
           n == Max({i \in 0 .. Len(list) : \A j \in 1 .. i : s.xTimeToWake[list[j]] <= now})
           expired == SubSeq(list, 1, n)
           gone == ToSet(expired)
           woken == FoldLeft(TimeOutTask, s, expired)
           r == WokenKernel(s)
<1>1. /\ s \in Kernel /\ list \in Seq(Tasks) /\ IsInjective(list)
      /\ s.xTimeToWake \in [Tasks -> Nat] /\ now \in Nat /\ Time(s) \in Nat
      /\ s.xNextTaskUnblockTime \in Nat
  <2>1. s \in Kernel /\ BlockedSound(s)
    BY OrderedIs DEF PlacesSound
  <2> QED
    BY <2>1, KernelFields, TimeIsNatural, TicksAreNumbers DEF BlockedSound
<1>2. Delayed(s) \subseteq Tasks /\ Overflown(s) \subseteq Tasks /\ Sleepers(s) = Delayed(s) \cup Overflown(s)
      /\ Delayed(s) \cap Overflown(s) = {}
  <2>1. BlockedSound(s)
    BY OrderedIs DEF PlacesSound
  <2> QED
    BY <1>1, <2>1, SleepersAreTasks DEF BlockedSound, Delayed, Overflown
<1>3. r = IF now >= s.xNextTaskUnblockTime THEN prvResetNextTaskUnblockTime(woken) ELSE s
  BY DEF WokenKernel
<1> HIDE DEF r
<1>4. CASE now >= s.xNextTaskUnblockTime
  <2>1. n \in 0 .. Len(list) /\ gone = {t \in Delayed(s) : s.xTimeToWake[t] <= now}
    <3>1. Sorted(list, s.xTimeToWake)
      BY DEF ListsSorted
    <3> DEFINE I == {i \in 0 .. Len(list) : \A j \in 1 .. i : s.xTimeToWake[list[j]] <= now}
    <3>2. Len(list) \in Nat
      BY <1>1
    <3>3. n \in I /\ \A i \in I : i <= n
      <4>1. 0 \in I
        BY <3>2
      <4>2. I # {} /\ I \in SUBSET (0 .. Len(list))
        BY <4>1
      <4>3. n = Max(I)
        OBVIOUS
      <4> HIDE DEF I, n
      <4> QED
        BY <3>2, <4>2, <4>3, TimeOutFold!MaxIsGreatest DEF Max, TimeOutFold!Max
    <3>4. /\ n \in 0 .. Len(list) /\ \A j \in 1 .. n : s.xTimeToWake[list[j]] <= now
          /\ \A i \in 0 .. Len(list) : (\A j \in 1 .. i : s.xTimeToWake[list[j]] <= now) => i <= n
      BY <3>3
    <3> HIDE DEF n, list, now
    <3>5. \A t : t \in ToSet(SubSeq(list, 1, n)) <=> t \in ToSet(list) /\ s.xTimeToWake[t] <= now
      BY <1>1, <3>1, <3>4, ReachedFront
    <3> QED
      BY <3>4, <3>5 DEF gone, expired, Delayed, list
  <2> HIDE DEF n
  <2>2. expired \in Seq(Tasks) /\ IsInjective(expired) /\ gone \subseteq Delayed(s)
    <3> HIDE DEF list
    <3> QED
      BY <1>1, <2>1, FrontOfList
  <2> HIDE DEF expired
  <2>3. Ordered(woken) /\ TakesOut(s, woken, gone)
    BY <2>2, AllTimeOut, AllTakenOut DEF MoreReady, Delayed
  <2> HIDE DEF woken
  <2>4. /\ SameTime(woken, r) /\ SameBlocked(woken, r) /\ r.xTimeToWake = woken.xTimeToWake
        /\ SameShares(woken, r)
        /\ Sorted(woken.pxDelayedTaskList, woken.xTimeToWake) =>
                \A t \in Delayed(r) : r.xNextTaskUnblockTime <= r.xTimeToWake[t]
    BY <1>3, <1>4, <2>3, UnblockTimeKeeps DEF Ordered
  <2>5. /\ SameTime(s, r) /\ Delayed(r) = Delayed(s) \ gone
        /\ r.pxOverflowDelayedTaskList = s.pxOverflowDelayedTaskList
        /\ r.xSuspendedTaskList = s.xSuspendedTaskList
        /\ \A t \in Tasks \ gone : r.xTimeToWake[t] = s.xTimeToWake[t]
        /\ Sorted(woken.pxDelayedTaskList, woken.xTimeToWake)
        /\ r.pxDelayedTaskList = woken.pxDelayedTaskList
        /\ Fair(s) => Fair(r)
    <3>1. Fair(s) => Fair(r)
      BY <2>3, <2>4, FairIfSame DEF TakesOut
    <3> QED
      BY <2>3, <2>4, <3>1 DEF TakesOut, SameTime, SameBlocked, ListsSorted, Delayed
  <2>6. Overflown(r) = Overflown(s) /\ Suspended(r) = Suspended(s) /\ Sleepers(r) = Sleepers(s) \ gone
        /\ Sleepers(s) \ Sleepers(r) = gone
    <3>1. Overflown(r) = Overflown(s) /\ Suspended(r) = Suspended(s)
          /\ Sleepers(r) = Delayed(r) \cup Overflown(r)
      BY <2>5 DEF Overflown, Suspended, Sleepers, Delayed
    <3> QED
      BY <1>2, <2>2, <2>5, <3>1
  <2>7. Sorted(r.pxOverflowDelayedTaskList, r.xTimeToWake)
    <3> DEFINE over == s.pxOverflowDelayedTaskList
    <3>1. over \in Seq(Tasks) /\ Sorted(over, s.xTimeToWake) /\ ToSet(over) \subseteq Tasks \ gone
      BY <1>1, <1>2, <2>2, KernelFields DEF ListsSorted, Overflown
    <3>2. r.pxOverflowDelayedTaskList = over
      BY <2>5
    <3> HIDE DEF over
    <3>3. \A i \in 1 .. Len(over) : r.xTimeToWake[over[i]] = s.xTimeToWake[over[i]]
      BY <2>5, <3>1, ItemsOf
    <3> QED
      BY <3>1, <3>2, <3>3 DEF Sorted
  <2>8. \A t \in Delayed(r) : r.xTickCount < r.xTimeToWake[t]
    <3> SUFFICES ASSUME NEW t \in Delayed(r)
                 PROVE  now < r.xTimeToWake[t]
      BY <2>5 DEF SameTime
    <3>1. t \in Tasks /\ t \notin gone /\ t \in Delayed(s)
      BY <1>2, <2>5
    <3>2. ~(s.xTimeToWake[t] <= now) /\ r.xTimeToWake[t] = s.xTimeToWake[t]
      BY <2>1, <2>5, <3>1
    <3> QED
      BY <1>1, <3>1, <3>2
  <2>9. \A t \in Overflown(r) : r.xTimeToWake[t] < r.xTickCount
    <3>1. \A t \in Overflown(s) : t \in Tasks \ gone /\ s.xTimeToWake[t] < s.xTickCount
      BY <1>2, <2>2 DEF ListsSorted
    <3> QED
      BY <2>5, <2>6, <3>1 DEF SameTime
  <2>10. Timed(r)
    BY <2>4, <2>5, <2>7, <2>8, <2>9 DEF Timed, ListsSorted
  <2>11. \A t \in Sleepers(r) : WakeTime(r, t) = WakeTime(s, t)
    <3>1. \A t \in Sleepers(r) : t \in Tasks \ gone
      BY <1>2, <2>6
    <3> QED
      BY <2>5, <2>6, <3>1 DEF WakeTime, SameTime
  <2>12. \A t \in gone : WakeTime(s, t) <= Time(s)
    <3> SUFFICES ASSUME NEW t \in gone
                 PROVE  WakeTime(s, t) <= Time(s)
      OBVIOUS
    <3>1. t \in Tasks /\ t \notin Overflown(s) /\ s.xTimeToWake[t] <= now
      BY <1>2, <2>1
    <3>2. s.xTimeToWake[t] \in Nat /\ s.xNumOfOverflows * TickModulus \in Nat
      BY <1>1, <3>1, TimeIsNatural
    <3> QED
      BY <1>1, <3>1, <3>2 DEF WakeTime, Time
  <2>13. Time(r) = Time(s) /\ r.due = s.due /\ r.xPendedTicks = s.xPendedTicks
    BY <2>5 DEF SameTime, Time
  <2> QED
    BY <1>1, <2>5, <2>6, <2>10, <2>11, <2>12, <2>13 DEF Passes, PassesBut, r
<1>5. CASE ~(now >= s.xNextTaskUnblockTime)
  <2>1. r = s
    BY <1>3, <1>5
  <2>2. \A t \in Delayed(s) : now < s.xTimeToWake[t]
    <3>1. \A t \in Delayed(s) : s.xNextTaskUnblockTime <= s.xTimeToWake[t] /\ s.xTimeToWake[t] \in Nat
      BY <1>1, <1>2 DEF ListsSorted
    <3> QED
      BY <1>1, <1>5, <3>1
  <2>3. Timed(s)
    BY <2>2 DEF Timed
  <2> QED
    BY <1>1, <2>1, <2>3 DEF Passes, PassesBut, r
<1> QED
  BY <1>4, <1>5

(* A tick with the scheduler running. *)
LEMMA TickPasses ==
  ASSUME NEW kern, Ordered(kern), Timed(kern)
  PROVE  LET r == OneTick(kern).kernel IN
         /\ Ordered(r) /\ Timed(r) /\ Passes(kern, r) /\ Time(r) = Time(kern) + 1
         /\ r.xPendedTicks = kern.xPendedTicks
<1> DEFINE s == CountedKernel(kern)
           r == OneTick(kern).kernel
<1>1. Counts(kern, s) /\ kern \in Kernel
  BY TickCounts DEF Ordered
<1>2. r = WokenKernel(s)
  BY <1>1, TickInTwo
<1>3. Ordered(r)
  BY TickWakes DEF MoreReady
<1> HIDE DEF s, r
<1>4. Timed(r) /\ Passes(s, r) /\ Time(r) = Time(s) /\ r.xPendedTicks = s.xPendedTicks
  BY <1>1, <1>2, DueWake DEF Counts
<1>5. Time(kern) \in Nat
  BY <1>1, TimeIsNatural
<1>6. Passes(kern, r)
  <2>1. Time(kern) <= Time(r)
    BY <1>1, <1>4, <1>5 DEF Counts
  <2> QED
    BY <1>1, <1>4, <2>1 DEF Counts, Passes, PassesBut
<1> QED
  BY <1>1, <1>3, <1>4, <1>6 DEF Counts, r

LEMMA SwitchKeeps ==
  ASSUME NEW kern \in Kernel
  PROVE  /\ Keeps(kern, vTaskSwitchContext(kern)) /\ Keeps(kern, vTaskSuspendAll(kern))
         /\ SameShares(kern, vTaskSuspendAll(kern))
<1>1. Keeps(kern, vTaskSwitchContext(kern))
  BY DEF vTaskSwitchContext, SelectHighestPriorityTask, Kernel, Keeps, SameTime, SameBlocked
<1>2. Keeps(kern, vTaskSuspendAll(kern)) /\ SameShares(kern, vTaskSuspendAll(kern))
  BY DEF vTaskSuspendAll, Kernel, Keeps, SameTime, SameBlocked, SameShares
<1> QED
  BY <1>1, <1>2

LEMMA SwitchPasses ==
  ASSUME NEW kern, Ordered(kern), ReadyTasks(kern) # {}, kern.uxSchedulerSuspended = 0
  PROVE  LET r == vTaskSwitchContext(kern) IN
         Keeps(kern, r) /\ Passes(kern, r)
<1>1. kern \in Kernel
  BY DEF Ordered
<1>2. Fair(kern) => Fair(vTaskSwitchContext(kern))
  BY FairSwitched
<1> QED
  BY <1>1, <1>2, SwitchKeeps, KeptPasses

-----------------------------------------------------------------------------
(* xTaskResumeAll catches up with the ticks that have come in. *)

CaughtUp(kern, r, m) ==
    /\ Resumes(kern, r) /\ Timed(r) /\ Passes(kern, r) /\ Time(r) = Time(kern) + m

LEMMA OneTickCaughtUp ==
  ASSUME NEW kern \in Kernel, NEW m \in Nat, NEW v, CaughtUp(kern, v, m), NEW i
  PROVE  CaughtUp(kern, UnwindTick(v, i), m + 1)
<1> DEFINE tick == OneTick(v)
           pending == tick.kernel.xYieldPending \/ tick.xSwitchRequired
           r == UnwindTick(v, i)
<1>1. Ordered(v) /\ v.uxSchedulerSuspended = 0 /\ Timed(v) /\ Passes(kern, v) /\ v \in Kernel
      /\ Time(v) = Time(kern) + m
  BY DEF CaughtUp, Resumes, Ordered
<1>2. Resumes(kern, r) /\ r \in Kernel
  BY PendedTickCounts DEF CaughtUp, Resumes, Ordered
<1>3. r = [tick.kernel EXCEPT !.xYieldPending = pending]
  BY <1>1 DEF UnwindTick, xTaskIncrementTick
<1>4. /\ Ordered(tick.kernel) /\ Timed(tick.kernel) /\ Passes(v, tick.kernel)
      /\ Time(tick.kernel) = Time(v) + 1
  BY <1>1, TickPasses
<1> HIDE DEF tick, r, pending
<1>5. tick.kernel \in Kernel /\ Keeps(tick.kernel, r) /\ SameShares(tick.kernel, r)
  BY <1>3, <1>4 DEF Ordered, Kernel, Keeps, SameTime, SameBlocked, SameShares
<1>6. Passes(tick.kernel, r) /\ Timed(r) /\ Time(r) = Time(tick.kernel)
  BY <1>4, <1>5, FairIfSame, KeptPasses, KeptIsSame
<1>7. Passes(kern, tick.kernel)
  BY <1>1, <1>4, <1>5, PassesOn DEF Passes
<1>8. Passes(kern, r)
  BY <1>2, <1>5, <1>6, <1>7, PassesOn DEF Passes
<1>9. Time(kern) \in Nat
  BY TimeIsNatural
<1>10. Time(r) = Time(kern) + (m + 1)
  BY <1>1, <1>4, <1>6, <1>9
<1> QED
  BY <1>2, <1>6, <1>8, <1>10 DEF CaughtUp, r

LEMMA ResumePasses ==
  ASSUME NEW kern, Ordered(kern), kern.uxSchedulerSuspended = 1, Timed(kern)
  PROVE  LET r == xTaskResumeAll(kern) IN
         /\ Timed(r) /\ Passes(kern, r) /\ r.xPendedTicks = 0 /\ Clock(r) = Clock(kern)
<1> DEFINE open == [kern EXCEPT !.uxSchedulerSuspended = kern.uxSchedulerSuspended - 1]
           n == kern.xPendedTicks
           seq == [i \in 1 .. n |-> i]
           V == [m \in 0 .. n |-> {v \in Kernel : CaughtUp(kern, v, m)}]
           caught == FoldLeft(UnwindTick, open, seq)
           r == xTaskResumeAll(kern)
<1>1. kern \in Kernel /\ n \in Nat /\ DOMAIN seq = 1 .. n
  BY KernelFields DEF Ordered
<1>2. r = [caught EXCEPT !.xPendedTicks = 0]
  BY DEF xTaskResumeAll
<1> HIDE DEF r, caught, n
<1>3. open \in V[0]
  <2>1. open = [kern EXCEPT !.uxSchedulerSuspended = 0]
    OBVIOUS
  <2> HIDE DEF open
  <2>2. /\ open \in Kernel /\ SameReady(kern, open) /\ SameBlocked(kern, open)
        /\ SameWaiters(kern, open) /\ open.pxCurrentTCB = kern.pxCurrentTCB
        /\ open.uxSchedulerSuspended = 0 /\ Keeps(kern, open) /\ SameShares(kern, open)
    BY <1>1, <2>1 DEF Kernel, SameReady, SameBlocked, SameWaiters, Keeps, SameTime, SameShares
  <2>3. NothingMoves(kern, open)
    BY <2>2, SameLists
  <2>4. Highest(kern) => Highest(open)
    BY <2>2, <2>3 DEF Highest, NothingMoves
  <2>5. Resumes(kern, open)
    BY <2>2, <2>3, <2>4 DEF Resumes, NothingMoves
  <2>6. Passes(kern, open) /\ Timed(open) /\ Time(open) = Time(kern) /\ Time(kern) \in Nat
    BY <1>1, <2>2, FairIfSame, KeptPasses, KeptIsSame, TimeIsNatural
  <2>7. CaughtUp(kern, open, 0)
    BY <2>5, <2>6 DEF CaughtUp
  <2>8. 0 \in 0 .. n
    BY <1>1
  <2> QED
    BY <2>2, <2>7, <2>8
<1>4. ASSUME NEW m \in 1 .. n, NEW v \in V[m - 1]
      PROVE  UnwindTick(v, seq[m]) \in V[m]
  <2>1. m - 1 \in 0 .. n /\ m \in 0 .. n /\ m - 1 \in Nat /\ (m - 1) + 1 = m
    BY <1>1
  <2>2. CaughtUp(kern, v, m - 1)
    BY <2>1
  <2> HIDE DEF seq
  <2>3. CaughtUp(kern, UnwindTick(v, seq[m]), (m - 1) + 1)
    BY <1>1, <2>1, <2>2, OneTickCaughtUp
  <2>4. CaughtUp(kern, UnwindTick(v, seq[m]), m)
    BY <2>1, <2>3
  <2>5. UnwindTick(v, seq[m]) \in Kernel
    BY <2>4 DEF CaughtUp, Resumes, Ordered
  <2> QED
    BY <2>1, <2>4, <2>5
<1> HIDE DEF V, open, seq
<1>5. caught \in V[n]
  <2>1. UnwindFold!FoldLeft(UnwindTick, open, seq) \in V[n]
    BY <1>1, <1>3, <1>4, UnwindFold!FoldLeftReaches
  <2> QED
    BY <2>1, KernelFolds DEF caught
<1>6. caught \in Kernel /\ CaughtUp(kern, caught, n)
  BY <1>1, <1>5 DEF V
<1>7. /\ r.due = caught.due /\ SameBlocked(caught, r) /\ SameShares(caught, r)
      /\ r.xTimeToWake = caught.xTimeToWake /\ r.xTickCount = caught.xTickCount
      /\ r.xNumOfOverflows = caught.xNumOfOverflows /\ r.xPendedTicks = 0
      /\ r.xNextTaskUnblockTime = caught.xNextTaskUnblockTime
  BY <1>2, <1>6 DEF Kernel, SameBlocked, SameShares
<1>8. /\ Time(r) = Time(caught) /\ Sleepers(r) = Sleepers(caught) /\ Suspended(r) = Suspended(caught)
      /\ Delayed(r) = Delayed(caught) /\ Overflown(r) = Overflown(caught)
  BY <1>7 DEF Time, SameBlocked, Sleepers, Suspended, Delayed, Overflown
<1>9. \A t : WakeTime(r, t) = WakeTime(caught, t)
  BY <1>7, <1>8 DEF WakeTime
<1>10. Timed(r)
  BY <1>6, <1>7, <1>8 DEF CaughtUp, Timed, ListsSorted, SameBlocked
<1>11. Fair(kern) => Fair(r)
  BY <1>6, <1>7, FairIfSame DEF CaughtUp, Passes, PassesBut
<1>12. Passes(kern, r)
  BY <1>6, <1>7, <1>8, <1>9, <1>11 DEF CaughtUp, Passes, PassesBut
<1>13. Clock(r) = Clock(kern)
  <2>1. Time(kern) \in Nat /\ Time(r) = Time(kern) + n
    BY <1>1, <1>6, <1>8, TimeIsNatural DEF CaughtUp
  <2> QED
    BY <1>1, <1>7, <2>1 DEF Clock, n
<1> QED
  BY <1>7, <1>10, <1>12, <1>13 DEF r

-----------------------------------------------------------------------------
(* The running task blocks until a time, or for ever. *)

LEMMA SortedSame ==
  ASSUME NEW E, NEW s \in Seq(E), NEW value, Sorted(s, value), NEW next,
         \A x \in ToSet(s) : next[x] = value[x]
  PROVE  Sorted(s, next)
<1>1. \A i \in 1 .. Len(s) : next[s[i]] = value[s[i]]
  BY ItemsOf
<1> QED
  BY <1>1 DEF Sorted

BlocksFor(kern, r, t, ticks, forever) ==
    /\ SameTime(kern, r) /\ Timed(r)
    /\ IF ticks = portMAX_DELAY /\ forever
       THEN Sleepers(r) = Sleepers(kern) /\ Suspended(r) = Suspended(kern) \cup {t}
       ELSE /\ Sleepers(r) = Sleepers(kern) \cup {t} /\ Suspended(r) = Suspended(kern)
            /\ WakeTime(r, t) = Time(kern) + ticks
    /\ \A u \in Sleepers(kern) : WakeTime(r, u) = WakeTime(kern, u)
    /\ Fair(kern) => Fair(r)

LEMMA BlocksInTime ==
  ASSUME NEW kern \in Kernel, PlacesSound(kern), Timed(kern),
         NEW t \in ReadyTasks(kern), t = kern.pxCurrentTCB,
         NEW ticks \in Ticks \ {0}, NEW forever
  PROVE  BlocksFor(kern, prvAddCurrentTaskToDelayedList(kern, ticks, forever), t, ticks, forever)
<1> DEFINE wake == (kern.xTickCount + ticks) % TickModulus
           removed == RemovedFromReady(kern, t)
           times == [kern.xTimeToWake EXCEPT ![t] = wake]
           timed == [removed EXCEPT !.xTimeToWake = times]
           next == IF wake < kern.xNextTaskUnblockTime THEN wake ELSE kern.xNextTaskUnblockTime
           r == prvAddCurrentTaskToDelayedList(kern, ticks, forever)
           over == kern.pxOverflowDelayedTaskList
           soon == kern.pxDelayedTaskList
<1>1. /\ t \in Tasks /\ ticks \in Nat /\ ticks > 0 /\ ticks < TickModulus /\ TickModulus \in Nat
      /\ kern.xTickCount \in Nat /\ kern.xTickCount < TickModulus
      /\ kern.xNumOfOverflows * TickModulus \in Nat /\ kern.xNextTaskUnblockTime \in Nat
      /\ kern.xTimeToWake \in [Tasks -> Nat]
  <2>1. ticks \in Nat /\ ticks > 0 /\ ticks < TickModulus
    BY TicksAreNumbers DEF Ticks
  <2>2. t \in Tasks
    BY DEF ReadyTasks
  <2>3. kern.xTimeToWake \in [Tasks -> Nat]
    BY KernelFields, TicksAreNumbers
  <2> QED
    BY <2>1, <2>2, <2>3, TimeIsNatural
<1>2. /\ wake \in Nat
      /\ wake < kern.xTickCount => wake = kern.xTickCount + ticks - TickModulus
      /\ ~(wake < kern.xTickCount) => wake = kern.xTickCount + ticks
  <2>1. \A n \in Nat : /\ n < TickModulus => n % TickModulus = n
                       /\ n >= TickModulus /\ n < 2 * TickModulus => n % TickModulus = n - TickModulus
    BY TicksAreNumbers
  <2>2. kern.xTickCount + ticks \in Nat /\ kern.xTickCount + ticks < 2 * TickModulus
    BY <1>1
  <2>3. CASE kern.xTickCount + ticks < TickModulus
    <3>1. wake = kern.xTickCount + ticks
      BY <2>1, <2>2, <2>3
    <3> HIDE DEF wake
    <3> QED
      BY <1>1, <3>1
  <2>4. CASE kern.xTickCount + ticks >= TickModulus
    <3> DEFINE x == kern.xTickCount + ticks
    <3>1. wake = x % TickModulus
      OBVIOUS
    <3>2. x \in Nat /\ x >= TickModulus /\ x < 2 * TickModulus
      BY <2>2, <2>4
    <3> HIDE DEF x, wake
    <3>3. wake = x - TickModulus
      BY <2>1, <3>1, <3>2
    <3>4. wake = kern.xTickCount + ticks - TickModulus
      BY <1>1, <3>3 DEF x
    <3> HIDE DEF wake
    <3> QED
      BY <1>1, <2>4, <3>4
  <2> QED
    BY <2>2, <2>3, <2>4, <1>1
<1>3. /\ soon \in Seq(Tasks) /\ over \in Seq(Tasks)
      /\ t \notin Delayed(kern) /\ t \notin Overflown(kern) /\ t \notin Suspended(kern)
      /\ Delayed(kern) \subseteq Tasks /\ Overflown(kern) \subseteq Tasks
      /\ Sleepers(kern) = Delayed(kern) \cup Overflown(kern)
  BY KernelFields, SleepersAreTasks DEF PlacesSound, Blocked
<1>4. /\ SameTime(kern, removed) /\ SameBlocked(kern, removed)
      /\ removed.xTimeToWake = kern.xTimeToWake
      /\ removed.xNextTaskUnblockTime = kern.xNextTaskUnblockTime
      /\ removed \in Kernel
  BY MadeUnready DEF RemovedFromReady, Kernel, SameTime, SameBlocked, PlacesSound
<1>5. r = IF ticks = portMAX_DELAY /\ forever
          THEN [removed EXCEPT !.xSuspendedTaskList = Append(@, t)]
          ELSE IF wake < kern.xTickCount
          THEN [timed EXCEPT !.pxOverflowDelayedTaskList = vListInsert(@, timed.xTimeToWake, t)]
          ELSE [timed EXCEPT !.pxDelayedTaskList = vListInsert(@, timed.xTimeToWake, t),
                             !.xNextTaskUnblockTime = IF wake < @ THEN wake ELSE @]
  <2>1. timed = [removed EXCEPT !.xTimeToWake[t] = wake]
    BY <1>4
  <2> QED
    BY <2>1 DEF prvAddCurrentTaskToDelayedList, RemovedFromReady
<1>6. Fair(kern) => Fair(r)
  BY FairBlocked DEF PlacesSound
<1>7. /\ times \in [Tasks -> Nat] /\ times[t] = wake
      /\ \A u \in Tasks : u # t => times[u] = kern.xTimeToWake[u]
  BY <1>1, <1>2
<1> HIDE DEF wake, removed, times
<1>8. /\ timed.xTimeToWake = times
      /\ timed.pxDelayedTaskList = soon /\ timed.pxOverflowDelayedTaskList = over
      /\ timed.xSuspendedTaskList = kern.xSuspendedTaskList
      /\ timed.xNextTaskUnblockTime = kern.xNextTaskUnblockTime
      /\ SameTime(kern, timed)
  BY <1>4 DEF Kernel, SameTime, SameBlocked
<1>9. timed = [removed EXCEPT !.xTimeToWake = times]
  OBVIOUS
<1> HIDE DEF next, r, timed
<1>10. Sorted(soon, times) /\ Sorted(over, times)
  <2>1. Sorted(soon, kern.xTimeToWake) /\ Sorted(over, kern.xTimeToWake)
    BY DEF Timed, ListsSorted
  <2>2. /\ \A u \in ToSet(soon) : times[u] = kern.xTimeToWake[u]
        /\ \A u \in ToSet(over) : times[u] = kern.xTimeToWake[u]
    BY <1>3, <1>7 DEF Delayed, Overflown
  <2> HIDE DEF soon, over
  <2> QED
    BY <1>3, <2>1, <2>2, SortedSame
<1>11. CASE ticks = portMAX_DELAY /\ forever
  <2>1. /\ SameTime(kern, r) /\ r.pxDelayedTaskList = soon /\ r.pxOverflowDelayedTaskList = over
        /\ r.xTimeToWake = kern.xTimeToWake /\ r.xNextTaskUnblockTime = kern.xNextTaskUnblockTime
        /\ r.xSuspendedTaskList = Append(kern.xSuspendedTaskList, t)
    BY <1>4, <1>5, <1>11 DEF Kernel, SameTime, SameBlocked
  <2>2. Suspended(r) = Suspended(kern) \cup {t}
    <3>1. kern.xSuspendedTaskList \in Seq(Tasks) /\ IsInjective(kern.xSuspendedTaskList)
          /\ t \notin ToSet(kern.xSuspendedTaskList)
      BY <1>3, KernelFields DEF PlacesSound, BlockedSound, Suspended
    <3> QED
      BY <1>1, <2>1, <3>1, AppendedOnce DEF Suspended
  <2>3. Delayed(r) = Delayed(kern) /\ Overflown(r) = Overflown(kern) /\ Sleepers(r) = Sleepers(kern)
    BY <2>1 DEF Delayed, Overflown, Sleepers
  <2>4. Timed(r) /\ \A u : WakeTime(r, u) = WakeTime(kern, u)
    BY <2>1, <2>3 DEF Timed, ListsSorted, WakeTime, SameTime
  <2> QED
    BY <1>6, <1>11, <2>1, <2>2, <2>3, <2>4 DEF BlocksFor, r
<1>12. CASE ~(ticks = portMAX_DELAY /\ forever) /\ wake < kern.xTickCount
  <2> DEFINE list == vListInsert(over, times, t)
  <2>1. ToSet(list) = ToSet(over) \cup {t} /\ Sorted(list, times)
    <3>1. IsInjective(over) /\ t \notin ToSet(over) /\ times \in [Tasks -> Nat]
      BY <1>3, <1>7 DEF PlacesSound, BlockedSound, Overflown
    <3> HIDE DEF over
    <3>2. Sorted(list, times)
      BY <1>1, <1>3, <1>10, <3>1, SortedAfterInsert
    <3> QED
      BY <1>1, <1>3, <3>1, <3>2, ValueInserted
  <2>2. /\ SameTime(kern, r) /\ r.pxDelayedTaskList = soon /\ r.pxOverflowDelayedTaskList = list
        /\ r.xTimeToWake = times /\ r.xNextTaskUnblockTime = kern.xNextTaskUnblockTime
        /\ r.xSuspendedTaskList = kern.xSuspendedTaskList
    <3>1. r = [timed EXCEPT !.pxOverflowDelayedTaskList = list]
      BY <1>5, <1>8, <1>12
    <3> HIDE DEF list
    <3>2. r = [removed EXCEPT !.xTimeToWake = times, !.pxOverflowDelayedTaskList = list]
      BY <1>9, <3>1
    <3> QED
      BY <1>4, <3>2 DEF Kernel, SameTime, SameBlocked
  <2> HIDE DEF list
  <2>3. /\ Delayed(r) = Delayed(kern) /\ Overflown(r) = Overflown(kern) \cup {t}
        /\ Suspended(r) = Suspended(kern) /\ Sleepers(r) = Sleepers(kern) \cup {t}
    <3>1. Delayed(r) = Delayed(kern) /\ Overflown(r) = Overflown(kern) \cup {t}
          /\ Suspended(r) = Suspended(kern) /\ Sleepers(r) = Delayed(r) \cup Overflown(r)
      BY <2>1, <2>2 DEF Delayed, Overflown, Sleepers, Suspended
    <3> QED
      BY <1>3, <3>1
  <2>4. Timed(r)
    <3>1. \A u \in Delayed(r) : /\ r.xTickCount < r.xTimeToWake[u]
                                /\ r.xNextTaskUnblockTime <= r.xTimeToWake[u]
      <4>1. \A u \in Delayed(kern) : /\ kern.xTickCount < kern.xTimeToWake[u] /\ u \in Tasks /\ u # t
                                     /\ kern.xNextTaskUnblockTime <= kern.xTimeToWake[u]
        BY <1>3 DEF Timed, ListsSorted
      <4> QED
        BY <1>7, <2>2, <2>3, <4>1 DEF SameTime
    <3>2. \A u \in Overflown(r) : r.xTimeToWake[u] < r.xTickCount
      <4>1. \A u \in Overflown(kern) : kern.xTimeToWake[u] < kern.xTickCount /\ u \in Tasks /\ u # t
        BY <1>3 DEF Timed, ListsSorted
      <4> QED
        BY <1>7, <1>12, <2>2, <2>3, <4>1 DEF SameTime
    <3> QED
      BY <1>10, <2>1, <2>2, <3>1, <3>2 DEF Timed, ListsSorted
  <2>5. WakeTime(r, t) = Time(kern) + ticks
    <3>1. WakeTime(r, t) = kern.xNumOfOverflows * TickModulus + wake + TickModulus
      BY <1>7, <2>2, <2>3 DEF WakeTime, SameTime
    <3> QED
      BY <1>1, <1>2, <1>12, <3>1 DEF Time
  <2>6. \A u \in Sleepers(kern) : WakeTime(r, u) = WakeTime(kern, u)
    <3>1. \A u \in Sleepers(kern) : /\ r.xTimeToWake[u] = kern.xTimeToWake[u]
                                    /\ u \in Overflown(r) <=> u \in Overflown(kern)
      BY <1>3, <1>7, <2>2, <2>3
    <3> QED
      BY <2>2, <3>1 DEF WakeTime, SameTime
  <2> QED
    BY <1>6, <1>12, <2>2, <2>3, <2>4, <2>5, <2>6 DEF BlocksFor, r
<1>13. CASE ~(ticks = portMAX_DELAY /\ forever) /\ ~(wake < kern.xTickCount)
  <2> DEFINE list == vListInsert(soon, times, t)
  <2>1. ToSet(list) = ToSet(soon) \cup {t} /\ Sorted(list, times)
    <3>1. IsInjective(soon) /\ t \notin ToSet(soon) /\ times \in [Tasks -> Nat]
      BY <1>3, <1>7 DEF PlacesSound, BlockedSound, Delayed
    <3> HIDE DEF soon
    <3>2. Sorted(list, times)
      BY <1>1, <1>3, <1>10, <3>1, SortedAfterInsert
    <3> QED
      BY <1>1, <1>3, <3>1, <3>2, ValueInserted
  <2>2. /\ SameTime(kern, r) /\ r.pxDelayedTaskList = list /\ r.pxOverflowDelayedTaskList = over
        /\ r.xTimeToWake = times /\ r.xNextTaskUnblockTime = next
        /\ r.xSuspendedTaskList = kern.xSuspendedTaskList
    <3>1. r = [timed EXCEPT !.pxDelayedTaskList = list, !.xNextTaskUnblockTime = next]
      BY <1>5, <1>8, <1>13 DEF next
    <3> HIDE DEF list
    <3>2. r = [removed EXCEPT !.xTimeToWake = times, !.pxDelayedTaskList = list,
                              !.xNextTaskUnblockTime = next]
      BY <1>9, <3>1
    <3> QED
      BY <1>4, <3>2 DEF Kernel, SameTime, SameBlocked
  <2> HIDE DEF list
  <2>3. /\ Delayed(r) = Delayed(kern) \cup {t} /\ Overflown(r) = Overflown(kern)
        /\ Suspended(r) = Suspended(kern) /\ Sleepers(r) = Sleepers(kern) \cup {t}
    <3>1. Delayed(r) = Delayed(kern) \cup {t} /\ Overflown(r) = Overflown(kern)
          /\ Suspended(r) = Suspended(kern) /\ Sleepers(r) = Delayed(r) \cup Overflown(r)
      BY <2>1, <2>2 DEF Delayed, Overflown, Sleepers, Suspended
    <3> QED
      BY <1>3, <3>1
  <2>4. Timed(r)
    <3>1. \A u \in Delayed(r) : /\ r.xTickCount < r.xTimeToWake[u]
                                /\ r.xNextTaskUnblockTime <= r.xTimeToWake[u]
      <4>1. ASSUME NEW u \in Delayed(kern)
            PROVE  kern.xTickCount < times[u] /\ next <= times[u]
        <5>1. /\ kern.xTickCount < kern.xTimeToWake[u] /\ u \in Tasks /\ u # t
              /\ kern.xNextTaskUnblockTime <= kern.xTimeToWake[u]
          BY <1>3 DEF Timed, ListsSorted
        <5>2. times[u] = kern.xTimeToWake[u] /\ times[u] \in Nat
          BY <1>7, <5>1
        <5> QED
          BY <1>1, <1>2, <5>1, <5>2 DEF next
      <4>2. kern.xTickCount < times[t] /\ next <= times[t]
        BY <1>1, <1>2, <1>7, <1>13 DEF next
      <4> QED
        BY <2>2, <2>3, <4>1, <4>2 DEF SameTime
    <3>2. \A u \in Overflown(r) : r.xTimeToWake[u] < r.xTickCount
      <4>1. \A u \in Overflown(kern) : kern.xTimeToWake[u] < kern.xTickCount /\ u \in Tasks /\ u # t
        BY <1>3 DEF Timed, ListsSorted
      <4> QED
        BY <1>7, <2>2, <2>3, <4>1 DEF SameTime
    <3> QED
      BY <1>10, <2>1, <2>2, <3>1, <3>2 DEF Timed, ListsSorted
  <2>5. WakeTime(r, t) = Time(kern) + ticks
    <3>1. WakeTime(r, t) = kern.xNumOfOverflows * TickModulus + wake + 0
      BY <1>3, <1>7, <2>2, <2>3 DEF WakeTime, SameTime
    <3> QED
      BY <1>1, <1>2, <1>13, <3>1 DEF Time
  <2>6. \A u \in Sleepers(kern) : WakeTime(r, u) = WakeTime(kern, u)
    <3>1. \A u \in Sleepers(kern) : /\ r.xTimeToWake[u] = kern.xTimeToWake[u]
                                    /\ u \in Overflown(r) <=> u \in Overflown(kern)
      BY <1>3, <1>7, <2>2, <2>3
    <3> QED
      BY <2>2, <3>1 DEF WakeTime, SameTime
  <2> QED
    BY <1>6, <1>13, <2>2, <2>3, <2>4, <2>5, <2>6 DEF BlocksFor, r
<1> QED
  BY <1>11, <1>12, <1>13 DEF r

LEMMA PlacesInTime ==
  ASSUME NEW kern, Ordered(kern), Timed(kern), NEW t \in ReadyTasks(kern), t = kern.pxCurrentTCB,
         NEW ticks \in Ticks \ {0}
  PROVE  BlocksFor(kern, vTaskPlaceOnEventList(kern, ticks), t, ticks, TRUE)
<1> DEFINE waiters == vListInsert(kern.xTasksWaitingToReceive, EventItemValue, t)
           m == [kern EXCEPT !.xTasksWaitingToReceive = waiters]
           r == vTaskPlaceOnEventList(kern, ticks)
<1>1. /\ kern \in Kernel /\ PlacesSound(kern) /\ t \notin Waiters(kern) /\ t \in Tasks
      /\ kern.xTasksWaitingToReceive \in Seq(Tasks) /\ IsInjective(kern.xTasksWaitingToReceive)
  <2>1. kern \in Kernel /\ PlacesSound(kern) /\ WaitersBlocked(kern)
    BY OrderedIs
  <2> QED
    BY <2>1, KernelFields DEF PlacesSound, WaitersBlocked, Waiters
<1>2. waiters \in Seq(Tasks)
  BY <1>1, ValueInserted DEF Waiters
<1>3. r = prvAddCurrentTaskToDelayedList(m, ticks, TRUE)
  BY DEF vTaskPlaceOnEventList
<1>4. Fair(kern) => Fair(r)
  BY FairPlaced, TicksAreNumbers
<1> HIDE DEF waiters, r
<1>5. m \in Kernel /\ SameReady(kern, m) /\ SameShares(kern, m) /\ Keeps(kern, m)
  BY <1>1, <1>2 DEF Kernel, SameReady, SameShares, Keeps, SameTime, SameBlocked
<1> HIDE DEF m
<1>6. /\ ReadySound(m) /\ ReadyTasks(m) = ReadyTasks(kern) /\ m.pxCurrentTCB = t
      /\ BlockedSound(m) /\ Blocked(m) = Blocked(kern)
  BY <1>1, <1>5, SameMeansSame DEF SameShares, Keeps, PlacesSound
<1>7. PlacesSound(m)
  BY <1>1, <1>6 DEF PlacesSound
<1>8. /\ Time(m) = Time(kern) /\ Sleepers(m) = Sleepers(kern) /\ Suspended(m) = Suspended(kern)
      /\ \A u : WakeTime(m, u) = WakeTime(kern, u)
      /\ Timed(m)
  BY <1>5, KeptIsSame
<1>9. BlocksFor(m, r, t, ticks, TRUE)
  BY <1>3, <1>5, <1>6, <1>7, <1>8, BlocksInTime
<1>10. BlocksFor(kern, r, t, ticks, TRUE)
  BY <1>4, <1>5, <1>8, <1>9 DEF BlocksFor, Keeps, SameTime
<1> QED
  BY <1>10 DEF r

-----------------------------------------------------------------------------
(* A send wakes the first of the receivers, before its time. *)

LEMMA ReceiverWokenEarly ==
  ASSUME NEW kern, Ordered(kern), Timed(kern), kern.xTasksWaitingToReceive # <<>>
  PROVE  LET t == Head(kern.xTasksWaitingToReceive)
             r == ReceiverWoken(kern) IN
         /\ SameTime(kern, r) /\ Timed(r) /\ PassesBut(kern, r, {t})
<1> DEFINE t == Head(kern.xTasksWaitingToReceive)
           waiters == Tail(kern.xTasksWaitingToReceive)
           delayed == RemoveFirst(kern.pxDelayedTaskList, t)
           overflow == RemoveFirst(kern.pxOverflowDelayedTaskList, t)
           suspended == RemoveFirst(kern.xSuspendedTaskList, t)
           times == [kern.xTimeToWake EXCEPT ![t] = 0]
           m == [kern EXCEPT !.xTasksWaitingToReceive = waiters, !.pxDelayedTaskList = delayed,
                             !.pxOverflowDelayedTaskList = overflow,
                             !.xSuspendedTaskList = suspended, !.xTimeToWake = times]
           r == ReceiverWoken(kern)
<1>1. kern \in Kernel /\ PlacesSound(kern) /\ WaitersBlocked(kern)
  BY OrderedIs
<1>2. /\ kern.pxDelayedTaskList \in Seq(Tasks) /\ IsInjective(kern.pxDelayedTaskList)
      /\ kern.pxOverflowDelayedTaskList \in Seq(Tasks) /\ IsInjective(kern.pxOverflowDelayedTaskList)
      /\ kern.xSuspendedTaskList \in Seq(Tasks) /\ IsInjective(kern.xSuspendedTaskList)
      /\ kern.xTasksWaitingToReceive \in Seq(Tasks) /\ IsInjective(kern.xTasksWaitingToReceive)
  BY <1>1, KernelFields DEF PlacesSound, BlockedSound, WaitersBlocked
<1>3. waiters \in Seq(Tasks)
  BY <1>2, TakenFirst
<1>4. t \in Tasks /\ t \notin ReadyTasks(kern)
  <2>1. t \in Waiters(kern) /\ t \in Tasks
    BY ReceiverWakes
  <2> QED
    BY <1>1, <2>1 DEF WaitersBlocked, Waiters
<1>5. times \in [Tasks -> Ticks] /\ \A u \in Tasks : u # t => times[u] = kern.xTimeToWake[u]
  BY <1>1, KernelFields, TicksAreNumbers
<1>6. r = prvAddTaskToReadyList(m, t)
  BY DEF ReceiverWoken
<1> HIDE DEF t, waiters
<1>7. /\ delayed \in Seq(Tasks) /\ ToSet(delayed) = Delayed(kern) \ {t}
      /\ overflow \in Seq(Tasks) /\ ToSet(overflow) = Overflown(kern) \ {t}
      /\ suspended \in Seq(Tasks) /\ ToSet(suspended) = Suspended(kern) \ {t}
  BY <1>2, RemovedFirst DEF Delayed, Overflown, Suspended
<1>8. Delayed(kern) \subseteq Tasks /\ Overflown(kern) \subseteq Tasks
      /\ Sleepers(kern) = Delayed(kern) \cup Overflown(kern)
  BY <1>1, SleepersAreTasks
<1>9. Sorted(delayed, times) /\ Sorted(overflow, times)
  <2> DEFINE soon == kern.pxDelayedTaskList
             over == kern.pxOverflowDelayedTaskList
  <2>1. /\ Sorted(soon, kern.xTimeToWake) /\ Sorted(over, kern.xTimeToWake)
        /\ \A u \in ToSet(soon) : u # t => times[u] = kern.xTimeToWake[u]
        /\ \A u \in ToSet(over) : u # t => times[u] = kern.xTimeToWake[u]
        /\ IsInjective(soon) /\ IsInjective(over)
    BY <1>2, <1>5, <1>8 DEF Timed, ListsSorted, Delayed, Overflown
  <2>2. PICK s \in Seq(Tasks), o \in Seq(Tasks) : s = soon /\ o = over
    BY <1>2
  <2>3. /\ IsInjective(s) /\ Sorted(s, kern.xTimeToWake)
        /\ \A u \in ToSet(s) : u # t => times[u] = kern.xTimeToWake[u]
        /\ IsInjective(o) /\ Sorted(o, kern.xTimeToWake)
        /\ \A u \in ToSet(o) : u # t => times[u] = kern.xTimeToWake[u]
    BY <2>1, <2>2
  <2> HIDE DEF times
  <2>4. Sorted(RemoveFirst(s, t), times) /\ Sorted(RemoveFirst(o, t), times)
    BY <2>3, SortedAfterRemove
  <2> QED
    BY <2>2, <2>4
<1> HIDE DEF delayed, overflow, suspended, times, r
<1>10. /\ m \in Kernel /\ SameReady(kern, m) /\ SameShares(kern, m) /\ SameTime(kern, m)
       /\ m.pxDelayedTaskList = delayed /\ m.pxOverflowDelayedTaskList = overflow
       /\ m.xSuspendedTaskList = suspended /\ m.xTimeToWake = times
       /\ m.xNextTaskUnblockTime = kern.xNextTaskUnblockTime
  BY <1>1, <1>3, <1>5, <1>7 DEF Kernel, SameReady, SameShares, SameTime
<1> HIDE DEF m
<1>11. ReadySound(m) /\ t \notin ReadyTasks(m) /\ (Fair(kern) => Fair(m))
  BY <1>1, <1>4, <1>10, SameMeansSame, FairIfSame DEF PlacesSound
<1>12. Fair(kern) => Fair(r)
  BY <1>4, <1>6, <1>10, <1>11, FairMadeReady
<1>13. Keeps(m, r)
  BY <1>6, <1>10 DEF prvAddTaskToReadyList, Kernel, Keeps, SameTime, SameBlocked
<1>14. /\ SameTime(kern, r) /\ r.pxDelayedTaskList = delayed /\ r.pxOverflowDelayedTaskList = overflow
       /\ r.xSuspendedTaskList = suspended /\ r.xTimeToWake = times
       /\ r.xNextTaskUnblockTime = kern.xNextTaskUnblockTime
  BY <1>10, <1>13 DEF Keeps, SameTime, SameBlocked
<1>15. /\ Delayed(r) = Delayed(kern) \ {t} /\ Overflown(r) = Overflown(kern) \ {t}
       /\ Suspended(r) = Suspended(kern) \ {t} /\ Sleepers(r) = Sleepers(kern) \ {t}
  <2>1. /\ Delayed(r) = Delayed(kern) \ {t} /\ Overflown(r) = Overflown(kern) \ {t}
        /\ Suspended(r) = Suspended(kern) \ {t} /\ Sleepers(r) = Delayed(r) \cup Overflown(r)
    BY <1>7, <1>14 DEF Delayed, Overflown, Suspended, Sleepers
  <2> QED
    BY <1>8, <2>1
<1>16. Timed(r)
  <2>1. \A u \in Delayed(r) : /\ r.xTickCount < r.xTimeToWake[u]
                              /\ r.xNextTaskUnblockTime <= r.xTimeToWake[u]
    BY <1>5, <1>8, <1>14, <1>15 DEF Timed, ListsSorted, SameTime
  <2>2. \A u \in Overflown(r) : r.xTimeToWake[u] < r.xTickCount
    BY <1>5, <1>8, <1>14, <1>15 DEF Timed, ListsSorted, SameTime
  <2> QED
    BY <1>9, <1>14, <2>1, <2>2 DEF Timed, ListsSorted
<1>17. \A u \in Sleepers(r) : WakeTime(r, u) = WakeTime(kern, u)
  <2>1. \A u \in Sleepers(r) : /\ r.xTimeToWake[u] = kern.xTimeToWake[u]
                               /\ u \in Overflown(r) <=> u \in Overflown(kern)
    BY <1>5, <1>8, <1>14, <1>15
  <2> QED
    BY <1>14, <2>1 DEF WakeTime, SameTime
<1>18. Time(r) = Time(kern) /\ Time(kern) \in Nat
  BY <1>1, <1>14, TimeIsNatural DEF SameTime, Time
<1>19. PassesBut(kern, r, {t})
  BY <1>12, <1>14, <1>15, <1>17, <1>18 DEF PassesBut, SameTime
<1> QED
  BY <1>14, <1>16, <1>19 DEF r, t

LEMMA SendInTime ==
  ASSUME NEW kern, Ordered(kern), Timed(kern), kern.xTasksWaitingToReceive # <<>>,
         kern.uxSchedulerSuspended = 0
  PROVE  LET t == Head(kern.xTasksWaitingToReceive)
             r == xTaskRemoveFromEventList(kern) IN
         SameTime(kern, r) /\ Timed(r) /\ PassesBut(kern, r, {t})
<1> DEFINE t == Head(kern.xTasksWaitingToReceive)
           ready == ReceiverWoken(kern)
           r == xTaskRemoveFromEventList(kern)
<1>1. Wakes(kern, t, ready)
  BY ReceiverWakes
<1>2. r = IF Priority[t] > Priority[kern.pxCurrentTCB] THEN vTaskSwitchContext(ready) ELSE ready
  BY DEF xTaskRemoveFromEventList, ReceiverWoken
<1>3. SameTime(kern, ready) /\ Timed(ready) /\ PassesBut(kern, ready, {t})
  BY ReceiverWokenEarly
<1> HIDE DEF t, ready, r
<1>4. /\ Ordered(ready) /\ ReadyTasks(ready) # {} /\ ready.uxSchedulerSuspended = 0
      /\ kern \in Kernel /\ ready \in Kernel
  BY <1>1 DEF Wakes, SameControl, Ordered
<1>5. CASE Priority[t] > Priority[kern.pxCurrentTCB]
  <2>1. Keeps(ready, r) /\ Passes(ready, r)
    BY <1>2, <1>4, <1>5, SwitchPasses
  <2>2. Timed(r)
    BY <1>3, <2>1, KeptIsSame
  <2>3. r \in Kernel
    BY <1>2, <1>4, <1>5, ContextSwitches DEF Switches, Ordered
  <2>4. PassesBut(kern, r, {t})
    BY <1>3, <1>4, <2>1, <2>3, PassesOn
  <2> QED
    BY <1>3, <2>1, <2>2, <2>4 DEF Keeps, SameTime, r, t
<1>6. CASE ~(Priority[t] > Priority[kern.pxCurrentTCB])
  BY <1>2, <1>3, <1>6 DEF r, t
<1> QED
  BY <1>5, <1>6

-----------------------------------------------------------------------------
(* The timer interrupt. *)

LEMMA ElapseKeeps ==
  ASSUME NEW kern \in Kernel
  PROVE  LET e == Elapse(kern) IN
         /\ Time(e) = Time(kern) /\ Clock(e) = Clock(kern) /\ e.xPendedTicks = kern.xPendedTicks
         /\ Sleepers(e) = Sleepers(kern) /\ Suspended(e) = Suspended(kern)
         /\ \A t : WakeTime(e, t) = WakeTime(kern, t)
         /\ Timed(kern) => Timed(e)
         /\ SameShares(kern, e)
         /\ \A t \in Tasks : e.due[t] = IF kern.due[t] \in {0, Forever} THEN kern.due[t]
                                        ELSE kern.due[t] - 1
<1> DEFINE e == Elapse(kern)
           due == [t \in Tasks |-> IF kern.due[t] \in {0, Forever} THEN kern.due[t]
                                   ELSE kern.due[t] - 1]
<1>1. e = [kern EXCEPT !.due = due]
  BY DEF Elapse
<1>2. \A t \in Tasks : due[t] = IF kern.due[t] \in {0, Forever} THEN kern.due[t]
                                ELSE kern.due[t] - 1
  OBVIOUS
<1> HIDE DEF e, due
<1>3. /\ SameBlocked(kern, e) /\ SameShares(kern, e) /\ e.due = due
      /\ e.xTickCount = kern.xTickCount /\ e.xNumOfOverflows = kern.xNumOfOverflows
      /\ e.xPendedTicks = kern.xPendedTicks /\ e.xTimeToWake = kern.xTimeToWake
      /\ e.xNextTaskUnblockTime = kern.xNextTaskUnblockTime
  BY <1>1 DEF Kernel, SameBlocked, SameShares
<1>4. /\ Time(e) = Time(kern) /\ Clock(e) = Clock(kern)
      /\ Sleepers(e) = Sleepers(kern) /\ Suspended(e) = Suspended(kern)
      /\ Delayed(e) = Delayed(kern) /\ Overflown(e) = Overflown(kern)
  BY <1>3 DEF SameBlocked, Time, Clock, Sleepers, Suspended, Delayed, Overflown
<1>5. \A t : WakeTime(e, t) = WakeTime(kern, t)
  BY <1>3, <1>4 DEF WakeTime
<1>6. Timed(kern) => Timed(e)
  BY <1>3, <1>4 DEF SameBlocked, Timed, ListsSorted
<1> QED
  BY <1>2, <1>3, <1>4, <1>5, <1>6 DEF e

LEMMA InterruptPasses ==
  ASSUME NEW kern, Ordered(kern), Timed(kern), ReadyTasks(kern) # {}
  PROVE  LET r == AfterTick(kern) IN
         /\ Timed(r) /\ Passes(Elapse(kern), r) /\ Clock(r) = Clock(kern) + 1
         /\ kern.uxSchedulerSuspended = 0 => r.xPendedTicks = kern.xPendedTicks
         /\ r.uxSchedulerSuspended = kern.uxSchedulerSuspended
<1> DEFINE e == Elapse(kern)
           tick == xTaskIncrementTick(e)
           r == AfterTick(kern)
<1>1. NothingMoves(kern, e) /\ SameControl(kern, e) /\ kern \in Kernel
  BY TimeElapses DEF Ordered
<1>2. r = IF tick.xSwitchRequired THEN vTaskSwitchContext(tick.kernel) ELSE tick.kernel
  BY DEF AfterTick
<1>3. /\ Ordered(e) /\ ReadyTasks(e) # {} /\ e \in Kernel
      /\ e.uxSchedulerSuspended = kern.uxSchedulerSuspended
  BY <1>1 DEF NothingMoves, SameControl, Ordered
<1>4. Timed(e) /\ Clock(e) = Clock(kern) /\ e.xPendedTicks = kern.xPendedTicks
  BY <1>1, ElapseKeeps
<1>5. Time(e) \in Nat /\ e.xPendedTicks \in Nat
  BY <1>3, TimeIsNatural
<1> HIDE DEF e, r
<1>6. CASE e.uxSchedulerSuspended = 0
  <2>1. tick = OneTick(e)
    BY <1>6 DEF xTaskIncrementTick
  <2> HIDE DEF tick
  <2>2. MoreReady(e, tick.kernel)
    BY <1>3, <2>1, TickWakes
  <2>3. /\ Ordered(tick.kernel) /\ tick.kernel.uxSchedulerSuspended = 0
        /\ ReadyTasks(tick.kernel) # {} /\ tick.kernel \in Kernel
    BY <1>3, <1>6, <2>2 DEF MoreReady, SameControl, Ordered
  <2>4. /\ Timed(tick.kernel) /\ Passes(e, tick.kernel) /\ Time(tick.kernel) = Time(e) + 1
        /\ tick.kernel.xPendedTicks = e.xPendedTicks
    BY <1>3, <1>4, <2>1, TickPasses
  <2>5. Clock(tick.kernel) = Clock(e) + 1
    BY <1>5, <2>4 DEF Clock
  <2>6. CASE tick.xSwitchRequired
    <3>1. Keeps(tick.kernel, r) /\ Passes(tick.kernel, r) /\ Switches(tick.kernel, r)
      BY <1>2, <2>3, <2>6, SwitchPasses, ContextSwitches
    <3>2. r \in Kernel /\ r.uxSchedulerSuspended = 0
      BY <3>1 DEF Switches, Ordered
    <3>3. Passes(e, r)
      BY <1>3, <2>3, <2>4, <3>1, <3>2, PassesOn DEF Passes
    <3>4. Timed(r) /\ Clock(r) = Clock(tick.kernel) /\ r.xPendedTicks = tick.kernel.xPendedTicks
      BY <2>4, <3>1, KeptIsSame DEF Keeps, SameTime
    <3> QED
      BY <1>3, <1>4, <1>6, <2>4, <2>5, <3>2, <3>3, <3>4 DEF r, e
  <2>7. CASE ~tick.xSwitchRequired
    <3>1. r = tick.kernel
      BY <1>2, <2>7
    <3> QED
      BY <1>3, <1>4, <1>6, <2>3, <2>4, <2>5, <3>1 DEF r, e
  <2> QED
    BY <2>6, <2>7
<1>7. CASE e.uxSchedulerSuspended # 0
  <2> DEFINE pended == e.xPendedTicks + 1
  <2>1. tick = [kernel |-> [e EXCEPT !.xPendedTicks = pended], xSwitchRequired |-> FALSE]
    BY <1>7 DEF xTaskIncrementTick
  <2>2. r = [e EXCEPT !.xPendedTicks = pended]
    BY <1>2, <2>1
  <2>3. pended \in Nat
    BY <1>5
  <2> HIDE DEF tick, pended
  <2>4. /\ SameBlocked(e, r) /\ SameShares(e, r) /\ r.due = e.due
        /\ r.xTickCount = e.xTickCount /\ r.xNumOfOverflows = e.xNumOfOverflows
        /\ r.xPendedTicks = pended /\ r.xTimeToWake = e.xTimeToWake
        /\ r.xNextTaskUnblockTime = e.xNextTaskUnblockTime
        /\ r.uxSchedulerSuspended = e.uxSchedulerSuspended
    BY <1>3, <2>2 DEF Kernel, SameBlocked, SameShares
  <2>5. /\ Time(r) = Time(e) /\ Sleepers(r) = Sleepers(e) /\ Suspended(r) = Suspended(e)
        /\ Delayed(r) = Delayed(e) /\ Overflown(r) = Overflown(e)
    BY <2>4 DEF SameBlocked, Time, Sleepers, Suspended, Delayed, Overflown
  <2>6. \A t : WakeTime(r, t) = WakeTime(e, t)
    BY <2>4, <2>5 DEF WakeTime
  <2>7. Timed(r)
    BY <1>4, <2>4, <2>5 DEF Timed, ListsSorted, SameBlocked
  <2>8. Fair(e) => Fair(r)
    BY <2>4, FairIfSame
  <2>9. Passes(e, r)
    BY <1>5, <2>4, <2>5, <2>6, <2>8 DEF Passes, PassesBut
  <2>10. Clock(r) = Clock(e) + 1
    BY <1>5, <2>4, <2>5 DEF Clock, pended
  <2> QED
    BY <1>3, <1>4, <1>7, <2>4, <2>7, <2>9, <2>10 DEF r, e
<1> QED
  BY <1>6, <1>7

-----------------------------------------------------------------------------
(* The start: nobody sleeps, and nobody has been passed over. *)

LEMMA StartsInTime ==
  ASSUME NEW r, Starts(r)
  PROVE  Timed(r) /\ Fair(r) /\ Sleepers(r) = {} /\ Suspended(r) = {} /\ Time(r) = 0
<1>1. r \in Kernel /\ PlacesSound(r) /\ ReadyTasks(r) = Tasks /\ r.pxCurrentTCB \in Tasks
  BY OrderedIs, KernelFields DEF Starts
<1>2. /\ Sleepers(r) = {} /\ Suspended(r) = {} /\ Delayed(r) = {} /\ Overflown(r) = {}
  <2>1. Sleepers(r) \subseteq Tasks /\ Suspended(r) \subseteq Tasks
        /\ Sleepers(r) = Delayed(r) \cup Overflown(r)
    BY <1>1, SleepersAreTasks
  <2>2. Sleepers(r) \cap Tasks = {} /\ Suspended(r) \cap Tasks = {}
    BY <1>1 DEF PlacesSound, Blocked
  <2> QED
    BY <2>1, <2>2
<1>3. \A s \in Seq(Tasks) : ToSet(s) = {} => \A value : Sorted(s, value)
  <2> SUFFICES ASSUME NEW s \in Seq(Tasks), ToSet(s) = {}, NEW value
               PROVE  Sorted(s, value)
    OBVIOUS
  <2>1. \A i \in 1 .. Len(s) : s[i] \in ToSet(s)
    BY ItemsOf
  <2> QED
    BY <2>1 DEF Sorted
<1>4. Timed(r)
  BY <1>1, <1>2, <1>3, KernelFields DEF Timed, ListsSorted, Delayed, Overflown
<1>5. \A t \in Tasks : r.passed[t] = 0
  BY DEF Starts, NothingCounted
<1>6. \A p \in 0 .. TopPriority : FairList(r.pxReadyTasksLists[p], r.passed, Others(p))
  <2> SUFFICES ASSUME NEW p \in 0 .. TopPriority
               PROVE  FairList(r.pxReadyTasksLists[p], r.passed, Others(p))
    OBVIOUS
  <2> DEFINE list == r.pxReadyTasksLists[p]
  <2>1. /\ list \in ListsOf(Tasks) /\ ListSound(list)
        /\ ToSet(list.items) = {t \in ReadyTasks(r) : Priority[t] = p}
    BY <1>1, OneReadyList DEF PlacesSound, ItemsAt
  <2> SUFFICES ASSUME NEW i \in 1 .. Len(list.items)
               PROVE  FairPlace(i, Len(list.items), list.index, r.passed[list.items[i]], Others(p))
    BY DEF FairList
  <2>2. list.items \in Seq(Tasks) /\ list.index \in Nat /\ list.index <= Len(list.items)
    BY <2>1 DEF ListsOf, ListSound
  <2>3. list.items[i] \in Tasks /\ Priority[list.items[i]] = p
    BY <2>1, <2>2, ItemsOf
  <2>4. Others(p) \in Nat /\ Len(list.items) <= Others(p) + 1
    BY <1>1, <2>3, OthersAre, ListLength DEF PlacesSound
  <2>5. r.passed[list.items[i]] = 0
    BY <1>5, <2>3
  <2> HIDE DEF list
  <2> QED
    BY <2>2, <2>4, <2>5 DEF FairPlace
<1>7. Fair(r)
  BY <1>1, <1>5, <1>6 DEF Fair
<1>8. Time(r) = 0
  BY TicksAreNumbers DEF Starts, NothingCounted, Time
<1> QED
  BY <1>2, <1>4, <1>7, <1>8

-----------------------------------------------------------------------------
(* What is left of a time.  "exact" tells the two halves of the invariant: *)
(* that nobody has less time left than due says, and that it is the same.  *)

Left(now, at) == IF at > now THEN at - now ELSE 0
Matches(exact, d, now, at) == d <= Left(now, at) /\ (exact => d = Left(now, at))

Since(timeout) == timeout.xOverflowCount * TickModulus + timeout.xTimeOnEntering

(* What a task has asked for, and when it will be woken: "set" and "wait"  *)
(* are its xEntryTimeSet and xTicksToWait, "since" is when it began.       *)
TaskInTime(exact, kern, t, set, since, wait) ==
    /\ t \in Sleepers(kern) => Matches(exact, kern.due[t], Clock(kern), WakeTime(kern, t))
    /\ set => /\ since <= Time(kern)
              /\ wait = portMAX_DELAY => kern.due[t] = Forever
              /\ wait # portMAX_DELAY => Matches(exact, kern.due[t], Clock(kern), since + wait)
    /\ ~set /\ t \notin Sleepers(kern) => kern.due[t] = 0
    /\ t \in Waiters(kern) \cup Suspended(kern) => set
    /\ t \in Suspended(kern) => wait = portMAX_DELAY

LEMMA SinceIsNatural ==
  ASSUME NEW timeout \in TimeOut
  PROVE  /\ Since(timeout) \in Nat /\ timeout.xOverflowCount \in Nat
         /\ timeout.xTimeOnEntering \in Nat /\ timeout.xTimeOnEntering < TickModulus
<1>1. timeout.xOverflowCount \in Nat /\ timeout.xTimeOnEntering \in Ticks
  BY DEF TimeOut
<1>2. timeout.xOverflowCount * TickModulus \in Nat
  BY <1>1, OverflowsCount
<1>3. timeout.xTimeOnEntering \in Nat /\ timeout.xTimeOnEntering < TickModulus
  BY <1>1, TicksAreNumbers DEF Ticks
<1> QED
  BY <1>1, <1>2, <1>3 DEF Since

LEMMA DueIsNatural ==
  ASSUME NEW kern \in Kernel, NEW t \in Tasks
  PROVE  /\ kern.due[t] \in Nat /\ kern.due[t] <= Forever /\ Forever = TickModulus
         /\ portMAX_DELAY \in Nat /\ portMAX_DELAY = Forever - 1 /\ portMAX_DELAY > 0
<1>1. kern.due[t] \in 0 .. Forever
  BY KernelFields
<1> QED
  BY <1>1, TicksAreNumbers DEF Forever, portMAX_DELAY

(* The time goes on in the kernel, and a task may be made ready.  *)
LEMMA InTimeAfterwards ==
  ASSUME NEW kern \in Kernel, NEW r \in Kernel, NEW early, PassesBut(kern, r, early),
         Clock(r) = Clock(kern), Waiters(r) \subseteq Waiters(kern),
         NEW exact \in BOOLEAN, NEW t \in Tasks, NEW set \in BOOLEAN, NEW since \in Nat,
         NEW wait \in Nat, TaskInTime(exact, kern, t, set, since, wait), t \in early => set
  PROVE  TaskInTime(exact, r, t, set, since, wait)
<1>1. /\ Time(kern) \in Nat /\ Time(r) \in Nat /\ Clock(kern) \in Nat /\ Time(r) <= Clock(r)
      /\ kern.due[t] \in Nat /\ WakeTime(kern, t) \in Nat
  <2>1. r.xPendedTicks \in Nat /\ Time(r) \in Nat
    BY TimeIsNatural
  <2>2. Time(r) <= Clock(r)
    BY <2>1 DEF Clock
  <2> QED
    BY <2>1, <2>2, TimeIsNatural, DueIsNatural
<1>2. /\ r.due = kern.due /\ Time(kern) <= Time(r)
      /\ Sleepers(r) \subseteq Sleepers(kern) /\ Suspended(r) \subseteq Suspended(kern)
      /\ t \in Sleepers(r) => WakeTime(r, t) = WakeTime(kern, t)
      /\ t \in Sleepers(kern) \ Sleepers(r) => WakeTime(kern, t) <= Time(r) \/ t \in early
  BY DEF PassesBut
<1>3. ASSUME t \in Sleepers(r)
      PROVE  Matches(exact, r.due[t], Clock(r), WakeTime(r, t))
  BY <1>2, <1>3 DEF TaskInTime
<1>4. ASSUME set
      PROVE  /\ since <= Time(r)
             /\ wait = portMAX_DELAY => r.due[t] = Forever
             /\ wait # portMAX_DELAY => Matches(exact, r.due[t], Clock(r), since + wait)
  BY <1>1, <1>2, <1>4 DEF TaskInTime
<1>5. ASSUME ~set, t \notin Sleepers(r)
      PROVE  r.due[t] = 0
  <2>1. CASE t \in Sleepers(kern)
    <3>1. WakeTime(kern, t) <= Clock(kern)
      BY <1>1, <1>2, <1>5, <2>1
    <3>2. kern.due[t] <= 0
      BY <1>1, <2>1, <3>1 DEF TaskInTime, Matches, Left
    <3> QED
      BY <1>1, <1>2, <3>2
  <2>2. CASE t \notin Sleepers(kern)
    BY <1>2, <1>5, <2>2 DEF TaskInTime
  <2> QED
    BY <2>1, <2>2
<1> QED
  BY <1>2, <1>3, <1>4, <1>5 DEF TaskInTime

(* The timer interrupt, at which one tick less is left to everybody.  *)
LEMMA OneLessLeft ==
  ASSUME NEW exact \in BOOLEAN, NEW d \in Nat, NEW now \in Nat, NEW at \in Nat,
         Matches(exact, d, now, at), NEW next, next = IF d = 0 THEN 0 ELSE d - 1
  PROVE  Matches(exact, next, now + 1, at)
<1>1. CASE at > now
  BY <1>1 DEF Matches, Left
<1>2. CASE ~(at > now)
  BY <1>2 DEF Matches, Left
<1> QED
  BY <1>1, <1>2

LEMMA SleepsAtMost ==
  ASSUME NEW kern \in Kernel, Timed(kern), NEW t \in Sleepers(kern)
  PROVE  /\ Time(kern) < WakeTime(kern, t) /\ WakeTime(kern, t) < Time(kern) + TickModulus
         /\ WakeTime(kern, t) - Time(kern)
                = kern.xTimeToWake[t] - kern.xTickCount
                      + IF t \in Overflown(kern) THEN TickModulus ELSE 0
<1>1. t \in Tasks /\ (t \in Delayed(kern) \/ t \in Overflown(kern))
  BY SleepersAreTasks
<1> DEFINE base == kern.xNumOfOverflows * TickModulus
           wake == kern.xTimeToWake[t]
           now == kern.xTickCount
<1>2. /\ base \in Nat /\ wake \in Nat /\ now \in Nat /\ wake < TickModulus /\ now < TickModulus
      /\ TickModulus \in Nat
  BY <1>1, TimeIsNatural
<1>3. /\ Time(kern) = base + now
      /\ WakeTime(kern, t) = base + wake + IF t \in Overflown(kern) THEN TickModulus ELSE 0
  BY DEF Time, WakeTime
<1>4. IF t \in Overflown(kern) THEN wake < now ELSE now < wake
  BY <1>1 DEF Timed, ListsSorted
<1> HIDE DEF base, wake, now
<1>5. CASE t \in Overflown(kern)
  <2>1. WakeTime(kern, t) = base + wake + TickModulus
    BY <1>3, <1>5
  <2> QED
    BY <1>2, <1>3, <1>4, <1>5, <2>1 DEF wake, now
<1>6. CASE t \notin Overflown(kern)
  <2>1. WakeTime(kern, t) = base + wake
    BY <1>2, <1>3, <1>6
  <2> QED
    BY <1>2, <1>3, <1>4, <1>6, <2>1 DEF wake, now
<1> QED
  BY <1>5, <1>6

LEMMA InTimeAtTick ==
  ASSUME NEW kern, Ordered(kern), Timed(kern), NEW r \in Kernel, Passes(Elapse(kern), r),
         Clock(r) = Clock(kern) + 1, Waiters(r) \subseteq Waiters(kern),
         NEW exact \in BOOLEAN, NEW t \in Tasks, NEW set \in BOOLEAN, NEW since \in Nat,
         NEW wait \in Ticks, TaskInTime(exact, kern, t, set, since, wait)
  PROVE  TaskInTime(exact, r, t, set, since, wait)
<1> DEFINE e == Elapse(kern)
           d == kern.due[t]
<1>1. /\ kern \in Kernel /\ TickModulus \in Nat /\ wait \in Nat /\ wait < TickModulus
      /\ portMAX_DELAY = TickModulus - 1 /\ Forever = TickModulus /\ d \in Nat /\ d <= Forever
  BY TicksAreNumbers, DueIsNatural DEF Ordered, Ticks, portMAX_DELAY
<1>2. /\ Time(e) = Time(kern) /\ Clock(e) = Clock(kern)
      /\ Sleepers(e) = Sleepers(kern) /\ Suspended(e) = Suspended(kern)
      /\ WakeTime(e, t) = WakeTime(kern, t)
      /\ e.due[t] = IF d \in {0, Forever} THEN d ELSE d - 1
  BY <1>1, ElapseKeeps
<1>3. /\ r.due = e.due /\ Time(e) <= Time(r)
      /\ Sleepers(r) \subseteq Sleepers(e) /\ Suspended(r) \subseteq Suspended(e)
      /\ t \in Sleepers(r) => WakeTime(r, t) = WakeTime(e, t)
      /\ t \in Sleepers(e) \ Sleepers(r) => WakeTime(e, t) <= Time(r)
  BY DEF Passes, PassesBut
<1> HIDE DEF e, d
<1>4. /\ Time(kern) \in Nat /\ Time(r) \in Nat /\ Clock(kern) \in Nat /\ Clock(r) \in Nat
      /\ Time(kern) <= Clock(kern) /\ Time(r) <= Clock(r) /\ WakeTime(kern, t) \in Nat
  <2>1. /\ r.xPendedTicks \in Nat /\ Time(r) \in Nat /\ Clock(r) \in Nat /\ Clock(kern) \in Nat
        /\ kern.xPendedTicks \in Nat /\ Time(kern) \in Nat /\ WakeTime(kern, t) \in Nat
    BY <1>1, TimeIsNatural
  <2> QED
    BY <2>1 DEF Clock
<1>5. ASSUME NEW at \in Nat, at < Time(kern) + TickModulus, Matches(exact, d, Clock(kern), at)
      PROVE  Matches(exact, r.due[t], Clock(r), at)
  <2>1. d < TickModulus
    <3>1. Left(Clock(kern), at) < TickModulus
      BY <1>1, <1>4, <1>5 DEF Left
    <3>2. Left(Clock(kern), at) \in Nat
      BY <1>4 DEF Left
    <3> QED
      BY <1>1, <1>5, <3>1, <3>2 DEF Matches
  <2>2. r.due[t] = IF d = 0 THEN 0 ELSE d - 1
    BY <1>1, <1>2, <1>3, <2>1
  <2>3. Matches(exact, r.due[t], Clock(kern) + 1, at)
    BY <1>1, <1>4, <1>5, <2>2, OneLessLeft
  <2> QED
    BY <2>3
<1>6. ASSUME t \in Sleepers(kern)
      PROVE  WakeTime(kern, t) < Time(kern) + TickModulus
  BY <1>1, <1>6, SleepsAtMost
<1>7. ASSUME t \in Sleepers(r)
      PROVE  Matches(exact, r.due[t], Clock(r), WakeTime(r, t))
  <2>1. t \in Sleepers(kern) /\ WakeTime(r, t) = WakeTime(kern, t)
    BY <1>2, <1>3, <1>7
  <2>2. Matches(exact, d, Clock(kern), WakeTime(kern, t))
    BY <2>1 DEF TaskInTime, d
  <2> QED
    BY <1>4, <1>5, <1>6, <2>1, <2>2
<1>8. ASSUME set
      PROVE  /\ since <= Time(r)
             /\ wait = portMAX_DELAY => r.due[t] = Forever
             /\ wait # portMAX_DELAY => Matches(exact, r.due[t], Clock(r), since + wait)
  <2>1. since <= Time(kern)
    BY <1>8 DEF TaskInTime
  <2>2. since <= Time(r)
    BY <1>2, <1>3, <1>4, <2>1
  <2>3. ASSUME wait = portMAX_DELAY
        PROVE  r.due[t] = Forever
    <3>1. d = Forever
      BY <1>8, <2>3 DEF TaskInTime, d
    <3> QED
      BY <1>2, <1>3, <3>1
  <2>4. ASSUME wait # portMAX_DELAY
        PROVE  Matches(exact, r.due[t], Clock(r), since + wait)
    <3>1. Matches(exact, d, Clock(kern), since + wait)
      BY <1>8, <2>4 DEF TaskInTime, d
    <3>2. since + wait \in Nat /\ since + wait < Time(kern) + TickModulus
      BY <1>1, <1>4, <2>1
    <3> QED
      BY <1>5, <3>1, <3>2
  <2> QED
    BY <2>2, <2>3, <2>4
<1>9. ASSUME ~set, t \notin Sleepers(r)
      PROVE  r.due[t] = 0
  <2>1. CASE t \in Sleepers(kern)
    <3>1. WakeTime(kern, t) <= Clock(r)
      BY <1>2, <1>3, <1>4, <1>9, <2>1
    <3>2. Matches(exact, d, Clock(kern), WakeTime(kern, t))
      BY <2>1 DEF TaskInTime, d
    <3>3. Matches(exact, r.due[t], Clock(r), WakeTime(kern, t))
      BY <1>4, <1>5, <1>6, <2>1, <3>2
    <3>4. r.due[t] <= 0
      BY <1>4, <3>1, <3>3 DEF Matches, Left
    <3>5. r.due[t] \in Nat
      BY DueIsNatural
    <3> QED
      BY <3>4, <3>5
  <2>2. CASE t \notin Sleepers(kern)
    <3>1. d = 0
      BY <1>9, <2>2 DEF TaskInTime, d
    <3> QED
      BY <1>2, <1>3, <3>1
  <2> QED
    BY <2>1, <2>2
<1>10. t \in Waiters(r) \cup Suspended(r) => set
  BY <1>2, <1>3 DEF TaskInTime
<1>11. t \in Suspended(r) => wait = portMAX_DELAY
  BY <1>2, <1>3 DEF TaskInTime
<1> QED
  BY <1>7, <1>8, <1>9, <1>10, <1>11 DEF TaskInTime

-----------------------------------------------------------------------------
(* xTaskCheckForTimeOut: what it takes for the time gone by never is more  *)
(* than that, and it is the same unless the tick count has wrapped twice.  *)

LEMMA ElapsedTime ==
  ASSUME NEW kern \in Kernel, NEW timeout \in TimeOut, Since(timeout) <= Time(kern)
  PROVE  LET elapsed == xElapsedTime(kern, timeout) IN
         /\ elapsed \in Nat
         /\ Since(timeout) + elapsed <= Time(kern)
         /\ WrappedPast(kern, timeout) => Since(timeout) + TickModulus <= Time(kern)
         /\ ~WrappedPast(kern, timeout) /\ kern.xNumOfOverflows <= timeout.xOverflowCount + 1
                => Since(timeout) + elapsed = Time(kern)
<1> DEFINE o == kern.xNumOfOverflows
           p == timeout.xOverflowCount
           a == kern.xTickCount
           b == timeout.xTimeOnEntering
           om == o * TickModulus
           pm == p * TickModulus
           elapsed == xElapsedTime(kern, timeout)
<1>1. /\ TickModulus \in Nat /\ TickModulus > 0 /\ o \in Nat /\ p \in Nat
      /\ a \in Nat /\ a < TickModulus /\ b \in Nat /\ b < TickModulus
      /\ om \in Nat /\ pm \in Nat
  BY TimeIsNatural, SinceIsNatural, OverflowsCount, TicksAreNumbers
<1>2. Time(kern) = om + a /\ Since(timeout) = pm + b
  BY DEF Time, Since
<1>3. ASSUME o < p
      PROVE  om + TickModulus <= pm
  <2>1. PICK n \in Nat : p = o + 1 + n
    <3>1. p - o - 1 \in Nat /\ p = o + 1 + (p - o - 1)
      BY <1>1, <1>3
    <3> QED
      BY <3>1
  <2>2. pm = (o + 1) * TickModulus + n * TickModulus
    BY <1>1, <2>1
  <2>3. (o + 1) * TickModulus = om + TickModulus /\ n * TickModulus \in Nat
    BY <1>1, OverflowsCount
  <2> QED
    BY <1>1, <2>2, <2>3
<1>4. ASSUME p < o
      PROVE  pm + TickModulus <= om
  <2>1. PICK n \in Nat : o = p + 1 + n
    <3>1. o - p - 1 \in Nat /\ o = p + 1 + (o - p - 1)
      BY <1>1, <1>4
    <3> QED
      BY <3>1
  <2>2. om = (p + 1) * TickModulus + n * TickModulus
    BY <1>1, <2>1
  <2>3. (p + 1) * TickModulus = pm + TickModulus /\ n * TickModulus \in Nat
    BY <1>1, OverflowsCount
  <2> QED
    BY <1>1, <2>2, <2>3
<1>5. ASSUME o = p + 1
      PROVE  om = pm + TickModulus
  BY <1>1, <1>5, OverflowsCount
<1>6. elapsed = IF b <= a THEN a - b ELSE a - b + TickModulus
  <2>1. elapsed = (a - b) % TickModulus
    BY DEF xElapsedTime
  <2> HIDE DEF elapsed, a, b
  <2>2. CASE b <= a
    <3>1. a - b \in 0 .. (TickModulus - 1)
      BY <1>1, <2>2
    <3> QED
      BY <1>1, <2>1, <2>2, <3>1
  <2>3. CASE ~(b <= a)
    <3>1. a - b + TickModulus \in 0 .. (TickModulus - 1)
      BY <1>1, <2>3
    <3>2. (a - b) % TickModulus = a - b + TickModulus
      BY <1>1, <3>1
    <3> QED
      BY <2>1, <2>3, <3>2
  <2> QED
    BY <2>2, <2>3
<1>7. p <= o
  <2> SUFFICES ASSUME o < p
               PROVE  FALSE
    BY <1>1
  <2> HIDE DEF om, pm, a, b, o, p
  <2> QED
    BY <1>1, <1>2, <1>3
<1>8. WrappedPast(kern, timeout) <=> o # p /\ b <= a
  BY <1>1 DEF WrappedPast
<1>9. kern.xNumOfOverflows <= timeout.xOverflowCount + 1 <=> o <= p + 1
  OBVIOUS
<1> HIDE DEF om, pm, a, b, o, p, elapsed
<1>10. CASE o = p
  <2>1. om = pm /\ b <= a
    <3>1. om = pm
      BY <1>10 DEF om, pm
    <3> QED
      BY <1>1, <1>2, <3>1
  <2> QED
    BY <1>1, <1>2, <1>6, <1>8, <1>10, <2>1 DEF elapsed
<1>11. CASE p < o
  <2>1. pm + TickModulus <= om
    BY <1>4, <1>11
  <2>2. o <= p + 1 => om = pm + TickModulus
    BY <1>1, <1>5, <1>11
  <2>3. CASE b <= a
    BY <1>1, <1>2, <1>6, <1>8, <1>9, <1>11, <2>1, <2>3 DEF elapsed
  <2>4. CASE ~(b <= a)
    BY <1>1, <1>2, <1>6, <1>8, <1>9, <2>1, <2>2, <2>4 DEF elapsed
  <2> QED
    BY <2>3, <2>4
<1> QED
  BY <1>1, <1>7, <1>10, <1>11

LEMMA TimeIsOver ==
  ASSUME NEW kern \in Kernel, NEW timeout \in TimeOut, Since(timeout) <= Time(kern),
         NEW wait \in Ticks, TimedOut(kern, timeout, wait)
  PROVE  wait # portMAX_DELAY /\ Since(timeout) + wait <= Time(kern)
<1> DEFINE elapsed == xElapsedTime(kern, timeout)
<1>1. /\ elapsed \in Nat /\ Since(timeout) + elapsed <= Time(kern)
      /\ WrappedPast(kern, timeout) => Since(timeout) + TickModulus <= Time(kern)
  BY ElapsedTime
<1>2. /\ wait # portMAX_DELAY
      /\ WrappedPast(kern, timeout) \/ elapsed >= wait
  BY DEF TimedOut
<1>3. /\ wait \in Nat /\ wait < TickModulus /\ TickModulus \in Nat
      /\ Since(timeout) \in Nat /\ Time(kern) \in Nat
  BY SinceIsNatural, TimeIsNatural, TicksAreNumbers DEF Ticks
<1> HIDE DEF elapsed
<1> QED
  BY <1>1, <1>2, <1>3

-----------------------------------------------------------------------------
(* The invariant of the times, and what a step of each kind does to it. *)

Unset == {"run", "delayResume", "delayYield"}
LabelFits(set, wait, at) ==
    /\ at # "check" => (set <=> at \notin Unset)
    /\ at \in {"lastResume", "last"} => wait = 0

KernelInTime ==
    Timed(k) /\ Fair(k) /\ (k.uxSchedulerSuspended = 0 => k.xPendedTicks = 0)
TasksInTime(exact) ==
    \A t \in Tasks :
        TaskInTime(exact, k, t, xEntryTimeSet[t], Since(xTimeOut[t]), xTicksToWait[t])
LabelsFit ==
    \A t \in Tasks : LabelFits(xEntryTimeSet[t], xTicksToWait[t], pc[t])
Timely(exact) == KernelInTime /\ TasksInTime(exact) /\ LabelsFit

LEMMA LocalsAreNumbers ==
  ASSUME TimePart, NEW t \in Tasks
  PROVE  /\ xTicksToWait[t] \in Ticks /\ xTicksToWait[t] \in Nat
         /\ xTimeOut[t] \in TimeOut /\ Since(xTimeOut[t]) \in Nat /\ xEntryTimeSet[t] \in BOOLEAN
<1>1. xTicksToWait[t] \in Ticks /\ xTimeOut[t] \in TimeOut /\ xEntryTimeSet[t] \in BOOLEAN
  BY DEF TimePart
<1> QED
  BY <1>1, SinceIsNatural, TicksAreNumbers

(* Who runs is not blocked, and no tick is pended.  *)
LEMMA RunsInTime ==
  ASSUME KernelPart, KernelInTime, NEW t, t = k.pxCurrentTCB, pc[t] \in Plain
  PROVE  /\ k.uxSchedulerSuspended = 0 /\ k.xPendedTicks = 0 /\ Clock(k) = Time(k)
         /\ t \in ReadyTasks(k) /\ t \in Tasks
         /\ t \notin Sleepers(k) /\ t \notin Suspended(k) /\ t \notin Waiters(k)
<1>1. k.uxSchedulerSuspended = 0 /\ t \in ReadyTasks(k) /\ Ordered(k)
  BY LabelKinds DEF KernelPart, Controlled, Controls
<1>2. k \in Kernel /\ PlacesSound(k) /\ WaitersBlocked(k)
  BY <1>1, OrderedIs
<1>3. t \in Tasks /\ t \notin Sleepers(k) /\ t \notin Suspended(k) /\ t \notin Waiters(k)
  BY <1>1, <1>2 DEF PlacesSound, Blocked, WaitersBlocked, Waiters, ReadyTasks
<1>4. k.xPendedTicks = 0 /\ Time(k) \in Nat
  BY <1>1, <1>2, TimeIsNatural DEF KernelInTime
<1> QED
  BY <1>1, <1>3, <1>4 DEF Clock

(* The locals stay, and the time goes on.  *)
LEMMA TasksGoOn ==
  ASSUME KernelPart, TimePart, k' \in Kernel, UNCHANGED locals, FewerWait,
         NEW early, PassesBut(k, k', early), Clock(k') = Clock(k),
         \A u \in Tasks : u \in early => xEntryTimeSet[u],
         NEW exact \in BOOLEAN, TasksInTime(exact)
  PROVE  TasksInTime(exact)'
<1>1. k \in Kernel /\ Waiters(k') \subseteq Waiters(k)
  BY DEF KernelPart, Controlled, Ordered, FewerWait
<1>2. ASSUME NEW t \in Tasks
      PROVE  TaskInTime(exact, k', t, xEntryTimeSet[t], Since(xTimeOut[t]), xTicksToWait[t])
  <2>1. TaskInTime(exact, k, t, xEntryTimeSet[t], Since(xTimeOut[t]), xTicksToWait[t])
    BY DEF TasksInTime
  <2>2. /\ xTicksToWait[t] \in Nat /\ Since(xTimeOut[t]) \in Nat /\ xEntryTimeSet[t] \in BOOLEAN
        /\ t \in early => xEntryTimeSet[t]
    BY LocalsAreNumbers
  <2> QED
    BY <1>1, <2>1, <2>2, InTimeAfterwards
<1>3. xTicksToWait' = xTicksToWait /\ xTimeOut' = xTimeOut /\ xEntryTimeSet' = xEntryTimeSet
  BY DEF locals
<1>4. \A t \in Tasks :
         TaskInTime(exact, k', t, xEntryTimeSet'[t], Since(xTimeOut'[t]), xTicksToWait'[t])
  BY <1>2, <1>3
<1> QED
  BY <1>4 DEF TasksInTime, Since

LEMMA LabelsGoOn ==
  ASSUME LabelsFit, UNCHANGED locals, NEW t \in Tasks, NEW label, pc \in [Tasks -> Labels],
         pc' = [pc EXCEPT ![t] = label], LabelFits(xEntryTimeSet[t], xTicksToWait[t], label)
  PROVE  LabelsFit'
<1>1. ASSUME NEW u \in Tasks
      PROVE  LabelFits(xEntryTimeSet'[u], xTicksToWait'[u], pc'[u])
  <2>1. xTicksToWait' = xTicksToWait /\ xEntryTimeSet' = xEntryTimeSet
    BY DEF locals
  <2>2. CASE u = t
    BY <2>1, <2>2
  <2>3. CASE u # t
    BY <2>1, <2>3 DEF LabelsFit
  <2> QED
    BY <2>2, <2>3
<1> QED
  BY <1>1 DEF LabelsFit, LabelFits

(* The locals change at one task.  *)
LocalsAt(t, set, since, wait, label) ==
    /\ xEntryTimeSet' = [xEntryTimeSet EXCEPT ![t] = set]
    /\ xTimeOut' = [xTimeOut EXCEPT ![t] = since]
    /\ xTicksToWait' = [xTicksToWait EXCEPT ![t] = wait]
    /\ pc' = [pc EXCEPT ![t] = label]

LEMMA LocalsChange ==
  ASSUME TimePart, pc \in [Tasks -> Labels], NEW t \in Tasks, NEW set, NEW since, NEW wait,
         NEW label, LocalsAt(t, set, since, wait, label), LabelsFit, LabelFits(set, wait, label),
         NEW exact,
         TaskInTime(exact, k', t, set, Since(since), wait),
         \A u \in Tasks \ {t} :
             TaskInTime(exact, k', u, xEntryTimeSet[u], Since(xTimeOut[u]), xTicksToWait[u])
  PROVE  TasksInTime(exact)' /\ LabelsFit'
<1>1. ASSUME NEW u \in Tasks
      PROVE  IF u = t
             THEN /\ xEntryTimeSet'[u] = set /\ xTimeOut'[u] = since
                  /\ xTicksToWait'[u] = wait /\ pc'[u] = label
             ELSE /\ xEntryTimeSet'[u] = xEntryTimeSet[u] /\ xTimeOut'[u] = xTimeOut[u]
                  /\ xTicksToWait'[u] = xTicksToWait[u] /\ pc'[u] = pc[u]
  BY DEF TimePart, LocalsAt
<1>2. ASSUME NEW u \in Tasks
      PROVE  /\ TaskInTime(exact, k', u, xEntryTimeSet'[u], Since(xTimeOut'[u]), xTicksToWait'[u])
             /\ LabelFits(xEntryTimeSet'[u], xTicksToWait'[u], pc'[u])
  <2>1. CASE u = t
    BY <1>1, <2>1
  <2>2. CASE u # t
    BY <1>1, <2>2 DEF LabelsFit
  <2> QED
    BY <2>1, <2>2
<1> QED
  BY <1>2 DEF TasksInTime, LabelsFit, LabelFits, Since

(* The kernel stays, but for what is due to the running task.  *)
Stays(kern, r) ==
    /\ SameBlocked(kern, r) /\ SameWaiters(kern, r) /\ SameShares(kern, r)
    /\ r.xTickCount = kern.xTickCount /\ r.xNumOfOverflows = kern.xNumOfOverflows
    /\ r.xPendedTicks = kern.xPendedTicks
    /\ r.xTimeToWake = kern.xTimeToWake /\ r.xNextTaskUnblockTime = kern.xNextTaskUnblockTime

LEMMA StaysSame ==
  ASSUME NEW kern, NEW r, Stays(kern, r)
  PROVE  /\ Time(r) = Time(kern) /\ Clock(r) = Clock(kern)
         /\ Sleepers(r) = Sleepers(kern) /\ Suspended(r) = Suspended(kern)
         /\ Waiters(r) = Waiters(kern)
         /\ \A t : WakeTime(r, t) = WakeTime(kern, t)
         /\ Timed(kern) => Timed(r)
         /\ Fair(kern) => Fair(r)
<1>1. /\ Time(r) = Time(kern) /\ Clock(r) = Clock(kern)
      /\ Sleepers(r) = Sleepers(kern) /\ Suspended(r) = Suspended(kern)
      /\ Waiters(r) = Waiters(kern)
      /\ Delayed(r) = Delayed(kern) /\ Overflown(r) = Overflown(kern)
  BY DEF Stays, SameBlocked, SameWaiters, Time, Clock, Sleepers, Suspended, Waiters,
         Delayed, Overflown
<1>2. \A t : WakeTime(r, t) = WakeTime(kern, t)
  BY <1>1 DEF Stays, WakeTime
<1>3. Timed(kern) => Timed(r)
  BY <1>1 DEF Stays, SameBlocked, Timed, ListsSorted
<1>4. Fair(kern) => Fair(r)
  BY FairIfSame DEF Stays
<1> QED
  BY <1>1, <1>2, <1>3, <1>4

LEMMA InTimeIfStays ==
  ASSUME NEW kern, NEW r, Stays(kern, r), NEW t, r.due[t] = kern.due[t],
         NEW exact, NEW set, NEW since, NEW wait,
         TaskInTime(exact, kern, t, set, since, wait)
  PROVE  TaskInTime(exact, r, t, set, since, wait)
BY StaysSame DEF TaskInTime

(* What "set" and "due" have to do with each other.  *)
DueFits(exact, d, now, set, since, wait) ==
    /\ set => /\ since <= now
              /\ wait = portMAX_DELAY => d = Forever
              /\ wait # portMAX_DELAY => Matches(exact, d, now, since + wait)
    /\ ~set => d = 0

LEMMA PlainStepInTime ==
  ASSUME KernelPart, TimePart, NEW exact \in BOOLEAN, Timely(exact),
         NEW t, t = k.pxCurrentTCB, pc[t] \in Plain, Stays(k, k'),
         \A u \in Tasks \ {t} : k'.due[u] = k.due[u],
         NEW set, NEW since, NEW wait, NEW label, LocalsAt(t, set, since, wait, label),
         LabelFits(set, wait, label),
         DueFits(exact, k'.due[t], Time(k), set, Since(since), wait)
  PROVE  Timely(exact)'
<1>1. KernelInTime /\ TasksInTime(exact) /\ LabelsFit /\ pc \in [Tasks -> Labels]
  BY DEF Timely, KernelPart, Controlled
<1>2. /\ k.uxSchedulerSuspended = 0 /\ k.xPendedTicks = 0 /\ Clock(k) = Time(k)
      /\ t \in Tasks /\ t \notin Sleepers(k) /\ t \notin Suspended(k) /\ t \notin Waiters(k)
  BY <1>1, RunsInTime
<1>3. /\ Time(k') = Time(k) /\ Clock(k') = Clock(k)
      /\ Sleepers(k') = Sleepers(k) /\ Suspended(k') = Suspended(k) /\ Waiters(k') = Waiters(k)
      /\ Timed(k') /\ Fair(k')
  BY <1>1, StaysSame DEF KernelInTime
<1>4. (KernelInTime)'
  BY <1>2, <1>3 DEF KernelInTime, Stays
<1>5. TaskInTime(exact, k', t, set, Since(since), wait)
  BY <1>2, <1>3 DEF TaskInTime, DueFits
<1>6. ASSUME NEW u \in Tasks \ {t}
      PROVE  TaskInTime(exact, k', u, xEntryTimeSet[u], Since(xTimeOut[u]), xTicksToWait[u])
  BY <1>1, InTimeIfStays DEF TasksInTime
<1>7. TasksInTime(exact)' /\ LabelsFit'
  BY <1>1, <1>2, <1>5, <1>6, LocalsChange
<1> QED
  BY <1>4, <1>7 DEF Timely

(* The running task blocks.  *)
LEMMA BlockStepInTime ==
  ASSUME KernelPart, TimePart, NEW exact \in BOOLEAN, Timely(exact),
         NEW t, t = k.pxCurrentTCB, pc[t] \in Plain,
         NEW m, Stays(k, m), \A u \in Tasks \ {t} : m.due[u] = k.due[u],
         NEW ticks, NEW forever, BlocksFor(m, k', t, ticks, forever),
         k'.uxSchedulerSuspended = 1, Waiters(k') \subseteq Waiters(k) \cup {t},
         NEW set, NEW since, NEW wait, NEW label, LocalsAt(t, set, since, wait, label),
         LabelFits(set, wait, label),
         set => DueFits(exact, m.due[t], Time(k), set, Since(since), wait),
         t \in Waiters(k') => set,
         IF ticks = portMAX_DELAY /\ forever THEN set /\ wait = portMAX_DELAY
         ELSE Matches(exact, m.due[t], Time(k), Time(k) + ticks)
  PROVE  Timely(exact)'
<1>1. KernelInTime /\ TasksInTime(exact) /\ LabelsFit /\ pc \in [Tasks -> Labels]
  BY DEF Timely, KernelPart, Controlled
<1>2. /\ k.uxSchedulerSuspended = 0 /\ k.xPendedTicks = 0 /\ Clock(k) = Time(k)
      /\ t \in Tasks /\ t \notin Sleepers(k) /\ t \notin Suspended(k) /\ t \notin Waiters(k)
  BY <1>1, RunsInTime
<1>3. /\ Time(m) = Time(k) /\ Clock(m) = Clock(k)
      /\ Sleepers(m) = Sleepers(k) /\ Suspended(m) = Suspended(k)
      /\ \A u : WakeTime(m, u) = WakeTime(k, u)
      /\ Fair(m)
  BY <1>1, StaysSame DEF KernelInTime
<1>4. /\ SameTime(m, k') /\ Timed(k') /\ Fair(k') /\ k'.due = m.due
      /\ IF ticks = portMAX_DELAY /\ forever
         THEN Sleepers(k') = Sleepers(k) /\ Suspended(k') = Suspended(k) \cup {t}
         ELSE /\ Sleepers(k') = Sleepers(k) \cup {t} /\ Suspended(k') = Suspended(k)
              /\ WakeTime(k', t) = Time(k) + ticks
      /\ \A u \in Sleepers(k) : WakeTime(k', u) = WakeTime(k, u)
  BY <1>3 DEF BlocksFor, SameTime
<1>5. Time(k') = Time(k) /\ Clock(k') = Time(k)
  BY <1>2, <1>3, <1>4 DEF SameTime, Time, Clock
<1>6. (KernelInTime)'
  BY <1>4 DEF KernelInTime
<1>7. TaskInTime(exact, k', t, set, Since(since), wait)
  BY <1>2, <1>4, <1>5 DEF TaskInTime, DueFits
<1>8. ASSUME NEW u \in Tasks \ {t}
      PROVE  TaskInTime(exact, k', u, xEntryTimeSet[u], Since(xTimeOut[u]), xTicksToWait[u])
  <2>1. TaskInTime(exact, k, u, xEntryTimeSet[u], Since(xTimeOut[u]), xTicksToWait[u])
    BY <1>1 DEF TasksInTime
  <2>2. /\ k'.due[u] = k.due[u] /\ Time(k') = Time(k) /\ Clock(k') = Clock(k)
        /\ u \in Sleepers(k') <=> u \in Sleepers(k)
        /\ u \in Suspended(k') <=> u \in Suspended(k)
        /\ u \in Waiters(k') => u \in Waiters(k)
        /\ u \in Sleepers(k) => WakeTime(k', u) = WakeTime(k, u)
    BY <1>2, <1>4, <1>5
  <2> QED
    BY <2>1, <2>2 DEF TaskInTime
<1>9. TasksInTime(exact)' /\ LabelsFit'
  BY <1>1, <1>2, <1>7, <1>8, LocalsChange
<1> QED
  BY <1>6, <1>9 DEF Timely

(* The scheduler is resumed, and the ticks it missed are caught up with.  *)
LEMMA OpensInTime ==
  ASSUME NEW kern, Ordered(kern), kern.uxSchedulerSuspended = 1, Timed(kern),
         ReadyTasks(kern) # {}
  PROVE  LET open == xTaskResumeAll(kern)
             r == IF open.xYieldPending THEN vTaskSwitchContext(open) ELSE open IN
         Timed(r) /\ Passes(kern, r) /\ r.xPendedTicks = 0 /\ Clock(r) = Clock(kern)
<1> DEFINE open == xTaskResumeAll(kern)
           r == vTaskSwitchContext(open)
<1>1. /\ Timed(open) /\ Passes(kern, open) /\ open.xPendedTicks = 0
      /\ Clock(open) = Clock(kern) /\ Resumes(kern, open)
  BY ResumePasses, SchedulerResumes
<1> HIDE DEF open
<1>2. CASE open.xYieldPending
  <2>1. /\ Ordered(open) /\ ReadyTasks(open) # {} /\ open.uxSchedulerSuspended = 0
        /\ open \in Kernel /\ kern \in Kernel
    BY <1>1 DEF Resumes, Ordered
  <2>2. Keeps(open, r) /\ Passes(open, r) /\ r \in Kernel
    BY <2>1, SwitchPasses, ContextSwitches DEF Switches, Ordered
  <2>3. Passes(kern, r)
    BY <1>1, <2>1, <2>2, PassesOn DEF Passes
  <2>4. Timed(r) /\ Clock(r) = Clock(open) /\ r.xPendedTicks = 0
    BY <1>1, <2>2, KeptIsSame DEF Keeps, SameTime
  <2> QED
    BY <1>1, <1>2, <2>3, <2>4 DEF open
<1>3. CASE ~open.xYieldPending
  BY <1>1, <1>3 DEF open
<1> QED
  BY <1>2, <1>3

-----------------------------------------------------------------------------
(* The steps. *)

LEMMA ResumeTimely ==
  ASSUME KernelPart, TimePart, workload \in Workloads, KernelPart', FewerWait,
         NEW exact \in BOOLEAN, Timely(exact), UNCHANGED locals,
         NEW t \in Tasks, k.pxCurrentTCB = t, pc[t] \in SchedulerHeld,
         NEW yielded, NEW otherwise, ResumeAll(t, yielded, otherwise),
         LabelFits(xEntryTimeSet[t], xTicksToWait[t], yielded),
         LabelFits(xEntryTimeSet[t], xTicksToWait[t], otherwise)
  PROVE  Timely(exact)'
<1> DEFINE open == xTaskResumeAll(k)
           r == IF open.xYieldPending THEN vTaskSwitchContext(open) ELSE open
<1>1. KernelInTime /\ TasksInTime(exact) /\ LabelsFit /\ pc \in [Tasks -> Labels]
  BY DEF Timely, KernelPart, Controlled
<1>2. Ordered(k) /\ k.uxSchedulerSuspended = 1 /\ ReadyTasks(k) # {} /\ Timed(k)
  BY <1>1, SomeoneIsReady DEF KernelPart, Controlled, Controls, KernelInTime
<1>3. Timed(r) /\ Passes(k, r) /\ r.xPendedTicks = 0 /\ Clock(r) = Clock(k)
  BY <1>2, OpensInTime
<1>4. k' = r /\ \E label \in {yielded, otherwise} : pc' = [pc EXCEPT ![t] = label]
  BY DEF ResumeAll, Goto
<1> HIDE DEF open, r
<1>5. PICK label \in {yielded, otherwise} : pc' = [pc EXCEPT ![t] = label]
  BY <1>4
<1>6. LabelsFit'
  BY <1>1, <1>5, LabelsGoOn
<1>7. PassesBut(k, k', {}) /\ Clock(k') = Clock(k)
  BY <1>3, <1>4 DEF Passes
<1>8. k' \in Kernel
  BY DEF KernelPart, Controlled, Ordered
<1>9. TasksInTime(exact)'
  BY <1>1, <1>7, <1>8, TasksGoOn
<1>10. Timed(k') /\ Fair(k') /\ k'.xPendedTicks = 0
  BY <1>1, <1>3, <1>4 DEF Passes, PassesBut, KernelInTime
<1>11. (KernelInTime)'
  BY <1>10 DEF KernelInTime
<1> QED
  BY <1>6, <1>9, <1>11 DEF Timely

LEMMA YieldTimely ==
  ASSUME KernelPart, TimePart, workload \in Workloads, KernelPart', FewerWait,
         NEW exact \in BOOLEAN, Timely(exact),
         NEW t \in Tasks, NEW label \in Yielding, NEW next, Yield(t, label, next),
         LabelFits(xEntryTimeSet[t], xTicksToWait[t], next)
  PROVE  Timely(exact)'
<1>1. KernelInTime /\ TasksInTime(exact) /\ LabelsFit /\ pc \in [Tasks -> Labels]
  BY DEF Timely, KernelPart, Controlled
<1>2. /\ k.pxCurrentTCB = t /\ pc[t] \in Yielding /\ k' = vTaskSwitchContext(k)
      /\ pc' = [pc EXCEPT ![t] = next] /\ UNCHANGED locals
  BY DEF Yield, Running, Goto
<1>3. /\ Ordered(k) /\ k.uxSchedulerSuspended = 0 /\ ReadyTasks(k) # {} /\ k \in Kernel
      /\ k' \in Kernel
  BY <1>2, LabelKinds, SomeoneIsReady DEF KernelPart, Controlled, Controls, Ordered
<1>4. Keeps(k, k') /\ Passes(k, k')
  BY <1>2, <1>3, SwitchPasses
<1>5. Timed(k') /\ Clock(k') = Clock(k) /\ k'.xPendedTicks = 0 /\ Fair(k')
  BY <1>1, <1>3, <1>4, KeptIsSame DEF Keeps, SameTime, Passes, PassesBut, KernelInTime
<1>6. PassesBut(k, k', {})
  BY <1>4 DEF Passes
<1>7. TasksInTime(exact)'
  BY <1>1, <1>2, <1>3, <1>5, <1>6, TasksGoOn
<1>8. LabelsFit'
  BY <1>1, <1>2, LabelsGoOn
<1>9. (KernelInTime)'
  BY <1>5 DEF KernelInTime
<1> QED
  BY <1>7, <1>8, <1>9 DEF Timely

LEMMA ResumingTimely ==
  ASSUME KernelPart, TimePart, workload \in Workloads,
         NEW exact \in BOOLEAN, Timely(exact), NEW t \in Tasks,
         \/ DelayResume(t) \/ WaitResume(t) \/ RetryResume(t) \/ LastResume(t)
         \/ Yield(t, "delayYield", "run") \/ Yield(t, "waitYield", "check")
  PROVE  Timely(exact)'
<1>1. KernelPart' /\ FewerWait
  BY ResumingSteps
<1>2. LabelFits(xEntryTimeSet[t], xTicksToWait[t], pc[t]) /\ xEntryTimeSet[t] \in BOOLEAN
  BY LocalsAreNumbers DEF Timely, LabelsFit
<1>3. CASE DelayResume(t)
  <2>1. /\ k.pxCurrentTCB = t /\ pc[t] = "delayResume" /\ UNCHANGED locals
        /\ ResumeAll(t, "run", "delayYield")
    BY <1>3 DEF DelayResume, Running
  <2>2. /\ LabelFits(xEntryTimeSet[t], xTicksToWait[t], "run")
        /\ LabelFits(xEntryTimeSet[t], xTicksToWait[t], "delayYield")
    BY <1>2, <2>1 DEF LabelFits, Unset
  <2> QED
    BY <1>1, <2>1, <2>2, LabelKinds, ResumeTimely
<1>4. CASE WaitResume(t)
  <2>1. /\ k.pxCurrentTCB = t /\ pc[t] = "waitResume" /\ UNCHANGED locals
        /\ ResumeAll(t, "check", "waitYield")
    BY <1>4 DEF WaitResume, Running
  <2>2. /\ LabelFits(xEntryTimeSet[t], xTicksToWait[t], "check")
        /\ LabelFits(xEntryTimeSet[t], xTicksToWait[t], "waitYield")
    BY <1>2, <2>1 DEF LabelFits, Unset
  <2> QED
    BY <1>1, <2>1, <2>2, LabelKinds, ResumeTimely
<1>5. CASE RetryResume(t)
  <2>1. /\ k.pxCurrentTCB = t /\ pc[t] = "retryResume" /\ UNCHANGED locals
        /\ ResumeAll(t, "check", "check")
    BY <1>5 DEF RetryResume, Running
  <2>2. LabelFits(xEntryTimeSet[t], xTicksToWait[t], "check")
    BY DEF LabelFits
  <2> QED
    BY <1>1, <2>1, <2>2, LabelKinds, ResumeTimely
<1>6. CASE LastResume(t)
  <2>1. /\ k.pxCurrentTCB = t /\ pc[t] = "lastResume" /\ UNCHANGED locals
        /\ ResumeAll(t, "last", "last")
    BY <1>6 DEF LastResume, Running
  <2>2. LabelFits(xEntryTimeSet[t], xTicksToWait[t], "last")
    BY <1>2, <2>1 DEF LabelFits, Unset
  <2> QED
    BY <1>1, <2>1, <2>2, LabelKinds, ResumeTimely
<1>7. CASE Yield(t, "delayYield", "run")
  <2>1. pc[t] = "delayYield" /\ "delayYield" \in Yielding
    BY <1>7 DEF Yield, Running, Yielding
  <2>2. LabelFits(xEntryTimeSet[t], xTicksToWait[t], "run")
    BY <1>2, <2>1 DEF LabelFits, Unset
  <2> QED
    BY <1>1, <1>7, <2>1, <2>2, YieldTimely
<1>8. CASE Yield(t, "waitYield", "check")
  <2>1. "waitYield" \in Yielding
    BY DEF Yielding
  <2>2. LabelFits(xEntryTimeSet[t], xTicksToWait[t], "check")
    BY DEF LabelFits
  <2> QED
    BY <1>1, <1>8, <2>1, <2>2, YieldTimely
<1> QED
  BY <1>3, <1>4, <1>5, <1>6, <1>7, <1>8

LEMMA TickTimely ==
  ASSUME KernelPart, TimePart, workload \in Workloads,
         NEW exact \in BOOLEAN, Timely(exact), Tick
  PROVE  Timely(exact)'
<1>1. KernelInTime /\ TasksInTime(exact) /\ LabelsFit
  BY DEF Timely
<1>2. k' = AfterTick(k) /\ pc' = pc /\ UNCHANGED locals
  BY DEF Tick, AfterTick
<1>3. KernelPart' /\ Waiters(k') \subseteq Waiters(k) /\ k' \in Kernel
  BY TickStep DEF KernelPart, Controlled, Ordered, FewerWait
<1>4. Ordered(k) /\ Timed(k) /\ ReadyTasks(k) # {} /\ k \in Kernel
  BY <1>1, SomeoneIsReady DEF KernelPart, Controlled, KernelInTime, Ordered
<1>5. /\ Timed(k') /\ Passes(Elapse(k), k') /\ Clock(k') = Clock(k) + 1
      /\ k.uxSchedulerSuspended = 0 => k'.xPendedTicks = k.xPendedTicks
      /\ k'.uxSchedulerSuspended = k.uxSchedulerSuspended
  BY <1>2, <1>4, InterruptPasses
<1>6. Fair(k')
  <2>1. Fair(Elapse(k))
    BY <1>1, <1>4, ElapseKeeps, FairIfSame DEF KernelInTime
  <2> QED
    BY <1>5, <2>1 DEF Passes, PassesBut
<1>7. (KernelInTime)'
  BY <1>1, <1>5, <1>6 DEF KernelInTime
<1>8. xTicksToWait' = xTicksToWait /\ xTimeOut' = xTimeOut /\ xEntryTimeSet' = xEntryTimeSet
  BY <1>2 DEF locals
<1>9. ASSUME NEW t \in Tasks
      PROVE  TaskInTime(exact, k', t, xEntryTimeSet'[t], Since(xTimeOut'[t]), xTicksToWait'[t])
  <2>1. TaskInTime(exact, k, t, xEntryTimeSet[t], Since(xTimeOut[t]), xTicksToWait[t])
    BY <1>1 DEF TasksInTime
  <2>2. xTicksToWait[t] \in Ticks /\ Since(xTimeOut[t]) \in Nat /\ xEntryTimeSet[t] \in BOOLEAN
    BY LocalsAreNumbers
  <2>3. TaskInTime(exact, k', t, xEntryTimeSet[t], Since(xTimeOut[t]), xTicksToWait[t])
    BY <1>3, <1>4, <1>5, <2>1, <2>2, InTimeAtTick
  <2> QED
    BY <1>8, <2>3
<1>10. TasksInTime(exact)'
  BY <1>9 DEF TasksInTime, Since
<1>11. LabelsFit'
  BY <1>1, <1>2, <1>8 DEF LabelsFit, LabelFits
<1> QED
  BY <1>7, <1>10, <1>11 DEF Timely

LEMMA SendTimely ==
  ASSUME KernelPart, TimePart, NEW exact \in BOOLEAN, Timely(exact),
         NEW t \in Tasks, NEW item, Send(t, item)
  PROVE  Timely(exact)'
<1>1. KernelInTime /\ TasksInTime(exact) /\ LabelsFit
  BY DEF Timely
<1>2. /\ k.pxCurrentTCB = t /\ pc[t] = "run" /\ pc[t] \in Plain /\ pc' = pc /\ UNCHANGED locals
      /\ k' = IF k.xTasksWaitingToReceive = <<>> THEN k ELSE xTaskRemoveFromEventList(k)
  BY DEF Send, Running, Plain
<1>3. xTicksToWait' = xTicksToWait /\ xTimeOut' = xTimeOut /\ xEntryTimeSet' = xEntryTimeSet
  BY <1>2 DEF locals
<1>4. LabelsFit'
  BY <1>1, <1>2, <1>3 DEF LabelsFit, LabelFits
<1>5. CASE k.xTasksWaitingToReceive = <<>>
  <2>1. k' = k
    BY <1>2, <1>5
  <2>2. (KernelInTime)' /\ TasksInTime(exact)'
    BY <1>1, <1>3, <2>1 DEF KernelInTime, TasksInTime
  <2> QED
    BY <1>4, <2>2 DEF Timely
<1>6. CASE k.xTasksWaitingToReceive # <<>>
  <2> DEFINE u == Head(k.xTasksWaitingToReceive)
  <2>1. Ordered(k) /\ Timed(k) /\ k.uxSchedulerSuspended = 0 /\ k.xPendedTicks = 0 /\ k \in Kernel
    BY <1>1, <1>2, RunsInTime DEF KernelPart, Controlled, KernelInTime, Ordered
  <2>2. k' = xTaskRemoveFromEventList(k)
    BY <1>2, <1>6
  <2>3. SameTime(k, k') /\ Timed(k') /\ PassesBut(k, k', {u})
    BY <1>6, <2>1, <2>2, SendInTime
  <2>4. u \in Waiters(k) /\ u \in Tasks
    BY <1>6, <2>1, ReceiverWakes
  <2>5. KernelPart' /\ FewerWait
    BY SendStep
  <2>6. xEntryTimeSet[u]
    BY <1>1, <2>4 DEF TasksInTime, TaskInTime
  <2> HIDE DEF u
  <2>7. k' \in Kernel
    BY <2>5 DEF KernelPart, Controlled, Ordered
  <2>8. Clock(k') = Clock(k)
    BY <2>3 DEF SameTime, Clock, Time
  <2>9. TasksInTime(exact)'
    BY <1>1, <1>2, <2>3, <2>5, <2>6, <2>7, <2>8, TasksGoOn
  <2>10. Timed(k') /\ Fair(k') /\ k'.xPendedTicks = 0
    BY <1>1, <2>1, <2>3 DEF KernelInTime, PassesBut, SameTime
  <2>11. (KernelInTime)'
    BY <2>10 DEF KernelInTime
  <2> QED
    BY <1>4, <2>9, <2>11 DEF Timely
<1> QED
  BY <1>5, <1>6

LEMMA SameLocals ==
  ASSUME TimePart, UNCHANGED locals, NEW t \in Tasks, NEW label,
         pc' = [pc EXCEPT ![t] = label]
  PROVE  LocalsAt(t, xEntryTimeSet[t], xTimeOut[t], xTicksToWait[t], label)
BY DEF TimePart, locals, LocalsAt

LEMMA DueKeeps ==
  ASSUME NEW kern \in Kernel, NEW t \in Tasks, NEW d
  PROVE  LET r == [kern EXCEPT !.due[t] = d] IN
         /\ Stays(kern, r) /\ r.due[t] = d
         /\ \A u \in Tasks \ {t} : r.due[u] = kern.due[u]
         /\ Stays(kern, vTaskSuspendAll(kern)) /\ vTaskSuspendAll(kern).due = kern.due
         /\ Stays(kern, kern)
<1> DEFINE due == [kern.due EXCEPT ![t] = d]
           r == [kern EXCEPT !.due[t] = d]
<1>1. due[t] = d /\ \A u \in Tasks \ {t} : due[u] = kern.due[u]
  BY KernelFields
<1>2. r = [kern EXCEPT !.due = due]
  OBVIOUS
<1> HIDE DEF due, r
<1>3. Stays(kern, r) /\ r.due = due
  BY <1>2 DEF Kernel, Stays, SameBlocked, SameWaiters, SameShares
<1>4. /\ Stays(kern, vTaskSuspendAll(kern)) /\ vTaskSuspendAll(kern).due = kern.due
      /\ Stays(kern, kern)
  BY DEF vTaskSuspendAll, Kernel, Stays, SameBlocked, SameWaiters, SameShares
<1> QED
  BY <1>1, <1>3, <1>4 DEF r

(* What is known of the running task, where it is in xQueueReceive.  *)
LEMMA RunningFits ==
  ASSUME KernelPart, TimePart, NEW exact \in BOOLEAN, Timely(exact),
         NEW t, t = k.pxCurrentTCB, pc[t] \in Plain
  PROVE  /\ DueFits(exact, k.due[t], Time(k), xEntryTimeSet[t], Since(xTimeOut[t]), xTicksToWait[t])
         /\ LabelFits(xEntryTimeSet[t], xTicksToWait[t], pc[t])
         /\ k.due[t] \in Nat /\ Time(k) \in Nat /\ k \in Kernel /\ t \in Tasks
<1>1. KernelInTime /\ TasksInTime(exact) /\ LabelsFit /\ k \in Kernel
  BY DEF Timely, KernelPart, Controlled, Ordered
<1>2. t \in Tasks /\ Clock(k) = Time(k) /\ t \notin Sleepers(k)
  BY <1>1, RunsInTime
<1>3. /\ TaskInTime(exact, k, t, xEntryTimeSet[t], Since(xTimeOut[t]), xTicksToWait[t])
      /\ LabelFits(xEntryTimeSet[t], xTicksToWait[t], pc[t])
  BY <1>1, <1>2 DEF TasksInTime, LabelsFit
<1>4. DueFits(exact, k.due[t], Time(k), xEntryTimeSet[t], Since(xTimeOut[t]), xTicksToWait[t])
  BY <1>2, <1>3 DEF TaskInTime, DueFits
<1> QED
  BY <1>1, <1>2, <1>3, <1>4, DueIsNatural, TimeIsNatural

(* A task whose time is used up has nothing left that is due.  *)
LEMMA NothingLeft ==
  ASSUME NEW exact \in BOOLEAN, NEW d \in Nat, NEW now \in Nat, NEW since \in Nat,
         NEW set, DueFits(exact, d, now, set, since, 0)
  PROVE  d = 0
<1>1. CASE set
  <2>1. since <= now /\ 0 # portMAX_DELAY
    BY <1>1, TicksAreNumbers DEF DueFits, portMAX_DELAY
  <2>2. d <= Left(now, since + 0)
    BY <1>1, <2>1 DEF DueFits, Matches
  <2>3. Left(now, since + 0) = 0
    BY <2>1 DEF Left
  <2> QED
    BY <2>2, <2>3
<1>2. CASE ~set
  BY <1>2 DEF DueFits
<1> QED
  BY <1>1, <1>2

(* Whoever gives up has waited its time.  *)
GivesUp(t) == GiveUpAtOnce(t) \/ GiveUp(t)

LEMMA GivesUpWhenDue ==
  ASSUME KernelPart, TimePart, NEW exact \in BOOLEAN, Timely(exact), NEW t \in Tasks, GivesUp(t)
  PROVE  k.due[t] = 0
<1>1. /\ t = k.pxCurrentTCB /\ pc[t] \in Plain
      /\ pc[t] = "last" \/ xTicksToWait[t] = 0
  BY DEF GivesUp, GiveUpAtOnce, GiveUp, Running, Plain
<1>2. /\ DueFits(exact, k.due[t], Time(k), xEntryTimeSet[t], Since(xTimeOut[t]), xTicksToWait[t])
      /\ LabelFits(xEntryTimeSet[t], xTicksToWait[t], pc[t])
      /\ k.due[t] \in Nat /\ Time(k) \in Nat
  BY <1>1, RunningFits
<1>3. xTicksToWait[t] = 0 /\ Since(xTimeOut[t]) \in Nat
  BY <1>1, <1>2, LocalsAreNumbers DEF LabelFits
<1> QED
  BY <1>2, <1>3, NothingLeft

LEMMA ReturnTimely ==
  ASSUME KernelPart, TimePart, NEW exact \in BOOLEAN, Timely(exact), NEW t \in Tasks,
         TakeItem(t) \/ GivesUp(t)
  PROVE  Timely(exact)'
<1>1. t = k.pxCurrentTCB /\ pc[t] \in Plain /\ Return(t)
  BY DEF GivesUp, TakeItem, GiveUpAtOnce, GiveUp, Running, Plain
<1>2. LocalsAt(t, FALSE, NoTimeOut, 0, "run")
  BY <1>1 DEF Return, Goto, LocalsAt
<1>3. LabelFits(FALSE, 0, "run")
  BY DEF LabelFits, Unset
<1>4. k \in Kernel
  BY <1>1, RunningFits
<1>5. Stays(k, k') /\ k'.due[t] = 0 /\ \A u \in Tasks \ {t} : k'.due[u] = k.due[u]
  <2>1. CASE TakeItem(t)
    <3>1. k' = [k EXCEPT !.due[t] = 0]
      BY <2>1 DEF TakeItem
    <3> QED
      BY <1>4, <3>1, DueKeeps
  <2>2. CASE GivesUp(t)
    <3>1. k' = k
      BY <2>2 DEF GivesUp, GiveUpAtOnce, GiveUp
    <3>2. k.due[t] = 0
      BY <2>2, GivesUpWhenDue
    <3> QED
      BY <1>4, <3>1, <3>2, DueKeeps
  <2> QED
    BY <2>1, <2>2
<1>6. DueFits(exact, k'.due[t], Time(k), FALSE, Since(NoTimeOut), 0)
  BY <1>5 DEF DueFits
<1> QED
  BY <1>1, <1>2, <1>3, <1>5, <1>6, PlainStepInTime

LEMMA ReceiveTimely ==
  ASSUME KernelPart, TimePart, NEW exact \in BOOLEAN, Timely(exact), NEW t \in Tasks,
         NEW wait, Receive(t, wait)
  PROVE  Timely(exact)'
<1>1. t = k.pxCurrentTCB /\ pc[t] = "run" /\ pc[t] \in Plain /\ k' = k
  BY DEF Receive, Running, Plain
<1>2. /\ DueFits(exact, k.due[t], Time(k), xEntryTimeSet[t], Since(xTimeOut[t]), xTicksToWait[t])
      /\ LabelFits(xEntryTimeSet[t], xTicksToWait[t], pc[t]) /\ k \in Kernel
  BY <1>1, RunningFits
<1>3. xEntryTimeSet[t] = FALSE
  BY <1>1, <1>2, LocalsAreNumbers DEF LabelFits, Unset
<1>4. LocalsAt(t, FALSE, xTimeOut[t], wait, "check")
  <2>1. /\ xTicksToWait' = [xTicksToWait EXCEPT ![t] = wait]
        /\ pc' = [pc EXCEPT ![t] = "check"]
        /\ xTimeOut' = xTimeOut /\ xEntryTimeSet' = xEntryTimeSet
    BY DEF Receive, Goto
  <2>2. /\ xTimeOut = [xTimeOut EXCEPT ![t] = xTimeOut[t]]
        /\ xEntryTimeSet = [xEntryTimeSet EXCEPT ![t] = FALSE]
    BY <1>3 DEF TimePart
  <2> QED
    BY <2>1, <2>2 DEF LocalsAt
<1>5. LabelFits(FALSE, wait, "check")
  BY DEF LabelFits
<1>6. DueFits(exact, k'.due[t], Time(k), FALSE, Since(xTimeOut[t]), wait)
  BY <1>1, <1>2, <1>3 DEF DueFits
<1>7. Stays(k, k') /\ \A u \in Tasks \ {t} : k'.due[u] = k.due[u]
  BY <1>1, <1>2, DueKeeps
<1> QED
  BY <1>1, <1>4, <1>5, <1>6, <1>7, PlainStepInTime

LEMMA TryOnceMoreTimely ==
  ASSUME KernelPart, TimePart, NEW exact \in BOOLEAN, Timely(exact), NEW t \in Tasks,
         TryOnceMore(t)
  PROVE  Timely(exact)'
<1>1. /\ t = k.pxCurrentTCB /\ pc[t] \in Plain /\ k' = k /\ UNCHANGED locals
      /\ pc' = [pc EXCEPT ![t] = "check"]
  BY DEF TryOnceMore, Running, Plain, Goto
<1>2. /\ DueFits(exact, k.due[t], Time(k), xEntryTimeSet[t], Since(xTimeOut[t]), xTicksToWait[t])
      /\ k \in Kernel
  BY <1>1, RunningFits
<1>3. LocalsAt(t, xEntryTimeSet[t], xTimeOut[t], xTicksToWait[t], "check")
  BY <1>1, SameLocals
<1>4. LabelFits(xEntryTimeSet[t], xTicksToWait[t], "check")
  BY DEF LabelFits
<1>5. Stays(k, k') /\ k'.due = k.due
  BY <1>1, <1>2, DueKeeps
<1>6. DueFits(exact, k'.due[t], Time(k), xEntryTimeSet[t], Since(xTimeOut[t]), xTicksToWait[t])
  BY <1>2, <1>5
<1>7. \A u \in Tasks \ {t} : k'.due[u] = k.due[u]
  BY <1>5
<1> QED
  BY <1>1, <1>3, <1>4, <1>5, <1>6, <1>7, PlainStepInTime

LEMMA NowIsSince ==
  ASSUME NEW kern \in Kernel
  PROVE  /\ vTaskInternalSetTimeOutState(kern) \in TimeOut
         /\ Since(vTaskInternalSetTimeOutState(kern)) = Time(kern)
BY KernelFields DEF vTaskInternalSetTimeOutState, TimeOut, Since, Time

(* The full time is left to a task that begins to wait.  *)
LEMMA AllIsLeft ==
  ASSUME NEW exact \in BOOLEAN, NEW now \in Nat, NEW ticks \in Nat
  PROVE  Matches(exact, ticks, now, now + ticks)
BY DEF Matches, Left

LEMMA StartWaitingTimely ==
  ASSUME KernelPart, TimePart, NEW exact \in BOOLEAN, Timely(exact), NEW t \in Tasks,
         StartWaiting(t)
  PROVE  Timely(exact)'
<1>1. /\ t = k.pxCurrentTCB /\ pc[t] \in Plain /\ xTicksToWait' = xTicksToWait
      /\ pc' = [pc EXCEPT ![t] = "suspend"]
  BY DEF StartWaiting, Running, Plain, Goto
<1>2. /\ DueFits(exact, k.due[t], Time(k), xEntryTimeSet[t], Since(xTimeOut[t]), xTicksToWait[t])
      /\ k \in Kernel /\ Time(k) \in Nat
  BY <1>1, RunningFits
<1>3. LabelFits(TRUE, xTicksToWait[t], "suspend")
  BY DEF LabelFits, Unset
<1>4. CASE xEntryTimeSet[t]
  <2>1. k' = k /\ UNCHANGED locals
    BY <1>1, <1>4 DEF StartWaiting, locals
  <2>2. LocalsAt(t, xEntryTimeSet[t], xTimeOut[t], xTicksToWait[t], "suspend")
    BY <1>1, <2>1, SameLocals
  <2>3. LabelFits(xEntryTimeSet[t], xTicksToWait[t], "suspend")
    BY <1>3, <1>4 DEF LabelFits
  <2>4. Stays(k, k') /\ k'.due = k.due
    <3>1. Stays(k, k)
      BY <1>2, DueKeeps
    <3> QED
      BY <2>1, <3>1
  <2>5. DueFits(exact, k'.due[t], Time(k), xEntryTimeSet[t], Since(xTimeOut[t]), xTicksToWait[t])
    BY <1>2, <2>4
  <2>6. \A u \in Tasks \ {t} : k'.due[u] = k.due[u]
    BY <2>4
  <2> QED
    BY <1>1, <2>2, <2>3, <2>4, <2>5, <2>6, PlainStepInTime
<1>5. CASE ~xEntryTimeSet[t]
  <2> DEFINE d == IF xTicksToWait[t] = portMAX_DELAY THEN Forever ELSE xTicksToWait[t]
             since == vTaskInternalSetTimeOutState(k)
  <2>1. /\ k' = [k EXCEPT !.due[t] = d]
        /\ xTimeOut' = [xTimeOut EXCEPT ![t] = since]
        /\ xEntryTimeSet' = [xEntryTimeSet EXCEPT ![t] = TRUE]
    BY <1>5 DEF StartWaiting
  <2>2. Since(since) = Time(k) /\ xTicksToWait[t] \in Nat
    BY <1>2, NowIsSince, LocalsAreNumbers
  <2>3. LocalsAt(t, TRUE, since, xTicksToWait[t], "suspend")
    <3>1. xTicksToWait = [xTicksToWait EXCEPT ![t] = xTicksToWait[t]]
      BY DEF TimePart
    <3> QED
      BY <1>1, <2>1, <3>1 DEF LocalsAt
  <2> HIDE DEF d, since
  <2>4. Stays(k, k') /\ k'.due[t] = d /\ \A u \in Tasks \ {t} : k'.due[u] = k.due[u]
    <3>1. PICK e : e = d
      OBVIOUS
    <3>2. k' = [k EXCEPT !.due[t] = e]
      BY <2>1, <3>1
    <3>3. Stays(k, k') /\ k'.due[t] = e /\ \A u \in Tasks \ {t} : k'.due[u] = k.due[u]
      BY <1>2, <3>2, DueKeeps
    <3> QED
      BY <3>1, <3>3
  <2>5. DueFits(exact, d, Time(k), TRUE, Since(since), xTicksToWait[t])
    BY <1>2, <2>2, AllIsLeft DEF DueFits, d
  <2>6. DueFits(exact, k'.due[t], Time(k), TRUE, Since(since), xTicksToWait[t])
    BY <2>4, <2>5
  <2> QED
    BY <1>1, <1>3, <2>3, <2>4, <2>6, PlainStepInTime
<1> QED
  BY <1>4, <1>5

LEMMA WaitIsOverTimely ==
  ASSUME KernelPart, TimePart, NEW exact \in BOOLEAN, Timely(exact), NEW t \in Tasks,
         WaitIsOver(t)
  PROVE  Timely(exact)'
<1>1. /\ t = k.pxCurrentTCB /\ pc[t] = "suspend" /\ pc[t] \in Plain /\ k' = vTaskSuspendAll(k)
      /\ xTicksToWait' = [xTicksToWait EXCEPT ![t] = 0]
      /\ xTimeOut' = xTimeOut /\ xEntryTimeSet' = xEntryTimeSet
      /\ pc' = [pc EXCEPT ![t] = "lastResume"]
      /\ TimedOut(k, xTimeOut[t], xTicksToWait[t])
  BY DEF WaitIsOver, Running, Plain, Goto
<1>2. /\ DueFits(exact, k.due[t], Time(k), xEntryTimeSet[t], Since(xTimeOut[t]), xTicksToWait[t])
      /\ LabelFits(xEntryTimeSet[t], xTicksToWait[t], pc[t])
      /\ k \in Kernel /\ Time(k) \in Nat /\ k.due[t] \in Nat
  BY <1>1, RunningFits
<1>3. /\ xTicksToWait[t] \in Ticks /\ xTimeOut[t] \in TimeOut /\ xTicksToWait[t] \in Nat
      /\ Since(xTimeOut[t]) \in Nat
  BY LocalsAreNumbers
<1>4. xEntryTimeSet[t] = TRUE
  BY <1>1, <1>2, LocalsAreNumbers DEF LabelFits, Unset
<1>5. Since(xTimeOut[t]) <= Time(k)
  BY <1>2, <1>4 DEF DueFits
<1>6. xTicksToWait[t] # portMAX_DELAY /\ Since(xTimeOut[t]) + xTicksToWait[t] <= Time(k)
  BY <1>1, <1>2, <1>3, <1>5, TimeIsOver
<1>7. k.due[t] = 0
  <2>1. k.due[t] <= Left(Time(k), Since(xTimeOut[t]) + xTicksToWait[t])
    BY <1>2, <1>4, <1>6 DEF DueFits, Matches
  <2>2. Left(Time(k), Since(xTimeOut[t]) + xTicksToWait[t]) = 0
    BY <1>2, <1>3, <1>6 DEF Left
  <2> QED
    BY <1>2, <2>1, <2>2
<1>8. LocalsAt(t, TRUE, xTimeOut[t], 0, "lastResume")
  <2>1. /\ xTimeOut = [xTimeOut EXCEPT ![t] = xTimeOut[t]]
        /\ xEntryTimeSet = [xEntryTimeSet EXCEPT ![t] = TRUE]
    BY <1>4 DEF TimePart
  <2> QED
    BY <1>1, <2>1 DEF LocalsAt
<1>9. LabelFits(TRUE, 0, "lastResume")
  BY DEF LabelFits, Unset
<1>10. Stays(k, k') /\ k'.due = k.due
  BY <1>1, <1>2, DueKeeps
<1>11. DueFits(exact, k'.due[t], Time(k), TRUE, Since(xTimeOut[t]), 0)
  <2>1. 0 # portMAX_DELAY
    BY TicksAreNumbers DEF portMAX_DELAY
  <2>2. Left(Time(k), Since(xTimeOut[t]) + 0) = 0
    BY <1>2, <1>3, <1>5 DEF Left
  <2> QED
    BY <1>5, <1>7, <1>10, <2>1, <2>2 DEF DueFits, Matches
<1>12. \A u \in Tasks \ {t} : k'.due[u] = k.due[u]
  BY <1>10
<1> QED
  BY <1>1, <1>8, <1>9, <1>10, <1>11, <1>12, PlainStepInTime

LEMMA DelayTimely ==
  ASSUME KernelPart, TimePart, workload \in Workloads,
         NEW exact \in BOOLEAN, Timely(exact), NEW t \in Tasks,
         NEW ticks \in workload.delays[t], Delay(t, ticks)
  PROVE  Timely(exact)'
<1> DEFINE s == vTaskSuspendAll(k)
           m == [s EXCEPT !.due[t] = ticks]
<1>1. /\ ticks \in Ticks \ {0} /\ ticks \in Nat /\ ticks \in 0 .. Forever
  BY WorkloadTimes, TicksAreNumbers DEF Ticks, Forever
<1>2. /\ k.pxCurrentTCB = t /\ pc[t] = "run" /\ pc[t] \in Plain
      /\ k' = prvAddCurrentTaskToDelayedList(m, ticks, FALSE)
      /\ pc' = [pc EXCEPT ![t] = "delayResume"] /\ UNCHANGED locals
  BY DEF Delay, Running, Goto, Plain
<1> HIDE DEF m
<1>3. /\ KernelInTime /\ LabelFits(xEntryTimeSet[t], xTicksToWait[t], pc[t])
      /\ k \in Kernel /\ Time(k) \in Nat
  BY <1>2, RunningFits DEF Timely
<1>4. /\ Ordered(s) /\ s.pxCurrentTCB = t /\ t \in ReadyTasks(s)
      /\ s.uxSchedulerSuspended = 1 /\ Stays(k, s) /\ s.due = k.due
  BY <1>2, <1>3, SuspendedStep, DueKeeps
<1> HIDE DEF s
<1>5. NothingMoves(s, m) /\ SameControl(s, m)
  BY <1>1, <1>4, DueIsHistory DEF m
<1>6. /\ Ordered(m) /\ m.pxCurrentTCB = t /\ t \in ReadyTasks(m) /\ m.uxSchedulerSuspended = 1
  BY <1>4, <1>5 DEF NothingMoves, SameControl
<1>7. Stays(s, m) /\ m.due[t] = ticks /\ \A u \in Tasks \ {t} : m.due[u] = k.due[u]
  <2>1. s \in Kernel
    BY <1>4 DEF Ordered
  <2> QED
    BY <1>4, <2>1, DueKeeps DEF m
<1>8. Stays(k, m)
  BY <1>4, <1>7 DEF Stays, SameBlocked, SameWaiters, SameShares
<1>9. m \in Kernel /\ PlacesSound(m) /\ Timed(m)
  BY <1>3, <1>6, <1>8, OrderedIs, StaysSame DEF KernelInTime
<1>10. BlocksFor(m, k', t, ticks, FALSE)
  BY <1>1, <1>2, <1>6, <1>9, BlocksInTime
<1>11. k'.uxSchedulerSuspended = 1
  <2>1. BecomesBlocked(m, k')
    BY <1>1, <1>2, <1>6, <1>9, CurrentBlocks
  <2> QED
    BY <1>6, <2>1 DEF BecomesBlocked, SameControl
<1>12. FewerWait
  BY DelayStep
<1>13. t \notin Waiters(k')
  BY <1>2, <1>3, <1>12, RunsInTime DEF FewerWait
<1>14. xEntryTimeSet[t] = FALSE
  BY <1>2, <1>3, LocalsAreNumbers DEF LabelFits, Unset
<1>15. LocalsAt(t, xEntryTimeSet[t], xTimeOut[t], xTicksToWait[t], "delayResume")
  BY <1>2, SameLocals
<1>16. LabelFits(xEntryTimeSet[t], xTicksToWait[t], "delayResume")
  BY <1>14 DEF LabelFits, Unset
<1>17. Matches(exact, m.due[t], Time(k), Time(k) + ticks)
  BY <1>1, <1>3, <1>7, AllIsLeft
<1>18. Waiters(k') \subseteq Waiters(k) \cup {t}
  BY <1>12 DEF FewerWait
<1> QED
  BY <1>2, <1>7, <1>8, <1>10, <1>11, <1>13, <1>14, <1>15, <1>16, <1>17, <1>18, BlockStepInTime

-----------------------------------------------------------------------------
(* A task that goes on waiting counts the time anew.  It is not held up    *)
(* between the two looks at the queue and at the time for so long that the *)
(* tick count wraps twice: xTaskCheckForTimeOut could not tell.            *)

Prompt ==
    \A t \in Tasks :
        pc[t] = "suspend" /\ xTicksToWait[t] # portMAX_DELAY =>
            k.xNumOfOverflows <= xTimeOut[t].xOverflowCount + 1

LEMMA TimeLeftFits ==
  ASSUME KernelPart, TimePart, NEW exact \in BOOLEAN, Timely(exact), exact => Prompt,
         NEW t, t = k.pxCurrentTCB, pc[t] = "suspend",
         ~TimedOut(k, xTimeOut[t], xTicksToWait[t])
  PROVE  /\ TimeLeft(t) \in Ticks \ {0} /\ xEntryTimeSet[t] = TRUE
         /\ xTicksToWait[t] = portMAX_DELAY =>
               /\ TimeLeft(t) = portMAX_DELAY /\ k.due[t] = Forever
               /\ Since(xTimeOut[t]) <= Time(k)
         /\ xTicksToWait[t] # portMAX_DELAY =>
               /\ TimeLeft(t) # portMAX_DELAY
               /\ Matches(exact, k.due[t], Time(k), Time(k) + TimeLeft(t))
<1> DEFINE wait == xTicksToWait[t]
           since == Since(xTimeOut[t])
           elapsed == xElapsedTime(k, xTimeOut[t])
           now == Time(k)
           d == k.due[t]
<1>0. pc[t] \in Plain
  BY DEF Plain
<1>1. /\ DueFits(exact, d, now, xEntryTimeSet[t], since, wait)
      /\ LabelFits(xEntryTimeSet[t], wait, pc[t])
      /\ d \in Nat /\ now \in Nat /\ k \in Kernel /\ t \in Tasks
  BY <1>0, RunningFits
<1>2. /\ wait \in Ticks /\ wait \in Nat /\ since \in Nat /\ xTimeOut[t] \in TimeOut
      /\ xEntryTimeSet[t] \in BOOLEAN
  BY <1>1, LocalsAreNumbers
<1>3. xEntryTimeSet[t] = TRUE
  BY <1>1, <1>2 DEF LabelFits, Unset
<1>4. since <= now
  BY <1>1, <1>3 DEF DueFits
<1>5. TimeLeft(t) = IF wait = portMAX_DELAY THEN portMAX_DELAY ELSE wait - elapsed
  BY DEF TimeLeft
<1>6. /\ elapsed \in Nat /\ since + elapsed <= now
      /\ ~WrappedPast(k, xTimeOut[t]) /\ k.xNumOfOverflows <= xTimeOut[t].xOverflowCount + 1
             => since + elapsed = now
  BY <1>1, <1>2, <1>4, ElapsedTime
<1>7. wait # portMAX_DELAY =>
          /\ ~WrappedPast(k, xTimeOut[t]) /\ ~(elapsed >= wait)
          /\ exact => k.xNumOfOverflows <= xTimeOut[t].xOverflowCount + 1
          /\ Matches(exact, d, now, since + wait)
  BY <1>1, <1>3 DEF TimedOut, Prompt, DueFits
<1>8. wait = portMAX_DELAY => d = Forever
  BY <1>1, <1>3 DEF DueFits
<1>9. /\ portMAX_DELAY \in Ticks \ {0} /\ portMAX_DELAY = TickModulus - 1
      /\ Ticks = 0 .. (TickModulus - 1) /\ TickModulus \in Nat
  BY TicksAreNumbers DEF Ticks, portMAX_DELAY
<1> HIDE DEF wait, since, elapsed, now, d
<1>10. CASE wait = portMAX_DELAY
  <2>1. TimeLeft(t) = portMAX_DELAY
    BY <1>5, <1>10
  <2> QED
    BY <1>3, <1>4, <1>8, <1>9, <1>10, <2>1 DEF wait, since, now, d
<1>11. CASE wait # portMAX_DELAY
  <2>1. TimeLeft(t) = wait - elapsed /\ elapsed < wait
    BY <1>2, <1>5, <1>6, <1>7, <1>11
  <2>2. wait < portMAX_DELAY
    BY <1>2, <1>9, <1>11
  <2>3. TimeLeft(t) \in Ticks \ {0} /\ TimeLeft(t) # portMAX_DELAY /\ TimeLeft(t) \in Nat
    BY <1>2, <1>6, <1>9, <2>1, <2>2
  <2>4. Matches(exact, d, now, now + TimeLeft(t))
    <3>1. since + wait <= now + TimeLeft(t)
      BY <1>1, <1>2, <1>6, <2>1
    <3>2. exact => since + wait = now + TimeLeft(t)
      BY <1>1, <1>2, <1>6, <1>7, <1>11, <2>1
    <3>3. d <= Left(now, since + wait) /\ (exact => d = Left(now, since + wait))
      BY <1>7, <1>11 DEF Matches
    <3>4. Left(now, since + wait) <= Left(now, now + TimeLeft(t))
      BY <1>1, <1>2, <2>3, <3>1 DEF Left
    <3>5. Left(now, since + wait) \in Nat /\ Left(now, now + TimeLeft(t)) \in Nat
      BY <1>1, <1>2, <2>3 DEF Left
    <3>6. d <= Left(now, now + TimeLeft(t))
      BY <1>1, <3>3, <3>4, <3>5
    <3>7. exact => d = Left(now, now + TimeLeft(t))
      BY <3>2, <3>3
    <3> QED
      BY <3>6, <3>7 DEF Matches
  <2> QED
    BY <1>3, <1>11, <2>3, <2>4 DEF wait, since, now, d
<1> QED
  BY <1>10, <1>11

LEMMA WaitGoesOnTimely ==
  ASSUME KernelPart, TimePart, workload \in Workloads, KernelPart',
         NEW exact \in BOOLEAN, Timely(exact), exact => Prompt,
         NEW t \in Tasks, WaitGoesOn(t)
  PROVE  Timely(exact)'
<1> DEFINE s == vTaskSuspendAll(k)
           left == TimeLeft(t)
           since == IF xTicksToWait[t] = portMAX_DELAY THEN xTimeOut[t]
                    ELSE vTaskInternalSetTimeOutState(k)
<1>1. /\ t = k.pxCurrentTCB /\ pc[t] = "suspend" /\ pc[t] \in Plain
      /\ ~TimedOut(k, xTimeOut[t], xTicksToWait[t])
  BY DEF WaitGoesOn, Running, Plain
<1>2. /\ left \in Ticks \ {0} /\ xEntryTimeSet[t] = TRUE
      /\ xTicksToWait[t] = portMAX_DELAY =>
            left = portMAX_DELAY /\ k.due[t] = Forever /\ Since(xTimeOut[t]) <= Time(k)
      /\ xTicksToWait[t] # portMAX_DELAY =>
            left # portMAX_DELAY /\ Matches(exact, k.due[t], Time(k), Time(k) + left)
  BY <1>1, TimeLeftFits
<1>3. k \in Kernel /\ Time(k) \in Nat /\ KernelInTime
  BY <1>1, RunningFits DEF Timely
<1>4. DueFits(exact, k.due[t], Time(k), TRUE, Since(since), left)
  <2>1. xTicksToWait[t] # portMAX_DELAY => Since(since) = Time(k)
    BY <1>3, NowIsSince
  <2> QED
    BY <1>2, <1>3, <2>1 DEF DueFits
<1>5. /\ xTicksToWait' = [xTicksToWait EXCEPT ![t] = left]
      /\ xTimeOut' = [xTimeOut EXCEPT ![t] = since]
      /\ xEntryTimeSet' = [xEntryTimeSet EXCEPT ![t] = TRUE]
  <2>1. /\ xTimeOut = [xTimeOut EXCEPT ![t] = xTimeOut[t]]
        /\ xEntryTimeSet = [xEntryTimeSet EXCEPT ![t] = TRUE]
    BY <1>2 DEF TimePart
  <2> QED
    BY <2>1 DEF WaitGoesOn
<1>6. /\ Ordered(s) /\ s.pxCurrentTCB = t /\ t \in ReadyTasks(s)
      /\ s.uxSchedulerSuspended = 1 /\ Stays(k, s) /\ s.due = k.due
      /\ NothingMoves(k, s)
  BY <1>1, <1>3, SuspendedStep, DueKeeps
<1>7. CASE uxMessagesWaiting = 0
  <2>1. /\ k' = vTaskPlaceOnEventList(s, left)
        /\ pc' = [pc EXCEPT ![t] = "waitResume"]
    BY <1>7 DEF WaitGoesOn, Goto
  <2> HIDE DEF s, left, since
  <2>2. Timed(s) /\ Waiters(s) = Waiters(k)
    BY <1>3, <1>6, StaysSame DEF KernelInTime
  <2>3. BlocksFor(s, k', t, left, TRUE)
    BY <1>2, <1>6, <2>1, <2>2, PlacesInTime
  <2>4. SameControl(s, k') /\ Waiters(k') = Waiters(s) \cup {t}
    BY <1>2, <1>6, <2>1, TicksAreNumbers, CurrentWaits
  <2>5. k'.uxSchedulerSuspended = 1 /\ Waiters(k') \subseteq Waiters(k) \cup {t}
    BY <1>6, <2>2, <2>4 DEF SameControl
  <2>6. LocalsAt(t, TRUE, since, left, "waitResume")
    BY <1>5, <2>1 DEF LocalsAt
  <2>7. LabelFits(TRUE, left, "waitResume")
    BY DEF LabelFits, Unset
  <2>8. DueFits(exact, s.due[t], Time(k), TRUE, Since(since), left)
    BY <1>4, <1>6
  <2>9. IF left = portMAX_DELAY /\ TRUE THEN TRUE /\ left = portMAX_DELAY
        ELSE Matches(exact, s.due[t], Time(k), Time(k) + left)
    BY <1>2, <1>6
  <2>10. \A u \in Tasks \ {t} : s.due[u] = k.due[u]
    BY <1>6
  <2> QED
    BY <1>1, <1>6, <2>3, <2>5, <2>6, <2>7, <2>8, <2>9, <2>10, BlockStepInTime
<1>8. CASE uxMessagesWaiting # 0
  <2>1. k' = s /\ pc' = [pc EXCEPT ![t] = "retryResume"]
    BY <1>8 DEF WaitGoesOn, Goto
  <2> HIDE DEF s, left, since
  <2>2. LocalsAt(t, TRUE, since, left, "retryResume")
    BY <1>5, <2>1 DEF LocalsAt
  <2>3. LabelFits(TRUE, left, "retryResume")
    BY DEF LabelFits, Unset
  <2>4. Stays(k, k') /\ k'.due = k.due
    BY <1>6, <2>1
  <2>5. DueFits(exact, k'.due[t], Time(k), TRUE, Since(since), left)
    BY <1>4, <2>4
  <2>6. \A u \in Tasks \ {t} : k'.due[u] = k.due[u]
    BY <2>4
  <2> QED
    BY <1>1, <2>2, <2>3, <2>4, <2>5, <2>6, PlainStepInTime
<1> QED
  BY <1>7, <1>8

LEMMA TimelyStep ==
  ASSUME NEW exact \in BOOLEAN, KernelInv, [Next]_vars, Timely(exact), exact => Prompt
  PROVE  Timely(exact)'
<1>1. KernelPart /\ TimePart /\ workload \in Workloads /\ KernelPart'
  BY InvariantParts, KernelStep DEF QueuePart
<1>2. CASE Tick
  BY <1>1, <1>2, TickTimely
<1>3. ASSUME NEW t \in Tasks, Step(t)
      PROVE  Timely(exact)'
  <2>1. CASE \E ticks \in workload.delays[t] : Delay(t, ticks)
    BY <1>1, <2>1, DelayTimely
  <2>2. CASE \/ DelayResume(t) \/ WaitResume(t) \/ RetryResume(t) \/ LastResume(t)
             \/ Yield(t, "delayYield", "run") \/ Yield(t, "waitYield", "check")
    BY <1>1, <2>2, ResumingTimely
  <2>3. CASE \E item \in workload.items[t] : Send(t, item)
    BY <1>1, <2>3, SendTimely
  <2>4. CASE \E wait \in workload.waits[t] : Receive(t, wait)
    BY <1>1, <2>4, ReceiveTimely
  <2>5. CASE TakeItem(t) \/ GiveUpAtOnce(t) \/ GiveUp(t)
    BY <1>1, <2>5, ReturnTimely DEF GivesUp
  <2>6. CASE StartWaiting(t)
    BY <1>1, <2>6, StartWaitingTimely
  <2>7. CASE TryOnceMore(t)
    BY <1>1, <2>7, TryOnceMoreTimely
  <2>8. CASE WaitIsOver(t)
    BY <1>1, <2>8, WaitIsOverTimely
  <2>9. CASE WaitGoesOn(t)
    BY <1>1, <2>9, WaitGoesOnTimely
  <2> QED
    BY <1>3, <2>1, <2>2, <2>3, <2>4, <2>5, <2>6, <2>7, <2>8, <2>9 DEF Step
<1>4. CASE UNCHANGED vars
  <2>1. /\ k' = k /\ pc' = pc /\ xTicksToWait' = xTicksToWait /\ xTimeOut' = xTimeOut
        /\ xEntryTimeSet' = xEntryTimeSet
    BY <1>4 DEF vars, locals
  <2> QED
    BY <2>1 DEF Timely, KernelInTime, TasksInTime, LabelsFit
<1> QED
  BY <1>2, <1>3, <1>4 DEF Next

LEMMA TimelyAtFirst ==
  ASSUME NEW exact \in BOOLEAN, Init
  PROVE  Timely(exact)
<1>1. /\ k = InitialKernel /\ pc = [t \in Tasks |-> "run"]
      /\ xTicksToWait = [t \in Tasks |-> 0] /\ xEntryTimeSet = [t \in Tasks |-> FALSE]
  BY DEF Init
<1>2. Starts(k)
  BY <1>1, EverybodyStarts
<1>3. /\ Timed(k) /\ Fair(k) /\ Sleepers(k) = {} /\ Suspended(k) = {} /\ Waiters(k) = {}
      /\ k.xPendedTicks = 0 /\ \A t \in Tasks : k.due[t] = 0
  BY <1>2, StartsInTime DEF Starts, NothingCounted
<1>4. KernelInTime
  BY <1>3 DEF KernelInTime
<1>5. TasksInTime(exact)
  BY <1>1, <1>3 DEF TasksInTime, TaskInTime
<1>6. LabelsFit
  BY <1>1 DEF LabelsFit, LabelFits, Unset
<1> QED
  BY <1>4, <1>5, <1>6 DEF Timely

-----------------------------------------------------------------------------
(* The theorems. *)

(* The half that holds without conditions: no task has more time left than *)
(* it will sleep.                                                          *)
LEMMA AlwaysTimely == Spec => [](KernelInv /\ Timely(FALSE))
<1>1. Init => Timely(FALSE)
  BY TimelyAtFirst
<1>2. KernelInv /\ [Next]_vars /\ Timely(FALSE) => Timely(FALSE)'
  BY TimelyStep
<1> QED
  BY <1>1, <1>2, KernelStaysOrdered, PTL DEF Spec

LEMMA PromptlyTimely == Spec /\ []Prompt => [](KernelInv /\ Timely(TRUE))
<1>1. Init => Timely(TRUE)
  BY TimelyAtFirst
<1>2. KernelInv /\ [Next]_vars /\ Timely(TRUE) /\ Prompt => Timely(TRUE)'
  BY TimelyStep
<1> QED
  BY <1>1, <1>2, KernelStaysOrdered, PTL DEF Spec

(* No ready task starves within its priority: others are chosen before it  *)
(* at most twice as often, all of them together, as there are others of    *)
(* its priority, whatever order they become ready, block and are woken in. *)
THEOREM SharesAreFair == Spec => []FairShare
<1>1. KernelInv /\ Timely(FALSE) => FairShare
  <2> SUFFICES ASSUME KernelInv, Timely(FALSE), NEW t \in Tasks
               PROVE  k.passed[t]
                          <= 2 * Cardinality({u \in Tasks \ {t} : Priority[u] = Priority[t]})
    BY DEF FairShare
  <2>1. k \in Kernel /\ ReadySound(k) /\ Fair(k)
    BY InvariantParts, OrderedIs DEF KernelPart, Controlled, PlacesSound, Timely, KernelInTime
  <2>2. k.passed[t] <= 2 * Others(Priority[t])
    BY <2>1, FairMeansShared
  <2> QED
    BY <2>2, OthersAre
<1> QED
  BY <1>1, AlwaysTimely, PTL

(* What a sleeper has left, and where a task is that does not sleep.  *)
LEMMA TimelySleeps ==
  ASSUME KernelInv, Timely(TRUE)
  PROVE  SleepsUntilDue
<1>1. KernelPart /\ TimePart /\ KernelInTime /\ TasksInTime(TRUE)
  BY InvariantParts DEF Timely
<1>2. k \in Kernel /\ PlacesSound(k) /\ Timed(k)
  BY <1>1, OrderedIs DEF KernelPart, Controlled, KernelInTime
<1> SUFFICES ASSUME NEW t \in Tasks
             PROVE  IF t \in Sleepers(k)
                    THEN /\ TicksToWake(t) \in 1 .. portMAX_DELAY
                         /\ k.due[t] = Max({0, TicksToWake(t) - k.xPendedTicks})
                    ELSE IsReady(k, t) \/ (t \in ToSet(k.xSuspendedTaskList) /\ k.due[t] = Forever)
  BY DEF SleepsUntilDue
<1>3. TaskInTime(TRUE, k, t, xEntryTimeSet[t], Since(xTimeOut[t]), xTicksToWait[t])
  BY <1>1 DEF TasksInTime
<1>4. CASE t \in Sleepers(k)
  <2> DEFINE left == TicksToWake(t)
             pended == k.xPendedTicks
             ahead == left - pended
  <2>1. /\ Time(k) < WakeTime(k, t) /\ WakeTime(k, t) < Time(k) + TickModulus
        /\ WakeTime(k, t) - Time(k) = left
    BY <1>2, <1>4, SleepsAtMost DEF TicksToWake, Overflown
  <2>2. /\ Time(k) \in Nat /\ WakeTime(k, t) \in Nat /\ pended \in Nat /\ TickModulus \in Nat
        /\ Clock(k) = Time(k) + pended
    BY <1>2, TimeIsNatural DEF Clock
  <2> HIDE DEF left, pended
  <2>3. left \in 1 .. portMAX_DELAY /\ ahead \in Int
    BY <2>1, <2>2 DEF portMAX_DELAY
  <2>4. k.due[t] = Left(Clock(k), WakeTime(k, t))
    BY <1>3, <1>4 DEF TaskInTime, Matches
  <2>5. k.due[t] = IF ahead > 0 THEN ahead ELSE 0
    BY <2>1, <2>2, <2>3, <2>4 DEF Left
  <2> HIDE DEF ahead
  <2>6. Max({0, ahead}) = IF ahead > 0 THEN ahead ELSE 0
    BY <2>3 DEF Max
  <2> QED
    BY <1>4, <2>3, <2>5, <2>6 DEF left, pended, ahead
<1>5. CASE t \notin Sleepers(k)
  <2>1. CASE t \in ReadyTasks(k)
    BY <1>5, <2>1 DEF ReadyTasks
  <2>2. CASE t \notin ReadyTasks(k)
    <3>1. t \in Suspended(k)
      BY <1>2, <1>5, <2>2 DEF PlacesSound, Blocked
    <3>2. k.due[t] = Forever
      BY <1>3, <3>1 DEF TaskInTime
    <3> QED
      BY <1>5, <3>1, <3>2 DEF Suspended
  <2> QED
    BY <2>1, <2>2
<1> QED
  BY <1>4, <1>5

(* A sleeping task is woken exactly when the time it asked for is over,    *)
(* however often the tick count wraps and although ticks are counted late  *)
(* while the scheduler is suspended, as long as no task is held up in      *)
(* xQueueReceive, between the look at the queue and the look at the time,  *)
(* while the count wraps twice.                                            *)
THEOREM SleepersAreOnTime == Spec /\ []Prompt => []SleepsUntilDue
<1>1. KernelInv /\ Timely(TRUE) => SleepsUntilDue
  BY TimelySleeps
<1> QED
  BY <1>1, PromptlyTimely, PTL

(* Only the timer interrupt advances the clock.  *)
SameClock(kern, r) ==
    /\ r.xTickCount = kern.xTickCount /\ r.xNumOfOverflows = kern.xNumOfOverflows
    /\ r.xPendedTicks = kern.xPendedTicks

LEMMA BlockingKeepsClock ==
  ASSUME NEW kern \in Kernel, NEW ticks
  PROVE  /\ \A forever : SameClock(kern, prvAddCurrentTaskToDelayedList(kern, ticks, forever))
         /\ SameClock(kern, vTaskPlaceOnEventList(kern, ticks))
         /\ SameClock(kern, vTaskSuspendAll(kern))
<1>1. \A forever : SameClock(kern, prvAddCurrentTaskToDelayedList(kern, ticks, forever))
  BY DEF prvAddCurrentTaskToDelayedList, Kernel, SameClock
<1>2. SameClock(kern, vTaskPlaceOnEventList(kern, ticks))
  BY DEF vTaskPlaceOnEventList, prvAddCurrentTaskToDelayedList, Kernel, SameClock
<1>3. SameClock(kern, vTaskSuspendAll(kern))
  BY DEF vTaskSuspendAll, Kernel, SameClock
<1> QED
  BY <1>1, <1>2, <1>3

LEMMA ClockStays ==
  ASSUME KernelPart, KernelInTime, workload \in Workloads, NEW t \in Tasks, Step(t)
  PROVE  Clock(k') = Clock(k)
<1>1. Ordered(k) /\ k \in Kernel /\ ReadyTasks(k) # {} /\ Timed(k)
  BY SomeoneIsReady DEF KernelPart, Controlled, Ordered, KernelInTime
<1>2. \A r : SameClock(k, r) => Clock(r) = Clock(k)
  BY DEF SameClock, Clock, Time
<1>3. SameClock(k, k)
  BY DEF SameClock
<1>4. ASSUME NEW ticks \in workload.delays[t], Delay(t, ticks)
      PROVE  Clock(k') = Clock(k)
  <2> DEFINE s == vTaskSuspendAll(k)
             m == [s EXCEPT !.due[t] = ticks]
  <2>1. /\ k' = prvAddCurrentTaskToDelayedList(m, ticks, FALSE)
        /\ t = k.pxCurrentTCB /\ pc[t] \in Plain
    BY <1>4 DEF Delay, Running, Plain
  <2>2. SameClock(k, s) /\ Ordered(s)
    BY <1>1, <2>1, BlockingKeepsClock, SuspendedStep
  <2> HIDE DEF s, m
  <2>3. ticks \in 0 .. Forever
    BY WorkloadTimes, TicksAreNumbers DEF Ticks, Forever
  <2>4. Ordered(m)
    BY <2>2, <2>3, DueIsHistory DEF m, NothingMoves
  <2>5. SameClock(s, m) /\ m \in Kernel
    BY <2>2, <2>4 DEF m, Ordered, Kernel, SameClock
  <2>6. SameClock(m, k')
    BY <2>1, <2>5, BlockingKeepsClock
  <2>7. SameClock(k, k')
    BY <2>2, <2>5, <2>6 DEF SameClock
  <2> QED
    BY <1>2, <2>7
<1>5. ASSUME NEW yielded, NEW otherwise, Running(t, "delayResume") \/ Running(t, "waitResume")
                 \/ Running(t, "retryResume") \/ Running(t, "lastResume"),
             ResumeAll(t, yielded, otherwise)
      PROVE  Clock(k') = Clock(k)
  <2> DEFINE open == xTaskResumeAll(k)
             r == IF open.xYieldPending THEN vTaskSwitchContext(open) ELSE open
  <2>1. pc[k.pxCurrentTCB] \in SchedulerHeld
    BY <1>5 DEF Running, SchedulerHeld
  <2>2. k.uxSchedulerSuspended = 1
    BY <2>1 DEF KernelPart, Controlled, Controls
  <2>3. k' = r
    BY <1>5 DEF ResumeAll
  <2>4. Clock(r) = Clock(k)
    BY <1>1, <2>2, OpensInTime
  <2> QED
    BY <2>3, <2>4
<1>6. CASE DelayResume(t) \/ WaitResume(t) \/ RetryResume(t) \/ LastResume(t)
  BY <1>5, <1>6 DEF DelayResume, WaitResume, RetryResume, LastResume
<1>7. CASE Yield(t, "delayYield", "run") \/ Yield(t, "waitYield", "check")
  <2>1. k' = vTaskSwitchContext(k)
    BY <1>7 DEF Yield
  <2> QED
    BY <1>1, <2>1, SwitchKeeps, KeptIsSame
<1>8. ASSUME NEW item, Send(t, item)
      PROVE  Clock(k') = Clock(k)
  <2>1. CASE k.xTasksWaitingToReceive = <<>>
    BY <1>2, <1>3, <1>8, <2>1 DEF Send
  <2>2. CASE k.xTasksWaitingToReceive # <<>>
    <3>1. /\ t = k.pxCurrentTCB /\ pc[t] \in Plain /\ k' = xTaskRemoveFromEventList(k)
      BY <1>8, <2>2 DEF Send, Running, Plain
    <3>2. SameTime(k, k')
      BY <1>1, <2>2, <3>1, RunsInTime, SendInTime
    <3> QED
      BY <1>2, <3>2 DEF SameTime, SameClock
  <2> QED
    BY <2>1, <2>2
<1>9. CASE \/ \E wait \in workload.waits[t] : Receive(t, wait)
           \/ TakeItem(t) \/ GiveUpAtOnce(t) \/ StartWaiting(t) \/ GiveUp(t) \/ TryOnceMore(t)
  <2>1. \A d : SameClock(k, [k EXCEPT !.due[t] = d])
    BY <1>1 DEF Kernel, SameClock
  <2>2. k' = k \/ \E d : k' = [k EXCEPT !.due[t] = d]
    BY <1>9 DEF Receive, TakeItem, GiveUpAtOnce, StartWaiting, GiveUp, TryOnceMore
  <2> QED
    BY <1>2, <2>1, <2>2
<1>10. CASE WaitIsOver(t) \/ WaitGoesOn(t)
  <2> DEFINE s == vTaskSuspendAll(k)
             left == TimeLeft(t)
  <2>1. /\ t = k.pxCurrentTCB /\ pc[t] \in Plain
        /\ k' = s \/ k' = vTaskPlaceOnEventList(s, left)
    BY <1>10 DEF WaitIsOver, WaitGoesOn, Running, Plain
  <2>2. SameClock(k, s) /\ s \in Kernel
    BY <1>1, <2>1, BlockingKeepsClock, SuspendedStep DEF Ordered
  <2> HIDE DEF s, left
  <2>3. SameClock(s, vTaskPlaceOnEventList(s, left))
    BY <2>2, BlockingKeepsClock
  <2>4. SameClock(k, k')
    BY <2>1, <2>2, <2>3 DEF SameClock
  <2> QED
    BY <1>2, <2>4
<1> QED
  BY <1>4, <1>6, <1>7, <1>8, <1>9, <1>10 DEF Step

(* The count does not wrap twice where MaxTicks bounds the interrupts.  *)
LEMMA ClockIsBounded ==
  ASSUME MaxTicks \in Nat
  PROVE  Spec => [](Clock(k) <= MaxTicks)
<1>1. Init => Clock(k) <= MaxTicks
  <2> SUFFICES ASSUME Init
               PROVE  Clock(k) <= MaxTicks
    OBVIOUS
  <2>1. Starts(k)
    BY EverybodyStarts DEF Init
  <2>2. Time(k) = 0 /\ k.xPendedTicks = 0
    BY <2>1, StartsInTime DEF Starts, NothingCounted
  <2> QED
    BY <2>2 DEF Clock
<1>2. KernelInv /\ Timely(FALSE) /\ [Next]_vars /\ Clock(k) <= MaxTicks
          => (Clock(k) <= MaxTicks)'
  <2> SUFFICES ASSUME KernelInv, Timely(FALSE), [Next]_vars, Clock(k) <= MaxTicks
               PROVE  Clock(k') <= MaxTicks
    BY DEF Clock, Time
  <2>1. /\ KernelPart /\ KernelInTime /\ workload \in Workloads /\ k \in Kernel
    BY InvariantParts DEF QueuePart, Timely, KernelPart, Controlled, Ordered
  <2>2. CASE Tick
    <3>1. k' = AfterTick(k) /\ Clock(k) < MaxTicks
      BY <2>2 DEF Tick, AfterTick, Clock, Time
    <3>2. Clock(k') = Clock(k) + 1
      BY <2>1, <3>1, SomeoneIsReady, InterruptPasses DEF KernelPart, Controlled, KernelInTime
    <3>3. Clock(k) \in Nat
      BY <2>1, TimeIsNatural
    <3> QED
      BY <3>1, <3>2, <3>3
  <2>3. CASE \E t \in Tasks : Step(t)
    BY <2>1, <2>3, ClockStays
  <2>4. CASE UNCHANGED vars
    BY <2>4 DEF vars
  <2> QED
    BY <2>2, <2>3, <2>4 DEF Next
<1> QED
  BY <1>1, <1>2, AlwaysTimely, PTL DEF Spec

(* With fewer interrupts than it takes for the tick count to wrap twice,   *)
(* nobody can be held up so long, and sleepers are on time.                *)
THEOREM SleepersAreOnTimeAtFirst ==
  ASSUME MaxTicks \in Nat, MaxTicks < 2 * TickModulus
  PROVE  Spec => []SleepsUntilDue
<1>1. KernelInv /\ Clock(k) <= MaxTicks => Prompt
  <2> SUFFICES ASSUME KernelInv, Clock(k) <= MaxTicks, NEW t \in Tasks
               PROVE  k.xNumOfOverflows <= xTimeOut[t].xOverflowCount + 1
    BY DEF Prompt
  <2>1. k \in Kernel /\ xTimeOut[t] \in TimeOut
    BY InvariantParts DEF KernelPart, Controlled, Ordered, TimePart
  <2> DEFINE o == k.xNumOfOverflows
  <2>2. /\ o \in Nat /\ o * TickModulus \in Nat /\ TickModulus \in Nat
        /\ k.xTickCount \in Nat /\ k.xPendedTicks \in Nat
        /\ xTimeOut[t].xOverflowCount \in Nat
    BY <2>1, TimeIsNatural, SinceIsNatural
  <2>3. o * TickModulus < 2 * TickModulus
    BY <2>2 DEF Clock, Time
  <2>4. CASE o >= 2
    <3>1. PICK n \in Nat : o = 2 + n
      <4>1. o - 2 \in Nat /\ o = 2 + (o - 2)
        BY <2>2, <2>4
      <4> QED
        BY <4>1
    <3>2. o * TickModulus = 2 * TickModulus + n * TickModulus /\ n * TickModulus \in Nat
      BY <2>2, <3>1
    <3> QED
      BY <2>2, <2>3, <3>2
  <2>5. CASE o < 2
    BY <2>2, <2>5
  <2> QED
    BY <2>2, <2>4, <2>5
<1>2. Spec => []Prompt
  BY <1>1, ClockIsBounded, KernelStaysOrdered, PTL
<1> QED
  BY <1>2, SleepersAreOnTime, PTL

(* xQueueReceive returns empty-handed only when the time it was given is   *)
(* over, and with portMAX_DELAY never: without any condition, as a time    *)
(* gone by is at worst taken for a shorter one.                            *)
THEOREM EmptyHandedOnlyWhenDue == Spec => EmptyOnlyWhenDue
<1>1. ASSUME KernelInv, Timely(FALSE), Next, NEW t \in Tasks,
             pc[t] \in {"check", "last"}, pc'[t] = "run", uxMessagesWaiting' = uxMessagesWaiting
      PROVE  k.due[t] = 0
  <2>1. KernelPart /\ TimePart /\ pc \in [Tasks -> Labels] /\ uxMessagesWaiting \in Nat
    <3>1. KernelPart /\ TimePart /\ QueuePart
      BY <1>1, InvariantParts
    <3>2. pc \in [Tasks -> Labels]
      BY <3>1 DEF KernelPart, Controlled
    <3>3. uxMessagesWaiting \in Nat
      BY <3>1, LengthIsPositive DEF QueuePart
    <3> QED
      BY <3>1, <3>2, <3>3
  <2>2. PICK u \in Tasks : Step(u)
    <3>1. CASE Tick
      BY <1>1, <3>1 DEF Tick
    <3> QED
      BY <1>1, <3>1 DEF Next
  <2>3. t = u
    <3> SUFFICES ASSUME t # u
                 PROVE  pc'[t] = pc[t]
      BY <1>1
    <3>1. \/ pc' = pc
          \/ \E label : pc' = [pc EXCEPT ![u] = label]
      BY <2>2 DEF Step, Delay, DelayResume, Yield, Send, Receive, TakeItem, GiveUpAtOnce,
                  StartWaiting, WaitIsOver, WaitGoesOn, WaitResume, RetryResume, LastResume,
                  GiveUp, TryOnceMore, Return, ResumeAll, Goto
    <3> QED
      BY <2>1, <3>1
  <2>4. GivesUp(t)
    <3>1. CASE \E ticks \in workload.delays[t] : Delay(t, ticks)
      BY <1>1, <3>1 DEF Delay, Running
    <3>2. CASE \/ DelayResume(t) \/ WaitResume(t) \/ RetryResume(t) \/ LastResume(t)
               \/ Yield(t, "delayYield", "run") \/ Yield(t, "waitYield", "check")
      BY <1>1, <3>2 DEF DelayResume, WaitResume, RetryResume, LastResume, Yield, Running
    <3>3. CASE \E item \in workload.items[t] : Send(t, item)
      BY <1>1, <3>3 DEF Send, Running
    <3>4. CASE \E wait \in workload.waits[t] : Receive(t, wait)
      BY <1>1, <3>4 DEF Receive, Running
    <3>5. CASE TakeItem(t)
      BY <1>1, <2>1, <3>5 DEF TakeItem
    <3>6. CASE StartWaiting(t)
      BY <1>1, <2>1, <3>6 DEF StartWaiting, Goto
    <3>7. CASE TryOnceMore(t)
      BY <1>1, <2>1, <3>7 DEF TryOnceMore, Goto
    <3>8. CASE WaitIsOver(t) \/ WaitGoesOn(t)
      BY <1>1, <3>8 DEF WaitIsOver, WaitGoesOn, Running
    <3>9. CASE GiveUpAtOnce(t) \/ GiveUp(t)
      BY <3>9 DEF GivesUp
    <3> QED
      BY <2>2, <2>3, <3>1, <3>2, <3>3, <3>4, <3>5, <3>6, <3>7, <3>8, <3>9 DEF Step
  <2> QED
    BY <1>1, <2>1, <2>4, GivesUpWhenDue
<1>2. KernelInv /\ Timely(FALSE) /\ [Next]_vars
        => [\A t \in Tasks :
               pc[t] \in {"check", "last"} /\ pc'[t] = "run"
                   /\ uxMessagesWaiting' = uxMessagesWaiting => k.due[t] = 0]_vars
  BY <1>1
<1> QED
  BY <1>2, AlwaysTimely, PTL DEF Spec, EmptyOnlyWhenDue

=============================================================================
