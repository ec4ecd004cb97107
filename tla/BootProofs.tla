------------------------------ MODULE BootProofs ------------------------------
(***************************************************************************)
(* Proofs about the boot, for every heap, every list of tasks, every image *)
(* and all sizes that Boot's assumptions allow.                            *)
(*                                                                         *)
(* The system which runs is complete (BootInv).  Only one creation is not  *)
(* checked by main: that of the command queue.  It is the second           *)
(* allocation, so the heap then has at most one free block (TinyHeap), and *)
(* what is refused once stays refused for anything at least as large       *)
(* (NoRoomGrows).  The next allocation is the stack of the first task,     *)
(* which is no smaller than the queue, and main halts when that fails.     *)
(*                                                                         *)
(* An undamaged image is accepted if it was patched (ImageInv).  A CRC     *)
(* goes on where it stopped, so the two pieces of the firmware give what   *)
(* the script computes of the whole, and the slot, which is in neither,    *)
(* does not matter.  The mode and the log follow the verdict (VerdictInv). *)
(*                                                                         *)
(* The heap stays in order (SoundHeap).  The books of the allocator are    *)
(* that the blocks tile the heap (Tiling), that the list has the free ones *)
(* in order (Listing) and how many bytes they have; each way to take a     *)
(* block and to give one back keeps them, and a block that is given back   *)
(* can touch only its two neighbours in the list.  Every object has an     *)
(* allocated block of its own (OwnBlocks), large enough for it.            *)
(*                                                                         *)
(* With a heap of HeapSuffices the boot gets to the end: before anything   *)
(* is given back there is one free block, which each creation cuts from.   *)
(*                                                                         *)
(* The CRC is the remainder of a polynomial division: the register is the  *)
(* upper end of what is being divided (Stands).  The division is linear,   *)
(* so two accepted images differ by a multiple of the generator            *)
(* (AcceptedDiffer); a burst is none (BurstLeaves), and two bits are none  *)
(* where the order of the polynomial exceeds the image (PairLeaves).       *)
(***************************************************************************)
EXTENDS Boot, SequenceTheorems, FiniteSetTheorems, TLAPS

-----------------------------------------------------------------------------
(* Sizes: rounding is monotone and no block is empty.  *)

LEMMA DownIs ==
  ASSUME NEW n \in Nat
  PROVE  \E q \in Nat : /\ Down(n) = q * portBYTE_ALIGNMENT
                        /\ q * portBYTE_ALIGNMENT <= n
                        /\ n < (q + 1) * portBYTE_ALIGNMENT
<1> DEFINE m == portBYTE_ALIGNMENT
<1>1. m \in Nat /\ m > 0
  BY HeapAssumption
<1> HIDE DEF m
<1>2. /\ n = m * (n \div m) + (n % m) /\ n \div m \in Nat
      /\ n % m \in Nat /\ n % m < m
  BY <1>1, Z3
<1>3. n - (n % m) = (n \div m) * m
  BY <1>1, <1>2, Z3
<1>4. n < (n \div m + 1) * m
  BY <1>1, <1>2, Z3
<1>5. (n \div m) * m <= n
  BY <1>1, <1>2, Z3
<1> QED
  BY <1>2, <1>3, <1>4, <1>5 DEF Down, m

LEMMA DownGrows ==
  ASSUME NEW a \in Nat, NEW b \in Nat, a <= b
  PROVE  Down(a) \in Nat /\ Down(b) \in Nat /\ Down(a) <= Down(b)
<1> DEFINE m == portBYTE_ALIGNMENT
<1>1. m \in Nat /\ m > 0
  BY HeapAssumption
<1>2. PICK q \in Nat : Down(a) = q * m /\ q * m <= a
  BY DownIs
<1>3. PICK r \in Nat : Down(b) = r * m /\ b < (r + 1) * m
  BY DownIs
<1> HIDE DEF m
<1>4. q * m < (r + 1) * m
  BY <1>1, <1>2, <1>3, Z3
<1>5. q < r + 1
  BY <1>1, <1>4, Z3
<1>6. q * m <= r * m /\ q * m \in Nat /\ r * m \in Nat
  BY <1>1, <1>5, Z3
<1> QED
  BY <1>2, <1>3, <1>6

LEMMA UpGrows ==
  ASSUME NEW a \in Nat, NEW b \in Nat, a <= b
  PROVE  Up(a) \in Nat /\ Up(b) \in Nat /\ Up(a) <= Up(b)
<1>1. portBYTE_ALIGNMENT \in Nat /\ portBYTE_ALIGNMENT > 0
  BY HeapAssumption
<1> DEFINE A == a + portBYTE_ALIGNMENT - 1
           B == b + portBYTE_ALIGNMENT - 1
<1>2. A \in Nat /\ B \in Nat /\ A <= B
  BY <1>1
<1> HIDE DEF A, B
<1>3. Down(A) \in Nat /\ Down(B) \in Nat /\ Down(A) <= Down(B)
  BY <1>2, DownGrows
<1> QED
  BY <1>3 DEF Up, A, B

LEMMA UpIsPositive ==
  ASSUME NEW a \in Nat, a > 0
  PROVE  Up(a) \in Nat /\ Up(a) > 0
<1> DEFINE m == portBYTE_ALIGNMENT
           n == a + m - 1
<1>1. m \in Nat /\ m > 0 /\ n \in Nat /\ n >= m
  BY HeapAssumption
<1>2. PICK q \in Nat : Down(n) = q * m /\ n < (q + 1) * m
  BY <1>1, DownIs
<1>3. Up(a) = Down(n)
  BY DEF Up
<1> HIDE DEF m, n
<1>4. q > 0
  BY <1>1, <1>2, Z3
<1>5. q * m \in Nat /\ q * m > 0
  BY <1>1, <1>4, Z3
<1> QED
  BY <1>2, <1>3, <1>5

LEMMA HeaderIsPositive == xHeapStructSize \in Nat /\ xHeapStructSize > 0
BY HeapAssumption, UpIsPositive DEF xHeapStructSize

LEMMA BlockSizeIsPositive ==
  ASSUME NEW size \in Nat
  PROVE  BlockSizeFor(size) \in Nat /\ BlockSizeFor(size) > 0
<1> DEFINE a == size + xHeapStructSize
<1>1. a \in Nat /\ a > 0
  BY HeaderIsPositive
<1> QED
  BY <1>1, UpIsPositive DEF BlockSizeFor

LEMMA BlockSizeGrows ==
  ASSUME NEW a \in Nat, NEW b \in Nat, a <= b
  PROVE  /\ BlockSizeFor(a) \in Nat /\ BlockSizeFor(b) \in Nat
         /\ BlockSizeFor(a) <= BlockSizeFor(b)
<1> DEFINE x == xHeapStructSize
<1>1. a + x \in Nat /\ b + x \in Nat /\ a + x <= b + x
  BY HeaderIsPositive
<1> QED
  BY <1>1, UpGrows DEF BlockSizeFor

-----------------------------------------------------------------------------
(* The heap while it has at most one free block.  *)

TinyHeap(h) ==
    /\ h.xFreeBytesRemaining \in Int
    /\ \/ h.free = <<>>
       \/ \E b \in Nat : h.free = <<b>> /\ h.xBlockSize[b] \in Int

NoRoomFor(h, need) ==
    \/ need > h.xFreeBytesRemaining
    \/ {i \in DOMAIN h.free : h.xBlockSize[h.free[i]] >= need} = {}

LEMMA NoRoomGrows ==
  ASSUME NEW h, TinyHeap(h), NEW a \in Nat, NEW b \in Nat, a <= b, NoRoomFor(h, a)
  PROVE  NoRoomFor(h, b)
<1>1. CASE a > h.xFreeBytesRemaining
  BY <1>1 DEF TinyHeap, NoRoomFor
<1>2. CASE h.free = <<>>
  BY <1>2 DEF NoRoomFor
<1>3. ASSUME NEW c \in Nat, h.free = <<c>>, h.xBlockSize[c] \in Int,
             ~(a > h.xFreeBytesRemaining)
      PROVE  NoRoomFor(h, b)
  <2>1. DOMAIN h.free = {1} /\ h.free[1] = c
    BY <1>3
  <2>2. ~(h.xBlockSize[c] >= a)
    BY <1>3, <2>1 DEF NoRoomFor
  <2>3. ~(h.xBlockSize[c] >= b)
    BY <1>3, <2>2
  <2> QED
    BY <2>1, <2>3 DEF NoRoomFor
<1> QED
  BY <1>1, <1>2, <1>3 DEF TinyHeap

LEMMA NoRoomIsRefused ==
  ASSUME NEW h, NEW size, NoRoomFor(h, BlockSizeFor(size))
  PROVE  pvPortMalloc(h, size).at = NULL
BY DEF NoRoomFor, pvPortMalloc, Refused

LEMMA RefusedIsNoRoom ==
  ASSUME NEW h, NEW size, size # 0, TinyHeap(h), pvPortMalloc(h, size).at = NULL
  PROVE  NoRoomFor(h, BlockSizeFor(size)) /\ pvPortMalloc(h, size).heap = h
<1> DEFINE need == BlockSizeFor(size)
           fits == {i \in DOMAIN h.free : h.xBlockSize[h.free[i]] >= need}
<1>1. CASE need > h.xFreeBytesRemaining \/ fits = {}
  BY <1>1 DEF NoRoomFor, pvPortMalloc, Refused
<1>2. CASE ~(need > h.xFreeBytesRemaining \/ fits = {})
  <2>1. PICK b \in Nat : h.free = <<b>>
    BY <1>2 DEF TinyHeap
  <2>2. fits = {1}
    BY <1>2, <2>1
  <2>3. Min(fits) = 1
    <3>1. \A y \in fits : 1 <= y
      BY <2>2
    <3> QED
      BY <2>2, <3>1 DEF Min
  <2>4. pvPortMalloc(h, size).at = After(h.free[Min(fits)])
    BY <1>2 DEF pvPortMalloc
  <2>5. h.free[Min(fits)] = b
    BY <2>1, <2>3
  <2>6. After(b) # NULL
    BY <2>1, HeaderIsPositive DEF After, NULL
  <2> QED
    BY <2>4, <2>5, <2>6
<1> QED
  BY <1>1, <1>2

LEMMA UpdatedHeap ==
  ASSUME NEW b, NEW e, NEW z, NEW a, NEW f, NEW n, NEW z1, NEW f1, NEW n1,
         NEW r, r = [first |-> b, pxEnd |-> e, xBlockSize |-> z, allocated |-> a,
                     free |-> f, xFreeBytesRemaining |-> n]
  PROVE  LET split == [r EXCEPT !.xBlockSize = z1, !.free = f1, !.xFreeBytesRemaining = n1]
             whole == [r EXCEPT !.free = f1, !.xFreeBytesRemaining = n1]
         IN /\ split.xBlockSize = z1 /\ split.free = f1 /\ split.xFreeBytesRemaining = n1
            /\ whole.free = f1 /\ whole.xFreeBytesRemaining = n1
OBVIOUS

LEMMA FirstAllocation ==
  ASSUME NEW b \in Nat, NEW e, NEW n \in Int, NEW size \in Nat,
         NEW h, h = [first |-> b, pxEnd |-> e, xBlockSize |-> [x \in {b} |-> n],
                     allocated |-> {}, free |-> <<b>>, xFreeBytesRemaining |-> n]
  PROVE  TinyHeap(h) /\ TinyHeap(pvPortMalloc(h, size).heap)
<1> DEFINE need == BlockSizeFor(size)
           fits == {i \in DOMAIN h.free : h.xBlockSize[h.free[i]] >= need}
<1>1. need \in Nat /\ need > 0
  BY BlockSizeIsPositive
<1>2. TinyHeap(h)
  BY DEF TinyHeap
<1>3. CASE size = 0 \/ need > h.xFreeBytesRemaining \/ fits = {}
  BY <1>2, <1>3 DEF pvPortMalloc, Refused
<1>4. CASE ~(size = 0 \/ need > h.xFreeBytesRemaining \/ fits = {})
  <2>1. fits = {1}
    BY <1>4
  <2>2. Min(fits) = 1
    <3>1. \A y \in fits : 1 <= y
      BY <2>1
    <3> QED
      BY <2>1, <3>1 DEF Min
  <2>3. pvPortMalloc(h, size).heap = Take(h, 1, need)
    BY <1>4, <2>2 DEF pvPortMalloc
  <2> DEFINE new == b + need
             taken == [first |-> b, pxEnd |-> e, xBlockSize |-> [x \in {b} |-> n],
                       allocated |-> {b}, free |-> <<b>>, xFreeBytesRemaining |-> n]
  <2>4. h.free[1] = b /\ h.xBlockSize = [x \in {b} |-> n] /\ h.xBlockSize[b] = n
    OBVIOUS
  <2>5. RemoveAt(h.free, 1) = <<>>
    <3>1. SubSeq(<<b>>, 1, 0) = <<>> /\ SubSeq(<<b>>, 2, 1) = <<>>
      OBVIOUS
    <3> QED
      BY <3>1 DEF RemoveAt
  <2>6. InsertAt(<<>>, 1, new) = <<new>>
    <3>1. SubSeq(<<>>, 1, 0) = <<>> /\ Len(<<>>) = 0
      OBVIOUS
    <3>2. <<>> \o <<new>> \o <<>> = <<new>>
      OBVIOUS
    <3>3. InsertAt(<<>>, 1, new) = SubSeq(<<>>, 1, 1 - 1) \o <<new>> \o SubSeq(<<>>, 1, Len(<<>>))
      BY DEF InsertAt
    <3> QED
      BY <3>1, <3>2, <3>3
  <2>7. [h EXCEPT !.allocated = @ \cup {h.free[1]}] = taken
    OBVIOUS
  <2>8. CASE IsSplit(n - need)
    <3>1. Take(h, 1, need) =
            [[h EXCEPT !.allocated = @ \cup {h.free[1]}] EXCEPT
                !.xBlockSize = [c \in DOMAIN @ \cup {h.free[1] + need} |->
                                   CASE c = h.free[1] -> need
                                     [] c = h.free[1] + need -> h.xBlockSize[h.free[1]] - need
                                     [] OTHER -> @[c]],
                !.free = InsertAt(RemoveAt(h.free, 1), 1, h.free[1] + need),
                !.xFreeBytesRemaining = @ - need]
      BY <2>4, <2>8, Zenon DEF Take
    <3> DEFINE marked == [h EXCEPT !.allocated = @ \cup {h.free[1]}]
               sizes == [c \in DOMAIN marked.xBlockSize \cup {h.free[1] + need} |->
                            CASE c = h.free[1] -> need
                              [] c = h.free[1] + need -> h.xBlockSize[h.free[1]] - need
                              [] OTHER -> marked.xBlockSize[c]]
    <3>2. Take(h, 1, need) =
            [marked EXCEPT !.xBlockSize = sizes,
                           !.free = InsertAt(RemoveAt(h.free, 1), 1, h.free[1] + need),
                           !.xFreeBytesRemaining = @ - need]
      BY <3>1, Zenon
    <3>3. Take(h, 1, need) =
            [taken EXCEPT !.xBlockSize = sizes, !.free = <<new>>,
                          !.xFreeBytesRemaining = taken.xFreeBytesRemaining - need]
      <4>1. marked = taken
        BY <2>7
      <4>2. InsertAt(RemoveAt(h.free, 1), 1, h.free[1] + need) = <<new>>
        BY <2>4, <2>5, <2>6
      <4> HIDE DEF marked, taken, sizes, new
      <4> QED
        BY <3>2, <4>1, <4>2, Zenon
    <3>4. taken.xFreeBytesRemaining = n
      OBVIOUS
    <3>5. /\ Take(h, 1, need).free = <<new>>
          /\ Take(h, 1, need).xFreeBytesRemaining = n - need
          /\ Take(h, 1, need).xBlockSize = sizes
      <4> HIDE DEF sizes, new, need
      <4> QED
        BY <3>3, <3>4, UpdatedHeap
    <3>6. new \in Nat
      BY <1>1
    <3>7. sizes[new] \in Int
      <4>1. new # b /\ n - need \in Int
        BY <1>1
      <4>2. sizes[h.free[1] + need] = h.xBlockSize[h.free[1]] - need
        <5>1. h.free[1] + need # h.free[1]
          BY <2>4, <4>1
        <5> HIDE DEF need, marked
        <5> QED
          BY <5>1, Zenon DEF sizes
      <4> QED
        BY <2>4, <4>1, <4>2
    <3> HIDE DEF new, need, sizes, fits
    <3>8. n - need \in Int
      BY <1>1
    <3> QED
      BY <2>3, <3>5, <3>6, <3>7, <3>8 DEF TinyHeap
  <2>9. CASE ~IsSplit(n - need)
    <3>1. Take(h, 1, need) =
            [[h EXCEPT !.allocated = @ \cup {h.free[1]}] EXCEPT
                !.free = RemoveAt(h.free, 1),
                !.xFreeBytesRemaining = @ - h.xBlockSize[h.free[1]]]
      BY <2>4, <2>9, Zenon DEF Take
    <3>2. Take(h, 1, need) =
            [taken EXCEPT !.free = <<>>,
                          !.xFreeBytesRemaining = taken.xFreeBytesRemaining - n]
      BY <2>4, <2>5, <2>7, <3>1, Zenon
    <3>3. taken.xFreeBytesRemaining = n
      OBVIOUS
    <3>4. /\ Take(h, 1, need).free = <<>>
          /\ Take(h, 1, need).xFreeBytesRemaining = n - n
      BY <3>2, <3>3, UpdatedHeap
    <3> QED
      BY <2>3, <3>4 DEF TinyHeap
  <2> QED
    BY <2>8, <2>9
<1> QED
  BY <1>2, <1>3, <1>4

-----------------------------------------------------------------------------
(* The sequence of calls, and what each leaves behind.  *)

LEMMA NextCall ==
  ASSUME NEW k \in 1 .. 8, call = CallsInOrder[k]
  PROVE  Following = CallsInOrder[k + 1]
<1> DEFINE Is(i) == i \in 2 .. Len(CallsInOrder) /\ CallsInOrder[i - 1] = call
<1>1. Len(CallsInOrder) = 9
  BY DEF CallsInOrder
<1>2. Is(k + 1)
  BY <1>1
<1>3. ASSUME NEW i, Is(i)
      PROVE  i = k + 1
  <2>1. i - 1 \in 1 .. 8 /\ CallsInOrder[i - 1] = CallsInOrder[k]
    BY <1>1, <1>3
  <2>2. \A a, b \in 1 .. 8 : CallsInOrder[a] = CallsInOrder[b] => a = b
    BY DEF CallsInOrder
  <2>3. i - 1 = k
    BY <2>1, <2>2
  <2> QED
    BY <1>1, <1>3, <2>3
<1>4. (CHOOSE i \in 2 .. Len(CallsInOrder) : CallsInOrder[i - 1] = call) = k + 1
  BY <1>2, <1>3
<1> QED
  BY <1>4 DEF Following

LEMMA CallsFollow ==
  /\ call = "fault_queue_init" => Following = "command_init"
  /\ call = "command_init" => Following = "event_log_init"
  /\ call = "event_log_init" => Following = "image_integrity_verify"
  /\ call = "image_integrity_verify" => Following = "tasks_create_all"
  /\ call = "tasks_create_all" => Following = "prvCreateIdleTasks"
  /\ call = "prvCreateIdleTasks" => Following = "xTimerCreateTimerTask"
  /\ call = "xTimerCreateTimerTask" => Following = "vTaskStateMachine"
  /\ call = "vTaskStateMachine" => Following = "running"
<1>1. \A k \in 1 .. 8 : call = CallsInOrder[k] => Following = CallsInOrder[k + 1]
  BY NextCall
<1> QED
  BY <1>1 DEF CallsInOrder

TaskObjects(task) == {Stack(task), Tcb(task)}
NameOf(i) == TaskConfigs[i].name
TasksMade(n) == UNION {TaskObjects(NameOf(i)) : i \in 1 .. n}

LEMMA ObjectsDiffer ==
  \A a, b : /\ Queue(a) # Stack(b) /\ Queue(a) # Tcb(b) /\ Stack(a) # Tcb(b)
            /\ Stack(a) = Stack(b) => a = b
            /\ Tcb(a) = Tcb(b) => a = b
            /\ Queue(a) = Queue(b) => a = b
BY DEF Queue, Stack, Tcb

LEMMA WhatIsMade ==
  ASSUME NEW n \in 0 .. Len(TaskConfigs)
  PROVE  /\ \A q : Queue(q) \notin TasksMade(n)
         /\ \A i \in DOMAIN TaskConfigs : Stack(NameOf(i)) \in TasksMade(n) <=> i <= n
         /\ \A i \in DOMAIN TaskConfigs : Tcb(NameOf(i)) \in TasksMade(n) <=> i <= n
         /\ \A t \in {"Idle", "TmrSvc"} : Stack(t) \notin TasksMade(n) /\ Tcb(t) \notin TasksMade(n)
<1>1. /\ DOMAIN TaskConfigs = 1 .. Len(TaskConfigs) /\ Len(TaskConfigs) \in Nat
      /\ \A i, j \in DOMAIN TaskConfigs : NameOf(i) = NameOf(j) => i = j
      /\ \A i \in DOMAIN TaskConfigs : NameOf(i) \notin {"Idle", "TmrSvc"}
  BY TaskConfigsAssumption DEF NameOf
<1>2. \A o : o \in TasksMade(n) <=> \E i \in 1 .. n : o = Stack(NameOf(i)) \/ o = Tcb(NameOf(i))
  BY DEF TasksMade, TaskObjects
<1>3. 1 .. n \subseteq DOMAIN TaskConfigs
  BY <1>1
<1>4. \A i \in DOMAIN TaskConfigs : i \in 1 .. n <=> i <= n
  BY <1>1
<1>5. \A i \in DOMAIN TaskConfigs : Stack(NameOf(i)) \in TasksMade(n) <=> i \in 1 .. n
  BY <1>1, <1>2, <1>3, ObjectsDiffer
<1>6. \A i \in DOMAIN TaskConfigs : Tcb(NameOf(i)) \in TasksMade(n) <=> i \in 1 .. n
  BY <1>1, <1>2, <1>3, ObjectsDiffer
<1>7. \A q : Queue(q) \notin TasksMade(n)
  BY <1>2, ObjectsDiffer
<1>8. \A t \in {"Idle", "TmrSvc"} : Stack(t) \notin TasksMade(n) /\ Tcb(t) \notin TasksMade(n)
  BY <1>1, <1>2, <1>3, ObjectsDiffer
<1> QED
  BY <1>4, <1>5, <1>6, <1>7, <1>8

LEMMA OneMoreTask ==
  ASSUME NEW n \in Nat
  PROVE  TasksMade(n + 1) = TasksMade(n) \cup TaskObjects(NameOf(n + 1))
<1>1. 1 .. (n + 1) = (1 .. n) \cup {n + 1}
  OBVIOUS
<1> QED
  BY <1>1, Zenon DEF TasksMade

LEMMA QueueIsMade ==
  ASSUME NEW name, NEW bytes, xQueueCreate(name, bytes)
  PROVE  LET made == pvPortMalloc(heap, SizeOfQueue + bytes) IN
         /\ heap' = made.heap
         /\ made.at = NULL => DOMAIN objects' = DOMAIN objects
         /\ made.at # NULL => DOMAIN objects' = DOMAIN objects \cup {Queue(name)}
BY Zenon DEF xQueueCreate, Recorded

LEMMA TaskIsMade ==
  ASSUME NEW task, NEW depth, prvCreateTask(task, depth)
  PROVE  \/ DOMAIN objects' = DOMAIN objects
         \/ /\ pvPortMalloc(heap, depth * SizeOfStackType).at # NULL
            /\ DOMAIN objects' = DOMAIN objects \cup TaskObjects(task)
<1> DEFINE bytes == depth * SizeOfStackType
           stack == pvPortMalloc(heap, bytes)
           tcb   == pvPortMalloc(stack.heap, SizeOfTCB)
<1>1. CASE stack.at = NULL \/ tcb.at = NULL
  BY <1>1, Zenon DEF prvCreateTask
<1>2. CASE ~(stack.at = NULL \/ tcb.at = NULL)
  <2>1. objects' = Recorded(Recorded(objects, Stack(task), stack.at, bytes),
                            Tcb(task), tcb.at, SizeOfTCB)
    BY <1>2, Zenon DEF prvCreateTask
  <2>2. DOMAIN objects' = (DOMAIN objects \cup {Stack(task)}) \cup {Tcb(task)}
    BY <2>1, Zenon DEF Recorded
  <2> QED
    BY <1>2, <2>2 DEF TaskObjects
<1> QED
  BY <1>1, <1>2

-----------------------------------------------------------------------------
(* The invariant: what there is at each call.  Without the command queue   *)
(* the heap has no room for it, and so none for the first task.            *)

FreshHeap(h) ==
    \E b \in Nat, e, n \in Int :
        h = [first |-> b, pxEnd |-> e, xBlockSize |-> [x \in {b} |-> n],
             allocated |-> {}, free |-> <<b>>, xFreeBytesRemaining |-> n]

WithoutCommandQueue == TinyHeap(heap) /\ NoRoomFor(heap, BlockSizeFor(SizeOfQueue + Commands))

Early(n) ==
    \/ DOMAIN objects = {Queue("Fault"), Queue("Command")} \cup TasksMade(n)
    \/ n = 0 /\ DOMAIN objects = {Queue("Fault")} /\ WithoutCommandQueue

AllTasks == {Queue("Fault"), Queue("Command")} \cup TasksMade(Len(TaskConfigs))
WithIdle == AllTasks \cup TaskObjects("Idle")
WithTimer == WithIdle \cup {Queue("Timer")} \cup TaskObjects("TmrSvc")

BootInv ==
    /\ call = "fault_queue_init" => FreshHeap(heap) /\ DOMAIN objects = {}
    /\ call = "command_init" => TinyHeap(heap) /\ DOMAIN objects = {Queue("Fault")}
    /\ call \in {"event_log_init", "image_integrity_verify"} => Early(0)
    /\ call = "tasks_create_all" => \E n \in 0 .. (Len(TaskConfigs) - 1) : Early(n)
    /\ call = "prvCreateIdleTasks" => DOMAIN objects = AllTasks
    /\ call = "xTimerCreateTimerTask" => DOMAIN objects \ {Queue("Timer")} = WithIdle
    /\ call = "vTaskStateMachine" => DOMAIN objects = WithTimer
    /\ call = "running" => DOMAIN objects = WithTimer \cup {Queue("StateRequest")}

LEMMA InvGivesComplete == BootInv => RunningIsComplete
<1> SUFFICES ASSUME BootInv, call = "running"
             PROVE  /\ \A q \in {"Fault", "Command", "Timer", "StateRequest"} : Exists(Queue(q))
                    /\ \A task \in Names : TaskExists(task)
  BY DEF RunningIsComplete
<1>1. DOMAIN objects = WithTimer \cup {Queue("StateRequest")}
  BY DEF BootInv
<1>2. \A q \in {"Fault", "Command", "Timer", "StateRequest"} : Exists(Queue(q))
  BY <1>1 DEF Exists, WithTimer, WithIdle, AllTasks
<1>3. \A task \in {"Idle", "TmrSvc"} : TaskExists(task)
  BY <1>1 DEF TaskExists, Exists, WithTimer, WithIdle, TaskObjects
<1>4. ASSUME NEW i \in DOMAIN TaskConfigs
      PROVE  TaskExists(TaskConfigs[i].name)
  <2>1. Len(TaskConfigs) \in 0 .. Len(TaskConfigs) /\ i <= Len(TaskConfigs)
    BY TaskConfigsAssumption
  <2>2. {Stack(NameOf(i)), Tcb(NameOf(i))} \subseteq TasksMade(Len(TaskConfigs))
    BY <2>1, WhatIsMade
  <2> QED
    BY <1>1, <2>2 DEF TaskExists, Exists, WithTimer, WithIdle, AllTasks, NameOf
<1> QED
  BY <1>2, <1>3, <1>4 DEF Names

LEMMA HeapStartsFresh == BootInit => FreshHeap(heap)
<1> SUFFICES ASSUME BootInit
             PROVE  FreshHeap(heap)
  OBVIOUS
<1> DEFINE b == Up(build.ucHeap)
           e == Down(build.ucHeap + build.size - xHeapStructSize)
<1>1. build.ucHeap \in Nat /\ build.size \in Nat
  BY BootAssumption DEF BootInit
<1>2. b \in Nat
  BY <1>1, UpGrows
<1>3. e \in Int
  <2> DEFINE m == portBYTE_ALIGNMENT
             n == build.ucHeap + build.size - xHeapStructSize
  <2>1. m \in Nat /\ m > 0 /\ n \in Int
    BY <1>1, HeapAssumption, HeaderIsPositive
  <2> HIDE DEF m, n
  <2>2. n - (n % m) \in Int
    BY <2>1, Z3
  <2> QED
    BY <2>2 DEF Down, m, n
<1>4. heap = [first |-> b, pxEnd |-> e, xBlockSize |-> [x \in {b} |-> e - b],
              allocated |-> {}, free |-> <<b>>, xFreeBytesRemaining |-> e - b]
  BY DEF BootInit, prvHeapInit
<1> HIDE DEF b, e
<1>5. e - b \in Int
  BY <1>2, <1>3
<1> QED
  BY <1>2, <1>3, <1>4, <1>5, Zenon DEF FreshHeap

LEMMA FreshHeapStaysTiny ==
  ASSUME NEW h, FreshHeap(h), NEW size \in Nat
  PROVE  TinyHeap(pvPortMalloc(h, size).heap)
BY FirstAllocation, Zenon DEF FreshHeap

LEMMA InvHoldsInitially == BootInit => BootInv
<1> SUFFICES ASSUME BootInit
             PROVE  BootInv
  OBVIOUS
<1>1. call = "fault_queue_init" /\ DOMAIN objects = {}
  BY DEF BootInit, CallsInOrder
<1> QED
  BY <1>1, HeapStartsFresh DEF BootInv

-----------------------------------------------------------------------------
(* Every step keeps it.  *)

LEMMA StoppedKeepsInv == ASSUME call' \in Stopped PROVE BootInv'
BY DEF Stopped, BootInv

LEMMA NoTaskYet == TasksMade(0) = {}
BY DEF TasksMade

LEMMA FaultQueueInitKeeps == BootInv /\ FaultQueueInit => BootInv'
<1> SUFFICES ASSUME BootInv, FaultQueueInit
             PROVE  BootInv'
  OBVIOUS
<1> DEFINE made == pvPortMalloc(heap, SizeOfQueue + FaultEvents)
<1>1. call = "fault_queue_init" /\ FreshHeap(heap) /\ DOMAIN objects = {}
  BY DEF FaultQueueInit, BootInv
<1>2. xQueueCreate("Fault", FaultEvents)
  BY DEF FaultQueueInit
<1>3. heap' = made.heap /\ DOMAIN objects' \subseteq {Queue("Fault")}
  BY <1>1, <1>2, QueueIsMade
<1>4. TinyHeap(heap')
  <2>1. SizeOfQueue + FaultEvents \in Nat
    BY BootAssumption
  <2> QED
    BY <1>1, <1>3, <2>1, FreshHeapStaysTiny
<1>5. CASE Queue("Fault") \in DOMAIN objects'
  <2>1. call' = "command_init" /\ DOMAIN objects' = {Queue("Fault")}
    BY <1>1, <1>3, <1>5, CallsFollow DEF FaultQueueInit, Created
  <2> QED
    BY <1>4, <2>1 DEF BootInv
<1>6. CASE Queue("Fault") \notin DOMAIN objects'
  BY <1>6, StoppedKeepsInv DEF FaultQueueInit, Created, Stopped
<1> QED
  BY <1>5, <1>6

LEMMA CommandInitKeeps == BootInv /\ CommandInit => BootInv'
<1> SUFFICES ASSUME BootInv, CommandInit
             PROVE  BootInv'
  OBVIOUS
<1> DEFINE made == pvPortMalloc(heap, SizeOfQueue + Commands)
<1>1. TinyHeap(heap) /\ DOMAIN objects = {Queue("Fault")} /\ call' = "event_log_init"
  BY CallsFollow DEF CommandInit, BootInv
<1>2. xQueueCreate("Command", Commands)
  BY DEF CommandInit
<1>3. CASE made.at = NULL
  <2>1. heap' = made.heap /\ DOMAIN objects' = {Queue("Fault")}
    BY <1>1, <1>2, <1>3, QueueIsMade
  <2>2. heap' = heap /\ NoRoomFor(heap, BlockSizeFor(SizeOfQueue + Commands))
    <3>1. SizeOfQueue + Commands # 0
      BY BootAssumption
    <3> QED
      BY <1>1, <1>3, <2>1, <3>1, RefusedIsNoRoom
  <2>3. WithoutCommandQueue'
    BY <1>1, <2>2 DEF WithoutCommandQueue
  <2> QED
    BY <1>1, <2>1, <2>3 DEF BootInv, Early
<1>4. CASE made.at # NULL
  <2>1. DOMAIN objects' = {Queue("Fault"), Queue("Command")} \cup TasksMade(0)
    BY <1>1, <1>2, <1>4, QueueIsMade, NoTaskYet
  <2> QED
    BY <1>1, <2>1 DEF BootInv, Early
<1> QED
  BY <1>3, <1>4

LEMMA EarlyStays ==
  ASSUME NEW n, Early(n), UNCHANGED <<heap, objects>>
  PROVE  Early(n)'
BY DEF Early, WithoutCommandQueue

LEMMA EventLogInitKeeps == BootInv /\ EventLogInit => BootInv'
<1> SUFFICES ASSUME BootInv, EventLogInit
             PROVE  BootInv'
  OBVIOUS
<1>1. Early(0) /\ UNCHANGED <<heap, objects>> /\ call' = "image_integrity_verify"
  BY CallsFollow DEF EventLogInit, BootInv
<1>2. Early(0)'
  BY <1>1, EarlyStays
<1> QED
  BY <1>1, <1>2 DEF BootInv

LEMMA VerifyImageKeeps == BootInv /\ VerifyImage => BootInv'
<1> SUFFICES ASSUME BootInv, VerifyImage
             PROVE  BootInv'
  OBVIOUS
<1>1. Early(0) /\ UNCHANGED <<heap, objects>> /\ call' = "tasks_create_all"
  BY CallsFollow DEF VerifyImage, BootInv
<1>2. Early(0)'
  BY <1>1, EarlyStays
<1>3. 0 \in 0 .. (Len(TaskConfigs) - 1)
  BY FirstStackAssumption, TaskConfigsAssumption
<1>4. (\E n \in 0 .. (Len(TaskConfigs) - 1) : Early(n))'
  BY <1>2, <1>3
<1> QED
  BY <1>1, <1>4 DEF BootInv

(* The loop in tasks_create_all goes on with the first task there is not.  *)
LEMMA NextTaskIs ==
  ASSUME NEW n \in 0 .. (Len(TaskConfigs) - 1), Early(n)
  PROVE  /\ NextTask = n + 1
         /\ n + 1 \in DOMAIN TaskConfigs
         /\ Tcb(NameOf(n + 1)) \notin DOMAIN objects
<1>1. DOMAIN TaskConfigs = 1 .. Len(TaskConfigs) /\ Len(TaskConfigs) \in Nat
  BY TaskConfigsAssumption
<1>2. n \in 0 .. Len(TaskConfigs) /\ n + 1 \in DOMAIN TaskConfigs
  BY <1>1
<1>3. ASSUME NEW i \in DOMAIN TaskConfigs
      PROVE  /\ Stack(NameOf(i)) \in DOMAIN objects <=> i <= n
             /\ Tcb(NameOf(i)) \in DOMAIN objects <=> i <= n
  <2>1. /\ Stack(NameOf(i)) \in TasksMade(n) <=> i <= n
        /\ Tcb(NameOf(i)) \in TasksMade(n) <=> i <= n
    BY <1>2, WhatIsMade
  <2>2. /\ Stack(NameOf(i)) \notin {Queue("Fault"), Queue("Command")}
        /\ Tcb(NameOf(i)) \notin {Queue("Fault"), Queue("Command")}
    BY ObjectsDiffer
  <2>3. CASE DOMAIN objects = {Queue("Fault"), Queue("Command")} \cup TasksMade(n)
    BY <2>1, <2>2, <2>3, Zenon
  <2>4. CASE n = 0 /\ DOMAIN objects = {Queue("Fault")}
    <3>1. ~(i <= n)
      BY <1>1, <2>4
    <3> QED
      BY <2>2, <2>4, <3>1, Zenon
  <2> QED
    BY <2>3, <2>4 DEF Early
<1> DEFINE IsNext(i) == /\ i \in DOMAIN TaskConfigs
                        /\ ~TaskExists(TaskConfigs[i].name)
                        /\ \A j \in 1 .. (i - 1) : TaskExists(TaskConfigs[j].name)
<1>4. \A i \in DOMAIN TaskConfigs : TaskExists(TaskConfigs[i].name) <=> i <= n
  BY <1>3, Zenon DEF TaskExists, Exists, NameOf
<1>5. IsNext(n + 1)
  BY <1>1, <1>2, <1>4
<1>6. ASSUME NEW i, IsNext(i)
      PROVE  i = n + 1
  <2>1. i \in Nat /\ i > n
    BY <1>1, <1>4, <1>6
  <2>2. CASE i > n + 1
    <3>1. n + 1 \in 1 .. (i - 1)
      BY <2>1, <2>2
    <3>2. TaskExists(TaskConfigs[n + 1].name)
      BY <1>6, <3>1
    <3> QED
      BY <1>5, <3>2
  <2> QED
    BY <2>1, <2>2
<1>7. NextTask = n + 1
  <2> HIDE DEF IsNext
  <2>1. (CHOOSE i : IsNext(i)) = n + 1
    BY <1>5, <1>6
  <2>2. NextTask = CHOOSE i \in DOMAIN TaskConfigs : /\ ~TaskExists(TaskConfigs[i].name)
                        /\ \A j \in 1 .. (i - 1) : TaskExists(TaskConfigs[j].name)
    BY DEF NextTask
  <2> QED
    BY <1>5, <1>6, <2>2 DEF IsNext
<1>8. Tcb(NameOf(n + 1)) \notin DOMAIN objects
  BY <1>1, <1>2, <1>3
<1> QED
  BY <1>2, <1>7, <1>8

LEMMA CreateTaskKeeps == BootInv /\ CreateTask => BootInv'
<1> SUFFICES ASSUME BootInv, CreateTask
             PROVE  BootInv'
  OBVIOUS
<1>1. PICK n \in 0 .. (Len(TaskConfigs) - 1) : Early(n)
  BY DEF CreateTask, BootInv
<1> DEFINE config == TaskConfigs[n + 1]
           task == config.name
<1>2. NextTask = n + 1 /\ n + 1 \in DOMAIN TaskConfigs /\ Tcb(task) \notin DOMAIN objects
  BY <1>1, NextTaskIs DEF NameOf
<1>3. /\ prvCreateTask(task, config.stack_size)
      /\ call' = IF ~CreationSucceeded(task) THEN "system_halt"
                 ELSE IF ~IsLastTask(n + 1) THEN call
                 ELSE IF DEBUG /\ ~TaskExists("Idle") THEN "configASSERT"
                 ELSE Following
  BY <1>2, Zenon DEF CreateTask
<1>4. CASE DOMAIN objects' = DOMAIN objects
  <2>1. ~CreationSucceeded(task)
    BY <1>2, <1>4, Zenon DEF CreationSucceeded, Created
  <2> QED
    BY <1>3, <2>1, StoppedKeepsInv DEF Stopped
<1>5. CASE /\ pvPortMalloc(heap, config.stack_size * SizeOfStackType).at # NULL
           /\ DOMAIN objects' = DOMAIN objects \cup TaskObjects(task)
  <2>1. ~(n = 0 /\ WithoutCommandQueue)
    <3> SUFFICES ASSUME n = 0, WithoutCommandQueue
                 PROVE  FALSE
      OBVIOUS
    <3> DEFINE stack == config.stack_size * SizeOfStackType
               queue == SizeOfQueue + Commands
    <3>1. queue \in Nat /\ stack \in Nat /\ queue <= stack
      <4>1. SizeOfQueue \in Nat /\ Commands \in Nat /\ SizeOfStackType \in Nat
        BY BootAssumption
      <4>2. config.stack_size \in Nat /\ config = TaskConfigs[1]
        <5> DEFINE Config == [name : STRING, stack_size : Nat \ {0}]
        <5>1. TaskConfigs[n + 1] \in Config
          <6>1. TaskConfigs \in Seq(Config)
            BY TaskConfigsAssumption
          <6> HIDE DEF Config
          <6> QED
            BY <1>2, <6>1
        <5>2. TaskConfigs[n + 1] = TaskConfigs[1]
          OBVIOUS
        <5> QED
          BY <5>1, <5>2
      <4>3. stack \in Nat
        BY <4>1, <4>2
      <4> QED
        BY <4>1, <4>2, <4>3, FirstStackAssumption
    <3> HIDE DEF stack, queue
    <3>2. BlockSizeFor(queue) \in Nat /\ BlockSizeFor(stack) \in Nat
          /\ BlockSizeFor(queue) <= BlockSizeFor(stack)
      BY <3>1, BlockSizeGrows
    <3>3. TinyHeap(heap) /\ NoRoomFor(heap, BlockSizeFor(queue))
      BY DEF WithoutCommandQueue, queue
    <3>4. NoRoomFor(heap, BlockSizeFor(stack))
      BY <3>2, <3>3, NoRoomGrows
    <3>5. pvPortMalloc(heap, stack).at = NULL
      BY <3>4, NoRoomIsRefused
    <3> QED
      BY <1>5, <3>5 DEF stack
  <2>2. DOMAIN objects' = {Queue("Fault"), Queue("Command")} \cup TasksMade(n + 1)
    <3>1. DOMAIN objects = {Queue("Fault"), Queue("Command")} \cup TasksMade(n)
      BY <1>1, <2>1 DEF Early
    <3>2. TasksMade(n + 1) = TasksMade(n) \cup TaskObjects(task)
      BY <1>1, OneMoreTask DEF NameOf
    <3> QED
      BY <1>5, <3>1, <3>2
  <2>3. CreationSucceeded(task)
    BY <1>5 DEF CreationSucceeded, Created, TaskObjects
  <2>4. Len(TaskConfigs) \in Nat
    BY TaskConfigsAssumption
  <2>5. CASE ~IsLastTask(n + 1)
    <3>1. call' = "tasks_create_all"
      BY <1>3, <2>3, <2>5 DEF CreateTask
    <3>2. n + 1 \in 0 .. (Len(TaskConfigs) - 1)
      BY <1>1, <2>4, <2>5 DEF IsLastTask
    <3>3. (\E k \in 0 .. (Len(TaskConfigs) - 1) : Early(k))'
      BY <2>2, <3>2 DEF Early
    <3> QED
      BY <3>1, <3>3 DEF BootInv
  <2>6. CASE IsLastTask(n + 1)
    <3>1. DOMAIN objects' = AllTasks
      BY <2>2, <2>6 DEF AllTasks, IsLastTask
    <3>2. call' = "prvCreateIdleTasks" \/ call' \in Stopped
      BY <1>3, <2>3, <2>6, CallsFollow DEF CreateTask, Stopped
    <3> QED
      BY <3>1, <3>2, StoppedKeepsInv DEF BootInv, AllTasks
  <2> QED
    BY <2>5, <2>6
<1> QED
  BY <1>3, <1>4, <1>5, TaskIsMade

LEMMA CreateIdleTaskKeeps == BootInv /\ CreateIdleTask => BootInv'
<1> SUFFICES ASSUME BootInv, CreateIdleTask
             PROVE  BootInv'
  OBVIOUS
<1>1. /\ DOMAIN objects = AllTasks
      /\ prvCreateTask("Idle", KernelStack)
      /\ call' = IF CreationSucceeded("Idle") THEN "xTimerCreateTimerTask" ELSE "configASSERT"
  BY CallsFollow DEF CreateIdleTask, BootInv
<1>2. Tcb("Idle") \notin AllTasks /\ Queue("Timer") \notin WithIdle
  <2>1. Len(TaskConfigs) \in 0 .. Len(TaskConfigs)
    BY TaskConfigsAssumption
  <2>2. Tcb("Idle") \notin TasksMade(Len(TaskConfigs))
        /\ Queue("Timer") \notin TasksMade(Len(TaskConfigs))
    BY <2>1, WhatIsMade
  <2> QED
    BY <2>2, ObjectsDiffer DEF AllTasks, WithIdle, TaskObjects
<1>3. CASE DOMAIN objects' = DOMAIN objects
  BY <1>1, <1>2, <1>3, StoppedKeepsInv DEF CreationSucceeded, Created, Stopped
<1>4. CASE DOMAIN objects' = DOMAIN objects \cup TaskObjects("Idle")
  <2>1. call' = "xTimerCreateTimerTask"
    BY <1>1, <1>4 DEF CreationSucceeded, Created, TaskObjects
  <2>2. DOMAIN objects' \ {Queue("Timer")} = WithIdle
    BY <1>1, <1>2, <1>4, Zenon DEF WithIdle
  <2> QED
    BY <2>1, <2>2 DEF BootInv, WithIdle, AllTasks
<1> QED
  BY <1>1, <1>3, <1>4, TaskIsMade

LEMMA CreateTimerQueueKeeps == BootInv /\ CreateTimerQueue => BootInv'
<1> SUFFICES ASSUME BootInv, CreateTimerQueue
             PROVE  BootInv'
  OBVIOUS
<1>1. /\ DOMAIN objects \ {Queue("Timer")} = WithIdle
      /\ xQueueCreate("Timer", TimerCommands)
      /\ call' = "xTimerCreateTimerTask" \/ call' \in Stopped
  BY DEF CreateTimerQueue, BootInv, Stopped
<1>2. DOMAIN objects' = DOMAIN objects \/ DOMAIN objects' = DOMAIN objects \cup {Queue("Timer")}
  BY <1>1, QueueIsMade
<1>3. DOMAIN objects' \ {Queue("Timer")} = WithIdle
  BY <1>1, <1>2, Zenon
<1>4. CASE call' = "xTimerCreateTimerTask"
  BY <1>3, <1>4 DEF BootInv, WithIdle, AllTasks
<1> QED
  BY <1>1, <1>4, StoppedKeepsInv

LEMMA CreateTimerTaskKeeps == BootInv /\ CreateTimerTask => BootInv'
<1> SUFFICES ASSUME BootInv, CreateTimerTask
             PROVE  BootInv'
  OBVIOUS
<1>1. /\ DOMAIN objects \ {Queue("Timer")} = WithIdle
      /\ Queue("Timer") \in DOMAIN objects
      /\ prvCreateTask("TmrSvc", KernelStack)
      /\ call' = IF CreationSucceeded("TmrSvc") THEN "vTaskStateMachine" ELSE "configASSERT"
  BY CallsFollow DEF CreateTimerTask, BootInv, Exists
<1>2. DOMAIN objects = WithIdle \cup {Queue("Timer")}
  BY <1>1, Zenon
<1>3. Tcb("TmrSvc") \notin DOMAIN objects
  <2>1. Len(TaskConfigs) \in 0 .. Len(TaskConfigs)
    BY TaskConfigsAssumption
  <2>2. Tcb("TmrSvc") \notin TasksMade(Len(TaskConfigs))
    BY <2>1, WhatIsMade
  <2>3. Tcb("TmrSvc") \notin TaskObjects("Idle")
    BY DEF TaskObjects, Tcb, Stack
  <2> QED
    BY <1>2, <2>2, <2>3, ObjectsDiffer DEF AllTasks, WithIdle
<1>4. CASE DOMAIN objects' = DOMAIN objects
  BY <1>1, <1>3, <1>4, StoppedKeepsInv DEF CreationSucceeded, Created, Stopped
<1>5. CASE DOMAIN objects' = DOMAIN objects \cup TaskObjects("TmrSvc")
  <2>1. call' = "vTaskStateMachine"
    BY <1>1, <1>5 DEF CreationSucceeded, Created, TaskObjects
  <2>2. DOMAIN objects' = WithTimer
    BY <1>2, <1>5, Zenon DEF WithTimer
  <2> QED
    BY <2>1, <2>2 DEF BootInv, WithTimer, WithIdle, AllTasks
<1> QED
  BY <1>1, <1>4, <1>5, TaskIsMade

LEMMA StateMachineStartsKeeps == BootInv /\ StateMachineStarts => BootInv'
<1> SUFFICES ASSUME BootInv, StateMachineStarts
             PROVE  BootInv'
  OBVIOUS
<1>1. /\ DOMAIN objects = WithTimer
      /\ xQueueCreate("StateRequest", StateRequestsSize)
      /\ call' = IF Created(Queue("StateRequest")) THEN "running" ELSE "configASSERT"
  BY CallsFollow DEF StateMachineStarts, BootInv
<1>2. CASE Queue("StateRequest") \in DOMAIN objects'
  <2>1. DOMAIN objects' = WithTimer \cup {Queue("StateRequest")}
    BY <1>1, <1>2, QueueIsMade, Zenon
  <2> QED
    BY <1>1, <1>2, <2>1 DEF BootInv, Created, WithTimer, WithIdle, AllTasks
<1>3. CASE Queue("StateRequest") \notin DOMAIN objects'
  BY <1>1, <1>3, StoppedKeepsInv DEF Created, Stopped
<1> QED
  BY <1>2, <1>3

LEMMA StutterKeeps == BootInv /\ UNCHANGED bootVars => BootInv'
BY DEF BootInv, bootVars, Early, WithoutCommandQueue, WithTimer, WithIdle, AllTasks

LEMMA BootStepKeepsInv == BootInv /\ [BootNext]_<<vars, bootVars>> => BootInv'
<1> SUFFICES ASSUME BootInv, [BootNext]_<<vars, bootVars>>
             PROVE  BootInv'
  OBVIOUS
<1>1. CASE BeforePowerOn
  BY <1>1, StutterKeeps DEF BeforePowerOn
<1>2. CASE FaultQueueInit \/ CommandInit \/ EventLogInit \/ VerifyImage
  BY <1>2, FaultQueueInitKeeps, CommandInitKeeps, EventLogInitKeeps, VerifyImageKeeps
<1>3. CASE CreateTask
  BY <1>3, CreateTaskKeeps
<1>4. CASE CreateIdleTask \/ CreateTimerQueue \/ CreateTimerTask
  BY <1>4, CreateIdleTaskKeeps, CreateTimerQueueKeeps, CreateTimerTaskKeeps
<1>5. CASE StateMachineStarts
  BY <1>5, StateMachineStartsKeeps
<1>6. CASE UNCHANGED <<vars, bootVars>>
  BY <1>6, StutterKeeps
<1> QED
  BY <1>1, <1>2, <1>3, <1>4, <1>5, <1>6 DEF BootNext, BootStep

(* A system that runs has all of its queues and tasks, whatever the sizes  *)
(* of the heap and of what is put into it: main does not look whether the  *)
(* command queue was created (src/main.c:29), but the first task's stack   *)
(* does not fit where that queue did not, and main halts without a task.   *)
THEOREM WhatRunsIsComplete == BootSpec => []RunningIsComplete
BY BootStepKeepsInv, InvHoldsInitially, InvGivesComplete, PTL DEF BootSpec

-----------------------------------------------------------------------------
(* The folds of the CRC, with the facts of Folding.  *)

ByteFold == INSTANCE Folding WITH op <- UpdateByte
ShiftFold == INSTANCE Folding WITH op <- Shift

LEMMA FoldsAreFolds ==
  /\ \A base, seq : ByteFold!FoldLeft(UpdateByte, base, seq) = FoldLeft(UpdateByte, base, seq)
  /\ \A base, seq : ShiftFold!FoldLeft(Shift, base, seq) = FoldLeft(Shift, base, seq)
<1>1. \A base, seq : ByteFold!FoldLeft(UpdateByte, base, seq) = FoldLeft(UpdateByte, base, seq)
  BY DEF ByteFold!FoldLeft, ByteFold!MapThenFoldSet, ByteFold!Max, FoldLeft, MapThenFoldSet, Max
<1>2. \A base, seq : ShiftFold!FoldLeft(Shift, base, seq) = FoldLeft(Shift, base, seq)
  BY DEF ShiftFold!FoldLeft, ShiftFold!MapThenFoldSet, ShiftFold!Max, FoldLeft, MapThenFoldSet, Max
<1> QED
  BY <1>1, <1>2

-----------------------------------------------------------------------------
(* The arithmetic of bits, bytes and words.  *)
LEMMA WordIsBytes ==
  /\ BitsPerByte \in Nat /\ BitsPerByte > 0 /\ Width \in Nat /\ Width > 0
  /\ Size \in Nat /\ Size > 0
  /\ SlotBytes \in Nat /\ SlotBytes > 0 /\ SlotBytes * BitsPerByte = Width
  /\ BitsPerByte <= Width
<1> DEFINE w == Width
           m == BitsPerByte
<1>1. w \in Nat /\ w > 0 /\ m \in Nat /\ m > 0 /\ w % m = 0 /\ Size \in Nat /\ Size > 0
  BY ImageAssumption
<1> HIDE DEF w, m
<1>2. w = m * (w \div m) + (w % m) /\ w \div m \in Nat
  BY <1>1, Z3
<1>3. (w \div m) * m = w
  BY <1>1, <1>2, Z3
<1>4. w \div m > 0
  BY <1>1, <1>2, <1>3, Z3
<1>5. m <= w
  BY <1>1, <1>2, <1>3, <1>4, Z3
<1> QED
  BY <1>1, <1>2, <1>3, <1>4, <1>5 DEF w, m, SlotBytes

LEMMA ShiftStaysInWord ==
  ASSUME NEW crc \in SUBSET Word, NEW i
  PROVE  Shift(crc, i) \in SUBSET Word
<1>1. Width \in Nat /\ CRC32_POLY \subseteq Word
  BY ImageAssumption DEF Word
<1>2. {b - 1 : b \in crc \ {0}} \subseteq Word
  BY <1>1 DEF Word
<1> QED
  BY <1>1, <1>2 DEF Shift, Xor

LEMMA UpdateByteStaysInWord ==
  ASSUME NEW crc \in SUBSET Word, NEW byte \in SUBSET (0 .. (BitsPerByte - 1))
  PROVE  UpdateByte(crc, byte) \in SUBSET Word
<1> DEFINE rounds == [i \in 1 .. BitsPerByte |-> i]
           start == Xor(crc, byte)
<1>1. start \in SUBSET Word
  BY WordIsBytes DEF Xor, Word
<1>2. DOMAIN rounds = 1 .. BitsPerByte /\ BitsPerByte \in Nat
  BY WordIsBytes
<1>3. \A v \in SUBSET Word, m \in 1 .. BitsPerByte : Shift(v, rounds[m]) \in SUBSET Word
  BY ShiftStaysInWord
<1> HIDE DEF rounds, start
<1>4. ShiftFold!FoldLeft(Shift, start, rounds) \in SUBSET Word
  BY <1>1, <1>2, <1>3, ShiftFold!FoldLeftStays
<1>5. FoldLeft(Shift, start, rounds) \in SUBSET Word
  BY <1>4, FoldsAreFolds
<1> QED
  BY <1>5 DEF UpdateByte, rounds, start

Bytes == SUBSET (0 .. (BitsPerByte - 1))

LEMMA CrcStaysInWord ==
  ASSUME NEW crc \in SUBSET Word, NEW data \in Seq(Bytes)
  PROVE  crc32_update(crc, data) \in SUBSET Word
<1>1. DOMAIN data = 1 .. Len(data) /\ Len(data) \in Nat
      /\ \A m \in 1 .. Len(data) : data[m] \in Bytes
  OBVIOUS
<1>2. \A v \in SUBSET Word, m \in 1 .. Len(data) : UpdateByte(v, data[m]) \in SUBSET Word
  BY <1>1, UpdateByteStaysInWord DEF Bytes
<1>3. ByteFold!FoldLeft(UpdateByte, crc, data) \in SUBSET Word
  BY <1>1, <1>2, ByteFold!FoldLeftStays
<1> QED
  BY <1>3, FoldsAreFolds DEF crc32_update

(* A CRC over two pieces one after the other is that over the whole.  *)
LEMMA CrcGoesOn ==
  ASSUME NEW crc, NEW s \in Seq(Bytes), NEW t \in Seq(Bytes)
  PROVE  crc32_update(crc, s \o t) = crc32_update(crc32_update(crc, s), t)
<1>1. ByteFold!FoldLeft(UpdateByte, crc, s \o t)
        = ByteFold!FoldLeft(UpdateByte, ByteFold!FoldLeft(UpdateByte, crc, s), t)
  BY ByteFold!FoldLeftConcatenation
<1> QED
  BY <1>1, FoldsAreFolds, Zenon DEF crc32_update

LEMMA BytesAreBytes ==
  ASSUME NEW bits, NEW first \in Nat, NEW last \in Nat, first <= last
  PROVE  BytesOf(bits, first, last) \in Seq(Bytes)
<1>1. last - first \in Nat
  OBVIOUS
<1> DEFINE byte(i) == {b \in 0 .. (BitsPerByte - 1) : (first + i - 1) * BitsPerByte + b \in bits}
           n == last - first
<1>2. \A i \in 1 .. n : byte(i) \in Bytes
  BY DEF Bytes
<1>3. BytesOf(bits, first, last) = [i \in 1 .. n |-> byte(i)]
  BY DEF BytesOf
<1> HIDE DEF byte, n
<1>4. [i \in 1 .. n |-> byte(i)] \in [1 .. n -> Bytes]
  BY <1>2
<1>5. n \in Nat
  BY <1>1 DEF n
<1> QED
  BY <1>3, <1>4, <1>5

(* What the script stores, for any contents of the image.  *)
DigestOf(bits, at) ==
    crc32_ieee(BytesOf(bits, 0, at) \o BytesOf(bits, at + SlotBytes, Size))
IsSlot(at) == at \in Nat /\ at + SlotBytes <= Size

LEMMA DigestIsWord ==
  ASSUME NEW bits, NEW at, IsSlot(at)
  PROVE  DigestOf(bits, at) \in SUBSET Word
<1> DEFINE data == BytesOf(bits, 0, at) \o BytesOf(bits, at + SlotBytes, Size)
<1>1. BytesOf(bits, 0, at) \in Seq(Bytes) /\ BytesOf(bits, at + SlotBytes, Size) \in Seq(Bytes)
  BY WordIsBytes, BytesAreBytes DEF IsSlot
<1>2. data \in Seq(Bytes)
  BY <1>1
<1> HIDE DEF data
<1>3. crc32_update(CRC32_INIT, data) \in SUBSET Word
  BY <1>2, CrcStaysInWord DEF CRC32_INIT
<1>4. DigestOf(bits, at) = Xor(crc32_update(CRC32_INIT, data), CRC32_INIT)
  BY DEF DigestOf, crc32_ieee, crc32_update, data
<1> QED
  BY <1>3, <1>4 DEF Xor, CRC32_INIT

(* The firmware's CRC round the slot is the script's in one piece.  *)
LEMMA FirmwareAgreesWithScript ==
  ASSUME IsSlot(slot)
  PROVE  CrcRegion(0, slot, Size) = DigestOf(image, slot)
<1> DEFINE s == BytesOf(image, 0, slot)
           t == BytesOf(image, slot + SlotBytes, Size)
<1>1. s \in Seq(Bytes) /\ t \in Seq(Bytes)
  BY WordIsBytes, BytesAreBytes DEF IsSlot
<1>2. ~(slot < 0 \/ Size < slot \/ slot + SlotBytes > Size)
  BY WordIsBytes DEF IsSlot
<1>3. CrcRegion(0, slot, Size)
        = Xor(crc32_update(crc32_update(CRC32_INIT, s), t), CRC32_INIT)
  BY <1>2 DEF CrcRegion
<1>4. DigestOf(image, slot) = Xor(crc32_update(CRC32_INIT, s \o t), CRC32_INIT)
  BY DEF DigestOf, crc32_ieee, crc32_update
<1> HIDE DEF s, t
<1> QED
  BY <1>1, <1>3, <1>4, CrcGoesOn

(* What is outside of the slot decides the digest.  *)
LEMMA BytesDependOnBits ==
  ASSUME NEW a, NEW b, NEW first \in Nat, NEW last \in Nat,
         \A n \in Nat : first * BitsPerByte <= n /\ n < last * BitsPerByte => (n \in a <=> n \in b)
  PROVE  BytesOf(a, first, last) = BytesOf(b, first, last)
<1>1. ASSUME NEW i \in 1 .. (last - first), NEW c \in 0 .. (BitsPerByte - 1)
      PROVE  (first + i - 1) * BitsPerByte + c \in a <=> (first + i - 1) * BitsPerByte + c \in b
  <2> DEFINE m == BitsPerByte
             at == first + i - 1
  <2>1. m \in Nat /\ at \in Nat /\ c \in Nat /\ c < m /\ first <= at /\ at + 1 <= last
    BY WordIsBytes
  <2> HIDE DEF m, at
  <2>2. first * m <= at * m /\ (at + 1) * m <= last * m
    BY <2>1, Z3
  <2>3. at * m \in Nat /\ at * m + c < (at + 1) * m
    BY <2>1, Z3
  <2>4. at * m + c \in Nat /\ first * m \in Nat /\ last * m \in Nat
    BY <2>1, <2>3, Z3
  <2>5. first * m <= at * m + c /\ at * m + c < last * m
    <3> DEFINE p == at * m
               q == first * m
               r == last * m
               u == (at + 1) * m
    <3>1. p \in Nat /\ q \in Nat /\ r \in Nat /\ u \in Nat
      BY <2>1, <2>3, <2>4, Z3
    <3>2. q <= p /\ u <= r /\ p + c < u
      BY <2>2, <2>3
    <3> HIDE DEF p, q, r, u
    <3>3. q <= p + c /\ p + c < r
      BY <2>1, <3>1, <3>2
    <3> QED
      BY <3>3 DEF p, q, r
  <2> QED
    BY <2>4, <2>5 DEF m, at
<1>2. \A i \in 1 .. (last - first) :
        {c \in 0 .. (BitsPerByte - 1) : (first + i - 1) * BitsPerByte + c \in a}
          = {c \in 0 .. (BitsPerByte - 1) : (first + i - 1) * BitsPerByte + c \in b}
  BY <1>1
<1> QED
  BY <1>2 DEF BytesOf

LEMMA SlotIsWord ==
  ASSUME NEW at \in Nat
  PROVE  /\ at * BitsPerByte \in Nat
         /\ SlotBits(at) = at * BitsPerByte .. at * BitsPerByte + Width - 1
         /\ (at + SlotBytes) * BitsPerByte = at * BitsPerByte + Width
<1> DEFINE m == BitsPerByte
           w == Width
           k == SlotBytes
<1>1. m \in Nat /\ w \in Nat /\ k \in Nat /\ k * m = w
  BY WordIsBytes
<1> HIDE DEF m, w, k
<1>2. at * m \in Nat /\ (at + k) * m = at * m + w
  BY <1>1, Z3
<1>3. SlotBits(at) = at * m .. at * m + w - 1
  <2> DEFINE p == at * m
             r == (at + k) * m
  <2>1. SlotBits(at) = p .. r - 1 /\ r = p + w
    BY <1>2, Zenon DEF SlotBits, m, k
  <2>0. p \in Nat
    BY <1>2
  <2> HIDE DEF p, r
  <2>2. SlotBits(at) = p .. (p + w) - 1
    BY <2>1, Zenon
  <2>3. (p + w) - 1 = p + w - 1
    BY <1>1, <2>0
  <2>4. SlotBits(at) = p .. p + w - 1
    BY <2>2, <2>3, Zenon
  <2> QED
    BY <2>4, Zenon DEF p
<1> QED
  BY <1>2, <1>3 DEF m, w, k

LEMMA SlotDoesNotMatter ==
  ASSUME NEW a, NEW b, NEW at, IsSlot(at), \A n \in Nat \ SlotBits(at) : n \in a <=> n \in b
  PROVE  DigestOf(a, at) = DigestOf(b, at)
<1> DEFINE p == at * BitsPerByte
           r == (at + SlotBytes) * BitsPerByte
           z == Size * BitsPerByte
<1>1. /\ at \in Nat /\ p \in Nat /\ Width \in Nat /\ Width > 0 /\ r = p + Width
      /\ SlotBits(at) = p .. p + Width - 1
  BY WordIsBytes, SlotIsWord DEF IsSlot
<1>2. at + SlotBytes \in Nat /\ Size \in Nat /\ 0 * BitsPerByte = 0
  BY WordIsBytes DEF IsSlot
<1> HIDE DEF p, r
<1>3. \A n \in Nat : n < p => (n \in a <=> n \in b)
  BY <1>1
<1>4. \A n \in Nat : r <= n => (n \in a <=> n \in b)
  BY <1>1
<1>5. BytesOf(a, 0, at) = BytesOf(b, 0, at)
  BY <1>1, <1>2, <1>3, BytesDependOnBits DEF p
<1>6. BytesOf(a, at + SlotBytes, Size) = BytesOf(b, at + SlotBytes, Size)
  BY <1>1, <1>2, <1>4, BytesDependOnBits DEF r
<1> QED
  BY <1>5, <1>6 DEF DigestOf

-----------------------------------------------------------------------------
(* What the slot says in each phase.  *)

ImageInv ==
    /\ IsSlot(slot)
    /\ phase = "linked" => ~patched /\ damage = {} /\ image \cap SlotBits(slot) = {}
    /\ phase = "patched" => patched /\ damage = {} /\ WordAt(slot) = DigestOf(image, slot)
    /\ phase = "damaged" => damage # {}
    /\ phase \in {"linked", "patched", "damaged", "booted"}
    /\ IntactIsAccepted

LEMMA ImageInvHoldsInitially == Init => ImageInv
<1> SUFFICES ASSUME Init
             PROVE  ImageInv
  OBVIOUS
<1>1. IsSlot(slot)
  BY ImageAssumption, WordIsBytes DEF Init, IsSlot
<1>2. image \cap SlotBits(slot) = {}
  BY DEF Init
<1> QED
  BY <1>1, <1>2 DEF Init, ImageInv, IntactIsAccepted

LEMMA PatchKernelKeepsInv == ImageInv /\ PatchKernel => ImageInv'
<1> SUFFICES ASSUME ImageInv, PatchKernel
             PROVE  ImageInv'
  OBVIOUS
<1> DEFINE p == slot * BitsPerByte
<1>1. /\ IsSlot(slot) /\ slot' = slot /\ patched' /\ phase' = "patched" /\ damage' = {}
      /\ slot \in Nat
  BY DEF ImageInv, PatchKernel, IsSlot
<1>2. p \in Nat /\ Width \in Nat /\ SlotBits(slot) = p .. p + Width - 1
  BY <1>1, SlotIsWord, WordIsBytes
<1>3. Digest = DigestOf(image, slot)
  BY DEF Digest, DigestOf
<1>4. Digest \subseteq Word
  BY <1>1, <1>3, DigestIsWord
<1>5. image' = (image \ SlotBits(slot)) \cup {p + b : b \in Digest}
  BY DEF PatchKernel
<1> HIDE DEF p
<1>6. \A n \in Nat \ SlotBits(slot) : n \in image <=> n \in image'
  BY <1>2, <1>4, <1>5 DEF Word
<1>7. DigestOf(image', slot) = Digest
  BY <1>1, <1>3, <1>6, SlotDoesNotMatter
<1>8. {b \in Word : p + b \in image'} = Digest
  <2>1. ASSUME NEW b \in Word
        PROVE  p + b \in image' <=> b \in Digest
    <3>1. p + b \in SlotBits(slot)
      BY <1>2 DEF Word
    <3>2. \A c \in Digest : p + c = p + b => c = b
      BY <1>2, <1>4 DEF Word
    <3> QED
      BY <1>5, <3>1, <3>2
  <2> QED
    BY <1>4, <2>1
<1>9. WordAt(slot)' = DigestOf(image, slot)'
  BY <1>1, <1>7, <1>8 DEF WordAt, p
<1> QED
  BY <1>1, <1>9 DEF ImageInv, IntactIsAccepted

LEMMA DamageKeepsInv ==
  ASSUME NEW bits \in Bursts \cup Pairs
  PROVE  ImageInv /\ Damage(bits) => ImageInv'
<1> SUFFICES ASSUME ImageInv, Damage(bits)
             PROVE  ImageInv'
  OBVIOUS
<1>1. bits # {}
  BY DEF Bursts, Pairs
<1> QED
  BY <1>1 DEF ImageInv, Damage, IntactIsAccepted, IsSlot

LEMMA VerifyKeepsInv == ImageInv /\ Verify => ImageInv'
<1> SUFFICES ASSUME ImageInv, Verify
             PROVE  ImageInv'
  OBVIOUS
<1>1. IsSlot(slot) /\ UNCHANGED <<image, slot, patched, damage>> /\ phase' = "booted"
  BY DEF ImageInv, Verify
<1>2. IntactIsAccepted'
  <2> SUFFICES ASSUME damage = {}
               PROVE  image_integrity_ok' <=> patched /\ image_integrity_computed' # {}
    BY <1>1 DEF IntactIsAccepted
  <2>1. /\ image_integrity_expected' = WordAt(slot)
        /\ image_integrity_computed' = DigestOf(image, slot)
        /\ image_integrity_ok' <=> image_integrity_expected' # {}
                                   /\ image_integrity_computed' = image_integrity_expected'
    BY <1>1, FirmwareAgreesWithScript DEF Verify, IsAccepted
  <2>2. CASE phase = "linked"
    <3>1. WordAt(slot) = {}
      <4>1. \A b \in Word : slot * BitsPerByte + b \in SlotBits(slot)
        <5> DEFINE p == slot * BitsPerByte
        <5>1. p \in Nat /\ Width \in Nat /\ SlotBits(slot) = p .. p + Width - 1
          BY <1>1, SlotIsWord, WordIsBytes DEF IsSlot
        <5> HIDE DEF p
        <5>2. \A b \in Word : p + b \in SlotBits(slot)
          BY <5>1 DEF Word
        <5> QED
          BY <5>2 DEF p
      <4> QED
        BY <2>2, <4>1 DEF ImageInv, WordAt
    <3> QED
      BY <2>1, <2>2, <3>1 DEF ImageInv
  <2>3. CASE phase = "patched"
    BY <2>1, <2>3 DEF ImageInv
  <2>4. phase = "linked" \/ phase = "patched"
    BY DEF ImageInv, Verify
  <2> QED
    BY <2>2, <2>3, <2>4
<1> QED
  BY <1>1, <1>2 DEF ImageInv, IsSlot

LEMMA ImageStepKeepsInv == ImageInv /\ [Next]_vars => ImageInv'
<1> SUFFICES ASSUME ImageInv, [Next]_vars
             PROVE  ImageInv'
  OBVIOUS
<1>1. CASE UNCHANGED vars
  BY <1>1 DEF ImageInv, vars, verdict, IsSlot, IntactIsAccepted, WordAt, DigestOf
<1>2. CASE Next
  BY <1>2, PatchKernelKeepsInv, DamageKeepsInv, VerifyKeepsInv DEF Next
<1> QED
  BY <1>1, <1>2

LEMMA BootChecksImage == BootSpec => Spec
<1>1. BootInit => Init
  BY DEF BootInit
<1>2. [BootNext]_<<vars, bootVars>> => [Next]_vars
  BY DEF BootNext, BeforePowerOn, BootStep, FaultQueueInit, CommandInit, EventLogInit,
         VerifyImage, CreateTask, CreateIdleTask, CreateTimerQueue, CreateTimerTask,
         StateMachineStarts, Next
<1> QED
  BY <1>1, <1>2, PTL DEF BootSpec, Spec

(* An undamaged image is accepted exactly when the build has patched it    *)
(* and its digest is not 0: image_integrity_verify, which goes round the   *)
(* CRC slot in two pieces (src/image_integrity.c), always agrees with      *)
(* scripts/patch_image_crc.py, which goes over the bytes joined, whatever  *)
(* the polynomial, the width, the size of the image and the place of the   *)
(* slot.                                                                   *)
THEOREM IntactImageIsAccepted == BootSpec => []IntactIsAccepted
<1>1. ImageInv => IntactIsAccepted
  BY DEF ImageInv
<1> QED
  BY <1>1, ImageInvHoldsInitially, ImageStepKeepsInv, BootChecksImage, PTL DEF Spec

-----------------------------------------------------------------------------
(* The mode and the log follow the verdict, and the verdict stays.         *)

EarlyLog(ok) == IF ok THEN << <<"BOOT">> >> ELSE << <<"BOOT">>, <<"IMAGE_CRC_FAIL">> >>
VerifiedCalls == {"tasks_create_all", "prvCreateIdleTasks", "xTimerCreateTimerTask",
                  "vTaskStateMachine"}

VerdictInv ==
    /\ call \in {"fault_queue_init", "command_init", "event_log_init"} => gSystemState = BOOT
    /\ call = "image_integrity_verify" => gSystemState = BOOT /\ log = << <<"BOOT">> >>
    /\ call \in VerifiedCalls =>
           /\ gSystemState = BOOT
           /\ phase = "booted"
           /\ image_integrity_ok \in BOOLEAN
           /\ log = EarlyLog(image_integrity_ok)
    /\ gSystemState # BOOT =>
           /\ call \in {"running", "configASSERT"}
           /\ phase = "booted"
           /\ image_integrity_ok \in BOOLEAN
           /\ gSystemState = IF image_integrity_ok THEN NOMINAL ELSE DEGRADED
           /\ log = Append(EarlyLog(image_integrity_ok), <<"STATE_CHANGE", BOOT, gSystemState>>)

LEMMA Appended ==
  ASSUME NEW a, NEW b, NEW c
  PROVE  Append(<<a>>, b) = <<a, b>> /\ Append(<<a, b>>, c) = <<a, b, c>>
<1>1. PICK E : a \in E /\ b \in E /\ c \in E
  <2> WITNESS {a, b, c}
  <2> QED
    OBVIOUS
<1>2. Append(<<a>>, b) = <<a, b>>
  <2> DEFINE s == Append(<<a>>, b)
             t == <<a, b>>
  <2>1. s \in Seq(E) /\ t \in Seq(E) /\ Len(s) = 2 /\ Len(t) = 2 /\ \A i \in 1 .. 2 : s[i] = t[i]
    BY <1>1
  <2> HIDE DEF s, t
  <2>2. Len(s) = Len(t) /\ \A i \in 1 .. Len(s) : s[i] = t[i]
    BY <2>1
  <2>3. s = t
    BY <2>1, <2>2, SeqEqual, Zenon
  <2> QED
    BY <2>3 DEF s, t
<1>3. Append(<<a, b>>, c) = <<a, b, c>>
  <2> DEFINE s == Append(<<a, b>>, c)
             t == <<a, b, c>>
  <2>1. s \in Seq(E) /\ t \in Seq(E) /\ Len(s) = 3 /\ Len(t) = 3 /\ \A i \in 1 .. 3 : s[i] = t[i]
    BY <1>1
  <2> HIDE DEF s, t
  <2>2. Len(s) = Len(t) /\ \A i \in 1 .. Len(s) : s[i] = t[i]
    BY <2>1
  <2>3. s = t
    BY <2>1, <2>2, SeqEqual, Zenon
  <2> QED
    BY <2>3 DEF s, t
<1> QED
  BY <1>2, <1>3

LEMMA VerdictHoldsInitially == BootInit => VerdictInv
BY DEF BootInit, CallsInOrder, VerdictInv, VerifiedCalls

LEMMA VerdictIsKept == VerdictInv /\ [BootNext]_<<vars, bootVars>> => VerdictInv'
<1> SUFFICES ASSUME VerdictInv, [BootNext]_<<vars, bootVars>>
             PROVE  VerdictInv'
  OBVIOUS
<1>1. CASE BeforePowerOn
  <2>1. UNCHANGED <<call, gSystemState>> /\ call = "fault_queue_init"
    BY <1>1 DEF BeforePowerOn, bootVars, CallsInOrder
  <2> QED
    BY <2>1 DEF VerdictInv, VerifiedCalls
<1>2. CASE FaultQueueInit \/ CommandInit
  <2>1. /\ gSystemState = BOOT /\ UNCHANGED gSystemState
        /\ call' \in {"command_init", "event_log_init", "system_halt"}
    BY <1>2, CallsFollow DEF FaultQueueInit, CommandInit, VerdictInv
  <2> QED
    BY <2>1 DEF VerdictInv, VerifiedCalls
<1>3. CASE EventLogInit
  <2>1. /\ gSystemState = BOOT /\ UNCHANGED gSystemState
        /\ call' = "image_integrity_verify" /\ log' = << <<"BOOT">> >>
    BY <1>3, CallsFollow DEF EventLogInit, VerdictInv
  <2> QED
    BY <2>1 DEF VerdictInv, VerifiedCalls
<1>4. CASE VerifyImage
  <2>1. /\ gSystemState = BOOT /\ UNCHANGED gSystemState /\ log = << <<"BOOT">> >>
        /\ call' = "tasks_create_all" /\ phase' = "booted" /\ image_integrity_ok' \in BOOLEAN
        /\ log' = IF image_integrity_ok' THEN log ELSE Append(log, <<"IMAGE_CRC_FAIL">>)
    BY <1>4, CallsFollow DEF VerifyImage, Verify, IsAccepted, VerdictInv
  <2>2. log' = EarlyLog(image_integrity_ok')
    BY <2>1, Appended, Zenon DEF EarlyLog
  <2> QED
    BY <2>1, <2>2 DEF VerdictInv, VerifiedCalls
<1>5. CASE CreateTask \/ CreateIdleTask \/ CreateTimerQueue \/ CreateTimerTask
  <2>1. /\ call \in VerifiedCalls /\ UNCHANGED <<gSystemState, log, phase, image_integrity_ok>>
        /\ call' \in VerifiedCalls \cup Stopped
    BY <1>5, CallsFollow DEF CreateTask, CreateIdleTask, CreateTimerQueue, CreateTimerTask,
                             VerifiedCalls, Stopped, vars, verdict
  <2> QED
    BY <2>1 DEF VerdictInv, VerifiedCalls, Stopped
<1>6. CASE StateMachineStarts
  <2>1. /\ gSystemState = BOOT /\ phase = "booted" /\ image_integrity_ok \in BOOLEAN
        /\ log = EarlyLog(image_integrity_ok)
    BY <1>6 DEF StateMachineStarts, VerdictInv, VerifiedCalls
  <2>2. /\ UNCHANGED <<phase, image_integrity_ok>>
        /\ gSystemState' = IF image_integrity_ok THEN NOMINAL ELSE DEGRADED
        /\ log' = Append(log, <<"STATE_CHANGE", gSystemState, gSystemState'>>)
        /\ call' \in {"running", "configASSERT"}
    BY <1>6, CallsFollow DEF StateMachineStarts, vars, verdict
  <2>3. EarlyLog(image_integrity_ok)' = EarlyLog(image_integrity_ok)
    BY <2>2 DEF EarlyLog
  <2> QED
    BY <2>1, <2>2, <2>3 DEF VerdictInv, VerifiedCalls, NOMINAL, DEGRADED, BOOT
<1>7. CASE UNCHANGED <<vars, bootVars>>
  BY <1>7 DEF VerdictInv, VerifiedCalls, EarlyLog, vars, verdict, bootVars
<1> QED
  BY <1>1, <1>2, <1>3, <1>4, <1>5, <1>6, <1>7 DEF BootNext, BootStep

LEMMA ModeFollowsVerdict == VerdictInv /\ IntactIsAccepted /\ DamageIsRefused => ModeTellsImage
<1> SUFFICES ASSUME VerdictInv, IntactIsAccepted, DamageIsRefused, gSystemState # BOOT
             PROVE  IF ImageIsSound
                    THEN /\ gSystemState = NOMINAL
                         /\ log = << <<"BOOT">>, <<"STATE_CHANGE", BOOT, NOMINAL>> >>
                    ELSE /\ gSystemState = DEGRADED
                         /\ log = << <<"BOOT">>, <<"IMAGE_CRC_FAIL">>,
                                     <<"STATE_CHANGE", BOOT, DEGRADED>> >>
  BY DEF ModeTellsImage
<1>1. phase = "booted" /\ image_integrity_ok \in BOOLEAN
  BY DEF VerdictInv
<1>2. image_integrity_ok <=> ImageIsSound
  BY <1>1 DEF IntactIsAccepted, DamageIsRefused, ImageIsSound
<1>3. /\ gSystemState = IF image_integrity_ok THEN NOMINAL ELSE DEGRADED
      /\ log = Append(EarlyLog(image_integrity_ok), <<"STATE_CHANGE", BOOT, gSystemState>>)
  BY DEF VerdictInv
<1>4. CASE image_integrity_ok
  <2>1. log = << <<"BOOT">>, <<"STATE_CHANGE", BOOT, NOMINAL>> >>
    BY <1>3, <1>4, Appended, Zenon DEF EarlyLog
  <2> QED
    BY <1>2, <1>3, <1>4, <2>1, Zenon
<1>5. CASE ~image_integrity_ok
  <2>1. log = << <<"BOOT">>, <<"IMAGE_CRC_FAIL">>, <<"STATE_CHANGE", BOOT, DEGRADED>> >>
    BY <1>3, <1>5, Appended, Zenon DEF EarlyLog
  <2> QED
    BY <1>2, <1>3, <1>5, <2>1, Zenon
<1> QED
  BY <1>4, <1>5

(* The mode follows the image, where the CRC refuses every damaged one.    *)
LEMMA ModeFollowsImage == BootSpec => ([]DamageIsRefused => []ModeTellsImage)
BY IntactImageIsAccepted, VerdictHoldsInitially, VerdictIsKept, ModeFollowsVerdict, PTL DEF BootSpec

-----------------------------------------------------------------------------
(* Ascending lists, with an element put in and taken out.  *)

Ascending(s) == \A i, j \in 1 .. Len(s) : i < j => s[i] < s[j]

LEMMA ToSetIs == ASSUME NEW s \in Seq(Nat) PROVE ToSet(s) = {s[i] : i \in 1 .. Len(s)}
BY DEF ToSet

LEMMA Removed ==
  ASSUME NEW s \in Seq(Nat), NEW i \in 1 .. Len(s)
  PROVE  /\ RemoveAt(s, i) \in Seq(Nat)
         /\ Len(RemoveAt(s, i)) = Len(s) - 1
         /\ \A j \in 1 .. (Len(s) - 1) : RemoveAt(s, i)[j] = IF j < i THEN s[j] ELSE s[j + 1]
BY ByteFold!Removed DEF RemoveAt, ByteFold!RemoveAt

LEMMA Inserted ==
  ASSUME NEW s \in Seq(Nat), NEW i \in 1 .. (Len(s) + 1), NEW e \in Nat
  PROVE  /\ InsertAt(s, i, e) \in Seq(Nat)
         /\ Len(InsertAt(s, i, e)) = Len(s) + 1
         /\ \A j \in 1 .. (Len(s) + 1) :
               InsertAt(s, i, e)[j] = IF j < i THEN s[j] ELSE IF j = i THEN e ELSE s[j - 1]
<1> DEFINE q == ByteFold!InsertAt(s, i, e)
<1>1. /\ q \in Seq(Nat) /\ Len(q) = Len(s) + 1
      /\ \A j \in 1 .. (Len(s) + 1) :
            q[j] = IF j < i THEN s[j] ELSE IF j = i THEN e ELSE s[j - 1]
  BY ByteFold!Inserted
<1>2. InsertAt(s, i, e) = q
  BY DEF InsertAt, ByteFold!InsertAt
<1> HIDE DEF q
<1> QED
  BY <1>1, <1>2

(* In an ascending list every element is in one place.  *)
LEMMA RemovedStaysAscending ==
  ASSUME NEW s \in Seq(Nat), Ascending(s), NEW i \in 1 .. Len(s)
  PROVE  /\ RemoveAt(s, i) \in Seq(Nat) /\ Len(RemoveAt(s, i)) = Len(s) - 1
         /\ Ascending(RemoveAt(s, i))
         /\ ToSet(RemoveAt(s, i)) = ToSet(s) \ {s[i]}
<1> DEFINE r == RemoveAt(s, i)
           n == Len(s)
<1>1. /\ r \in Seq(Nat) /\ Len(r) = n - 1
      /\ \A j \in 1 .. (n - 1) : r[j] = IF j < i THEN s[j] ELSE s[j + 1]
  BY Removed
<1>2. n \in Nat /\ i \in Nat /\ 1 <= i /\ i <= n /\ \A j \in 1 .. n : s[j] \in Nat
  OBVIOUS
<1>3. \A j, k \in 1 .. n : j < k => s[j] < s[k]
  BY DEF Ascending
<1>4. ToSet(s) = {s[j] : j \in 1 .. n} /\ ToSet(r) = {r[j] : j \in 1 .. (n - 1)}
  BY <1>1, ToSetIs
<1> HIDE DEF r, n
<1>5. \A j \in 1 .. (n - 1) : \E k \in 1 .. n : k # i /\ r[j] = s[k]
  <2> TAKE j \in 1 .. (n - 1)
  <2>1. CASE j < i
    <3>1. j \in 1 .. n /\ j # i
      BY <1>2, <2>1
    <3> QED
      BY <1>1, <2>1, <3>1
  <2>2. CASE ~(j < i)
    <3>1. j + 1 \in 1 .. n /\ j + 1 # i
      BY <1>2, <2>2
    <3> QED
      BY <1>1, <2>2, <3>1
  <2> QED
    BY <2>1, <2>2
<1>6. \A k \in 1 .. n : k # i => \E j \in 1 .. (n - 1) : r[j] = s[k]
  <2> TAKE k \in 1 .. n
  <2>1. CASE k < i
    <3>1. k \in 1 .. (n - 1)
      BY <1>2, <2>1
    <3> QED
      BY <1>1, <2>1, <3>1
  <2>2. CASE k > i
    <3>1. k - 1 \in 1 .. (n - 1) /\ ~(k - 1 < i) /\ (k - 1) + 1 = k
      BY <1>2, <2>2
    <3> QED
      BY <1>1, <3>1
  <2> QED
    BY <1>2, <2>1, <2>2
<1>7. \A k \in 1 .. n : s[k] = s[i] => k = i
  BY <1>2, <1>3
<1>8. ToSet(r) = ToSet(s) \ {s[i]}
  <2>1. \A x : x \in ToSet(r) => x \in ToSet(s) /\ x # s[i]
    BY <1>4, <1>5, <1>7
  <2>2. \A x : x \in ToSet(s) /\ x # s[i] => x \in ToSet(r)
    BY <1>4, <1>6
  <2> QED
    BY <2>1, <2>2
<1>9. \A j, k \in 1 .. (n - 1) : j < k => r[j] < r[k]
  <2> SUFFICES ASSUME NEW j \in 1 .. (n - 1), NEW k \in 1 .. (n - 1), j < k
               PROVE  r[j] < r[k]
    OBVIOUS
  <2>1. j \in 1 .. n /\ j + 1 \in 1 .. n /\ k \in 1 .. n /\ k + 1 \in 1 .. n
    BY <1>2
  <2>2. j < k + 1 /\ j + 1 < k + 1 /\ (k < i => j < i)
    BY <1>2
  <2> QED
    BY <1>1, <1>3, <2>1, <2>2
<1>10. Ascending(r)
  BY <1>1, <1>9 DEF Ascending
<1> QED
  BY <1>1, <1>8, <1>10 DEF r, n

(* Between the elements in front of place i and those from there on.  *)
Belongs(s, i, e) == \A j \in 1 .. Len(s) : IF j < i THEN s[j] < e ELSE e < s[j]

LEMMA InsertedStaysAscending ==
  ASSUME NEW s \in Seq(Nat), Ascending(s), NEW i \in 1 .. (Len(s) + 1), NEW e \in Nat,
         Belongs(s, i, e)
  PROVE  /\ InsertAt(s, i, e) \in Seq(Nat) /\ Len(InsertAt(s, i, e)) = Len(s) + 1
         /\ Ascending(InsertAt(s, i, e))
         /\ ToSet(InsertAt(s, i, e)) = ToSet(s) \cup {e}
<1> DEFINE r == InsertAt(s, i, e)
           n == Len(s)
<1>1. /\ r \in Seq(Nat) /\ Len(r) = n + 1
      /\ \A j \in 1 .. (n + 1) : r[j] = IF j < i THEN s[j] ELSE IF j = i THEN e ELSE s[j - 1]
  BY Inserted
<1>2. /\ n \in Nat /\ i \in Nat /\ 1 <= i /\ i <= n + 1 /\ \A j \in 1 .. n : s[j] \in Nat
      /\ \A j \in 1 .. n : IF j < i THEN s[j] < e ELSE e < s[j]
  BY DEF Belongs
<1>3. \A j, k \in 1 .. n : j < k => s[j] < s[k]
  BY DEF Ascending
<1>4. ToSet(s) = {s[j] : j \in 1 .. n} /\ ToSet(r) = {r[j] : j \in 1 .. (n + 1)}
  BY <1>1, ToSetIs
<1> HIDE DEF r, n
<1>5. \A j \in 1 .. (n + 1) : r[j] = e \/ \E k \in 1 .. n : r[j] = s[k]
  <2> TAKE j \in 1 .. (n + 1)
  <2>1. CASE j < i
    <3>1. j \in 1 .. n
      BY <1>2, <2>1
    <3> QED
      BY <1>1, <2>1, <3>1
  <2>2. CASE j > i
    <3>1. j - 1 \in 1 .. n /\ ~(j < i) /\ j # i
      BY <1>2, <2>2
    <3> QED
      BY <1>1, <3>1
  <2>3. CASE j = i
    <3>1. ~(j < i)
      BY <1>2, <2>3
    <3> QED
      BY <1>1, <2>3, <3>1
  <2> QED
    BY <1>2, <2>1, <2>2, <2>3
<1>6. \A k \in 1 .. n : \E j \in 1 .. (n + 1) : r[j] = s[k]
  <2> TAKE k \in 1 .. n
  <2>1. CASE k < i
    <3>1. k \in 1 .. (n + 1)
      BY <1>2
    <3> QED
      BY <1>1, <2>1, <3>1
  <2>2. CASE ~(k < i)
    <3>1. k + 1 \in 1 .. (n + 1) /\ ~(k + 1 < i) /\ k + 1 # i /\ (k + 1) - 1 = k
      BY <1>2, <2>2
    <3> QED
      BY <1>1, <3>1
  <2> QED
    BY <2>1, <2>2
<1>7. i \in 1 .. (n + 1) /\ r[i] = e
  <2>1. i \in 1 .. (n + 1) /\ ~(i < i)
    BY <1>2
  <2> QED
    BY <1>1, <2>1
<1>8. ToSet(r) = ToSet(s) \cup {e}
  BY <1>4, <1>5, <1>6, <1>7
<1>9. \A j, k \in 1 .. (n + 1) : j < k => r[j] < r[k]
  <2> SUFFICES ASSUME NEW j \in 1 .. (n + 1), NEW k \in 1 .. (n + 1), j < k
               PROVE  r[j] < r[k]
    OBVIOUS
  <2>1. CASE k < i
    <3>1. j \in 1 .. n /\ k \in 1 .. n /\ j < i
      BY <1>2, <2>1
    <3> QED
      BY <1>1, <1>3, <2>1, <3>1
  <2>2. CASE k = i
    <3>1. j \in 1 .. n /\ j < i /\ ~(k < i)
      BY <1>2, <2>2
    <3> QED
      BY <1>1, <1>2, <2>2, <3>1
  <2>3. CASE k > i
    <3>1. k - 1 \in 1 .. n /\ ~(k < i) /\ k # i /\ ~(k - 1 < i)
      BY <1>2, <2>3
    <3>2. r[k] = s[k - 1]
      BY <1>1, <3>1
    <3>3. CASE j < i
      <4>1. j \in 1 .. n /\ j < k - 1
        BY <1>2, <2>3, <3>3
      <4> QED
        BY <1>1, <1>3, <3>1, <3>2, <3>3, <4>1
    <3>4. CASE j = i
      <4>1. ~(j < i)
        BY <1>2, <3>4
      <4> QED
        BY <1>1, <1>2, <3>1, <3>2, <3>4, <4>1
    <3>5. CASE j > i
      <4>1. j - 1 \in 1 .. n /\ ~(j < i) /\ j # i /\ j - 1 < k - 1
        BY <1>2, <3>5
      <4>2. r[j] = s[j - 1]
        BY <1>1, <4>1
      <4> QED
        BY <1>3, <3>1, <3>2, <4>1, <4>2
    <3> QED
      BY <1>2, <3>3, <3>4, <3>5
  <2> QED
    BY <1>2, <2>1, <2>2, <2>3
<1>10. Ascending(r)
  BY <1>1, <1>9 DEF Ascending
<1> QED
  BY <1>1, <1>8, <1>10 DEF r, n

-----------------------------------------------------------------------------
(* The least of some numbers, and how many of a list come before a number. *)

LEMMA LeastExists ==
  ASSUME NEW T \in SUBSET Nat, T # {}
  PROVE  \E m \in T : \A x \in T : m <= x
BY ByteFold!LeastExists

LEMMA MinIsLeast ==
  ASSUME NEW T \in SUBSET Nat, T # {}
  PROVE  Min(T) \in T
<1>1. PICK m \in T : \A x \in T : m <= x
  BY LeastExists
<1> QED
  BY <1>1 DEF Min

(* Where a block belongs in the list.  *)
LEMMA PlaceInList ==
  ASSUME NEW s \in Seq(Nat), Ascending(s), NEW e \in Nat, e \notin ToSet(s), NEW k,
         k = Cardinality({j \in DOMAIN s : s[j] < e})
  PROVE  /\ k \in 0 .. Len(s)
         /\ Belongs(s, k + 1, e)
<1> DEFINE n == Len(s)
           D == {j \in DOMAIN s : s[j] < e}
           T == {j \in 1 .. (n + 1) : j \notin D}
<1>1. n \in Nat /\ DOMAIN s = 1 .. n /\ \A j \in 1 .. n : s[j] \in Nat /\ s[j] # e
  BY ToSetIs
<1>2. \A i, j \in 1 .. n : i < j => s[i] < s[j]
  BY DEF Ascending
<1> HIDE DEF n
<1>3. n + 1 \in T /\ T \in SUBSET Nat
  BY <1>1
<1>4. PICK m \in T : \A x \in T : m <= x
  BY <1>3, LeastExists
<1>5. D = 1 .. (m - 1)
  <2>1. ASSUME NEW j \in 1 .. (m - 1)
        PROVE  j \in D
    <3>1. j \in 1 .. (n + 1) /\ ~(m <= j)
      BY <1>1
    <3> QED
      BY <1>4, <3>1
  <2>2. ASSUME NEW j \in D
        PROVE  j \in 1 .. (m - 1)
    <3>1. j \in 1 .. n /\ s[j] < e /\ m \in 1 .. (n + 1) /\ m \notin D
      BY <1>1
    <3>2. CASE m <= j
      <4>1. m \in 1 .. n /\ ~(s[m] < e)
        BY <1>1, <3>1, <3>2
      <4>2. m = j \/ s[m] < s[j]
        BY <1>1, <1>2, <3>1, <3>2, <4>1
      <4> QED
        BY <1>1, <3>1, <4>1, <4>2
    <3> QED
      BY <1>1, <3>1, <3>2
  <2> QED
    BY <2>1, <2>2
<1>6. m - 1 \in 0 .. n /\ m \in 1 .. (n + 1)
  BY <1>1
<1>7. Cardinality(1 .. (m - 1)) = m - 1
  <2>1. m - 1 \in Int /\ 1 \in Int /\ m - 1 >= 0
    BY <1>6
  <2>2. Cardinality(1 .. (m - 1)) = IF 1 > m - 1 THEN 0 ELSE m - 1 - 1 + 1
    BY <2>1, FS_Interval
  <2> QED
    BY <2>1, <2>2
<1>8. k = m - 1
  BY <1>5, <1>7
<1>9. ASSUME NEW j \in 1 .. n
      PROVE  IF j < k + 1 THEN s[j] < e ELSE e < s[j]
  <2>1. j < k + 1 <=> j \in D
    BY <1>1, <1>5, <1>6, <1>8
  <2>2. j \in D <=> s[j] < e
    BY <1>1
  <2> QED
    BY <1>1, <2>1, <2>2
<1> QED
  BY <1>6, <1>8, <1>9 DEF n, Belongs

-----------------------------------------------------------------------------
(* Blocks that tile the heap still do when one is split, or two joined.    *)

Split(z, b, need) ==
    [x \in DOMAIN z \cup {b + need} |->
        IF x = b THEN need ELSE IF x = b + need THEN z[b] - need ELSE z[x]]

Join(z, b, c) == [x \in DOMAIN z \ {c} |-> IF x = b THEN z[b] + z[c] ELSE z[x]]

Tiling(first, e, z) ==
    /\ first \in DOMAIN z /\ e \in Nat
    /\ DOMAIN z \in SUBSET Nat /\ IsFiniteSet(DOMAIN z)
    /\ \A b \in DOMAIN z : /\ z[b] \in Nat /\ z[b] > 0
                           /\ b % portBYTE_ALIGNMENT = 0
                           /\ first <= b /\ b + z[b] <= e
                           /\ b + z[b] \in DOMAIN z \cup {e}
    /\ \A b, c \in DOMAIN z : b < c => b + z[b] <= c

LEMMA SplitTiles ==
  ASSUME NEW first, NEW e, NEW z, Tiling(first, e, z), NEW b \in DOMAIN z,
         NEW need \in Nat, need > 0, need < z[b], (b + need) % portBYTE_ALIGNMENT = 0
  PROVE  b + need \notin DOMAIN z /\ Tiling(first, e, Split(z, b, need))
<1> DEFINE c == b + need
           y == Split(z, b, need)
<1>0. /\ first \in DOMAIN z /\ e \in Nat
      /\ DOMAIN z \in SUBSET Nat /\ IsFiniteSet(DOMAIN z)
      /\ \A x \in DOMAIN z : /\ z[x] \in Nat /\ z[x] > 0
                             /\ x % portBYTE_ALIGNMENT = 0
                             /\ first <= x /\ x + z[x] <= e
                             /\ x + z[x] \in DOMAIN z \cup {e}
      /\ \A x, w \in DOMAIN z : x < w => x + z[x] <= w
  BY DEF Tiling
<1>1. c \in Nat /\ b < c /\ c < b + z[b] /\ b \in Nat /\ first \in Nat
  BY <1>0
<1>2. c \notin DOMAIN z
  BY <1>0, <1>1
<1>3. DOMAIN y = DOMAIN z \cup {c} /\ y[b] = need /\ y[c] = z[b] - need
      /\ \A x \in DOMAIN z : x # b => y[x] = z[x]
  BY <1>1, <1>2 DEF Split
<1>4. DOMAIN y \in SUBSET Nat /\ IsFiniteSet(DOMAIN y)
  BY <1>0, <1>1, <1>3, FS_AddElement
<1>5. c % portBYTE_ALIGNMENT = 0
  OBVIOUS
<1> HIDE DEF y
<1>6. ASSUME NEW x \in DOMAIN y
      PROVE  /\ y[x] \in Nat /\ y[x] > 0 /\ x % portBYTE_ALIGNMENT = 0
             /\ first <= x /\ x + y[x] <= e /\ x + y[x] \in DOMAIN y \cup {e}
  <2>1. CASE x = b
    <3>1. x + y[x] = c
      BY <1>3, <2>1
    <3> HIDE DEF c
    <3> QED
      BY <1>0, <1>1, <1>3, <2>1, <3>1
  <2>2. CASE x = c
    <3>1. x + y[x] = b + z[b] /\ y[x] \in Nat /\ y[x] > 0
      BY <1>0, <1>1, <1>3, <2>2
    <3>2. first <= x
      BY <1>0, <1>1, <2>2
    <3> HIDE DEF c
    <3> QED
      BY <1>0, <1>3, <1>5, <2>2, <3>1, <3>2
  <2>3. CASE x # b /\ x # c
    BY <1>0, <1>3, <2>3
  <2> QED
    BY <2>1, <2>2, <2>3
<1>7. ASSUME NEW x \in DOMAIN y, NEW w \in DOMAIN y, x < w
      PROVE  x + y[x] <= w
  <2> HIDE DEF c
  <2>0. b + need = c /\ x \in Nat /\ w \in Nat
    BY <1>4 DEF c
  <2>1. CASE x \in DOMAIN z /\ w \in DOMAIN z
    <3>1. x + z[x] <= w /\ z[x] \in Nat
      BY <1>0, <1>7, <2>1
    <3>2. y[x] = z[x] \/ (x = b /\ y[x] = need)
      BY <1>3, <2>1
    <3> QED
      BY <2>0, <3>1, <3>2
  <2>2. CASE x \in DOMAIN z /\ w = c
    <3>1. CASE x = b
      BY <1>1, <1>3, <2>0, <2>2, <3>1
    <3>2. CASE x # b
      <4>1. x < b
        BY <1>0, <1>1, <1>7, <2>0, <2>2, <3>2
      <4> QED
        BY <1>0, <1>1, <1>3, <2>0, <2>2, <3>2, <4>1
    <3> QED
      BY <3>1, <3>2
  <2>3. CASE x = c /\ w \in DOMAIN z
    <3>1. b < w
      BY <1>1, <1>7, <2>0, <2>3
    <3>2. x + y[x] = b + z[b]
      BY <1>0, <1>1, <1>3, <2>0, <2>3
    <3> QED
      BY <1>0, <2>3, <3>1, <3>2
  <2> QED
    BY <1>3, <1>7, <2>0, <2>1, <2>2, <2>3
<1>8. first \in DOMAIN y
  BY <1>0, <1>3
<1> QED
  BY <1>0, <1>2, <1>4, <1>6, <1>7, <1>8, Zenon DEF Tiling, y, c

LEMMA JoinTiles ==
  ASSUME NEW first, NEW e, NEW z, Tiling(first, e, z),
         NEW b \in DOMAIN z, NEW c \in DOMAIN z, b + z[b] = c
  PROVE  Tiling(first, e, Join(z, b, c))
<1> DEFINE y == Join(z, b, c)
<1>0. /\ first \in DOMAIN z /\ e \in Nat
      /\ DOMAIN z \in SUBSET Nat /\ IsFiniteSet(DOMAIN z)
      /\ \A x \in DOMAIN z : /\ z[x] \in Nat /\ z[x] > 0
                             /\ x % portBYTE_ALIGNMENT = 0
                             /\ first <= x /\ x + z[x] <= e
                             /\ x + z[x] \in DOMAIN z \cup {e}
      /\ \A x, w \in DOMAIN z : x < w => x + z[x] <= w
  BY DEF Tiling
<1>1. b \in Nat /\ c \in Nat /\ b < c /\ first \in Nat /\ first # c
  BY <1>0
<1>2. DOMAIN y = DOMAIN z \ {c} /\ y[b] = z[b] + z[c]
      /\ \A x \in DOMAIN y : x # b => y[x] = z[x]
  BY <1>1 DEF Join
<1>3. DOMAIN y \in SUBSET Nat /\ IsFiniteSet(DOMAIN y)
  BY <1>0, <1>2, FS_RemoveElement
<1> HIDE DEF y
<1>4. b + y[b] = c + z[c] /\ y[b] \in Nat /\ y[b] > 0
  BY <1>0, <1>1, <1>2
<1>5. \A x \in DOMAIN z : x + z[x] = c => x = b
  <2> SUFFICES ASSUME NEW x \in DOMAIN z, x + z[x] = c, x # b
               PROVE  FALSE
    OBVIOUS
  <2>1. x \in Nat /\ z[x] \in Nat /\ z[x] > 0 /\ z[b] \in Nat /\ z[b] > 0
    BY <1>0
  <2>2. x < b => x + z[x] <= b
    BY <1>0
  <2>3. b < x => b + z[b] <= x
    BY <1>0
  <2> QED
    BY <1>1, <2>1, <2>2, <2>3
<1>6. ASSUME NEW x \in DOMAIN y
      PROVE  /\ y[x] \in Nat /\ y[x] > 0 /\ x % portBYTE_ALIGNMENT = 0
             /\ first <= x /\ x + y[x] <= e /\ x + y[x] \in DOMAIN y \cup {e}
  <2>1. CASE x = b
    <3>1. c + z[c] <= e /\ c + z[c] \in DOMAIN z \cup {e} /\ c + z[c] # c
      BY <1>0, <1>1
    <3> QED
      BY <1>0, <1>2, <1>4, <2>1, <3>1
  <2>2. CASE x # b
    <3>1. y[x] = z[x] /\ x \in DOMAIN z /\ x + z[x] # c
      BY <1>2, <1>5, <2>2
    <3> QED
      BY <1>0, <1>2, <3>1
  <2> QED
    BY <2>1, <2>2
<1>7. ASSUME NEW x \in DOMAIN y, NEW w \in DOMAIN y, x < w
      PROVE  x + y[x] <= w
  <2>1. x \in DOMAIN z /\ w \in DOMAIN z /\ w # c /\ x \in Nat /\ w \in Nat
    BY <1>2, <1>3
  <2>2. CASE x = b
    <3>1. c <= w
      BY <1>0, <1>7, <2>1, <2>2
    <3>2. c < w
      BY <1>1, <2>1, <3>1
    <3> QED
      BY <1>0, <1>4, <2>1, <2>2, <3>2
  <2>3. CASE x # b
    BY <1>0, <1>2, <1>7, <2>1, <2>3
  <2> QED
    BY <2>2, <2>3
<1>8. first \in DOMAIN y
  BY <1>0, <1>1, <1>2
<1> QED
  BY <1>0, <1>3, <1>6, <1>7, <1>8, Zenon DEF Tiling, y

-----------------------------------------------------------------------------
(* The list of the free blocks, and how many bytes they have.              *)

FreeBytes(z, S) == MapThenSumSet(LAMBDA b : z[b], S)

LEMMA FreeBytesIsSum ==
  /\ \A w, T : ByteFold!SumOver(w, T) = FreeBytes(w, T)
  /\ \A T : IsFiniteSet(T) => ByteFold!IsFiniteSet(T)
<1>1. \A w, T : ByteFold!SumOver(w, T) = FreeBytes(w, T)
  BY DEF ByteFold!SumOver, ByteFold!MapThenSumSet, ByteFold!MapThenFoldSet,
         FreeBytes, MapThenSumSet, MapThenFoldSet
<1>2. \A T : IsFiniteSet(T) => ByteFold!IsFiniteSet(T)
  BY DEF ByteFold!IsFiniteSet, IsFiniteSet
<1> QED
  BY <1>1, <1>2

LEMMA FreeBytesAdd ==
  ASSUME NEW z, NEW S, IsFiniteSet(S), \A b \in S : z[b] \in Int
  PROVE  FreeBytes(z, S) \in Int /\ \A b \in S : FreeBytes(z, S) = z[b] + FreeBytes(z, S \ {b})
<1>1. /\ \A w, T : ByteFold!SumOver(w, T) = FreeBytes(w, T)
      /\ ByteFold!IsFiniteSet(S)
  BY FreeBytesIsSum
<1>2. /\ ByteFold!SumOver(z, S) \in Int
      /\ \A b \in S : ByteFold!SumOver(z, S) = z[b] + ByteFold!SumOver(z, S \ {b})
  BY <1>1, ByteFold!SumOverFiniteSet
<1> QED
  BY <1>1, <1>2

LEMMA NothingIsFree == ASSUME NEW z PROVE FreeBytes(z, {}) = 0
<1>1. ByteFold!SumOver(z, {}) = FreeBytes(z, {}) /\ ByteFold!IsFiniteSet({})
  BY FreeBytesIsSum, FS_EmptySet
<1>2. ByteFold!SumOver(z, {}) = 0
  <2>1. \A x \in {} : z[x] \in Int
    OBVIOUS
  <2> QED
    BY <1>1, <2>1, ByteFold!SumOverFiniteSet
<1> QED
  BY <1>1, <1>2

LEMMA FreeBytesAgree ==
  ASSUME NEW w, NEW z, NEW S, IsFiniteSet(S), \A b \in S : w[b] = z[b]
  PROVE  FreeBytes(w, S) = FreeBytes(z, S)
<1>1. /\ \A y, T : ByteFold!SumOver(y, T) = FreeBytes(y, T)
      /\ ByteFold!IsFiniteSet(S)
  BY FreeBytesIsSum
<1>2. ByteFold!SumOver(w, S) = ByteFold!SumOver(z, S)
  BY <1>1, ByteFold!SumsAgree
<1> QED
  BY <1>1, <1>2

Listing(z, A, s) ==
    /\ A \subseteq DOMAIN z
    /\ s \in Seq(Nat) /\ Ascending(s) /\ ToSet(s) = DOMAIN z \ A

Books(first, e, z, A, s, n) ==
    Tiling(first, e, z) /\ Listing(z, A, s) /\ n = FreeBytes(z, ToSet(s))

TouchAt(z, s, i) == {i, i + 1} \subseteq DOMAIN s /\ s[i] + z[s[i]] = s[i + 1]
NoneTouch(z, s) == \A i \in Nat : ~TouchAt(z, s, i)

LEMMA BooksSay ==
  ASSUME NEW first, NEW e, NEW z, NEW A, NEW s, NEW n, Books(first, e, z, A, s, n)
  PROVE  /\ DOMAIN z \in SUBSET Nat /\ A \in SUBSET (DOMAIN z)
         /\ s \in Seq(Nat) /\ Len(s) \in Nat /\ DOMAIN s = 1 .. Len(s)
         /\ \A i \in 1 .. Len(s) : s[i] \in DOMAIN z /\ s[i] \notin A
         /\ \A b \in DOMAIN z \ A : \E i \in 1 .. Len(s) : s[i] = b
         /\ \A i, j \in 1 .. Len(s) : i < j => s[i] < s[j]
         /\ \A b \in DOMAIN z : z[b] \in Nat /\ z[b] > 0
         /\ \A b, c \in DOMAIN z : b < c => b + z[b] <= c
         /\ IsFiniteSet(ToSet(s)) /\ \A b \in ToSet(s) : z[b] \in Int
         /\ ToSet(s) = DOMAIN z \ A
<1>1. s \in Seq(Nat) /\ ToSet(s) = DOMAIN z \ A /\ IsFiniteSet(DOMAIN z)
  BY DEF Books, Listing, Tiling
<1>2. ToSet(s) = {s[i] : i \in 1 .. Len(s)}
  BY <1>1, ToSetIs
<1>3. IsFiniteSet(ToSet(s))
  BY <1>1, FS_Subset
<1>4. /\ DOMAIN z \in SUBSET Nat /\ A \in SUBSET (DOMAIN z)
      /\ \A b \in DOMAIN z : z[b] \in Nat /\ z[b] > 0
      /\ \A b, c \in DOMAIN z : b < c => b + z[b] <= c
      /\ \A i, j \in 1 .. Len(s) : i < j => s[i] < s[j]
  BY DEF Books, Listing, Tiling, Ascending
<1>5. \A b \in ToSet(s) : z[b] \in Int
  BY <1>1, <1>4
<1>6. /\ \A i \in 1 .. Len(s) : s[i] \in DOMAIN z /\ s[i] \notin A
      /\ \A b \in DOMAIN z \ A : \E i \in 1 .. Len(s) : s[i] = b
  BY <1>1, <1>2
<1>7. Len(s) \in Nat /\ DOMAIN s = 1 .. Len(s)
  BY <1>1
<1> QED
  BY <1>1, <1>3, <1>4, <1>5, <1>6, <1>7

(* A free block is taken whole.  *)
LEMMA TakenWhole ==
  ASSUME NEW first, NEW e, NEW z, NEW A, NEW s, NEW n, Books(first, e, z, A, s, n),
         NEW i \in 1 .. Len(s)
  PROVE  /\ Books(first, e, z, A \cup {s[i]}, RemoveAt(s, i), n - z[s[i]])
         /\ NoneTouch(z, s) => NoneTouch(z, RemoveAt(s, i))
<1> DEFINE r == RemoveAt(s, i)
           b == s[i]
           k == Len(s)
<1>0. /\ DOMAIN z \in SUBSET Nat /\ A \in SUBSET (DOMAIN z)
      /\ \A j \in 1 .. Len(s) : s[j] \in DOMAIN z /\ s[j] \notin A
      /\ \A j, h \in 1 .. Len(s) : j < h => s[j] < s[h]
      /\ \A x \in DOMAIN z : z[x] \in Nat /\ z[x] > 0
      /\ \A x, v \in DOMAIN z : x < v => x + z[x] <= v
      /\ IsFiniteSet(ToSet(s)) /\ \A x \in ToSet(s) : z[x] \in Int
  BY BooksSay
<1>1. /\ s \in Seq(Nat) /\ Ascending(s) /\ ToSet(s) = DOMAIN z \ A /\ Tiling(first, e, z)
      /\ n = FreeBytes(z, ToSet(s))
  BY DEF Books, Listing
<1>2. /\ r \in Seq(Nat) /\ Len(r) = Len(s) - 1 /\ Ascending(r) /\ ToSet(r) = ToSet(s) \ {b}
  BY <1>1, RemovedStaysAscending
<1>3. \A j \in 1 .. (k - 1) : r[j] = IF j < i THEN s[j] ELSE s[j + 1]
  BY <1>1, Removed
<1>4. b \in DOMAIN z /\ b \notin A /\ b \in ToSet(s) /\ b \in Nat
  BY <1>0, <1>1
<1>5. Listing(z, A \cup {b}, r)
  BY <1>0, <1>1, <1>2, <1>4 DEF Listing
<1>6. n - z[b] = FreeBytes(z, ToSet(r))
  <2>1. /\ FreeBytes(z, ToSet(s)) \in Int
        /\ FreeBytes(z, ToSet(s)) = z[b] + FreeBytes(z, ToSet(s) \ {b})
    BY <1>0, <1>4, FreeBytesAdd
  <2>2. FreeBytes(z, ToSet(s) \ {b}) \in Int /\ z[b] \in Int
    <3>1. IsFiniteSet(ToSet(s) \ {b}) /\ \A x \in ToSet(s) \ {b} : z[x] \in Int
      BY <1>0, FS_RemoveElement
    <3> QED
      BY <1>0, <1>4, <3>1, FreeBytesAdd
  <2> QED
    BY <1>1, <1>2, <2>1, <2>2
<1>7. ASSUME NoneTouch(z, s), NEW j \in Nat, TouchAt(z, r, j)
      PROVE  FALSE
  <2>1. /\ j \in 1 .. (k - 1) /\ j + 1 \in 1 .. (k - 1) /\ k \in Nat
        /\ r[j] + z[r[j]] = r[j + 1]
    BY <1>1, <1>2, <1>7 DEF TouchAt
  <2> HIDE DEF r, k
  <2>2. CASE j + 1 < i
    <3>1. r[j] = s[j] /\ r[j + 1] = s[j + 1] /\ j \in 1 .. k /\ j + 1 \in 1 .. k
      BY <1>3, <2>1, <2>2
    <3> QED
      BY <1>1, <1>7, <2>1, <3>1 DEF NoneTouch, TouchAt, k
  <2>3. CASE i <= j
    <3>1. /\ r[j] = s[j + 1] /\ r[j + 1] = s[(j + 1) + 1]
          /\ j + 1 \in 1 .. k /\ (j + 1) + 1 \in 1 .. k
      BY <1>3, <2>1, <2>3
    <3>2. j + 1 \in Nat /\ DOMAIN s = 1 .. k
      BY <1>1 DEF k
    <3> QED
      BY <1>7, <2>1, <3>1, <3>2 DEF NoneTouch, TouchAt
  <2>4. CASE j + 1 = i
    <3>1. /\ r[j] = s[j] /\ r[j + 1] = s[i + 1] /\ j \in 1 .. k /\ i + 1 \in 1 .. k /\ j < i
          /\ i < i + 1
      BY <1>3, <2>1, <2>4
    <3>2. s[j] < b /\ b < s[i + 1] /\ s[j] \in DOMAIN z /\ b \in DOMAIN z /\ i \in 1 .. k
      BY <1>0, <3>1 DEF k
    <3>3. s[j] + z[s[j]] <= b /\ b \in Nat /\ s[i + 1] \in Nat /\ s[j] + z[s[j]] \in Nat
      BY <1>0, <3>1, <3>2 DEF k
    <3> HIDE DEF b
    <3> QED
      BY <2>1, <3>1, <3>2, <3>3
  <2> QED
    BY <2>1, <2>2, <2>3, <2>4
<1> QED
  BY <1>1, <1>5, <1>6, <1>7 DEF Books, NoneTouch

(* A free block is taken in part.  *)
LEMMA TakenPart ==
  ASSUME NEW first, NEW e, NEW z, NEW A, NEW s, NEW n, Books(first, e, z, A, s, n),
         NEW i \in 1 .. Len(s), NEW need \in Nat, need > 0, need < z[s[i]],
         (s[i] + need) % portBYTE_ALIGNMENT = 0
  PROVE  /\ Books(first, e, Split(z, s[i], need), A \cup {s[i]},
                  InsertAt(RemoveAt(s, i), i, s[i] + need), n - need)
         /\ NoneTouch(z, s) => NoneTouch(Split(z, s[i], need),
                                         InsertAt(RemoveAt(s, i), i, s[i] + need))
         /\ s[i] + need \notin DOMAIN z
<1> DEFINE r == RemoveAt(s, i)
           b == s[i]
           c == b + need
           t == InsertAt(r, i, c)
           y == Split(z, b, need)
           k == Len(s)
<1>0. /\ DOMAIN z \in SUBSET Nat /\ A \in SUBSET (DOMAIN z)
      /\ \A j \in 1 .. Len(s) : s[j] \in DOMAIN z /\ s[j] \notin A
      /\ \A j, h \in 1 .. Len(s) : j < h => s[j] < s[h]
      /\ \A x \in DOMAIN z : z[x] \in Nat /\ z[x] > 0
      /\ \A x, v \in DOMAIN z : x < v => x + z[x] <= v
      /\ IsFiniteSet(ToSet(s)) /\ \A x \in ToSet(s) : z[x] \in Int
  BY BooksSay
<1>1. /\ s \in Seq(Nat) /\ Ascending(s) /\ ToSet(s) = DOMAIN z \ A /\ Tiling(first, e, z)
      /\ n = FreeBytes(z, ToSet(s)) /\ k \in Nat /\ DOMAIN s = 1 .. k
  BY DEF Books, Listing
<1>2. /\ r \in Seq(Nat) /\ Len(r) = k - 1 /\ Ascending(r) /\ ToSet(r) = ToSet(s) \ {b}
  BY <1>1, RemovedStaysAscending
<1>3. \A j \in 1 .. (k - 1) : r[j] = IF j < i THEN s[j] ELSE s[j + 1]
  BY <1>1, Removed
<1>4. /\ b \in DOMAIN z /\ b \notin A /\ b \in ToSet(s) /\ A \in SUBSET (DOMAIN z)
      /\ b \in Nat /\ z[b] \in Nat /\ c \in Nat /\ c = b + need /\ b < c /\ c < b + z[b]
  BY <1>0, <1>1
<1>5. c \notin DOMAIN z /\ Tiling(first, e, y)
  BY <1>1, <1>4, SplitTiles
<1>6. DOMAIN y = DOMAIN z \cup {c} /\ y[b] = need /\ y[c] = z[b] - need
      /\ \A x \in DOMAIN z : x # b => y[x] = z[x]
  BY <1>4, <1>5 DEF Split
<1>7. i \in 1 .. k /\ i \in Nat /\ i \in 1 .. (Len(r) + 1)
  BY <1>1, <1>2
<1>8. \A j \in 1 .. k : j < i => s[j] < b /\ s[j] + z[s[j]] <= b /\ s[j] + z[s[j]] \in Nat
  <2> TAKE j \in 1 .. k
  <2> HAVE j < i
  <2>1. s[j] < b /\ s[j] \in DOMAIN z /\ b \in DOMAIN z
    BY <1>0, <1>4, <1>7
  <2>2. s[j] + z[s[j]] <= b /\ s[j] \in Nat /\ z[s[j]] \in Nat
    BY <1>0, <2>1
  <2> QED
    BY <2>1, <2>2
<1>9. \A j \in 1 .. k : i < j => b + z[b] <= s[j] /\ s[j] \in Nat
  BY <1>0, <1>4, <1>7
<1>10. \A j \in 1 .. k : s[j] \in DOMAIN z /\ s[j] \in Nat
  BY <1>0
<1> HIDE DEF r, b, c, t, y, k
<1>11. \A j \in 1 .. Len(r) : IF j < i THEN r[j] < c ELSE c < r[j]
  <2> TAKE j \in 1 .. Len(r)
  <2>0. j \in 1 .. (k - 1)
    BY <1>2
  <2>1. CASE j < i
    <3>1. r[j] = s[j] /\ s[j] < b /\ s[j] \in Nat
      BY <1>1, <1>3, <1>8, <1>10, <2>0, <2>1
    <3> QED
      BY <1>4, <2>1, <3>1
  <2>2. CASE ~(j < i)
    <3>1. r[j] = s[j + 1] /\ j + 1 \in 1 .. k /\ i < j + 1
      BY <1>1, <1>3, <1>7, <2>0, <2>2
    <3>2. b + z[b] <= s[j + 1] /\ s[j + 1] \in Nat
      BY <1>9, <3>1
    <3> QED
      BY <1>4, <2>2, <3>1, <3>2
  <2> QED
    BY <2>1, <2>2
<1>12. /\ t \in Seq(Nat) /\ Len(t) = Len(r) + 1 /\ Ascending(t) /\ ToSet(t) = ToSet(r) \cup {c}
  <2>1. i \in 1 .. (Len(r) + 1) /\ r \in Seq(Nat) /\ Ascending(r) /\ c \in Nat
    BY <1>2, <1>4, <1>7
  <2>2. /\ InsertAt(r, i, c) \in Seq(Nat) /\ Len(InsertAt(r, i, c)) = Len(r) + 1
        /\ Ascending(InsertAt(r, i, c))
        /\ ToSet(InsertAt(r, i, c)) = ToSet(r) \cup {c}
    <3>1. Belongs(r, i, c)
      BY <1>11 DEF Belongs
    <3> QED
      BY <2>1, <3>1, InsertedStaysAscending
  <2> QED
    BY <2>2 DEF t
<1>13. \A j \in 1 .. (Len(r) + 1) : t[j] = IF j < i THEN r[j] ELSE IF j = i THEN c ELSE r[j - 1]
  <2>1. i \in 1 .. (Len(r) + 1) /\ r \in Seq(Nat) /\ c \in Nat
    BY <1>2, <1>4, <1>7
  <2> QED
    BY <2>1, Inserted DEF t
<1>14. \A j \in 1 .. k : t[j] = IF j = i THEN c ELSE s[j]
  <2> TAKE j \in 1 .. k
  <2>0. j \in 1 .. (Len(r) + 1)
    BY <1>1, <1>2
  <2>1. CASE j < i
    <3>1. j \in 1 .. (k - 1) /\ j # i
      BY <1>1, <1>7, <2>1
    <3> QED
      BY <1>3, <1>13, <2>0, <2>1, <3>1
  <2>2. CASE j = i
    <3>1. ~(j < i)
      BY <1>7, <2>2
    <3> QED
      BY <1>13, <2>0, <2>2, <3>1
  <2>3. CASE j > i
    <3>1. j - 1 \in 1 .. (k - 1) /\ ~(j < i) /\ j # i /\ ~(j - 1 < i) /\ (j - 1) + 1 = j
      BY <1>1, <1>7, <2>3
    <3> QED
      BY <1>3, <1>13, <2>0, <3>1
  <2> QED
    BY <1>1, <1>7, <2>1, <2>2, <2>3
<1>15. Listing(y, A \cup {b}, t)
  BY <1>0, <1>1, <1>2, <1>4, <1>5, <1>6, <1>12 DEF Listing
<1>16. n - need = FreeBytes(y, ToSet(t))
  <2> DEFINE S == ToSet(s) \ {b}
  <2>1. /\ FreeBytes(z, ToSet(s)) \in Int
        /\ FreeBytes(z, ToSet(s)) = z[b] + FreeBytes(z, S)
    BY <1>0, <1>4, FreeBytesAdd
  <2>2. IsFiniteSet(S) /\ \A x \in S : z[x] \in Int /\ y[x] = z[x]
    <3>1. IsFiniteSet(S)
      BY <1>0, FS_RemoveElement
    <3>2. \A x \in S : x \in DOMAIN z /\ x # b
      BY <1>1
    <3> QED
      BY <1>0, <1>6, <3>1, <3>2
  <2>3. FreeBytes(z, S) \in Int /\ FreeBytes(y, S) = FreeBytes(z, S)
    BY <2>2, FreeBytesAdd, FreeBytesAgree
  <2>4. IsFiniteSet(ToSet(t)) /\ c \in ToSet(t) /\ ToSet(t) \ {c} = S
        /\ \A x \in ToSet(t) : y[x] \in Int
    <3>1. ToSet(t) = S \cup {c} /\ c \notin S
      BY <1>1, <1>2, <1>5, <1>12
    <3>2. y[c] \in Int
      BY <1>4, <1>6
    <3> HIDE DEF S
    <3>3. IsFiniteSet(S \cup {c})
      BY <2>2, FS_AddElement
    <3>4. (S \cup {c}) \ {c} = S
      BY <3>1
    <3> QED
      BY <2>2, <3>1, <3>2, <3>3, <3>4
  <2>5. FreeBytes(y, ToSet(t)) = y[c] + FreeBytes(y, S)
    BY <2>4, FreeBytesAdd
  <2> HIDE DEF S
  <2> QED
    BY <1>1, <1>4, <1>6, <2>1, <2>3, <2>5
<1>17. ASSUME NoneTouch(z, s), NEW j \in Nat, TouchAt(y, t, j)
       PROVE  FALSE
  <2>1. /\ j \in 1 .. k /\ j + 1 \in 1 .. k /\ t[j] + y[t[j]] = t[j + 1]
    BY <1>1, <1>2, <1>12, <1>17 DEF TouchAt
  <2>2. ~(s[j] + z[s[j]] = s[j + 1])
    BY <1>1, <1>17, <2>1 DEF NoneTouch, TouchAt
  <2>3. CASE j = i
    <3>1. t[j] = c /\ t[j + 1] = s[j + 1] /\ s[j] = b
      <4>1. j + 1 # i
        BY <1>7, <2>3
      <4> QED
        BY <1>14, <2>1, <2>3, <4>1 DEF b
    <3> QED
      BY <1>4, <1>6, <2>1, <2>2, <3>1
  <2>4. CASE j + 1 = i
    <3>1. t[j] = s[j] /\ t[j + 1] = c /\ j < i /\ s[j] # b
      <4>1. j # i /\ j < i
        BY <1>7, <2>4
      <4>2. s[j] < b /\ s[j] \in Nat
        BY <1>8, <1>10, <2>1, <4>1
      <4> QED
        BY <1>4, <1>14, <2>1, <2>4, <4>1, <4>2
    <3>2. y[s[j]] = z[s[j]] /\ s[j] + z[s[j]] <= b /\ s[j] + z[s[j]] \in Nat
      BY <1>6, <1>8, <1>10, <2>1, <3>1
    <3> QED
      BY <1>4, <2>1, <3>1, <3>2
  <2>5. CASE j # i /\ j + 1 # i
    <3>1. t[j] = s[j] /\ t[j + 1] = s[j + 1] /\ s[j] # b
      <4>1. s[j] # b
        <5>1. j < i \/ i < j
          BY <1>7, <2>5
        <5>2. s[j] < s[i] \/ s[i] < s[j]
          BY <1>0, <1>7, <2>1, <5>1 DEF k
        <5> QED
          BY <1>4, <5>2 DEF b
      <4> QED
        BY <1>14, <2>1, <2>5, <4>1
    <3>2. y[s[j]] = z[s[j]]
      BY <1>6, <1>10, <2>1, <3>1
    <3> QED
      BY <2>1, <2>2, <3>1, <3>2
  <2> QED
    BY <2>3, <2>4, <2>5
<1>18. Books(first, e, y, A \cup {b}, t, n - need)
  BY <1>5, <1>15, <1>16 DEF Books
<1>19. NoneTouch(z, s) => NoneTouch(y, t)
  BY <1>17 DEF NoneTouch
<1> QED
  BY <1>5, <1>18, <1>19, Zenon DEF y, t, r, b, c

(* A block is put back into the list.  *)
TouchOnlyAt(z, s, m) == \A j \in Nat : TouchAt(z, s, j) => j = m \/ j = m + 1
Preceding(s, b) == Cardinality({j \in DOMAIN s : s[j] < b})

LEMMA Returned ==
  ASSUME NEW first, NEW e, NEW z, NEW A, NEW s, NEW n, Books(first, e, z, A, s, n),
         NEW b \in A, NEW m, m = Preceding(s, b)
  PROVE  /\ m \in 0 .. Len(s)
         /\ Books(first, e, z, A \ {b}, InsertAt(s, m + 1, b), n + z[b])
         /\ NoneTouch(z, s) => TouchOnlyAt(z, InsertAt(s, m + 1, b), m)
<1> DEFINE r == InsertAt(s, m + 1, b)
           k == Len(s)
<1>0. /\ DOMAIN z \in SUBSET Nat /\ A \in SUBSET (DOMAIN z)
      /\ \A j \in 1 .. Len(s) : s[j] \in DOMAIN z /\ s[j] \notin A
      /\ \A j, h \in 1 .. Len(s) : j < h => s[j] < s[h]
      /\ \A x \in DOMAIN z : z[x] \in Nat /\ z[x] > 0
      /\ \A x, v \in DOMAIN z : x < v => x + z[x] <= v
      /\ IsFiniteSet(ToSet(s)) /\ \A x \in ToSet(s) : z[x] \in Int
  BY BooksSay
<1>1. /\ s \in Seq(Nat) /\ Ascending(s) /\ ToSet(s) = DOMAIN z \ A /\ Tiling(first, e, z)
      /\ n = FreeBytes(z, ToSet(s)) /\ k \in Nat /\ DOMAIN s = 1 .. k
  BY DEF Books, Listing
<1>2. b \in Nat /\ b \in DOMAIN z /\ b \notin ToSet(s) /\ z[b] \in Nat
  BY <1>0, <1>1
<1>3. m \in 0 .. k /\ Belongs(s, m + 1, b)
  BY <1>1, <1>2, PlaceInList DEF Preceding
<1>4. m + 1 \in 1 .. (k + 1) /\ m \in Nat
  BY <1>1, <1>3
<1>5. /\ r \in Seq(Nat) /\ Len(r) = k + 1 /\ Ascending(r) /\ ToSet(r) = ToSet(s) \cup {b}
  BY <1>1, <1>2, <1>3, <1>4, InsertedStaysAscending, Zenon
<1>6. \A j \in 1 .. (k + 1) :
         r[j] = IF j < m + 1 THEN s[j] ELSE IF j = m + 1 THEN b ELSE s[j - 1]
  <2>1. m + 1 \in 1 .. (Len(s) + 1) /\ s \in Seq(Nat) /\ b \in Nat
    BY <1>1, <1>2, <1>4
  <2> QED
    BY <2>1, Inserted
<1> HIDE DEF r, k
<1>7. Listing(z, A \ {b}, r)
  BY <1>0, <1>1, <1>2, <1>5 DEF Listing
<1>8. n + z[b] = FreeBytes(z, ToSet(r))
  <2>1. IsFiniteSet(ToSet(r)) /\ b \in ToSet(r) /\ ToSet(r) \ {b} = ToSet(s)
        /\ \A x \in ToSet(r) : z[x] \in Int
    <3>1. IsFiniteSet(ToSet(s) \cup {b})
      BY <1>0, FS_AddElement
    <3> QED
      BY <1>0, <1>2, <1>5, <3>1
  <2>2. FreeBytes(z, ToSet(r)) = z[b] + FreeBytes(z, ToSet(s))
    BY <2>1, FreeBytesAdd
  <2>3. FreeBytes(z, ToSet(s)) \in Int
    BY <1>0, FreeBytesAdd
  <2> QED
    BY <1>1, <1>2, <2>2, <2>3
<1>9. ASSUME NoneTouch(z, s), NEW j \in Nat, TouchAt(z, r, j), j # m, j # m + 1
      PROVE  FALSE
  <2>1. j \in 1 .. (k + 1) /\ j + 1 \in 1 .. (k + 1) /\ r[j] + z[r[j]] = r[j + 1]
    BY <1>1, <1>5, <1>9 DEF TouchAt
  <2>2. CASE j < m
    <3>1. j < m + 1 /\ j + 1 < m + 1 /\ j \in 1 .. k /\ j + 1 \in 1 .. k
      BY <1>1, <1>3, <2>1, <2>2
    <3>2. r[j] = s[j] /\ r[j + 1] = s[j + 1]
      BY <1>6, <2>1, <3>1
    <3> QED
      BY <1>1, <1>9, <2>1, <3>1, <3>2 DEF NoneTouch, TouchAt
  <2>3. CASE j > m + 1
    <3>1. /\ ~(j < m + 1) /\ ~(j + 1 < m + 1) /\ j # m + 1 /\ j + 1 # m + 1
          /\ j - 1 \in 1 .. k /\ j \in 1 .. k /\ (j + 1) - 1 = j /\ (j - 1) + 1 = j
          /\ j - 1 \in Nat
      BY <1>1, <1>4, <2>1, <2>3
    <3>2. r[j] = s[j - 1] /\ r[j + 1] = s[j]
      BY <1>6, <2>1, <3>1
    <3>3. TouchAt(z, s, j - 1)
      BY <1>1, <2>1, <3>1, <3>2 DEF TouchAt
    <3> QED
      BY <1>9, <3>1, <3>3 DEF NoneTouch
  <2> QED
    BY <1>4, <1>9, <2>2, <2>3
<1>10. Books(first, e, z, A \ {b}, r, n + z[b])
  BY <1>1, <1>7, <1>8 DEF Books
<1> QED
  BY <1>3, <1>9, <1>10, Zenon DEF r, k, TouchOnlyAt

(* Two free blocks that touch become one.  *)
LEMMA Joined ==
  ASSUME NEW first, NEW e, NEW z, NEW A, NEW s, NEW n, Books(first, e, z, A, s, n),
         NEW i \in Nat, TouchAt(z, s, i)
  PROVE  /\ Books(first, e, Join(z, s[i], s[i + 1]), A, RemoveAt(s, i + 1), n)
         /\ \A j \in Nat : TouchAt(Join(z, s[i], s[i + 1]), RemoveAt(s, i + 1), j)
                             => TouchAt(z, s, IF j < i THEN j ELSE j + 1)
<1> DEFINE r == RemoveAt(s, i + 1)
           b == s[i]
           c == s[i + 1]
           y == Join(z, b, c)
           k == Len(s)
<1>0. /\ DOMAIN z \in SUBSET Nat /\ A \in SUBSET (DOMAIN z)
      /\ \A j \in 1 .. Len(s) : s[j] \in DOMAIN z /\ s[j] \notin A
      /\ \A j, h \in 1 .. Len(s) : j < h => s[j] < s[h]
      /\ \A x \in DOMAIN z : z[x] \in Nat /\ z[x] > 0
      /\ \A x, v \in DOMAIN z : x < v => x + z[x] <= v
      /\ IsFiniteSet(ToSet(s)) /\ \A x \in ToSet(s) : z[x] \in Int
  BY BooksSay
<1>1. /\ s \in Seq(Nat) /\ Ascending(s) /\ ToSet(s) = DOMAIN z \ A /\ Tiling(first, e, z)
      /\ n = FreeBytes(z, ToSet(s)) /\ k \in Nat /\ DOMAIN s = 1 .. k
  BY DEF Books, Listing
<1>2. i \in 1 .. k /\ i + 1 \in 1 .. k /\ b + z[b] = c
  BY <1>1 DEF TouchAt
<1>3. /\ b \in DOMAIN z /\ c \in DOMAIN z /\ b \in Nat /\ c \in Nat /\ b < c
      /\ b \notin A /\ c \notin A /\ b \in ToSet(s) /\ c \in ToSet(s)
      /\ z[b] \in Nat /\ z[c] \in Nat
  BY <1>0, <1>1, <1>2
<1>4. /\ r \in Seq(Nat) /\ Len(r) = k - 1 /\ Ascending(r) /\ ToSet(r) = ToSet(s) \ {c}
  BY <1>1, <1>2, RemovedStaysAscending
<1>5. \A j \in 1 .. (k - 1) : r[j] = IF j < i + 1 THEN s[j] ELSE s[j + 1]
  BY <1>1, <1>2, Removed
<1>6. Tiling(first, e, y)
  BY <1>1, <1>2, <1>3, JoinTiles
<1>7. /\ DOMAIN y = DOMAIN z \ {c} /\ y[b] = z[b] + z[c]
      /\ \A x \in DOMAIN z : x # b /\ x # c => y[x] = z[x]
  BY <1>3 DEF Join
<1>8. \A j \in 1 .. k : s[j] = b => j = i
  <2> SUFFICES ASSUME NEW j \in 1 .. k, s[j] = b, j # i
               PROVE  FALSE
    OBVIOUS
  <2>1. j < i \/ i < j
    BY <1>2
  <2>2. s[j] < s[i] \/ s[i] < s[j]
    BY <1>0, <1>2, <2>1
  <2> QED
    BY <1>3, <2>2
<1> HIDE DEF r, b, c, y, k
<1>9. Listing(y, A, r)
  BY <1>0, <1>1, <1>3, <1>4, <1>7 DEF Listing
<1>10. n = FreeBytes(y, ToSet(r))
  <2> DEFINE S == ToSet(s) \ {c}
             T == S \ {b}
  <2>1. FreeBytes(z, ToSet(s)) = z[c] + FreeBytes(z, S)
    BY <1>0, <1>3, FreeBytesAdd
  <2>2. /\ IsFiniteSet(S) /\ \A x \in S : z[x] \in Int /\ y[x] \in Int
        /\ b \in S
    <3>1. IsFiniteSet(S)
      BY <1>0, FS_RemoveElement
    <3>2. \A x \in S : x \in DOMAIN z /\ x # c /\ z[x] \in Int
      BY <1>0, <1>1
    <3>3. \A x \in S : y[x] \in Int
      BY <1>3, <1>7, <3>2
    <3> QED
      BY <1>3, <3>1, <3>2, <3>3
  <2>3. /\ FreeBytes(z, S) = z[b] + FreeBytes(z, T)
        /\ FreeBytes(y, S) = y[b] + FreeBytes(y, T)
    BY <2>2, FreeBytesAdd
  <2>4. IsFiniteSet(T) /\ \A x \in T : y[x] = z[x] /\ z[x] \in Int
    <3>1. IsFiniteSet(T)
      BY <2>2, FS_RemoveElement
    <3>2. \A x \in T : x \in DOMAIN z /\ x # c /\ x # b
      BY <1>1
    <3> QED
      BY <1>7, <2>2, <3>1, <3>2
  <2>5. FreeBytes(y, T) = FreeBytes(z, T) /\ FreeBytes(z, T) \in Int
    BY <2>4, FreeBytesAgree, FreeBytesAdd
  <2>6. ToSet(r) = S
    BY <1>4
  <2> HIDE DEF S, T
  <2> QED
    BY <1>1, <1>3, <1>7, <2>1, <2>3, <2>5, <2>6
<1>11. ASSUME NEW j \in Nat, TouchAt(y, r, j)
       PROVE  TouchAt(z, s, IF j < i THEN j ELSE j + 1)
  <2>1. j \in 1 .. (k - 1) /\ j + 1 \in 1 .. (k - 1) /\ r[j] + y[r[j]] = r[j + 1]
    BY <1>1, <1>4, <1>11 DEF TouchAt
  <2>2. CASE j < i
    <3>1. /\ j < i + 1 /\ j + 1 < i + 1 /\ j \in 1 .. k /\ j + 1 \in 1 .. k
          /\ j # i /\ j # i + 1
      BY <1>1, <1>2, <2>1, <2>2
    <3>2. r[j] = s[j] /\ r[j + 1] = s[j + 1]
      BY <1>5, <2>1, <3>1
    <3>3. s[j] \in DOMAIN z /\ s[j] # b /\ s[j] # c
      <4>1. s[j] \in DOMAIN z /\ s[j] < s[i + 1] /\ s[j] \in Nat
        BY <1>0, <1>2, <3>1 DEF k
      <4> QED
        BY <1>3, <1>8, <3>1, <4>1 DEF c
    <3>4. s[j] + z[s[j]] = s[j + 1]
      BY <1>7, <2>1, <3>2, <3>3
    <3>5. TouchAt(z, s, j)
      BY <1>1, <3>1, <3>4 DEF TouchAt
    <3> QED
      BY <2>2, <3>5
  <2>3. CASE j = i
    <3>1. /\ j < i + 1 /\ ~(j + 1 < i + 1) /\ j + 1 \in 1 .. k /\ (j + 1) + 1 \in 1 .. k
          /\ ~(j < i)
      BY <1>1, <1>2, <2>1, <2>3
    <3>2. r[j] = b /\ r[j + 1] = s[(j + 1) + 1] /\ s[j + 1] = c
      BY <1>5, <2>1, <2>3, <3>1 DEF b, c
    <3>3. c + z[c] = s[(j + 1) + 1]
      BY <1>2, <1>3, <1>7, <2>1, <3>2
    <3>4. TouchAt(z, s, j + 1)
      BY <1>1, <3>1, <3>2, <3>3 DEF TouchAt
    <3> QED
      BY <3>1, <3>4
  <2>4. CASE j > i
    <3>1. /\ ~(j < i + 1) /\ ~(j + 1 < i + 1) /\ j + 1 \in 1 .. k /\ (j + 1) + 1 \in 1 .. k
          /\ ~(j < i) /\ j + 1 # i /\ i + 1 < j + 1 /\ j + 1 \in Nat
      BY <1>1, <1>2, <2>1, <2>4
    <3>2. r[j] = s[j + 1] /\ r[j + 1] = s[(j + 1) + 1]
      BY <1>5, <2>1, <3>1
    <3>3. s[j + 1] \in DOMAIN z /\ s[j + 1] # b /\ s[j + 1] # c
      <4>1. s[j + 1] \in DOMAIN z /\ s[i + 1] < s[j + 1] /\ s[j + 1] \in Nat
        BY <1>0, <1>2, <3>1 DEF k
      <4> QED
        BY <1>3, <1>8, <3>1, <4>1 DEF c
    <3>4. s[j + 1] + z[s[j + 1]] = s[(j + 1) + 1]
      BY <1>7, <2>1, <3>2, <3>3
    <3>5. TouchAt(z, s, j + 1)
      BY <1>1, <3>1, <3>4 DEF TouchAt
    <3> QED
      BY <3>1, <3>5
  <2> QED
    BY <2>1, <2>2, <2>3, <2>4
<1>12. Books(first, e, y, A, r, n)
  BY <1>6, <1>9, <1>10 DEF Books
<1> QED
  BY <1>11, <1>12, Zenon DEF y, r, b, c

-----------------------------------------------------------------------------
(* Multiples of the alignment.  *)

Aligned(n) == n % portBYTE_ALIGNMENT = 0

LEMMA MultiplesAreAligned ==
  ASSUME NEW n \in Int, NEW q \in Int, n = q * portBYTE_ALIGNMENT
  PROVE  Aligned(n)
<1> DEFINE m == portBYTE_ALIGNMENT
<1>1. m \in Nat /\ m > 0
  BY HeapAssumption
<1> HIDE DEF m
<1>2. /\ n = m * (n \div m) + (n % m) /\ n \div m \in Int
      /\ n % m \in Nat /\ n % m < m
  BY <1>1, Z3
<1> DEFINE d == q - (n \div m)
<1>3. d \in Int /\ n % m = d * m
  BY <1>1, <1>2, Z3 DEF m
<1> HIDE DEF d
<1>4. d = 0
  BY <1>1, <1>2, <1>3, Z3
<1>5. n % m = 0
  BY <1>1, <1>3, <1>4, Z3
<1> QED
  BY <1>5 DEF Aligned, m

LEMMA AlignedAreMultiples ==
  ASSUME NEW n \in Int, Aligned(n)
  PROVE  \E q \in Int : n = q * portBYTE_ALIGNMENT
<1> DEFINE m == portBYTE_ALIGNMENT
<1>1. m \in Nat /\ m > 0 /\ n % m = 0
  BY HeapAssumption DEF Aligned
<1> HIDE DEF m
<1>2. n = (n \div m) * m /\ n \div m \in Int
  BY <1>1, Z3
<1> QED
  BY <1>2 DEF m

LEMMA SumsAreAligned ==
  ASSUME NEW a \in Int, NEW b \in Int, Aligned(a), Aligned(b)
  PROVE  Aligned(a + b)
<1> DEFINE m == portBYTE_ALIGNMENT
<1>1. m \in Nat
  BY HeapAssumption
<1>2. PICK q \in Int : a = q * m
  BY AlignedAreMultiples
<1>3. PICK r \in Int : b = r * m
  BY AlignedAreMultiples
<1>4. a + b = (q + r) * m /\ q + r \in Int /\ a + b \in Int
  <2> HIDE DEF m
  <2> QED
    BY <1>1, <1>2, <1>3, Z3
<1> HIDE DEF m
<1> QED
  BY <1>4, MultiplesAreAligned DEF m

LEMMA UpIsAligned ==
  ASSUME NEW n \in Nat
  PROVE  Up(n) \in Nat /\ Up(n) >= n /\ Aligned(Up(n))
<1> DEFINE m == portBYTE_ALIGNMENT
           k == n + m - 1
<1>1. m \in Nat /\ m > 0 /\ k \in Nat
  BY HeapAssumption
<1>2. PICK q \in Nat : Down(k) = q * m /\ k < (q + 1) * m
  BY <1>1, DownIs
<1>3. (q + 1) * m = q * m + m /\ q * m \in Nat
  <2> HIDE DEF m, k
  <2> QED
    BY <1>1, Z3
<1>4. Up(n) = q * m /\ q * m >= n
  <2>1. Up(n) = Down(k)
    BY DEF Up
  <2>2. k = n + m - 1
    OBVIOUS
  <2> DEFINE p == q * m
  <2>3. k < p + m /\ p \in Nat
    BY <1>2, <1>3
  <2> HIDE DEF m, k, p
  <2>4. p >= n
    BY <1>1, <2>2, <2>3
  <2> QED
    BY <1>2, <2>1, <2>4 DEF p
<1> HIDE DEF m
<1>5. Aligned(q * m)
  BY <1>3, MultiplesAreAligned DEF m
<1> QED
  BY <1>3, <1>4, <1>5

LEMMA HeaderIsAligned == xHeapStructSize \in Nat /\ xHeapStructSize > 0 /\ Aligned(xHeapStructSize)
BY HeapAssumption, HeaderIsPositive, UpIsAligned DEF xHeapStructSize

LEMMA BlockSizeHolds ==
  ASSUME NEW size \in Nat
  PROVE  /\ BlockSizeFor(size) \in Nat /\ BlockSizeFor(size) > 0
         /\ BlockSizeFor(size) >= xHeapStructSize + size
         /\ Aligned(BlockSizeFor(size))
<1>1. size + xHeapStructSize \in Nat /\ xHeapStructSize \in Nat
  BY HeaderIsPositive
<1>2. BlockSizeFor(size) \in Nat /\ BlockSizeFor(size) > 0
  BY BlockSizeIsPositive
<1>3. Up(size + xHeapStructSize) >= size + xHeapStructSize /\ Aligned(Up(size + xHeapStructSize))
  BY <1>1, UpIsAligned
<1> QED
  BY <1>1, <1>2, <1>3 DEF BlockSizeFor

-----------------------------------------------------------------------------
(* What the allocator keeps.  *)

HasFields(h) ==
    DOMAIN h = {"first", "pxEnd", "xBlockSize", "allocated", "free", "xFreeBytesRemaining"}

InBooks(h) ==
    /\ HasFields(h)
    /\ Books(h.first, h.pxEnd, h.xBlockSize, h.allocated, h.free, h.xFreeBytesRemaining)

HeapInv(h) == InBooks(h) /\ NoneTouch(h.xBlockSize, h.free)

(* h became g, and the blocks of A are as they were.  *)
Keeps(h, g, A) ==
    /\ g.first = h.first /\ g.pxEnd = h.pxEnd
    /\ \A b \in A : b \in DOMAIN g.xBlockSize /\ g.xBlockSize[b] = h.xBlockSize[b]

LEMMA TouchesIs == ASSUME NEW h, NEW i PROVE Touches(h, i) <=> TouchAt(h.xBlockSize, h.free, i)
BY DEF Touches, TouchAt

LEMMA AbsorbIs ==
  ASSUME NEW h, NEW i, HasFields(h)
  PROVE  LET g == AbsorbNext(h, i)
         IN /\ HasFields(g) /\ g.first = h.first /\ g.pxEnd = h.pxEnd
            /\ g.allocated = h.allocated /\ g.xFreeBytesRemaining = h.xFreeBytesRemaining
            /\ g.xBlockSize = Join(h.xBlockSize, h.free[i], h.free[i + 1])
            /\ g.free = RemoveAt(h.free, i + 1)
<1> DEFINE z == h.xBlockSize
           s == h.free
           y == Join(z, s[i], s[i + 1])
           r == RemoveAt(s, i + 1)
<1>1. AbsorbNext(h, i) = [h EXCEPT !.xBlockSize = y, !.free = r]
  <2>1. y = [b \in DOMAIN z \ {s[i + 1]} |->
                IF b = s[i] THEN z[s[i]] + z[s[i + 1]] ELSE z[b]]
    BY DEF Join
  <2> QED
    BY <2>1, Zenon DEF AbsorbNext
<1> HIDE DEF z, s, y, r
<1>2. LET g == [h EXCEPT !.xBlockSize = y, !.free = r]
      IN /\ HasFields(g) /\ g.first = h.first /\ g.pxEnd = h.pxEnd
         /\ g.allocated = h.allocated /\ g.xFreeBytesRemaining = h.xFreeBytesRemaining
         /\ g.xBlockSize = y /\ g.free = r
  BY DEF HasFields
<1> QED
  BY <1>1, <1>2 DEF z, s, y, r

LEMMA AbsorbKeeps ==
  ASSUME NEW h, InBooks(h), NEW i \in Nat, Touches(h, i)
  PROVE  /\ InBooks(AbsorbNext(h, i))
         /\ AbsorbNext(h, i).allocated = h.allocated
         /\ Keeps(h, AbsorbNext(h, i), h.allocated)
         /\ \A j \in Nat : Touches(AbsorbNext(h, i), j) => Touches(h, IF j < i THEN j ELSE j + 1)
<1> DEFINE z == h.xBlockSize
           s == h.free
           A == h.allocated
           g == AbsorbNext(h, i)
<1>1. /\ HasFields(g) /\ g.first = h.first /\ g.pxEnd = h.pxEnd
      /\ g.allocated = A /\ g.xFreeBytesRemaining = h.xFreeBytesRemaining
      /\ g.xBlockSize = Join(z, s[i], s[i + 1])
      /\ g.free = RemoveAt(s, i + 1)
  BY AbsorbIs DEF InBooks
<1>2. Books(h.first, h.pxEnd, z, A, s, h.xFreeBytesRemaining) /\ TouchAt(z, s, i)
  BY TouchesIs DEF InBooks
<1>3. /\ Books(h.first, h.pxEnd, Join(z, s[i], s[i + 1]), A, RemoveAt(s, i + 1),
               h.xFreeBytesRemaining)
      /\ \A j \in Nat : TouchAt(Join(z, s[i], s[i + 1]), RemoveAt(s, i + 1), j)
                             => TouchAt(z, s, IF j < i THEN j ELSE j + 1)
  BY <1>2, Joined
<1>4. InBooks(g)
  BY <1>1, <1>3, Zenon DEF InBooks
<1>5. \A j \in Nat : Touches(g, j) => Touches(h, IF j < i THEN j ELSE j + 1)
  BY <1>1, <1>3, TouchesIs, Zenon
<1>6. ASSUME NEW b \in A
      PROVE  b \in DOMAIN g.xBlockSize /\ g.xBlockSize[b] = z[b]
  <2>1. /\ A \in SUBSET (DOMAIN z) /\ DOMAIN s = 1 .. Len(s)
        /\ \A j \in 1 .. Len(s) : s[j] \notin A
    BY <1>2, BooksSay
  <2>2. s[i] \notin A /\ s[i + 1] \notin A
    BY <1>2, <2>1 DEF TouchAt
  <2> HIDE DEF z, s, A, g
  <2> QED
    BY <1>1, <2>1, <2>2 DEF Join
<1> QED
  BY <1>1, <1>4, <1>5, <1>6 DEF Keeps

-----------------------------------------------------------------------------
(* Free: at most the two neighbours touch, and both are joined.  *)

LEMMA InsertKeeps ==
  ASSUME NEW h, HasFields(h), NEW n, NEW block \in h.allocated,
         Books(h.first, h.pxEnd, h.xBlockSize, h.allocated, h.free, n),
         NoneTouch(h.xBlockSize, h.free),
         NEW g, g = [h EXCEPT !.allocated = h.allocated \ {block},
                              !.xFreeBytesRemaining = n + h.xBlockSize[block]]
  PROVE  /\ HeapInv(prvInsertBlockIntoFreeList(g, block))
         /\ prvInsertBlockIntoFreeList(g, block).allocated = h.allocated \ {block}
         /\ Keeps(h, prvInsertBlockIntoFreeList(g, block), h.allocated \ {block})
<1> DEFINE z == h.xBlockSize
           s == h.free
           A == h.allocated
           B == A \ {block}
           m == Before(g, block)
           r == InsertAt(s, m + 1, block)
           list == [g EXCEPT !.free = InsertAt(@, m + 1, block)]
<1>1. /\ HasFields(g) /\ g.first = h.first /\ g.pxEnd = h.pxEnd
      /\ g.xBlockSize = z /\ g.free = s /\ g.allocated = B
      /\ g.xFreeBytesRemaining = n + z[block]
  BY DEF HasFields
<1>2. m = Preceding(s, block)
  BY <1>1, Zenon DEF Before, Preceding
<1>3. /\ m \in 0 .. Len(s)
      /\ Books(h.first, h.pxEnd, z, B, r, n + z[block])
      /\ TouchOnlyAt(z, r, m)
  <2>1. Books(h.first, h.pxEnd, z, A, s, n) /\ block \in A /\ NoneTouch(z, s)
    OBVIOUS
  <2> HIDE DEF m, z, s, A
  <2>2. /\ m \in 0 .. Len(s)
        /\ Books(h.first, h.pxEnd, z, A \ {block}, InsertAt(s, m + 1, block), n + z[block])
        /\ NoneTouch(z, s) => TouchOnlyAt(z, InsertAt(s, m + 1, block), m)
    BY <1>2, <2>1, Returned
  <2> QED
    BY <2>1, <2>2 DEF r, B, z, s, A
<1>4. list = [g EXCEPT !.free = r]
  BY <1>1, Zenon
<1> HIDE DEF r, m, list, B
<1>5. /\ HasFields(list) /\ list.first = h.first /\ list.pxEnd = h.pxEnd
      /\ list.xBlockSize = z /\ list.free = r /\ list.allocated = B
      /\ list.xFreeBytesRemaining = n + z[block]
  BY <1>1, <1>4 DEF HasFields
<1>6. InBooks(list)
  BY <1>3, <1>5, Zenon DEF InBooks
<1>7. m \in Nat
  BY <1>3
<1>8. \A j \in Nat : Touches(list, j) => j = m \/ j = m + 1
  BY <1>3, <1>5, TouchesIs, Zenon DEF TouchOnlyAt
<1> DEFINE joined == Touches(list, m)
           left == IF joined THEN AbsorbNext(list, m) ELSE list
           at == IF joined THEN m ELSE m + 1
           final == IF Touches(left, at) THEN AbsorbNext(left, at) ELSE left
<1>9. prvInsertBlockIntoFreeList(g, block) = final
  BY Zenon DEF prvInsertBlockIntoFreeList, list, m
<1>10. Keeps(h, list, B) /\ list.allocated = B
  <2>1. A \in SUBSET DOMAIN z
    BY BooksSay
  <2> QED
    BY <1>5, <2>1 DEF Keeps, B
<1>11. /\ InBooks(left) /\ left.allocated = B /\ Keeps(h, left, B) /\ at \in Nat
       /\ \A j \in Nat : Touches(left, j) => j = at
  <2>1. CASE joined
    <3>1. left = AbsorbNext(list, m) /\ at = m
      BY <2>1
    <3>2. /\ InBooks(left) /\ left.allocated = B /\ Keeps(list, left, B)
          /\ \A j \in Nat : Touches(left, j) => Touches(list, IF j < m THEN j ELSE j + 1)
      BY <1>6, <1>7, <1>10, <2>1, <3>1, AbsorbKeeps
    <3>3. Keeps(h, left, B)
      BY <1>10, <3>2 DEF Keeps
    <3> HIDE DEF left, at
    <3>4. ASSUME NEW j \in Nat, Touches(left, j)
          PROVE  j = m
      <4>1. CASE j < m
        <5>1. Touches(list, j)
          BY <3>2, <3>4, <4>1
        <5> QED
          BY <1>7, <1>8, <4>1, <5>1
      <4>2. CASE ~(j < m)
        <5>1. Touches(list, j + 1) /\ j + 1 \in Nat
          BY <3>2, <3>4, <4>2
        <5>2. j + 1 = m \/ j + 1 = m + 1
          BY <1>8, <5>1
        <5> QED
          BY <1>7, <4>2, <5>2
      <4> QED
        BY <4>1, <4>2
    <3> QED
      BY <1>7, <3>1, <3>2, <3>3, <3>4
  <2>2. CASE ~joined
    <3>1. left = list /\ at = m + 1
      BY <2>2
    <3> HIDE DEF left, at
    <3>2. \A j \in Nat : Touches(left, j) => j = at
      BY <1>8, <2>2, <3>1
    <3> QED
      BY <1>6, <1>7, <1>10, <3>1, <3>2
  <2> QED
    BY <2>1, <2>2
<1> HIDE DEF left, at
<1>12. /\ InBooks(final) /\ final.allocated = B /\ Keeps(h, final, B)
       /\ \A j \in Nat : ~Touches(final, j)
  <2>1. CASE Touches(left, at)
    <3>1. final = AbsorbNext(left, at)
      BY <2>1
    <3>2. /\ InBooks(final) /\ final.allocated = B /\ Keeps(left, final, B)
          /\ \A j \in Nat : Touches(final, j) => Touches(left, IF j < at THEN j ELSE j + 1)
      BY <1>11, <2>1, <3>1, AbsorbKeeps
    <3>3. Keeps(h, final, B)
      BY <1>11, <3>2 DEF Keeps
    <3> HIDE DEF final
    <3>4. ASSUME NEW j \in Nat, Touches(final, j)
          PROVE  FALSE
      <4>1. CASE j < at
        <5>1. Touches(left, j)
          BY <3>2, <3>4, <4>1
        <5> QED
          BY <1>11, <4>1, <5>1
      <4>2. CASE ~(j < at)
        <5>1. Touches(left, j + 1) /\ j + 1 \in Nat
          BY <3>2, <3>4, <4>2
        <5>2. j + 1 = at
          BY <1>11, <5>1
        <5> QED
          BY <1>11, <4>2, <5>2
      <4> QED
        BY <4>1, <4>2
    <3> QED
      BY <3>2, <3>3, <3>4
  <2>2. CASE ~Touches(left, at)
    <3>1. final = left
      BY <2>2
    <3> HIDE DEF final
    <3> QED
      BY <1>11, <2>2, <3>1
  <2> QED
    BY <2>1, <2>2
<1> HIDE DEF final
<1>13. HeapInv(final)
  BY <1>12, TouchesIs, Zenon DEF HeapInv, NoneTouch
<1> QED
  BY <1>9, <1>12, <1>13, Zenon DEF B

LEMMA FreeKeeps ==
  ASSUME NEW h, HeapInv(h), NEW at, BlockOf(at) \in h.allocated
  PROVE  /\ HeapInv(vPortFree(h, at))
         /\ vPortFree(h, at).allocated = h.allocated \ {BlockOf(at)}
         /\ Keeps(h, vPortFree(h, at), h.allocated \ {BlockOf(at)})
<1> DEFINE block == BlockOf(at)
           n == h.xFreeBytesRemaining
           g == [h EXCEPT !.allocated = h.allocated \ {block},
                          !.xFreeBytesRemaining = n + h.xBlockSize[block]]
<1>1. vPortFree(h, at) = prvInsertBlockIntoFreeList(g, block)
  BY Zenon DEF vPortFree
<1>2. /\ HasFields(h) /\ NoneTouch(h.xBlockSize, h.free)
      /\ Books(h.first, h.pxEnd, h.xBlockSize, h.allocated, h.free, n)
  BY DEF HeapInv, InBooks
<1> HIDE DEF block, g, n
<1>3. /\ HeapInv(prvInsertBlockIntoFreeList(g, block))
      /\ prvInsertBlockIntoFreeList(g, block).allocated = h.allocated \ {block}
      /\ Keeps(h, prvInsertBlockIntoFreeList(g, block), h.allocated \ {block})
  <2>1. block \in h.allocated
    BY DEF block
  <2> QED
    BY <1>2, <2>1, InsertKeeps DEF g
<1> QED
  BY <1>1, <1>3 DEF block

-----------------------------------------------------------------------------
(* Malloc: a free block that is large enough, whole or in part.            *)

LEMMA TakeIs ==
  ASSUME NEW h, NEW i, NEW need, HasFields(h), h.free[i] + need # h.free[i]
  PROVE  LET g == Take(h, i, need)
             b == h.free[i]
         IN /\ HasFields(g) /\ g.first = h.first /\ g.pxEnd = h.pxEnd
            /\ g.allocated = h.allocated \cup {b}
            /\ IsSplit(h.xBlockSize[b] - need) =>
                  /\ g.xBlockSize = Split(h.xBlockSize, b, need)
                  /\ g.free = InsertAt(RemoveAt(h.free, i), i, b + need)
                  /\ g.xFreeBytesRemaining = h.xFreeBytesRemaining - need
            /\ ~IsSplit(h.xBlockSize[b] - need) =>
                  /\ g.xBlockSize = h.xBlockSize
                  /\ g.free = RemoveAt(h.free, i)
                  /\ g.xFreeBytesRemaining = h.xFreeBytesRemaining - h.xBlockSize[b]
<1> DEFINE b == h.free[i]
           z == h.xBlockSize
           n == h.xFreeBytesRemaining
           B == h.allocated \cup {b}
           taken == [h EXCEPT !.allocated = @ \cup {b}]
           y == Split(z, b, need)
           r == RemoveAt(h.free, i)
           t == InsertAt(r, i, b + need)
           cases == [x \in DOMAIN z \cup {b + need} |->
                        CASE x = b        -> need
                          [] x = b + need -> z[b] - need
                          [] OTHER        -> z[x]]
<1>1. /\ HasFields(taken) /\ taken.first = h.first /\ taken.pxEnd = h.pxEnd
      /\ taken.allocated = B /\ taken.xBlockSize = z /\ taken.free = h.free
      /\ taken.xFreeBytesRemaining = n
  BY DEF HasFields
<1>2. cases = y
  <2>1. ASSUME NEW x
        PROVE  (CASE x = b -> need [] x = b + need -> z[b] - need [] OTHER -> z[x])
                 = IF x = b THEN need ELSE IF x = b + need THEN z[b] - need ELSE z[x]
    <3>1. CASE x = b
      <4>1. x # b + need
        BY <3>1
      <4> HIDE DEF b, z
      <4> QED
        BY <3>1, <4>1, Zenon
    <3>2. CASE x = b + need
      <4>1. x # b
        BY <3>2
      <4> HIDE DEF b, z
      <4> QED
        BY <3>2, <4>1, Zenon
    <3>3. CASE x # b /\ x # b + need
      <4> HIDE DEF b, z
      <4> QED
        BY <3>3, Zenon
    <3> QED
      BY <3>1, <3>2, <3>3
  <2> QED
    BY <2>1 DEF Split
<1>3. CASE IsSplit(z[b] - need)
  <2>1. Take(h, i, need) = [taken EXCEPT !.xBlockSize = cases, !.free = t,
                                         !.xFreeBytesRemaining = n - need]
    <3>1. Take(h, i, need) =
            [taken EXCEPT !.xBlockSize = [x \in DOMAIN @ \cup {b + need} |->
                                             CASE x = b        -> need
                                               [] x = b + need -> z[b] - need
                                               [] OTHER        -> @[x]],
                          !.free = t, !.xFreeBytesRemaining = @ - need]
      BY <1>3, Zenon DEF Take
    <3> DEFINE same == [x \in DOMAIN taken.xBlockSize \cup {b + need} |->
                           CASE x = b        -> need
                             [] x = b + need -> z[b] - need
                             [] OTHER        -> taken.xBlockSize[x]]
    <3>2. Take(h, i, need) = [taken EXCEPT !.xBlockSize = same, !.free = t,
                                           !.xFreeBytesRemaining = @ - need]
      BY <3>1, Zenon
    <3>3. same = cases
      <4> HIDE DEF taken, b
      <4> QED
        BY <1>1
    <3> HIDE DEF taken, t, same, cases
    <3> QED
      BY <1>1, <3>2, <3>3, Zenon
  <2> HIDE DEF taken, cases, y, t, n, r
  <2>2. LET g == [taken EXCEPT !.xBlockSize = y, !.free = t, !.xFreeBytesRemaining = n - need]
        IN /\ HasFields(g) /\ g.first = taken.first /\ g.pxEnd = taken.pxEnd
           /\ g.allocated = taken.allocated /\ g.xBlockSize = y /\ g.free = t
           /\ g.xFreeBytesRemaining = n - need
    BY <1>1 DEF HasFields
  <2> QED
    BY <1>1, <1>2, <1>3, <2>1, <2>2 DEF y, t, n, r
<1>4. CASE ~IsSplit(z[b] - need)
  <2>1. Take(h, i, need) = [taken EXCEPT !.free = r, !.xFreeBytesRemaining = n - z[b]]
    <3>1. Take(h, i, need) = [taken EXCEPT !.free = r, !.xFreeBytesRemaining = @ - z[b]]
      BY <1>4, Zenon DEF Take
    <3> HIDE DEF taken
    <3> QED
      BY <1>1, <3>1, Zenon
  <2> HIDE DEF taken, n, r
  <2>2. LET g == [taken EXCEPT !.free = r, !.xFreeBytesRemaining = n - z[b]]
        IN /\ HasFields(g) /\ g.first = taken.first /\ g.pxEnd = taken.pxEnd
           /\ g.allocated = taken.allocated /\ g.xBlockSize = taken.xBlockSize /\ g.free = r
           /\ g.xFreeBytesRemaining = n - z[b]
    BY <1>1 DEF HasFields
  <2> QED
    BY <1>1, <1>4, <2>1, <2>2 DEF n, r
<1> QED
  BY <1>3, <1>4

LEMMA TakeKeeps ==
  ASSUME NEW h, HeapInv(h), NEW i \in 1 .. Len(h.free), NEW need \in Nat, need > 0, Aligned(need),
         need <= h.xBlockSize[h.free[i]]
  PROVE  LET g == Take(h, i, need)
             b == h.free[i]
         IN /\ HeapInv(g) /\ g.allocated = h.allocated \cup {b} /\ Keeps(h, g, h.allocated)
            /\ b \notin h.allocated /\ b \in Nat /\ g.xBlockSize[b] \in Nat /\ g.xBlockSize[b] >= need
<1> DEFINE g == Take(h, i, need)
           b == h.free[i]
           z == h.xBlockSize
           s == h.free
           A == h.allocated
           n == h.xFreeBytesRemaining
<1>0. /\ HasFields(h) /\ NoneTouch(z, s) /\ Books(h.first, h.pxEnd, z, A, s, n)
      /\ i \in 1 .. Len(s)
  BY DEF HeapInv, InBooks
<1>1. /\ DOMAIN z \in SUBSET Nat /\ A \in SUBSET (DOMAIN z)
      /\ \A j \in 1 .. Len(s) : s[j] \in DOMAIN z /\ s[j] \notin A
      /\ \A x \in DOMAIN z : z[x] \in Nat /\ z[x] > 0
  <2> HIDE DEF z, s, A, n
  <2> QED
    BY <1>0, BooksSay
<1>2. b \in DOMAIN z /\ b \notin A /\ b \in Nat /\ z[b] \in Nat /\ b = s[i] /\ b + need # b
  BY <1>0, <1>1
<1>3. /\ HasFields(g) /\ g.first = h.first /\ g.pxEnd = h.pxEnd
      /\ g.allocated = A \cup {b}
      /\ IsSplit(z[b] - need) =>
            /\ g.xBlockSize = Split(z, b, need)
            /\ g.free = InsertAt(RemoveAt(s, i), i, b + need)
            /\ g.xFreeBytesRemaining = n - need
      /\ ~IsSplit(z[b] - need) =>
            /\ g.xBlockSize = z
            /\ g.free = RemoveAt(s, i)
            /\ g.xFreeBytesRemaining = n - z[b]
  BY <1>0, <1>2, TakeIs
<1>4. need <= z[b]
  OBVIOUS
<1> HIDE DEF g, b, z, s, A, n
<1>5. CASE IsSplit(z[b] - need)
  <2>1. need < z[b]
    BY <1>2, <1>5, HeaderIsPositive DEF IsSplit, heapMINIMUM_BLOCK_SIZE
  <2>2. (b + need) % portBYTE_ALIGNMENT = 0
    <3>1. Tiling(h.first, h.pxEnd, z)
      BY <1>0 DEF Books
    <3>2. Aligned(b)
      BY <1>2, <3>1 DEF Tiling, Aligned
    <3>3. b \in Int /\ need \in Int /\ Aligned(need)
      BY <1>2
    <3>4. Aligned(b + need)
      BY <3>2, <3>3, SumsAreAligned
    <3> QED
      BY <3>4 DEF Aligned
  <2>3. /\ Books(h.first, h.pxEnd, Split(z, s[i], need), A \cup {s[i]},
                  InsertAt(RemoveAt(s, i), i, s[i] + need), n - need)
        /\ NoneTouch(z, s) => NoneTouch(Split(z, s[i], need),
                                         InsertAt(RemoveAt(s, i), i, s[i] + need))
        /\ s[i] + need \notin DOMAIN z
    <3>1. need < z[s[i]] /\ (s[i] + need) % portBYTE_ALIGNMENT = 0
      BY <1>2, <2>1, <2>2
    <3> QED
      BY <1>0, <3>1, TakenPart
  <2>4. HeapInv(g)
    BY <1>0, <1>2, <1>3, <1>5, <2>3, Zenon DEF HeapInv, InBooks
  <2>5. \A x \in A : x \in DOMAIN g.xBlockSize /\ g.xBlockSize[x] = z[x]
    <3> TAKE x \in A
    <3>1. x \in DOMAIN z /\ x # b /\ x # b + need
      BY <1>1, <1>2, <2>3
    <3> QED
      BY <1>3, <1>5, <3>1 DEF Split
  <2>6. g.xBlockSize[b] = need
    BY <1>2, <1>3, <1>5 DEF Split
  <2> QED
    BY <1>2, <1>3, <2>4, <2>5, <2>6 DEF Keeps, g, b, z, A
<1>6. CASE ~IsSplit(z[b] - need)
  <2>1. /\ Books(h.first, h.pxEnd, z, A \cup {s[i]}, RemoveAt(s, i), n - z[s[i]])
        /\ NoneTouch(z, s) => NoneTouch(z, RemoveAt(s, i))
    BY <1>0, TakenWhole
  <2>2. HeapInv(g)
    BY <1>0, <1>2, <1>3, <1>6, <2>1, Zenon DEF HeapInv, InBooks
  <2>3. Keeps(h, g, A)
    BY <1>1, <1>3, <1>6 DEF Keeps, z
  <2> QED
    BY <1>2, <1>3, <1>4, <1>6, <2>2, <2>3 DEF g, b, z, A
<1> QED
  BY <1>5, <1>6

(* A request is refused, and changes nothing, or a block is handed out     *)
(* that was free and is large enough.                                      *)
Given(h, g, at, bytes) ==
    /\ HeapInv(h) /\ HeapInv(g) /\ at # NULL /\ at \in Nat
    /\ BlockOf(at) \notin h.allocated /\ g.allocated = h.allocated \cup {BlockOf(at)}
    /\ g.xBlockSize[BlockOf(at)] >= xHeapStructSize + bytes
    /\ Keeps(h, g, h.allocated)

LEMMA MallocGives ==
  ASSUME NEW h, HeapInv(h), NEW bytes \in Nat
  PROVE  LET made == pvPortMalloc(h, bytes)
         IN \/ made.at = NULL /\ made.heap = h
            \/ Given(h, made.heap, made.at, bytes)
<1> DEFINE need == BlockSizeFor(bytes)
           z == h.xBlockSize
           s == h.free
           fits == {i \in DOMAIN s : z[s[i]] >= need}
           i == Min(fits)
           made == pvPortMalloc(h, bytes)
<1>1. need \in Nat /\ need > 0 /\ need >= xHeapStructSize + bytes /\ Aligned(need)
  BY BlockSizeHolds
<1>2. CASE bytes = 0 \/ need > h.xFreeBytesRemaining \/ fits = {}
  BY <1>2, Zenon DEF pvPortMalloc, Refused
<1>3. CASE ~(bytes = 0 \/ need > h.xFreeBytesRemaining \/ fits = {})
  <2>1. made = [heap |-> Take(h, i, need), at |-> After(s[i])]
    BY <1>3, Zenon DEF pvPortMalloc
  <2>3. Books(h.first, h.pxEnd, z, h.allocated, s, h.xFreeBytesRemaining)
    BY DEF HeapInv, InBooks
  <2>4. /\ Len(s) \in Nat /\ DOMAIN s = 1 .. Len(s)
        /\ \A j \in 1 .. Len(s) : s[j] \in DOMAIN z
        /\ \A x \in DOMAIN z : z[x] \in Nat
    BY <2>3, BooksSay
  <2>5. fits \in SUBSET Nat
    BY <2>4
  <2>6. i \in fits
    <3> HIDE DEF fits
    <3> QED
      BY <1>3, <2>5, MinIsLeast
  <2> HIDE DEF i, need
  <2>7. i \in 1 .. Len(h.free) /\ need <= h.xBlockSize[h.free[i]]
    BY <1>1, <2>4, <2>6
  <2> DEFINE b == h.free[i]
             g == Take(h, i, need)
  <2>8. /\ HeapInv(g) /\ g.allocated = h.allocated \cup {b} /\ Keeps(h, g, h.allocated)
        /\ b \notin h.allocated /\ b \in Nat /\ g.xBlockSize[b] \in Nat /\ g.xBlockSize[b] >= need
    BY <1>1, <2>7, TakeKeeps
  <2> HIDE DEF b, g, made
  <2>9. made.heap = g /\ made.at = After(b)
    BY <2>1 DEF b, g
  <2>10. BlockOf(After(b)) = b /\ After(b) \in Nat /\ After(b) # NULL
    BY <2>8, HeaderIsPositive DEF BlockOf, After, NULL
  <2>11. g.xBlockSize[b] >= xHeapStructSize + bytes
    BY <1>1, <2>8, HeaderIsPositive
  <2>12. Given(h, g, After(b), bytes)
    BY <2>8, <2>10, <2>11, Zenon DEF Given
  <2> QED
    BY <2>9, <2>12, Zenon DEF made
<1> QED
  BY <1>2, <1>3

LEMMA HeapStartsInOrder ==
  ASSUME NEW ucHeap \in Nat, NEW size \in Nat, HoldsAHeader(ucHeap, size)
  PROVE  HeapInv(prvHeapInit(ucHeap, size)) /\ prvHeapInit(ucHeap, size).first >= ucHeap
         /\ prvHeapInit(ucHeap, size).allocated = {}
<1> DEFINE b == Up(ucHeap)
           e == Down(ucHeap + size - xHeapStructSize)
           h == prvHeapInit(ucHeap, size)
           z == [x \in {b} |-> e - b]
<1>1. b \in Nat /\ b >= ucHeap /\ Aligned(b)
  BY UpIsAligned
<1>2. e \in Int
  <2> DEFINE m == portBYTE_ALIGNMENT
             n == ucHeap + size - xHeapStructSize
  <2>1. m \in Nat /\ m > 0 /\ n \in Int
    BY HeapAssumption, HeaderIsPositive
  <2> HIDE DEF m, n
  <2>2. n - (n % m) \in Int
    BY <2>1, Z3
  <2> QED
    BY <2>2 DEF Down, m, n
<1>3. h = [first |-> b, pxEnd |-> e, xBlockSize |-> z, allocated |-> {}, free |-> <<b>>,
           xFreeBytesRemaining |-> e - b]
  BY Zenon DEF prvHeapInit
<1> HIDE DEF b, e, h
<1>4. /\ HasFields(h) /\ h.first = b /\ h.pxEnd = e /\ h.xBlockSize = z
      /\ h.allocated = {} /\ h.free = <<b>> /\ h.xFreeBytesRemaining = e - b
  BY <1>3 DEF HasFields
<1>5. b < e
  <2>1. b + xHeapStructSize <= e
    BY DEF HoldsAHeader, b, e
  <2> QED
    BY <1>1, <1>2, <2>1, HeaderIsPositive
<1>6. HeapInv(h)
  <2>1. DOMAIN z = {b} /\ z[b] = e - b /\ e - b \in Nat /\ e - b > 0 /\ e \in Nat
        /\ b + (e - b) = e
    BY <1>1, <1>2, <1>5
  <2>2. <<b>> \in Seq(Nat) /\ Len(<<b>>) = 1 /\ DOMAIN <<b>> = {1} /\ <<b>>[1] = b
    BY <1>1
  <2> HIDE DEF z
  <2>3. Tiling(b, e, z)
    <3>1. IsFiniteSet({b})
      BY FS_Singleton
    <3>2. {b} \in SUBSET Nat
      BY <1>1
    <3>3. \A x \in {b} : /\ z[x] \in Nat /\ z[x] > 0 /\ x % portBYTE_ALIGNMENT = 0
                          /\ b <= x /\ x + z[x] <= e /\ x + z[x] \in {b} \cup {e}
      BY <1>1, <1>2, <2>1 DEF Aligned
    <3>4. \A x, c \in {b} : ~(x < c)
      BY <1>1
    <3> QED
      BY <2>1, <3>1, <3>2, <3>3, <3>4 DEF Tiling
  <2>4. ToSet(<<b>>) = {b}
    BY <2>2 DEF ToSet
  <2>5. Listing(z, {}, <<b>>)
    BY <2>1, <2>2, <2>4 DEF Listing, Ascending
  <2>6. e - b = FreeBytes(z, {b})
    <3>0. IsFiniteSet({b})
      BY FS_Singleton
    <3>1. IsFiniteSet({b}) /\ \A x \in {b} : z[x] \in Int
      BY <2>1, <3>0
    <3>2. FreeBytes(z, {b}) = z[b] + FreeBytes(z, {b} \ {b})
      BY <3>1, FreeBytesAdd
    <3>3. {b} \ {b} = {}
      OBVIOUS
    <3>4. FreeBytes(z, {}) = 0
      BY NothingIsFree
    <3> QED
      BY <2>1, <3>2, <3>3, <3>4
  <2>7. NoneTouch(z, <<b>>)
    BY <2>2 DEF NoneTouch, TouchAt
  <2> QED
    BY <1>4, <2>3, <2>4, <2>5, <2>6, <2>7 DEF HeapInv, InBooks, Books
<1> QED
  BY <1>1, <1>4, <1>6 DEF h

-----------------------------------------------------------------------------
(* The allocator's books give what the run checks of the heap.             *)

LEMMA InvGivesConsistent == ASSUME NEW h, HeapInv(h) PROVE BlocksTile(h) /\ FreeListIsExact(h)
<1> DEFINE z == h.xBlockSize
           s == h.free
           A == h.allocated
<1>0. Books(h.first, h.pxEnd, z, A, s, h.xFreeBytesRemaining) /\ NoneTouch(z, s)
  BY DEF HeapInv, InBooks
<1> HIDE DEF z, s, A
<1>1. /\ DOMAIN z \in SUBSET Nat /\ DOMAIN s = 1 .. Len(s) /\ Len(s) \in Nat
      /\ \A i \in 1 .. Len(s) : s[i] \in DOMAIN z
      /\ \A i, j \in 1 .. Len(s) : i < j => s[i] < s[j]
      /\ \A b \in DOMAIN z : z[b] \in Nat /\ z[b] > 0
      /\ \A b, c \in DOMAIN z : b < c => b + z[b] <= c
      /\ ToSet(s) = DOMAIN z \ A
  BY <1>0, BooksSay
<1>2. BlocksTile(h)
  BY <1>0, <1>1 DEF Books, Tiling, BlocksTile, z
<1>3. ASSUME NEW i \in DOMAIN s, NEW j \in DOMAIN s, i < j
      PROVE  s[i] + z[s[i]] < s[j]
  <2>1. /\ i \in 1 .. Len(s) /\ j \in 1 .. Len(s) /\ i + 1 \in 1 .. Len(s) /\ i < i + 1
        /\ i \in Nat
    BY <1>1, <1>3
  <2>2. s[i] + z[s[i]] <= s[i + 1] /\ s[i + 1] <= s[j]
    <3>1. s[i] < s[i + 1] /\ s[i] \in DOMAIN z /\ s[i + 1] \in DOMAIN z /\ s[j] \in DOMAIN z
      BY <1>1, <2>1
    <3>2. i + 1 = j \/ i + 1 < j
      BY <1>3, <2>1
    <3>3. s[i + 1] = s[j] \/ s[i + 1] < s[j]
      BY <1>1, <2>1, <3>2
    <3> QED
      BY <1>1, <3>1, <3>3
  <2>3. s[i] + z[s[i]] # s[i + 1]
    BY <1>0, <1>1, <2>1 DEF NoneTouch, TouchAt
  <2>4. s[i] + z[s[i]] \in Nat /\ s[i + 1] \in Nat /\ s[j] \in Nat
    BY <1>1, <2>1
  <2> QED
    BY <2>2, <2>3, <2>4
<1>4. h.xFreeBytesRemaining = MapThenSumSet(LAMBDA b : z[b], ToSet(s))
  BY <1>0, Zenon DEF Books, FreeBytes
<1>5. FreeListIsExact(h)
  BY <1>1, <1>3, <1>4, Zenon DEF FreeListIsExact, z, s, A
<1> QED
  BY <1>2, <1>5

-----------------------------------------------------------------------------
(* Every object has a block of its own, which is large enough.             *)

OwnBlocks(h, objs) ==
    /\ \A o \in DOMAIN objs :
          /\ objs[o].at \in Nat /\ objs[o].bytes \in Nat
          /\ BlockOf(objs[o].at) \in h.allocated
          /\ h.xBlockSize[BlockOf(objs[o].at)] >= xHeapStructSize + objs[o].bytes
    /\ \A o, p \in DOMAIN objs : o # p => BlockOf(objs[o].at) # BlockOf(objs[p].at)

Sound(ucHeap, h, objs) ==
    /\ ucHeap \in Nat /\ ucHeap <= h.first
    /\ HeapInv(h)
    /\ OwnBlocks(h, objs)

LEMMA SoundIsApart ==
  ASSUME NEW ucHeap, NEW h, NEW objs, Sound(ucHeap, h, objs)
  PROVE  \A o \in DOMAIN objs :
             LET at == objs[o].at
                 past == at + objs[o].bytes
             IN /\ ucHeap <= at /\ past <= h.pxEnd
                /\ at % portBYTE_ALIGNMENT = 0
                /\ \A p \in DOMAIN objs \ {o} :
                      objs[p].at >= past \/ objs[p].at + objs[p].bytes <= at
                /\ \A b \in DOMAIN h.xBlockSize : b >= past \/ After(b) <= at
<1> SUFFICES ASSUME NEW o \in DOMAIN objs
             PROVE  LET at == objs[o].at
                        past == at + objs[o].bytes
                    IN /\ ucHeap <= at /\ past <= h.pxEnd
                       /\ at % portBYTE_ALIGNMENT = 0
                       /\ \A p \in DOMAIN objs \ {o} :
                             objs[p].at >= past \/ objs[p].at + objs[p].bytes <= at
                       /\ \A b \in DOMAIN h.xBlockSize : b >= past \/ After(b) <= at
  OBVIOUS
<1> DEFINE z == h.xBlockSize
           A == h.allocated
           e == h.pxEnd
           first == h.first
           x == xHeapStructSize
           Block(p) == BlockOf(objs[p].at)
           at == objs[o].at
           past == at + objs[o].bytes
<1>1. /\ \A p \in DOMAIN objs : /\ objs[p].at \in Nat /\ objs[p].bytes \in Nat /\ Block(p) \in A
                                /\ z[Block(p)] >= x + objs[p].bytes
      /\ \A p \in DOMAIN objs : p # o => Block(p) # Block(o)
  BY DEF Sound, OwnBlocks
<1>2. x \in Nat /\ x > 0 /\ Aligned(x)
  BY HeaderIsAligned
<1>3. \A p \in DOMAIN objs : Block(p) = objs[p].at - x
  BY DEF BlockOf
<1>4. HeapInv(h)
  BY DEF Sound
<1>5. Books(first, e, z, A, h.free, h.xFreeBytesRemaining)
  BY <1>4 DEF HeapInv, InBooks
<1>6. ucHeap \in Nat /\ ucHeap <= first
  BY DEF Sound
<1> HIDE DEF z, A, e, first, x, Block, at, past
<1>7. /\ DOMAIN z \in SUBSET Nat /\ A \in SUBSET (DOMAIN z)
      /\ \A b \in DOMAIN z : z[b] \in Nat /\ z[b] > 0
      /\ \A b, c \in DOMAIN z : b < c => b + z[b] <= c
  BY <1>5, BooksSay
<1>8. /\ first \in DOMAIN z /\ e \in Nat
      /\ \A b \in DOMAIN z : Aligned(b) /\ first <= b /\ b + z[b] <= e
  BY <1>5 DEF Books, Tiling, Aligned
<1>9. /\ at \in Nat /\ objs[o].bytes \in Nat /\ past = at + objs[o].bytes
      /\ Block(o) \in DOMAIN z /\ Block(o) \in Nat /\ at = Block(o) + x
      /\ z[Block(o)] \in Nat /\ past <= Block(o) + z[Block(o)]
  <2>1. /\ objs[o].at = at /\ at \in Nat /\ objs[o].bytes \in Nat /\ Block(o) \in DOMAIN z
        /\ z[Block(o)] >= x + objs[o].bytes /\ Block(o) = at - x
    BY <1>1, <1>3, <1>7 DEF at
  <2>2. Block(o) \in Nat /\ z[Block(o)] \in Nat
    BY <1>7, <2>1
  <2>3. past = at + objs[o].bytes
    BY DEF past
  <2> QED
    BY <1>2, <2>1, <2>2, <2>3
<1>10. ucHeap <= at /\ past <= e
  BY <1>2, <1>6, <1>7, <1>8, <1>9
<1>11. at % portBYTE_ALIGNMENT = 0
  <2>1. Block(o) \in Int /\ x \in Int /\ Aligned(Block(o))
    BY <1>2, <1>8, <1>9
  <2>2. Aligned(Block(o) + x)
    BY <1>2, <2>1, SumsAreAligned
  <2> QED
    BY <1>9, <2>2 DEF Aligned
<1>12. ASSUME NEW b \in DOMAIN z
       PROVE  b >= past \/ b + x <= at
  <2>1. b \in Nat /\ z[b] \in Nat
    BY <1>7
  <2>2. CASE b > Block(o)
    BY <1>7, <1>9, <2>1, <2>2
  <2>3. CASE b <= Block(o)
    BY <1>2, <1>9, <2>1, <2>3
  <2> QED
    BY <1>9, <2>1, <2>2, <2>3
<1>13. ASSUME NEW p \in DOMAIN objs \ {o}
       PROVE  objs[p].at >= past \/ objs[p].at + objs[p].bytes <= at
  <2>1. /\ objs[p].at \in Nat /\ objs[p].bytes \in Nat /\ Block(p) \in DOMAIN z /\ Block(p) \in Nat
        /\ objs[p].at = Block(p) + x /\ z[Block(p)] \in Nat
        /\ objs[p].at + objs[p].bytes <= Block(p) + z[Block(p)] /\ Block(p) # Block(o)
    <3>1. /\ objs[p].at \in Nat /\ objs[p].bytes \in Nat /\ Block(p) \in DOMAIN z
          /\ z[Block(p)] >= x + objs[p].bytes /\ Block(p) = objs[p].at - x
          /\ Block(p) # Block(o)
      BY <1>1, <1>3, <1>7
    <3>2. Block(p) \in Nat /\ z[Block(p)] \in Nat
      BY <1>7, <3>1
    <3> QED
      BY <1>2, <3>1, <3>2
  <2>2. CASE Block(o) < Block(p)
    BY <1>2, <1>7, <1>9, <2>1, <2>2
  <2>3. CASE Block(p) < Block(o)
    BY <1>2, <1>7, <1>9, <2>1, <2>3
  <2> QED
    BY <1>9, <2>1, <2>2, <2>3
<1>14. \A b \in DOMAIN z : b >= past \/ After(b) <= at
  BY <1>12 DEF After, x
<1> QED
  BY <1>10, <1>11, <1>13, <1>14 DEF z, e, at, past

LEMMA GivenIsSound ==
  ASSUME NEW ucHeap, NEW h, NEW objs, Sound(ucHeap, h, objs),
         NEW g, NEW at, NEW bytes \in Nat, Given(h, g, at, bytes), NEW object
  PROVE  Sound(ucHeap, g, Recorded(objs, object, at, bytes))
<1> DEFINE new == Recorded(objs, object, at, bytes)
           A == h.allocated
           block == BlockOf(at)
<1>1. /\ DOMAIN new = DOMAIN objs \cup {object}
      /\ new[object].at = at /\ new[object].bytes = bytes
      /\ \A o \in DOMAIN objs : o # object => new[o] = objs[o]
  BY DEF Recorded
<1>2. /\ ucHeap \in Nat /\ ucHeap <= h.first
      /\ \A o \in DOMAIN objs :
            /\ objs[o].at \in Nat /\ objs[o].bytes \in Nat
            /\ BlockOf(objs[o].at) \in A
            /\ h.xBlockSize[BlockOf(objs[o].at)] >= xHeapStructSize + objs[o].bytes
      /\ \A o, p \in DOMAIN objs : o # p => BlockOf(objs[o].at) # BlockOf(objs[p].at)
  BY DEF Sound, OwnBlocks
<1>3. /\ HeapInv(g) /\ at \in Nat /\ block \notin A /\ g.allocated = A \cup {block}
      /\ g.xBlockSize[block] >= xHeapStructSize + bytes
      /\ g.first = h.first /\ \A b \in A : g.xBlockSize[b] = h.xBlockSize[b]
  BY DEF Given, Keeps
<1> HIDE DEF new, A, block
<1>4. ASSUME NEW o \in DOMAIN new
      PROVE  /\ new[o].at \in Nat /\ new[o].bytes \in Nat
             /\ BlockOf(new[o].at) \in g.allocated
             /\ g.xBlockSize[BlockOf(new[o].at)] >= xHeapStructSize + new[o].bytes
             /\ o = object => BlockOf(new[o].at) = block
             /\ o # object => /\ o \in DOMAIN objs /\ BlockOf(new[o].at) \in A
                              /\ BlockOf(new[o].at) = BlockOf(objs[o].at)
  <2>1. CASE o = object
    BY <1>1, <1>3, <2>1 DEF block
  <2>2. CASE o # object
    BY <1>1, <1>2, <1>3, <2>2
  <2> QED
    BY <2>1, <2>2
<1>5. ASSUME NEW o \in DOMAIN new, NEW p \in DOMAIN new, o # p
      PROVE  BlockOf(new[o].at) # BlockOf(new[p].at)
  <2>1. CASE o = object
    BY <1>3, <1>4, <1>5, <2>1
  <2>2. CASE p = object
    BY <1>3, <1>4, <1>5, <2>2
  <2>3. CASE o # object /\ p # object
    BY <1>2, <1>4, <1>5, <2>3
  <2> QED
    BY <2>1, <2>2, <2>3
<1> QED
  BY <1>2, <1>3, <1>4, <1>5 DEF Sound, OwnBlocks, HeapInv, new

LEMMA GivenBackIsSound ==
  ASSUME NEW ucHeap, NEW h, NEW objs, Sound(ucHeap, h, objs),
         NEW g, NEW at, NEW bytes \in Nat, Given(h, g, at, bytes)
  PROVE  Sound(ucHeap, vPortFree(g, at), objs)
<1> DEFINE f == vPortFree(g, at)
           A == h.allocated
           block == BlockOf(at)
<1>1. /\ ucHeap \in Nat /\ ucHeap <= h.first
      /\ \A o \in DOMAIN objs :
            /\ objs[o].at \in Nat /\ objs[o].bytes \in Nat
            /\ BlockOf(objs[o].at) \in A
            /\ h.xBlockSize[BlockOf(objs[o].at)] >= xHeapStructSize + objs[o].bytes
      /\ \A o, p \in DOMAIN objs : o # p => BlockOf(objs[o].at) # BlockOf(objs[p].at)
  BY DEF Sound, OwnBlocks
<1>2. /\ HeapInv(g) /\ block \notin A /\ g.allocated = A \cup {block} /\ block = BlockOf(at)
      /\ g.first = h.first /\ \A b \in A : g.xBlockSize[b] = h.xBlockSize[b]
  BY DEF Given, Keeps
<1>3. /\ HeapInv(f) /\ f.allocated = g.allocated \ {BlockOf(at)}
      /\ Keeps(g, f, g.allocated \ {BlockOf(at)})
  <2>1. BlockOf(at) \in g.allocated
    BY <1>2
  <2> QED
    BY <1>2, <2>1, FreeKeeps
<1> HIDE DEF f, A, block
<1>4. /\ f.allocated = A /\ f.first = h.first
      /\ \A b \in A : f.xBlockSize[b] = h.xBlockSize[b]
  BY <1>2, <1>3 DEF Keeps
<1> QED
  BY <1>1, <1>3, <1>4 DEF Sound, OwnBlocks, HeapInv, f

-----------------------------------------------------------------------------
(* Every step of the boot leaves the heap sound.                           *)

SoundHeap == Sound(build.ucHeap, heap, objects)

LEMMA SoundHoldsInitially == BootInit => SoundHeap
<1> SUFFICES ASSUME BootInit
             PROVE  SoundHeap
  OBVIOUS
<1>1. build.ucHeap \in Nat /\ build.size \in Nat
  BY BootAssumption DEF BootInit
<1>2. heap = prvHeapInit(build.ucHeap, build.size) /\ objects = <<>>
  BY DEF BootInit
<1>3. HeapInv(heap) /\ heap.first >= build.ucHeap
  <2>1. HoldsAHeader(build.ucHeap, build.size)
    BY HeapsAssumption DEF BootInit
  <2> QED
    BY <1>1, <1>2, <2>1, HeapStartsInOrder
<1>4. DOMAIN objects = {}
  BY <1>2
<1>5. OwnBlocks(heap, objects)
  BY <1>4 DEF OwnBlocks
<1>6. build.ucHeap <= heap.first
  BY <1>3
<1> QED
  BY <1>1, <1>3, <1>5, <1>6 DEF SoundHeap, Sound

LEMMA QueueKeepsSound ==
  ASSUME SoundHeap, NEW name, NEW bytes \in Nat, xQueueCreate(name, bytes), build' = build
  PROVE  SoundHeap'
<1> DEFINE size == SizeOfQueue + bytes
           made == pvPortMalloc(heap, size)
<1>1. size \in Nat
  BY BootAssumption
<1>2. /\ heap' = made.heap
      /\ objects' = IF made.at = NULL THEN objects
                    ELSE Recorded(objects, Queue(name), made.at, size)
  BY Zenon DEF xQueueCreate
<1>3. HeapInv(heap)
  BY DEF SoundHeap, Sound
<1> HIDE DEF size
<1>4. \/ made.at = NULL /\ made.heap = heap
      \/ Given(heap, made.heap, made.at, size)
  BY <1>1, <1>3, MallocGives
<1> HIDE DEF made
<1>5. CASE made.at = NULL /\ made.heap = heap
  BY <1>2, <1>5 DEF SoundHeap
<1>6. CASE Given(heap, made.heap, made.at, size)
  <2>1. made.at # NULL
    BY <1>6 DEF Given
  <2>2. Sound(build.ucHeap, made.heap, Recorded(objects, Queue(name), made.at, size))
    BY <1>1, <1>6, GivenIsSound DEF SoundHeap
  <2> QED
    BY <1>2, <2>1, <2>2 DEF SoundHeap
<1> QED
  BY <1>4, <1>5, <1>6

LEMMA TaskKeepsSound ==
  ASSUME SoundHeap, NEW task, NEW depth \in Nat, prvCreateTask(task, depth), build' = build
  PROVE  SoundHeap'
<1> DEFINE bytes == depth * SizeOfStackType
           stack == pvPortMalloc(heap, bytes)
           tcb == pvPortMalloc(stack.heap, SizeOfTCB)
           one == Recorded(objects, Stack(task), stack.at, bytes)
<1>1. bytes \in Nat /\ SizeOfTCB \in Nat
  BY BootAssumption
<1>2. /\ stack.at = NULL \/ tcb.at = NULL =>
            /\ heap' = IF stack.at = NULL THEN heap ELSE vPortFree(tcb.heap, stack.at)
            /\ objects' = objects
      /\ ~(stack.at = NULL \/ tcb.at = NULL) =>
            /\ heap' = tcb.heap
            /\ objects' = Recorded(one, Tcb(task), tcb.at, SizeOfTCB)
  BY Zenon DEF prvCreateTask
<1>3. HeapInv(heap)
  BY DEF SoundHeap, Sound
<1> HIDE DEF bytes
<1>4. \/ stack.at = NULL /\ stack.heap = heap
      \/ Given(heap, stack.heap, stack.at, bytes)
  BY <1>1, <1>3, MallocGives
<1> HIDE DEF stack
<1>5. CASE stack.at = NULL
  BY <1>2, <1>5, Zenon DEF SoundHeap
<1>6. CASE stack.at # NULL
  <2>1. Given(heap, stack.heap, stack.at, bytes)
    BY <1>4, <1>6
  <2>2. Sound(build.ucHeap, stack.heap, one)
    BY <1>1, <2>1, GivenIsSound DEF SoundHeap
  <2>3. HeapInv(stack.heap)
    BY <2>2 DEF Sound
  <2>4. \/ tcb.at = NULL /\ tcb.heap = stack.heap
        \/ Given(stack.heap, tcb.heap, tcb.at, SizeOfTCB)
    BY <1>1, <2>3, MallocGives
  <2> HIDE DEF tcb, one
  <2>5. CASE tcb.at = NULL
    <3>1. tcb.heap = stack.heap
      BY <2>4, <2>5 DEF Given
    <3>2. Sound(build.ucHeap, vPortFree(stack.heap, stack.at), objects)
      BY <1>1, <2>1, GivenBackIsSound DEF SoundHeap
    <3> QED
      BY <1>2, <1>6, <2>5, <3>1, <3>2 DEF SoundHeap
  <2>6. CASE tcb.at # NULL
    <3>1. Sound(build.ucHeap, tcb.heap, Recorded(one, Tcb(task), tcb.at, SizeOfTCB))
      BY <1>1, <2>2, <2>4, <2>6, GivenIsSound
    <3> QED
      BY <1>2, <1>6, <2>6, <3>1 DEF SoundHeap
  <2> QED
    BY <2>5, <2>6
<1> QED
  BY <1>5, <1>6

LEMMA StepKeepsSound == BootInv /\ SoundHeap /\ [BootNext]_<<vars, bootVars>> => SoundHeap'
<1> SUFFICES ASSUME BootInv, SoundHeap, [BootNext]_<<vars, bootVars>>
             PROVE  SoundHeap'
  OBVIOUS
<1>0. {FaultEvents, Commands, TimerCommands, StateRequestsSize, KernelStack} \subseteq Nat
  BY BootAssumption
<1>1. CASE BeforePowerOn \/ EventLogInit \/ VerifyImage
  <2>1. UNCHANGED <<build, heap, objects>>
    BY <1>1 DEF BeforePowerOn, EventLogInit, VerifyImage, bootVars
  <2> QED
    BY <2>1 DEF SoundHeap
<1>2. CASE FaultQueueInit
  BY <1>0, <1>2, QueueKeepsSound DEF FaultQueueInit
<1>3. CASE CommandInit
  BY <1>0, <1>3, QueueKeepsSound DEF CommandInit
<1>4. CASE CreateTimerQueue
  BY <1>0, <1>4, QueueKeepsSound DEF CreateTimerQueue
<1>5. CASE StateMachineStarts
  BY <1>0, <1>5, QueueKeepsSound DEF StateMachineStarts
<1>6. CASE CreateIdleTask
  BY <1>0, <1>6, TaskKeepsSound DEF CreateIdleTask
<1>7. CASE CreateTimerTask
  BY <1>0, <1>7, TaskKeepsSound DEF CreateTimerTask
<1>8. CASE CreateTask
  <2>1. PICK n \in 0 .. (Len(TaskConfigs) - 1) : Early(n)
    BY <1>8 DEF CreateTask, BootInv
  <2>2. NextTask = n + 1 /\ n + 1 \in DOMAIN TaskConfigs
    BY <2>1, NextTaskIs
  <2>3. TaskConfigs[NextTask].stack_size \in Nat
    <3> DEFINE Config == [name : STRING, stack_size : Nat \ {0}]
    <3>1. TaskConfigs \in Seq(Config)
      BY TaskConfigsAssumption
    <3> HIDE DEF Config
    <3>2. TaskConfigs[n + 1] \in Config
      BY <2>2, <3>1
    <3> QED
      BY <2>2, <3>2 DEF Config
  <2>4. /\ prvCreateTask(TaskConfigs[NextTask].name, TaskConfigs[NextTask].stack_size)
        /\ build' = build
    BY <1>8, Zenon DEF CreateTask
  <2> QED
    BY <2>3, <2>4, TaskKeepsSound
<1>9. CASE UNCHANGED <<vars, bootVars>>
  BY <1>9 DEF SoundHeap, bootVars
<1> QED
  BY <1>1, <1>2, <1>3, <1>4, <1>5, <1>6, <1>7, <1>8, <1>9 DEF BootNext, BootStep

LEMMA SoundIsInvariant == BootSpec => [](BootInv /\ SoundHeap)
BY InvHoldsInitially, BootStepKeepsInv, SoundHoldsInitially, StepKeepsSound, PTL DEF BootSpec

(* The heap stays in order through all of the boot, wherever it is and of  *)
(* any size its first header fits in, for any list of tasks and all sizes  *)
(* (HeapsAssumption, TaskConfigsAssumption): its blocks tile it,           *)
(* the list has exactly the free ones, in order, and no two that touch,    *)
(* and xFreeBytesRemaining is their sum (pvPortMalloc, vPortFree and       *)
(* prvInsertBlockIntoFreeList in heap_4.c), also after a task without room *)
(* for its TCB has given its stack back (prvCreateTask in tasks.c).        *)
THEOREM HeapStaysConsistent == BootSpec => []HeapIsConsistent
<1>1. SoundHeap => HeapIsConsistent
  BY InvGivesConsistent DEF SoundHeap, Sound, HeapIsConsistent
<1> QED
  BY <1>1, SoundIsInvariant, PTL

(* No queue, stack or TCB overlaps another one or the header of a block,   *)
(* and each is aligned and inside of ucHeap: for all sizes, whether the    *)
(* block was split or taken whole.                                         *)
THEOREM ObjectsStayApart == BootSpec => []ObjectsAreApart
<1>1. SoundHeap => ObjectsAreApart
  BY SoundIsApart DEF SoundHeap, ObjectsAreApart
<1> QED
  BY <1>1, SoundIsInvariant, PTL

-----------------------------------------------------------------------------
(* Types.  *)

LEMMA SlotIsInImage == ASSUME NEW at, IsSlot(at) PROVE SlotBits(at) \subseteq Bits
<1> DEFINE m == BitsPerByte
           p == at * m
           z == Size * m
           r == (at + SlotBytes) * m
<1>1. /\ at \in Nat /\ m \in Nat /\ Size \in Nat /\ SlotBytes \in Nat /\ at + SlotBytes <= Size
      /\ Width \in Nat
  BY WordIsBytes DEF IsSlot
<1>2. p \in Nat /\ r = p + Width /\ SlotBits(at) = p .. p + Width - 1
  BY <1>1, SlotIsWord
<1>3. r <= z /\ z \in Nat
  <2> DEFINE k == at + SlotBytes
  <2>1. k \in Nat /\ k <= Size
    BY <1>1
  <2> HIDE DEF m, k
  <2>2. k * m <= Size * m /\ Size * m \in Nat
    BY <1>1, <2>1, Z3
  <2> QED
    BY <2>2 DEF k
<1>4. Bits = 0 .. (z - 1)
  BY DEF Bits
<1> HIDE DEF p, z, r
<1> QED
  BY <1>1, <1>2, <1>3, <1>4

LEMMA TypesHoldInitially == Init => TypeOK
<1> SUFFICES ASSUME Init
             PROVE  TypeOK
  OBVIOUS
<1>1. image \in SUBSET Bits /\ slot \in Slots
  BY DEF Init
<1> QED
  BY <1>1 DEF Init, TypeOK

LEMMA ImageStepKeepsTypes == ImageInv /\ TypeOK /\ [Next]_vars => TypeOK'
<1> SUFFICES ASSUME ImageInv, TypeOK, [Next]_vars
             PROVE  TypeOK'
  OBVIOUS
<1>0. IsSlot(slot)
  BY DEF ImageInv
<1>1. CASE PatchKernel
  <2>1. image' = (image \ SlotBits(slot)) \cup {slot * BitsPerByte + b : b \in Digest}
    BY <1>1 DEF PatchKernel
  <2>2. Digest \subseteq Word
    BY <1>0, DigestIsWord DEF Digest, DigestOf
  <2>3. {slot * BitsPerByte + b : b \in Digest} \subseteq SlotBits(slot)
    <3> DEFINE p == slot * BitsPerByte
    <3>1. p \in Nat /\ Width \in Nat /\ SlotBits(slot) = p .. p + Width - 1
      BY <1>0, SlotIsWord, WordIsBytes DEF IsSlot
    <3> HIDE DEF p
    <3>2. \A b \in Word : p + b \in SlotBits(slot)
      BY <3>1 DEF Word
    <3> QED
      BY <2>2, <3>2 DEF p
  <2>4. image' \in SUBSET Bits
    <3> DEFINE stored == {slot * BitsPerByte + b : b \in Digest}
    <3> HIDE DEF stored
    <3>1. stored \subseteq Bits /\ image' = (image \ SlotBits(slot)) \cup stored
      BY <1>0, <2>1, <2>3, SlotIsInImage, Zenon DEF stored
    <3> QED
      BY <3>1 DEF TypeOK
  <2> QED
    BY <1>1, <2>4 DEF PatchKernel, TypeOK, verdict
<1>2. ASSUME NEW bits \in Bursts \cup Pairs, Damage(bits)
      PROVE  TypeOK'
  <2>1. bits \subseteq Bits
    <3>1. \A p \in Pieces : p \subseteq Bits
      BY <1>0, SlotIsInImage DEF Pieces
    <3>2. bits \in Bursts => bits \subseteq Bits
      BY <3>1 DEF Bursts
    <3>3. bits \in Pairs => bits \subseteq Bits
      BY DEF Pairs
    <3> QED
      BY <3>2, <3>3
  <2>2. image' \in SUBSET Bits
    BY <1>2, <2>1 DEF Damage, Xor, TypeOK
  <2> QED
    BY <1>2, <2>1, <2>2 DEF Damage, TypeOK, verdict
<1>3. CASE Verify
  <2>1. image_integrity_expected' \in SUBSET Word
    BY <1>3 DEF Verify, WordAt
  <2>2. image_integrity_computed' \in SUBSET Word
    BY <1>0, <1>3, FirmwareAgreesWithScript, DigestIsWord DEF Verify
  <2>3. image_integrity_ok' \in BOOLEAN
    BY <1>3 DEF Verify, IsAccepted
  <2> QED
    BY <1>3, <2>1, <2>2, <2>3 DEF Verify, TypeOK
<1>4. CASE UNCHANGED vars
  BY <1>4 DEF vars, verdict, TypeOK
<1> QED
  BY <1>1, <1>2, <1>3, <1>4 DEF Next

LEMMA CallsAreCalls ==
  ToSet(CallsInOrder) = {"fault_queue_init", "command_init", "event_log_init",
                         "image_integrity_verify", "tasks_create_all", "prvCreateIdleTasks",
                         "xTimerCreateTimerTask", "vTaskStateMachine", "running"}
BY DEF CallsInOrder, ToSet

ControlTypes ==
    /\ build \in Heaps
    /\ call \in ToSet(CallsInOrder) \cup Stopped
    /\ gSystemState \in {BOOT, NOMINAL, DEGRADED}

LEMMA ControlTypesHoldInitially == BootInit => ControlTypes
BY CallsAreCalls DEF BootInit, ControlTypes, CallsInOrder

LEMMA StepKeepsControlTypes == ControlTypes /\ [BootNext]_<<vars, bootVars>> => ControlTypes'
<1> SUFFICES ASSUME ControlTypes, [BootNext]_<<vars, bootVars>>
             PROVE  ControlTypes'
  OBVIOUS
<1>1. CASE BeforePowerOn \/ UNCHANGED <<vars, bootVars>>
  BY <1>1 DEF BeforePowerOn, ControlTypes, bootVars
<1>2. CASE FaultQueueInit \/ CommandInit \/ EventLogInit \/ VerifyImage
  BY <1>2, CallsFollow, CallsAreCalls
     DEF FaultQueueInit, CommandInit, EventLogInit, VerifyImage, ControlTypes, Stopped
<1>3. CASE CreateTask
  <2>1. call = "tasks_create_all" /\ UNCHANGED <<build, gSystemState>>
        /\ call' \in {"system_halt", "configASSERT", call, Following}
    BY <1>3 DEF CreateTask
  <2> QED
    BY <2>1, CallsFollow, CallsAreCalls DEF ControlTypes, Stopped
<1>4. CASE CreateIdleTask \/ CreateTimerQueue \/ CreateTimerTask
  BY <1>4, CallsFollow, CallsAreCalls
     DEF CreateIdleTask, CreateTimerQueue, CreateTimerTask, ControlTypes, Stopped
<1>5. CASE StateMachineStarts
  <2>1. gSystemState' \in {NOMINAL, DEGRADED}
    BY <1>5 DEF StateMachineStarts
  <2> QED
    BY <1>5, <2>1, CallsFollow, CallsAreCalls DEF StateMachineStarts, ControlTypes, Stopped
<1> QED
  BY <1>1, <1>2, <1>3, <1>4, <1>5 DEF BootNext, BootStep

(* The boot keeps its types: in particular the CRC that the firmware       *)
(* computes is a word, whatever is in the image (src/crc32.c), and there   *)
(* is always a call to follow.                                             *)
THEOREM BootTypes == BootSpec => []BootTypeOK
<1>1. Spec => []TypeOK
  BY TypesHoldInitially, ImageStepKeepsTypes, ImageInvHoldsInitially, ImageStepKeepsInv,
     PTL DEF Spec
<1>2. BootSpec => []ControlTypes
  BY ControlTypesHoldInitially, StepKeepsControlTypes, PTL DEF BootSpec
<1>3. TypeOK /\ ControlTypes /\ SoundHeap => BootTypeOK
  BY DEF ControlTypes, SoundHeap, Sound, OwnBlocks, BootTypeOK
<1> QED
  BY <1>1, <1>2, <1>3, BootChecksImage, SoundIsInvariant, PTL

-----------------------------------------------------------------------------
(* Enough heap.  As long as nothing is given back the heap has one free    *)
(* block, behind all others, and each allocation cuts its part off.        *)

OneFree(h, room) ==
    /\ HasFields(h) /\ room \in Int /\ h.xFreeBytesRemaining = room
    /\ \E b \in Nat : h.free = <<b>> /\ h.xBlockSize[b] = room

LEMMA CutOff ==
  ASSUME NEW h, NEW room, OneFree(h, room), NEW size \in Nat, size # 0,
         room - BlockSizeFor(size) > heapMINIMUM_BLOCK_SIZE
  PROVE  LET made == pvPortMalloc(h, size)
         IN made.at # NULL /\ OneFree(made.heap, room - BlockSizeFor(size))
<1> DEFINE need == BlockSizeFor(size)
           fits == {i \in DOMAIN h.free : h.xBlockSize[h.free[i]] >= need}
<1>1. need \in Nat /\ need > 0
  BY BlockSizeIsPositive
<1>2. PICK b \in Nat : h.free = <<b>> /\ h.xBlockSize[b] = room
  BY DEF OneFree
<1>3. room \in Int /\ h.xFreeBytesRemaining = room /\ HasFields(h)
  BY DEF OneFree
<1>4. heapMINIMUM_BLOCK_SIZE \in Nat
  BY HeaderIsPositive DEF heapMINIMUM_BLOCK_SIZE
<1>5. room >= need /\ IsSplit(room - need)
  BY <1>1, <1>3, <1>4 DEF IsSplit
<1>6. fits = {1} /\ h.free[1] = b
  BY <1>2, <1>3, <1>5
<1>7. Min(fits) = 1
  <2>1. \A y \in fits : 1 <= y
    BY <1>6
  <2> QED
    BY <1>6, <2>1 DEF Min
<1>8. ~(size = 0 \/ need > h.xFreeBytesRemaining \/ fits = {})
  BY <1>1, <1>3, <1>5, <1>6
<1>9. pvPortMalloc(h, size).heap = Take(h, 1, need) /\ pvPortMalloc(h, size).at = After(b)
  BY <1>6, <1>7, <1>8 DEF pvPortMalloc
<1> HIDE DEF need, fits
<1>10. After(b) # NULL
  BY HeaderIsPositive DEF After, NULL
<1> DEFINE g == Take(h, 1, need)
<1>11. b + need # b /\ b + need \in Nat
  BY <1>1
<1>12. /\ HasFields(g) /\ g.xBlockSize = Split(h.xBlockSize, b, need)
       /\ g.free = InsertAt(RemoveAt(h.free, 1), 1, b + need)
       /\ g.xFreeBytesRemaining = room - need
  <2>1. h.free[1] + need # h.free[1]
    BY <1>6, <1>11
  <2>2. IsSplit(h.xBlockSize[h.free[1]] - need)
    BY <1>2, <1>5, <1>6
  <2> QED
    BY <1>2, <1>3, <1>6, <2>1, <2>2, TakeIs
<1>13. g.free = <<b + need>>
  <2>1. RemoveAt(<<b>>, 1) = <<>>
    <3>1. SubSeq(<<b>>, 1, 0) = <<>> /\ SubSeq(<<b>>, 2, 1) = <<>>
      OBVIOUS
    <3> QED
      BY <3>1 DEF RemoveAt
  <2>2. InsertAt(<<>>, 1, b + need) = <<b + need>>
    <3>1. SubSeq(<<>>, 1, 0) = <<>> /\ Len(<<>>) = 0
      OBVIOUS
    <3>2. <<>> \o <<b + need>> \o <<>> = <<b + need>>
      BY <1>11
    <3>3. InsertAt(<<>>, 1, b + need)
            = SubSeq(<<>>, 1, 1 - 1) \o <<b + need>> \o SubSeq(<<>>, 1, Len(<<>>))
      BY DEF InsertAt
    <3> QED
      BY <3>1, <3>2, <3>3
  <2> QED
    BY <1>2, <1>12, <2>1, <2>2
<1>14. g.xBlockSize[b + need] = room - need
  BY <1>2, <1>11, <1>12 DEF Split
<1> HIDE DEF g
<1>15. OneFree(g, room - need)
  BY <1>1, <1>3, <1>11, <1>12, <1>13, <1>14 DEF OneFree
<1> QED
  BY <1>9, <1>10, <1>15 DEF g, need

(* Room for this many more bytes, and a block left over.  *)
HasRoom(h, bytes) ==
    \E room \in Int : OneFree(h, room) /\ room > bytes + heapMINIMUM_BLOCK_SIZE

LEMMA RoomIsTaken ==
  ASSUME NEW h, NEW rest \in Nat, NEW size \in Nat, size # 0, HasRoom(h, BlockSizeFor(size) + rest)
  PROVE  LET made == pvPortMalloc(h, size)
         IN made.at # NULL /\ HasRoom(made.heap, rest)
<1>1. PICK room \in Int :
        OneFree(h, room) /\ room > BlockSizeFor(size) + rest + heapMINIMUM_BLOCK_SIZE
  BY DEF HasRoom
<1>2. BlockSizeFor(size) \in Nat /\ heapMINIMUM_BLOCK_SIZE \in Nat
  BY BlockSizeIsPositive, HeaderIsPositive DEF heapMINIMUM_BLOCK_SIZE
<1>3. /\ room - BlockSizeFor(size) > rest + heapMINIMUM_BLOCK_SIZE
      /\ room - BlockSizeFor(size) > heapMINIMUM_BLOCK_SIZE
      /\ room - BlockSizeFor(size) \in Int
  BY <1>1, <1>2
<1>4. /\ pvPortMalloc(h, size).at # NULL
      /\ OneFree(pvPortMalloc(h, size).heap, room - BlockSizeFor(size))
  BY <1>1, <1>3, CutOff
<1> QED
  BY <1>3, <1>4, Zenon DEF HasRoom

LEMMA LessRoom ==
  ASSUME NEW h, NEW a \in Nat, NEW b \in Nat, b <= a, HasRoom(h, a)
  PROVE  HasRoom(h, b)
<1>1. PICK room \in Int : OneFree(h, room) /\ room > a + heapMINIMUM_BLOCK_SIZE
  BY DEF HasRoom
<1>2. heapMINIMUM_BLOCK_SIZE \in Nat
  BY HeaderIsPositive DEF heapMINIMUM_BLOCK_SIZE
<1>3. room > b + heapMINIMUM_BLOCK_SIZE
  BY <1>1, <1>2
<1> QED
  BY <1>1, <1>3 DEF HasRoom

LEMMA NeedsAreNumbers ==
  /\ \A bytes \in Nat : /\ SizeOfQueue + bytes \in Nat /\ SizeOfQueue + bytes # 0
                        /\ QueueNeeds(bytes) \in Nat
  /\ SizeOfTCB \in Nat /\ SizeOfTCB # 0 /\ BlockSizeFor(SizeOfTCB) \in Nat
  /\ \A depth \in Nat : /\ depth * SizeOfStackType \in Nat /\ TaskNeeds(depth) \in Nat
                        /\ BlockSizeFor(depth * SizeOfStackType) \in Nat
                        /\ depth # 0 => depth * SizeOfStackType # 0
<1>1. {SizeOfQueue, SizeOfTCB, SizeOfStackType} \subseteq Nat \ {0}
  BY BootAssumption
<1>2. \A n \in Nat : BlockSizeFor(n) \in Nat
  BY BlockSizeIsPositive
<1>3. \A depth \in Nat : /\ depth * SizeOfStackType \in Nat
                         /\ depth # 0 => depth * SizeOfStackType # 0
  BY <1>1
<1>4. \A bytes \in Nat : SizeOfQueue + bytes \in Nat /\ SizeOfQueue + bytes # 0
  BY <1>1
<1>5. \A depth \in Nat : BlockSizeFor(depth * SizeOfStackType) \in Nat
  BY <1>2, <1>3
<1>6. \A depth \in Nat : TaskNeeds(depth) \in Nat
  <2>1. BlockSizeFor(SizeOfTCB) \in Nat
    BY <1>1, <1>2
  <2> QED
    BY <1>5, <2>1 DEF TaskNeeds
<1> QED
  BY <1>1, <1>2, <1>3, <1>4, <1>5, <1>6 DEF QueueNeeds

LEMMA QueueGetsRoom ==
  ASSUME NEW name, NEW bytes \in Nat, xQueueCreate(name, bytes), NEW rest \in Nat,
         HasRoom(heap, QueueNeeds(bytes) + rest)
  PROVE  HasRoom(heap', rest) /\ DOMAIN objects' = DOMAIN objects \cup {Queue(name)}
<1> DEFINE made == pvPortMalloc(heap, SizeOfQueue + bytes)
<1>1. made.at # NULL /\ HasRoom(made.heap, rest)
  BY NeedsAreNumbers, RoomIsTaken DEF QueueNeeds
<1> QED
  BY <1>1, QueueIsMade

LEMMA TaskGetsRoom ==
  ASSUME NEW task, NEW depth \in Nat \ {0}, prvCreateTask(task, depth), NEW rest \in Nat,
         HasRoom(heap, TaskNeeds(depth) + rest)
  PROVE  HasRoom(heap', rest) /\ DOMAIN objects' = DOMAIN objects \cup TaskObjects(task)
<1> DEFINE bytes == depth * SizeOfStackType
           stack == pvPortMalloc(heap, bytes)
           tcb   == pvPortMalloc(stack.heap, SizeOfTCB)
           after == BlockSizeFor(SizeOfTCB) + rest
<1>1. bytes \in Nat \ {0} /\ SizeOfTCB \in Nat \ {0} /\ after \in Nat
      /\ BlockSizeFor(bytes) + after = TaskNeeds(depth) + rest
  BY NeedsAreNumbers DEF TaskNeeds
<1> HIDE DEF bytes, after
<1>2. stack.at # NULL /\ HasRoom(stack.heap, after)
  BY <1>1, RoomIsTaken
<1>3. tcb.at # NULL /\ HasRoom(tcb.heap, rest)
  BY <1>1, <1>2, RoomIsTaken DEF after
<1>4. /\ heap' = tcb.heap
      /\ objects' = Recorded(Recorded(objects, Stack(task), stack.at, bytes),
                             Tcb(task), tcb.at, SizeOfTCB)
  BY <1>2, <1>3, Zenon DEF prvCreateTask, bytes
<1>5. DOMAIN objects' = (DOMAIN objects \cup {Stack(task)}) \cup {Tcb(task)}
  BY <1>4, Zenon DEF Recorded
<1> QED
  BY <1>3, <1>4, <1>5 DEF TaskObjects

(* What is still to be allocated at each call.  *)
FromStateMachine == QueueNeeds(StateRequestsSize)
FromTimerTask    == TaskNeeds(KernelStack) + FromStateMachine
FromTimerQueue   == QueueNeeds(TimerCommands) + FromTimerTask
FromIdle         == TaskNeeds(KernelStack) + FromTimerQueue
FromTask(n)      == FreeBytes(TasksNeed, (n + 1) .. Len(TaskConfigs)) + FromIdle
FromCommand      == QueueNeeds(Commands) + FromTask(0)
FromFault        == QueueNeeds(FaultEvents) + FromCommand

TasksAre(n) == DOMAIN objects = {Queue("Fault"), Queue("Command")} \cup TasksMade(n)

NothingFails ==
    /\ call = "fault_queue_init" => HasRoom(heap, FromFault)
    /\ call = "command_init" => HasRoom(heap, FromCommand)
    /\ call \in {"event_log_init", "image_integrity_verify"} =>
           TasksAre(0) /\ HasRoom(heap, FromTask(0))
    /\ call = "tasks_create_all" =>
           \E n \in 0 .. (Len(TaskConfigs) - 1) : TasksAre(n) /\ HasRoom(heap, FromTask(n))
    /\ call = "prvCreateIdleTasks" => HasRoom(heap, FromIdle)
    /\ call = "xTimerCreateTimerTask" =>
           HasRoom(heap, IF Exists(Queue("Timer")) THEN FromTimerTask ELSE FromTimerQueue)
    /\ call = "vTaskStateMachine" => HasRoom(heap, FromStateMachine)
    /\ call \notin Stopped

RoomInv == build.size = configTOTAL_HEAP_SIZE => NothingFails

LEMMA ConfigsAre ==
  /\ DOMAIN TaskConfigs = 1 .. Len(TaskConfigs) /\ Len(TaskConfigs) \in Nat \ {0}
  /\ \A i \in DOMAIN TaskConfigs : TaskConfigs[i].stack_size \in Nat \ {0} /\ TasksNeed[i] \in Nat
<1> DEFINE Config == [name : STRING, stack_size : Nat \ {0}]
<1>1. TaskConfigs \in Seq(Config) /\ TaskConfigs # <<>>
  BY TaskConfigsAssumption, FirstStackAssumption
<1>2. \A c \in Config : c.stack_size \in Nat \ {0}
  OBVIOUS
<1> HIDE DEF Config
<1>3. \A i \in DOMAIN TaskConfigs : TaskConfigs[i] \in Config
  BY <1>1
<1>4. \A i \in DOMAIN TaskConfigs : TaskConfigs[i].stack_size \in Nat \ {0}
  BY <1>2, <1>3
<1>5. \A i \in DOMAIN TaskConfigs : TasksNeed[i] = TaskNeeds(TaskConfigs[i].stack_size)
  BY DEF TasksNeed
<1>6. \A i \in DOMAIN TaskConfigs : TasksNeed[i] \in Nat
  BY <1>4, <1>5, NeedsAreNumbers
<1> QED
  BY <1>1, <1>4, <1>6

LEMMA NeedsOfTasks ==
  /\ \A n \in 0 .. Len(TaskConfigs) : FreeBytes(TasksNeed, (n + 1) .. Len(TaskConfigs)) \in Nat
  /\ \A n \in 0 .. (Len(TaskConfigs) - 1) :
        FreeBytes(TasksNeed, (n + 1) .. Len(TaskConfigs))
            = TaskNeeds(TaskConfigs[n + 1].stack_size)
                  + FreeBytes(TasksNeed, (n + 2) .. Len(TaskConfigs))
  /\ FreeBytes(TasksNeed, (Len(TaskConfigs) + 1) .. Len(TaskConfigs)) = 0
<1> DEFINE len == Len(TaskConfigs)
           From(n) == FreeBytes(TasksNeed, (n + 1) .. len)
<1>1. len \in Nat /\ \A i \in 1 .. len : TasksNeed[i] \in Nat
                                         /\ TasksNeed[i] = TaskNeeds(TaskConfigs[i].stack_size)
  BY ConfigsAre DEF TasksNeed
<1> HIDE DEF len
<1>2. From(len) = 0
  <2>1. (len + 1) .. len = {}
    BY <1>1
  <2> QED
    BY <2>1, NothingIsFree
<1>3. ASSUME NEW n \in 0 .. (len - 1)
      PROVE  From(n) = TaskNeeds(TaskConfigs[n + 1].stack_size) + From(n + 1)
  <2>1. /\ n + 1 \in (n + 1) .. len /\ (n + 1) .. len \subseteq 1 .. len /\ n + 1 \in 1 .. len
        /\ ((n + 1) .. len) \ {n + 1} = ((n + 1) + 1) .. len
    BY <1>1
  <2>2. IsFiniteSet((n + 1) .. len)
    BY <1>1, FS_Interval
  <2>3. \A i \in (n + 1) .. len : TasksNeed[i] \in Int
    BY <1>1, <2>1
  <2>4. From(n) = TasksNeed[n + 1] + FreeBytes(TasksNeed, ((n + 1) .. len) \ {n + 1})
    <3> DEFINE S == (n + 1) .. len
    <3>1. IsFiniteSet(S) /\ (\A i \in S : TasksNeed[i] \in Int) /\ n + 1 \in S
      BY <2>1, <2>2, <2>3
    <3> HIDE DEF S
    <3>2. \A i \in S : FreeBytes(TasksNeed, S) = TasksNeed[i] + FreeBytes(TasksNeed, S \ {i})
      BY <3>1, FreeBytesAdd
    <3> QED
      BY <3>1, <3>2 DEF S
  <2> QED
    BY <1>1, <2>1, <2>4
<1>4. \A m \in Nat : m <= len => From(len - m) \in Nat
  <2> DEFINE Good == {m \in Nat : m <= len => From(len - m) \in Nat}
  <2>1. 0 \in Good
    <3>1. len - 0 = len
      BY <1>1
    <3> QED
      BY <1>2, <3>1
  <2>2. ASSUME NEW m \in Nat, m \in Good
        PROVE  m + 1 \in Good
    <3> SUFFICES ASSUME m + 1 <= len
                 PROVE  From(len - (m + 1)) \in Nat
      OBVIOUS
    <3> DEFINE n == len - (m + 1)
    <3>1. n \in 0 .. (len - 1) /\ n + 1 = len - m /\ n + 1 \in 1 .. len
      BY <1>1
    <3>2. From(len - m) \in Nat
      BY <1>1, <2>2
    <3> HIDE DEF n
    <3>3. From(n) = TasksNeed[n + 1] + From(len - m)
      <4>1. From(n) = TaskNeeds(TaskConfigs[n + 1].stack_size) + From(n + 1)
        BY <1>3, <3>1
      <4> HIDE DEF From
      <4> QED
        BY <1>1, <3>1, <4>1
    <3> HIDE DEF From
    <3>4. From(n) \in Nat
      BY <1>1, <3>1, <3>2, <3>3
    <3> QED
      BY <3>4 DEF n
  <2> HIDE DEF Good
  <2>3. \A m \in Nat : m \in Good
    BY <2>1, <2>2, ByteFold!NatSetInduction
  <2> QED
    BY <2>3 DEF Good
<1>5. ASSUME NEW n \in 0 .. len
      PROVE  From(n) \in Nat
  <2>1. len - n \in Nat /\ len - n <= len /\ len - (len - n) = n
    BY <1>1
  <2> HIDE DEF From
  <2> QED
    BY <1>4, <2>1
<1>6. \A n \in 0 .. (len - 1) : (n + 1) + 1 = n + 2
  BY <1>1
<1>7. \A n \in 0 .. (len - 1) : From(n) = TaskNeeds(TaskConfigs[n + 1].stack_size)
                                             + FreeBytes(TasksNeed, (n + 2) .. len)
  BY <1>3, <1>6
<1> QED
  BY <1>2, <1>5, <1>7 DEF len

LEMMA NeedsAre ==
  /\ {FromStateMachine, FromTimerTask, FromTimerQueue, FromIdle, FromCommand} \subseteq Nat
  /\ \A n \in 0 .. Len(TaskConfigs) : FromTask(n) \in Nat
  /\ \A n \in 0 .. (Len(TaskConfigs) - 1) :
        FromTask(n) = TaskNeeds(TaskConfigs[n + 1].stack_size) + FromTask(n + 1)
  /\ FromTask(Len(TaskConfigs)) = FromIdle
  /\ FromFault = BytesNeeded
<1>1. /\ QueueNeeds(StateRequestsSize) \in Nat /\ QueueNeeds(TimerCommands) \in Nat
      /\ QueueNeeds(Commands) \in Nat /\ QueueNeeds(FaultEvents) \in Nat
      /\ TaskNeeds(KernelStack) \in Nat
  BY BootAssumption, NeedsAreNumbers
<1>2. /\ FromStateMachine \in Nat /\ FromTimerTask \in Nat /\ FromTimerQueue \in Nat
      /\ FromIdle \in Nat
  BY <1>1 DEF FromStateMachine, FromTimerTask, FromTimerQueue, FromIdle
<1>3. Len(TaskConfigs) \in Nat \ {0}
  BY ConfigsAre
<1>4. ASSUME NEW n \in 0 .. Len(TaskConfigs)
      PROVE  FromTask(n) \in Nat
  <2>1. FreeBytes(TasksNeed, (n + 1) .. Len(TaskConfigs)) \in Nat
    BY NeedsOfTasks
  <2> QED
    BY <1>2, <2>1 DEF FromTask
<1>5. FromCommand \in Nat
  BY <1>1, <1>3, <1>4 DEF FromCommand
<1>6. ASSUME NEW n \in 0 .. (Len(TaskConfigs) - 1)
      PROVE  FromTask(n) = TaskNeeds(TaskConfigs[n + 1].stack_size) + FromTask(n + 1)
  <2>1. FreeBytes(TasksNeed, (n + 1) .. Len(TaskConfigs))
          = TaskNeeds(TaskConfigs[n + 1].stack_size)
                + FreeBytes(TasksNeed, (n + 2) .. Len(TaskConfigs))
    BY NeedsOfTasks
  <2>2. (n + 1) + 1 = n + 2 /\ n + 1 \in 0 .. Len(TaskConfigs) /\ n + 1 \in DOMAIN TaskConfigs
    BY <1>3, ConfigsAre
  <2>3. FreeBytes(TasksNeed, (n + 2) .. Len(TaskConfigs)) \in Nat
    BY <2>2, NeedsOfTasks
  <2>4. TaskNeeds(TaskConfigs[n + 1].stack_size) \in Nat
    BY <2>2, ConfigsAre, NeedsAreNumbers
  <2>5. FromTask(n + 1) = FreeBytes(TasksNeed, (n + 2) .. Len(TaskConfigs)) + FromIdle
    BY <2>2 DEF FromTask
  <2> QED
    BY <1>2, <2>1, <2>3, <2>4, <2>5 DEF FromTask
<1>7. FromTask(Len(TaskConfigs)) = FromIdle
  BY <1>2, NeedsOfTasks DEF FromTask
<1>8. FromFault = BytesNeeded
  <2> DEFINE sum == FreeBytes(TasksNeed, 1 .. Len(TaskConfigs))
  <2>1. sum \in Nat
    <3>1. 0 \in 0 .. Len(TaskConfigs) /\ 0 + 1 = 1
      BY <1>3
    <3> QED
      BY <3>1, NeedsOfTasks
  <2>2. BytesNeeded = QueueNeeds(FaultEvents) + QueueNeeds(Commands) + QueueNeeds(TimerCommands)
                         + QueueNeeds(StateRequestsSize) + 2 * TaskNeeds(KernelStack) + sum
    BY ConfigsAre DEF BytesNeeded, FreeBytes
  <2>3. FromTask(0) = sum + FromIdle
    BY DEF FromTask
  <2> HIDE DEF sum
  <2> QED
    BY <1>1, <2>1, <2>2, <2>3
       DEF FromFault, FromCommand, FromIdle, FromTimerQueue, FromTimerTask, FromStateMachine
<1> QED
  BY <1>2, <1>4, <1>5, <1>6, <1>7, <1>8

LEMMA RoomAtFirst == ASSUME HeapSuffices PROVE BootInit => RoomInv
<1> SUFFICES ASSUME BootInit, build.size = configTOTAL_HEAP_SIZE
             PROVE  NothingFails
  BY DEF RoomInv
<1>1. call = "fault_queue_init" /\ heap = prvHeapInit(build.ucHeap, build.size)
      /\ build \in Heaps
  BY DEF BootInit, CallsInOrder
<1>2. heap.xFreeBytesRemaining > BytesNeeded + heapMINIMUM_BLOCK_SIZE
  BY <1>1 DEF HeapSuffices
<1>3. PICK b \in Nat, e, n \in Int :
        heap = [first |-> b, pxEnd |-> e, xBlockSize |-> [x \in {b} |-> n],
                allocated |-> {}, free |-> <<b>>, xFreeBytesRemaining |-> n]
  BY HeapStartsFresh DEF FreshHeap
<1>4. HasFields(heap) /\ heap.xFreeBytesRemaining = n /\ heap.free = <<b>>
      /\ heap.xBlockSize[b] = n
  BY <1>3 DEF HasFields
<1>5. OneFree(heap, n)
  BY <1>4 DEF OneFree
<1>6. HasRoom(heap, FromFault)
  BY <1>2, <1>4, <1>5, NeedsAre DEF HasRoom
<1> QED
  BY <1>1, <1>6 DEF NothingFails, Stopped

(* Every step finds its room, and leaves what the rest needs.  *)

LEMMA QueuesFindRoom ==
  ASSUME BootInv, NothingFails, FaultQueueInit \/ CommandInit \/ CreateTimerQueue \/ StateMachineStarts
  PROVE  NothingFails'
<1>1. {FaultEvents, Commands, TimerCommands, StateRequestsSize} \subseteq Nat
  BY BootAssumption
<1>2. 0 \in 0 .. Len(TaskConfigs)
  BY ConfigsAre
<1>3. CASE FaultQueueInit
  <2>1. call = "fault_queue_init" /\ HasRoom(heap, QueueNeeds(FaultEvents) + FromCommand)
        /\ xQueueCreate("Fault", FaultEvents)
    BY <1>3 DEF FaultQueueInit, NothingFails, FromFault
  <2>2. HasRoom(heap', FromCommand) /\ DOMAIN objects' = DOMAIN objects \cup {Queue("Fault")}
    BY <1>1, <2>1, NeedsAre, QueueGetsRoom
  <2>3. call' = "command_init"
    BY <1>3, <2>2, CallsFollow DEF FaultQueueInit, Created
  <2> QED
    BY <2>2, <2>3 DEF NothingFails, Stopped
<1>4. CASE StateMachineStarts
  <2>1. call = "vTaskStateMachine" /\ HasRoom(heap, FromStateMachine)
        /\ xQueueCreate("StateRequest", StateRequestsSize)
    BY <1>4 DEF StateMachineStarts, NothingFails
  <2>2. FromStateMachine = QueueNeeds(StateRequestsSize) + 0
    BY <1>1, NeedsAreNumbers DEF FromStateMachine
  <2>3. DOMAIN objects' = DOMAIN objects \cup {Queue("StateRequest")}
    BY <1>1, <2>1, <2>2, QueueGetsRoom
  <2>4. call' = "running"
    BY <1>4, <2>3, CallsFollow DEF StateMachineStarts, Created
  <2> QED
    BY <2>4 DEF NothingFails, Stopped
<1>5. CASE CreateTimerQueue
  <2>1. call = "xTimerCreateTimerTask" /\ xQueueCreate("Timer", TimerCommands)
        /\ HasRoom(heap, QueueNeeds(TimerCommands) + FromTimerTask)
    BY <1>5 DEF CreateTimerQueue, NothingFails, FromTimerQueue
  <2>2. HasRoom(heap', FromTimerTask) /\ DOMAIN objects' = DOMAIN objects \cup {Queue("Timer")}
    BY <1>1, <2>1, NeedsAre, QueueGetsRoom
  <2>3. call' = call
    BY <1>5, <2>2 DEF CreateTimerQueue, Created
  <2> QED
    BY <2>1, <2>2, <2>3 DEF NothingFails, Stopped, Exists
<1>6. CASE CommandInit
  <2>1. call = "command_init" /\ HasRoom(heap, QueueNeeds(Commands) + FromTask(0))
        /\ xQueueCreate("Command", Commands) /\ DOMAIN objects = {Queue("Fault")}
    BY <1>6 DEF CommandInit, NothingFails, FromCommand, BootInv
  <2>2. HasRoom(heap', FromTask(0)) /\ DOMAIN objects' = {Queue("Fault"), Queue("Command")}
    BY <1>1, <1>2, <2>1, NeedsAre, QueueGetsRoom
  <2>3. TasksAre(0)'
    BY <2>2, NoTaskYet DEF TasksAre
  <2>4. call' = "event_log_init"
    BY <1>6, <2>1, CallsFollow DEF CommandInit
  <2> QED
    BY <2>2, <2>3, <2>4 DEF NothingFails, Stopped
<1> QED
  BY <1>3, <1>4, <1>5, <1>6

LEMMA TasksFindRoom ==
  ASSUME ~DEBUG, BootInv, NothingFails, CreateTask \/ CreateIdleTask \/ CreateTimerTask
  PROVE  NothingFails'
<1>1. KernelStack \in Nat \ {0}
  BY BootAssumption
<1>2. CASE CreateIdleTask
  <2>1. call = "prvCreateIdleTasks" /\ prvCreateTask("Idle", KernelStack)
        /\ HasRoom(heap, TaskNeeds(KernelStack) + FromTimerQueue) /\ DOMAIN objects = AllTasks
    BY <1>2 DEF CreateIdleTask, NothingFails, BootInv, FromIdle
  <2>2. HasRoom(heap', FromTimerQueue) /\ DOMAIN objects' = DOMAIN objects \cup TaskObjects("Idle")
    BY <1>1, <2>1, NeedsAre, TaskGetsRoom
  <2>3. call' = "xTimerCreateTimerTask"
    BY <1>2, <2>1, <2>2, CallsFollow
       DEF CreateIdleTask, CreationSucceeded, Created, TaskObjects
  <2>4. Queue("Timer") \notin DOMAIN objects'
    <3>1. Len(TaskConfigs) \in 0 .. Len(TaskConfigs)
      BY ConfigsAre
    <3>2. Queue("Timer") \notin TasksMade(Len(TaskConfigs))
      BY <3>1, WhatIsMade
    <3> QED
      BY <2>1, <2>2, <3>2, ObjectsDiffer DEF AllTasks, TaskObjects
  <2> QED
    BY <2>2, <2>3, <2>4 DEF NothingFails, Stopped, Exists
<1>3. CASE CreateTimerTask
  <2>1. call = "xTimerCreateTimerTask" /\ prvCreateTask("TmrSvc", KernelStack)
        /\ HasRoom(heap, TaskNeeds(KernelStack) + FromStateMachine)
    BY <1>3 DEF CreateTimerTask, NothingFails, FromTimerTask
  <2>2. /\ HasRoom(heap', FromStateMachine)
        /\ DOMAIN objects' = DOMAIN objects \cup TaskObjects("TmrSvc")
    BY <1>1, <2>1, NeedsAre, TaskGetsRoom
  <2>3. call' = "vTaskStateMachine"
    BY <1>3, <2>1, <2>2, CallsFollow
       DEF CreateTimerTask, CreationSucceeded, Created, TaskObjects
  <2> QED
    BY <2>2, <2>3 DEF NothingFails, Stopped
<1>4. CASE CreateTask
  <2>1. call = "tasks_create_all"
    BY <1>4 DEF CreateTask
  <2>2. PICK n \in 0 .. (Len(TaskConfigs) - 1) : TasksAre(n) /\ HasRoom(heap, FromTask(n))
    BY <2>1 DEF NothingFails
  <2>3. NextTask = n + 1 /\ n + 1 \in DOMAIN TaskConfigs
    BY <2>2, NextTaskIs DEF TasksAre, Early
  <2> DEFINE config == TaskConfigs[n + 1]
  <2>4. /\ prvCreateTask(config.name, config.stack_size)
        /\ call' = IF ~CreationSucceeded(config.name) THEN "system_halt"
                   ELSE IF ~IsLastTask(n + 1) THEN call
                   ELSE IF DEBUG /\ ~TaskExists("Idle") THEN "configASSERT"
                   ELSE Following
    BY <1>4, <2>3, Zenon DEF CreateTask
  <2>5. /\ config.stack_size \in Nat \ {0} /\ FromTask(n + 1) \in Nat
        /\ FromTask(n) = TaskNeeds(config.stack_size) + FromTask(n + 1)
    <3>1. n + 1 \in 0 .. Len(TaskConfigs)
      BY <2>3, ConfigsAre
    <3> QED
      BY <2>3, <3>1, ConfigsAre, NeedsAre
  <2>6. /\ HasRoom(heap', FromTask(n + 1))
        /\ DOMAIN objects' = DOMAIN objects \cup TaskObjects(config.name)
    BY <2>2, <2>4, <2>5, TaskGetsRoom
  <2>7. CreationSucceeded(config.name)
    BY <2>6 DEF CreationSucceeded, Created, TaskObjects
  <2>8. TasksAre(n + 1)'
    <3>1. TasksMade(n + 1) = TasksMade(n) \cup TaskObjects(config.name)
      BY <2>2, OneMoreTask DEF NameOf
    <3> QED
      BY <2>2, <2>6, <3>1 DEF TasksAre
  <2> HIDE DEF config
  <2>9. CASE IsLastTask(n + 1)
    <3>1. call' = "prvCreateIdleTasks"
      BY <2>1, <2>4, <2>7, <2>9, CallsFollow
    <3>2. HasRoom(heap', FromIdle)
      BY <2>6, <2>9, NeedsAre DEF IsLastTask
    <3> QED
      BY <3>1, <3>2 DEF NothingFails, Stopped
  <2>10. CASE ~IsLastTask(n + 1)
    <3>1. call' = "tasks_create_all"
      BY <2>1, <2>4, <2>7, <2>10
    <3>2. n + 1 \in 0 .. (Len(TaskConfigs) - 1)
      <4>1. Len(TaskConfigs) \in Nat
        BY ConfigsAre
      <4>2. n + 1 # Len(TaskConfigs)
        BY <2>10 DEF IsLastTask
      <4> QED
        BY <4>1, <4>2
    <3>3. \E m \in 0 .. (Len(TaskConfigs) - 1) : TasksAre(m)' /\ HasRoom(heap', FromTask(m))
      BY <2>6, <2>8, <3>2
    <3> QED
      BY <3>1, <3>3 DEF NothingFails, Stopped
  <2> QED
    BY <2>9, <2>10
<1> QED
  BY <1>2, <1>3, <1>4

LEMMA StepFindsRoom ==
  ASSUME ~DEBUG
  PROVE  BootInv /\ RoomInv /\ [BootNext]_<<vars, bootVars>> => RoomInv'
<1> SUFFICES ASSUME BootInv, RoomInv, [BootNext]_<<vars, bootVars>>,
                    build'.size = configTOTAL_HEAP_SIZE
             PROVE  NothingFails'
  BY DEF RoomInv
<1>1. build' = build
  BY DEF BootNext, BeforePowerOn, BootStep, FaultQueueInit, CommandInit, EventLogInit, VerifyImage,
         CreateTask, CreateIdleTask, CreateTimerQueue, CreateTimerTask, StateMachineStarts, bootVars
<1>2. NothingFails
  BY <1>1 DEF RoomInv
<1>3. CASE BeforePowerOn \/ UNCHANGED <<vars, bootVars>>
  <2>1. UNCHANGED <<heap, objects, call>>
    BY <1>3 DEF BeforePowerOn, bootVars
  <2> QED
    BY <1>2, <2>1 DEF NothingFails, TasksAre, Exists
<1>4. CASE EventLogInit
  <2>1. UNCHANGED <<heap, objects>> /\ call = "event_log_init" /\ call' = "image_integrity_verify"
    BY <1>4, CallsFollow DEF EventLogInit
  <2> QED
    BY <1>2, <2>1 DEF NothingFails, TasksAre, Stopped
<1>5. CASE VerifyImage
  <2>1. /\ UNCHANGED <<heap, objects>> /\ call = "image_integrity_verify"
        /\ call' = "tasks_create_all"
    BY <1>5, CallsFollow DEF VerifyImage
  <2>2. TasksAre(0)' /\ HasRoom(heap', FromTask(0)) /\ 0 \in 0 .. (Len(TaskConfigs) - 1)
    BY <1>2, <2>1, ConfigsAre DEF NothingFails, TasksAre
  <2>3. \E m \in 0 .. (Len(TaskConfigs) - 1) : TasksAre(m)' /\ HasRoom(heap', FromTask(m))
    BY <2>2
  <2> QED
    BY <2>1, <2>3 DEF NothingFails, Stopped
<1>6. CASE FaultQueueInit \/ CommandInit \/ CreateTimerQueue \/ StateMachineStarts
  BY <1>2, <1>6, QueuesFindRoom
<1>7. CASE CreateTask \/ CreateIdleTask \/ CreateTimerTask
  BY <1>2, <1>7, TasksFindRoom
<1> QED
  BY <1>3, <1>4, <1>5, <1>6, <1>7 DEF BootNext, BootStep

(* A build without DEBUG boots, whatever the tasks and the sizes are, if   *)
(* the configured heap has room for the blocks of all queues and tasks and *)
(* one block more: nothing is given back during the boot, so the allocator *)
(* always cuts from one free block and none of the space is lost to gaps.  *)
(* (A DEBUG build asserts in tasks_create_all, whatever its heap.)         *)
THEOREM EnoughHeapBoots ==
  ASSUME ~DEBUG, HeapSuffices
  PROVE  BootSpec => []ConfiguredBootCompletes
<1>1. RoomInv => ConfiguredBootCompletes
  BY DEF RoomInv, NothingFails, ConfiguredBootCompletes
<1>2. BootSpec => []RoomInv
  BY RoomAtFirst, StepFindsRoom, InvHoldsInitially, BootStepKeepsInv, PTL DEF BootSpec
<1> QED
  BY <1>1, <1>2, PTL

-----------------------------------------------------------------------------
(* The CRC is the remainder of a polynomial division.  A polynomial is the *)
(* set of its exponents; the register stands for the polynomial that has   *)
(* its bit 0 at the highest exponent, high.                                *)

DivFold == INSTANCE Folding WITH op <- Subtract

LEMMA DivisionsAreFolds ==
  \A base, seq : DivFold!FoldLeft(Subtract, base, seq) = FoldLeft(Subtract, base, seq)
BY DEF DivFold!FoldLeft, DivFold!MapThenFoldSet, DivFold!Max, FoldLeft, MapThenFoldSet, Max

Placed(x, high) == {high - b : b \in x}

LEMMA InPlaced ==
  ASSUME NEW x \in SUBSET Int, NEW high \in Int
  PROVE  Placed(x, high) \in SUBSET Int /\ \A e \in Int : e \in Placed(x, high) <=> high - e \in x
<1>1. \A b \in x : high - b \in Int /\ high - (high - b) = b
  OBVIOUS
<1>2. \A e \in Int : high - (high - e) = e /\ high - e \in Int
  OBVIOUS
<1> QED
  BY <1>1, <1>2 DEF Placed

LEMMA WordsArePolynomials ==
  /\ Width \in Nat /\ Width > 0 /\ Word \subseteq Int
  /\ CRC32_POLY \in SUBSET Word /\ Width - 1 \in CRC32_POLY
  /\ \A b : b \in Word <=> b \in Int /\ 0 <= b /\ b < Width
<1>1. Width \in Nat /\ Width > 0 /\ CRC32_POLY \subseteq 0 .. (Width - 1) /\ Width - 1 \in CRC32_POLY
  BY ImageAssumption
<1> QED
  BY <1>1 DEF Word

LEMMA InShift ==
  ASSUME NEW x \in SUBSET Word, NEW i, NEW c \in Int
  PROVE  c \in Shift(x, i) <=>
            ((c + 1 \in x /\ c + 1 # 0) <=> ~(0 \in x /\ c \in CRC32_POLY))
<1> DEFINE shifted == {b - 1 : b \in x \ {0}}
<1>1. c \in shifted <=> c + 1 \in x /\ c + 1 # 0
  <2>1. \A b \in x : b \in Int /\ (b - 1) + 1 = b
    BY WordsArePolynomials
  <2>2. (c + 1) - 1 = c
    OBVIOUS
  <2> QED
    BY <2>1, <2>2
<1>2. Shift(x, i) = IF 0 \in x THEN Xor(shifted, CRC32_POLY) ELSE shifted
  BY DEF Shift
<1> HIDE DEF shifted
<1> QED
  BY <1>1, <1>2 DEF Xor

(* What is subtracted at the highest exponent.  *)
LEMMA InGenerator ==
  ASSUME NEW high \in Int, NEW e \in Int
  PROVE  e \in {g + high - Width : g \in Generator} <=> e = high \/ high - 1 - e \in CRC32_POLY
<1>1. Width \in Int /\ CRC32_POLY \in SUBSET Int
  BY WordsArePolynomials
<1>2. e \in {g + high - Width : g \in Generator} <=>
         \E g \in Generator : e = g + high - Width
  OBVIOUS
<1>3. (\E g \in Generator : e = g + high - Width) <=>
         e = Width + high - Width \/ \E b \in CRC32_POLY : e = (Width - 1 - b) + high - Width
  BY DEF Generator
<1>4. Width + high - Width = high
  BY <1>1
<1>5. \A b \in CRC32_POLY : e = (Width - 1 - b) + high - Width <=> b = high - 1 - e
  BY <1>1
<1> QED
  BY <1>2, <1>3, <1>4, <1>5

(* A step of the division is a shift of the register.  *)
LEMMA ShiftDivides ==
  ASSUME NEW x \in SUBSET Word, NEW high \in Int, NEW rest \in SUBSET Int,
         \A e \in rest : e < high, NEW i
  PROVE  Subtract(Xor(Placed(x, high), rest), high)
            = Xor(Placed(Shift(x, i), high - 1), rest)
<1> DEFINE p == Xor(Placed(x, high), rest)
           y == Shift(x, i)
           q == Xor(Placed(y, high - 1), rest)
           gen == {g + high - Width : g \in Generator}
<1>1. x \in SUBSET Int /\ y \in SUBSET Int /\ y \in SUBSET Word /\ high - 1 \in Int
  BY WordsArePolynomials, ShiftStaysInWord
<1>2. p \in SUBSET Int /\ q \in SUBSET Int /\ gen \in SUBSET Int
  <2>1. Placed(x, high) \in SUBSET Int /\ Placed(y, high - 1) \in SUBSET Int
    BY <1>1, InPlaced
  <2>2. gen \in SUBSET Int
    <3>1. Generator \in SUBSET Int /\ Width \in Int
      BY WordsArePolynomials DEF Generator
    <3> QED
      BY <3>1
  <2> HIDE DEF y, gen
  <2> QED
    BY <2>1, <2>2 DEF Xor
<1>3. \A e \in Int : e \in p <=> ((high - e \in x) <=> e \notin rest)
  <2>1. \A e \in Int : e \in Placed(x, high) <=> high - e \in x
    BY <1>1, InPlaced
  <2> QED
    BY <2>1 DEF Xor
<1>4. \A e \in Int : e \in q <=> ((high - 1 - e \in y) <=> e \notin rest)
  <2>1. \A e \in Int : e \in Placed(y, high - 1) <=> high - 1 - e \in y
    BY <1>1, InPlaced
  <2> HIDE DEF y
  <2> QED
    BY <2>1 DEF Xor
<1>5. \A e \in Int : high - 1 - e \in y <=>
          ((high - e \in x /\ e # high) <=> ~(0 \in x /\ high - 1 - e \in CRC32_POLY))
  <2> SUFFICES ASSUME NEW e \in Int
               PROVE  high - 1 - e \in y <=>
                        ((high - e \in x /\ e # high) <=> ~(0 \in x /\ high - 1 - e \in CRC32_POLY))
    OBVIOUS
  <2>1. high - 1 - e \in Int /\ (high - 1 - e) + 1 = high - e /\ (high - e # 0 <=> e # high)
    OBVIOUS
  <2> QED
    BY <2>1, InShift
<1>6. high \notin rest /\ high - high = 0 /\ high - 1 - high = -1 /\ -1 \notin CRC32_POLY
  BY WordsArePolynomials
<1>7. high \in p <=> 0 \in x
  BY <1>3, <1>6
<1>8. \A e \in Int : e \in gen <=> e = high \/ high - 1 - e \in CRC32_POLY
  BY InGenerator
<1>9. Subtract(p, high) = IF high \in p THEN Xor(p, gen) ELSE p
  BY DEF Subtract
<1> HIDE DEF p, q, y, gen
<1>10. CASE 0 \in x
  <2>1. Subtract(p, high) = Xor(p, gen)
    BY <1>7, <1>9, <1>10
  <2>2. \A e \in Int : e \in Xor(p, gen) <=> e \in q
    <3> SUFFICES ASSUME NEW e \in Int
                 PROVE  e \in Xor(p, gen) <=> e \in q
      OBVIOUS
    <3>1. e \in Xor(p, gen) <=> (e \in p <=> e \notin gen)
      BY DEF Xor
    <3>2. CASE e = high
      BY <1>3, <1>4, <1>5, <1>6, <1>7, <1>8, <1>10, <3>1, <3>2
    <3>3. CASE e # high
      BY <1>3, <1>4, <1>5, <1>8, <1>10, <3>1, <3>3, Zenon
    <3> QED
      BY <3>2, <3>3
  <2>3. Xor(p, gen) \in SUBSET Int
    BY <1>2 DEF Xor
  <2>4. Xor(p, gen) = q
    BY <1>2, <2>2, <2>3
  <2> QED
    BY <2>1, <2>4 DEF p, q, y
<1>11. CASE 0 \notin x
  <2>1. Subtract(p, high) = p
    BY <1>7, <1>9, <1>11
  <2>2. \A e \in Int : e \in p <=> e \in q
    BY <1>3, <1>4, <1>5, <1>6, <1>11
  <2>3. p = q
    BY <1>2, <2>2
  <2> QED
    BY <2>1, <2>3 DEF p, q, y
<1> QED
  BY <1>10, <1>11

(* The bits of the message, numbered from 1 to n in the order in which the *)
(* register takes them, as exponents; Ahead are those after off.           *)
Exponents(ones, n) == {n - j + Width : j \in ones}
Ahead(ones, n, off) == Exponents({j \in ones : j > off}, n)

LEMMA InAhead ==
  ASSUME NEW n \in Nat, NEW ones \in SUBSET (1 .. n), NEW off \in Nat
  PROVE  /\ Ahead(ones, n, off) \in SUBSET Int
         /\ \A e \in Int : e \in Ahead(ones, n, off) <=>
                              n + Width - e \in ones /\ n + Width - e > off
<1>1. Width \in Int /\ ones \in SUBSET Int
  BY WordsArePolynomials
<1>2. \A j \in ones : n - j + Width \in Int /\ n + Width - (n - j + Width) = j
  BY <1>1
<1>3. \A e \in Int : n - (n + Width - e) + Width = e
  BY <1>1
<1> QED
  BY <1>2, <1>3 DEF Ahead, Exponents

(* Adding the next byte to the register.  *)
LEMMA ByteIsTaken ==
  ASSUME NEW n \in Nat, NEW ones \in SUBSET (1 .. n), NEW off \in Nat,
         NEW crc \in SUBSET Word, NEW byte \in Bytes,
         \A b \in 0 .. (BitsPerByte - 1) : b \in byte <=> off + 1 + b \in ones
  PROVE  Xor(Placed(crc, n + Width - 1 - off), Ahead(ones, n, off))
            = Xor(Placed(Xor(crc, byte), n + Width - 1 - off), Ahead(ones, n, off + BitsPerByte))
<1> DEFINE high == n + Width - 1 - off
           y == Xor(crc, byte)
           p == Xor(Placed(crc, high), Ahead(ones, n, off))
           q == Xor(Placed(y, high), Ahead(ones, n, off + BitsPerByte))
<1>1. /\ high \in Int /\ Width \in Int /\ crc \in SUBSET Int /\ byte \in SUBSET Int
      /\ y \in SUBSET Int /\ BitsPerByte \in Nat /\ off + BitsPerByte \in Nat
      /\ \A b \in byte : 0 <= b /\ b < BitsPerByte
  <2>1. Width \in Int /\ crc \in SUBSET Int /\ BitsPerByte \in Nat
    BY WordsArePolynomials, WordIsBytes
  <2>2. byte \in SUBSET Int /\ \A b \in byte : 0 <= b /\ b < BitsPerByte
    BY <2>1 DEF Bytes
  <2>3. y \in SUBSET Int
    BY <2>1, <2>2 DEF Xor
  <2> QED
    BY <2>1, <2>2, <2>3
<1>2. /\ \A e \in Int : e \in Placed(crc, high) <=> high - e \in crc
      /\ \A e \in Int : e \in Placed(y, high) <=> high - e \in y
      /\ Placed(crc, high) \in SUBSET Int /\ Placed(y, high) \in SUBSET Int
  <2> HIDE DEF high, y
  <2> QED
    BY <1>1, InPlaced
<1>3. /\ \A e \in Int : e \in Ahead(ones, n, off) <=>
             n + Width - e \in ones /\ n + Width - e > off
      /\ \A e \in Int : e \in Ahead(ones, n, off + BitsPerByte) <=>
             n + Width - e \in ones /\ n + Width - e > off + BitsPerByte
      /\ Ahead(ones, n, off) \in SUBSET Int /\ Ahead(ones, n, off + BitsPerByte) \in SUBSET Int
  BY <1>1, InAhead
<1>4. \A e \in Int : high - e \in y <=> (high - e \in crc <=> high - e \notin byte)
  BY DEF Xor
<1>5. ASSUME NEW e \in Int
      PROVE  /\ high - e \in byte <=> /\ n + Width - e \in ones /\ n + Width - e > off
                                      /\ ~(n + Width - e > off + BitsPerByte)
             /\ n + Width - e > off + BitsPerByte => n + Width - e > off
  <2> DEFINE b == high - e
  <2>1. b \in Int /\ off + 1 + b = n + Width - e
    BY <1>1
  <2>2. b \in 0 .. (BitsPerByte - 1) <=>
            n + Width - e > off /\ ~(n + Width - e > off + BitsPerByte)
    BY <1>1, <2>1
  <2>3. b \in byte => b \in 0 .. (BitsPerByte - 1)
    BY <1>1
  <2> HIDE DEF b, high
  <2>4. n + Width - e > off + BitsPerByte => n + Width - e > off
    BY <1>1
  <2> QED
    BY <2>1, <2>2, <2>3, <2>4 DEF b
<1>6. p \in SUBSET Int /\ q \in SUBSET Int
  <2> HIDE DEF high, y
  <2> QED
    BY <1>2, <1>3 DEF Xor
<1>7. ASSUME NEW e \in Int
      PROVE  e \in p <=> e \in q
  <2>1. e \in p <=> (high - e \in crc <=> ~(n + Width - e \in ones /\ n + Width - e > off))
    <3> HIDE DEF high, y
    <3> QED
      BY <1>2, <1>3 DEF Xor
  <2>2. e \in q <=> (high - e \in y
                       <=> ~(n + Width - e \in ones /\ n + Width - e > off + BitsPerByte))
    <3> HIDE DEF high, y
    <3> QED
      BY <1>2, <1>3 DEF Xor
  <2> HIDE DEF high, y, p, q
  <2> QED
    BY <1>4, <1>5, <2>1, <2>2, Zenon
<1> HIDE DEF p, q
<1>8. p = q
  BY <1>6, <1>7
<1> QED
  BY <1>8 DEF p, q, y, high

(* The division, one exponent after the other.  *)
Divides(run, p, n) ==
    run[0] = p /\ \A m \in 1 .. n : run[m] = Subtract(run[m - 1], n + Width - m)

LEMMA DivisionRuns ==
  ASSUME NEW n \in Nat, NEW p
  PROVE  \E run : Divides(run, p, n) /\ Remainder(p, n + Width - 1) = run[n]
<1> DEFINE seq == [i \in 1 .. n |-> n + Width - i]
<1>3. Remainder(p, n + Width - 1) = FoldLeft(Subtract, p, seq)
  <2>1. PICK top : top = n + Width - 1
    OBVIOUS
  <2>2. Remainder(p, top) = FoldLeft(Subtract, p, [i \in 1 .. (top - Width + 1) |-> top + 1 - i])
    BY DEF Remainder
  <2>3. [i \in 1 .. (top - Width + 1) |-> top + 1 - i] = seq
    <3>1. top - Width + 1 = n /\ \A i \in 1 .. n : top + 1 - i = n + Width - i
      BY <2>1, WordsArePolynomials
    <3> QED
      BY <3>1
  <2> HIDE DEF seq
  <2> QED
    BY <2>1, <2>2, <2>3
<1>4. DOMAIN seq = 1 .. n
  OBVIOUS
<1>5. \A m \in 1 .. n : seq[m] = n + Width - m
  OBVIOUS
<1> HIDE DEF seq
<1>6. PICK run : DivFold!IsRun(run, p, seq, n) /\ DivFold!FoldLeft(Subtract, p, seq) = run[n]
  BY <1>4, DivFold!FoldLeftRuns
<1>7. run[0] = p /\ \A m \in 1 .. n : run[m] = Subtract(run[m - 1], seq[m])
  BY <1>6, Zenon DEF DivFold!IsRun
<1>8. Divides(run, p, n)
  BY <1>5, <1>7 DEF Divides
<1> QED
  BY <1>3, <1>6, <1>8, DivisionsAreFolds

LEMMA DivisionStep ==
  ASSUME NEW n \in Nat, NEW p, NEW run, Divides(run, p, n), NEW off \in 0 .. (n - 1)
  PROVE  run[off + 1] = Subtract(run[off], n + Width - 1 - off)
<1>1. off + 1 \in 1 .. n /\ (off + 1) - 1 = off /\ n + Width - (off + 1) = n + Width - 1 - off
  BY WordsArePolynomials
<1> QED
  BY <1>1 DEF Divides

(* After off bits the register has crc, and the message is still to come.  *)
Stands(run, ones, n, off, crc) ==
    run[off] = Xor(Placed(crc, n + Width - 1 - off), Ahead(ones, n, off))
ByteAt(byte, ones, off) ==
    byte \in Bytes /\ \A b \in 0 .. (BitsPerByte - 1) : b \in byte <=> off + 1 + b \in ones

LEMMA ByteDivides ==
  ASSUME NEW n \in Nat, NEW ones \in SUBSET (1 .. n), NEW off \in Nat, off + BitsPerByte <= n,
         NEW crc \in SUBSET Word, NEW byte, ByteAt(byte, ones, off),
         NEW p, NEW run, Divides(run, p, n), Stands(run, ones, n, off, crc)
  PROVE  /\ UpdateByte(crc, byte) \in SUBSET Word
         /\ Stands(run, ones, n, off + BitsPerByte, UpdateByte(crc, byte))
<1> DEFINE m == BitsPerByte
           rest == Ahead(ones, n, off + m)
           rounds == [i \in 1 .. m |-> i]
           start == Xor(crc, byte)
           V == [k \in 0 .. m |->
                   {x \in SUBSET Word : run[off + k] = Xor(Placed(x, n + Width - 1 - (off + k)), rest)}]
<1>1. m \in Nat /\ m > 0 /\ Width \in Nat
  BY WordIsBytes
<1>2. rest \in SUBSET Int /\ \A e \in rest : n + Width - e > off + m
  <2> DEFINE at == off + m
  <2>1. at \in Nat
    BY <1>1
  <2> HIDE DEF at
  <2>2. /\ Ahead(ones, n, at) \in SUBSET Int
        /\ \A e \in Int : e \in Ahead(ones, n, at) <=> n + Width - e \in ones /\ n + Width - e > at
    BY <2>1, InAhead
  <2>3. \A e \in Ahead(ones, n, at) : n + Width - e > at
    BY <2>2
  <2> QED
    BY <2>2, <2>3 DEF at
<1>3. start \in SUBSET Word
  BY WordIsBytes DEF Xor, Word, Bytes, ByteAt
<1>4. start \in V[0]
  <2>1. run[off] = Xor(Placed(start, n + Width - 1 - off), rest)
    BY ByteIsTaken DEF Stands, ByteAt
  <2>2. 0 \in 0 .. m /\ off + 0 = off
    BY <1>1
  <2> HIDE DEF start, rest
  <2> QED
    BY <1>3, <2>1, <2>2
<1>5. DOMAIN rounds = 1 .. m /\ \A k \in 1 .. m : rounds[k] = k
  OBVIOUS
<1> HIDE DEF m, rest, start, rounds
<1>6. ASSUME NEW k \in 1 .. m, NEW x \in V[k - 1]
      PROVE  Shift(x, rounds[k]) \in V[k]
  <2> DEFINE at == off + (k - 1)
             high == n + Width - 1 - at
  <2>1. k \in 0 .. m /\ k - 1 \in 0 .. m /\ at \in 0 .. (n - 1) /\ at + 1 = off + k
        /\ high \in Int /\ high - 1 = n + Width - 1 - (off + k)
    BY <1>1 DEF m
  <2>2. x \in SUBSET Word /\ run[at] = Xor(Placed(x, high), rest)
    BY <1>6, <2>1
  <2>3. run[at + 1] = Subtract(run[at], high)
    BY <2>1, DivisionStep
  <2>4. \A e \in rest : e < high
    <3> SUFFICES ASSUME NEW e \in rest
                 PROVE  e < high
      OBVIOUS
    <3>1. e \in Int /\ n + Width - e > off + m
      BY <1>2
    <3> QED
      BY <1>1, <2>1, <3>1
  <2> HIDE DEF high, at
  <2>5. Subtract(Xor(Placed(x, high), rest), high)
            = Xor(Placed(Shift(x, rounds[k]), high - 1), rest)
    BY <1>2, <2>1, <2>2, <2>4, ShiftDivides
  <2>6. Shift(x, rounds[k]) \in SUBSET Word
    BY <2>2, ShiftStaysInWord
  <2>7. run[off + k] = Xor(Placed(Shift(x, rounds[k]), n + Width - 1 - (off + k)), rest)
    BY <2>1, <2>2, <2>3, <2>5
  <2> QED
    BY <2>1, <2>6, <2>7
<1> HIDE DEF V
<1>7. ShiftFold!FoldLeft(Shift, start, rounds) \in V[m]
  BY <1>1, <1>4, <1>5, <1>6, ShiftFold!FoldLeftReaches
<1>8. UpdateByte(crc, byte) = ShiftFold!FoldLeft(Shift, start, rounds)
  BY FoldsAreFolds DEF UpdateByte, start, rounds, m
<1>9. UpdateByte(crc, byte) \in V[m] /\ m \in 0 .. m
  BY <1>1, <1>7, <1>8
<1> QED
  BY <1>9 DEF V, rest, m, Stands

LEMMA AheadOfAll ==
  ASSUME NEW n \in Nat, NEW ones \in SUBSET (1 .. n)
  PROVE  Ahead(ones, n, 0) = Exponents(ones, n) /\ Ahead(ones, n, n) = {}
<1>1. \A j \in ones : j > 0 /\ ~(j > n)
  OBVIOUS
<1>2. {j \in ones : j > 0} = ones /\ {j \in ones : j > n} = {}
  BY <1>1
<1> QED
  BY <1>2 DEF Ahead, Exponents

(* The same for all bytes of the data; at[i] bits come before byte i + 1.  *)
Numbers(at, len, n) ==
    /\ at[0] = 0 /\ at[len] = n
    /\ \A i \in 1 .. len : /\ at[i - 1] \in Nat /\ at[i] = at[i - 1] + BitsPerByte
                           /\ at[i] <= n

LEMMA BytesDivide ==
  ASSUME NEW len \in Nat, NEW n \in Nat, NEW data,
         DOMAIN data = 1 .. len,
         NEW at, Numbers(at, len, n),
         NEW ones \in SUBSET (1 .. n), \A i \in 1 .. len : ByteAt(data[i], ones, at[i - 1])
  PROVE  Remainder(Xor(Placed(CRC32_INIT, n + Width - 1), Exponents(ones, n)), n + Width - 1)
            = Placed(crc32_update(CRC32_INIT, data), Width - 1)
<1> DEFINE p == Xor(Placed(CRC32_INIT, n + Width - 1), Exponents(ones, n))
<1>1. Width \in Nat /\ BitsPerByte \in Nat
  BY WordIsBytes
<1> HIDE DEF p
<1>5. PICK run : Divides(run, p, n) /\ Remainder(p, n + Width - 1) = run[n]
  BY DivisionRuns
<1> DEFINE V == [i \in 0 .. len |->
                   {c \in SUBSET Word : Stands(run, ones, n, at[i], c)}]
<1>6. CRC32_INIT \in V[0]
  <2>1. CRC32_INIT \in SUBSET Word /\ 0 \in 0 .. len /\ n + Width - 1 - 0 = n + Width - 1
        /\ at[0] = 0
    BY <1>1 DEF CRC32_INIT, Numbers
  <2>2. Stands(run, ones, n, 0, CRC32_INIT)
    BY <1>5, <2>1, AheadOfAll DEF Divides, p, Stands
  <2> QED
    BY <2>1, <2>2
<1>7. ASSUME NEW i \in 1 .. len, NEW c \in V[i - 1]
      PROVE  UpdateByte(c, data[i]) \in V[i]
  <2> DEFINE off == at[i - 1]
  <2>1. i \in 0 .. len /\ i - 1 \in 0 .. len
    OBVIOUS
  <2>2. c \in SUBSET Word /\ Stands(run, ones, n, off, c)
    BY <1>7, <2>1
  <2>3. off \in Nat /\ at[i] = off + BitsPerByte /\ off + BitsPerByte <= n
    BY DEF Numbers
  <2>4. ByteAt(data[i], ones, off)
    OBVIOUS
  <2> HIDE DEF off
  <2>5. /\ UpdateByte(c, data[i]) \in SUBSET Word
        /\ Stands(run, ones, n, off + BitsPerByte, UpdateByte(c, data[i]))
    BY <1>5, <2>2, <2>3, <2>4, ByteDivides
  <2> QED
    BY <2>1, <2>3, <2>5
<1> HIDE DEF V
<1>8. ByteFold!FoldLeft(UpdateByte, CRC32_INIT, data) \in V[len]
  BY <1>6, <1>7, ByteFold!FoldLeftReaches
<1>9. crc32_update(CRC32_INIT, data) \in V[len] /\ len \in 0 .. len
  BY <1>8, FoldsAreFolds DEF crc32_update
<1> DEFINE crc == crc32_update(CRC32_INIT, data)
<1>10. crc \in SUBSET Word
       /\ run[n] = Xor(Placed(crc, n + Width - 1 - n), Ahead(ones, n, n))
  BY <1>9 DEF V, Numbers, Stands
<1>11. Ahead(ones, n, n) = {} /\ n + Width - 1 - n = Width - 1
  <2>1. Ahead(ones, n, n) = {}
    BY AheadOfAll, Zenon
  <2>2. n + Width - 1 - n = Width - 1
    BY <1>1
  <2> QED
    BY <2>1, <2>2
<1>12. run[n] = Placed(crc, Width - 1)
  BY <1>10, <1>11 DEF Xor
<1> QED
  BY <1>5, <1>12 DEF p

(* What the message of a block of memory is, and what its division leaves.   *)

Message(data, ones, at, len, n) ==
    /\ len \in Nat /\ n \in Nat /\ DOMAIN data = 1 .. len
    /\ Numbers(at, len, n) /\ ones \in SUBSET (1 .. n)
    /\ \A i \in 1 .. len : ByteAt(data[i], ones, at[i - 1])

LEMMA MessageDivides ==
  ASSUME NEW data, NEW ones, NEW at, NEW len, NEW n, Message(data, ones, at, len, n)
  PROVE  Remainder(Xor(Placed(CRC32_INIT, n + Width - 1), Exponents(ones, n)), n + Width - 1)
            = Placed(crc32_update(CRC32_INIT, data), Width - 1)
BY BytesDivide DEF Message

LEMMA DataDivides ==
  ASSUME NEW data \in Seq(Bytes), NEW n, n = Len(data) * BitsPerByte,
         NEW ones \in SUBSET (1 .. n),
         \A i \in 1 .. Len(data) : \A b \in 0 .. (BitsPerByte - 1) :
             b \in data[i] <=> (i - 1) * BitsPerByte + 1 + b \in ones
  PROVE  Remainder(Xor(Placed(CRC32_INIT, n + Width - 1), Exponents(ones, n)), n + Width - 1)
            = Placed(crc32_update(CRC32_INIT, data), Width - 1)
<1> DEFINE len == Len(data)
           m == BitsPerByte
           at == [i \in 0 .. len |-> i * m]
<1>1. m \in Nat /\ m > 0 /\ len \in Nat /\ DOMAIN data = 1 .. len
      /\ \A i \in 1 .. len : data[i] \in Bytes
  BY WordIsBytes
<1>2. n = len * m
  OBVIOUS
<1>0. \A i \in 1 .. len : \A b \in 0 .. (m - 1) : b \in data[i] <=> (i - 1) * m + 1 + b \in ones
  OBVIOUS
<1> HIDE DEF m, len
<1>3. n \in Nat /\ 0 * m = 0
  BY <1>1, <1>2, Z3
<1>4. ASSUME NEW i \in 1 .. len
      PROVE  /\ (i - 1) * m \in Nat /\ i * m = (i - 1) * m + m /\ i * m <= n
             /\ i \in 0 .. len /\ i - 1 \in 0 .. len
  <2>1. i \in Nat /\ i >= 1 /\ i <= len
    BY <1>1
  <2>2. (i - 1) * m \in Nat
    BY <1>1, <2>1, Z3
  <2>3. i * m = (i - 1) * m + m
    BY <1>1, <2>1, Z3
  <2>4. i * m <= len * m
    BY <1>1, <2>1, Z3
  <2>5. i * m <= n
    BY <1>2, <2>4, Zenon
  <2>6. i \in 0 .. len /\ i - 1 \in 0 .. len
    BY <1>1, <2>1
  <2> QED
    BY <2>2, <2>3, <2>5, <2>6, Zenon
<1>5. at[0] = 0 /\ at[len] = n /\ \A i \in 1 .. len : at[i] = i * m /\ at[i - 1] = (i - 1) * m
  <2>1. 0 \in 0 .. len /\ len \in 0 .. len
    BY <1>1
  <2> QED
    BY <1>2, <1>3, <1>4, <2>1, Zenon
<1> HIDE DEF at
<1>6. Numbers(at, len, n)
  <2>1. \A i \in 1 .. len : at[i - 1] \in Nat /\ at[i] = at[i - 1] + m /\ at[i] <= n
    BY <1>4, <1>5, Zenon
  <2> QED
    BY <1>5, <2>1 DEF Numbers, m
<1>7. \A i \in 1 .. len : ByteAt(data[i], ones, at[i - 1])
  BY <1>0, <1>1, <1>5, Zenon DEF ByteAt, m
<1>8. Message(data, ones, at, len, n)
  <2>1. ones \in SUBSET (1 .. n)
    OBVIOUS
  <2> QED
    BY <1>1, <1>3, <1>6, <1>7, <2>1, Zenon DEF Message
<1> QED
  BY <1>8, MessageDivides, Zenon

(* The bits of the image the CRC covers, numbered from 1, and their number. *)
CoveredBits == (Size - SlotBytes) * BitsPerByte
Position(at, j) == IF j <= at * BitsPerByte THEN j - 1 ELSE j - 1 + Width
OnesOf(bits, at) == {j \in 1 .. CoveredBits : Position(at, j) \in bits}
DataOf(bits, at) == BytesOf(bits, 0, at) \o BytesOf(bits, at + SlotBytes, Size)

LEMMA DataIsMessage ==
  ASSUME NEW bits, NEW at, IsSlot(at)
  PROVE  /\ DataOf(bits, at) \in Seq(Bytes) /\ Len(DataOf(bits, at)) = Size - SlotBytes
         /\ \A i \in 1 .. (Size - SlotBytes) : \A b \in 0 .. (BitsPerByte - 1) :
               b \in DataOf(bits, at)[i] <=> (i - 1) * BitsPerByte + 1 + b \in OnesOf(bits, at)
<1> DEFINE s == BytesOf(bits, 0, at)
           t == BytesOf(bits, at + SlotBytes, Size)
           m == BitsPerByte
           len == Size - SlotBytes
<1>1. /\ m \in Nat /\ m > 0 /\ Width \in Nat /\ SlotBytes \in Nat /\ Size \in Nat /\ at \in Nat
      /\ at <= len /\ len \in Nat /\ SlotBytes * m = Width /\ at + SlotBytes \in Nat
      /\ at + SlotBytes <= Size
  <2>1. /\ BitsPerByte \in Nat /\ BitsPerByte > 0 /\ Width \in Nat /\ SlotBytes \in Nat
        /\ Size \in Nat /\ SlotBytes * BitsPerByte = Width
    BY WordIsBytes
  <2>2. at \in Nat /\ at + SlotBytes <= Size
    BY DEF IsSlot
  <2>3. at <= len /\ len \in Nat /\ at + SlotBytes \in Nat
    BY <2>1, <2>2
  <2> QED
    BY <2>1, <2>2, <2>3
<1>2. s \in Seq(Bytes) /\ t \in Seq(Bytes)
  BY <1>1, BytesAreBytes
<1>3. Len(s) = at /\ Len(t) = len - at
  <2>1. at - 0 = at /\ Size - (at + SlotBytes) = len - at /\ len - at \in Nat
    BY <1>1
  <2>2. DOMAIN s = 1 .. (at - 0) /\ DOMAIN t = 1 .. (Size - (at + SlotBytes))
    BY DEF BytesOf
  <2> HIDE DEF s, t, len
  <2>3. DOMAIN s = 1 .. Len(s) /\ Len(s) \in Nat /\ DOMAIN t = 1 .. Len(t) /\ Len(t) \in Nat
    BY <1>2
  <2> QED
    BY <1>1, <2>1, <2>2, <2>3
<1>4. /\ \A i \in 1 .. at : s[i] = {b \in 0 .. (m - 1) : (0 + i - 1) * m + b \in bits}
      /\ \A i \in 1 .. (Size - (at + SlotBytes)) :
            t[i] = {b \in 0 .. (m - 1) : (at + SlotBytes + i - 1) * m + b \in bits}
  <2>1. at - 0 = at
    BY <1>1
  <2> QED
    BY <2>1 DEF BytesOf
<1>5. /\ DataOf(bits, at) \in Seq(Bytes) /\ Len(DataOf(bits, at)) = len
      /\ \A i \in 1 .. len : DataOf(bits, at)[i] = IF i <= at THEN s[i] ELSE t[i - at]
  <2> HIDE DEF s, t
  <2>1. s \o t \in Seq(Bytes) /\ Len(s \o t) = Len(s) + Len(t)
        /\ \A i \in 1 .. (Len(s) + Len(t)) :
              (s \o t)[i] = IF i <= Len(s) THEN s[i] ELSE t[i - Len(s)]
    BY <1>2
  <2>2. Len(s) + Len(t) = len
    BY <1>1, <1>3
  <2> QED
    BY <1>3, <2>1, <2>2 DEF DataOf, s, t
<1>6. ASSUME NEW i \in 1 .. len, NEW b \in 0 .. (m - 1)
      PROVE  b \in DataOf(bits, at)[i] <=> (i - 1) * m + 1 + b \in OnesOf(bits, at)
  <2> DEFINE j == (i - 1) * m + 1 + b
             base == (i - 1) * m
  <2>1. i \in Nat /\ i >= 1 /\ i <= len /\ b \in Nat /\ b < m
    BY <1>1
  <2> HIDE DEF m, len, s, t
  <2>2. base \in Nat /\ base + m = i * m /\ i * m <= len * m
    BY <1>1, <2>1, Z3
  <2>3. len * m = CoveredBits /\ CoveredBits \in Nat
    <3>1. len * m \in Nat
      BY <1>1, Z3
    <3> QED
      BY <3>1 DEF CoveredBits, len, m
  <2> HIDE DEF base
  <2>4. j = base + 1 + b
    BY DEF base
  <2>5. j \in 1 .. CoveredBits /\ j - 1 = base + b /\ j \in Nat
    <3>1. base + m <= CoveredBits
      BY <2>2, <2>3
    <3> HIDE DEF j
    <3> QED
      BY <1>1, <2>1, <2>2, <2>3, <2>4, <3>1
  <2> HIDE DEF j
  <2>6. j \in OnesOf(bits, at) <=> Position(at, j) \in bits
    BY <2>5 DEF OnesOf
  <2>7. CASE i <= at
    <3>1. i * m <= at * m /\ at * m \in Nat
      BY <1>1, <2>1, <2>7, Z3
    <3>2. j <= at * m
      BY <1>1, <2>1, <2>2, <2>4, <3>1
    <3>3. Position(at, j) = base + b
      BY <2>5, <3>2 DEF Position, m
    <3>4. b \in DataOf(bits, at)[i] <=> (0 + i - 1) * m + b \in bits
      BY <1>4, <1>5, <2>1, <2>7
    <3>5. (0 + i - 1) * m = base
      <4>1. 0 + i - 1 = i - 1
        BY <2>1
      <4> QED
        BY <4>1 DEF base
    <3> QED
      BY <2>4, <2>6, <3>3, <3>4, <3>5 DEF j
  <2>8. CASE ~(i <= at)
    <3>1. at * m <= base /\ at * m \in Nat
      <4>1. at * m <= (i - 1) * m /\ at * m \in Nat
        BY <1>1, <2>1, <2>8, Z3
      <4> QED
        BY <4>1 DEF base
    <3>2. ~(j <= at * m)
      BY <1>1, <2>1, <2>2, <2>4, <3>1
    <3>3. Position(at, j) = base + b + Width
      BY <2>5, <3>2 DEF Position, m
    <3>4. b \in DataOf(bits, at)[i] <=> (at + SlotBytes + (i - at) - 1) * m + b \in bits
      <4>1. i - at \in 1 .. (Size - (at + SlotBytes))
        BY <1>1, <2>1, <2>8 DEF len
      <4>2. b \in DataOf(bits, at)[i] <=> b \in t[i - at]
        BY <1>5, <2>8
      <4>3. t[i - at] = {c \in 0 .. (m - 1) : (at + SlotBytes + (i - at) - 1) * m + c \in bits}
        BY <1>4, <4>1
      <4> QED
        BY <4>2, <4>3
    <3>5. (at + SlotBytes + (i - at) - 1) * m = base + Width
      <4>1. at + SlotBytes + (i - at) - 1 = (i - 1) + SlotBytes
        BY <1>1, <2>1
      <4>2. ((i - 1) + SlotBytes) * m = (i - 1) * m + SlotBytes * m
        BY <1>1, <2>1, Z3
      <4> QED
        BY <1>1, <4>1, <4>2 DEF base
    <3>6. base + Width + b = base + b + Width
      BY <1>1, <2>1, <2>2
    <3> QED
      BY <2>4, <2>6, <3>3, <3>4, <3>5, <3>6 DEF j
  <2> QED
    BY <2>7, <2>8 DEF j
<1> QED
  BY <1>5, <1>6

(* The digest, from what the division of the message leaves.  *)
Dividend(ones) == Xor(Placed(CRC32_INIT, CoveredBits + Width - 1), Exponents(ones, CoveredBits))
RemainderOf(p) == Remainder(p, CoveredBits + Width - 1)

LEMMA CoveredIsNat ==
  ASSUME NEW at, IsSlot(at)
  PROVE  CoveredBits \in Nat /\ Size - SlotBytes \in Nat
<1> DEFINE m == BitsPerByte
           len == Size - SlotBytes
<1>1. m \in Nat /\ len \in Nat
  BY WordIsBytes DEF IsSlot
<1> HIDE DEF m, len
<1>2. len * m \in Nat
  BY <1>1, Z3
<1> QED
  BY <1>1, <1>2 DEF CoveredBits, m, len

LEMMA DataLeaves ==
  ASSUME NEW bits, NEW at, IsSlot(at)
  PROVE  /\ crc32_update(CRC32_INIT, DataOf(bits, at)) \in SUBSET Word
         /\ RemainderOf(Dividend(OnesOf(bits, at)))
               = Placed(crc32_update(CRC32_INIT, DataOf(bits, at)), Width - 1)
<1> DEFINE data == DataOf(bits, at)
           ones == OnesOf(bits, at)
           n == CoveredBits
<1>1. /\ data \in Seq(Bytes) /\ Len(data) = Size - SlotBytes
      /\ \A i \in 1 .. (Size - SlotBytes) : \A b \in 0 .. (BitsPerByte - 1) :
            b \in data[i] <=> (i - 1) * BitsPerByte + 1 + b \in ones
  BY DataIsMessage
<1>2. ones \in SUBSET (1 .. n)
  BY DEF OnesOf
<1> HIDE DEF data, ones
<1>3. n = Len(data) * BitsPerByte
  BY <1>1, Zenon DEF CoveredBits
<1>4. \A i \in 1 .. Len(data) : \A b \in 0 .. (BitsPerByte - 1) :
         b \in data[i] <=> (i - 1) * BitsPerByte + 1 + b \in ones
  BY <1>1, Zenon
<1> HIDE DEF n
<1>5. Remainder(Xor(Placed(CRC32_INIT, n + Width - 1), Exponents(ones, n)), n + Width - 1)
         = Placed(crc32_update(CRC32_INIT, data), Width - 1)
  BY <1>1, <1>2, <1>3, <1>4, DataDivides, Zenon
<1>6. crc32_update(CRC32_INIT, data) \in SUBSET Word
  BY <1>1, CrcStaysInWord DEF CRC32_INIT
<1> QED
  BY <1>5, <1>6 DEF RemainderOf, Dividend, n, data, ones

(* The digest of the bytes of the image round the slot is the remainder of *)
(* the division, inverted.                                                 *)
LEMMA DigestIsRemainder ==
  ASSUME NEW bits, NEW at, IsSlot(at)
  PROVE  DigestOf(bits, at)
            = {b \in Word : Width - 1 - b \notin RemainderOf(Dividend(OnesOf(bits, at)))}
<1> DEFINE crc == crc32_update(CRC32_INIT, DataOf(bits, at))
           rest == RemainderOf(Dividend(OnesOf(bits, at)))
<1>1. crc \in SUBSET Word /\ rest = Placed(crc, Width - 1)
  BY DataLeaves
<1>2. DigestOf(bits, at) = Xor(crc, Word)
  BY DEF DigestOf, crc32_ieee, crc32_update, DataOf, CRC32_INIT
<1>3. Width - 1 \in Int /\ Word \in SUBSET Int
  BY WordsArePolynomials
<1> HIDE DEF crc, rest
<1>4. \A e \in Int : e \in Placed(crc, Width - 1) <=> Width - 1 - e \in crc
  BY <1>1, <1>3, InPlaced
<1>5. \A b \in Word : Width - 1 - b \in Int /\ Width - 1 - (Width - 1 - b) = b
  BY <1>3
<1>6. \A b \in Word : Width - 1 - b \notin rest <=> b \notin crc
  BY <1>1, <1>4, <1>5
<1>7. Xor(crc, Word) = {b \in Word : b \notin crc}
  BY <1>1 DEF Xor
<1> QED
  BY <1>2, <1>6, <1>7 DEF rest

LEMMA ReferenceIsRemainder ==
  ASSUME IsSlot(slot)
  PROVE  ReferenceCrc
            = {b \in Word : Width - 1 - b \notin RemainderOf(Dividend(OnesOf(image, slot)))}
<1> DEFINE n == Len(Covered)
           ones == {j \in 1 .. n : Covered[j] \in image}
           message == {n - i + Width : i \in ones}
           first == n .. (n + Width - 1)
<1>1. CoveredBits \in Nat /\ Width \in Nat
  BY CoveredIsNat, WordIsBytes
<1>2. n = CoveredBits /\ \A j \in 1 .. CoveredBits : Covered[j] = Position(slot, j)
  <2> DEFINE c == CoveredBits
  <2>1. Covered = [i \in 1 .. c |-> Position(slot, i)]
    BY DEF Covered, Position, CoveredBits
  <2>2. c \in Nat
    BY <1>1
  <2> HIDE DEF c
  <2>3. Len(Covered) = c /\ \A j \in 1 .. c : Covered[j] = Position(slot, j)
    BY <2>1, <2>2
  <2> QED
    BY <2>3 DEF c
<1>3. ReferenceCrc = {b \in Word : Width - 1 - b \notin Remainder(Xor(message, first), n + Width - 1)}
  BY DEF ReferenceCrc
<1> HIDE DEF n
<1>4. ones = OnesOf(image, slot)
  BY <1>2 DEF OnesOf
<1>5. message = Exponents(OnesOf(image, slot), CoveredBits)
  BY <1>2, <1>4 DEF Exponents
<1>6. first = Placed(CRC32_INIT, CoveredBits + Width - 1)
  <2> DEFINE c == CoveredBits
             high == c + Width - 1
  <2>1. c \in Nat /\ high \in Int
    BY <1>1
  <2>2. CRC32_INIT \in SUBSET Int
    BY WordsArePolynomials DEF CRC32_INIT
  <2>3. Placed(CRC32_INIT, high) \in SUBSET Int
        /\ \A e \in Int : e \in Placed(CRC32_INIT, high) <=> high - e \in CRC32_INIT
    <3> HIDE DEF high
    <3> QED
      BY <2>1, <2>2, InPlaced
  <2>4. \A e \in Int : high - e \in CRC32_INIT <=> e \in c .. (c + Width - 1)
    BY <1>1, <2>1 DEF CRC32_INIT, Word
  <2>5. c .. (c + Width - 1) \in SUBSET Int
    OBVIOUS
  <2>6. c .. (c + Width - 1) = Placed(CRC32_INIT, high)
    <3> HIDE DEF high
    <3> QED
      BY <2>3, <2>4, <2>5
  <2> QED
    BY <1>2, <2>6
<1>7. Xor(message, first) = Dividend(OnesOf(image, slot))
  <2> HIDE DEF message, first
  <2>1. Xor(message, first) = Xor(first, message)
    BY DEF Xor
  <2> QED
    BY <1>5, <1>6, <2>1 DEF Dividend
<1> HIDE DEF message, first
<1> QED
  BY <1>2, <1>3, <1>7 DEF RemainderOf

LEMMA RegionIsRemainder ==
  ASSUME IsSlot(slot)
  PROVE  CrcRegion(0, slot, Size) = ReferenceCrc
BY DigestIsRemainder, ReferenceIsRemainder, FirmwareAgreesWithScript

(* The word that is compared at boot is the remainder of a polynomial      *)
(* division of the covered bits: crc32_update, which shifts the register   *)
(* one bit at a time and goes over the image byte by byte, in two pieces   *)
(* round the slot (src/crc32.c, src/image_integrity.c), is the CRC of the  *)
(* textbooks, for every width, polynomial, size of a byte and of the       *)
(* image, place of the slot and contents.                                  *)
Computed == IsSlot(slot) /\ CrcIsRemainder

LEMMA ComputedStays == Computed /\ [Next]_vars => Computed'
<1> SUFFICES ASSUME Computed, [Next]_vars
             PROVE  Computed'
  OBVIOUS
<1>1. CASE PatchKernel
  BY <1>1 DEF Computed, PatchKernel, IsSlot, CrcIsRemainder
<1>2. ASSUME NEW bits \in Bursts \cup Pairs, Damage(bits)
      PROVE  Computed'
  BY <1>2 DEF Computed, Damage, IsSlot, CrcIsRemainder
<1>3. CASE Verify
  <2>1. image' = image /\ slot' = slot /\ image_integrity_computed' = CrcRegion(0, slot, Size)
    BY <1>3 DEF Verify
  <2>2. ReferenceCrc' = ReferenceCrc
    BY <2>1 DEF ReferenceCrc, Covered
  <2> QED
    BY <2>1, <2>2, RegionIsRemainder DEF Computed, IsSlot, CrcIsRemainder
<1>4. CASE UNCHANGED vars
  <2>1. image' = image /\ slot' = slot /\ phase' = phase
        /\ image_integrity_computed' = image_integrity_computed
    BY <1>4 DEF vars, verdict
  <2>2. ReferenceCrc' = ReferenceCrc
    BY <2>1 DEF ReferenceCrc, Covered
  <2> QED
    BY <2>1, <2>2 DEF Computed, IsSlot, CrcIsRemainder
<1> QED
  BY <1>1, <1>2, <1>3, <1>4 DEF Next

THEOREM CrcIsTheRemainder == BootSpec => []CrcIsRemainder
<1>1. Init => Computed
  BY ImageInvHoldsInitially DEF Init, Computed, CrcIsRemainder, ImageInv
<1>2. Computed => CrcIsRemainder
  BY DEF Computed
<1> QED
  BY <1>1, <1>2, ComputedStays, BootChecksImage, PTL DEF Spec

-----------------------------------------------------------------------------
(* The division is linear, and what it leaves of a few exponents.          *)

LEMMA InSubtract ==
  ASSUME NEW p, NEW e \in Int, NEW c \in Int
  PROVE  c \in Subtract(p, e) <=> (c \in p <=> ~(e \in p /\ (c = e \/ e - 1 - c \in CRC32_POLY)))
<1> DEFINE gen == {g + e - Width : g \in Generator}
<1>1. c \in gen <=> c = e \/ e - 1 - c \in CRC32_POLY
  BY InGenerator
<1>2. Subtract(p, e) = IF e \in p THEN Xor(p, gen) ELSE p
  BY DEF Subtract
<1> HIDE DEF gen
<1> QED
  BY <1>1, <1>2 DEF Xor

LEMMA SubtractIsPolynomial ==
  ASSUME NEW p \in SUBSET Int, NEW e \in Int
  PROVE  Subtract(p, e) \in SUBSET Int
<1> DEFINE gen == {g + e - Width : g \in Generator}
<1>1. gen \in SUBSET Int
  <2>1. Generator \in SUBSET Int /\ Width \in Int
    BY WordsArePolynomials DEF Generator
  <2> QED
    BY <2>1
<1>2. Subtract(p, e) = IF e \in p THEN Xor(p, gen) ELSE p
  BY DEF Subtract
<1> HIDE DEF gen
<1> QED
  BY <1>1, <1>2 DEF Xor

LEMMA XorIsPolynomial ==
  ASSUME NEW p \in SUBSET Int, NEW q \in SUBSET Int
  PROVE  Xor(p, q) \in SUBSET Int /\ \A c : c \in Xor(p, q) <=> (c \in p <=> c \notin q)
BY DEF Xor

LEMMA SubtractIsLinear ==
  ASSUME NEW p \in SUBSET Int, NEW q \in SUBSET Int, NEW e \in Int
  PROVE  Subtract(Xor(p, q), e) = Xor(Subtract(p, e), Subtract(q, e))
<1> DEFINE r == Xor(p, q)
           a == Subtract(p, e)
           b == Subtract(q, e)
           d == Subtract(r, e)
<1>1. /\ r \in SUBSET Int /\ a \in SUBSET Int /\ b \in SUBSET Int
      /\ \A c : c \in r <=> (c \in p <=> c \notin q)
  BY XorIsPolynomial, SubtractIsPolynomial
<1>2. d \in SUBSET Int
  BY <1>1, SubtractIsPolynomial
<1>3. \A c \in Int : c \in Xor(a, b) <=> (c \in a <=> c \notin b)
  BY DEF Xor
<1>4. Xor(a, b) \in SUBSET Int
  BY <1>1, XorIsPolynomial
<1>5. ASSUME NEW c \in Int
      PROVE  c \in d <=> c \in Xor(a, b)
  <2> DEFINE on == c = e \/ e - 1 - c \in CRC32_POLY
  <2>1. /\ c \in a <=> (c \in p <=> ~(e \in p /\ on))
        /\ c \in b <=> (c \in q <=> ~(e \in q /\ on))
    BY InSubtract
  <2>2. c \in d <=> (c \in r <=> ~(e \in r /\ on))
    <3> HIDE DEF r
    <3> QED
      BY InSubtract
  <2> HIDE DEF on, a, b, d, r
  <2> QED
    BY <1>1, <1>3, <2>1, <2>2
<1> HIDE DEF a, b, d
<1>6. d = Xor(a, b)
  BY <1>2, <1>4, <1>5
<1> QED
  BY <1>6 DEF a, b, d, r

LEMMA RunReaches ==
  ASSUME NEW n \in Nat, NEW p, NEW run, Divides(run, p, n), NEW V, p \in V[0],
         \A off \in 0 .. (n - 1) : \A q \in V[off] : Subtract(q, n + Width - 1 - off) \in V[off + 1]
  PROVE  \A off \in 0 .. n : run[off] \in V[off]
<1> DEFINE S == {i \in Nat : i <= n => run[i] \in V[i]}
<1>1. 0 \in S
  BY DEF Divides
<1>2. ASSUME NEW i \in Nat, i \in S
      PROVE  i + 1 \in S
  <2> SUFFICES ASSUME i + 1 <= n
               PROVE  run[i + 1] \in V[i + 1]
    OBVIOUS
  <2>1. i \in 0 .. (n - 1) /\ run[i] \in V[i]
    BY <1>2
  <2>2. run[i + 1] = Subtract(run[i], n + Width - 1 - i)
    BY <2>1, DivisionStep
  <2> QED
    BY <2>1, <2>2
<1> HIDE DEF S
<1>3. \A i \in Nat : i \in S
  BY <1>1, <1>2, DivFold!NatSetInduction
<1> QED
  BY <1>3 DEF S

LEMMA RemainderReaches ==
  ASSUME NEW n \in Nat, NEW p, NEW V, p \in V[0],
         \A off \in 0 .. (n - 1) : \A q \in V[off] : Subtract(q, n + Width - 1 - off) \in V[off + 1]
  PROVE  Remainder(p, n + Width - 1) \in V[n]
<1>1. PICK run : Divides(run, p, n) /\ Remainder(p, n + Width - 1) = run[n]
  BY DivisionRuns
<1>2. \A off \in 0 .. n : run[off] \in V[off]
  BY <1>1, RunReaches
<1>3. n \in 0 .. n
  OBVIOUS
<1> QED
  BY <1>1, <1>2, <1>3

LEMMA RunsArePolynomials ==
  ASSUME NEW n \in Nat, NEW p \in SUBSET Int, NEW run, Divides(run, p, n)
  PROVE  \A off \in 0 .. n : run[off] \in SUBSET Int
<1> DEFINE V == [i \in 0 .. n |-> SUBSET Int]
<1>1. p \in V[0] /\ \A i \in 0 .. n : V[i] = SUBSET Int
  OBVIOUS
<1>2. \A off \in 0 .. (n - 1) : off \in 0 .. n /\ off + 1 \in 0 .. n /\ n + Width - 1 - off \in Int
  BY WordsArePolynomials
<1> HIDE DEF V
<1>3. \A off \in 0 .. (n - 1) : \A q \in V[off] : Subtract(q, n + Width - 1 - off) \in V[off + 1]
  BY <1>1, <1>2, SubtractIsPolynomial
<1>4. \A off \in 0 .. n : run[off] \in V[off]
  BY <1>1, <1>3, RunReaches
<1> QED
  BY <1>1, <1>4

LEMMA RemainderIsLinear ==
  ASSUME NEW n \in Nat, NEW p \in SUBSET Int, NEW q \in SUBSET Int
  PROVE  /\ Remainder(Xor(p, q), n + Width - 1)
               = Xor(Remainder(p, n + Width - 1), Remainder(q, n + Width - 1))
         /\ Remainder(p, n + Width - 1) \in SUBSET Int
<1>1. PICK a : Divides(a, p, n) /\ Remainder(p, n + Width - 1) = a[n]
  BY DivisionRuns
<1>2. PICK b : Divides(b, q, n) /\ Remainder(q, n + Width - 1) = b[n]
  BY DivisionRuns
<1>3. (\A off \in 0 .. n : a[off] \in SUBSET Int) /\ (\A off \in 0 .. n : b[off] \in SUBSET Int)
  BY <1>1, <1>2, RunsArePolynomials
<1> DEFINE V == [i \in 0 .. n |-> {Xor(a[i], b[i])}]
<1>4. Xor(p, q) \in V[0] /\ \A i \in 0 .. n : V[i] = {Xor(a[i], b[i])}
  BY <1>1, <1>2 DEF Divides
<1> HIDE DEF V
<1>5. ASSUME NEW off \in 0 .. (n - 1), NEW r \in V[off]
      PROVE  Subtract(r, n + Width - 1 - off) \in V[off + 1]
  <2>1. off \in 0 .. n /\ off + 1 \in 0 .. n /\ n + Width - 1 - off \in Int
    BY WordsArePolynomials
  <2>2. r = Xor(a[off], b[off])
    BY <1>4, <2>1
  <2>3. /\ a[off + 1] = Subtract(a[off], n + Width - 1 - off)
        /\ b[off + 1] = Subtract(b[off], n + Width - 1 - off)
    BY <1>1, <1>2, DivisionStep
  <2>4. Subtract(r, n + Width - 1 - off) = Xor(a[off + 1], b[off + 1])
    BY <1>3, <2>1, <2>2, <2>3, SubtractIsLinear
  <2> QED
    BY <1>4, <2>1, <2>4
<1>6. Remainder(Xor(p, q), n + Width - 1) \in V[n]
  BY <1>4, <1>5, RemainderReaches
<1>7. n \in 0 .. n
  OBVIOUS
<1> QED
  BY <1>1, <1>2, <1>3, <1>4, <1>6, <1>7

Somethings == {x \in SUBSET Word : x # {}}

(* The polynomials, not 0, whose exponents lie close to each other and not *)
(* above top: a division never gets rid of them.                           *)
Tails(top) == {Placed(x, high) : x \in Somethings, high \in {h \in Int : h <= top}}

LEMMA ShiftKeepsSomething ==
  ASSUME NEW x \in Somethings, NEW i
  PROVE  Shift(x, i) \in Somethings
<1>0. x \in SUBSET Word /\ x # {}
  BY DEF Somethings
<1>1. Shift(x, i) \in SUBSET Word
  BY <1>0, ShiftStaysInWord
<1>2. CASE 0 \in x
  <2>1. Width - 1 \in Int /\ Width - 1 \in CRC32_POLY /\ (Width - 1) + 1 = Width /\ Width \notin x
    BY <1>0, WordsArePolynomials
  <2>2. Width - 1 \in Shift(x, i)
    BY <1>0, <1>2, <2>1, InShift
  <2> QED
    BY <1>1, <2>2 DEF Somethings
<1>3. CASE 0 \notin x
  <2>1. PICK b \in x : TRUE
    BY <1>0
  <2>2. b - 1 \in Int /\ (b - 1) + 1 = b /\ b # 0
    BY <1>0, <1>3, <2>1, WordsArePolynomials
  <2>3. b - 1 \in Shift(x, i)
    BY <1>0, <1>3, <2>1, <2>2, InShift
  <2> QED
    BY <1>1, <2>3 DEF Somethings
<1> QED
  BY <1>2, <1>3

LEMMA TailStays ==
  ASSUME NEW top \in Int, NEW q \in Tails(top)
  PROVE  Subtract(q, top) \in Tails(top - 1)
<1>1. PICK x \in Somethings, high \in {h \in Int : h <= top} : q = Placed(x, high)
  BY DEF Tails
<1>2. x \in SUBSET Int /\ high \in Int /\ high <= top /\ \A b \in x : b \in Int /\ b >= 0
  <2>1. x \in SUBSET Word
    BY DEF Somethings
  <2> QED
    BY <2>1, WordsArePolynomials
<1>3. CASE high = top
  <2>1. Subtract(Xor(Placed(x, top), {}), top) = Xor(Placed(Shift(x, 1), top - 1), {})
    <3>1. x \in SUBSET Word
      BY DEF Somethings
    <3> QED
      BY <3>1, ShiftDivides
  <2>2. \A p : Xor(p, {}) = p
    BY DEF Xor
  <2>3. Subtract(q, top) = Placed(Shift(x, 1), top - 1)
    BY <1>1, <1>3, <2>1, <2>2
  <2>4. Shift(x, 1) \in Somethings /\ top - 1 \in {h \in Int : h <= top - 1}
    BY ShiftKeepsSomething
  <2> QED
    BY <2>3, <2>4 DEF Tails
<1>4. CASE high # top
  <2>1. top \notin q
    BY <1>1, <1>2, <1>4, InPlaced
  <2>2. Subtract(q, top) = q
    BY <2>1 DEF Subtract
  <2>3. high \in {h \in Int : h <= top - 1}
    BY <1>2, <1>4
  <2> QED
    BY <1>1, <2>2, <2>3 DEF Tails
<1> QED
  BY <1>3, <1>4

LEMMA TailIsSomething == ASSUME NEW top \in Int, NEW q \in Tails(top) PROVE q # {}
<1>1. PICK x \in Somethings, high \in {h \in Int : h <= top} : q = Placed(x, high)
  BY DEF Tails
<1> QED
  BY <1>1 DEF Placed, Somethings

(* A burst leaves something.  *)
LEMMA BurstLeaves ==
  ASSUME NEW n \in Nat, NEW q \in Tails(n + Width - 1)
  PROVE  Remainder(q, n + Width - 1) # {}
<1> DEFINE V == [i \in 0 .. n |-> Tails(n + Width - 1 - i)]
<1>1. n + Width - 1 - 0 = n + Width - 1 /\ Width \in Int
  BY WordsArePolynomials
<1>2. q \in V[0] /\ \A i \in 0 .. n : V[i] = Tails(n + Width - 1 - i)
  BY <1>1
<1> HIDE DEF V
<1>3. ASSUME NEW off \in 0 .. (n - 1), NEW r \in V[off]
      PROVE  Subtract(r, n + Width - 1 - off) \in V[off + 1]
  <2> DEFINE top == n + Width - 1 - off
  <2>1. off \in 0 .. n /\ off + 1 \in 0 .. n /\ top \in Int /\ top - 1 = n + Width - 1 - (off + 1)
    BY <1>1
  <2>2. r \in Tails(top)
    BY <1>2, <2>1
  <2> HIDE DEF top
  <2>3. Subtract(r, top) \in Tails(top - 1)
    BY <2>1, <2>2, TailStays
  <2> QED
    BY <1>2, <2>1, <2>3 DEF top
<1>4. Remainder(q, n + Width - 1) \in V[n]
  BY <1>2, <1>3, RemainderReaches
<1>5. n \in 0 .. n /\ n + Width - 1 - n \in Int
  BY <1>1
<1>6. Remainder(q, n + Width - 1) \in Tails(n + Width - 1 - n)
  BY <1>2, <1>4, <1>5
<1> QED
  BY <1>5, <1>6, TailIsSomething

(* What is left is shorter than the generator.  *)
LEMMA RemainderIsShort ==
  ASSUME NEW n \in Nat, NEW p \in SUBSET (0 .. (n + Width - 1)), NEW run, Divides(run, p, n)
  PROVE  \A off \in 0 .. n : run[off] \in SUBSET (0 .. (n + Width - 1 - off))
<1> DEFINE V == [i \in 0 .. n |-> SUBSET (0 .. (n + Width - 1 - i))]
<1>1. n + Width - 1 - 0 = n + Width - 1 /\ Width \in Int /\ Width > 0
  BY WordsArePolynomials
<1>2. p \in V[0] /\ \A i \in 0 .. n : V[i] = SUBSET (0 .. (n + Width - 1 - i))
  BY <1>1
<1> HIDE DEF V
<1>3. ASSUME NEW off \in 0 .. (n - 1), NEW r \in V[off]
      PROVE  Subtract(r, n + Width - 1 - off) \in V[off + 1]
  <2> DEFINE top == n + Width - 1 - off
  <2>1. /\ off \in 0 .. n /\ off + 1 \in 0 .. n /\ top \in Int
        /\ top - 1 = n + Width - 1 - (off + 1) /\ top >= Width
    BY <1>1
  <2>2. r \in SUBSET (0 .. top)
    BY <1>2, <2>1
  <2> HIDE DEF top
  <2>3. Subtract(r, top) \in SUBSET Int
    BY <2>1, <2>2, SubtractIsPolynomial
  <2>4. ASSUME NEW c \in Subtract(r, top)
        PROVE  c \in 0 .. (top - 1)
    <3>1. c \in Int
      BY <2>3
    <3>2. c \in r <=> ~(top \in r /\ (c = top \/ top - 1 - c \in CRC32_POLY))
      BY <2>1, <3>1, InSubtract
    <3>3. CASE c \in r
      <4>1. c # top /\ c \in 0 .. top
        BY <2>2, <3>2, <3>3
      <4> QED
        BY <2>1, <4>1
    <3>4. CASE c \notin r
      <4>1. top \in r /\ (c = top \/ top - 1 - c \in CRC32_POLY)
        BY <3>2, <3>4
      <4>2. top - 1 - c \in CRC32_POLY
        BY <3>4, <4>1
      <4>3. top - 1 - c >= 0 /\ top - 1 - c < Width
        BY <4>2, WordsArePolynomials
      <4> QED
        BY <1>1, <2>1, <3>1, <4>3
    <3> QED
      BY <3>3, <3>4
  <2>5. Subtract(r, top) \in SUBSET (0 .. (top - 1))
    BY <2>4
  <2> QED
    BY <1>2, <2>1, <2>5 DEF top
<1>4. \A off \in 0 .. n : run[off] \in V[off]
  BY <1>2, <1>3, RunReaches
<1> QED
  BY <1>2, <1>4

Raised(p, s) == {c + s : c \in p}

LEMMA InRaised ==
  ASSUME NEW p \in SUBSET Int, NEW s \in Int
  PROVE  Raised(p, s) \in SUBSET Int /\ \A c \in Int : c \in Raised(p, s) <=> c - s \in p
<1>1. \A c \in p : c + s \in Int /\ (c + s) - s = c
  OBVIOUS
<1>2. \A c \in Int : (c - s) + s = c
  OBVIOUS
<1> QED
  BY <1>1, <1>2 DEF Raised

LEMMA RaisedSubtract ==
  ASSUME NEW p \in SUBSET Int, NEW s \in Int, NEW e \in Int
  PROVE  Subtract(Raised(p, s), e + s) = Raised(Subtract(p, e), s)
<1> DEFINE r == Raised(p, s)
           d == Subtract(p, e)
           a == Subtract(r, e + s)
<1>1. r \in SUBSET Int /\ d \in SUBSET Int /\ e + s \in Int
  BY InRaised, SubtractIsPolynomial
<1>2. a \in SUBSET Int
  BY <1>1, SubtractIsPolynomial
<1>3. \A c \in Int : c \in r <=> c - s \in p
  BY InRaised
<1> HIDE DEF r, d
<1>4. Raised(d, s) \in SUBSET Int /\ \A c \in Int : c \in Raised(d, s) <=> c - s \in d
  BY <1>1, InRaised
<1>5. ASSUME NEW c \in Int
      PROVE  c \in a <=> c \in Raised(d, s)
  <2>1. c \in a <=> (c \in r <=> ~(e + s \in r /\ (c = e + s \/ e + s - 1 - c \in CRC32_POLY)))
    BY <1>1, InSubtract
  <2>2. c - s \in d <=>
           (c - s \in p <=> ~(e \in p /\ (c - s = e \/ e - 1 - (c - s) \in CRC32_POLY)))
    BY InSubtract DEF d
  <2>3. e + s - 1 - c = e - 1 - (c - s) /\ (c = e + s <=> c - s = e) /\ (e + s) - s = e
    OBVIOUS
  <2>4. e + s \in r <=> e \in p
    BY <1>1, <1>3, <2>3
  <2> HIDE DEF a
  <2> QED
    BY <1>3, <1>4, <2>1, <2>2, <2>3, <2>4
<1> HIDE DEF a
<1>6. a = Raised(d, s)
  BY <1>2, <1>4, <1>5
<1> QED
  BY <1>6 DEF a, r, d

LEMMA TailOf ==
  ASSUME NEW x \in Somethings, NEW high \in Int, NEW top \in Int, high <= top
  PROVE  Placed(x, high) \in Tails(top)
BY DEF Tails

(* Two exponents leave something, if two at their distance do.  *)
LEMMA PairLeaves ==
  ASSUME NEW n \in Nat, NEW e1 \in Int, NEW e2 \in Int, e2 < e1, 0 <= e2, e1 <= n + Width - 1,
         Remainder({0, e1 - e2}, e1 - e2) # {}
  PROVE  Remainder({e1, e2}, n + Width - 1) # {}
<1> DEFINE d == e1 - e2
           k == d - Width + 1
           pair == {e1, e2}
<1>1. /\ Width \in Int /\ Width > 0 /\ d \in Int /\ d > 0 /\ e1 = e2 + d /\ k \in Int
      /\ n + Width - 1 \in Int
  BY WordsArePolynomials
<1>2. CASE d < Width
  <2>1. 0 \in Word /\ d \in Word
    BY <1>1, <1>2 DEF Word
  <2> HIDE DEF d
  <2>2. {0, d} \in Somethings
    BY <2>1 DEF Somethings
  <2>3. Placed({0, d}, e1) = pair
    BY <1>1 DEF Placed
  <2>4. pair \in Tails(n + Width - 1)
    <3>1. Placed({0, d}, e1) \in Tails(n + Width - 1)
      BY <1>1, <2>2, TailOf
    <3> QED
      BY <2>3, <3>1
  <2> QED
    BY <2>4, BurstLeaves
<1>3. CASE d >= Width
  <2>1. k \in Nat /\ k > 0 /\ d = k + Width - 1 /\ k \in 0 .. k /\ k + Width - 1 - k = Width - 1
    BY <1>1, <1>3
  <2> HIDE DEF d, k
  <2>2. PICK run : Divides(run, {0, d}, k) /\ Remainder({0, d}, k + Width - 1) = run[k]
    BY <2>1, DivisionRuns
  <2>3. run[k] # {} /\ run[0] = {0, d}
    BY <2>1, <2>2 DEF d, Divides
  <2>4. run[k] \in SUBSET (0 .. (Width - 1))
    <3>1. {0, d} \in SUBSET (0 .. (k + Width - 1))
      BY <1>1, <2>1
    <3>2. \A off \in 0 .. k : run[off] \in SUBSET (0 .. (k + Width - 1 - off))
      BY <2>1, <2>2, <3>1, RemainderIsShort
    <3> QED
      BY <2>1, <3>2
  <2>5. \A i \in 0 .. k : run[i] \in SUBSET Int
    BY <1>1, <2>1, <2>2, RunsArePolynomials
  <2> DEFINE NotReached(top) == {q \in {pair} : e1 < top}
             Middle(top) == {Raised(run[i], e2) : i \in {j \in 0 .. (k - 1) : e1 - j = top}}
             W(top) == NotReached(top) \cup Middle(top) \cup Tails(top)
             V == [i \in 0 .. n |-> W(n + Width - 1 - i)]
  <2>6. \A top \in Int : e1 = top => pair \in Middle(top)
    <3>1. Raised(run[0], e2) = pair
      BY <1>1, <2>3 DEF Raised
    <3>2. 0 \in 0 .. (k - 1) /\ e1 - 0 = e1
      BY <2>1
    <3> QED
      BY <3>1, <3>2
  <2>7. pair \in W(n + Width - 1)
    <3>1. CASE e1 = n + Width - 1
      BY <1>1, <2>6, <3>1
    <3>2. CASE e1 # n + Width - 1
      BY <1>1, <3>2
    <3> QED
      BY <3>1, <3>2
  <2>8. ASSUME NEW top \in Int, NEW q \in W(top)
        PROVE  Subtract(q, top) \in W(top - 1)
    <3>1. CASE q \in NotReached(top)
      <4>1. q = pair /\ e1 < top /\ top \notin pair
        BY <1>1, <3>1
      <4>2. Subtract(q, top) = pair
        BY <4>1 DEF Subtract
      <4>3. CASE e1 = top - 1
        BY <2>6, <4>2, <4>3
      <4>4. CASE e1 # top - 1
        <5>1. e1 < top - 1
          BY <4>1, <4>4
        <5> QED
          BY <4>2, <5>1
      <4> QED
        BY <4>3, <4>4
    <3>2. CASE q \in Middle(top)
      <4>1. PICK i \in 0 .. (k - 1) : q = Raised(run[i], e2) /\ e1 - i = top
        BY <3>2
      <4>2. /\ i \in 0 .. k /\ i + 1 \in 0 .. k /\ d - i \in Int /\ (d - i) + e2 = top
            /\ k + Width - 1 - i = d - i /\ e1 - (i + 1) = top - 1
        BY <1>1, <2>1, <4>1
      <4>3. run[i + 1] = Subtract(run[i], d - i)
        <5>1. run[i + 1] = Subtract(run[i], k + Width - 1 - i)
          BY <2>1, <2>2, <4>1, DivisionStep
        <5> QED
          BY <4>2, <5>1
      <4>4. Subtract(q, top) = Raised(run[i + 1], e2)
        <5>1. Subtract(Raised(run[i], e2), (d - i) + e2) = Raised(Subtract(run[i], d - i), e2)
          BY <2>5, <4>2, RaisedSubtract
        <5> QED
          BY <4>1, <4>2, <4>3, <5>1
      <4>5. CASE i + 1 # k
        <5>1. i + 1 \in {j \in 0 .. (k - 1) : e1 - j = top - 1}
          BY <4>2, <4>5, <2>1
        <5> QED
          BY <4>4, <5>1
      <4>6. CASE i + 1 = k
        <5> DEFINE x == {Width - 1 - c : c \in run[k]}
                   high == e2 + Width - 1
        <5>1. x \in Somethings
          <6>1. \A c \in run[k] : Width - 1 - c \in Word
            BY <1>1, <2>4 DEF Word
          <6> QED
            BY <2>3, <6>1 DEF Somethings
        <5>2. high \in {h \in Int : h <= top - 1}
          BY <1>1, <2>1, <4>1, <4>2, <4>6
        <5>3. Placed(x, high) = Raised(run[k], e2)
          <6>1. \A c \in run[k] : high - (Width - 1 - c) = c + e2
            BY <1>1, <2>4
          <6> QED
            BY <6>1 DEF Placed, Raised
        <5> HIDE DEF x, high
        <5> QED
          BY <4>4, <4>6, <5>1, <5>2, <5>3 DEF Tails
      <4> QED
        BY <4>5, <4>6
    <3>3. CASE q \in Tails(top)
      BY <3>3, TailStays
    <3> QED
      BY <3>1, <3>2, <3>3
  <2>9. \A q \in W(Width - 1) : q # {}
    <3> SUFFICES ASSUME NEW q \in W(Width - 1)
                 PROVE  q # {}
      OBVIOUS
    <3>1. CASE q \in NotReached(Width - 1)
      BY <3>1
    <3>2. q \notin Middle(Width - 1)
      <4>1. \A j \in 0 .. (k - 1) : e1 - j # Width - 1
        BY <1>1, <2>1
      <4> QED
        BY <4>1
    <3>3. CASE q \in Tails(Width - 1)
      BY <1>1, <3>3, TailIsSomething
    <3> QED
      BY <3>1, <3>2, <3>3
  <2> HIDE DEF W
  <2>10. n + Width - 1 - 0 = n + Width - 1 /\ n + Width - 1 - n = Width - 1 /\ 0 \in 0 .. n /\ n \in 0 .. n
    BY <1>1
  <2>11. pair \in V[0] /\ \A i \in 0 .. n : V[i] = W(n + Width - 1 - i)
    BY <2>7, <2>10
  <2> HIDE DEF V
  <2>12. ASSUME NEW off \in 0 .. (n - 1), NEW r \in V[off]
         PROVE  Subtract(r, n + Width - 1 - off) \in V[off + 1]
    <3> DEFINE top == n + Width - 1 - off
    <3>1. off \in 0 .. n /\ off + 1 \in 0 .. n /\ top \in Int /\ top - 1 = n + Width - 1 - (off + 1)
      BY <1>1
    <3>2. r \in W(top)
      BY <2>11, <3>1
    <3> HIDE DEF top
    <3>3. Subtract(r, top) \in W(top - 1)
      BY <2>8, <3>1, <3>2
    <3> QED
      BY <2>11, <3>1, <3>3 DEF top
  <2> HIDE DEF pair
  <2>13. Remainder(pair, n + Width - 1) \in V[n]
    BY <2>11, <2>12, RemainderReaches
  <2>14. Remainder(pair, n + Width - 1) \in W(Width - 1)
    BY <2>10, <2>11, <2>13
  <2> QED
    BY <2>9, <2>14 DEF pair
<1> QED
  BY <1>1, <1>2, <1>3

-----------------------------------------------------------------------------
(* Two images that are both accepted differ by a polynomial the generator  *)
(* divides: the exponents of the covered bits that differ, and of the bits *)
(* of the slot that differ.                                                *)

WordOf(bits, at) == {b \in Word : at * BitsPerByte + b \in bits}
Marks(bits, at) == Xor(Exponents(OnesOf(bits, at), CoveredBits), Placed(WordOf(bits, at), Width - 1))

LEMMA InExponents ==
  ASSUME NEW n \in Nat, NEW ones \in SUBSET (1 .. n)
  PROVE  /\ Exponents(ones, n) \in SUBSET Int
         /\ \A e \in Int : e \in Exponents(ones, n) <=> n + Width - e \in ones
<1>1. /\ Ahead(ones, n, 0) \in SUBSET Int
      /\ \A e \in Int : e \in Ahead(ones, n, 0) <=>
                           n + Width - e \in ones /\ n + Width - e > 0
  BY InAhead
<1>2. \A j \in ones : j > 0
  OBVIOUS
<1> QED
  BY <1>1, <1>2, AheadOfAll

LEMMA InXor == ASSUME NEW p, NEW q PROVE \A c : c \in Xor(p, q) <=> (c \in p <=> c \notin q)
BY DEF Xor

LEMMA ShortStays ==
  ASSUME NEW n \in Nat, NEW p \in SUBSET Int, \A c \in p : c < Width
  PROVE  Remainder(p, n + Width - 1) = p
<1> DEFINE V == [i \in 0 .. n |-> {p}]
<1>1. p \in V[0] /\ n \in 0 .. n /\ \A i \in 0 .. n : V[i] = {p}
  OBVIOUS
<1> HIDE DEF V
<1>2. ASSUME NEW off \in 0 .. (n - 1), NEW q \in V[off]
      PROVE  Subtract(q, n + Width - 1 - off) \in V[off + 1]
  <2>1. off \in 0 .. n /\ off + 1 \in 0 .. n /\ n + Width - 1 - off >= Width
    BY WordsArePolynomials
  <2>2. q = p
    BY <1>1, <2>1
  <2>3. n + Width - 1 - off \notin p
    BY <2>1, WordsArePolynomials
  <2> QED
    BY <1>1, <2>1, <2>2, <2>3 DEF Subtract
<1>3. Remainder(p, n + Width - 1) \in V[n]
  BY <1>1, <1>2, RemainderReaches
<1> QED
  BY <1>1, <1>3

(* Where the dividends of two images differ.  *)
LEMMA DividendsDiffer ==
  ASSUME NEW a, NEW b, NEW at, IsSlot(at)
  PROVE  /\ Dividend(OnesOf(a, at)) \in SUBSET Int /\ Dividend(OnesOf(b, at)) \in SUBSET Int
         /\ Xor(Dividend(OnesOf(a, at)), Dividend(OnesOf(b, at)))
               = Exponents(OnesOf(Xor(a, b), at), CoveredBits)
         /\ Exponents(OnesOf(Xor(a, b), at), CoveredBits) \in SUBSET Int
<1> DEFINE n == CoveredBits
           s == OnesOf(a, at)
           t == OnesOf(b, at)
           u == OnesOf(Xor(a, b), at)
           first == Placed(CRC32_INIT, n + Width - 1)
<1>1. n \in Nat /\ n + Width - 1 \in Int
  BY CoveredIsNat, WordsArePolynomials
<1>2. /\ s \in SUBSET (1 .. n) /\ t \in SUBSET (1 .. n) /\ u \in SUBSET (1 .. n)
      /\ \A j : j \in u <=> (j \in s /\ j \notin t) \/ (j \in t /\ j \notin s)
  BY DEF OnesOf, Xor
<1>3. first \in SUBSET Int
  <2>1. CRC32_INIT \in SUBSET Int
    BY WordsArePolynomials DEF CRC32_INIT
  <2> QED
    BY <1>1, <2>1, InPlaced
<1> HIDE DEF n, s, t, u, first
<1>4. /\ Exponents(s, n) \in SUBSET Int /\ \A e \in Int : e \in Exponents(s, n) <=> n + Width - e \in s
      /\ Exponents(t, n) \in SUBSET Int /\ \A e \in Int : e \in Exponents(t, n) <=> n + Width - e \in t
      /\ Exponents(u, n) \in SUBSET Int /\ \A e \in Int : e \in Exponents(u, n) <=> n + Width - e \in u
  BY <1>1, <1>2, InExponents
<1> DEFINE p == Xor(first, Exponents(s, n))
           q == Xor(first, Exponents(t, n))
<1>5. /\ p \in SUBSET Int /\ \A c : c \in p <=> (c \in first <=> c \notin Exponents(s, n))
      /\ q \in SUBSET Int /\ \A c : c \in q <=> (c \in first <=> c \notin Exponents(t, n))
  BY <1>3, <1>4, XorIsPolynomial
<1> HIDE DEF p, q
<1>6. Xor(p, q) \in SUBSET Int /\ \A c : c \in Xor(p, q) <=> (c \in p <=> c \notin q)
  BY <1>5, XorIsPolynomial
<1>7. \A e \in Int : e \in Xor(p, q) <=> e \in Exponents(u, n)
  BY <1>2, <1>4, <1>5, <1>6
<1>8. Xor(p, q) = Exponents(u, n)
  BY <1>4, <1>6, <1>7
<1>9. p = Dividend(s) /\ q = Dividend(t)
  BY DEF p, q, Dividend, n, first
<1> QED
  BY <1>4, <1>5, <1>8, <1>9 DEF s, t, u, n

LEMMA AcceptedDiffer ==
  ASSUME NEW a, NEW b, NEW at, IsSlot(at),
         WordOf(a, at) = DigestOf(a, at), WordOf(b, at) = DigestOf(b, at)
  PROVE  RemainderOf(Marks(Xor(a, b), at)) = {}
<1> DEFINE n == CoveredBits
           p == Dividend(OnesOf(a, at))
           q == Dividend(OnesOf(b, at))
           u == Exponents(OnesOf(Xor(a, b), at), n)
           w == WordOf(Xor(a, b), at)
           s == RemainderOf(p)
           t == RemainderOf(q)
<1>1. n \in Nat /\ Width - 1 \in Int
  BY CoveredIsNat, WordsArePolynomials
<1>2. p \in SUBSET Int /\ q \in SUBSET Int /\ Xor(p, q) = u /\ u \in SUBSET Int
  BY DividendsDiffer
<1>3. RemainderOf(u) = Xor(s, t)
  <2> HIDE DEF n, p, q, u
  <2> QED
    BY <1>1, <1>2, RemainderIsLinear DEF RemainderOf, n
<1>4. PICK c \in SUBSET Word : s = Placed(c, Width - 1)
  BY DataLeaves
<1>5. PICK d \in SUBSET Word : t = Placed(d, Width - 1)
  BY DataLeaves
<1>6. /\ \A i \in Word : i \in WordOf(a, at) <=> Width - 1 - i \notin s
      /\ \A i \in Word : i \in WordOf(b, at) <=> Width - 1 - i \notin t
  BY DigestIsRemainder
<1>7. \A i : i \in w <=> i \in Word /\ (i \in WordOf(a, at) <=> i \notin WordOf(b, at))
  BY DEF WordOf, Xor
<1> HIDE DEF p, q, s, t, u, w, n
<1>8. w \in SUBSET Word /\ Word \in SUBSET Int /\ w \in SUBSET Int
  BY <1>7, WordsArePolynomials
<1>9. /\ s \in SUBSET Int /\ \A e \in Int : e \in s <=> Width - 1 - e \in c
      /\ t \in SUBSET Int /\ \A e \in Int : e \in t <=> Width - 1 - e \in d
      /\ Placed(w, Width - 1) \in SUBSET Int
      /\ \A e \in Int : e \in Placed(w, Width - 1) <=> Width - 1 - e \in w
  BY <1>1, <1>4, <1>5, <1>8, InPlaced
<1>10. Xor(s, t) \in SUBSET Int /\ \A e : e \in Xor(s, t) <=> (e \in s <=> e \notin t)
  BY <1>9, XorIsPolynomial
<1>11. \A e \in Int : Width - 1 - e \in Int /\ Width - 1 - (Width - 1 - e) = e
  BY <1>1
<1>12. \A e \in Int : e \in Xor(s, t) <=> e \in Placed(w, Width - 1)
  BY <1>4, <1>5, <1>6, <1>7, <1>8, <1>9, <1>10, <1>11
<1>13. Xor(s, t) = Placed(w, Width - 1)
  BY <1>9, <1>10, <1>12
<1>14. RemainderOf(Placed(w, Width - 1)) = Placed(w, Width - 1)
  <2>1. \A e \in Placed(w, Width - 1) : e < Width
    <3> SUFFICES ASSUME NEW e \in Placed(w, Width - 1)
                 PROVE  e < Width
      OBVIOUS
    <3>1. e \in Int /\ Width - 1 - e \in Word
      BY <1>8, <1>9
    <3> QED
      BY <3>1, WordsArePolynomials
  <2> QED
    BY <1>1, <1>9, <2>1, ShortStays DEF RemainderOf, n
<1>15. RemainderOf(Xor(u, Placed(w, Width - 1))) = Xor(Xor(s, t), Placed(w, Width - 1))
  <2>1. RemainderOf(Xor(u, Placed(w, Width - 1)))
           = Xor(RemainderOf(u), RemainderOf(Placed(w, Width - 1)))
    BY <1>1, <1>2, <1>9, RemainderIsLinear DEF RemainderOf, n
  <2> QED
    BY <1>3, <1>14, <2>1
<1>16. \A x : Xor(x, x) = {}
  BY DEF Xor
<1>17. Marks(Xor(a, b), at) = Xor(u, Placed(w, Width - 1))
  BY DEF Marks, u, w, n
<1> QED
  BY <1>13, <1>15, <1>16, <1>17

(* Which bit of the image stands for an exponent, and which exponent for a *)
(* bit, with p bits of n before the slot.                                  *)
BitFor(p, n, e) == IF e < Width THEN p + Width - 1 - e
                   ELSE IF e >= n + Width - p THEN n + Width - 1 - e
                   ELSE n + Width + Width - 1 - e
PowerOf(p, n, a) == IF a < p THEN n + Width - 1 - a
                    ELSE IF a < p + Width THEN p + Width - 1 - a
                    ELSE n + Width + Width - 1 - a

LEMMA PowersAndBits ==
  ASSUME NEW n \in Nat, NEW p \in 0 .. n
  PROVE  /\ \A a \in 0 .. (n + Width - 1) :
               /\ PowerOf(p, n, a) \in 0 .. (n + Width - 1)
               /\ BitFor(p, n, PowerOf(p, n, a)) = a
         /\ \A e \in 0 .. (n + Width - 1) :
               /\ BitFor(p, n, e) \in 0 .. (n + Width - 1)
               /\ PowerOf(p, n, BitFor(p, n, e)) = e
<1>1. Width \in Nat /\ Width > 0
  BY WordsArePolynomials
<1>2. ASSUME NEW a \in 0 .. (n + Width - 1)
      PROVE  /\ PowerOf(p, n, a) \in 0 .. (n + Width - 1)
             /\ BitFor(p, n, PowerOf(p, n, a)) = a
  <2>1. CASE a < p
    BY <1>1, <2>1 DEF PowerOf, BitFor
  <2>2. CASE ~(a < p) /\ a < p + Width
    BY <1>1, <2>2 DEF PowerOf, BitFor
  <2>3. CASE ~(a < p) /\ ~(a < p + Width)
    BY <1>1, <2>3 DEF PowerOf, BitFor
  <2> QED
    BY <2>1, <2>2, <2>3
<1>3. ASSUME NEW e \in 0 .. (n + Width - 1)
      PROVE  /\ BitFor(p, n, e) \in 0 .. (n + Width - 1)
             /\ PowerOf(p, n, BitFor(p, n, e)) = e
  <2>1. CASE e < Width
    BY <1>1, <2>1 DEF PowerOf, BitFor
  <2>2. CASE ~(e < Width) /\ e >= n + Width - p
    BY <1>1, <2>2 DEF PowerOf, BitFor
  <2>3. CASE ~(e < Width) /\ ~(e >= n + Width - p)
    BY <1>1, <2>3 DEF PowerOf, BitFor
  <2> QED
    BY <2>1, <2>2, <2>3
<1> QED
  BY <1>2, <1>3

(* The bits of the image, in numbers.  *)
LEMMA ImageBits ==
  ASSUME NEW at, IsSlot(at)
  PROVE  /\ at * BitsPerByte \in 0 .. CoveredBits
         /\ Size * BitsPerByte = CoveredBits + Width
         /\ Bits = 0 .. (CoveredBits + Width - 1)
         /\ SlotBits(at) = at * BitsPerByte .. at * BitsPerByte + Width - 1
         /\ (at + SlotBytes) * BitsPerByte = at * BitsPerByte + Width
<1> DEFINE m == BitsPerByte
           k == SlotBytes
           len == Size - SlotBytes
<1>1. /\ m \in Nat /\ k \in Nat /\ at \in Nat /\ Size \in Nat /\ len \in Nat /\ at <= len
      /\ Size = len + k /\ k * m = Width
  BY WordIsBytes DEF IsSlot
<1> HIDE DEF m, k, len
<1>2. at * m \in Nat /\ len * m \in Nat /\ at * m <= len * m
  BY <1>1, Z3
<1>3. (len + k) * m = len * m + k * m
  BY <1>1, Z3
<1>4. CoveredBits = len * m
  BY DEF CoveredBits, len, m
<1>5. Size * m = CoveredBits + Width
  BY <1>1, <1>3, <1>4, Zenon
<1>6. Bits = 0 .. (CoveredBits + Width - 1)
  <2> DEFINE x == Size * BitsPerByte
  <2>1. Bits = 0 .. (x - 1)
    BY DEF Bits
  <2>2. x = CoveredBits + Width
    BY <1>5, Zenon DEF m
  <2>3. x - 1 = CoveredBits + Width - 1
    <3>1. CoveredBits \in Nat /\ Width \in Nat
      BY CoveredIsNat, WordsArePolynomials
    <3> HIDE DEF x
    <3> QED
      BY <2>2, <3>1
  <2> HIDE DEF x
  <2> QED
    BY <2>1, <2>3, Zenon
<1>7. at * m \in 0 .. CoveredBits
  <2> DEFINE x == at * m
             y == len * m
  <2>1. x \in Nat /\ y \in Nat /\ x <= y /\ CoveredBits = y
    BY <1>2, <1>4
  <2> HIDE DEF x, y
  <2>2. x \in 0 .. CoveredBits
    BY <2>1
  <2> QED
    BY <2>2 DEF x
<1> QED
  BY <1>1, <1>5, <1>6, <1>7, SlotIsWord, Zenon DEF m, k

LEMMA InMarks ==
  ASSUME NEW bits, NEW at, IsSlot(at)
  PROVE  /\ Marks(bits, at) \in SUBSET Int
         /\ \A e \in Int : e \in Marks(bits, at) <=>
               /\ e \in 0 .. (CoveredBits + Width - 1)
               /\ BitFor(at * BitsPerByte, CoveredBits, e) \in bits
<1> DEFINE n == CoveredBits
           p == at * BitsPerByte
           ones == OnesOf(bits, at)
           w == WordOf(bits, at)
           u == Exponents(ones, n)
           v == Placed(w, Width - 1)
<1>1. n \in Nat /\ p \in 0 .. n /\ Width \in Nat /\ Width > 0 /\ Width - 1 \in Int
  BY CoveredIsNat, ImageBits, WordsArePolynomials
<1>2. /\ ones \in SUBSET (1 .. n)
      /\ \A j : j \in ones <=> j \in 1 .. n /\ (IF j <= p THEN j - 1 ELSE j - 1 + Width) \in bits
  BY DEF OnesOf, Position
<1>3. w \in SUBSET Int /\ \A b : b \in w <=> b \in 0 .. (Width - 1) /\ p + b \in bits
  BY <1>1 DEF WordOf, Word
<1> HIDE DEF ones, w, n, p
<1>4. /\ u \in SUBSET Int /\ \A e \in Int : e \in u <=> n + Width - e \in ones
      /\ v \in SUBSET Int /\ \A e \in Int : e \in v <=> Width - 1 - e \in w
  BY <1>1, <1>2, <1>3, InExponents, InPlaced
<1>5. Marks(bits, at) = Xor(u, v)
  BY DEF Marks, u, v, ones, w, n
<1> HIDE DEF u, v
<1>6. Xor(u, v) \in SUBSET Int /\ \A e : e \in Xor(u, v) <=> (e \in u <=> e \notin v)
  BY <1>4, XorIsPolynomial
<1>7. ASSUME NEW e \in Int
      PROVE  e \in Xor(u, v) <=> e \in 0 .. (n + Width - 1) /\ BitFor(p, n, e) \in bits
  <2>1. e \in v <=> Width - 1 - e \in 0 .. (Width - 1) /\ p + (Width - 1 - e) \in bits
    BY <1>3, <1>4
  <2>2. e \in u <=> /\ n + Width - e \in 1 .. n
                    /\ (IF n + Width - e <= p THEN n + Width - e - 1
                        ELSE n + Width - e - 1 + Width) \in bits
    <3> DEFINE j == n + Width - e
    <3>1. e \in u <=> j \in ones
      BY <1>4
    <3>2. j \in ones <=> j \in 1 .. n /\ (IF j <= p THEN j - 1 ELSE j - 1 + Width) \in bits
      BY <1>2, Zenon
    <3> QED
      <4>1. j \in Int /\ j - 1 = n + Width - e - 1 /\ j - 1 + Width = n + Width - e - 1 + Width
        BY <1>1
      <4> HIDE DEF j
      <4>2. e \in u <=> j \in 1 .. n /\ (IF j <= p THEN n + Width - e - 1
                                        ELSE n + Width - e - 1 + Width) \in bits
        BY <3>1, <3>2, <4>1
      <4> QED
        BY <4>2 DEF j
  <2>3. e \in v <=> e \in 0 .. (Width - 1) /\ BitFor(p, n, e) \in bits
    <3>1. Width - 1 - e \in 0 .. (Width - 1) <=> e \in 0 .. (Width - 1)
      BY <1>1
    <3>2. e \in 0 .. (Width - 1) => BitFor(p, n, e) = p + (Width - 1 - e)
      BY <1>1 DEF BitFor
    <3> QED
      BY <2>1, <3>1, <3>2
  <2>4. e \in u <=> e \in Width .. (n + Width - 1) /\ BitFor(p, n, e) \in bits
    <3>1. n + Width - e \in 1 .. n <=> e \in Width .. (n + Width - 1)
      BY <1>1
    <3>2. e \in Width .. (n + Width - 1) =>
             BitFor(p, n, e) = IF n + Width - e <= p THEN n + Width - e - 1
                               ELSE n + Width - e - 1 + Width
      BY <1>1 DEF BitFor
    <3> QED
      BY <2>2, <3>1, <3>2
  <2>5. /\ e \in 0 .. (n + Width - 1) <=> e \in 0 .. (Width - 1) \/ e \in Width .. (n + Width - 1)
        /\ ~(e \in 0 .. (Width - 1) /\ e \in Width .. (n + Width - 1))
    BY <1>1
  <2> QED
    BY <1>6, <2>3, <2>4, <2>5, Zenon
<1> QED
  BY <1>5, <1>6, <1>7 DEF n, p

(* Bits that follow each other in the image, and in the register.  *)
LEMMA RunOfBitsLeaves ==
  ASSUME NEW bits \in SUBSET Bits, bits # {}, NEW first \in Int,
         bits \subseteq first .. (first + Width - 1), NEW at, IsSlot(at), NEW c \in Int,
         \A a \in bits : PowerOf(at * BitsPerByte, CoveredBits, a) = c - a
  PROVE  RemainderOf(Marks(bits, at)) # {}
<1> DEFINE n == CoveredBits
           p == at * BitsPerByte
           m == Min(bits)
           x == {a - m : a \in bits}
           high == c - m
<1>1. n \in Nat /\ p \in 0 .. n /\ Bits = 0 .. (n + Width - 1) /\ Width \in Nat /\ Width > 0
  BY CoveredIsNat, ImageBits, WordsArePolynomials
<1>2. bits \in SUBSET Nat
  BY <1>1
<1>3. m \in bits /\ \A a \in bits : m <= a
  <2>1. PICK least \in bits : \A a \in bits : least <= a
    BY <1>2, LeastExists
  <2> QED
    BY <2>1 DEF Min
<1> HIDE DEF n, p, m
<1>4. \A a \in bits : /\ a \in 0 .. (n + Width - 1) /\ a \in Int
                      /\ PowerOf(p, n, a) \in 0 .. (n + Width - 1)
                      /\ BitFor(p, n, PowerOf(p, n, a)) = a /\ PowerOf(p, n, a) = c - a
  BY <1>1, PowersAndBits DEF n, p
<1>5. m \in Int /\ high \in Int /\ high <= n + Width - 1
  BY <1>1, <1>3, <1>4
<1>6. x \in Somethings
  <2>1. \A a \in bits : a - m \in Word
    <3> SUFFICES ASSUME NEW a \in bits
                 PROVE  a - m \in Word
      OBVIOUS
    <3>1. a \in first .. (first + Width - 1) /\ m \in first .. (first + Width - 1) /\ m <= a
      BY <1>3
    <3> QED
      BY <1>1, <3>1 DEF Word
  <2>2. x # {}
    BY <1>3
  <2> QED
    BY <2>1, <2>2 DEF Somethings
<1>7. Marks(bits, at) \in SUBSET Int
      /\ \A e \in Int : e \in Marks(bits, at) <=> e \in 0 .. (n + Width - 1) /\ BitFor(p, n, e) \in bits
  BY InMarks DEF n, p
<1>8. ASSUME NEW e \in Int
      PROVE  e \in Marks(bits, at) <=> c - e \in bits
  <2>1. ASSUME e \in Marks(bits, at)
        PROVE  c - e \in bits
    <3>1. BitFor(p, n, e) \in bits /\ PowerOf(p, n, BitFor(p, n, e)) = e
      BY <1>1, <1>7, <2>1, PowersAndBits
    <3>2. e = c - BitFor(p, n, e) /\ BitFor(p, n, e) \in Int
      BY <1>4, <3>1
    <3>3. c - e = BitFor(p, n, e)
      BY <3>2
    <3> QED
      BY <3>1, <3>3
  <2>2. ASSUME c - e \in bits
        PROVE  e \in Marks(bits, at)
    <3>1. PowerOf(p, n, c - e) = c - (c - e) /\ c - (c - e) = e
      BY <1>4, <2>2
    <3>2. e \in 0 .. (n + Width - 1) /\ BitFor(p, n, e) = c - e
      BY <1>4, <2>2, <3>1
    <3> QED
      BY <1>7, <2>2, <3>2
  <2> QED
    BY <2>1, <2>2
<1>9. \A e \in Int : c - e \in bits <=> high - e \in x
  <2> SUFFICES ASSUME NEW e \in Int
               PROVE  c - e \in bits <=> high - e \in x
    OBVIOUS
  <2>1. high - e = (c - e) - m
    BY <1>5
  <2>2. \A a \in bits : a - m = (c - e) - m <=> a = c - e
    BY <1>4, <1>5
  <2> HIDE DEF high
  <2> QED
    BY <2>1, <2>2
<1> HIDE DEF x, high
<1>10. x \in SUBSET Int
  BY <1>6, WordsArePolynomials DEF Somethings
<1>11. Placed(x, high) \in SUBSET Int /\ \A e \in Int : e \in Placed(x, high) <=> high - e \in x
  BY <1>5, <1>10, InPlaced
<1>12. Marks(bits, at) = Placed(x, high)
  BY <1>7, <1>8, <1>9, <1>11
<1>13. Placed(x, high) \in Tails(n + Width - 1)
  BY <1>1, <1>5, <1>6, TailOf
<1> QED
  BY <1>1, <1>12, <1>13, BurstLeaves DEF RemainderOf, n

LEMMA WindowIsShort ==
  ASSUME NEW first \in Bits, NEW at, IsSlot(at)
  PROVE  Window(first) \subseteq first .. (first + Width - 1)
<1> DEFINE top == CoveredBits + Width - 1
           pair == {first + Width - 1, Max(Bits)}
<1>1. CoveredBits \in Nat /\ Bits = 0 .. top /\ Width \in Nat /\ Width > 0 /\ top \in Nat
  BY CoveredIsNat, ImageBits, WordsArePolynomials
<1>2. Max(Bits) \in Bits
  <2> HIDE DEF top
  <2>1. Bits # {}
    OBVIOUS
  <2> QED
    BY <1>1, <2>1, DivFold!MaxIsGreatest DEF Max, DivFold!Max
<1>3. pair \in SUBSET Nat /\ pair # {}
  BY <1>1, <1>2
<1> HIDE DEF pair
<1>4. \A y \in pair : Min(pair) <= y
  BY <1>3, DivFold!MinIsLeast DEF Min, DivFold!Min
<1>5. Min(pair) \in Nat
  BY <1>3, MinIsLeast
<1>6. Min(pair) <= first + Width - 1
  BY <1>4 DEF pair
<1>7. Window(first) = first .. Min(pair)
  BY DEF Window, pair
<1> QED
  BY <1>1, <1>5, <1>6, <1>7

LEMMA BurstsLeave ==
  ASSUME NEW bits \in Bursts, IsSlot(slot)
  PROVE  RemainderOf(Marks(bits, slot)) # {}
<1> DEFINE n == CoveredBits
           p == slot * BitsPerByte
<1>1. /\ n \in Nat /\ p \in 0 .. n /\ Bits = 0 .. (n + Width - 1) /\ Width \in Nat /\ Width > 0
      /\ SlotBits(slot) = p .. p + Width - 1 /\ (slot + SlotBytes) * BitsPerByte = p + Width
      /\ Size * BitsPerByte = n + Width
  BY CoveredIsNat, ImageBits, WordsArePolynomials
<1>2. PICK first \in Bits : bits \in SUBSET Window(first)
  BY DEF Bursts
<1>3. bits # {} /\ \E piece \in Pieces : bits \subseteq piece
  BY DEF Bursts
<1>4. first \in Int /\ bits \subseteq first .. (first + Width - 1)
  BY <1>1, <1>2, WindowIsShort
<1> HIDE DEF n, p
<1>5. ASSUME NEW c \in Int, bits \subseteq Bits, \A a \in bits : PowerOf(p, n, a) = c - a
      PROVE  RemainderOf(Marks(bits, slot)) # {}
  BY <1>3, <1>4, <1>5, RunOfBitsLeaves DEF n, p
<1>6. CASE slot + SlotBytes = Size
  <2>1. bits \subseteq Bits
    BY <1>3, <1>6 DEF Pieces
  <2>2. p = n
    <3>1. p + Width = n + Width
      BY <1>1, <1>6, Zenon
    <3> QED
      BY <1>1, <3>1
  <2> DEFINE c == n + Width - 1
  <2>3. c \in Int /\ \A a \in bits : PowerOf(p, n, a) = c - a
    BY <1>1, <2>1, <2>2 DEF PowerOf
  <2> HIDE DEF c
  <2> QED
    BY <1>5, <2>1, <2>3
<1>7. CASE slot + SlotBytes # Size
  <2>1. \/ bits \subseteq SlotBits(slot)
        \/ bits \subseteq {b \in Bits : b < p}
        \/ bits \subseteq {b \in Bits : b >= p + Width}
    BY <1>1, <1>3, <1>7 DEF Pieces, p
  <2>2. CASE bits \subseteq SlotBits(slot)
    <3> DEFINE c == p + Width - 1
    <3>1. c \in Int /\ bits \subseteq Bits /\ \A a \in bits : PowerOf(p, n, a) = c - a
      BY <1>1, <2>2 DEF PowerOf
    <3> HIDE DEF c
    <3> QED
      BY <1>5, <3>1
  <2>3. CASE bits \subseteq {b \in Bits : b < p}
    <3> DEFINE c == n + Width - 1
    <3>1. c \in Int /\ bits \subseteq Bits /\ \A a \in bits : PowerOf(p, n, a) = c - a
      BY <1>1, <2>3 DEF PowerOf
    <3> HIDE DEF c
    <3> QED
      BY <1>5, <3>1
  <2>4. CASE bits \subseteq {b \in Bits : b >= p + Width}
    <3> DEFINE c == n + Width + Width - 1
    <3>1. c \in Int /\ bits \subseteq Bits /\ \A a \in bits : PowerOf(p, n, a) = c - a
      BY <1>1, <2>4 DEF PowerOf
    <3> HIDE DEF c
    <3> QED
      BY <1>5, <3>1
  <2> QED
    BY <2>1, <2>2, <2>3, <2>4
<1> QED
  BY <1>6, <1>7

LEMMA PairsLeave ==
  ASSUME NEW bits \in Pairs, IsSlot(slot), TwoBitsDiffer
  PROVE  RemainderOf(Marks(bits, slot)) # {}
<1> DEFINE n == CoveredBits
           p == slot * BitsPerByte
<1>1. /\ n \in Nat /\ p \in 0 .. n /\ Bits = 0 .. (n + Width - 1) /\ Width \in Nat /\ Width > 0
      /\ Size * BitsPerByte = n + Width
  BY CoveredIsNat, ImageBits, WordsArePolynomials
<1>2. PICK a \in Bits, b \in Bits : bits = {a, b}
  BY DEF Pairs
<1> DEFINE e == PowerOf(p, n, a)
           f == PowerOf(p, n, b)
<1>3. \A d \in 1 .. (n + Width - 1) : Remainder({0, d}, d) # {}
  <2> DEFINE z == Size * BitsPerByte
  <2>1. \A d \in 1 .. (z - 1) : Remainder({0, d}, d) # {}
    BY DEF TwoBitsDiffer
  <2>2. z = n + Width
    BY <1>1
  <2> HIDE DEF z, n
  <2>3. z - 1 = n + Width - 1
    BY <1>1, <2>2
  <2> QED
    BY <2>1, <2>3
<1> HIDE DEF n, p
<1>4. /\ e \in 0 .. (n + Width - 1) /\ f \in 0 .. (n + Width - 1)
      /\ BitFor(p, n, e) = a /\ BitFor(p, n, f) = b
  BY <1>1, PowersAndBits
<1> HIDE DEF e, f
<1>5. Marks(bits, slot) = {e, f}
  <2>1. Marks(bits, slot) \in SUBSET Int
        /\ \A g \in Int : g \in Marks(bits, slot) <=> g \in 0 .. (n + Width - 1) /\ BitFor(p, n, g) \in bits
    BY InMarks DEF n, p
  <2>2. ASSUME NEW g \in Int
        PROVE  g \in Marks(bits, slot) <=> g \in {e, f}
    <3>1. ASSUME g \in Marks(bits, slot)
          PROVE  g \in {e, f}
      <4>1. g \in 0 .. (n + Width - 1) /\ BitFor(p, n, g) \in {a, b}
        BY <1>2, <2>1, <3>1
      <4>2. PowerOf(p, n, BitFor(p, n, g)) = g
        BY <1>1, <4>1, PowersAndBits
      <4> QED
        BY <4>1, <4>2 DEF e, f
    <3>2. ASSUME g \in {e, f}
          PROVE  g \in Marks(bits, slot)
      BY <1>2, <1>4, <2>1, <3>2
    <3> QED
      BY <3>1, <3>2
  <2>3. {e, f} \in SUBSET Int
    BY <1>4
  <2> QED
    BY <2>1, <2>2, <2>3
<1>6. ASSUME NEW g \in 0 .. (n + Width - 1), NEW h \in 0 .. (n + Width - 1), h < g
      PROVE  Remainder({g, h}, n + Width - 1) # {}
  <2>1. g - h \in 1 .. (n + Width - 1) /\ g \in Int /\ h \in Int /\ 0 <= h /\ g <= n + Width - 1
    BY <1>1, <1>6
  <2>2. Remainder({0, g - h}, g - h) # {}
    BY <1>3, <2>1
  <2> QED
    BY <1>1, <1>6, <2>1, <2>2, PairLeaves
<1>7. CASE f < e
  BY <1>4, <1>5, <1>6, <1>7 DEF RemainderOf, n
<1>8. CASE e < f
  <2>1. {e, f} = {f, e}
    OBVIOUS
  <2>2. Remainder({f, e}, n + Width - 1) # {}
    BY <1>4, <1>6, <1>8
  <2> QED
    BY <1>5, <2>1, <2>2 DEF RemainderOf, n
<1>9. CASE e = f
  <2>1. {0} \in Somethings
    BY WordsArePolynomials DEF Somethings
  <2>2. Placed({0}, e) = {e, f}
    BY <1>4, <1>9 DEF Placed
  <2>3. Placed({0}, e) \in Tails(n + Width - 1)
    BY <1>1, <1>4, <2>1, TailOf
  <2> QED
    BY <1>1, <1>5, <2>2, <2>3, BurstLeaves DEF RemainderOf, n
<1> QED
  BY <1>4, <1>7, <1>8, <1>9

(* What an image was before it was damaged was accepted.  *)
DamageInv ==
    /\ IsSlot(slot)
    /\ phase \in {"linked", "patched", "damaged", "booted"}
    /\ phase = "linked" => damage = {}
    /\ phase = "patched" => damage = {} /\ WordOf(image, slot) = DigestOf(image, slot)
    /\ phase = "damaged" =>
          /\ damage \in Bursts \cup Pairs
          /\ WordOf(Xor(image, damage), slot) = DigestOf(Xor(image, damage), slot)
    /\ DamageIsRefused

LEMMA DamageShows ==
  ASSUME IsSlot(slot), TwoBitsDiffer, NEW bits \in Bursts \cup Pairs,
         WordOf(Xor(image, bits), slot) = DigestOf(Xor(image, bits), slot)
  PROVE  WordOf(image, slot) # DigestOf(image, slot)
<1>1. Xor(image, Xor(image, bits)) = bits
  BY DEF Xor
<1>2. RemainderOf(Marks(bits, slot)) # {}
  BY BurstsLeave, PairsLeave
<1>3. WordOf(image, slot) = DigestOf(image, slot) =>
         RemainderOf(Marks(Xor(image, Xor(image, bits)), slot)) = {}
  BY AcceptedDiffer
<1> QED
  BY <1>1, <1>2, <1>3

LEMMA DamageInvHoldsInitially == Init => DamageInv
<1> SUFFICES ASSUME Init
             PROVE  DamageInv
  OBVIOUS
<1>1. IsSlot(slot)
  BY ImageInvHoldsInitially DEF ImageInv
<1> QED
  BY <1>1 DEF Init, DamageInv, DamageIsRefused

LEMMA DamageInvIsKept ==
  ASSUME TwoBitsDiffer
  PROVE  DamageInv /\ ImageInv /\ [Next]_vars /\ ImageInv' => DamageInv'
<1> SUFFICES ASSUME DamageInv, ImageInv, ImageInv', [Next]_vars
             PROVE  DamageInv'
  OBVIOUS
<1>1. CASE PatchKernel
  <2>1. phase' = "patched" /\ slot' = slot /\ damage' = {} /\ IsSlot(slot)
    BY <1>1 DEF PatchKernel, DamageInv
  <2>2. WordAt(slot)' = DigestOf(image, slot)'
    BY <2>1 DEF ImageInv
  <2>3. WordOf(image, slot)' = DigestOf(image, slot)'
    BY <2>2 DEF WordAt, WordOf
  <2> QED
    BY <2>1, <2>3 DEF DamageInv, DamageIsRefused, IsSlot
<1>2. ASSUME NEW bits \in Bursts \cup Pairs, Damage(bits)
      PROVE  DamageInv'
  <2>1. /\ phase = "patched" /\ phase' = "damaged" /\ slot' = slot /\ damage' = bits
        /\ image' = Xor(image, bits) /\ IsSlot(slot)
        /\ WordOf(image, slot) = DigestOf(image, slot)
    BY <1>2 DEF Damage, DamageInv
  <2>2. Xor(image', damage') = image
    BY <2>1 DEF Xor
  <2>3. /\ WordOf(Xor(image', damage'), slot') = WordOf(image, slot)
        /\ DigestOf(Xor(image', damage'), slot') = DigestOf(image, slot)
    BY <2>1, <2>2
  <2>4. (Bursts \cup Pairs)' = Bursts \cup Pairs
    BY <2>1 DEF Bursts, Pairs, Pieces, SlotBits, Window
  <2> QED
    BY <2>1, <2>3, <2>4 DEF DamageInv, DamageIsRefused, IsSlot
<1>3. CASE Verify
  <2>1. /\ UNCHANGED <<image, slot, damage>> /\ phase' = "booted" /\ phase # "booted"
        /\ image_integrity_ok' = IsAccepted(CrcRegion(0, slot, Size), WordAt(slot))
        /\ IsSlot(slot)
    BY <1>3 DEF Verify, DamageInv
  <2>2. ASSUME damage # {}
        PROVE  ~image_integrity_ok'
    <3>1. phase = "damaged"
      BY <2>1, <2>2 DEF DamageInv
    <3>2. WordOf(image, slot) # DigestOf(image, slot)
      BY <3>1, DamageShows DEF DamageInv
    <3>3. CrcRegion(0, slot, Size) # WordAt(slot)
      BY <2>1, <3>2, FirmwareAgreesWithScript DEF WordAt, WordOf
    <3> QED
      BY <2>1, <3>3 DEF IsAccepted
  <2> QED
    BY <2>1, <2>2 DEF DamageInv, DamageIsRefused, IsSlot
<1>4. CASE UNCHANGED vars
  <2>1. /\ image' = image /\ slot' = slot /\ phase' = phase /\ damage' = damage
        /\ image_integrity_ok' = image_integrity_ok
    BY <1>4 DEF vars, verdict
  <2>2. (Bursts \cup Pairs)' = Bursts \cup Pairs
    BY <2>1 DEF Bursts, Pairs, Pieces, SlotBits, Window
  <2>3. /\ WordOf(image, slot)' = WordOf(image, slot)
        /\ DigestOf(image, slot)' = DigestOf(image, slot)
        /\ WordOf(Xor(image, damage), slot)' = WordOf(Xor(image, damage), slot)
        /\ DigestOf(Xor(image, damage), slot)' = DigestOf(Xor(image, damage), slot)
    BY <2>1
  <2> QED
    BY <2>1, <2>2, <2>3 DEF DamageInv, DamageIsRefused, IsSlot
<1> QED
  BY <1>1, <1>2, <1>3, <1>4 DEF Next

(* Where the generator divides no two powers that fit into the image, a    *)
(* patched image in which a burst of up to Width bits or any two bits have *)
(* been inverted, in the code, in the slot or across its edge, fails       *)
(* image_integrity_verify: for every width and polynomial with its highest *)
(* bit set, every size and contents of the image (src/crc32.c,             *)
(* src/image_integrity.c).                                                 *)
THEOREM DamagedImageIsRefused ==
  ASSUME TwoBitsDiffer
  PROVE  BootSpec => []DamageIsRefused
<1>1. DamageInv => DamageIsRefused
  BY DEF DamageInv
<1>2. Init /\ [][Next]_vars => []ImageInv
  BY ImageInvHoldsInitially, ImageStepKeepsInv, PTL
<1>3. Init /\ [][Next]_vars => []DamageInv
  BY <1>2, DamageInvHoldsInitially, DamageInvIsKept, PTL
<1> QED
  BY <1>1, <1>3, BootChecksImage, PTL DEF Spec

(* The mode the state machine enters and the flight log then say what the  *)
(* image is: NOMINAL for a sound one, DEGRADED after an IMAGE_CRC_FAIL     *)
(* event for any other (main in src/main.c, vTaskStateMachine in           *)
(* src/state_machine.c).                                                   *)
THEOREM ModeTellsTheImage ==
  ASSUME TwoBitsDiffer
  PROVE  BootSpec => []ModeTellsImage
BY DamagedImageIsRefused, ModeFollowsImage, PTL
=============================================================================
