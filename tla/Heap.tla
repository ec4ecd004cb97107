--------------------------------- MODULE Heap ---------------------------------
(***************************************************************************)
(* The kernel's allocator (FreeRTOS/Source/portable/MemMang/heap_4.c) as   *)
(* operators on a heap: a record of                                        *)
(*   first, pxEnd          the addresses of the first block and the end    *)
(*   xBlockSize            the size in the header of every block           *)
(*   allocated             the blocks whose header has the allocated bit   *)
(*   free                  the list of free blocks, from xStart to pxEnd   *)
(*   xFreeBytesRemaining                                                   *)
(* Counters that are only printed are left out, and so are the checks for  *)
(* overflow of size_t: the sizes asked for are constants of the program.   *)
(***************************************************************************)
EXTENDS Integers, SequencesExt, FiniteSetsExt

CONSTANTS portBYTE_ALIGNMENT, SizeOfBlockLink

ASSUME HeapAssumption == {portBYTE_ALIGNMENT, SizeOfBlockLink} \subseteq Nat \ {0}

NULL == 0

Down(n) == n - (n % portBYTE_ALIGNMENT)
Up(n)   == Down(n + portBYTE_ALIGNMENT - 1)

xHeapStructSize == Up(SizeOfBlockLink)
heapMINIMUM_BLOCK_SIZE == 2 * xHeapStructSize

(* prvHeapInit: one free block, from the first aligned byte of ucHeap to   *)
(* the end marker.  The code's sizes are unsigned: its caller must have a  *)
(* heap that HoldsAHeader.                                                 *)
prvHeapInit(ucHeap, size) ==
    LET first == Up(ucHeap)
        pxEnd == Down(ucHeap + size - xHeapStructSize)
    IN [first |-> first, pxEnd |-> pxEnd,
        xBlockSize |-> [b \in {first} |-> pxEnd - first],
        allocated |-> {},
        free |-> <<first>>,
        xFreeBytesRemaining |-> pxEnd - first]

HoldsAHeader(ucHeap, size) ==
    Up(ucHeap) + xHeapStructSize <= Down(ucHeap + size - xHeapStructSize)

Refused(heap)   == [heap |-> heap, at |-> NULL]
After(block)    == block + xHeapStructSize      \* what the caller gets
BlockOf(at)     == at - xHeapStructSize

(* pvPortMalloc: the first free block that is large enough.  What is left  *)
(* of it becomes a free block in its place, when that is worth one.        *)
BlockSizeWithoutHeader(xWantedSize) == Up(xWantedSize)
BlockSizeFor(xWantedSize) == Up(xWantedSize + xHeapStructSize)
IsSplitUnlessLarge(rest)  == rest < heapMINIMUM_BLOCK_SIZE
IsSplit(rest)             == rest > heapMINIMUM_BLOCK_SIZE

Take(heap, i, need) ==
    LET pxBlock == heap.free[i]
        rest    == heap.xBlockSize[pxBlock] - need
        others  == RemoveAt(heap.free, i)
        new     == pxBlock + need
        taken   == [heap EXCEPT !.allocated = @ \cup {pxBlock}]
    IN IF IsSplit(rest)
       THEN [taken EXCEPT
                !.xBlockSize = [b \in DOMAIN @ \cup {new} |->
                                   CASE b = pxBlock -> need
                                     [] b = new     -> rest
                                     [] OTHER       -> @[b]],
                !.free = InsertAt(others, i, new),
                !.xFreeBytesRemaining = @ - need]
       ELSE [taken EXCEPT
                !.free = others,
                !.xFreeBytesRemaining = @ - heap.xBlockSize[pxBlock]]

pvPortMalloc(heap, xWantedSize) ==
    LET need == BlockSizeFor(xWantedSize)
        fits == {i \in DOMAIN heap.free : heap.xBlockSize[heap.free[i]] >= need}
    IN IF xWantedSize = 0 \/ need > heap.xFreeBytesRemaining \/ fits = {}
       THEN Refused(heap)
       ELSE [heap |-> Take(heap, Min(fits), need), at |-> After(heap.free[Min(fits)])]

(* prvInsertBlockIntoFreeList: in the order of the addresses, merged with  *)
(* the free block before and then with the one behind when they touch.     *)
Touches(heap, i) ==                             \* the next in the list
    /\ {i, i + 1} \subseteq DOMAIN heap.free
    /\ heap.free[i] + heap.xBlockSize[heap.free[i]] = heap.free[i + 1]

AbsorbNext(heap, i) ==
    LET block == heap.free[i]
        next  == heap.free[i + 1]
    IN [heap EXCEPT
            !.xBlockSize = [b \in DOMAIN @ \ {next} |->
                               IF b = block THEN @[block] + @[next] ELSE @[b]],
            !.free = RemoveAt(@, i + 1)]

Before(heap, block) == Cardinality({j \in DOMAIN heap.free : heap.free[j] < block})

prvInsertUnmerged(heap, block) ==
    [heap EXCEPT !.free = InsertAt(@, Before(heap, block) + 1, block)]

prvInsertBlockIntoFreeList(heap, block) ==
    LET before == Before(heap, block)
        list   == [heap EXCEPT !.free = InsertAt(@, before + 1, block)]
        joined == Touches(list, before)
        left   == IF joined THEN AbsorbNext(list, before) ELSE list
        at     == IF joined THEN before ELSE before + 1
    IN IF Touches(left, at) THEN AbsorbNext(left, at) ELSE left

(* vPortFree of an address pvPortMalloc gave; the assertions that it is    *)
(* one are not modelled.                                                   *)
vPortFree(heap, at) ==
    LET block == BlockOf(at) IN
    prvInsertBlockIntoFreeList(
        [heap EXCEPT !.allocated = @ \ {block},
                     !.xFreeBytesRemaining = @ + heap.xBlockSize[block]],
        block)

-----------------------------------------------------------------------------
(* What the allocator keeps: the blocks tile the heap; those that are not  *)
(* allocated are in the list, in order, no two of them adjacent; and their *)
(* sizes are what xFreeBytesRemaining says.                                *)
BlocksTile(heap) ==
    LET blocks == DOMAIN heap.xBlockSize IN
    /\ heap.first \in blocks
    /\ \A b \in blocks : b + heap.xBlockSize[b] \in blocks \cup {heap.pxEnd}
    /\ \A b, c \in blocks : b < c => b + heap.xBlockSize[b] <= c

FreeListIsExact(heap) ==
    /\ ToSet(heap.free) = DOMAIN heap.xBlockSize \ heap.allocated
    /\ \A i \in DOMAIN heap.free, j \in DOMAIN heap.free :
           i < j => heap.free[i] + heap.xBlockSize[heap.free[i]] < heap.free[j]
    /\ heap.xFreeBytesRemaining = MapThenSumSet(LAMBDA b : heap.xBlockSize[b], ToSet(heap.free))
=============================================================================
