----------------------------- MODULE KernelLists -----------------------------
(***************************************************************************)
(* The lists of the kernel (FreeRTOS/Source/list.c), as pure operators.    *)
(* A list that is walked in turn, such as a ready list, is a record: its   *)
(* items from head to tail, and the position pxIndex points to, 0 standing *)
(* for the end marker.  Lists whose index nobody moves are sequences,      *)
(* sorted by the values of their items.                                    *)
(***************************************************************************)
EXTENDS Naturals, SequencesExt

vListInitialise == [items |-> <<>>, index |-> 0]

(* The new item goes before the one the index points to, and so is the     *)
(* last one the index will come to; before the end marker is the tail.     *)
ListInsertAfterIndex(list, item) ==
    [list EXCEPT !.items = InsertAt(@, list.index + 1, item)]
vListInsertEnd(list, item) ==
    IF list.index = 0
    THEN [list EXCEPT !.items = Append(@, item)]
    ELSE [items |-> InsertAt(list.items, list.index, item), index |-> list.index + 1]

(* An index on the removed item moves back to the one before it.  *)
uxListRemove(list, item) ==
    LET at == SelectInSeq(list.items, LAMBDA i : i = item) IN
    [items |-> RemoveAt(list.items, at),
     index |-> IF at <= list.index THEN list.index - 1 ELSE list.index]

(* listGET_OWNER_OF_NEXT_ENTRY: one item on, past the end marker.  *)
ListNextEntry(list) ==
    [list EXCEPT !.index = IF @ = Len(list.items) THEN 1 ELSE @ + 1]
ListOwner(list) == list.items[list.index]

(* vListInsert: after every item whose value is not greater.  The loop of  *)
(* the code stops at the first greater one.                                *)
vListInsert(items, value, item) ==
    LET later == {i \in DOMAIN items : value[items[i]] > value[item]} IN
    InsertAt(items, IF later = {} THEN Len(items) + 1 ELSE Min(later), item)
=============================================================================
