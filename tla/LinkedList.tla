---------------------------- MODULE LinkedList ----------------------------
(***************************************************************************)
(* A list in use: the exported functions of LinkedListGeneric.c,           *)
(* LinkedListGenericIter.c and ListFunctionGen.c, called in any order by   *)
(* one caller that keeps one iterator and does not use it once the node it *)
(* refers to is freed.  malloc hands out any free block, and NULL when     *)
(* there is none.  A step that uses NULL as an address ends the process.   *)
(***************************************************************************)
EXTENDS ListFunctions, Integers

CONSTANTS Leftover,     \* what a fresh block can hold: items, or no item
          Lesses        \* the less functions a caller passes to the sort

ASSUME LeftoverAssumption == Leftover \subseteq Items \cup {NULL}

VARIABLES list,         \* the record of ListOps
          free,         \* the blocks malloc can return
          itr,          \* the caller's iterator, NULL if it has none to use
          reply,        \* what the last call returned
          count,        \* and the number, of a call that counts
          status        \* "live", "destroyed" or "crashed"

vars == <<list, free, itr, reply, count, status>>

Init ==
  /\ \E atHead, atTail \in Leftover : list = List_Create(atHead, atTail)
  /\ free = Nodes /\ itr = NULL /\ reply = NULL /\ count = 0 /\ status = "live"

Counts(n) == count' = n /\ UNCHANGED status
Answer(r) == reply' = r /\ Counts(0)
Dies == status' = "crashed" /\ UNCHANGED <<list, free, itr, reply, count>>
Empty == list.m_next[head] = tail

\* A new node with item x between p and q.
Insert(x, p, q, n) == list' = Link(list, p, n, q, x) /\ free' = free \ {n}

List_PushHead(x) ==
  /\ UNCHANGED itr
  /\ \/ /\ \E n \in free : Insert(x, head, list.m_next[head], n)
        /\ Answer("LIST_SUCCESS")
     \/ /\ free = {} /\ Answer("LIST_ALLOCATION_ERROR")
        /\ UNCHANGED <<list, free>>

\* What malloc returns is not tested.
List_PushTail(x) ==
  \/ /\ \E n \in free : Insert(x, list.m_prev[tail], tail, n)
     /\ Answer("LIST_SUCCESS") /\ UNCHANGED itr
  \/ free = {} /\ Dies

\* Node n is freed, and an iterator to it is not used any more.
Free(n) ==
  /\ list' = Unlink(list, n)
  /\ free' = free \cup {n}
  /\ itr' = IF itr = n THEN NULL ELSE itr

\* Defect: the test for the empty list is left out.
DefectPopEmpty(n) == Free(n) /\ Answer(list.m_data[n])

Pop(n) ==
  \/ ~Empty /\ Free(n) /\ Answer(list.m_data[n])
  \/ Empty /\ Answer("LIST_IS_EMPTY") /\ UNCHANGED <<list, free, itr>>

List_PopHead == Pop(list.m_next[head])

List_PopTail == Pop(list.m_prev[tail])

Goto(p) == itr' = p /\ Answer(NULL) /\ UNCHANGED <<list, free>>

Begin == Goto(ListItr_Begin(list))
End == Goto(ListItr_End(list))
NextPlace == itr # NULL /\ Goto(ListItr_Next(list, itr))

\* From the head's place m_prev is NULL, and is used as an address.
PrevPlace ==
  \/ itr \notin {NULL, head} /\ Goto(ListItr_Prev(list, itr))
  \/ itr = head /\ Dies

Get ==
  /\ itr # NULL /\ Answer(ListItr_Get(list, itr))
  /\ UNCHANGED <<list, free, itr>>

Set(x) ==
  /\ itr # NULL
  /\ list' = ListItr_Set(list, itr, x)
  /\ Answer(list.m_data[itr])
  /\ UNCHANGED <<free, itr>>

\* The block asked for has the size of a pointer; the allocator's smallest
\* block holds a node.  The caller goes on with the new node.
ListItr_InsertBefore(x) ==
  \/ /\ itr \notin {NULL, head}
     /\ \E n \in free : Insert(x, list.m_prev[itr], itr, n) /\ itr' = n
     /\ Answer("LIST_SUCCESS")
  \/ itr = head /\ free # {} /\ Dies
  \/ itr # NULL /\ free = {} /\ Answer(NULL) /\ UNCHANGED <<list, free, itr>>

ListItr_Remove ==
  \/ itr \in Nodes /\ Free(itr) /\ Answer(list.m_data[itr])
  \/ itr = tail /\ Answer(NULL) /\ UNCHANGED <<list, free, itr>>
  \/ itr = head /\ Dies

FindFirst(predicate) ==
  Goto(ListItr_FindFirst(list, ListItr_Begin(list), ListItr_End(list), predicate))

ForEach(action) ==
  Goto(ListItr_ForEach(list, ListItr_Begin(list), ListItr_End(list), action))

Size == Counts(List_Size(list)) /\ UNCHANGED <<list, free, itr, reply>>

CountIf(predicate) ==
  /\ Counts(ListItr_CountIf(list, ListItr_Begin(list), ListItr_End(list), predicate))
  /\ UNCHANGED <<list, free, itr, reply>>

\* Either the whole range or one that the caller's iterator ends.
Sort(less) ==
  /\ \E end \in {ListItr_End(list), itr} \ {NULL, head} :
       list' = ListItr_Sort(list, ListItr_Begin(list), end, less)
  /\ UNCHANGED <<free, itr, reply, count, status>>

\* The items before the iterator go to the end, or those from it to the front.
Splice ==
  /\ itr \in Nodes /\ itr # ListItr_Begin(list)
  /\ \/ list' = ListItr_Splice(list, ListItr_End(list), ListItr_Begin(list), itr)
     \/ list' = ListItr_Splice(list, ListItr_Begin(list), itr, ListItr_End(list))
  /\ UNCHANGED <<free, itr, reply, count, status>>

\* The loop frees the node before the one it has stepped to.
List_Destroy ==
  /\ free' = free \cup {list.m_prev[list.m_next[InOrder(list)[i]]] :
                          i \in DOMAIN InOrder(list)}
  /\ list' = List_Create(NULL, NULL) /\ itr' = NULL /\ status' = "destroyed"
  /\ UNCHANGED <<reply, count>>

Call ==
  \/ \E x \in Items :
       List_PushHead(x) \/ List_PushTail(x) \/ ListItr_InsertBefore(x) \/ Set(x)
  \/ List_PopHead \/ List_PopTail
  \/ Begin \/ End \/ NextPlace \/ PrevPlace \/ Get
  \/ ListItr_Remove \/ Size \/ Splice \/ List_Destroy
  \/ \E predicate \in SUBSET Items :
       FindFirst(predicate) \/ ForEach(predicate) \/ CountIf(predicate)
  \/ \E less \in Lesses : Sort(less)

Next == status = "live" /\ Call

Spec == Init /\ [][Next]_vars
-----------------------------------------------------------------------------
\* The variables hold values of their types, in every state of the list: the
\* nodes, the blocks malloc can return and the iterator are apart.
TypeOK ==
  /\ list \in [m_next : [Places -> Places \cup {NULL}],
               m_prev : [Places -> Places \cup {NULL}],
               m_data : [Places -> Items \cup {NULL}]]
  /\ free \subseteq Nodes
  /\ itr \in (Places \cup {NULL}) \ free
  /\ reply \in Items \cup {NULL, "LIST_SUCCESS", "LIST_IS_EMPTY", "LIST_ALLOCATION_ERROR"}
  /\ count \in 0 .. Cardinality(Nodes)
  /\ status \in {"live", "destroyed", "crashed"}

\* LinkedListGeneric.c, LinkedListGenericIter.c: after any calls, the chain
\* from the head reaches every block that was allocated, once each, and no
\* other; a place's neighbours agree with it in both directions.  No call
\* loses a node, and none leaves a link to a block that was freed.
LinksMirror ==
  LET chain == <<head>> \o InOrder(list) \o <<tail>>
  IN /\ {chain[i] : i \in DOMAIN chain} = Places \ free
     /\ Len(chain) = Cardinality(Places \ free)
     /\ \A i \in 1 .. Len(chain) - 1 :
          list.m_next[chain[i]] = chain[i + 1] /\ list.m_prev[chain[i + 1]] = chain[i]

\* LinkedListGenericIter.c:44: although two places are compared by their items,
\* a loop from the beginning to the end passes through all the places unless
\* the end carries one of the list's items: the list's block held it when it
\* was allocated, or a sort or a set has left it there.
LoopsReachTheEnd ==
  \/ Visited(list, ListItr_Begin(list), ListItr_End(list)) = InOrder(list)
  \/ \E i \in DOMAIN InOrder(list) : Contents(list)[i] = list.m_data[tail]

\* The position of a place, counting from the head's.
PositionOf(p) ==
  IF p = NULL THEN -1 ELSE StepsTo(list, head, {p})

Abstract == INSTANCE ItemList WITH
  items <- Contents(list), position <- PositionOf(itr),
  MaxLen <- Cardinality(Nodes)

\* The list of nodes behaves as the sequence of items: every call answers and
\* moves the iterator as ItemList says, for all contents, iterator positions
\* and failures of malloc.  Sorting and splicing (ListFunctionGen.c:102, 127)
\* lose no item and double none, whatever the less function says of the NULL it
\* is given behind the last item, and wherever the loop stops early because two
\* places hold the same item.
ImplementsItemList == Abstract!Spec
-----------------------------------------------------------------------------
(***************************************************************************)
(* What list_itr.h and list_functions.h say of every list.                 *)
(***************************************************************************)

\* The first node with an item of S, or the end.
FirstWith(S) ==
  LET at == {i \in DOMAIN InOrder(list) : Contents(list)[i] \in S}
  IN IF at = {} THEN tail ELSE InOrder(list)[Min(at)]

\* list_itr.h:28: "retruns none zero if _a and _b iterators refer to same node".
\* LinkedListGenericIter.c:51 compares what the two nodes carry.
EqualsIsSameNode ==
  \A p, q \in (Nodes \ free) \cup {tail} : ListItr_Equals(list, p, q) => p = q

\* list_itr.h:41: "if _itr is begin iterator it will be returned".
\* LinkedListGenericIter.c:76 tests for a node that precedes itself.
PrevOfBeginIsBegin ==
  ~Empty => ListItr_Prev(list, ListItr_Begin(list)) = ListItr_Begin(list)

\* list_functions.h:45: "Finds the first element in a range satsifying a
\* predicate".  ListFunctionGen.c:34 goes on while the predicate holds.
FindFirstFinds ==
  \A predicate \in SUBSET Items :
    ListItr_FindFirst(list, ListItr_Begin(list), ListItr_End(list), predicate)
      = FirstWith(predicate)

\* list_functions.h:66: "count of all elements e where _predicate(e, _context)
\* != 0".  ListFunctionGen.c:63 returns after the first element.
CountIfCountsAll ==
  \A predicate \in SUBSET Items :
    ListItr_CountIf(list, ListItr_Begin(list), ListItr_End(list), predicate)
      = Cardinality({i \in DOMAIN InOrder(list) : Contents(list)[i] \in predicate})

\* list_functions.h:73: "iteration will stop if Action function returns 0 for an
\* element".  ListFunctionGen.c:90 stops where it returns another value.
ForEachStopsAtZero ==
  \A action \in SUBSET Items :
    ListItr_ForEach(list, ListItr_Begin(list), ListItr_End(list), action)
      = FirstWith(Items \ action)

\* list_functions.h:85: "Sorts a sublist in place using the bubble sort
\* algorithm", upwards or downwards.  ListFunctionGen.c:112 makes one pass.
SortSorts ==
  \A less \in Lesses :
    LET sorted == Contents(ListItr_Sort(list, ListItr_Begin(list), ListItr_End(list), less))
        InOrderOf(before) ==
          \A i, j \in DOMAIN sorted : i < j => <<sorted[j], sorted[i]>> \notin before
    IN InOrderOf(less) \/ InOrderOf({<<p[2], p[1]>> : p \in less})

\* One of the six at the least is kept.  A list for which none is refutes each.
ListAsDocumented ==
  \/ EqualsIsSameNode \/ PrevOfBeginIsBegin \/ FindFirstFinds
  \/ CountIfCountsAll \/ ForEachStopsAtZero \/ SortSorts
=============================================================================
