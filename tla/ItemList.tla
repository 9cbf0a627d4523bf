----------------------------- MODULE ItemList -----------------------------
(***************************************************************************)
(* What the list and its iterators promise, with no nodes and no links: a  *)
(* sequence of items and one iterator that is a position in it (0 and      *)
(* Len(items) + 1 are the positions of the sentinels).  Where the code and *)
(* the headers list.h, list_itr.h and list_functions.h disagree, the       *)
(* outcome is left open here, and LinkedList states what the header says:  *)
(* which place a search finds, how many items are counted, the order that  *)
(* a sort makes, and the step back from the first item.                    *)
(***************************************************************************)
EXTENDS Integers, Sequences, SequencesExt

CONSTANTS Items, NULL,
          MaxLen                \* how many nodes the heap holds

NoPosition == -1                \* the iterator refers to a freed node

VARIABLES items, position, reply, count, status

vars == <<items, position, reply, count, status>>

End == Len(items) + 1
IsItem(p) == p \in 1 .. Len(items)
HasRoom == Len(items) < MaxLen

Init ==
  /\ items = << >> /\ position = NoPosition
  /\ reply = NULL /\ count = 0 /\ status = "live"

Counts(n) == count' = n /\ UNCHANGED status
Answer(r) == reply' = r /\ Counts(0)

\* The call may end the process and answer anything, but leaves the items alone.
Open == UNCHANGED items /\ status' \in {"live", "crashed"}

\* An item is added at position p and the iterator moves to `then`.
AddAt(x, p, then) ==
  /\ HasRoom
  /\ items' = InsertAt(items, p, x) /\ position' = then
  /\ Answer("LIST_SUCCESS")

Refused(r) == ~HasRoom /\ Answer(r) /\ UNCHANGED <<items, position>>

\* The items behind position p move on by one.
Behind(p) == IF position >= p THEN position + 1 ELSE position

PushHead(x) == AddAt(x, 1, Behind(1)) \/ Refused("LIST_ALLOCATION_ERROR")

\* list.h does not say what List_PushTail returns when there is no room.
PushTail(x) == AddAt(x, End, Behind(End)) \/ (~HasRoom /\ Open /\ UNCHANGED position)

Without(p) ==
  /\ items' = RemoveAt(items, p)
  /\ position' = IF position = p THEN NoPosition
                 ELSE IF position > p THEN position - 1 ELSE position
  /\ Answer(items[p])

Pop(p) ==
  \/ items # << >> /\ Without(p)
  \/ items = << >> /\ Answer("LIST_IS_EMPTY") /\ UNCHANGED <<items, position>>

MoveTo(p) == position' = p /\ Answer(NULL) /\ UNCHANGED items

Next(p) == IF p = End THEN End ELSE p + 1

Move == \/ MoveTo(1) \/ MoveTo(End)
        \/ position > 0 /\ MoveTo(Next(position))
        \/ position > 1 /\ MoveTo(position - 1)
        \/ position = 1 /\ \E p \in 0 .. 1 : MoveTo(p)

\* No header knows a place before the first item.
Astray == position = 0 /\ Open /\ position' \in {0, 1}

InsertBefore(x) == position > 0 /\ (AddAt(x, position, position) \/ Refused(NULL))

RemoveItem ==
  \/ IsItem(position) /\ Without(position)
  \/ position = End /\ Answer(NULL) /\ UNCHANGED <<items, position>>

Get ==
  /\ position > 0
  /\ Answer(IF IsItem(position) THEN items[position] ELSE NULL)
  /\ UNCHANGED <<items, position>>

\* Setting the item of the end leaves the items alone.
Set(x) ==
  /\ position > 0
  /\ items' = IF IsItem(position) THEN [items EXCEPT ![position] = x] ELSE items
  /\ UNCHANGED position /\ Counts(0)
  /\ IF IsItem(position) THEN reply' = items[position]
     ELSE reply' \in Items \cup {NULL}

\* A search or an iteration ends at an item or at the end.
Loop == \E p \in 1 .. End : MoveTo(p)

Unmoved == UNCHANGED <<items, position, reply>>

Size == Counts(Len(items)) /\ Unmoved

Count == \E n \in 0 .. Len(items) : Counts(n) /\ Unmoved

\* The items come in another order, no iterator of the caller's is used.
Rearrange ==
  /\ UNCHANGED <<reply, count, status>>
  /\ position' \in 0 .. End \cup {NoPosition}
  /\ LET places == DOMAIN items
         before == items
     IN \E from \in Bijection(places, places) :
          items' = [i \in places |-> before[from[i]]]

Destroy ==
  /\ status' = "destroyed" /\ items' = << >> /\ position' = NoPosition
  /\ UNCHANGED <<reply, count>>

Step ==
  \/ \E x \in Items : PushHead(x) \/ PushTail(x) \/ InsertBefore(x) \/ Set(x)
  \/ Pop(1) \/ Pop(Len(items))
  \/ Move \/ Astray \/ RemoveItem \/ Get \/ Loop \/ Size \/ Count \/ Rearrange
  \/ Destroy

Spec == Init /\ [][status = "live" /\ Step]_vars
=============================================================================
