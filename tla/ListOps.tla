------------------------------ MODULE ListOps ------------------------------
(***************************************************************************)
(* The doubly linked list of GenericDLinkedList/LinkedListGeneric.c and    *)
(* the iterators of GeneticListIter/LinkedListGenericIter.c, as operators  *)
(* on a list record: the three fields of struct Node as functions of the   *)
(* nodes and of the two sentinels that struct List embeds.  An iterator is *)
(* the address of a node or of a sentinel.                                 *)
(***************************************************************************)
EXTENDS Naturals, Sequences, FiniteSetsExt

CONSTANTS Nodes,        \* the heap blocks a node can occupy
          Items,        \* what the nodes' m_data point to
          head, tail,   \* the sentinels
          NULL

\* The heap is finite.
ASSUME NodesAssumption == IsFiniteSet(Nodes)

ASSUME PointerAssumption ==
  /\ head \notin Nodes /\ tail \notin Nodes /\ head # tail
  /\ NULL \notin Nodes \cup Items \cup {head, tail}

Places == Nodes \cup {head, tail}

\* The sentinels' m_data is not assigned: it is what the fresh block of the
\* list happens to hold.
List_Create(atHead, atTail) ==
  [m_next |-> [p \in Places |-> IF p \in {head, tail} THEN tail ELSE NULL],
   m_prev |-> [p \in Places |-> IF p = tail THEN head ELSE NULL],
   m_data |-> [p \in Places |-> CASE p = head -> atHead
                                  [] p = tail -> atTail
                                  [] OTHER -> NULL]]

\* Defect: the node behind the new one keeps its link backwards.
DefectLinkForwardOnly(l, p, n, q, x) ==
  [m_next |-> [l.m_next EXCEPT ![p] = n, ![n] = q],
   m_prev |-> [l.m_prev EXCEPT ![n] = p],
   m_data |-> [l.m_data EXCEPT ![n] = x]]

\* Node n with item x comes between p and q.
Link(l, p, n, q, x) ==
  [m_next |-> [l.m_next EXCEPT ![p] = n, ![n] = q],
   m_prev |-> [l.m_prev EXCEPT ![n] = p, ![q] = n],
   m_data |-> [l.m_data EXCEPT ![n] = x]]

\* Node n is taken out.  The fields of a free block are dead: the model
\* clears them.
Unlink(l, n) ==
  [m_next |-> [l.m_next EXCEPT ![l.m_prev[n]] = l.m_next[n], ![n] = NULL],
   m_prev |-> [l.m_prev EXCEPT ![l.m_next[n]] = l.m_prev[n], ![n] = NULL],
   m_data |-> [l.m_data EXCEPT ![n] = NULL]]

ListItr_Begin(l) == l.m_next[head]
ListItr_End(l)   == l.m_next[tail]
ListItr_Next(l, p) == l.m_next[p]

\* Defect: the comparison of two nodes' neighbours.
DefectEqualsNext(l, a, b) == l.m_next[a] = l.m_next[b]

\* The items are compared and not the places.
ListItr_Equals(l, a, b) == l.m_data[a] = l.m_data[b]

\* The test is for a node that precedes itself, which only the tail's
\* counterpart would be: the head's m_prev is NULL.
ListItr_Prev(l, p) ==
  LET node == l.m_prev[p] IN IF l.m_prev[node] = node THEN p ELSE node

ListItr_Get(l, p) == IF l.m_next[p] = p THEN NULL ELSE l.m_data[p]

\* The place i links behind p.  No loop takes more links than there are nodes
\* and one.
Steps == 0 .. Cardinality(Nodes) + 1

Ahead(l, p) ==
  LET walk[i \in Steps] == IF i = 0 THEN p ELSE ListItr_Next(l, walk[i - 1])
  IN walk

\* How many links a loop from p follows to a place of `stops`, and the places it
\* leaves behind.
StepsTo(l, p, stops) == Min({i \in Steps : Ahead(l, p)[i] \in stops})

Stretch(l, p, stops) == [i \in 1 .. StepsTo(l, p, stops) |-> Ahead(l, p)[i - 1]]

\* The places that a loop from begin to end, with ListItr_Equals for its test,
\* passes through.
Visited(l, begin, end) ==
  Stretch(l, begin, {p \in Places : ListItr_Equals(l, p, end)})

\* List_Size counts the nodes from the head's link to the tail.
List_Size(l) == StepsTo(l, head, {tail}) - 1

InOrder(l) == [i \in 1 .. List_Size(l) |-> Ahead(l, head)[i]]

Contents(l) == [i \in 1 .. List_Size(l) |-> l.m_data[Ahead(l, head)[i]]]
=============================================================================
