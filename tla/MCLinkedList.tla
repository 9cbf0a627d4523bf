--------------------------- MODULE MCLinkedList ---------------------------
(***************************************************************************)
(* Four nodes, two items.  The list's block holds an item or none when it *)
(* is allocated.  The less functions order the items; one of them puts     *)
(* every item behind NULL, the other none.                                 *)
(***************************************************************************)
EXTENDS LinkedList, TLC

CONSTANTS x, y

MCItems == {x, y}
MCLeftover == {x, NULL}
MCLesses == {{<<y, x>>}, {<<y, x>>, <<x, NULL>>, <<y, NULL>>}}
Symmetry == Permutations(Nodes)
=============================================================================
