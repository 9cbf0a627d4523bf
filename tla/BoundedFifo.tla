---------------------------- MODULE BoundedFifo ----------------------------
(***************************************************************************)
(* What a bounded first-in first-out queue promises: the queue holds a     *)
(* sequence of at most Capacity items, an insertion appends or is refused  *)
(* because the sequence is full, a removal hands out the oldest item.      *)
(***************************************************************************)
EXTENDS Naturals, Sequences

CONSTANTS Capacity, Items, NoItem

VARIABLES contents,   \* the items inside, oldest first
          reply       \* what the last call returned

vars == <<contents, reply>>

Init == contents = << >> /\ reply = [err |-> "QERR_OK", item |-> NoItem]

Put(x) ==
  /\ Len(contents) < Capacity
  /\ contents' = Append(contents, x)
  /\ reply' = [err |-> "QERR_OK", item |-> NoItem]

Refuse ==
  /\ Len(contents) = Capacity
  /\ reply' = [err |-> "QERR_OVERFLOW", item |-> NoItem]
  /\ UNCHANGED contents

Take ==
  /\ contents # << >>
  /\ reply' = [err |-> "QERR_OK", item |-> Head(contents)]
  /\ contents' = Tail(contents)

Next == (\E x \in Items : Put(x)) \/ Refuse \/ Take

Spec == Init /\ [][Next]_vars
=============================================================================
