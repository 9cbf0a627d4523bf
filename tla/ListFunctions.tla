--------------------------- MODULE ListFunctions ---------------------------
(***************************************************************************)
(* The functions on ranges of ListFunction/ListFunctionGen.c, as operators *)
(* on the list record of ListOps.  A predicate or an action is the set of  *)
(* items for which it returns a value other than zero, a less function the *)
(* set of pairs.                                                           *)
(***************************************************************************)
EXTENDS ListOps

\* The loops over a range end at the first place with an item of `stopping` and
\* return it, or return end.
FirstStop(l, begin, end, stopping) ==
  LET range == Visited(l, begin, end)
      at == {i \in DOMAIN range : ListItr_Get(l, range[i]) \in stopping}
  IN IF at = {} THEN end ELSE range[Min(at)]

\* The loop goes on while the predicate holds, and stops where it does not.
ListItr_FindFirst(l, begin, end, predicate) ==
  FirstStop(l, begin, end, Items \ predicate)

\* The return statement is in the loop: one element is looked at.
ListItr_CountIf(l, begin, end, predicate) ==
  IF ~ListItr_Equals(l, begin, end) /\ ListItr_Get(l, begin) \in predicate
  THEN 1 ELSE 0

\* The loop stops at an action that returns a value other than zero.
ListItr_ForEach(l, begin, end, action) ==
  FirstStop(l, begin, end, action)

\* NULL is refused.
ListItr_Set(l, p, x) ==
  IF x = NULL THEN l ELSE [l EXCEPT !.m_data[p] = x]

SwapWithNext(l, p) ==
  LET prevValue == ListItr_Get(l, p)
      currValue == ListItr_Get(l, ListItr_Next(l, p))
  IN ListItr_Set(ListItr_Set(l, p, currValue), ListItr_Next(l, p), prevValue)

\* What the sort does at place p.  The last place of the range is compared
\* with what follows it, the end itself.
SortStep(acc, p, end, less) ==
  IF acc.done \/ ListItr_Equals(acc.l, p, end) THEN [acc EXCEPT !.done = TRUE]
  ELSE IF <<ListItr_Get(acc.l, p), ListItr_Get(acc.l, ListItr_Next(acc.l, p))>> \in less
  THEN [acc EXCEPT !.l = SwapWithNext(acc.l, p)]
  ELSE acc

\* One pass over the range.
ListItr_Sort(l, begin, end, less) ==
  LET chain == Stretch(l, begin, {tail})
      after[i \in 0 .. Len(chain)] ==
        IF i = 0 THEN [l |-> l, done |-> FALSE]
        ELSE SortStep(after[i - 1], chain[i], end, less)
  IN after[Len(chain)].l

\* Defect: the item is read from the block after it was freed.
DefectMoveBefore(l, dest, p) ==
  LET without == Unlink(l, p)
  IN Link(without, without.m_prev[dest], p, dest, without.m_data[p])

\* ListItr_Remove frees the block and ListItr_InsertBefore gets it back.
MoveBefore(l, dest, p) ==
  LET without == Unlink(l, p)
  IN Link(without, without.m_prev[dest], p, dest, l.m_data[p])

\* The range's places are taken out and put before dest one after the other.
ListItr_Splice(l, dest, begin, end) ==
  LET range == Visited(l, begin, end)
      after[i \in 0 .. Len(range)] ==
        IF i = 0 THEN l ELSE MoveBefore(after[i - 1], dest, range[i])
  IN after[Len(range)]
=============================================================================
