SPECIFICATION Spec
CONSTANTS
  NULL = NULL
  head = head
  tail = tail
  x = x
  y = y
  Nodes = {n1, n2, n3, n4}
  Items <- MCItems
  Leftover <- MCLeftover
  Lesses <- MCLesses
SYMMETRY Symmetry
INVARIANTS
  TypeOK
  LinksMirror
  LoopsReachTheEnd
PROPERTY
  ImplementsItemList
CHECK_DEADLOCK FALSE
