SPECIFICATION Spec
CONSTANTS
  NULL = NULL
  head = head
  tail = tail
  x = x
  y = y
  Nodes = {n1, n2, n3, n4}
  Items <- MCItems
  Leftover <- MCLeftover
  Lesses <- MCLesses
INVARIANT
  ListAsDocumented
CHECK_DEADLOCK FALSE
