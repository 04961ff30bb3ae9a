SPECIFICATION Spec
CONSTANTS
  w1 = w1
  w2 = w2
  p1 = p1
  p2 = p2
  o1 = o1
  o2 = o2
  Worker <- MCWorker
  Po <- MCPo
  Orders <- MCOrders
  Ordered <- MCOrdered
  InitialStock = 0
  Threshold = 1
  Elsewhere = {p2}
  MaxCopies <- MCMaxCopies
SYMMETRY Symmetry
INVARIANTS
  WithinOrdered
  ReservedOnlyWhileOpen
  EveryCopyAccounted
  LinksAreKept
CHECK_DEADLOCK FALSE
