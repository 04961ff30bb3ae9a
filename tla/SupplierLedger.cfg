SPECIFICATION LedgerSpec
CONSTANTS
  w1 = w1
  w2 = w2
  p1 = p1
  p2 = p2
  r1 = r1
  r2 = r2
  Clerk = {w1, w2}
  Payment = {p1, p2}
  Return = {r1, r2}
  MaxOrdered = 2
  OtherStock = 1
  ApprovalAbove = 1
  MaxCredited = 2
  MaxRefunded = 2
SYMMETRY Symmetry
INVARIANTS
  ReturnsAddUp
  PaymentsWithinOrder
  RefundsWithinDueUnlessUndone
CHECK_DEADLOCK FALSE
