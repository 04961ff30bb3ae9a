SPECIFICATION Spec
CONSTANTS
  a = a
  b = b
  c1 = c1
  o1 = o1
  o2 = o2
  Order = {o1}
  Book = {a}
  Price <- PriceOne
  Customer = {c1}
  NoCustomer = NoCustomer
  Baskets <- ThreeCopies
  Methods = {"cash", "store_credit", "loyalty_points"}
  Deposits = {2, 3}
  Amounts = {1, 2, 3}
  MaxPayments = 3
  InitialStock = {3}
  InitialCredit = 2
  InitialPoints = 2
  PointsRate = 1
  NegativeAllowed = TRUE
  DraftRequests = {"fulfill"}
INVARIANTS
  MoneyAddsUp
  PaymentsAgree
  DebtAgrees
PROPERTIES
  ClosedDebtsStayClosed
CHECK_DEADLOCK FALSE
