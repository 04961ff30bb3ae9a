SPECIFICATION Spec
CONSTANTS
  a = a
  b = b
  c1 = c1
  o1 = o1
  o2 = o2
  Order = {o1, o2}
  Book = {a, b}
  Price <- PriceOne
  Customer = {c1}
  NoCustomer = NoCustomer
  Baskets <- ManyBaskets
  Methods = {"cash"}
  Deposits = {}
  Amounts = {}
  MaxPayments = 1
  InitialStock = {0, 1, 3}
  InitialCredit = 0
  InitialPoints = 0
  PointsRate = 1
  NegativeAllowed = FALSE
  DraftRequests = {}
INVARIANTS
  CopiesAgree
PROPERTIES
  CopiesConserved
CHECK_DEADLOCK FALSE
