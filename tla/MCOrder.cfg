SPECIFICATION Spec
CONSTANTS
  r1 = r1
  r2 = r2
  b1 = b1
  b2 = b2
  k1 = k1
  p1 = p1
  i1 = i1
  i2 = i2
  Requests <- MCRequests
  Callbacks <- MCCallbacks
  Carts = {k1}
  Products = {p1}
  Items <- MCItems
  ProductOf <- MCProductOf
  NoItem = NoItem
  MaxTakes = 3
  OpeningStock <- MCOpeningStock
  Baskets <- MCBaskets
  MaxAttempts = 2
  MaxVisits = 1
  MaxUpdates = 1
  IdBeforeValidation = TRUE
INVARIANTS
  TypeOK
  OrdersAreBacked
  NeverChargedTwice
  SalesAreConfirmed
PROPERTIES
  PaidOnlyWhenSettled
  CanceledOnlyWhenUnpaid
  NoWayBackToPaying
  KeepsStockPromise
CHECK_DEADLOCK FALSE
SYMMETRY MCSymmetry
