SPECIFICATION Spec
CONSTANTS
  c1 = c1
  c2 = c2
  p1 = p1
  p2 = p2
  small = small
  large = large
  Calls <- MCCalls
  Products = {p1, p2}
  Jewellery = {p1}
  Sizes <- MCSizes
  NoSize = NoSize
  Stock <- MCStock
  Life = 1
  MaxTime = 2
  MaxCarts = 2
  MaxItems = 3
  MaxCalls = 3
INVARIANTS
  TypeOK
  QuantityWithinStock
  OneCartEach
  OneLineEach
  NoOrphans
  ExpiryToldOnce
PROPERTY
  LiveItemsKept
SYMMETRY MCSymmetry
CHECK_DEADLOCK FALSE
