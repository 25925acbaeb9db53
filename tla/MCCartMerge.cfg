SPECIFICATION Spec
CONSTANTS
  c1 = c1
  c2 = c2
  p1 = p1
  p2 = p2
  small = small
  large = large
  Calls = {c1}
  Products = {p1, p2}
  Jewellery = {p1}
  Sizes <- MCSizes
  NoSize = NoSize
  Stock <- MCStock
  Life = 1
  MaxTime = 1
  MaxCarts = 2
  MaxItems = 2
  MaxCalls = 2
PROPERTY
  MergedItemsArrive
CHECK_DEADLOCK FALSE
