SPECIFICATION Spec
CONSTANTS
  c1 = c1
  c2 = c2
  c3 = c3
  p1 = p1
  missing = missing
  Calls <- MCCalls
  Ids = {p1, missing}
  Catalog = {p1}
  Quantities = {1, 2}
  Workloads <- MCWorkloads
  OpeningStock = 3
  EditValues = {1}
  MaxEdits = 1
  MaxRetries = 3
INVARIANT
  NeverOversoldAtAll
CHECK_DEADLOCK FALSE
