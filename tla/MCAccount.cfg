SPECIFICATION Spec
CONSTANTS
  c1 = c1
  c2 = c2
  n1 = n1
  n2 = n2
  m1 = m1
  m2 = m2
  None = None
  Calls <- MCCalls
  Users <- MCUsers
  Ids <- MCIds
  SendLimit = 2
  VerifyLimit = 2
  ConfirmLimit = 1
  CodeLife = 1
  OtpWindow = 2
  CodeWindow = 3
  VerifyLife = 2
  AccessLife = 1
  RefreshLife = 2
  MaxClock = 5
  MaxCalls = 5
  MaxBirths = 1
INVARIANTS
  SendsWithinLimit
  WrongEntriesWithinLimit
  NationalCodesUnique
PROPERTIES
  SessionsStemFromCodes
  RegistrationStays
SYMMETRY MCSymmetry
CHECK_DEADLOCK FALSE
