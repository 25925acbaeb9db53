SPECIFICATION Spec
CONSTANTS
  Parts = {"locations"}
  c1 = c1
  c2 = c2
  s1 = s1
  u1 = u1
  u2 = u2
  p1 = p1
  p2 = p2
  p3 = p3
  p4 = p4
  d1 = d1
  d2 = d2
  i1 = i1
  i2 = i2
  i3 = i3
  None = None
  Calls <- MCCalls
  Sessions <- MCSessions
  Amounts = {200}
  Workloads <- MCWorkloads
  Settings <- MCSettings
  Default <- MCDefault
  SettingsLife = 2
  PriceLife = 1
  PriceGap = 1
  DayLength = 2
  DayLimit = 1
  PurchaseLife = 1
  MaxClock = 3
  MaxChanges = 1
  MaxPurchases = 2
  Products <- MCProducts
  NoCut = NoCut
  Writers <- MCCalls
  Prices = {10, 400}
  Cuts = {0, 10, 399}
  Ratings = {3}
  Limit = 2
  Starts <- MCStarts
  Docs = {d1, d2}
  Slugs = {"a", "b"}
  Images = {i1, i2, i3}
  NoImage = NoImage
  Null = Null
  Editors <- MCCalls
  ContentStarts <- MCContentStarts
  MaxAddresses = 3
  Users <- MCUsers
  Nobody = Nobody
  AddressBodies <- MCAddressBodies
  Customers <- MCCustomers
  Doings <- MCCalls
  AddressTasks <- MCAddressTasks
  Clients = {"x"}
  Kinds = {"sensitive", "public"}
  RouteLimit <- MCRouteLimit
  RouteWindow <- MCRouteWindow
  LastTick = 6
  States = {1, 2}
  CityIds = {1, 2, 3}
  Atlas <- MCAtlas
  Syncs <- MCCalls
  Jobs <- MCJobs
  MaxObjects = 4
  Scripts = {"seed", "import", "invest", "coins", "triple"}
  MaxRuns = 2
  MaxRequests = 1
INVARIANT SharedCitiesStay
SYMMETRY MCSymmetry
CHECK_DEADLOCK FALSE
