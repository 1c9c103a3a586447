SPECIFICATION Spec
CONSTANTS
  panel = panel  wa = wa  bare = bare  dnsless = dnsless  broken = broken
  Requests = {r1}
  Workers = {w1}
  Admins = {}
  Resellers = {u1}
  Keys = {k1}
  Variants = {bare}
  NoOrder = NoOrder
  NoProc = NoProc
  Adapter <- OneEach
  UseMock = FALSE
  InitialCredits <- Credits
  Prices = {1}
  Amounts <- Withdraw
  Quantities = {1, 2}
  MaxQuantity = 2
  AsyncThreshold = 1
  GroupReady = TRUE
  Faults = {}
  MaxFaults = 0
  MaxEdits = 0
INVARIANTS FailedOrdersAreRefunded
