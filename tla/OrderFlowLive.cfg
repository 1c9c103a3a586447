SPECIFICATION FairSpecUpToRenaming
CONSTANTS
  panel = panel  wa = wa  bare = bare  dnsless = dnsless  broken = broken
  Requests = {r1, r2}
  Workers = {w1}
  Admins = {a1}
  Resellers = {u1}
  Keys = {k1, k2}
  Variants = {panel, bare}
  NoOrder = NoOrder
  NoProc = NoProc
  Adapter <- OneEach
  UseMock = FALSE
  InitialCredits <- Credits
  Prices = {1}
  Amounts <- Withdraw
  Quantities = {1, 2}
  MaxQuantity = 2
  AsyncThreshold = 1
  GroupReady = TRUE
  Faults = {}
  MaxFaults = 0
  MaxEdits = 0
PROPERTIES EveryOrderSettles EveryRequestAnswered
