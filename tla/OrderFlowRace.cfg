SPECIFICATION Spec
CONSTANTS
  panel = panel  wa = wa  bare = bare  dnsless = dnsless  broken = broken
  Requests = {r1, r2}
  Workers = {w1}
  Admins = {a1}
  Resellers = {u1}
  Keys = {k1, k2}
  Variants = {panel, wa}
  NoOrder = NoOrder
  NoProc = NoProc
  Adapter <- OneEach
  UseMock = FALSE
  InitialCredits <- Credits
  Prices <- TwoPrices
  Amounts <- Withdraw
  Quantities = {1, 2}
  MaxQuantity = 2
  AsyncThreshold = 1
  GroupReady = TRUE
  Faults = {}
  MaxFaults = 0
  MaxEdits = 1
SYMMETRY Symmetry
INVARIANTS TypeOK LedgerChained NeverOverdrawn ChargedOnce NetPaidMatchesQuantity SingleFulfiller NoExcessLines DeliveredAsSold RepliesAreTruthful
PROPERTIES KeepsContract
