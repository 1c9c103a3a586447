SPECIFICATION FairSpec
CONSTANTS
  Procs = {p1, p2}
  Pages <- Endpoints
  Guarded <- SingleFlight
  CacheTtl = 3
  LockTtl = 2
  MaxPolls = 2
  MaxDelay = 2
  MayFail = TRUE
INVARIANTS SentPageIsRecent OneWinner
PROPERTIES EveryCallerAnswered
