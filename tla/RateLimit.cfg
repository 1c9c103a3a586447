SPECIFICATION FairSpec
CONSTANTS
  Requests = {r1, r2, r3}
  Clients = {c1}
  Scopes = {"anon", "user", "purchase"}
  LimitOf <- Limits
  WindowOf <- Windows
  Kinds = {"exempt", "anon", "user", "purchase"}
  Losses = {"incr", "reply", "expire", "ttl", "drop"}
  MaxLosses = 1
INVARIANTS AtMostTwoBursts RetryAfterIsHonest
PROPERTIES BucketReopens
