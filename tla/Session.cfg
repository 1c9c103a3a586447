SPECIFICATION Spec
CONSTANTS
  Procs = {p1, p2}
  Users = {u1}
  Tokens = {t1, t2, t3}
  NoToken = NoToken
  AccessTtl = 1
  RefreshTtl = 2
  Leeway = 1
  CacheTtl = 1
  MayFail = TRUE
SYMMETRY TokenSymmetry
PROPERTIES SpentIsRefused
