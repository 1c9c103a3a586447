SPECIFICATION Spec
CONSTANTS
  Tabs = {t1, t2}
  Users = {u1, u2}
  NoUser = NoUser
  MaxPairs = 3
  MaxCalls = 2
  MaxFaults = 1
SYMMETRY TabSymmetry
INVARIANTS LoggedOutStays SentAsDisplayed RenewedOnce
PROPERTIES GivenUpWhenOver
CHECK_DEADLOCK FALSE
