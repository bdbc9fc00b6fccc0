CONSTANTS
  Requests = {r1, r2}
  Tier = "free"
  Base <- MCBaseOne
  Earlier = 0
  PlatformCap = 0
  Purchases = 0
  Refusals = 0
  Redeliveries = 0
  MayForget = FALSE
  MayFail = FALSE
SYMMETRY Symmetry
SPECIFICATION Spec
CHECK_DEADLOCK FALSE
INVARIANTS CountedAtomically
