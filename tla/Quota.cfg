CONSTANTS
  Requests = {r1, r2}
  Tier = "free"
  Base <- MCBase
  Earlier = 1
  PlatformCap = 1
  Purchases = 2
  Refusals = 1
  Redeliveries = 1
  MayForget = TRUE
  MayFail = TRUE
  Bases <- MCBases
  Caps = {0, 1, 7, 20}
  MaxUsage = 21
SYMMETRY Symmetry
SPECIFICATION MCSpec
CHECK_DEADLOCK FALSE
INVARIANTS TypeOK FreeWithinLimit CreditsConserved UnpaidLostARace CounterCoversHistory EmergencyBounds
PROPERTY Tightens
