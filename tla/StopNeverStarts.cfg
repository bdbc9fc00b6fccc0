CONSTANTS
  Users = {"ann"}
  Guest = "guest"
  MaxRuns = 3
  MaxChunks = 1
  MaxMounts = 1
  MaxPosts = 1
  MaxTurns = 1
  GuestLimit = 2
SPECIFICATION Spec
CHECK_DEADLOCK FALSE
PROPERTY StopNeverStarts
