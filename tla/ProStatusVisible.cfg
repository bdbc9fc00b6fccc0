CONSTANTS
  p1 = p1
  c1 = c1
  c2 = c2
  Processes <- MCProcesses
  Clients <- MCClients
  ProcessOf <- MCProcessOf
  Values <- MCValues
  Ttl = 1
  L1Ttl = 1
  MayFail = FALSE
  MaxChanges = 1
  DatabaseMayFail = FALSE
SPECIFICATION Spec
INVARIANTS UpgradeIsVisible
