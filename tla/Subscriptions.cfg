SPECIFICATION SubscriptionsSpec
CONSTANTS
  bought = bought
  paid = paid
  deleted = deleted
  kB = kB
  kP = kP
  kD = kD
  alice = alice
  s1 = s1
  p1 = p1
  p2 = p2
  c1 = c1
  c2 = c2
  NoKey = NoKey
  NoUser = NoUser
  NoSub = NoSub
  Unset = Unset
  Deliveries = {d1, d2, d3}
  Events <- MCEvents
  Keys <- MCKeys
  KeyOf <- MCKeyOf
  Kind <- MCKind
  UserOf <- MCUserOf
  SubOf <- MCSubOf
  Users <- MCUsers
  SubIds <- MCSubIds
  MayFail = TRUE
  MayCrash = TRUE
  Processes <- MCProcesses
  Clients <- MCClients
  Deployments <- MCDeployments
  Ttl = 1
  L1Ttl = 2
  RedisMayFail = TRUE
  MaxChanges = 1
  DatabaseMayFail = TRUE
INVARIANT ClaimedAppliedOnce
INVARIANT AnswersCatchUp
PROPERTY AppliesOnce
PROPERTY VerifiedIsApplied
CHECK_DEADLOCK FALSE
