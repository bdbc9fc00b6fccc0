SPECIFICATION FairSpec
CONSTANTS
  activated = activated
  charged = charged
  failed = failed
  ended = ended
  kA = kA
  kF = kF
  kE = kE
  alice = alice
  s1 = s1
  NoKey = NoKey
  NoUser = NoUser
  NoSub = NoSub
  Unset = Unset
  Deliveries = {d1, d2}
  Events <- MCFewEvents
  Keys <- MCKeys
  KeyOf <- MCFewKeyOf
  Kind <- MCFewKind
  UserOf <- MCFewUserOf
  SubOf <- MCFewSubOf
  Users <- MCUsers
  SubIds <- MCSubIds
  MayFail = FALSE
  MayCrash = FALSE
  UseCelery = TRUE
  MaxRetries = 1
PROPERTY ReceivedIsApplied
CHECK_DEADLOCK FALSE
