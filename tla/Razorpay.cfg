SPECIFICATION Spec
CONSTANTS
  activated = activated
  charged = charged
  failed = failed
  ended = ended
  kA = kA
  kF = kF
  kE = kE
  alice = alice
  s1 = s1
  NoKey = NoKey
  NoUser = NoUser
  NoSub = NoSub
  Unset = Unset
  Deliveries = {d1, d2, d3}
  Events <- MCEvents
  Keys <- MCKeys
  KeyOf <- MCKeyOf
  Kind <- MCKind
  UserOf <- MCUserOf
  SubOf <- MCSubOf
  Users <- MCUsers
  SubIds <- MCSubIds
  MayFail = TRUE
  MayCrash = TRUE
  UseCelery = TRUE
  MaxRetries = 1
INVARIANT TypeOK
INVARIANT AppliedAtMostOnce
INVARIANT QueuedNeverApplied
PROPERTY ClaimsAreFinal
PROPERTY AppliesOnce
SYMMETRY Symmetry
CHECK_DEADLOCK FALSE
