CONSTANTS
  e1 = e1
  e2 = e2
  c1 = c1
  dev = dev
  audit = audit
  Streams = {e1, e2, c1}
  CodeToCode = {c1}
  Ephemeral = {e2}
  Guests = {}
  Depths = {dev}
  DepthOf <- OneDepth
  EarlierDepths = {dev}
  Providers = 2
  Slots = 1
  BrokerFailures = 2
SPECIFICATION Spec
CHECK_DEADLOCK FALSE
INVARIANTS SlotsConserved NoLostWakeup ResultsAreWhole EphemeralLeavesNothing OnlyValidCode AnsweredOnce
PROPERTIES WaitersAreAnswered
