CONSTANTS
  e1 = e1
  e2 = e2
  c1 = c1
  dev = dev
  audit = audit
  Streams = {e1, e2}
  CodeToCode = {}
  Ephemeral = {}
  Guests = {}
  Depths = {dev, audit}
  DepthOf <- TwoDepths
  EarlierDepths = {}
  Providers = 1
  Slots = 1
  BrokerFailures = 0
SPECIFICATION Spec
CHECK_DEADLOCK FALSE
INVARIANTS AnswersAtItsDepth
