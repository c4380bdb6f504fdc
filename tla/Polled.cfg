SPECIFICATION PolledSpec
CONSTANTS
  r1 = r1
  b1 = b1
  b2 = b2
  Region = {r1}
  Buffer = {b1, b2}
  Trace = {}
  NoRegion = NoRegion
  NoTrace = NoTrace
  Policies <- PolledPolicies
  Sizes = {1}
  MapModes <- NoModes
  Strides = {1}
  Retention <- TwoThreeForever
  Capacity <- OneInMiddle
  PollGuard = 1
  ClockMode = "MANUAL"
  kInfinite = 9
  MaxTick = 4
  InPlace = TRUE
  BackendMayFail = FALSE
  WriterMayFail = FALSE
CHECK_DEADLOCK FALSE
INVARIANTS
  MaintainedNeverExpires
PROPERTIES
  OverdueReclaimed
