SPECIFICATION Spec
CONSTANTS
  r1 = r1
  r2 = r2
  b1 = b1
  b2 = b2
  t1 = t1
  t2 = t2
  Region = {r1, r2}
  Buffer = {b1, b2}
  Trace = {t1}
  NoRegion = NoRegion
  NoTrace = NoTrace
  Policies <- InvalidatePolicies
  Sizes = {1}
  MapModes <- WriteOnly
  Strides = {1}
  Retention <- ShortLongForever
  Capacity <- OneInMiddle
  PollGuard = 0
  ClockMode = "MANUAL"
  kInfinite = 7
  MaxTick = 1
  InPlace = TRUE
  BackendMayFail = FALSE
  WriterMayFail = TRUE
SYMMETRY Symmetry
CHECK_DEADLOCK FALSE
INVARIANTS
  TraceReplays
  TraceBalanced
PROPERTIES
  ReclassifyAllOrNothing
  RepairedOnlyByUnmap
