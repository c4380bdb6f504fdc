SPECIFICATION Spec
CONSTANTS
  r1 = r1
  r2 = r2
  b1 = b1
  b2 = b2
  t1 = t1
  t2 = t2
  Region = {r1}
  Buffer = {b1, b2}
  Trace = {}
  NoRegion = NoRegion
  NoTrace = NoTrace
  Policies <- HeapPolicies
  Sizes = {1, 2}
  MapModes <- ReadOrWrite
  Strides = {1}
  Retention <- ShortLongForever
  Capacity <- TightMiddle
  PollGuard = 2
  ClockMode = "MONOTONIC"
  kInfinite = 3
  MaxTick = 2
  InPlace = FALSE
  BackendMayFail = TRUE
  WriterMayFail = FALSE
SYMMETRY Symmetry
CHECK_DEADLOCK FALSE
INVARIANTS
  TypeOK
  Accounting
  CapacityRespected
  VectorsMatchOwners
PROPERTIES
  AgesMonotone
  ExpiresOnlyOverdue
