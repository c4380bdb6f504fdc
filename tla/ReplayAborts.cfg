CONSTANTS
  b1 = b1
  b2 = b2
  s1 = s1
  s2 = s2
  Buffer = {b1, b2}
  Stream = {s1, s2}
  Line <- NineLines
  CapacityLines <- ThreeEach
  RetentionCycles <- SixFourteen
  ReadCycles <- Reads
  WriteCycles <- Writes
  Channels <- OneEach
  MigrationSetup = 1
  kInfinite = 1000
  LineBytes = 2
  Workloads <- OnlyHintedDown
  Guard = 3
  MaxAttempts = 12
SPECIFICATION Spec
INVARIANT UnsafeIsReported
CHECK_DEADLOCK FALSE
