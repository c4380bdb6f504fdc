CONSTANTS
  b1 = b1
  b2 = b2
  s1 = s1
  s2 = s2
  Buffer = {b1, b2}
  Stream = {s1, s2}
  Line <- NineLines
  CapacityLines <- ThreeEach
  RetentionCycles <- SixFourteen
  ReadCycles <- Reads
  WriteCycles <- Writes
  Channels <- TwoInMiddle
  MigrationSetup = 1
  kInfinite = 1000
  LineBytes = 2
  Workloads <- AllWorkloads
  Guard = 3
  MaxAttempts = 3
SPECIFICATION Spec
INVARIANTS
  ReplayTypeOK UsageExact SingleChannelOrdered LiveBytesExact AllocationsWhole
  SafeIsComplete SynchronizedNeverEarly OracleNeverLate LifetimesSuffice AnalysesAgree
  PercentilesCover MaintainedReadsHold MaintenanceConverges
CHECK_DEADLOCK FALSE
