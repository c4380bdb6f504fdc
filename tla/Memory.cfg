SPECIFICATION Spec
CONSTANTS
  Line = {0, 1, 2}
  Value = {0, 1}
  CapacityLines <- OneTwoOne
  RetentionCycles <- TwoThreeForever
  ReadCycles <- OneCycle
  WriteCycles <- SlowerWhenDurable
  kInfiniteRetention = 9
  Strides = {1}
  MaxCycle = 4
INVARIANTS
  DirectoryExact
PROPERTIES
  KeepsPromise
