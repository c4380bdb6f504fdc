SPECIFICATION Spec
CONSTANTS
  t1 = t1
  t2 = t2
  a1 = a1
  a2 = a2
  Nil = Nil
  Thread = {t1, t2}
  Address = {a1, a2}
  Handle = {1, 2, 3}
  Retention = 1
  MaxTick = 1
SYMMETRY Symmetry
INVARIANTS
  AllocatorsTypeOK
  CallsKeepBuffers
  ReadsWhole
  PointersHold
  NothingOrphaned
