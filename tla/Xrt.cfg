SPECIFICATION Spec
CONSTANTS
  SizeBytes = 3
  kWordBytes = 2
  Value = {0, 1}
  Zero = 0
  Undefined = Undefined
  MapModes <- ReadFirst
  FlushAnytime = FALSE
  DeviceStores = TRUE
  SyncMayFail = TRUE
INVARIANTS
  Intact
PROPERTIES
  KeepsPromise
