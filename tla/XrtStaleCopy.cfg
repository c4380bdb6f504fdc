SPECIFICATION Spec
CONSTANTS
  SizeBytes = 3
  kWordBytes = 2
  Value = {0, 1}
  Zero = 0
  Undefined = Undefined
  MapModes <- AnyMode
  FlushAnytime = TRUE
  DeviceStores = FALSE
  SyncMayFail = FALSE
INVARIANTS
  Intact
