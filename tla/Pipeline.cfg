SPECIFICATION FairSpec
CONSTANTS
  Sensor = {b0, d0}
  Bme = {b0}
  MaxReading = 1
  SendInterval = 1
  NULL = NULL
INVARIANTS QueueSetConsistent AgesDownstream
PROPERTIES DisplayNeverGoesBack ReportedIsShown SnapshotsKeepComing
