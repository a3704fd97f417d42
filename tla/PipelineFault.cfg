SPECIFICATION Spec
CONSTANTS
  Sensor = {b0, d0}
  Bme = {b0}
  MaxReading = 1
  SendInterval = 1
  NULL = NULL
INVARIANT SendTaskSurvives
