SPECIFICATION Spec
CONSTANTS
  Kinds = {"DHT11", "DHT22", "PMS5003"}
  DhtBytes = 5
  PmsBytes = 2
  Frames = 3
INVARIANTS NoOverrun DhtWholeAnswer TimeoutNeedsLoss IntactUnlessLate
