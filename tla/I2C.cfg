SPECIFICATION FairSpec
CONSTANTS
  BME280 = {b0}
  SGP30 = {g0}
  DHT20 = {d0}
  NULL = NULL
INVARIANTS BusExclusive SentIsSound StaleNeedsError DHT20InvalidNeedsError
PROPERTY CyclesComplete
