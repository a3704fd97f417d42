SPECIFICATION Spec
CONSTANTS
  MemSize = 12
  EEPROM_PAGE_SIZE = 4
INVARIANTS BytesInPlace SavedIfReported
