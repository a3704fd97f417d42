CONSTANTS
  MAX_STRING_LEN = 128
  MAX_ARGUMENTS = 16
  Value <- MCValue
  Length <- MCLength
  EventId <- MCEventId
  BufferSize = 3
  UWord = 4096
  Format <- MCFormat
  StrayMax = 4
  Once = TRUE
SPECIFICATION FormatsSpec
INVARIANTS HostInStep PacketFits NumbersRight HostTextRight ResultTells
CHECK_DEADLOCK FALSE
