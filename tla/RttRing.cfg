SPECIFICATION FairSpec
CONSTANTS
  Size = 6
  Terminal = {0, 1}
  MaxWrite = 2
  Word = 16
INVARIANTS RingSound NonBlockingNeverWaits ShownWhereWritten
PROPERTIES WritesReturn ImplementsFifo
