CONSTANTS
  Bits32 = 13
  Bits64 = 20
  ChunkUnits = 64
  Messages <- MCMessages
  Seconds <- MCFew
SPECIFICATION Spec
INVARIANTS
  WireKeepsMeaning
\* a message that was read is done
CHECK_DEADLOCK FALSE
