CONSTANTS
  Cap = 4
  Byte <- MCByte
  Zero = 0
  Chunks <- MCChunks
  MaxTake = 5
SPECIFICATION Spec
INVARIANTS
  TypeOK
  CursorsAgree
PROPERTY QueueSpec
