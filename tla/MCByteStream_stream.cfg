SPECIFICATION Spec
CONSTANTS
  None = None  Uninit = "?"
  Byte = {"a", "b"}
  Inputs <- Words
  Chunk = 2
  MaxSize = 4
INVARIANTS NoFault CursorsInside ReadsWhatWasWritten
PROPERTIES VectorCalls
CHECK_DEADLOCK FALSE
