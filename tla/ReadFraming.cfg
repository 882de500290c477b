SPECIFICATION Spec
CONSTANTS
  Alphabet = {10, 13, 49}
  MaxStream = 5
  Streams <- AllStreams
  Programs <- LinePrograms
INVARIANT FramingIndependent
PROPERTY DecidedIsEvaluated
CHECK_DEADLOCK FALSE
