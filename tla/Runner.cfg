SPECIFICATION Spec
CONSTANTS
  a = a
  Interps = {a}
  Program <- AloneProgram
  MaxOctets <- AloneOctets
INVARIANT TypeOK
INVARIANT StreamIntact
INVARIANT OneCallback
PROPERTY StopsWhenDone
PROPERTY CallbackAnswered
PROPERTY DeliveredIsProcessed
PROPERTY EofEndsInterpreter
PROPERTY LoopsStop
CHECK_DEADLOCK FALSE
