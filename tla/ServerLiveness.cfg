SPECIFICATION Spec
CONSTANTS
  Conns = {c1}
  NoConn = NoConn
  MaxOutput = 2
PROPERTY ExitedIsClosed
PROPERTY OutputIsTaken
PROPERTY StopCompletes
CHECK_DEADLOCK FALSE
