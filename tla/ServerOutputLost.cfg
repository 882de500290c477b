SPECIFICATION Spec
CONSTANTS
  Conns = {c1}
  NoConn = NoConn
  MaxOutput = 2
INVARIANT OutputDrained
CHECK_DEADLOCK FALSE
