SPECIFICATION Spec
CONSTANTS
  Conns = {c1, c2}
  NoConn = NoConn
  MaxOutput = 2
SYMMETRY ConnSymmetry
INVARIANT OutputInOrder
INVARIANT NoDanglingConnection
CHECK_DEADLOCK FALSE
