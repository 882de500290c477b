SPECIFICATION Spec
CONSTANTS
  Conns = {c1, c2}
  MaxOutput = 2
INVARIANT OutputIntact
INVARIANT DataOutlivesHandle
INVARIANT ClosedOnce
PROPERTY LastMessageCloses
PROPERTY ServerStops
CHECK_DEADLOCK FALSE
