SPECIFICATION Spec
CONSTANTS
  Threads = {accept, pusher}
  Fds = {3, 4}
  Contexts = {c1, c2}
  MaxTx = 4
INVARIANT SnapshotsIdentified
PROPERTY ImplementsRegistry
PROPERTY RunningNotReplaced
PROPERTY RemovedStaysRemoved
PROPERTY CallsReturn
CHECK_DEADLOCK FALSE
