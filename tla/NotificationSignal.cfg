SPECIFICATION SignalSpec
CONSTANTS
  Notifiers = {io, cb, main}
  Waiters = {interp}
INVARIANT NoLostWakeup
INVARIANT WakeupPending
PROPERTY WorkIsTaken
