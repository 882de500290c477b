SPECIFICATION Spec
CONSTANTS
  Messages <- VersionMessages
  Payloads <- VersionPayloads
  MaxMessages = 1
INVARIANT DeliveredAsSent
CHECK_DEADLOCK FALSE
