SPECIFICATION Spec
CONSTANTS
  Messages <- HttpMessages
  Payloads <- HttpPayloads
  MaxMessages = 3
INVARIANTS FieldsDelivered NothingLeftOver
PROPERTY BothFinish
CHECK_DEADLOCK FALSE
