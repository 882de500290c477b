CONSTANTS
  States <- FoldedStates
  Payloads <- SmtpPayloads
  FinalStates <- SmtpFinal
  RunnerAgents = {"Server"}
  MaxMessages = 3
SPECIFICATION Spec
INVARIANTS ReceivedAsSent NothingHeldBack StatesAgree NoFalseAlarm
PROPERTY BothClose
CHECK_DEADLOCK FALSE
