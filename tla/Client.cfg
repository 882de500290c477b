SPECIFICATION Spec
CONSTANTS
  MaxOutput = 3
INVARIANT OutputInOrder
INVARIANT AbortsOnlyWhenBroken
INVARIANT NoWorkLeft
PROPERTY ClientFinishes
CHECK_DEADLOCK FALSE
