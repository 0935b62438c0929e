SPECIFICATION Spec
CONSTANT MaxDisturbances = 2
VIEW Told
CONSTRAINT Begins
INVARIANTS
  SealedWheelIsOfTheTree
  GateIsAsRead
  ChildReadTheCopies
  IntentWasTrue
  ReceiptIsTrue
CHECK_DEADLOCK FALSE
