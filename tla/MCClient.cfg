SPECIFICATION FairSpec
CONSTANTS
  x1 = x1
  x2 = x2
  x3 = x3
  Callers <- MCThree
  Unserializable <- MCOne
  MaxLosses = 3
INVARIANTS
  TypeOK
  WrittenOnce
  ErrorsAreFinal
  SomebodyIsWoken
PROPERTIES
  LoneWaiterWakes
CHECK_DEADLOCK FALSE
