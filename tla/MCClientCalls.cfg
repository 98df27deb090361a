SPECIFICATION FairSpec
CONSTANTS
  x1 = x1
  x2 = x2
  x3 = x3
  Callers <- MCTwo
  Unserializable <- MCOne
  MaxLosses = 1
PROPERTIES
  CallsReturn
CHECK_DEADLOCK FALSE
