SPECIFICATION FairSpec
CONSTANTS
  s1 = s1
  s2 = s2
  v0 = v0
  v1 = v1
  v2 = v2
  v3 = v3
  Initial = v0
  NoOne = NoOne
  Subs <- MCSubs
  Values <- MCValues
  Unserializable <- MCUnserializable
INVARIANTS
  TypeOK
  NeverBackwards
  BroadcastIsCurrent
PROPERTIES
  ImplementsSignal
  SetsFinish
  SubscriptionsFinish
CHECK_DEADLOCK FALSE
