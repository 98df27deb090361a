SPECIFICATION FairSpec
CONSTANTS
  s1 = s1
  s2 = s2
  e1 = e1
  e2 = e2
  e3 = e3
  e4 = e4
  NoEmit = NoEmit
  Subs <- MCSubs
  Emits <- MCEmits
  Unserializable <- MCUnserializable
INVARIANTS
  TypeOK
  NoGaps
  CaughtUp
  NobodyForgotten
PROPERTIES
  EmitsFinish
  SubscriptionsFinish
CHECK_DEADLOCK FALSE
