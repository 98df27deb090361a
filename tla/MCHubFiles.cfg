SPECIFICATION Spec
CONSTANTS
  c1 = c1
  c2 = c2
  c3 = c3
  Good = Good
  Bad = Bad
  NoFile = NoFile
  Unopenable = Unopenable
  Broken = Broken
  Invalid = Invalid
  Unreadable = Unreadable
  NoConn = NoConn
  NoName = NoName
  Sections <- MCSections
  Asterisked <- MCAsterisked
  PrivilegedServices <- MCPrivileged
  Conns <- MCTwo
  Names <- MCNamesAndMonitor
  Requests <- OddRequests
  FileSystems <- MCFileSystems
  Exec <- AllGood
  SuspendingWrites = FALSE
  MaxRequests = 2
INVARIANTS
  PairsMatch
PROPERTIES
  WaitIsHonoured
SYMMETRY SymmetricTwo
CHECK_DEADLOCK FALSE
