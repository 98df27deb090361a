SPECIFICATION FairSpec
CONSTANTS
  c1 = c1
  c2 = c2
  c3 = c3
  Good = Good
  Bad = Bad
  NoFile = NoFile
  Unopenable = Unopenable
  Broken = Broken
  Invalid = Invalid
  Unreadable = Unreadable
  NoConn = NoConn
  NoName = NoName
  Sections <- MCSections
  Asterisked <- MCAsterisked
  PrivilegedServices <- MCPrivileged
  Conns <- MCTwo
  Names <- MCNames
  Requests <- CoreRequests
  FileSystems <- MCOpenOnly
  Exec <- AllGood
  SuspendingWrites = FALSE
  MaxRequests = 2
INVARIANTS
  RegisterReplyFirst
PROPERTIES
  HubKeepsServing
  WaitersResolved
  DepartedLeave
  HandlersFinish
CHECK_DEADLOCK FALSE
