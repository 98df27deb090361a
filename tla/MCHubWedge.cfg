SPECIFICATION FairSpec
CONSTANTS
  c1 = c1
  c2 = c2
  c3 = c3
  Good = Good
  Bad = Bad
  NoFile = NoFile
  Unopenable = Unopenable
  Broken = Broken
  Invalid = Invalid
  Unreadable = Unreadable
  NoConn = NoConn
  NoName = NoName
  Sections <- MCSections
  Asterisked <- MCAsterisked
  PrivilegedServices <- MCPrivileged
  Conns <- MCTwo
  Names <- MCNames
  Requests <- CoreRequests
  FileSystems <- MCOpenOnly
  Exec <- AllGood
  SuspendingWrites = TRUE
  MaxRequests = 2
PROPERTIES
  HubKeepsServing
CHECK_DEADLOCK FALSE
