SPECIFICATION Spec
CONSTANTS
  c1 = c1
  c2 = c2
  c3 = c3
  Good = Good
  Bad = Bad
  NoFile = NoFile
  Unopenable = Unopenable
  Broken = Broken
  Invalid = Invalid
  Unreadable = Unreadable
  NoConn = NoConn
  NoName = NoName
  Sections <- MCSections
  Asterisked <- MCAsterisked
  PrivilegedServices <- MCPrivileged
  Conns <- MCThree
  Names <- MCNames
  Requests <- CoreRequests
  FileSystems <- MCOpenOnly
  Exec <- AllGood
  SuspendingWrites = TRUE
  MaxRequests = 2
INVARIANTS
  TypeOK
  RegistryIsLive
  NoLostWaiter
  TargetStillRegistered
  RequestConserved
PROPERTIES
  ImplementsRendezvous
CONSTRAINT Orderly
SYMMETRY Symmetric
CHECK_DEADLOCK FALSE
