SPECIFICATION EdgeSpec
CONSTANTS
  Systems = 1
  Control = 0
  SysBase = 3
  DataBase = 1
  PortSpace = 4
  Foreign = {2}
  Initial = 1
  Counts = {0, 1, 3}
  Main = main
  Controllers = {c1, c2}
  NoThread = nobody
  Paths = {"a", "b"}
  MaxVersion <- OnlyTheFirstChanges
  MaxLost = 1
  SizeOf <- TwoSizes
  PayloadSize = 2
  QueueCapacity = 1
  Bits = 3
  W16 = 1
  W32 = 2
  W64 = 3
  Poly = 48
  Magic <- OneByteMagic
  Version = 1
  HashSize = 2
  FileIds = {0, 300}
  Numbers = {0, 37}
  Digests <- TwoDigests
  FileNames <- ThreeNames
  Block = 4
  LengthSize = 1
  MaxFed = 9
INVARIANTS
  EdgeTypeOK
  AcceptorsSettled
  UploadsAreWhole
  KnownIsUploaded
  FrameIntact
  DigestsAgree
PROPERTIES
  MutexReturned
  ChangeIsSeen
  SignalEnds
CHECK_DEADLOCK FALSE
