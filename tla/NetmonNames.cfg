\* One slot for two addresses; two programs at a time, stamps out of order.
CONSTANTS
  a = a
  A = A
  b = b
  k1 = k1
  k2 = k2
  c1 = c1
  c2 = c2
  c3 = c3
  u1 = u1
  u2 = u2
  Key = {k1, k2}
  NoAddress = NoAddress
  Name <- MCName
  EmptyName = EmptyName
  LongName = LongName
  Fold <- MCFold
  TTL = {0, 1, 2}
  Grace = 2
  MaxCnames = 2
  DnsMin = 1
  CaptureMax = 2
  Packet <- MCPacket
  Destination = {k1, k2}
  Message <- NameMessage
  Payload <- NameMessage
  Job <- NameJob
  Ctx = {c1, c2}
  Cpu = {u1}
  CpuOf <- OneCpu
  RingSize = 3
  MaxStarts = 3
  MaxClock = 3
  Time = {0, 1, 2, 3}
  MaintainEvery = 2
  Capacity = 1
  MaxNames = 2
  NoDns = FALSE
  CanStop = FALSE
  CanVanish = FALSE

SPECIFICATION NetmonSpec

SYMMETRY MCSymmetry

INVARIANTS
  NetmonTypeOK
  ExactNames
  NoStaleName
  PrintedOnce

PROPERTIES
  ImplementsParser
