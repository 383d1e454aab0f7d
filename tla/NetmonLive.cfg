\* Every way through the programs, signals, a vanishing cgroup and a full ring.
CONSTANTS
  a = a
  A = A
  b = b
  k1 = k1
  k2 = k2
  c1 = c1
  c2 = c2
  c3 = c3
  u1 = u1
  u2 = u2
  Key = {k1, k2}
  NoAddress = NoAddress
  Name <- MCName
  EmptyName = EmptyName
  LongName = LongName
  Fold <- MCFold
  TTL = {0, 1, 2}
  Grace = 2
  MaxCnames = 2
  DnsMin = 1
  CaptureMax = 2
  Packet <- MCPacket
  Destination = {k1, k2}
  Message <- RingMessage
  Payload <- RingMessage
  Job <- RingJob
  Ctx = {c1, c2, c3}
  Cpu = {u1, u2}
  CpuOf <- TwoCpus
  RingSize = 1
  MaxStarts = 2
  MaxClock = 0
  Time = {0}
  MaintainEvery = 0
  Capacity = 1
  MaxNames = 1
  NoDns = FALSE
  CanStop = TRUE
  CanVanish = TRUE

SPECIFICATION NetmonFair

INVARIANTS
  BusyIsOwned
  CountersTrusted
  CountsAll
  SignalHeard

PROPERTIES
  EventuallyPrinted
  SignalStops

\* netmon may end, and then nothing is left to do.
CHECK_DEADLOCK FALSE
