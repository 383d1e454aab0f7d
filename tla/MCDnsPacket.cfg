\* The sizes of netmon.h; a packet's way through the filter ends.
CONSTANTS
  DnsMin = 12
  CaptureMax = 1232
  Packet <- MCPacket

SPECIFICATION FilterSpec

INVARIANTS
  WholeMessagesParsed
  NoSilentLoss

CHECK_DEADLOCK FALSE
