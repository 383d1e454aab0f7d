\* Two slots for three addresses, two places for three hosts, clock 0..1.
CONSTANTS
  a = a
  A = A
  b = b
  c = c
  Key = {k1, k2, k3}
  NoAddress = NoAddress
  Name <- MCName
  EmptyName = EmptyName
  LongName = LongName
  Fold <- MCFold
  Capacity = 2
  MaxNames = 2
  Grace = 2
  TTL = {0, 1}
  Time = {0, 1}

SPECIFICATION CacheSpec

SYMMETRY MCSymmetry

INVARIANT CacheInv

PROPERTY ImplementsTable
