\* Room for both addresses and two of the three hosts; one CNAME kept per message.
CONSTANTS
  a = a
  A = A
  b = b
  c = c
  k1 = k1
  k2 = k2
  Key = {k1, k2}
  NoAddress = NoAddress
  Name <- MCName
  EmptyName = EmptyName
  LongName = LongName
  Fold <- MCFold
  Capacity = 2
  MaxNames = 2
  Grace = 3
  TTL = {0, 1, 2}
  Time = {0, 1}
  MaxCnames = 1
  Message <- MCMessage
  MaxMessages = 2

SPECIFICATION MCSpec

INVARIANT RemembersAnswers
