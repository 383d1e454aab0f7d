\* Every sequence of at most five accesses to seven files.
CONSTANTS
  a = a
  b = b
  c = c
  Name = {a, b, c}
  Relation <- SomeFiles
  MaxEvents = 5
  MaxTargets = 3
  DetailTarget = 3

SPECIFICATION GraphFair

INVARIANTS
  DiverseTypeOK
  Diverse
  DrawnInPlace
  Bounded
  DetailMaximal

PROPERTIES
  Drawn

\* A pure function: it ends.
CHECK_DEADLOCK FALSE
