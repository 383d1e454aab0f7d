\* A paused page loses its connection.
CONSTANTS
  Session = {s1}
  ServerMax = 2
  ViewMax = 2
  MaxBatch = 2
  MaxPosts = 3
  MaxClears = 0
  MaxDrops = 1
  MaxClicks = 2

SPECIFICATION ViewSpec

INVARIANT PausedFrozen

CHECK_DEADLOCK FALSE
