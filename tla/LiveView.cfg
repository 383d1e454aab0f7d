\* The server keeps three events, a page two; everything else may happen.
CONSTANTS
  Session = {s1}
  ServerMax = 3
  ViewMax = 2
  MaxBatch = 2
  MaxPosts = 4
  MaxClears = 1
  MaxDrops = 2
  MaxClicks = 3

SPECIFICATION ViewFair

INVARIANTS
  ViewTypeOK
  FollowsServer
  CachesCurrent
  DrawnOrDue

PROPERTY UpdatesLive

\* Bounded users: a run ends when all has been posted, clicked and drawn.
CHECK_DEADLOCK FALSE
