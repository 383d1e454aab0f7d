\* The monitors run under sudo and the shell is an ordinary user's.
CONSTANTS
  Path = {root, p1}
  Root = root
  Programs = 2
  First = 1
  MaxInode = 2
  Session = {s1}
  NoSession = NoSession
  Privileged = FALSE

SPECIFICATION WatchFair

PROPERTIES
  EndTogether

\* Everything may have ended.
CHECK_DEADLOCK FALSE
