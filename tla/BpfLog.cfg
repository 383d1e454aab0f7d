\* Two sessions of the agent, a shell that may signal its monitors.
CONSTANTS
  Path = {root, p1}
  Root = root
  Programs = 2
  First = 1
  MaxInode = 3
  Session = {s1, s2}
  NoSession = NoSession
  Privileged = TRUE

SPECIFICATION WatchFair

INVARIANTS
  NothingLeft
  FullyAttached
  CheckIsSound
  Undisturbed
  NoneOutlives
  MixedIsGone

PROPERTIES
  EndTogether
  ShellSignalEnds
  GoneEnds

\* Everything may have ended.
CHECK_DEADLOCK FALSE
