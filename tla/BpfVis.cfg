\* Four lines through a pipe that holds two.
CONSTANTS
  MaxLines = 4
  PipeSize = 2

SPECIFICATION VisFair

INVARIANTS
  PostsInOrder
  NothingOutlives

PROPERTIES
  WaitsOnlyForLog
  LogEndsAll

\* Everything may have ended.
CHECK_DEADLOCK FALSE
