SPECIFICATION FairSpec
CONSTANTS
  Workers = 2
  Silent = TRUE
  PipeTaken = FALSE
INVARIANT
  OnlyStopEnds
PROPERTIES
  UpdatesGoOn
  ClientServed
  StopEnds
CHECK_DEADLOCK FALSE
