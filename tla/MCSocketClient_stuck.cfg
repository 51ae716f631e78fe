SPECIFICATION FairSpec
CONSTANTS
  MaxGen = 1
  Intervals = {TRUE}
  Timeout = TRUE
  Reconnect = TRUE
PROPERTY
  StopCompletes
CHECK_DEADLOCK FALSE
