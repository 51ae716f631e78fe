SPECIFICATION FairSpec
CONSTANTS
  MaxGen = 2
  Intervals = {TRUE, FALSE}
  Timeout = TRUE
  Reconnect = TRUE
INVARIANTS
  TypeOK
  OldConnsClosed
PROPERTIES
  StopIsOwn
  FailureNoticed
  StopCompletesUnlessPongSends
CHECK_DEADLOCK FALSE
