SPECIFICATION Spec
CONSTANTS
  Messages <- Heartbeats
  Chunks = {1, 12}
  MaxSent = 3
INVARIANT
  NoProtoError
CHECK_DEADLOCK FALSE
