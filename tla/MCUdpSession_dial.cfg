SPECIFICATION FairSession
CONSTANTS
  MaxGen = 2
  NoAddr = NoAddr
  NoDatagram = NoDatagram
  UserKinds = {}
  MaxReads = 3
  MaxFd = 2
  AcceptCap = 1
  UserClosed = {1}
  Strays = {"open", "other"}
INVARIANTS
  ConnectedWasOpened
  AlwaysReachable
  WrongOnlyAfterExpiry
  LeaksOnlyUnclosedFailures
PROPERTIES
  HandshakeEnds
  StaleTickNeedsFailure
CHECK_DEADLOCK FALSE
