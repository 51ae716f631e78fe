SPECIFICATION FairSpec
CONSTANTS
  a1 = a1
  a2 = a2
  Addrs <- TwoAddrs
  NoAddr = NoAddr
  NoDatagram = NoDatagram
  Kinds <- Traffic
  UserKinds = {"close"}
  MaxReads = 3
  MaxFd = 3
  AcceptCap = 1
INVARIANTS
  TypeOK
  AddrMapSound
  OwnMail
  OnCloseFollowsEnd
  ReachableUnlessDoubleClosed
PROPERTIES
  ImplementsSessions
  LockReleased
  CloserReturns
  SilentPeerExpires
CHECK_DEADLOCK FALSE
