SPECIFICATION FairSpec
CONSTANTS
  Conns = {c1}
  NoConn = NoConn
  Emitters = {e1, e2}
  Kinds = {"ping", "bin", "empty", "bad", "long"}
  MaxMail = 2
  MaxEmits = 1
PROPERTIES
  CloseFrees
  SilentPeerExpires
  EmitAllReturns
CHECK_DEADLOCK FALSE
