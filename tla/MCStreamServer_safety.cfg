SPECIFICATION Spec
CONSTANTS
  Conns = {c1, c2}
  NoConn = NoConn
  Emitters = {e1}
  Kinds = {"bin", "long"}
  MaxMail = 1
  MaxEmits = 1
SYMMETRY Swap
INVARIANTS
  RegistrySound
  OneWriter
PROPERTY
  ImplementsSessions
CHECK_DEADLOCK FALSE
