SPECIFICATION FairSpec
CONSTANTS
  Messages <- AllMessages
  Chunks = {15, 40, 333}
  MaxSent = 3
INVARIANTS
  InOrder
  PanicsOnLongRoutesOnly
PROPERTIES
  ImplementsDelivery
  AllDelivered
CHECK_DEADLOCK FALSE
