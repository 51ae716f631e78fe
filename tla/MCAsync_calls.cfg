SPECIFICATION FairSpec
CONSTANTS
  Calls = {k1, k2, k3}
  Events = {e1, e2}
  NoCall = NoCall
INVARIANTS
  AnswerFindsCall
PROPERTIES
  CallReturns
CHECK_DEADLOCK FALSE
