SPECIFICATION ExchangeSpec
CONSTANTS
  MaxBuilds = 2
  MaxHeaders = 2
  UserTypes = {"form", "other"}
  Middles = 1
  Befores = 1
  Afters = 1
  MaxCalls = 3
INVARIANTS
  AutoGetSafe
  FailureEndsRequest
  ParamsArrive
CHECK_DEADLOCK FALSE
