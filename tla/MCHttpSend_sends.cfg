SPECIFICATION FairSpec
CONSTANTS
  Requests = {r1, r2}
  Infos = {i1, i2}
  Nobody = Nobody
  Default = Default
  MaxSends = 2
  MaxSets = 1
INVARIANTS
  OwnSettings
  OneResponse
PROPERTY
  SendReturns
CHECK_DEADLOCK FALSE
