SPECIFICATION Spec
CONSTANTS
  Routes = {r1, r2}
  Hooks = {a, b}
  NoHook = NoHook
  Paths <- Spellings
  Lower <- InLower
  Methods = {"GET", "POST"}
  NoRoute = NoRoute
  MaxArrays = 4
  MaxHooks = 3
  MaxOwn = 1
  MaxRemoves = 1
SYMMETRY Swap
INVARIANTS
  HooksKept
  RoutesFound
CHECK_DEADLOCK FALSE
