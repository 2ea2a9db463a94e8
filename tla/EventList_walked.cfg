SPECIFICATION Spec
CONSTANTS
  Cores = {c1, c2}
  Events = {e1, e2}
  Params = {"x"}
  c1 = c1
  Filters <- TwoFilters
  MaxActions = 1
  Broadcast = TRUE
  Refusal = FALSE
  Reenabling = FALSE
  NonRoot = FALSE
  Replacing = FALSE
  Passing = TRUE
INVARIANT WalkedIntact
