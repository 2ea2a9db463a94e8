CONSTANTS
  MaxTemps = 6
  Mapped = {8, 10, 12}
  Tag = 5
  AddressOf <- Addresses
  Cores = {1, 2}
  Locals = {"x", "y", "z"}
  Scripts <- AllScripts
  Later <- Following
  MaxScripts = 3
  Fuel = 60
SPECIFICATION FairSpec
INVARIANTS AcceptsWellFormed RunsAsWritten
PROPERTIES WritesOnlyItsView ScriptEnds
CHECK_DEADLOCK FALSE
