SPECIFICATION FairSpec
CONSTANTS
  Cores = {1}
  Threads = {"t1", "t2", "u"}
  ProcessOf <- Owners
  Images = {"q"}
  NCr3 = 1
  MaxCr3 = 1
  HolderSize = 1
  PoolSize = 2
  MaxActions = 2
  MaxTokens = 3
  Steps = {"in"}
  Crossing = {}
INVARIANTS PausedMeansHeld DebuggeeUnharmed
PROPERTIES PauseHolds CommandsEnd InterceptionCatches
