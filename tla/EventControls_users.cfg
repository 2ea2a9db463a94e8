CONSTANTS
  Cores <- Core1
  AllCores = AllCores
  All = All
  Ports <- OnePort
  Msrs <- TwoMsrs
  Masks <- CrMasks
  Types = {"exception", "extint", "dr"}
  Params <- ParamsOneMask
  Features = {"kernel", "user", "hook", "process", "thread", "step", "clearall"}
  Procs = {p}
  MaxEvents = 2
  MaxHooks = 1
SPECIFICATION Spec
INVARIANTS UnsharedEventsIntercepted DebuggerExceptionsKept IntegrityKept
