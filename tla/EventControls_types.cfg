CONSTANTS
  Cores <- Core2
  AllCores = AllCores
  All = All
  Ports <- OnePort
  Msrs <- TwoMsrs
  Masks <- CrMasks
  Types <- OneOfEachPair
  Params <- ParamsOneMask
  Features = {"transparent"}
  Procs = {}
  MaxEvents = 3
  MaxHooks = 0
SPECIFICATION Spec
INVARIANTS EventsIntercepted NoStaleControls
