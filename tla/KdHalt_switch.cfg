CONSTANTS
    N = 3
    Commands <- Switching
    SettleBeforeCommand = TRUE
    BreakWhileStepping = FALSE
SPECIFICATION Spec
INVARIANTS
    OneOperatingCore
    ActionHasNmi
    HaltedHasOwner
    MtfHasReason
