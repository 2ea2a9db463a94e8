CONSTANTS
    N = 2
    Commands <- Stepping
    SettleBeforeCommand = TRUE
    BreakWhileStepping = FALSE
SPECIFICATION FairSpec
INVARIANTS
    PauseHasReason
    OthersStayHalted
PROPERTIES
    HaltReaches
