CONSTANTS
    Cores <- TwoCores
    Addrs <- ThreeAddrs
    PhysAddress <- Identity
    GuestInt3 <- OwnInt3
    BpAddrs <- TwoBpAddrs
    Scopes <- EveryOrTwo
    MaxBreakpointId = 2
    QuietCommands = TRUE
SPECIFICATION Spec
INVARIANTS
    NoStrayInt3
    EnabledArmed
    InterruptFlagKept
    MtfIffNeeded
