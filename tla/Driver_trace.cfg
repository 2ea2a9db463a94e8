SPECIFICATION FairSpec
CONSTANTS
    Capacity = 2
    CapacityPriority = 2
    PacketChunkSize = 2
    Lengths = {1}
    Texts = {"m"}
    Sources <- TwoRings
    Accumulated = {"root"}
    MaxUnread = 2
    Races = {}
    Settle = TRUE
    FailAt = {"denied"}
    MaxLive = 2
INVARIANTS IrpHasOneOwner NoneStranded ResourcesInPlace
PROPERTIES RingsAreQueues CommandsEnd
