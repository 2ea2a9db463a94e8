SPECIFICATION FairSpec
CONSTANTS
    Counts = {1, 2}
    Cores <- ThreeCores
    Typed <- Everything
    MaxTags = 2
    MaxBreaks = 1
    Crossing = {}
INVARIANTS
    NoStaleAnswer
    PromptAgrees
PROPERTIES
    PacketsReachTheirReader
    CommandsReturn
