SPECIFICATION Spec
CONSTANTS
    IntentionList <- AllIntentions
    Preallocated = 1
    QueueDepth = 2
    Threads = {w, u}
    Worker = w
    Overtaking = FALSE
    Cores = {c1, c2}
    Pages = {p1, p2}
    LargePage <- LargePageEach
    HookKinds = {"cc", "detour", "monitor"}
    MaxRequests = 2
    MaxUnhooks = 1
    TwoPageAccess = FALSE
SYMMETRY Symmetry
INVARIANTS HookInForce UnhookAllRestores
PROPERTY BuffersLiveOnce
CHECK_DEADLOCK FALSE
