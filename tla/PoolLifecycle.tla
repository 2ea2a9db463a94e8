--------------------------- MODULE PoolLifecycle ---------------------------
(* What the pool manager promises its clients in vmx-root: a buffer is new,  *)
(* then held by one requester, then given back, then gone, and no buffer     *)
(* goes any other way or comes back.                                         *)
EXTENDS Integers

VARIABLES
    used,      \* every buffer that was ever allocated
    free,      \* buffers that can be handed out
    held,      \* buffers that have been handed out
    returned   \* buffers given back and not yet released

lifecycle == <<used, free, held, returned>>

Init == used \subseteq Nat /\ free = used /\ held = {} /\ returned = {}

\* A buffer that never existed before can be handed out.
Provide(b) ==
    /\ b \notin used
    /\ used' = used \cup {b} /\ free' = free \cup {b}
    /\ UNCHANGED <<held, returned>>

Grant(b) ==
    /\ b \in free
    /\ free' = free \ {b} /\ held' = held \cup {b}
    /\ UNCHANGED <<used, returned>>

Return(B) ==
    /\ held' = held \ B /\ returned' = returned \cup B
    /\ UNCHANGED <<used, free>>

Release ==
    /\ returned' \subseteq returned
    /\ UNCHANGED <<used, free, held>>

Next ==
    \/ Release
    \/ \E b \in used' : Provide(b)
    \/ \E b \in free : Grant(b)
    \/ \E B \in SUBSET held : Return(B)

Spec == Init /\ [][Next]_lifecycle
=============================================================================
