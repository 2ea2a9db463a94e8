------------------------------ MODULE LogQueue ------------------------------
(* What message tracing promises the user-mode reader: each pool (vmx-root   *)
(* and vmx non-root) is two first-in first-out queues, and a message with    *)
(* priority is read before any other message of its pool.                    *)
EXTENDS Sequences

CONSTANTS Pools, Messages

VARIABLES
    queue,   \* per pool and priority: the messages not yet read
    loaded   \* the driver is loaded

Rings == Pools \X BOOLEAN

Init == queue = [r \in Rings |-> <<>>] /\ loaded = FALSE

\* The queues before and after the step, with all but r's as they were.
Only(r, before, after) == \A q \in Rings \ {r} : after[q] = before[q]

Write(r, before, after) ==
    /\ Only(r, before, after)
    /\ \E m \in Messages : after[r] = Append(before[r], m)

\* Reading a pool takes the oldest message of its priority queue if there is one.
Read(r, before, after) ==
    /\ Only(r, before, after)
    /\ r[2] \/ before[<<r[1], TRUE>>] = <<>>
    /\ before[r] # <<>> /\ after[r] = Tail(before[r])

\* Flushing forgets messages that have no priority, and only those.
Flush(r, before, after) == Only(r, before, after) /\ ~r[2] /\ after[r] = <<>>

\* The driver is unloaded, with whatever was not read.
Discard(after) == loaded /\ ~loaded' /\ \A r \in Rings : after[r] = <<>>

Next ==
    LET before == queue
        after == queue'
    IN \/ Discard(after)
       \/ /\ loaded /\ loaded'
          /\ \E r \in Rings : Write(r, before, after) \/ Read(r, before, after) \/ Flush(r, before, after)

Spec == Init /\ [][Next]_queue
=============================================================================
