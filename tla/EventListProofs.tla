--------------------------- MODULE EventListProofs ---------------------------
(***************************************************************************)
(* Proofs about EventList, for any cores, events, filters and numbers of   *)
(* actions.                                                                *)
(*                                                                         *)
(* The links are reasoned about through Chain, the least set that has a    *)
(* node and is closed under the links: it is compared with the sets that a *)
(* change of the links leaves closed, so no induction over the list is     *)
(* needed.  That the list has no cycle is the existence of a rank that     *)
(* every link lowers.                                                      *)
(***************************************************************************)
EXTENDS EventList, TLAPS

\* A set of nodes that the links do not leave.
Closed(links, S) == \A k \in S \cap Events : links[k] \in S

\* Every link of an event to an event lowers the rank: the list has no cycle.
Ranked(links, rank) ==
    \A k \in Events : links[k] \in Events => rank[links[k]] < rank[k]
Acyclic(links) == \E rank \in [Events -> Int] : Ranked(links, rank)

\* RemoveEntryList(e), as a function of the links.
Without(links, e) == [n \in Nodes |-> IF n # e /\ links[n] = e THEN links[e] ELSE links[n]]

-----------------------------------------------------------------------------
(* The links                                                               *)

\* A chain has its start, is closed, and lies in every closed set with its start.
LEMMA ChainClosed ==
  ASSUME NEW links \in [Nodes -> Nodes], NEW n \in Nodes
  PROVE  /\ Chain(links, n) \subseteq Nodes
         /\ n \in Chain(links, n)
         /\ Closed(links, Chain(links, n))
  BY DEF Chain, Closed

\* A chain lies in every closed set that has its start.
LEMMA ChainLeast ==
  ASSUME NEW links, NEW n, NEW S \in SUBSET Nodes, n \in S, Closed(links, S)
  PROVE  Chain(links, n) \subseteq S
  BY DEF Chain, Closed

\* The chain of the head is the head, and that of an event is the event followed
\* by the chain of its link.
LEMMA ChainHead ==
  ASSUME NEW links \in [Nodes -> Nodes]
  PROVE  Chain(links, Head0) = {Head0}
<1>1. Closed(links, {Head0})
  BY EventListConstants DEF Closed, Head0
<1>2. Chain(links, Head0) \subseteq {Head0}
  BY <1>1, ChainLeast, Zenon DEF Nodes
<1> QED
  BY <1>2, ChainClosed, Zenon DEF Nodes

\* The chain of an event is the event and the chain of its link.
LEMMA ChainStep ==
  ASSUME NEW links \in [Nodes -> Nodes], NEW e \in Events
  PROVE  Chain(links, e) = {e} \cup Chain(links, links[e])
<1>1. links[e] \in Nodes /\ e \in Nodes
  BY DEF Nodes
<1>2. Closed(links, {e} \cup Chain(links, links[e]))
  BY <1>1, ChainClosed, Zenon DEF Closed
<1>3. {e} \cup Chain(links, links[e]) \subseteq Nodes
  BY <1>1, ChainClosed, Zenon
<1>4. Chain(links, e) \subseteq {e} \cup Chain(links, links[e])
  BY <1>2, <1>3, ChainLeast
<1>5. e \in Chain(links, e) /\ Closed(links, Chain(links, e)) /\ Chain(links, e) \subseteq Nodes
  BY <1>1, ChainClosed, Zenon
<1>6. links[e] \in Chain(links, e)
  BY <1>5, Zenon DEF Closed
<1>7. Chain(links, links[e]) \subseteq Chain(links, e)
  BY <1>5, <1>6, ChainLeast, Zenon
<1> QED
  BY <1>4, <1>5, <1>7, Zenon

\* Without cycles an event is not in the chain of its link.
LEMMA ChainDescends ==
  ASSUME NEW links \in [Nodes -> Nodes], Acyclic(links), NEW e \in Events
  PROVE  e \notin Chain(links, links[e])
<1>1. PICK rank \in [Events -> Int] : Ranked(links, rank)
  BY Zenon DEF Acyclic
<1> DEFINE S == {n \in Nodes : n \in Events => rank[n] < rank[e]}
<1>2. links[e] \in S
  BY <1>1, Zenon DEF Ranked, Nodes
<1>3. Closed(links, S)
  <2> SUFFICES ASSUME NEW k \in S \cap Events PROVE links[k] \in S
    BY DEF Closed
  <2>1. links[k] \in Nodes
    BY DEF Nodes
  <2>2. ASSUME links[k] \in Events PROVE rank[links[k]] < rank[e]
    BY <1>1, <2>2 DEF Ranked
  <2> QED
    BY <2>1, <2>2, Zenon
<1>4. e \notin S
  OBVIOUS
<1>5. S \in SUBSET Nodes
  BY Zenon
<1> HIDE DEF S
<1> QED
  BY <1>2, <1>3, <1>4, <1>5, ChainLeast, Zenon

\* Changing the link of an event that no event links to changes no other chain.
LEMMA ChainLocal ==
  ASSUME NEW f \in [Nodes -> Nodes], NEW g \in [Nodes -> Nodes], NEW e \in Events,
         \A k \in Events \ {e} : f[k] = g[k] /\ f[k] # e,
         NEW m \in Nodes \ {e}
  PROVE  Chain(f, m) = Chain(g, m) /\ e \notin Chain(f, m)
<1>1. /\ Chain(f, m) \subseteq Nodes /\ m \in Chain(f, m) /\ Closed(f, Chain(f, m))
      /\ Chain(g, m) \subseteq Nodes /\ m \in Chain(g, m) /\ Closed(g, Chain(g, m))
  BY ChainClosed, Zenon
<1>2. Closed(f, Chain(f, m) \ {e}) /\ Closed(g, Chain(g, m) \ {e})
  BY <1>1, Zenon DEF Closed
<1>3. Chain(f, m) \subseteq Chain(f, m) \ {e} /\ Chain(g, m) \subseteq Chain(g, m) \ {e}
  BY <1>1, <1>2, ChainLeast, Zenon
<1>4. Closed(g, Chain(f, m)) /\ Closed(f, Chain(g, m))
  BY <1>1, <1>3, Zenon DEF Closed
<1>5. Chain(g, m) \subseteq Chain(f, m) /\ Chain(f, m) \subseteq Chain(g, m)
  BY <1>1, <1>4, ChainLeast, Zenon
<1> QED
  BY <1>3, <1>5, Zenon

\* Unlinking an event takes it out of every chain, and nothing else.
LEMMA ChainWithout ==
  ASSUME NEW f \in [Nodes -> Nodes], Acyclic(f), NEW e \in Events, NEW n \in Nodes,
         NEW m, m = IF n = e THEN f[e] ELSE n
  PROVE  Chain(Without(f, e), m) = Chain(f, n) \ {e}
<1> DEFINE g == Without(f, e)
<1>1. /\ g \in [Nodes -> Nodes]
      /\ \A k \in Nodes : g[k] = IF k # e /\ f[k] = e THEN f[e] ELSE f[k]
  BY Zenon DEF Without, Nodes
<1>2. f[e] \in Nodes /\ f[e] # e /\ m \in Nodes /\ m # e
  <2>1. f[e] \in Nodes /\ f[e] \in Chain(f, f[e])
    BY ChainClosed, Zenon DEF Nodes
  <2> QED
    BY <2>1, ChainDescends, Zenon
<1> HIDE DEF g
<1>3. /\ Chain(f, n) \subseteq Nodes /\ n \in Chain(f, n) /\ Closed(f, Chain(f, n))
      /\ Chain(g, m) \subseteq Nodes /\ m \in Chain(g, m) /\ Closed(g, Chain(g, m))
  BY <1>1, <1>2, ChainClosed, Zenon
<1>4. Chain(g, m) \subseteq Chain(f, n) \ {e}
  <2>1. m \in Chain(f, n) \ {e}
    BY <1>2, <1>3, Zenon DEF Closed
  <2>2. Closed(g, Chain(f, n) \ {e})
    <3> SUFFICES ASSUME NEW k \in (Chain(f, n) \ {e}) \cap Events
                 PROVE  g[k] \in Chain(f, n) \ {e}
      BY Zenon DEF Closed
    <3>1. f[k] \in Chain(f, n)
      BY <1>3, Zenon DEF Closed
    <3>2. f[k] = e => f[e] \in Chain(f, n)
      BY <3>1, <1>3, Zenon DEF Closed
    <3> QED
      BY <1>1, <1>2, <3>1, <3>2, Zenon DEF Nodes
  <2> QED
    BY <1>3, <2>1, <2>2, ChainLeast, Zenon
<1>5. Chain(f, n) \ {e} \subseteq Chain(g, m)
  <2>1. CASE f[e] \in Chain(g, m)
    <3>1. Closed(f, Chain(g, m) \cup {e})
      BY <1>1, <1>3, <2>1, Zenon DEF Closed, Nodes
    <3>2. n \in Chain(g, m) \cup {e}
      BY <1>3, Zenon
    <3>3. Chain(g, m) \cup {e} \in SUBSET Nodes
      BY <1>3, Zenon DEF Nodes
    <3> QED
      BY <3>1, <3>2, <3>3, ChainLeast, Zenon
  <2>2. CASE f[e] \notin Chain(g, m)
    <3>1. Closed(f, Chain(g, m))
      <4> SUFFICES ASSUME NEW k \in Chain(g, m) \cap Events PROVE f[k] \in Chain(g, m)
        BY Zenon DEF Closed
      <4>1. g[k] \in Chain(g, m)
        BY <1>3, Zenon DEF Closed
      <4> QED
        BY <1>1, <2>2, <4>1, Zenon DEF Nodes
    <3>2. n \in Chain(g, m)
      BY <1>3, <2>2, Zenon
    <3> QED
      BY <1>3, <3>1, <3>2, ChainLeast, Zenon
  <2> QED
    BY <2>1, <2>2, Zenon
<1> QED
  BY <1>4, <1>5, Zenon DEF g

\* The three changes of the links keep the list free of cycles.
LEMMA AcyclicWithout ==
  ASSUME NEW f \in [Nodes -> Nodes], Acyclic(f), NEW e \in Events
  PROVE  Acyclic(Without(f, e))
<1>1. PICK rank \in [Events -> Int] : Ranked(f, rank)
  BY Zenon DEF Acyclic
<1>2. ASSUME NEW k \in Events, Without(f, e)[k] \in Events
      PROVE  rank[Without(f, e)[k]] < rank[k]
  <2>1. Without(f, e)[k] = IF k # e /\ f[k] = e THEN f[e] ELSE f[k]
    BY Zenon DEF Without, Nodes
  <2>2. CASE k # e /\ f[k] = e
    <3>1. rank[e] < rank[k]
      BY <1>1, <2>2, Zenon DEF Ranked
    <3>2. f[e] \in Events /\ rank[f[e]] < rank[e]
      BY <1>1, <1>2, <2>1, <2>2, Zenon DEF Ranked
    <3> QED
      BY <2>1, <2>2, <3>1, <3>2
  <2>3. CASE ~(k # e /\ f[k] = e)
    BY <1>1, <1>2, <2>1, <2>3, Zenon DEF Ranked
  <2> QED
    BY <2>2, <2>3, Zenon
<1> QED
  BY <1>2, Zenon DEF Acyclic, Ranked

\* Changing the link of an event that nothing links to makes no cycle.
LEMMA AcyclicLocal ==
  ASSUME NEW f \in [Nodes -> Nodes], NEW g \in [Nodes -> Nodes], NEW e \in Events,
         Acyclic(f), \A k \in Events \ {e} : f[k] = g[k] /\ f[k] # e, g[e] # e
  PROVE  Acyclic(g)
<1>1. PICK rank \in [Events -> Int] : Ranked(f, rank)
  BY Zenon DEF Acyclic
<1>2. PICK top \in Int : g[e] \in Events => rank[g[e]] < top
  <2>1. CASE g[e] \in Events
    <3>1. rank[g[e]] + 1 \in Int /\ rank[g[e]] < rank[g[e]] + 1
      BY <2>1
    <3> QED
      BY <3>1, Zenon
  <2> QED
    BY <2>1
<1> DEFINE over == [rank EXCEPT ![e] = top]
<1>3. over \in [Events -> Int] /\ over[e] = top /\ \A k \in Events \ {e} : over[k] = rank[k]
  BY Zenon
<1> HIDE DEF over
<1>4. Ranked(g, over)
  <2> SUFFICES ASSUME NEW k \in Events, g[k] \in Events PROVE over[g[k]] < over[k]
    BY Zenon DEF Ranked
  <2>1. CASE k = e
    BY <1>2, <1>3, <2>1, Zenon
  <2>2. CASE k # e
    <3>1. g[k] = f[k] /\ f[k] # e
      BY <2>2, Zenon
    <3>2. rank[f[k]] < rank[k]
      BY <1>1, <3>1, Zenon DEF Ranked
    <3> QED
      BY <1>3, <2>2, <3>1, <3>2, Zenon
  <2> QED
    BY <2>1, <2>2, Zenon
<1> QED
  BY <1>3, <1>4, Zenon DEF Acyclic

-----------------------------------------------------------------------------
(* The list and the clearing of events                                     *)

\* The events that are being cleared: one, or all that are left.
Target == IF ioctl.all THEN InList \cup {ioctl.at} ELSE {ioctl.at}

\* Every link leads to an event that is not freed, or to the head; there is no
\* cycle; and an event that was unlinked still links into the list.
Shape ==
    /\ \A n \in Nodes : next[n] = Head0 \/ mem[next[n]] = "live"
    /\ \A e \in Events : mem[e] = "freed" => next[e] = Head0
    /\ Acyclic(next)
    /\ ioctl.op \in {"terminate", "unlink"} => ioctl.at \in InList
    /\ ioctl.op = "free" =>
          /\ ioctl.at \in Events
          /\ \A n \in Nodes : next[n] # ioctl.at
          /\ next[ioctl.at] \in InList \cup {Head0}

\* The events that are being cleared are disabled, so a core that has served the
\* broadcast of a termination performs none of them again.
Cleared ==
    /\ ioctl.op # "idle" => \A e \in Target : event[e].enabled = FALSE
    /\ ioctl.op = "terminate" =>
          \A c \in Cores : walk[c].todo > 0 /\ walk[c].at \in Target => c \in ioctl.left
    /\ ioctl.op \in {"unlink", "free"} =>
          \A c \in Cores : walk[c].todo > 0 => walk[c].at \notin Target
    /\ \A c \in Cores :
          walk[c].todo > 0 => walk[c].at \in Events /\ mem[walk[c].at] = "live"

\* The events of the list are not freed, and their links stay in the list.
LEMMA ListFacts ==
  ASSUME TypeOK, Shape
  PROVE  /\ InList \subseteq Events
         /\ \A e \in InList : mem[e] = "live" /\ next[e] \in InList \cup {Head0}
         /\ next[Head0] \in InList \cup {Head0}
<1>1. next \in [Nodes -> Nodes] /\ next[Head0] \in Nodes
  BY DEF TypeOK, Nodes
<1>2. /\ Chain(next, next[Head0]) \subseteq Nodes
      /\ next[Head0] \in Chain(next, next[Head0])
      /\ Closed(next, Chain(next, next[Head0]))
  BY <1>1, ChainClosed
<1>3. InList \subseteq Events
  BY <1>2, Zenon DEF InList, Nodes
<1>4. \A e \in InList : next[e] \in InList \cup {Head0}
  BY <1>2, <1>3, Zenon DEF InList, Closed
<1>5. \A e \in InList : mem[e] = "live"
  <2> DEFINE S == {n \in Nodes : n \in Events => mem[n] = "live"}
  <2>1. Closed(next, S) /\ next[Head0] \in S /\ S \in SUBSET Nodes
    <3>1. \A n \in Nodes : next[n] = Head0 \/ mem[next[n]] = "live"
      BY Zenon DEF Shape
    <3> QED
      BY <1>1, <3>1, EventListConstants, Zenon DEF Closed, Nodes
  <2> HIDE DEF S
  <2>2. Chain(next, next[Head0]) \subseteq S
    BY <2>1, ChainLeast, Zenon
  <2> QED
    BY <2>2, <1>3, Zenon DEF InList, S
<1> QED
  BY <1>2, <1>3, <1>4, <1>5, Zenon DEF InList

\* What the three changes of the links do to the list.
LEMMA Registered ==
  ASSUME TypeOK, Shape, NEW e \in Events, mem[e] = "freed", DebuggerRegisterEvent(e)
  PROVE  /\ next' \in [Nodes -> Nodes]
         /\ InList' = InList \cup {e} /\ e \notin InList
         /\ \A m \in Nodes \ {e} : Chain(next', m) = Chain(next, m)
         /\ \A n \in Nodes : next[n] # e
<1>1. next \in [Nodes -> Nodes] /\ Head0 \in Nodes /\ e \in Nodes /\ e # Head0
  BY EventListConstants, Zenon DEF TypeOK, Nodes
<1>2. /\ next' \in [Nodes -> Nodes] /\ next'[e] = next[Head0] /\ next'[Head0] = e
      /\ \A n \in Nodes \ {e, Head0} : next'[n] = next[n]
  BY <1>1, Zenon DEF DebuggerRegisterEvent
<1>3. \A n \in Nodes : next[n] # e
  BY <1>1, Zenon DEF Shape
<1>4. \A k \in Events \ {e} : next[k] = next'[k] /\ next[k] # e
  BY <1>2, <1>3, EventListConstants, Zenon DEF Nodes
<1>5. \A m \in Nodes \ {e} : Chain(next', m) = Chain(next, m) /\ e \notin Chain(next, m)
  BY <1>1, <1>2, <1>4, ChainLocal
<1>6. Chain(next', e) = {e} \cup Chain(next', next[Head0])
  BY <1>2, ChainStep
<1>7. next[Head0] \in Nodes \ {e}
  BY <1>1, <1>3, Zenon
<1>8. InList' = Chain(next', e) \ {Head0}
  BY <1>2, Zenon DEF InList
<1>9. InList = Chain(next, next[Head0]) \ {Head0}
  BY Zenon DEF InList
<1> QED
  BY <1>1, <1>2, <1>3, <1>5, <1>6, <1>7, <1>8, <1>9, Zenon

\* Removing an entry takes just that event out of the list.
LEMMA Unlinked ==
  ASSUME TypeOK, Shape, NEW e \in Events, RemoveEntryList(e)
  PROVE  /\ next' = Without(next, e) /\ next' \in [Nodes -> Nodes]
         /\ InList' = InList \ {e}
         /\ \A n \in Nodes : next'[n] # e
<1>1. next \in [Nodes -> Nodes] /\ Head0 \in Nodes /\ e \in Nodes /\ e # Head0
  BY EventListConstants, Zenon DEF TypeOK, Nodes
<1>2. next' = Without(next, e)
  BY Zenon DEF RemoveEntryList, Without
<1>3. /\ next' \in [Nodes -> Nodes]
      /\ \A n \in Nodes : next'[n] = IF n # e /\ next[n] = e THEN next[e] ELSE next[n]
  BY <1>1, <1>2 DEF Without
<1>4. next[e] # e
  <2>1. next[e] \in Chain(next, next[e])
    BY <1>1, ChainClosed
  <2> QED
    BY <1>1, <2>1, ChainDescends, Zenon DEF Shape
<1>5. Chain(next', next'[Head0]) = Chain(next, next[Head0]) \ {e}
  <2>1. next'[Head0] = IF next[Head0] = e THEN next[e] ELSE next[Head0]
    BY <1>1, <1>3, Zenon
  <2>2. next[Head0] \in Nodes
    BY <1>1
  <2> QED
    BY <1>1, <1>2, <2>1, <2>2, ChainWithout DEF Shape
<1> QED
  BY <1>2, <1>3, <1>4, <1>5, Zenon DEF InList

\* Freeing an event that nothing links to leaves every other chain as it is.
LEMMA Freed ==
  ASSUME TypeOK, NEW e \in Events, \A n \in Nodes : next[n] # e,
         NEW links \in [Nodes -> Nodes], \A n \in Nodes \ {e} : links[n] = next[n]
  PROVE  /\ Chain(links, links[Head0]) = Chain(next, next[Head0])
         /\ e \notin InList
         /\ \A m \in Nodes \ {e} : Chain(links, m) = Chain(next, m)
<1>1. next \in [Nodes -> Nodes] /\ Head0 \in Nodes /\ e \in Nodes /\ e # Head0
  BY EventListConstants, Zenon DEF TypeOK, Nodes
<1>2. /\ links[Head0] = next[Head0]
      /\ \A k \in Events \ {e} : next[k] = links[k] /\ next[k] # e
  BY <1>1, Zenon DEF Nodes
<1>3. \A m \in Nodes \ {e} : Chain(next, m) = Chain(links, m) /\ e \notin Chain(next, m)
  BY <1>1, <1>2, ChainLocal
<1>4. next[Head0] \in Nodes \ {e}
  BY <1>1, Zenon
<1> QED
  BY <1>2, <1>3, <1>4, Zenon DEF InList

-----------------------------------------------------------------------------
\* The records the steps build are of their types.
LEMMA Records ==
  /\ Out \in WalkRecord /\ NoIoctl \in IoctlRecord /\ NoEvent \in EventRecord
  /\ \A w \in WalkRecord :
        /\ w.at \in Nodes \cup {"out"} /\ w.todo \in 0..MaxActions /\ w.done \in Seq(Events)
        /\ \A n \in Events, t \in 0..MaxActions :
              /\ [w EXCEPT !.at = n] \in WalkRecord
              /\ [w EXCEPT !.todo = t] \in WalkRecord
              /\ [w EXCEPT !.at = n, !.todo = t, !.done = Append(@, n)] \in WalkRecord
        /\ \A m \in BOOLEAN : Context(w, m) \in WalkRecord
  /\ \A v \in EventRecord :
        /\ v.acts \in 0..MaxActions /\ v.enabled \in BOOLEAN /\ v.cond \in BOOLEAN
        /\ \A b \in BOOLEAN, t \in 0..MaxActions :
              /\ [v EXCEPT !.enabled = b] \in EventRecord
              /\ [v EXCEPT !.acts = t, !.enabled = b] \in EventRecord
  /\ \A f \in Filters : DebuggerCreateEvent(f) \in EventRecord
<1>1. Out \in WalkRecord /\ NoIoctl \in IoctlRecord /\ NoEvent \in EventRecord
  BY EventListConstants DEF Out, WalkRecord, NoIoctl, IoctlRecord, NoEvent, EventRecord, Nodes
<1>2. ASSUME NEW w \in WalkRecord
      PROVE  /\ w.at \in Nodes \cup {"out"} /\ w.todo \in 0..MaxActions /\ w.done \in Seq(Events)
             /\ \A n \in Events, t \in 0..MaxActions :
                   /\ [w EXCEPT !.at = n] \in WalkRecord
                   /\ [w EXCEPT !.todo = t] \in WalkRecord
                   /\ [w EXCEPT !.at = n, !.todo = t, !.done = Append(@, n)] \in WalkRecord
             /\ \A m \in BOOLEAN : Context(w, m) \in WalkRecord
  <2>1. w.at \in Nodes \cup {"out"} /\ w.todo \in 0..MaxActions /\ w.done \in Seq(Events)
    BY Zenon DEF WalkRecord
  <2>2. ASSUME NEW n \in Events, NEW t \in 0..MaxActions
        PROVE  /\ [w EXCEPT !.at = n] \in WalkRecord
               /\ [w EXCEPT !.todo = t] \in WalkRecord
               /\ [w EXCEPT !.at = n, !.todo = t, !.done = Append(@, n)] \in WalkRecord
    <3>1. Append(w.done, n) \in Seq(Events)
      BY <2>1
    <3> QED
      BY <3>1, Zenon DEF WalkRecord, Nodes
  <2>3. ASSUME NEW m \in BOOLEAN PROVE Context(w, m) \in WalkRecord
    BY EventListConstants, Zenon DEF Context, WalkRecord
  <2> QED
    BY <2>1, <2>2, <2>3, Zenon
<1>3. ASSUME NEW v \in EventRecord
      PROVE  /\ v.acts \in 0..MaxActions /\ v.enabled \in BOOLEAN /\ v.cond \in BOOLEAN
             /\ \A b \in BOOLEAN, t \in 0..MaxActions :
                   /\ [v EXCEPT !.enabled = b] \in EventRecord
                   /\ [v EXCEPT !.acts = t, !.enabled = b] \in EventRecord
  BY Zenon DEF EventRecord
<1>4. ASSUME NEW f \in Filters PROVE DebuggerCreateEvent(f) \in EventRecord
  <2>1. f.core \in Cores \cup {All} /\ f.param \in Params \cup {All} /\ f.cond \in BOOLEAN
    BY EventListConstants
  <2> QED
    BY <2>1, EventListConstants DEF DebuggerCreateEvent, EventRecord
<1> QED
  BY <1>1, <1>2, <1>3, <1>4, Zenon

\* One turn of the loop that does not end it: the core moves to the next event,
\* and performs it only if it is enabled, and as the test says if the context
\* was not replaced.
LEMMA Turn ==
  ASSUME NEW c \in Cores, DebuggerTriggerEvents(c), next[walk[c].at] # Head0
  PROVE  \E p, m \in BOOLEAN : LET n == next[walk[c].at] IN
            /\ walk' = [walk EXCEPT ![c] = Context(Arrived(c, n, p), m)]
            /\ p => event[n].enabled
            /\ walk[c].replaced = FALSE =>
                  /\ p => Matches(n, c, walk[c].param)
                  /\ ~p => ~(event[n].enabled /\ Matches(n, c, walk[c].param)) \/ event[n].cond
<1>1. PICK n : n = next[walk[c].at]
  BY Zenon
<1>2. PICK test \in ContextTest(n, c) :
          \/ walk' = [walk EXCEPT ![c] = Context(Arrived(c, n, event[n].enabled /\ OnCore(n, c) /\ test),
                                                 event[n].enabled /\ OnCore(n, c) /\ test)]
          \/ /\ event[n].enabled /\ OnCore(n, c) /\ test /\ event[n].cond
             /\ walk' = [walk EXCEPT ![c] = Context(Arrived(c, n, FALSE),
                                                    event[n].enabled /\ OnCore(n, c) /\ test)]
  BY <1>1, Zenon DEF DebuggerTriggerEvents
<1>3. PICK m \in BOOLEAN : m = (event[n].enabled /\ OnCore(n, c) /\ test)
  BY Zenon
<1>4. walk[c].replaced = FALSE => test = ContextMatches(n, walk[c].param)
  BY <1>2, Zenon DEF ContextTest
<1>5. m => event[n].enabled
  BY <1>3, Zenon
<1>6. walk[c].replaced = FALSE => (m <=> event[n].enabled /\ Matches(n, c, walk[c].param))
  BY <1>3, <1>4, Zenon DEF Matches
<1>7. CASE walk' = [walk EXCEPT ![c] = Context(Arrived(c, n, m), m)]
  BY <1>1, <1>5, <1>6, <1>7, Zenon
<1>8. CASE event[n].cond /\ walk' = [walk EXCEPT ![c] = Context(Arrived(c, n, FALSE), m)]
  BY <1>1, <1>8, Zenon
<1> QED
  BY <1>2, <1>3, <1>7, <1>8, Zenon

\* Performing an action moves no core.
LEMMA ActsInPlace ==
  ASSUME TypeOK, NEW c \in Cores, DebuggerPerformActions(c), NEW d \in Cores
  PROVE  /\ walk'[d].at = walk[d].at /\ walk'[d].done = walk[d].done
         /\ walk'[d].param = walk[d].param /\ walk'[d].replaced = walk[d].replaced
         /\ walk'[d].todo > 0 => walk[d].todo > 0
<1>1. walk[c].todo > 0 /\ walk' = [walk EXCEPT ![c].todo = @ - 1]
  BY Zenon DEF DebuggerPerformActions
<1> QED
  BY <1>1 DEF TypeOK, WalkRecord

\* What an action may do: it changes nothing of an event but whether it is
\* enabled, and it enables none that is being cleared.
LEMMA Acts ==
  ASSUME TypeOK, Shape, InList \subseteq Events, NEW c \in Cores, DebuggerPerformActions(c)
  PROVE  /\ UNCHANGED <<mem, next, armed, ioctl>> /\ InList' = InList
         /\ event' \in [Events -> EventRecord]
         /\ \A e \in Events :
               /\ event'[e].core = event[e].core /\ event'[e].param = event[e].param
               /\ event'[e].cond = event[e].cond
               /\ ~Reenabling /\ BeingCleared(e) /\ event[e].enabled = FALSE
                  => event'[e].enabled = FALSE
<1>1. UNCHANGED <<mem, next, armed, ioctl>>
  BY Zenon DEF DebuggerPerformActions
<1>2. InList' = InList
  BY <1>1, Zenon DEF InList
<1>5. CASE UNCHANGED event
  BY <1>1, <1>2, <1>5, Zenon DEF TypeOK
<1>6. ASSUME NEW e \in InList, NEW b \in BOOLEAN, event' = [event EXCEPT ![e].enabled = b],
             b => Reenabling \/ ~BeingCleared(e)
      PROVE  /\ event' \in [Events -> EventRecord]
             /\ \A d \in Events :
                   /\ event'[d].core = event[d].core /\ event'[d].param = event[d].param
                   /\ event'[d].cond = event[d].cond
                   /\ ~Reenabling /\ BeingCleared(d) /\ event[d].enabled = FALSE
                      => event'[d].enabled = FALSE
  <2>1. e \in Events /\ event \in [Events -> EventRecord]
    BY <1>6, Zenon DEF TypeOK
  <2>2. /\ event' \in [Events -> EventRecord]
        /\ event'[e] = [event[e] EXCEPT !.enabled = b] /\ \A d \in Events \ {e} : event'[d] = event[d]
    BY <1>6, <2>1, Records, Zenon
  <2>3. /\ event'[e].core = event[e].core /\ event'[e].param = event[e].param
        /\ event'[e].cond = event[e].cond /\ event'[e].enabled = b
    BY <2>1, <2>2, Zenon DEF EventRecord
  <2>4. ~Reenabling /\ BeingCleared(e) => b = FALSE
    BY <1>6, Zenon
  <2> QED
    BY <2>2, <2>3, <2>4, Zenon
<1> QED
  BY <1>1, <1>2, <1>5, <1>6, Zenon
  DEF DebuggerPerformActions, DebuggerEnableEvent, DebuggerDisableEvent

\* Every step keeps the types.
LEMMA TypeStep == TypeOK /\ Shape /\ [Next]_vars => TypeOK'
<1> SUFFICES ASSUME TypeOK, Shape, [Next]_vars PROVE TypeOK'
  BY Zenon
<1>1. CASE UNCHANGED vars
  BY <1>1, Zenon DEF TypeOK, vars
<1>2. CASE Next
  <2>1. seen' \in [Cores -> [must : SUBSET Events, may : SUBSET Events]]
    BY <1>2, Zenon DEF Next, Observe, InForce, TypeOK
  <2>2. ASSUME NEW c \in Cores, NEW x \in Params, VmExit(c, x) PROVE TypeOK'
    <3>1. Entered(x) \in WalkRecord
      BY EventListConstants DEF Entered, WalkRecord, Nodes
    <3> QED
      BY <2>1, <2>2, <3>1, Zenon DEF VmExit, TypeOK
  <2>3. ASSUME NEW c \in Cores, DebuggerTriggerEvents(c) PROVE TypeOK'
    <3>1. walk[c].at \in Nodes /\ next[walk[c].at] \in Nodes
      BY <2>3, Records, Zenon DEF DebuggerTriggerEvents, TypeOK
    <3>2. ASSUME NEW n \in Events, NEW p \in BOOLEAN PROVE Arrived(c, n, p) \in WalkRecord
      BY <3>2, Records, Zenon DEF Arrived, TypeOK
    <3>3. walk' \in [Cores -> WalkRecord]
      <4>1. PICK w \in WalkRecord : walk' = [walk EXCEPT ![c] = w]
        <5>1. CASE next[walk[c].at] = Head0
          BY <2>3, <5>1, Records, Zenon DEF DebuggerTriggerEvents
        <5>2. CASE next[walk[c].at] # Head0
          BY <2>3, <3>1, <3>2, <5>2, Turn, Records, Zenon DEF Nodes
        <5> QED
          BY <5>1, <5>2, Zenon
      <4> QED
        BY <4>1 DEF TypeOK
    <3> QED
      BY <2>1, <2>3, <3>3, Zenon DEF DebuggerTriggerEvents, TypeOK
  <2>4. ASSUME NEW c \in Cores, DebuggerPerformActions(c) PROVE TypeOK'
    <3>1. walk[c] \in WalkRecord /\ walk[c].todo - 1 \in 0..MaxActions
      <4>1. walk[c] \in WalkRecord /\ walk[c].todo > 0
        BY <2>4 DEF DebuggerPerformActions, TypeOK
      <4>2. walk[c].todo \in 0..MaxActions
        BY <4>1, Records, Zenon
      <4> QED
        BY <4>1, <4>2, EventListConstants
    <3>2. /\ walk' = [walk EXCEPT ![c] = [walk[c] EXCEPT !.todo = walk[c].todo - 1]]
          /\ UNCHANGED <<mem, next, armed, ioctl>>
      BY <2>4, Zenon DEF DebuggerPerformActions
    <3>3. [walk[c] EXCEPT !.todo = walk[c].todo - 1] \in WalkRecord
      BY <3>1, Zenon DEF WalkRecord
    <3>4. walk' \in [Cores -> WalkRecord]
      BY <3>2, <3>3, Zenon DEF TypeOK
    <3>5. event' \in [Events -> EventRecord]
      BY <2>4, Acts, ListFacts, Zenon
    <3> QED
      BY <2>1, <3>2, <3>4, <3>5, Zenon DEF TypeOK
  <2>5. ASSUME NEW e \in Events, NEW f \in Filters, NEW applied \in BOOLEAN,
               DebuggerParseEventFromUsermode(e, f, applied)
        PROVE  TypeOK'
    <3>1. next' \in [Nodes -> Nodes]
      BY <2>5, Registered DEF DebuggerParseEventFromUsermode
    <3>2. DebuggerCreateEvent(f) \in EventRecord
      BY Records, Zenon
    <3>3. ioctl' \in IoctlRecord
      BY <2>5 DEF DebuggerParseEventFromUsermode, NoIoctl, IoctlRecord, TypeOK, Nodes
    <3> QED
      BY <2>1, <2>5, <3>1, <3>2, <3>3, Zenon DEF DebuggerParseEventFromUsermode, TypeOK
  <2>6. ASSUME NEW e \in Events, NEW allocated \in BOOLEAN,
               DebuggerParseActionFromUsermode(e, allocated)
        PROVE  TypeOK'
    <3>1. event[e] \in EventRecord /\ DebuggerAddActionToEvent(e, allocated) \in 0..MaxActions
      <4>1. event[e] \in EventRecord /\ event[e].acts < MaxActions
        BY <2>6 DEF DebuggerParseActionFromUsermode, TypeOK
      <4>2. event[e].acts \in 0..MaxActions
        BY <4>1, Records, Zenon
      <4> QED
        BY <4>1, <4>2, EventListConstants DEF DebuggerAddActionToEvent
    <3>2. event' = [event EXCEPT ![e] =
              [event[e] EXCEPT !.acts = DebuggerAddActionToEvent(e, allocated), !.enabled = TRUE]]
      BY <2>6, Zenon DEF DebuggerParseActionFromUsermode
    <3>3. event' \in [Events -> EventRecord]
      BY <3>1, <3>2, Records, Zenon DEF TypeOK
    <3> QED
      BY <2>1, <2>6, <3>3 DEF DebuggerParseActionFromUsermode, TypeOK
  <2>7. ASSUME NEW e \in Events, NEW b \in BOOLEAN PROVE [event EXCEPT ![e].enabled = b] \in [Events -> EventRecord]
    BY Records, Zenon DEF TypeOK
  <2>8. ASSUME NEW b \in BOOLEAN, DebuggerEnableOrDisableAllEvents(b)
        PROVE  event' \in [Events -> EventRecord]
    BY <2>8, Records, Zenon DEF DebuggerEnableOrDisableAllEvents, TypeOK
  <2>9. ASSUME DebuggerParseEventsModificationFromUsermode PROVE TypeOK'
    <3>1. event' \in [Events -> EventRecord]
      BY <2>9, <2>7, <2>8, ListFacts DEF DebuggerParseEventsModificationFromUsermode,
         DebuggerEnableEvent, DebuggerDisableEvent
    <3> QED
      BY <2>1, <2>9, <3>1, Zenon DEF DebuggerParseEventsModificationFromUsermode, TypeOK
  <2>10. ASSUME NEW e \in InList, ClearEvent(e) PROVE TypeOK'
    <3>1. event' \in [Events -> EventRecord]
      BY <2>10, <2>7, ListFacts, Zenon DEF ClearEvent, DebuggerDisableEvent
    <3>2. ioctl' \in IoctlRecord
      BY <2>10, ListFacts, Zenon DEF ClearEvent, Clear, IoctlRecord, Nodes
    <3> QED
      BY <2>1, <2>10, <3>1, <3>2 DEF ClearEvent, Clear, TypeOK
  <2>11. ASSUME ClearAllEvents PROVE TypeOK'
    <3>1. event' \in [Events -> EventRecord]
      BY <2>11, <2>8, Zenon DEF ClearAllEvents
    <3>2. next[Head0] \in Nodes
      BY DEF TypeOK, Nodes
    <3>3. ioctl' \in IoctlRecord
      BY <2>11, <3>2 DEF ClearAllEvents, Clear, IoctlRecord
    <3> QED
      BY <2>1, <2>11, <3>1, <3>3, Zenon DEF ClearAllEvents, Clear, TypeOK
  <2>12. ASSUME NEW c \in Cores, TerminateOnCore(c) PROVE TypeOK'
    BY <2>1, <2>12, Zenon DEF TerminateOnCore, IoctlRecord, TypeOK
  <2>13. ASSUME DebuggerTerminateEvent PROVE TypeOK'
    <3>1. ioctl' \in IoctlRecord
      BY <2>13, Zenon DEF DebuggerTerminateEvent, TerminateNext, IoctlRecord, TypeOK, Nodes
    <3> QED
      BY <2>1, <2>13, <3>1, Zenon DEF DebuggerTerminateEvent, TypeOK
  <2>14. ASSUME DebuggerRemoveEventFromEventList PROVE TypeOK'
    <3>1. ioctl.at \in Events
      BY <2>14, ListFacts DEF DebuggerRemoveEventFromEventList, Shape
    <3>2. next' \in [Nodes -> Nodes]
      BY <2>14, <3>1, Unlinked, Zenon DEF DebuggerRemoveEventFromEventList
    <3>3. event' \in [Events -> EventRecord]
      BY <2>14, <2>7, <3>1, Zenon DEF DebuggerRemoveEventFromEventList, DebuggerDisableEvent
    <3>4. ioctl' \in IoctlRecord
      BY <2>14, Zenon DEF DebuggerRemoveEventFromEventList, IoctlRecord, TypeOK
    <3> QED
      BY <2>1, <2>14, <3>2, <3>3, <3>4, Zenon DEF DebuggerRemoveEventFromEventList, TypeOK
  <2>15. ASSUME DebuggerRemoveEvent PROVE TypeOK'
    <3>1. ioctl.at \in Events
      BY <2>15, Zenon DEF DebuggerRemoveEvent, Shape
    <3>2. ioctl' \in IoctlRecord
      BY <2>15, <3>1, Records, Zenon DEF DebuggerRemoveEvent, IoctlRecord, TypeOK, Nodes
    <3> QED
      BY <2>1, <2>15, <3>1, <3>2, Records, Zenon DEF DebuggerRemoveEvent, TypeOK, Nodes
  <2> QED
    BY <1>2, <2>2, <2>3, <2>4, <2>5, <2>6, <2>9, <2>10, <2>11, <2>12, <2>13, <2>14, <2>15, Zenon
    DEF Next, CoreStep, Request, Clearing
<1> QED
  BY <1>1, <1>2

\* Every step keeps the shape of the list.
LEMMA ShapeStep == TypeOK /\ Shape /\ [Next]_vars => Shape'
<1> SUFFICES ASSUME TypeOK, Shape, [Next]_vars PROVE Shape'
  BY Zenon
<1>1. ASSUME UNCHANGED <<mem, next, ioctl>> PROVE Shape'
  BY <1>1 DEF Shape, InList
<1>2. ASSUME NEW e \in Events, NEW f \in Filters, NEW applied \in BOOLEAN,
             DebuggerParseEventFromUsermode(e, f, applied)
      PROVE  Shape'
  <2>1. /\ mem[e] = "freed" /\ mem' = [mem EXCEPT ![e] = "live"] /\ DebuggerRegisterEvent(e)
        /\ ioctl.op = "idle"
        /\ ioctl' = ioctl \/ ioctl' = [NoIoctl EXCEPT !.op = "unlink", !.at = e]
    BY <1>2, Zenon DEF DebuggerParseEventFromUsermode, Idle
  <2>2. /\ next \in [Nodes -> Nodes] /\ e \in Nodes /\ Head0 \in Nodes /\ e # Head0
        /\ next' \in [Nodes -> Nodes] /\ next'[e] = next[Head0] /\ next'[Head0] = e
        /\ \A n \in Nodes \ {e, Head0} : next'[n] = next[n]
    BY <2>1, EventListConstants, Zenon DEF DebuggerRegisterEvent, TypeOK, Nodes
  <2>3. InList' = InList \cup {e} /\ \A n \in Nodes : next[n] # e
    BY <2>1, Registered, Zenon
  <2>4. \A n \in Nodes : next[n] = Head0 \/ mem[next[n]] = "live"
    BY DEF Shape
  <2>5. mem'[e] = "live" /\ \A d \in Events \ {e} : mem'[d] = mem[d]
    BY <2>1, Zenon DEF TypeOK
  <2>6. \A n \in Nodes : next'[n] = Head0 \/ mem'[next'[n]] = "live"
    <3> SUFFICES ASSUME NEW n \in Nodes PROVE next'[n] = Head0 \/ mem'[next'[n]] = "live"
      BY Zenon
    <3>1. CASE n = Head0
      BY <2>2, <2>5, <3>1, Zenon
    <3>2. CASE n # Head0
      <4>1. PICK k \in Nodes : next'[n] = next[k]
        BY <2>2, <3>2, Zenon
      <4> QED
        BY <2>2, <2>3, <2>4, <2>5, <4>1 DEF Nodes
    <3> QED
      BY <3>1, <3>2, Zenon
  <2>7. \A d \in Events : mem'[d] = "freed" => next'[d] = Head0
    BY <2>2, <2>5, EventListConstants DEF Shape, Nodes
  <2>8. Acyclic(next')
    <3>1. Acyclic(next) /\ next'[e] # e
      BY <2>2, <2>3, Zenon DEF Shape
    <3>2. \A k \in Events \ {e} : next[k] = next'[k] /\ next[k] # e
      BY <2>2, <2>3, EventListConstants, Zenon DEF Nodes
    <3> QED
      BY <2>2, <3>1, <3>2, AcyclicLocal
  <2>9. ioctl'.op = "idle" \/ (ioctl'.op = "unlink" /\ ioctl'.at = e)
    BY <2>1, Zenon DEF NoIoctl
  <2> QED
    BY <2>3, <2>6, <2>7, <2>8, <2>9 DEF Shape
<1>3. ASSUME NEW e \in InList, ClearEvent(e) PROVE Shape'
  BY <1>3, Zenon DEF ClearEvent, Clear, Shape, InList
<1>4. ASSUME ClearAllEvents PROVE Shape'
  <2>1. next[Head0] \in InList
    BY <1>4, ListFacts DEF ClearAllEvents
  <2> QED
    BY <1>4, <2>1 DEF ClearAllEvents, Clear, Shape, InList
<1>5. ASSUME NEW c \in Cores, TerminateOnCore(c) PROVE Shape'
  BY <1>5 DEF TerminateOnCore, Shape, InList, TypeOK, IoctlRecord
<1>6. ASSUME DebuggerTerminateEvent PROVE Shape'
  <2>1. ioctl.at \in InList
    BY <1>6 DEF DebuggerTerminateEvent, Shape
  <2>2. next[Head0] \in InList
    <3>1. next[Head0] # Head0
      <4>1. SUFFICES ASSUME next[Head0] = Head0 PROVE FALSE
        OBVIOUS
      <4>2. InList = {}
        BY <4>1, ChainHead DEF InList, TypeOK
      <4> QED
        BY <2>1, <4>2
    <3> QED
      BY <3>1, ListFacts
  <2>3. ~Last(ioctl.at) => next[ioctl.at] \in InList
    BY <2>1, ListFacts DEF Last
  <2>4. ioctl'.op \in {"terminate", "unlink"} /\ ioctl'.at \in InList
    BY <1>6, <2>1, <2>2, <2>3, Zenon DEF DebuggerTerminateEvent, TerminateNext, TypeOK, IoctlRecord
  <2> QED
    BY <1>6, <2>4, Zenon DEF DebuggerTerminateEvent, Shape, InList
<1>7. ASSUME DebuggerRemoveEventFromEventList PROVE Shape'
  <2>1. /\ ioctl.at \in InList /\ ioctl.at \in Events /\ RemoveEntryList(ioctl.at)
        /\ mem' = mem /\ ioctl'.op = "free" /\ ioctl'.at = ioctl.at
    BY <1>7, ListFacts DEF DebuggerRemoveEventFromEventList, Shape, TypeOK, IoctlRecord
  <2>2. PICK e \in Events : e = ioctl.at
    BY <2>1, Zenon
  <2>3. /\ next' = Without(next, e) /\ InList' = InList \ {e}
        /\ \A n \in Nodes : next'[n] # e
    BY <2>1, <2>2, Unlinked, Zenon
  <2>4. \A n \in Nodes : next'[n] = IF n # e /\ next[n] = e THEN next[e] ELSE next[n]
    BY <2>3 DEF Without
  <2>5. /\ \A n \in Nodes : next[n] = Head0 \/ mem[next[n]] = "live"
        /\ \A d \in Events : mem[d] = "freed" => next[d] = Head0
        /\ Acyclic(next) /\ mem[e] = "live"
    BY <2>1, <2>2, ListFacts, Zenon DEF Shape
  <2>6. /\ \A n \in Nodes : next'[n] = Head0 \/ mem'[next'[n]] = "live"
        /\ \A d \in Events : mem'[d] = "freed" => next'[d] = Head0
    BY <2>1, <2>4, <2>5, EventListConstants DEF Nodes
  <2>7. Acyclic(next')
    BY <2>3, <2>5, AcyclicWithout DEF TypeOK
  <2>8. next'[e] \in InList' \cup {Head0}
    BY <2>1, <2>2, <2>3, <2>4, ListFacts, Zenon DEF Nodes
  <2> QED
    BY <2>1, <2>2, <2>3, <2>6, <2>7, <2>8, Zenon DEF Shape
<1>8. ASSUME DebuggerRemoveEvent PROVE Shape'
  <2>1. PICK e \in Events : e = ioctl.at
    BY <1>8 DEF DebuggerRemoveEvent, Shape
  <2>2. /\ \A n \in Nodes : next[n] # e
        /\ next[e] \in InList \cup {Head0}
        /\ \A n \in Nodes : next[n] = Head0 \/ mem[next[n]] = "live"
        /\ \A d \in Events : mem[d] = "freed" => next[d] = Head0
        /\ Acyclic(next)
    BY <1>8, <2>1 DEF DebuggerRemoveEvent, Shape
  <2>3. /\ mem' = [mem EXCEPT ![e] = "freed"] /\ next' = [next EXCEPT ![e] = Head0]
        /\ ioctl' = IF Last(e) THEN NoIoctl ELSE [ioctl EXCEPT !.op = "unlink", !.at = next[e]]
    BY <1>8, <2>1, Zenon DEF DebuggerRemoveEvent
  <2>4. /\ next \in [Nodes -> Nodes] /\ next' \in [Nodes -> Nodes] /\ next'[e] = Head0 /\ e # Head0
        /\ \A n \in Nodes \ {e} : next'[n] = next[n]
        /\ mem'[e] = "freed" /\ \A d \in Events \ {e} : mem'[d] = mem[d]
    BY <2>3, EventListConstants, Zenon DEF TypeOK, Nodes
  <2>5. InList' = InList
    BY <2>2, <2>4, Freed, Zenon DEF InList
  <2>6. /\ \A n \in Nodes : next'[n] = Head0 \/ mem'[next'[n]] = "live"
        /\ \A d \in Events : mem'[d] = "freed" => next'[d] = Head0
    BY <2>2, <2>4 DEF Nodes
  <2>7. Acyclic(next')
    <3>1. \A k \in Events \ {e} : next[k] = next'[k] /\ next[k] # e
      BY <2>2, <2>4 DEF Nodes
    <3> QED
      BY <2>2, <2>4, <3>1, AcyclicLocal, Zenon
  <2>8. ioctl'.op = "idle" \/ (ioctl'.op = "unlink" /\ ioctl'.at \in InList)
    BY <2>2, <2>3 DEF Last, NoIoctl, TypeOK, IoctlRecord
  <2> QED
    BY <2>5, <2>6, <2>7, <2>8 DEF Shape
<1> QED
  BY <1>1, <1>2, <1>3, <1>4, <1>5, <1>6, <1>7, <1>8, Zenon DEF Next, CoreStep, Request, Clearing, vars,
     VmExit, DebuggerTriggerEvents, DebuggerPerformActions, DebuggerParseActionFromUsermode,
     DebuggerParseEventsModificationFromUsermode

\* A core begins to perform an event only if the event is enabled, and it is not
\* freed; it stops performing only by doing what is left.
LEMMA Performing ==
  ASSUME TypeOK, Shape, NEW c \in Cores, DebuggerTriggerEvents(c)
  PROVE  /\ \A d \in Cores \ {c} : walk'[d] = walk[d]
         /\ walk'[c].todo > 0 =>
               /\ walk'[c].at = next[walk[c].at] /\ walk'[c].at \in Events
               /\ mem[walk'[c].at] = "live" /\ event[walk'[c].at].enabled
<1>1. walk \in [Cores -> WalkRecord] /\ walk[c] \in WalkRecord
  BY DEF TypeOK
<1>2. walk[c].at \in Nodes /\ walk[c].todo = 0
  BY <1>1, Records, Zenon DEF DebuggerTriggerEvents
<1>3. next[walk[c].at] \in Nodes /\ (next[walk[c].at] = Head0 \/ mem[next[walk[c].at]] = "live")
  BY <1>2 DEF TypeOK, Shape
<1>4. PICK n : n = next[walk[c].at]
  OBVIOUS
<1>5. CASE n = Head0
  BY <1>1, <1>4, <1>5 DEF DebuggerTriggerEvents, Out
<1>6. CASE n # Head0
  <2>1. PICK p, m \in BOOLEAN : /\ walk' = [walk EXCEPT ![c] = Context(Arrived(c, n, p), m)]
                                /\ p => event[n].enabled
    BY <1>4, <1>6, Turn, Zenon
  <2>2. /\ walk'[c] = Context(Arrived(c, n, p), m)
        /\ \A d \in Cores \ {c} : walk'[d] = walk[d]
    BY <1>1, <2>1, Zenon
  <2>3. Context(Arrived(c, n, p), m).at = n /\ (~p => Context(Arrived(c, n, p), m).todo = 0)
    BY <1>1, <1>2, Zenon DEF Arrived, Context, WalkRecord
  <2> QED
    BY <1>3, <1>4, <1>6, <2>1, <2>2, <2>3 DEF Nodes
<1> QED
  BY <1>5, <1>6, Zenon

\* Every step keeps the events that are being cleared disabled and unperformed.
LEMMA ClearedStep ==
  ASSUME Broadcast, ~Reenabling, ~NonRoot
  PROVE  TypeOK /\ Shape /\ Cleared /\ [Next]_vars => Cleared'
<1> SUFFICES ASSUME TypeOK, Shape, Cleared, [Next]_vars PROVE Cleared'
  OBVIOUS
<1> USE DEF Cleared
<1>1. CASE UNCHANGED vars
  BY <1>1, Zenon DEF vars, Target, InList
<1>2. ASSUME NEW c \in Cores, NEW x \in Params, VmExit(c, x) PROVE Cleared'
  <2>1. walk' = [walk EXCEPT ![c] = Entered(x)]
        /\ UNCHANGED <<mem, next, event, armed, ioctl>>
    BY <1>2 DEF VmExit
  <2>2. Target' = Target
    BY <2>1, Zenon DEF Target, InList
  <2>3. \A d \in Cores : walk'[d].todo > 0 => walk'[d] = walk[d]
    BY <2>1 DEF Entered, TypeOK
  <2> QED
    BY <2>1, <2>2, <2>3
<1>3. ASSUME NEW c \in Cores, DebuggerTriggerEvents(c) PROVE Cleared'
  <2>1. UNCHANGED <<mem, next, event, armed, ioctl>>
    BY <1>3, Zenon DEF DebuggerTriggerEvents
  <2>2. Target' = Target
    BY <2>1, Zenon DEF Target, InList
  <2> QED
    BY <1>3, <2>1, <2>2, Performing
<1>4. ASSUME NEW c \in Cores, DebuggerPerformActions(c) PROVE Cleared'
  <2>1. InList \subseteq Events
    BY ListFacts, Zenon
  <2>2. \A d \in Cores : walk'[d].at = walk[d].at /\ (walk'[d].todo > 0 => walk[d].todo > 0)
    BY <1>4, ActsInPlace, Zenon
  <2>3. \A e \in Events : BeingCleared(e) /\ event[e].enabled = FALSE => event'[e].enabled = FALSE
    BY <1>4, <2>1, Acts, Zenon
  <2>4. UNCHANGED <<mem, next, armed, ioctl>>
    BY <1>4, Zenon DEF DebuggerPerformActions
  <2>5. Target' = Target
    BY <2>4, Zenon DEF Target, InList
  <2>6. ioctl.op # "idle" => \A e \in Target : e \in Events /\ BeingCleared(e)
    <3>1. ioctl.op # "idle" => ioctl.at \in Events
      BY ListFacts DEF Shape, TypeOK, IoctlRecord
    <3> QED
      BY <3>1, ListFacts, Zenon DEF Target, BeingCleared
  <2> QED
    BY <2>2, <2>5, <2>6, <2>3, <2>4, Zenon
<1>5. ASSUME NEW e \in Events, NEW f \in Filters, NEW applied \in BOOLEAN,
             DebuggerParseEventFromUsermode(e, f, applied)
      PROVE  Cleared'
  <2>1. /\ mem[e] = "freed" /\ mem' = [mem EXCEPT ![e] = "live"] /\ walk' = walk
        /\ event' = [event EXCEPT ![e] = DebuggerCreateEvent(f)]
        /\ ioctl.op = "idle" /\ \A c \in Cores : walk[c].at # e
        /\ ioctl' = ioctl \/ ioctl' = [NoIoctl EXCEPT !.op = "unlink", !.at = e]
    BY <1>5, Zenon DEF DebuggerParseEventFromUsermode, Idle, Referred
  <2>2. ioctl' = ioctl \/ (ioctl'.op = "unlink" /\ ioctl'.at = e /\ ioctl'.all = FALSE)
    BY <2>1, Zenon DEF NoIoctl
  <2>3. ioctl'.op = "idle" \/ (ioctl'.op = "unlink" /\ Target' = {e})
    BY <2>1, <2>2 DEF Target
  <2>4. event'[e].enabled = FALSE
    BY <2>1 DEF DebuggerCreateEvent, TypeOK
  <2>5. \A c \in Cores : walk'[c].todo > 0 => walk'[c].at \in Events /\ mem'[walk'[c].at] = "live"
    BY <2>1, Zenon DEF TypeOK
  <2> QED
    BY <2>1, <2>3, <2>4, <2>5, Zenon
<1>6. ASSUME Idle, UNCHANGED <<mem, walk, ioctl>> PROVE Cleared'
  BY <1>6, Zenon DEF Idle
<1>7. ASSUME NEW e \in InList, ClearEvent(e) PROVE Cleared'
  <2>1. /\ e \in Events /\ UNCHANGED <<mem, walk>> /\ event' = [event EXCEPT ![e].enabled = FALSE]
        /\ ioctl' = [op |-> "terminate", at |-> e, all |-> FALSE, left |-> Cores]
    BY <1>7, ListFacts, Zenon DEF ClearEvent, Clear, DebuggerDisableEvent
  <2>2. Target' = {e} /\ event'[e].enabled = FALSE
    BY <2>1 DEF Target, TypeOK, EventRecord
  <2> QED
    BY <2>1, <2>2, Zenon
<1>8. ASSUME ClearAllEvents PROVE Cleared'
  <2>1. /\ UNCHANGED <<mem, walk, next>> /\ DebuggerEnableOrDisableAllEvents(FALSE)
        /\ ioctl' = [op |-> "terminate", at |-> next[Head0], all |-> TRUE, left |-> Cores]
        /\ next[Head0] \in InList
    BY <1>8, ListFacts, Zenon DEF ClearAllEvents, Clear
  <2>2. Target' = InList
    BY <2>1, Zenon DEF Target, InList
  <2>3. \A e \in InList : event'[e].enabled = FALSE
    BY <2>1, ListFacts DEF DebuggerEnableOrDisableAllEvents, DebuggerIsTagValid, TypeOK, EventRecord
  <2> QED
    BY <2>1, <2>2, <2>3, Zenon
<1>9. ASSUME NEW c \in Cores, TerminateOnCore(c) PROVE Cleared'
  <2>1. /\ UNCHANGED <<mem, next, event, walk>> /\ walk[c].at = "out"
        /\ ioctl' = [ioctl EXCEPT !.left = @ \ {c}] /\ ioctl.op = "terminate"
    BY <1>9 DEF TerminateOnCore
  <2>2. /\ ioctl'.op = ioctl.op /\ ioctl'.at = ioctl.at /\ ioctl'.all = ioctl.all
        /\ ioctl'.left = ioctl.left \ {c}
    BY <2>1, Zenon DEF TypeOK, IoctlRecord
  <2>3. Target' = Target
    BY <2>1, <2>2 DEF Target, InList
  <2>4. ~(walk[c].todo > 0)
    BY <2>1, EventListConstants
  <2> QED
    BY <2>1, <2>2, <2>3, <2>4, Zenon
<1>10. ASSUME DebuggerTerminateEvent PROVE Cleared'
  <2>1. /\ UNCHANGED <<mem, next, event, walk>> /\ ioctl.op = "terminate" /\ ioctl.left = {}
        /\ ioctl' = IF Last(ioctl.at)
                    THEN [ioctl EXCEPT !.op = "unlink",
                             !.at = IF ioctl.all THEN next[Head0] ELSE @, !.left = {}]
                    ELSE TerminateNext
    BY <1>10 DEF DebuggerTerminateEvent
  <2>2. ioctl.at \in InList
    BY <2>1, Zenon DEF Shape
  <2>3. /\ ioctl'.op \in {"terminate", "unlink"} /\ ioctl'.all = ioctl.all
        /\ ioctl.all \/ ioctl'.at = ioctl.at
    BY <2>1 DEF TerminateNext, Last, TypeOK, IoctlRecord
  <2>4. InList' = InList
    BY <2>1 DEF InList
  <2>5. ioctl'.at \in InList'
    <3>1. Shape'
      BY ShapeStep
    <3> QED
      BY <2>3, <3>1, Zenon DEF Shape
  <2>6. Target' \subseteq Target
    BY <2>2, <2>3, <2>4, <2>5, Zenon DEF Target
  <2>7. \A c \in Cores : walk[c].todo > 0 => walk[c].at \notin Target
    BY <2>1
  <2> QED
    BY <2>1, <2>3, <2>6, <2>7, Zenon
<1>11. ASSUME DebuggerRemoveEventFromEventList PROVE Cleared'
  <2>1. PICK e \in Events : e = ioctl.at
    BY <1>11, ListFacts, Zenon DEF DebuggerRemoveEventFromEventList, Shape
  <2>2. /\ UNCHANGED <<mem, walk>> /\ event' = [event EXCEPT ![e].enabled = FALSE]
        /\ ioctl.op = "unlink" /\ RemoveEntryList(e)
        /\ ioctl'.op = "free" /\ ioctl'.at = e /\ ioctl'.all = ioctl.all
    BY <1>11, <2>1 DEF DebuggerRemoveEventFromEventList, DebuggerDisableEvent, TypeOK, IoctlRecord
  <2>3. InList' = InList \ {e}
    BY <2>2, Unlinked
  <2>4. Target' \subseteq Target
    BY <2>1, <2>2, <2>3, Zenon DEF Target
  <2>5. \A d \in Events : event'[d].enabled = FALSE \/ event'[d] = event[d]
    BY <2>2 DEF TypeOK, EventRecord
  <2>6. Target \subseteq Events
    BY <2>1, ListFacts, Zenon DEF Target
  <2> QED
    BY <2>2, <2>4, <2>5, <2>6
<1>12. ASSUME DebuggerRemoveEvent PROVE Cleared'
  <2>1. PICK e \in Events : e = ioctl.at
    BY <1>12, Zenon DEF DebuggerRemoveEvent, Shape
  <2>2. /\ mem' = [mem EXCEPT ![e] = "freed"] /\ event' = [event EXCEPT ![e] = NoEvent]
        /\ next' = [next EXCEPT ![e] = Head0] /\ walk' = walk /\ ioctl.op = "free"
        /\ ioctl' = IF Last(e) THEN NoIoctl ELSE [ioctl EXCEPT !.op = "unlink", !.at = next[e]]
    BY <1>12, <2>1, Zenon DEF DebuggerRemoveEvent
  <2>3. e \in Target
    BY <2>1, Zenon DEF Target
  <2>4. \A c \in Cores : walk[c].todo > 0 => walk[c].at # e
    BY <2>2, <2>3
  <2>5. \A d \in Events : event'[d].enabled = FALSE \/ event'[d] = event[d]
    BY <2>2, Zenon DEF NoEvent, TypeOK
  <2>6. \A c \in Cores : walk'[c].todo > 0 => walk'[c].at \in Events /\ mem'[walk'[c].at] = "live"
    BY <2>2, <2>4, Zenon DEF TypeOK
  <2>7. CASE Last(e)
    BY <2>2, <2>6, <2>7, Zenon DEF NoIoctl
  <2>8. CASE ~Last(e)
    <3>1. /\ ioctl'.op = "unlink" /\ ioctl'.at = next[e] /\ ioctl'.all = ioctl.all /\ ioctl.all = TRUE
          /\ next[e] # Head0
      BY <2>2, <2>8, Zenon DEF Last, TypeOK, IoctlRecord
    <3>2. /\ \A n \in Nodes : next[n] # e
          /\ next[e] \in InList
      BY <2>1, <2>2, <3>1, Zenon DEF Shape
    <3>3. /\ next' \in [Nodes -> Nodes] /\ \A n \in Nodes \ {e} : next'[n] = next[n]
      BY <2>2, EventListConstants, Zenon DEF TypeOK, Nodes
    <3>4. InList' = InList
      BY <3>2, <3>3, Freed, Zenon DEF InList
    <3>5. Target' \subseteq Target /\ Target \subseteq Events
      BY <2>1, <3>1, <3>2, <3>4, ListFacts DEF Target
    <3> QED
      BY <2>2, <2>5, <2>6, <3>1, <3>5
  <2> QED
    BY <2>7, <2>8, Zenon
<1> QED
  BY <1>1, <1>2, <1>3, <1>4, <1>5, <1>6, <1>7, <1>8, <1>9, <1>10, <1>11, <1>12, Zenon
  DEF Next, CoreStep, Request, Clearing, DebuggerParseActionFromUsermode,
      DebuggerParseEventsModificationFromUsermode

\* The initial state satisfies the invariants.
LEMMA InitInv == Init => TypeOK /\ Shape /\ Cleared
<1> SUFFICES ASSUME Init PROVE TypeOK /\ Shape /\ Cleared
  OBVIOUS
<1>1. TypeOK
  BY Records, Zenon DEF Init, TypeOK, Nodes
<1>2. Acyclic(next)
  <2>1. [e \in Events |-> 0] \in [Events -> Int]
    OBVIOUS
  <2>2. \A k \in Events : next[k] \notin Events
    BY EventListConstants, Zenon DEF Init, Nodes
  <2>3. Ranked(next, [e \in Events |-> 0])
    BY <2>2 DEF Ranked
  <2> QED
    BY <2>1, <2>3, Zenon DEF Acyclic
<1>3. Shape
  BY <1>2, Zenon DEF Init, Shape, NoIoctl, Nodes
<1>4. Cleared
  BY DEF Init, Cleared, NoIoctl, Out
<1> QED
  BY <1>1, <1>3, <1>4, Zenon

\* For event types that are terminated by a broadcast and walked in VMX root mode,
\* a core that performs an event finds the buffers of the event, whatever is
\* registered, enabled or cleared while it does, if no script enables an event
\* that is being cleared (DebuggerPerformActions and DebuggerRemoveEvent).
THEOREM ActionsIntact ==
  ASSUME Broadcast, ~NonRoot, ~Reenabling
  PROVE  Spec => []PerformedIntact
<1>1. Cleared => PerformedIntact
  BY DEF Cleared, PerformedIntact
<1> QED
  BY <1>1, InitInv, TypeStep, ShapeStep, ClearedStep, PTL DEF Spec

-----------------------------------------------------------------------------
(* The walk of a core                                                      *)

\* The part of the list a core has still to walk.
Ahead(c) == Chain(next, next[walk[c].at])

\* A core in a walk stands on the list, or on the event that is to be freed next.
\* It has performed no event twice and none that is ahead, only events that were
\* in force, and those that were in force all the time are performed or ahead.
\* Its context is the one of the exit.
InWalk(c) ==
    /\ walk[c].replaced = FALSE
    /\ walk[c].at \in Events =>
          walk[c].at \in InList \/ (ioctl.op = "free" /\ walk[c].at = ioctl.at)
    /\ walk[c].at = Head0 => walk[c].done = <<>>
    /\ Performed(c) \subseteq seen[c].may
    /\ Performed(c) \cap Ahead(c) = {}
    /\ \A i, j \in DOMAIN walk[c].done : walk[c].done[i] = walk[c].done[j] => i = j
    /\ seen[c].must \subseteq Performed(c) \cup Ahead(c)
    /\ \A e \in seen[c].must : e \in InForce(c) /\ event[e].cond = FALSE

Walks == \A c \in Cores : walk[c].at # "out" => InWalk(c)

\* What the history of a walk becomes when the walk goes on.
LEMMA History ==
  ASSUME NEW c \in Cores, Observe, walk[c].at # "out", walk'[c].at # "out"
  PROVE  /\ seen'[c].must = seen[c].must \cap InForce(c)'
         /\ seen'[c].may = seen[c].may \cup InForce(c)'
  BY Zenon DEF Observe

\* A core that stays where it is keeps its walk, if what is ahead of it changes
\* only by what comes into force or goes out of force.
LEMMA Standing ==
  ASSUME NEW c \in Cores, Observe, walk[c].at # "out", InWalk(c), walk'[c] = walk[c],
         walk[c].at \in Events =>
            walk[c].at \in InList' \/ (ioctl'.op = "free" /\ walk[c].at = ioctl'.at),
         Performed(c) \cap Ahead(c)' = {},
         \A e \in InList' : e \in Ahead(c) => e \in Ahead(c)',
         \A e \in seen[c].must : event'[e].cond = event[e].cond
  PROVE  InWalk(c)'
<1>1. /\ seen'[c].must = seen[c].must \cap InForce(c)'
      /\ seen'[c].may = seen[c].may \cup InForce(c)'
  BY History, Zenon
<1>2. Performed(c)' = Performed(c)
  BY Zenon DEF Performed
<1>3. InForce(c)' \subseteq InList'
  BY DEF InForce
<1>4. /\ Performed(c) \subseteq seen[c].may
      /\ seen[c].must \subseteq Performed(c) \cup Ahead(c)
      /\ \A e \in seen[c].must : e \in InForce(c) /\ event[e].cond = FALSE
      /\ walk[c].at = Head0 => walk[c].done = <<>>
      /\ \A i, j \in DOMAIN walk[c].done : walk[c].done[i] = walk[c].done[j] => i = j
      /\ walk[c].replaced = FALSE
  BY Zenon DEF InWalk
<1>5. /\ Performed(c)' \subseteq seen'[c].may
      /\ seen'[c].must \subseteq Performed(c)' \cup Ahead(c)'
  BY <1>1, <1>2, <1>3, <1>4, Zenon
<1>6. \A e \in seen'[c].must : e \in InForce(c)' /\ event'[e].cond = FALSE
  BY <1>1, <1>4, Zenon
<1> HIDE DEF Performed, Ahead, InForce
<1> QED
  BY <1>2, <1>4, <1>5, <1>6, Zenon DEF InWalk

\* The steps of the IOCTL thread keep every walk.
LEMMA WalkKept ==
  ASSUME ~Passing, Broadcast, TypeOK, Shape, Cleared, NEW c \in Cores, walk[c].at # "out", InWalk(c),
         Observe, walk'[c] = walk[c], Request \/ Clearing
  PROVE  InWalk(c)'
<1>1. /\ next \in [Nodes -> Nodes] /\ walk[c].at \in Nodes /\ next[walk[c].at] \in Nodes
      /\ walk'[c].at = walk[c].at
  BY Records, Zenon DEF TypeOK
<1>2. /\ walk[c].at \in Events =>
            walk[c].at \in InList \/ (ioctl.op = "free" /\ walk[c].at = ioctl.at)
      /\ walk[c].at = Head0 => walk[c].done = <<>>
      /\ Performed(c) \cap Ahead(c) = {}
      /\ \A e \in seen[c].must : e \in InList
  BY Zenon DEF InWalk, InForce
<1>3. InList \subseteq Events
  BY ListFacts, Zenon
<1>4. ASSUME next' = next, ioctl.op # "free", \A e \in Events : event'[e].cond = event[e].cond
      PROVE  InWalk(c)'
  <2>1. InList' = InList /\ Ahead(c)' = Ahead(c)
    BY <1>1, <1>4, Zenon DEF InList, Ahead
  <2> QED
    BY <1>2, <1>3, <1>4, <2>1, Standing, Zenon
<1>5. ASSUME NEW e \in Events, NEW f \in Filters, NEW applied \in BOOLEAN,
             DebuggerParseEventFromUsermode(e, f, applied)
      PROVE  InWalk(c)'
  <2>1. /\ mem[e] = "freed" /\ DebuggerRegisterEvent(e) /\ walk[c].at # e
        /\ event' = [event EXCEPT ![e] = DebuggerCreateEvent(f)] /\ ioctl.op = "idle"
    BY <1>5, Zenon DEF DebuggerParseEventFromUsermode, Referred, Idle
  <2>2. /\ next' \in [Nodes -> Nodes]
        /\ InList' = InList \cup {e} /\ e \notin InList
        /\ \A m \in Nodes \ {e} : Chain(next', m) = Chain(next, m)
        /\ \A n \in Nodes : next[n] # e
    BY <2>1, Registered, Zenon
  <2>3. /\ next'[Head0] = e /\ next'[e] = next[Head0] /\ Head0 \in Nodes
        /\ \A n \in Nodes \ {e, Head0} : next'[n] = next[n]
    BY <1>1, <2>1, EventListConstants, Zenon DEF DebuggerRegisterEvent, Nodes
  <2>4. Ahead(c)' = IF walk[c].at = Head0 THEN {e} \cup Ahead(c) ELSE Ahead(c)
    <3>1. CASE walk[c].at = Head0
      <4>1. Chain(next', e) = {e} \cup Chain(next', next[Head0])
        BY <2>2, <2>3, ChainStep
      <4> QED
        BY <1>1, <2>2, <2>3, <3>1, <4>1, Zenon DEF Ahead
    <3>2. CASE walk[c].at # Head0
      BY <1>1, <2>1, <2>2, <2>3, <3>2 DEF Ahead
    <3> QED
      BY <3>1, <3>2, Zenon
  <2>5. walk[c].at = Head0 => Performed(c) = {}
    BY <1>2 DEF Performed
  <2>6. \A d \in seen[c].must : event'[d].cond = event[d].cond
    BY <1>2, <1>3, <2>1, <2>2, Zenon DEF TypeOK
  <2> QED
    BY <1>2, <2>1, <2>2, <2>4, <2>5, <2>6, Standing, Zenon
<1>6. ASSUME DebuggerRemoveEventFromEventList PROVE InWalk(c)'
  <2>1. PICK e \in Events : e = ioctl.at
    BY <1>6, ListFacts, Zenon DEF DebuggerRemoveEventFromEventList, Shape
  <2>2. /\ event' = [event EXCEPT ![e].enabled = FALSE] /\ RemoveEntryList(e)
        /\ ioctl.op = "unlink" /\ ioctl'.op = "free" /\ ioctl'.at = e
    BY <1>6, <2>1, Zenon DEF DebuggerRemoveEventFromEventList, DebuggerDisableEvent, TypeOK, IoctlRecord
  <2>3. next' = Without(next, e) /\ InList' = InList \ {e}
    BY <2>2, Unlinked, Zenon
  <2>4. Ahead(c)' = Ahead(c) \ {e}
    <3>1. next'[walk[c].at] = IF walk[c].at # e /\ next[walk[c].at] = e
                              THEN next[e] ELSE next[walk[c].at]
      BY <1>1, <2>3, Zenon DEF Without
    <3>2. next[walk[c].at] = e => walk[c].at # e
      <4>1. next[e] \in Chain(next, next[e])
        BY <1>1, ChainClosed, Zenon DEF Nodes
      <4> QED
        BY <1>1, <4>1, ChainDescends, Zenon DEF Shape
    <3>3. next'[walk[c].at] = IF next[walk[c].at] = e THEN next[e] ELSE next[walk[c].at]
      BY <3>1, <3>2, Zenon
    <3> QED
      BY <1>1, <2>3, <3>3, ChainWithout DEF Ahead, Shape
  <2>5. \A d \in seen[c].must : event'[d].cond = event[d].cond
    BY <1>2, <1>3, <2>2 DEF TypeOK, EventRecord
  <2> QED
    BY <1>2, <2>2, <2>3, <2>4, <2>5, Standing, Zenon
<1>7. ASSUME DebuggerRemoveEvent PROVE InWalk(c)'
  <2>1. PICK e \in Events : e = ioctl.at
    BY <1>7, Zenon DEF DebuggerRemoveEvent, Shape
  <2>2. /\ event' = [event EXCEPT ![e] = NoEvent] /\ next' = [next EXCEPT ![e] = Head0]
        /\ ioctl.op = "free" /\ (walk[c].at = e => walk[c].todo > 0)
        /\ \A n \in Nodes : next[n] # e
    BY <1>7, <2>1, Zenon DEF DebuggerRemoveEvent, Shape
  <2>3. walk[c].at # e
    BY <2>1, <2>2, Zenon DEF Cleared, Target
  <2>4. /\ next' \in [Nodes -> Nodes] /\ \A n \in Nodes \ {e} : next'[n] = next[n]
    BY <1>1, <2>2, EventListConstants, Zenon DEF Nodes
  <2>5. /\ InList' = InList /\ e \notin InList
        /\ \A m \in Nodes \ {e} : Chain(next', m) = Chain(next, m)
    <3>1. /\ Chain(next', next'[Head0]) = Chain(next, next[Head0]) /\ e \notin InList
          /\ \A m \in Nodes \ {e} : Chain(next', m) = Chain(next, m)
      <4>1. PICK links \in [Nodes -> Nodes] : links = next'
        BY <2>4, Zenon
      <4>2. \A n \in Nodes \ {e} : links[n] = next[n]
        BY <2>4, <4>1, Zenon
      <4>3. /\ Chain(links, links[Head0]) = Chain(next, next[Head0]) /\ e \notin InList
            /\ \A m \in Nodes \ {e} : Chain(links, m) = Chain(next, m)
        BY <2>2, <4>2, Freed, Zenon
      <4> QED
        BY <4>1, <4>3, Zenon
    <3> QED
      BY <3>1, Zenon DEF InList
  <2>6. Ahead(c)' = Ahead(c)
    BY <1>1, <2>2, <2>3, <2>4, <2>5 DEF Ahead
  <2>7. \A d \in seen[c].must : event'[d].cond = event[d].cond
    BY <1>2, <1>3, <2>2, <2>5, Zenon DEF TypeOK
  <2> QED
    BY <1>2, <2>1, <2>3, <2>5, <2>6, <2>7, Standing, Zenon
<1>8. ASSUME NEW e \in Events, NEW allocated \in BOOLEAN, DebuggerParseActionFromUsermode(e, allocated)
      PROVE  next' = next /\ ioctl.op # "free" /\ \A d \in Events : event'[d].cond = event[d].cond
  BY <1>8 DEF DebuggerParseActionFromUsermode, Idle, TypeOK, EventRecord
<1>9. ASSUME NEW e \in InList, ClearEvent(e)
      PROVE  next' = next /\ ioctl.op # "free" /\ \A d \in Events : event'[d].cond = event[d].cond
  BY <1>3, <1>9 DEF ClearEvent, Clear, Idle, DebuggerDisableEvent, TypeOK, EventRecord
<1>10. ASSUME ClearAllEvents \/ DebuggerParseEventsModificationFromUsermode
       PROVE  next' = next /\ ioctl.op # "free" /\ \A d \in Events : event'[d].cond = event[d].cond
  BY <1>3, <1>10 DEF ClearAllEvents, Clear, Idle, DebuggerParseEventsModificationFromUsermode,
     DebuggerEnableEvent, DebuggerDisableEvent, DebuggerEnableOrDisableAllEvents, TypeOK, EventRecord
<1>11. ASSUME DebuggerTerminateEvent \/ \E d \in Cores : TerminateOnCore(d)
       PROVE  next' = next /\ ioctl.op # "free" /\ event' = event
  BY <1>11, Zenon DEF DebuggerTerminateEvent, TerminateOnCore
<1> QED
  BY <1>4, <1>5, <1>6, <1>7, <1>8, <1>9, <1>10, <1>11, Zenon DEF Request, Clearing

Elements(s) == {s[i] : i \in DOMAIN s}

\* A sequence with one element more.
LEMMA Appended ==
  ASSUME NEW S, NEW s \in Seq(S), NEW e \in S
  PROVE  /\ Elements(Append(s, e)) = Elements(s) \cup {e}
         /\ (e \notin Elements(s) /\ \A i, j \in DOMAIN s : s[i] = s[j] => i = j)
            => \A i, j \in DOMAIN Append(s, e) : Append(s, e)[i] = Append(s, e)[j] => i = j
<1>1. /\ DOMAIN s = 1..Len(s) /\ DOMAIN Append(s, e) = 1..(Len(s) + 1) /\ Len(s) \in Nat
      /\ \A i \in 1..Len(s) : Append(s, e)[i] = s[i]
      /\ Append(s, e)[Len(s) + 1] = e
  OBVIOUS
<1>2. PICK t : t = Append(s, e)
  BY Zenon
<1>3. PICK k \in Nat : k = Len(s)
  BY <1>1, Zenon
<1>4. /\ DOMAIN s = 1..k /\ DOMAIN t = 1..(k + 1) /\ t[k + 1] = e /\ \A i \in 1..k : t[i] = s[i]
  BY <1>1, <1>2, <1>3, Zenon
<1>5. \A i \in 1..(k + 1) : i \in 1..k \/ i = k + 1
  OBVIOUS
<1>6. 1..k \subseteq 1..(k + 1) /\ k + 1 \in 1..(k + 1)
  OBVIOUS
<1>7. Elements(t) = Elements(s) \cup {e}
  BY <1>4, <1>5, <1>6, Zenon DEF Elements
<1>8. ASSUME e \notin Elements(s), \A i, j \in DOMAIN s : s[i] = s[j] => i = j,
             NEW i \in DOMAIN t, NEW j \in DOMAIN t, t[i] = t[j]
      PROVE  i = j
  BY <1>4, <1>5, <1>8 DEF Elements
<1> QED
  BY <1>2, <1>7, <1>8, Zenon

\* The steps of the core itself keep its walk.
LEMMA WalkGoesOn ==
  ASSUME ~Replacing, TypeOK, Shape, Observe, NEW c \in Cores, walk[c].at # "out", InWalk(c),
         walk'[c].at # "out", DebuggerTriggerEvents(c)
  PROVE  InWalk(c)'
<1> DEFINE n == next[walk[c].at]
<1>1. /\ walk \in [Cores -> WalkRecord] /\ walk[c] \in WalkRecord /\ walk[c].at \in Nodes
      /\ next \in [Nodes -> Nodes] /\ n \in Nodes /\ UNCHANGED <<mem, next, event, armed, ioctl>>
      /\ walk[c].done \in Seq(Events)
  BY Records, Zenon DEF TypeOK, DebuggerTriggerEvents
<1>2. n # Head0
  <2>1. n = Head0 => walk' = [walk EXCEPT ![c] = Out]
    BY Zenon DEF DebuggerTriggerEvents
  <2> HIDE DEF n
  <2> QED
    BY <1>1, <2>1 DEF Out
<1>3. n \in Events
  BY <1>1, <1>2, Zenon DEF Nodes
<1>4. PICK p, m \in BOOLEAN :
          /\ walk' = [walk EXCEPT ![c] = Context(Arrived(c, n, p), m)]
          /\ p => event[n].enabled /\ Matches(n, c, walk[c].param)
          /\ ~p => ~(event[n].enabled /\ Matches(n, c, walk[c].param)) \/ event[n].cond
  BY <1>2, Turn, Zenon DEF InWalk
<1>5. PICK e \in Events : e = n
  BY <1>3, Zenon
<1>6. next[walk[c].at] = e
  BY <1>5, Zenon
<1> HIDE DEF n
<1>7. /\ walk'[c].at = e /\ walk'[c].param = walk[c].param /\ walk'[c].replaced = FALSE
      /\ walk'[c].done = IF p THEN Append(walk[c].done, e) ELSE walk[c].done
  <2>1. walk[c].replaced = FALSE
    BY Zenon DEF InWalk
  <2>2. walk'[c] = Context(Arrived(c, e, p), m)
    BY <1>1, <1>4, <1>5, Zenon
  <2>3. /\ Arrived(c, e, p) \in WalkRecord /\ Arrived(c, e, p).at = e
        /\ Arrived(c, e, p).param = walk[c].param /\ Arrived(c, e, p).replaced = FALSE
        /\ Arrived(c, e, p).done = IF p THEN Append(walk[c].done, e) ELSE walk[c].done
    <3>1. event[e].acts \in 0..MaxActions
      BY Records, Zenon DEF TypeOK
    <3>2. Arrived(c, e, p) \in WalkRecord
      BY <1>1, <3>1, Records, Zenon DEF Arrived
    <3> QED
      BY <1>1, <2>1, <3>2, Zenon DEF Arrived, WalkRecord
  <2> QED
    BY <2>2, <2>3, Zenon DEF Context, WalkRecord
<1>8. /\ Performed(c) \subseteq seen[c].may
      /\ Performed(c) \cap Ahead(c) = {}
      /\ seen[c].must \subseteq Performed(c) \cup Ahead(c)
  BY Zenon DEF InWalk
<1>9. \A i, j \in DOMAIN walk[c].done : walk[c].done[i] = walk[c].done[j] => i = j
  BY Zenon DEF InWalk
<1>10. walk[c].at \in Events =>
            walk[c].at \in InList \/ (ioctl.op = "free" /\ walk[c].at = ioctl.at)
  BY Zenon DEF InWalk
<1>11. \A d \in seen[c].must : d \in InForce(c) /\ event[d].cond = FALSE
  BY Zenon DEF InWalk
<1>12. InList' = InList /\ e \in InList
  <2>1. e \in InList \cup {Head0}
    BY <1>1, <1>6, <1>10, ListFacts, Zenon DEF Shape, Nodes
  <2> QED
    BY <1>1, <1>2, <1>5, <2>1, Zenon DEF InList
<1>13. InForce(c)' = InForce(c)
  BY <1>1, <1>7, <1>12, Zenon DEF InForce, Matches, OnCore, ContextMatches
<1>14. /\ seen'[c].must = seen[c].must \cap InForce(c)
       /\ seen'[c].may = seen[c].may \cup InForce(c)
  BY <1>13, History, Zenon
<1>15. Ahead(c) = {e} \cup Ahead(c)' /\ e \notin Ahead(c)'
  <2>1. Chain(next, e) = {e} \cup Chain(next, next[e]) /\ e \notin Chain(next, next[e])
    BY <1>1, ChainStep, ChainDescends, Zenon DEF Shape
  <2> QED
    BY <1>1, <1>6, <1>7, <2>1, Zenon DEF Ahead
<1>16. e \notin Performed(c)
  BY <1>8, <1>15, Zenon
<1>17. e # Head0
  BY <1>2, <1>5, Zenon
<1>18. CASE p
  <2>1. e \in InForce(c)
    BY <1>4, <1>5, <1>12, <1>18, Zenon DEF InForce
  <2>2. PICK s \in Seq(Events) : s = walk[c].done
    BY <1>1, Zenon
  <2>3. walk'[c].done = Append(s, e)
    BY <1>7, <1>18, <2>2, Zenon
  <2>4. Performed(c)' = Performed(c) \cup {e}
    <3>1. Performed(c) = Elements(s) /\ Performed(c)' = Elements(Append(s, e))
      BY <2>2, <2>3, Zenon DEF Performed, Elements
    <3> QED
      BY <3>1, Appended
  <2>5. \A i, j \in DOMAIN walk'[c].done : walk'[c].done[i] = walk'[c].done[j] => i = j
    <3>1. e \notin Elements(s)
      BY <1>16, <2>2, Zenon DEF Performed, Elements
    <3>2. \A i, j \in DOMAIN s : s[i] = s[j] => i = j
      BY <2>2, <1>9, Zenon
    <3>3. \A i, j \in DOMAIN Append(s, e) : Append(s, e)[i] = Append(s, e)[j] => i = j
      BY <3>1, <3>2, Appended, Zenon
    <3> QED
      BY <2>3, <3>3, Zenon
  <2>6. \A d \in seen'[c].must : d \in InForce(c)' /\ event'[d].cond = FALSE
    BY <1>1, <1>13, <1>14, <1>11, Zenon
  <2>7. /\ Performed(c)' \subseteq seen'[c].may /\ Performed(c)' \cap Ahead(c)' = {}
        /\ seen'[c].must \subseteq Performed(c)' \cup Ahead(c)'
    BY <1>8, <1>14, <1>15, <2>1, <2>4
  <2> QED
    BY <1>7, <1>12, <1>17, <2>5, <2>6, <2>7, Zenon DEF InWalk
<1>19. CASE ~p
  <2>1. e \notin seen[c].must
    BY <1>4, <1>5, <1>19, <1>11, Zenon DEF InForce
  <2>2. Performed(c)' = Performed(c)
    BY <1>7, <1>19, Zenon DEF Performed
  <2>3. \A i, j \in DOMAIN walk'[c].done : walk'[c].done[i] = walk'[c].done[j] => i = j
    BY <1>7, <1>19, <1>9, Zenon
  <2>4. \A d \in seen'[c].must : d \in InForce(c)' /\ event'[d].cond = FALSE
    BY <1>1, <1>13, <1>14, <1>11, Zenon
  <2>5. /\ Performed(c)' \subseteq seen'[c].may /\ Performed(c)' \cap Ahead(c)' = {}
        /\ seen'[c].must \subseteq Performed(c)' \cup Ahead(c)'
    BY <1>8, <1>14, <1>15, <2>1, <2>2
  <2> QED
    BY <1>7, <1>12, <1>17, <2>3, <2>4, <2>5, Zenon DEF InWalk
<1> QED
  BY <1>18, <1>19

\* A walk begins with nothing performed and the whole list ahead.
LEMMA WalkBegins ==
  ASSUME TypeOK, Shape, Observe, NEW c \in Cores, NEW x \in Params, VmExit(c, x)
  PROVE  InWalk(c)'
<1>1. /\ walk[c].at = "out" /\ UNCHANGED <<mem, next, event, armed, ioctl>>
      /\ walk'[c] = Entered(x)
      /\ walk'[c].at = Head0 /\ walk'[c].done = <<>> /\ walk'[c].replaced = FALSE
  BY DEF VmExit, Entered, TypeOK
<1>2. seen'[c] = [must |-> {e \in InForce(c)' : ~event'[e].cond}, may |-> InForce(c)']
  <2>1. walk'[c].at # "out"
    BY <1>1 DEF Head0
  <2> QED
    BY <1>1, <2>1, Zenon DEF Observe
<1>3. Performed(c)' = {} /\ walk'[c].at \notin Events
  BY <1>1, EventListConstants DEF Performed
<1>4. InForce(c)' \subseteq Ahead(c)'
  <2>1. InForce(c)' \subseteq InList'
    BY DEF InForce
  <2>2. InList' \subseteq Ahead(c)'
    BY <1>1 DEF InList, Ahead
  <2> QED
    BY <2>1, <2>2
<1>5. \A e \in seen'[c].must : e \in InForce(c)' /\ event'[e].cond = FALSE
  <2>1. \A e \in InForce(c)' : event'[e].cond \in BOOLEAN
    BY <1>1, Records, Zenon DEF InForce, TypeOK
  <2> QED
    BY <1>2, <2>1
<1> QED
  BY <1>1, <1>2, <1>3, <1>4, <1>5 DEF InWalk

\* Every step keeps the walks.
LEMMA WalkStep ==
  ASSUME ~Passing, ~Replacing, Broadcast
  PROVE  TypeOK /\ Shape /\ Cleared /\ Walks /\ [Next]_vars => Walks'
<1> SUFFICES ASSUME TypeOK, Shape, Cleared, Walks, [Next]_vars,
                    NEW c \in Cores, walk'[c].at # "out"
             PROVE  InWalk(c)'
  BY Zenon DEF Walks
<1>1. walk[c].at # "out" => InWalk(c)
  BY DEF Walks
<1>2. CASE UNCHANGED vars
  BY <1>1, <1>2 DEF vars, InWalk, InList, Performed, Ahead, InForce, Matches, OnCore, ContextMatches
<1>3. CASE Next
  <2>1. Observe
    BY <1>3, Zenon DEF Next
  <2>2. ASSUME Request \/ Clearing PROVE InWalk(c)'
    <3>1. walk' = walk
      BY <2>2, Zenon DEF Request, Clearing, DebuggerParseEventFromUsermode, DebuggerParseActionFromUsermode,
         DebuggerParseEventsModificationFromUsermode, ClearEvent, ClearAllEvents, Clear,
         TerminateOnCore, DebuggerTerminateEvent, DebuggerRemoveEventFromEventList, DebuggerRemoveEvent
    <3> QED
      BY <1>1, <2>1, <2>2, <3>1, WalkKept, Zenon
  <2>3. ASSUME NEW d \in Cores, CoreStep(d), walk'[c] = walk[c] PROVE InWalk(c)'
    <3>1. UNCHANGED <<mem, next, armed, ioctl>>
      BY <2>3, Zenon DEF CoreStep, VmExit, DebuggerTriggerEvents, DebuggerPerformActions
    <3>2. \A e \in seen[c].must : event'[e].cond = event[e].cond
      <4>1. event' = event \/ DebuggerPerformActions(d)
        BY <2>3, Zenon DEF CoreStep, VmExit, DebuggerTriggerEvents
      <4>2. seen[c].must \subseteq Events
        BY Zenon DEF TypeOK
      <4> QED
        BY <4>1, <4>2, Acts, ListFacts, Zenon
    <3>3. InWalk(c) /\ walk[c].at # "out"
      BY <1>1, <2>3
    <3>4. InList' = InList /\ Ahead(c)' = Ahead(c)
      BY <2>3, <3>1 DEF InList, Ahead
    <3> QED
      BY <2>1, <2>3, <3>1, <3>3, <3>4, <3>2, Standing DEF InWalk
  <2>4. ASSUME NEW x \in Params, VmExit(c, x) PROVE InWalk(c)'
    BY <2>1, <2>4, WalkBegins
  <2>5. ASSUME DebuggerTriggerEvents(c) PROVE InWalk(c)'
    <3>1. walk[c].at # "out"
      BY <2>5, Zenon DEF DebuggerTriggerEvents
    <3> QED
      BY <1>1, <2>1, <2>5, <3>1, WalkGoesOn, Zenon
  <2>6. ASSUME DebuggerPerformActions(c) PROVE InWalk(c)'
    <3>1. InList \subseteq Events
      BY ListFacts, Zenon
    <3>2. /\ walk'[c].at = walk[c].at /\ walk'[c].done = walk[c].done /\ walk'[c].param = walk[c].param
          /\ walk'[c].replaced = walk[c].replaced
      BY <2>6, ActsInPlace, Zenon
    <3>3. \A e \in Events : event'[e].cond = event[e].cond
      BY <2>6, <3>1, Acts, Zenon
    <3>4. UNCHANGED <<mem, next, armed, ioctl>>
      BY <2>6, Zenon DEF DebuggerPerformActions
    <3>5. InWalk(c) /\ walk[c].at # "out"
      BY <1>1, <3>2, Zenon
    <3>6. InList' = InList /\ Ahead(c)' = Ahead(c) /\ Performed(c)' = Performed(c)
      BY <3>2, <3>4, Zenon DEF InList, Ahead, Performed
    <3>7. /\ seen'[c].must = seen[c].must \cap InForce(c)'
          /\ seen'[c].may = seen[c].may \cup InForce(c)'
      BY <2>1, <3>2, <3>5, History, Zenon
    <3>8. \A e \in seen'[c].must : e \in InForce(c)' /\ event'[e].cond = FALSE
      <4>1. \A e \in seen[c].must : e \in Events /\ event[e].cond = FALSE
        BY <3>5, Zenon DEF InWalk, TypeOK
      <4> QED
        BY <3>7, <3>3, <4>1, Zenon
    <3> HIDE DEF InForce, Ahead, Performed
    <3> QED
      BY <3>2, <3>5, <3>6, <3>7, <3>8, <3>4 DEF InWalk
  <2>7. ASSUME NEW d \in Cores \ {c}, CoreStep(d) PROVE walk'[c] = walk[c]
    BY <2>7, Zenon DEF CoreStep, VmExit, DebuggerTriggerEvents, DebuggerPerformActions, TypeOK
  <2> QED
    BY <1>3, <2>2, <2>3, <2>4, <2>5, <2>6, <2>7, Zenon DEF Next, CoreStep
<1> QED
  BY <1>2, <1>3

\* For such event types, with no core standing on an event that is being freed and
\* no event that replaces the context of the walk, every exit performs each event
\* that is in force while it is handled, in any list and however the list is
\* changed meanwhile (DebuggerTriggerEvents against
\* DebuggerParseEventFromUsermode and DebuggerRemoveEvent).
THEOREM ExitsTrigger ==
  ASSUME Broadcast, ~NonRoot, ~Reenabling, ~Passing, ~Replacing
  PROVE  Spec => TriggersInForce
<1> DEFINE Ends(c) == walk[c].at # "out" /\ walk'[c].at = "out"
           Right(c) ==
               /\ seen[c].must \subseteq Performed(c)
               /\ Performed(c) \subseteq seen[c].may
               /\ \A i, j \in DOMAIN walk[c].done : walk[c].done[i] = walk[c].done[j] => i = j
<1>1. Init => Walks
  BY DEF Init, Walks, Out
<1>2. ASSUME TypeOK, Shape, Walks, [Next]_vars, NEW c \in Cores, Ends(c) PROVE Right(c)
  <2>1. InWalk(c)
    BY <1>2 DEF Walks
  <2>2. Ahead(c) = {Head0}
    <3>1. DebuggerTriggerEvents(c)
      <4>1. walk'[c] # walk[c]
        BY <1>2
      <4>2. ASSUME NEW d \in Cores, CoreStep(d) PROVE d = c /\ DebuggerTriggerEvents(c)
        <5>1. d = c
          BY <1>2, <4>1, <4>2 DEF CoreStep, VmExit, DebuggerTriggerEvents, DebuggerPerformActions, TypeOK
        <5>2. ~DebuggerPerformActions(c)
          BY <1>2, ActsInPlace, Zenon
        <5>3. \A x \in Params : ~VmExit(c, x)
          BY <1>2, Zenon DEF VmExit
        <5> QED
          BY <4>2, <5>1, <5>2, <5>3, Zenon DEF CoreStep
      <4>3. ~Request /\ ~Clearing
        BY <4>1, Zenon DEF Request, Clearing, DebuggerParseEventFromUsermode,
           DebuggerParseActionFromUsermode, DebuggerParseEventsModificationFromUsermode,
           ClearEvent, ClearAllEvents, Clear, TerminateOnCore, DebuggerTerminateEvent,
           DebuggerRemoveEventFromEventList, DebuggerRemoveEvent
      <4> QED
        BY <1>2, <4>1, <4>2, <4>3, Zenon DEF Next, vars
    <3>2. next[walk[c].at] = Head0
      <4>1. SUFFICES ASSUME next[walk[c].at] # Head0 PROVE FALSE
        OBVIOUS
      <4>2. PICK p, m \in BOOLEAN :
                 walk' = [walk EXCEPT ![c] = Context(Arrived(c, next[walk[c].at], p), m)]
        BY <3>1, <4>1, Turn, Zenon
      <4>3. walk'[c].at = next[walk[c].at]
        BY <1>2, <4>2, Zenon DEF Arrived, Context, TypeOK, WalkRecord
      <4>4. next[walk[c].at] \in Nodes
        BY <1>2, Records, Zenon DEF TypeOK
      <4> QED
        BY <1>2, <4>3, <4>4, EventListConstants, Zenon DEF Nodes, Head0
    <3> QED
      BY <1>2, <3>2, ChainHead, Zenon DEF Ahead, TypeOK
  <2>3. Head0 \notin seen[c].must
    BY <1>2, EventListConstants DEF TypeOK
  <2> QED
    BY <2>1, <2>2, <2>3, Zenon DEF InWalk
<1>3. TypeOK /\ Shape /\ Walks /\ [Next]_vars => [\A c \in Cores : Ends(c) => Right(c)]_vars
  BY <1>2
<1> HIDE DEF Ends, Right
<1>4. Spec => [][\A c \in Cores : Ends(c) => Right(c)]_vars
  BY <1>1, <1>3, InitInv, TypeStep, ShapeStep, ClearedStep, WalkStep, PTL DEF Spec
<1> QED
  BY <1>4 DEF TriggersInForce, Ends, Right
=============================================================================
