------------------------------ MODULE EventList ------------------------------
(***************************************************************************)
(* The list of the events of one type (Debugger.c): an IOCTL registers,    *)
(* changes and removes events while every core, in VMX root mode, walks    *)
(* the list at each exit and performs the actions of the events that match.*)
(* No lock is taken.  An event is removed by disabling it, terminating it  *)
(* on all cores, unlinking it and freeing it, and the broadcast of the     *)
(* termination is what separates a core that still performs the event from *)
(* the freeing of its buffers.                                             *)
(***************************************************************************)
EXTENDS Integers, Sequences

CONSTANTS Cores,      \* the cores that take exits
          Events,     \* the pools of events
          Params,     \* what an exit is about: a vector, a port, a process...
          Filters,    \* bound: the conditions events are registered with
          MaxActions, \* bound: the actions of an event
          Broadcast,  \* the type is terminated by a broadcast (not cpuid, vmcall)
          Refusal,    \* applying a new event may be refused
          Passing,    \* a core may stand on an event that is being freed
          Reenabling, \* a script may enable an event that is being cleared
          NonRoot,    \* walks run in VMX non-root mode (detours), so that they
                      \* can be interrupted by the broadcast
          Replacing   \* the first event that matches replaces the context
                      \* (reads and writes of hidden hooks, detours)

All == "all"
Head0 == "head"
Nodes == Events \cup {Head0}

ASSUME EventListConstants ==
    /\ All \notin Cores \cup Params /\ {Head0, "out"} \cap Events = {}
    /\ Filters \subseteq [core : Cores \cup {All}, param : Params \cup {All}, cond : BOOLEAN]
    /\ MaxActions \in Nat
    /\ {Broadcast, Refusal, Passing, Reenabling, NonRoot, Replacing} \subseteq BOOLEAN

VARIABLES
    mem,     \* of each event: "live" or "freed" (or never allocated)
    next,    \* Flink of the list head and of each event
    event,   \* of each event: enabled, core, param, conditional, actions
    armed,   \* the cores whose controls make exits of this type
    walk,    \* of each core: its place in the list and in the actions
    ioctl,   \* the clearing of events in progress
    seen     \* of each core in a walk: events that were in force all the time,
             \* and events that were in force at some time

vars == <<mem, next, event, armed, walk, ioctl, seen>>

NoEvent == [enabled |-> FALSE, core |-> All, param |-> All, cond |-> FALSE, acts |-> 0]
Out == [at |-> "out", param |-> All, replaced |-> FALSE, todo |-> 0, done |-> <<>>]
NoIoctl == [op |-> "idle", at |-> Head0, all |-> FALSE, left |-> {}]

\* The links from n on, up to the head: what is in every set that has n and
\* with an event the node the event links to.
Chain(links, n) ==
    {m \in Nodes : \A S \in SUBSET Nodes :
        n \in S /\ (\A k \in S \cap Events : links[k] \in S) => m \in S}

InList == Chain(next, next[Head0]) \ {Head0}
DebuggerIsTagValid(e) == e \in InList

Init ==
    /\ mem = [e \in Events |-> "freed"]
    /\ next = [n \in Nodes |-> Head0]
    /\ event = [e \in Events |-> NoEvent]
    /\ armed = {}
    /\ walk = [c \in Cores |-> Out]
    /\ ioctl = NoIoctl
    /\ seen = [c \in Cores |-> [must |-> {}, may |-> {}]]

-----------------------------------------------------------------------------
(* A core at an exit. *)

\* The core the event was registered for.
OnCore(e, c) == event[e].core \in {All, c}

\* What the event was registered for: its interrupt, port, MSR, ..., process.
ContextMatches(e, x) == event[e].param \in {All, x}

Matches(e, c, x) == OnCore(e, c) /\ ContextMatches(e, x)

Entered(x) == [at |-> Head0, param |-> x, replaced |-> FALSE, todo |-> 0, done |-> <<>>]

\* An exit of the type: the walk starts at the head of the list.  (The flag
\* g_EnableDebuggerEvents is set before there are events and never cleared.)
VmExit(c, x) ==
    /\ walk[c].at = "out" /\ c \in armed
    /\ walk' = [walk EXCEPT ![c] = Entered(x)]
    /\ UNCHANGED <<mem, next, event, armed, ioctl>>

\* Mutant: an event that does not match ends the walk.
StopAtMismatch(c, n, performs) ==
    IF performs THEN [walk[c] EXCEPT !.at = n, !.todo = event[n].acts,
                                     !.done = Append(@, n)]
                ELSE Out
\* The core moves to an event, and performs its actions or passes over it.
Arrived(c, n, performs) ==
    IF performs THEN [walk[c] EXCEPT !.at = n, !.todo = event[n].acts,
                                     !.done = Append(@, n)]
                ELSE [walk[c] EXCEPT !.at = n]

\* What the comparison with an event can say: once the context is replaced by
\* the virtual address, it is read as if it still were the structure.
ContextTest(e, c) ==
    IF walk[c].replaced THEN BOOLEAN ELSE {ContextMatches(e, walk[c].param)}

\* The context of the walk, after an event was compared with it.
Context(w, matched) == [w EXCEPT !.replaced = @ \/ (Replacing /\ matched)]

\* One turn of the loop: the next event is performed if it is enabled, it
\* matches, and its condition, if it has one, holds.
DebuggerTriggerEvents(c) ==
    LET n == next[walk[c].at] IN
    /\ walk[c].at # "out" /\ walk[c].todo = 0
    /\ IF n = Head0
       THEN walk' = [walk EXCEPT ![c] = Out]
       ELSE \E test \in ContextTest(n, c) :
              LET matched == event[n].enabled /\ OnCore(n, c) /\ test IN
              \/ walk' = [walk EXCEPT ![c] = Context(Arrived(c, n, matched), matched)]
              \/ /\ matched /\ event[n].cond
                 /\ walk' = [walk EXCEPT ![c] = Context(Arrived(c, n, FALSE), matched)]
    /\ UNCHANGED <<mem, next, event, armed, ioctl>>

DebuggerEnableEvent(e) == event' = [event EXCEPT ![e].enabled = TRUE]
DebuggerDisableEvent(e) == event' = [event EXCEPT ![e].enabled = FALSE]

\* The event is disabled, to be terminated and removed.
BeingCleared(e) == ioctl.op # "idle" /\ (ioctl.all \/ ioctl.at = e)

\* One action: a script, which may enable or disable an event of the list, a
\* custom code or a break.
DebuggerPerformActions(c) ==
    /\ walk[c].todo > 0
    /\ walk' = [walk EXCEPT ![c].todo = @ - 1]
    /\ \/ UNCHANGED event
       \/ \E e \in InList : (Reenabling \/ ~BeingCleared(e)) /\ DebuggerEnableEvent(e)
       \/ \E e \in InList : DebuggerDisableEvent(e)
    /\ UNCHANGED <<mem, next, armed, ioctl>>

-----------------------------------------------------------------------------
(* The IOCTL thread. *)

Idle == ioctl.op = "idle"
Referred(e) == \E c \in Cores : walk[c].at = e

DebuggerCreateEvent(f) ==
    [enabled |-> FALSE, core |-> f.core, param |-> f.param, cond |-> f.cond, acts |-> 0]

DebuggerRegisterEvent(e) == next' = [next EXCEPT ![e] = next[Head0], ![Head0] = e]

\* A new event is disabled and enters the list at its head; the controls of
\* all cores are set for it.  If that is refused the event is removed.
DebuggerParseEventFromUsermode(e, f, applied) ==
    /\ Idle /\ (applied \/ Refusal)
    /\ mem[e] = "freed" /\ ~Referred(e)
    /\ mem' = [mem EXCEPT ![e] = "live"]
    /\ event' = [event EXCEPT ![e] = DebuggerCreateEvent(f)]
    /\ DebuggerRegisterEvent(e)
    /\ IF applied
       THEN armed' = Cores /\ UNCHANGED ioctl
       ELSE /\ ioctl' = [NoIoctl EXCEPT !.op = "unlink", !.at = e]
            /\ UNCHANGED armed
    /\ UNCHANGED walk

\* An action, or its buffer, may fail to be allocated.
DebuggerAddActionToEvent(e, allocated) == IF allocated THEN event[e].acts + 1 ELSE event[e].acts

\* The event gets an action and is enabled, and it is enabled too when the
\* action could not be added.
DebuggerParseActionFromUsermode(e, allocated) ==
    /\ Idle
    /\ mem[e] = "live"
    /\ event[e].acts < MaxActions
    /\ event' = [event EXCEPT ![e].acts = DebuggerAddActionToEvent(e, allocated),
                              ![e].enabled = TRUE]
    /\ UNCHANGED <<mem, next, armed, walk, ioctl>>

DebuggerEnableOrDisableAllEvents(enable) ==
    event' = [e \in Events |-> IF DebuggerIsTagValid(e) THEN [event[e] EXCEPT !.enabled = enable]
                                                        ELSE event[e]]

\* Enabling and disabling one event, or all of them.
DebuggerParseEventsModificationFromUsermode ==
    /\ Idle
    /\ \/ \E e \in InList : DebuggerEnableEvent(e) \/ DebuggerDisableEvent(e)
       \/ \E enable \in BOOLEAN : DebuggerEnableOrDisableAllEvents(enable)
    /\ UNCHANGED <<mem, next, armed, walk, ioctl>>

Clear(e, all) ==
    /\ ioctl' = [op |-> "terminate", at |-> e, all |-> all, left |-> Cores]
    /\ UNCHANGED <<mem, next, armed, walk>>

\* Mutant: the event is still enabled when it is terminated.
ClearWithoutDisabling(e) ==
    Idle /\ UNCHANGED event /\ Clear(e, FALSE)
\* Clearing begins by disabling.
ClearEvent(e) ==
    Idle /\ DebuggerDisableEvent(e) /\ Clear(e, FALSE)
ClearAllEvents ==
    /\ Idle /\ next[Head0] # Head0
    /\ DebuggerEnableOrDisableAllEvents(FALSE)
    /\ Clear(next[Head0], TRUE)

\* The termination is broadcast: a core serves it when it is out of VMX root
\* mode, where the walks of most types are, and keeps its control if the list
\* has other events.
TerminateOnCore(c) ==
    /\ ioctl.op = "terminate" /\ Broadcast
    /\ c \in ioctl.left
    /\ walk[c].at = "out" \/ NonRoot
    /\ ioctl' = [ioctl EXCEPT !.left = @ \ {c}]
    /\ armed' = IF InList = {ioctl.at} THEN armed \ {c} ELSE armed
    /\ UNCHANGED <<mem, next, event, walk>>

\* The loops over all events go on with the next event of the list.
Last(e) == ~ioctl.all \/ next[e] = Head0

\* Mutant: terminating all events starts from the head again each time.
FromTheHead == [ioctl EXCEPT !.at = next[Head0], !.left = Cores]
TerminateNext == [ioctl EXCEPT !.at = next[@], !.left = Cores]

\* Events of the other types are terminated by a global flag.  After the last
\* event the events are removed, from the head of the list if it is all of them.
DebuggerTerminateEvent ==
    /\ ioctl.op = "terminate"
    /\ Broadcast => ioctl.left = {}
    /\ ioctl' = IF Last(ioctl.at)
                THEN [ioctl EXCEPT !.op = "unlink", !.at = IF ioctl.all THEN next[Head0] ELSE @,
                                   !.left = {}]
                ELSE TerminateNext
    /\ armed' = IF InList = {ioctl.at} THEN {} ELSE armed
    /\ UNCHANGED <<mem, next, event, walk>>

RemoveEntryList(e) == next' = [n \in Nodes |-> IF n # e /\ next[n] = e THEN next[e] ELSE next[n]]

\* The event is disabled again and unlinked; its own links stay.
DebuggerRemoveEventFromEventList ==
    /\ ioctl.op = "unlink"
    /\ RemoveEntryList(ioctl.at)
    /\ DebuggerDisableEvent(ioctl.at)
    /\ ioctl' = [ioctl EXCEPT !.op = "free"]
    /\ UNCHANGED <<mem, armed, walk>>

\* The actions and the event are freed, and DebuggerRemoveAllEvents then takes
\* the next event from the freed one, before anything else is allocated there.
\* What the memory holds later is of no account unless a core still reads it.
DebuggerRemoveEvent ==
    LET e == ioctl.at IN
    /\ ioctl.op = "free"
    /\ Passing \/ \A c \in Cores : walk[c].at = e => walk[c].todo > 0
    /\ mem' = [mem EXCEPT ![e] = "freed"]
    /\ event' = [event EXCEPT ![e] = NoEvent]
    /\ next' = [next EXCEPT ![e] = Head0]
    /\ ioctl' = IF Last(e) THEN NoIoctl ELSE [ioctl EXCEPT !.op = "unlink", !.at = next[e]]
    /\ UNCHANGED <<armed, walk>>

-----------------------------------------------------------------------------
CoreStep(c) == (\E x \in Params : VmExit(c, x)) \/ DebuggerTriggerEvents(c)
               \/ DebuggerPerformActions(c)

Request ==
    \/ \E e \in Events, f \in Filters, applied \in BOOLEAN :
          DebuggerParseEventFromUsermode(e, f, applied)
    \/ \E e \in Events, allocated \in BOOLEAN : DebuggerParseActionFromUsermode(e, allocated)
    \/ DebuggerParseEventsModificationFromUsermode
    \/ \E e \in InList : ClearEvent(e)
    \/ ClearAllEvents

Clearing == (\E c \in Cores : TerminateOnCore(c)) \/ DebuggerTerminateEvent
            \/ DebuggerRemoveEventFromEventList \/ DebuggerRemoveEvent

\* The events that are in force for the exit a core handles.
InForce(c) == {e \in Events : event[e].enabled /\ Matches(e, c, walk[c].param) /\ e \in InList}

\* The history of every walk.
Observe ==
    seen' = [c \in Cores |->
        IF walk'[c].at = "out" THEN [must |-> {}, may |-> {}]
        ELSE IF walk[c].at = "out"
             THEN [must |-> {e \in InForce(c)' : ~event'[e].cond}, may |-> InForce(c)']
             ELSE [must |-> seen[c].must \cap InForce(c)', may |-> seen[c].may \cup InForce(c)']]

Next == ((\E c \in Cores : CoreStep(c)) \/ Request \/ Clearing) /\ Observe

Spec == Init /\ [][Next]_vars

(***************************************************************************)
(* A core finishes its walk; the IOCTL thread goes on; and an interrupt    *)
(* that waits for a core is delivered when the core leaves VMX root mode,  *)
(* however often exits recur.                                              *)
(***************************************************************************)
FairSpec ==
    /\ Spec
    /\ \A c \in Cores : /\ WF_vars((DebuggerTriggerEvents(c) \/ DebuggerPerformActions(c)) /\ Observe)
                        /\ SF_vars(TerminateOnCore(c) /\ Observe)
    /\ WF_vars((DebuggerTerminateEvent \/ DebuggerRemoveEventFromEventList
                \/ DebuggerRemoveEvent) /\ Observe)

-----------------------------------------------------------------------------
EventRecord == [enabled : BOOLEAN, core : Cores \cup {All}, param : Params \cup {All},
                cond : BOOLEAN, acts : 0..MaxActions]
WalkRecord == [at : Nodes \cup {"out"}, param : Params \cup {All}, replaced : BOOLEAN,
               todo : 0..MaxActions, done : Seq(Events)]
IoctlRecord == [op : {"idle", "terminate", "unlink", "free"}, at : Nodes, all : BOOLEAN,
                left : SUBSET Cores]

TypeOK ==
    /\ mem \in [Events -> {"live", "freed"}]
    /\ next \in [Nodes -> Nodes]
    /\ event \in [Events -> EventRecord]
    /\ armed \subseteq Cores
    /\ walk \in [Cores -> WalkRecord]
    /\ ioctl \in IoctlRecord
    /\ seen \in [Cores -> [must : SUBSET Events, may : SUBSET Events]]

\* A core that performs the actions of an event finds them: the buffers of
\* an event are freed only after every core that had begun to perform it is
\* through, although nothing but the broadcast makes the IOCTL wait, and scripts
\* on the cores enable and disable events all the while.  It needs the broadcast
\* to wait for walks and no script to enable what is being cleared.
PerformedIntact == \A c \in Cores : walk[c].todo > 0 => mem[walk[c].at] = "live"

\* "we first disable the tag(s) and this way the debugger no longer use that
\* event and this way we can safely remove and deallocate the buffers": no
\* core stands on an event that has been freed.
WalkedIntact == \A c \in Cores : walk[c].at \in Events => mem[walk[c].at] = "live"

\* The events a walk has performed.
Performed(c) == {walk[c].done[i] : i \in DOMAIN walk[c].done}

\* An exit performs every event that is in force while it is handled, at
\* most once, and none that was disabled or removed before it began,
\* whatever is registered, changed or removed meanwhile, as long as the context
\* the events are compared with is not replaced during the walk.
TriggersInForce ==
    [][\A c \in Cores :
        (walk[c].at # "out" /\ walk'[c].at = "out") =>
            /\ seen[c].must \subseteq Performed(c)
            /\ Performed(c) \subseteq seen[c].may
            /\ \A i, j \in DOMAIN walk[c].done : walk[c].done[i] = walk[c].done[j] => i = j]_vars

\* Clearing events ends, even if exits never cease.
ClearEnds == ioctl.op # "idle" ~> ioctl.op = "idle"
=============================================================================
