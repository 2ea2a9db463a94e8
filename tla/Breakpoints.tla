----------------------------- MODULE Breakpoints -----------------------------
(* Software breakpoints of the kernel debugger: the descriptors and the byte *)
(* each one replaces (BreakpointCommands.c), the restore and re-apply over a *)
(* single step (Mtf.c), and the 'bp', 'be', 'bd', 'bc' and step commands     *)
(* that run while the system is halted.  The halt itself is KdHalt's: here a *)
(* core that breaks becomes the operating core and every other core stops.   *)
EXTENDS Integers

CONSTANTS
    Cores,
    Addrs,                \* guest-virtual addresses a core executes at
    PhysAddress,          \* [Addrs -> physical address]
    GuestInt3,            \* physical addresses where the guest itself has 0xcc
    BpAddrs,              \* addresses the operator gives to 'bp'
    Scopes,               \* values of the 'core' argument: AllCores or a core
    MaxBreakpointId,      \* bound on the number of 'bp' commands
    QuietCommands         \* the operator's discipline, see Quiet and QuietStep

AllCores == -1         \* DEBUGGEE_BP_APPLY_TO_ALL_CORES
NoCore   == -2
NoBp     == 0
Ids      == 1 .. MaxBreakpointId
Phys     == {PhysAddress[a] : a \in Addrs}

ASSUME BreakpointConstants ==
    /\ PhysAddress \in [Addrs -> Phys]
    /\ GuestInt3 \subseteq Phys
    /\ BpAddrs \subseteq Addrs
    /\ MaxBreakpointId \in Nat
    /\ QuietCommands \in BOOLEAN
    /\ Cores \subseteq Nat

VARIABLES
    mem,                  \* guest code byte at each physical address
    desc,                 \* the descriptor structures, by breakpoint id
    list,                 \* ids linked in g_BreakpointsListHead
    lastId,               \* g_MaximumBreakpointId
    kd,                   \* g_KernelDebuggerState
    pc, rip,              \* where each core is, and the guest's RIP
    from,                 \* the exit a core is handling
    hit,                  \* CurrentBreakpointDesc of the handler
    swBp,                 \* DebuggingState.SoftwareBreakpointState
    mtf, ignoreUnset,     \* monitor trap flag, IgnoreMtfUnset
    stepWait,             \* WaitForInstrumentationStepInMtf
    IF_,                  \* RFLAGS.IF; the guest itself runs with it set
    overlapped,           \* history: cores that stepped over one breakpoint together
    operating, stopped    \* the operating core and the cores it holds

bpVars   == <<mem, desc, list, lastId, kd>>
coreVars == <<pc, rip, from, hit>>
mtfVars  == <<swBp, mtf, ignoreUnset, stepWait>>
ifVars   == <<IF_, overlapped>>
haltVars == <<operating, stopped>>
vars     == <<bpVars, coreVars, mtfVars, ifVars, haltVars>>

Bytes == {"cc", "op"}
OwnByte(p) == IF p \in GuestInt3 THEN "cc" ELSE "op"

\* DEBUGGEE_BP_DESCRIPTOR
Descriptor ==
    [addr : Addrs, prev : Bytes, Enabled : BOOLEAN, AvoidReApply : BOOLEAN,
     SetRflagsIF : BOOLEAN, Core : Scopes]

TypeOK ==
    /\ mem \in [Phys -> Bytes]
    /\ lastId \in 0 .. MaxBreakpointId
    /\ desc \in [1 .. lastId -> Descriptor]
    /\ list \subseteq 1 .. lastId
    /\ kd \in BOOLEAN
    /\ pc \in [Cores -> {"guest", "trap", "lock", "halt", "rearm", "mtf", "mtfEnd"}]
    /\ rip \in [Cores -> Addrs]
    /\ from \in [Cores -> {"none", "bp", "mtf", "pause"}]
    /\ hit \in [Cores -> 0 .. lastId]
    /\ swBp \in [Cores -> 0 .. lastId]
    /\ mtf \in [Cores -> BOOLEAN]
    /\ ignoreUnset \in [Cores -> BOOLEAN]
    /\ stepWait \in [Cores -> BOOLEAN]
    /\ IF_ \in [Cores -> BOOLEAN]
    /\ overlapped \subseteq Cores
    /\ operating \in Cores \cup {NoCore}
    /\ stopped \subseteq Cores

Init ==
    /\ mem = [p \in Phys |-> OwnByte(p)]
    /\ lastId = 0 /\ desc = <<>> /\ list = {} /\ kd = TRUE
    /\ pc = [c \in Cores |-> "guest"]
    /\ rip \in [Cores -> Addrs]
    /\ from = [c \in Cores |-> "none"]
    /\ hit = [c \in Cores |-> NoBp]
    /\ swBp = [c \in Cores |-> NoBp]
    /\ mtf = [c \in Cores |-> FALSE]
    /\ ignoreUnset = mtf /\ stepWait = mtf
    /\ IF_ = [c \in Cores |-> TRUE]
    /\ overlapped = {} /\ operating = NoCore /\ stopped = {}

PhysOf(id) == PhysAddress[desc[id].addr]
-----------------------------------------------------------------------------
(* Searching the list: the newest breakpoint is at its head.                 *)

Newest(S) == IF S = {} THEN NoBp ELSE CHOOSE i \in S : \A j \in S : j <= i

BreakpointGetEntryByAddress(a) == Newest({i \in list : desc[i].addr = a})

\* The first entry whose PhysAddress is the physical address of the RIP.
EntryAt(a) == Newest({i \in list : PhysOf(i) = PhysAddress[a]})

\* The filter on the core (process and thread are filtered in the same way).
InScope(c, id) == desc[id].Core \in {AllCores, c}
-----------------------------------------------------------------------------
(* The guest.                                                                *)

\* One guest instruction: 0xcc causes a #BP exit, any other instruction runs
\* and, with the monitor trap flag set, exits after it.
GuestInstruction(c) ==
    /\ pc[c] = "guest" /\ c \notin stopped
    /\ IF mem[PhysAddress[rip[c]]] = "cc"
       THEN /\ pc' = [pc EXCEPT ![c] = "trap"]
            /\ UNCHANGED rip
       ELSE /\ pc' = [pc EXCEPT ![c] = IF mtf[c] THEN "mtf" ELSE "guest"]
            /\ \E a \in Addrs : rip' = [rip EXCEPT ![c] = a]
    /\ UNCHANGED <<from, hit, bpVars, mtfVars, ifVars, haltVars>>
-----------------------------------------------------------------------------
(* BreakpointCheckAndHandleDebuggerDefinedBreakpoints, up to the halt: the   *)
(* byte is restored in m, and the handler halts if the filter matches.       *)

Lookup(c, exit, m) ==
    LET id == EntryAt(rip[c]) IN
    /\ from' = [from EXCEPT ![c] = exit]
    /\ hit' = [hit EXCEPT ![c] = id]
    /\ IF id = NoBp
       THEN /\ mem' = m
            /\ pc' = [pc EXCEPT ![c] = "lock"]
       ELSE /\ mem' = [m EXCEPT ![PhysOf(id)] = desc[id].prev]
            /\ pc' = [pc EXCEPT ![c] = IF InScope(c, id) THEN "lock" ELSE "rearm"]

\* BreakpointHandleBpTraps: with no kernel debugger the #BP goes to the guest,
\* whose own handler steps over the instruction.
BreakpointHandleBpTraps(c) ==
    /\ pc[c] = "trap"
    /\ IF kd
       THEN Lookup(c, "bp", mem) /\ UNCHANGED rip
       ELSE /\ pc' = [pc EXCEPT ![c] = "guest"]
            /\ \E a \in Addrs : rip' = [rip EXCEPT ![c] = a]
            /\ UNCHANGED <<mem, from, hit>>
    /\ UNCHANGED <<desc, list, lastId, kd, mtfVars, ifVars, haltVars>>

\* Mutant: AvoidReApplyBreakpoint is not looked at.
RearmAlways(c) ==
    /\ pc[c] = "rearm"
    /\ swBp' = [swBp EXCEPT ![c] = hit[c]]
    /\ mtf' = [mtf EXCEPT ![c] = TRUE]
    /\ ignoreUnset' = [ignoreUnset EXCEPT ![c] = from[c] = "mtf"]
    /\ hit' = [hit EXCEPT ![c] = NoBp]
    /\ from' = [from EXCEPT ![c] = "none"]
    /\ pc' = [pc EXCEPT ![c] = IF from[c] = "mtf" THEN "mtfEnd" ELSE "guest"]
    /\ UNCHANGED <<bpVars, rip, stepWait, ifVars, haltVars>>

\* The rest of the handler, after the halt: unless the breakpoint was cleared,
\* single-step over it with interrupts masked.
Rearm(c) ==
    LET id == hit[c]
        again == ~desc[id].AvoidReApply
        masks == again /\ IF_[c] IN
    /\ pc[c] = "rearm"
    /\ swBp' = IF again THEN [swBp EXCEPT ![c] = id] ELSE swBp
    /\ mtf' = [mtf EXCEPT ![c] = @ \/ again]
    /\ IF_' = [IF_ EXCEPT ![c] = @ /\ ~masks]
    /\ desc' = [desc EXCEPT ![id].SetRflagsIF = @ \/ masks]
    /\ overlapped' = LET others == {d \in Cores \ {c} : swBp[d] = id} IN
                     IF again /\ others # {} THEN overlapped \cup others \cup {c}
                     ELSE overlapped
    /\ ignoreUnset' = IF from[c] = "mtf" THEN [ignoreUnset EXCEPT ![c] = again]
                      ELSE ignoreUnset
    /\ hit' = [hit EXCEPT ![c] = NoBp]
    /\ from' = [from EXCEPT ![c] = "none"]
    /\ pc' = [pc EXCEPT ![c] = IF from[c] = "mtf" THEN "mtfEnd" ELSE "guest"]
    /\ UNCHANGED <<mem, list, lastId, kd, rip, stepWait, haltVars>>
-----------------------------------------------------------------------------
(* The halt, as the breakpoint code sees it.                                 *)

Halts(c) == operating = NoCore /\ operating' = c /\ stopped' = Cores \ {c}

\* KdHandleBreakpointAndDebugBreakpoints: take the lock and halt the others.
EnterHalt(c) ==
    /\ pc[c] = "lock" /\ c \notin stopped
    /\ Halts(c)
    /\ pc' = [pc EXCEPT ![c] = "halt"]
    /\ UNCHANGED <<rip, from, hit, bpVars, mtfVars, ifVars>>

\* The debugger asks for a break: a core in the guest becomes operating.
PauseBreak(c) ==
    /\ kd /\ pc[c] = "guest" /\ stopped = {}
    /\ Halts(c)
    /\ pc' = [pc EXCEPT ![c] = "halt"]
    /\ from' = [from EXCEPT ![c] = "pause"]
    /\ UNCHANGED <<rip, hit, bpVars, mtfVars, ifVars>>

\* A command is read when every other core has come to rest.
Reads(c) ==
    /\ operating = c /\ pc[c] = "halt"
    /\ \A d \in Cores \ {c} : pc[d] \in {"guest", "lock"}

\* Where the halted handler goes on: over an int3 of the guest's own, to the
\* re-apply code, to the end of the MTF exit, or back to the guest.
Resume(c) ==
    /\ operating' = NoCore
    /\ pc' = [pc EXCEPT ![c] = IF hit[c] # NoBp THEN "rearm"
                               ELSE IF from[c] = "mtf" THEN "mtfEnd" ELSE "guest"]
    /\ IF hit[c] = NoBp /\ from[c] = "bp"
       THEN \E a \in Addrs : rip' = [rip EXCEPT ![c] = a]
       ELSE UNCHANGED rip
    /\ from' = [from EXCEPT ![c] = IF hit[c] = NoBp THEN "none" ELSE @]
    /\ UNCHANGED <<hit, bpVars, swBp, ifVars>>

\* KdContinueDebuggee
Continue(c) ==
    /\ Reads(c)
    /\ stopped' = {}
    /\ Resume(c)
    /\ UNCHANGED <<mtf, ignoreUnset, stepWait>>

\* The core did not step onto a breakpoint that has been disabled or cleared.
QuietStep(c) == ~(from[c] = "mtf" /\ hit[c] # NoBp /\ desc[hit[c]].AvoidReApply)

\* KdGuaranteedStepInstruction, and only this core goes on.
StepIn(c) ==
    /\ Reads(c) /\ (QuietCommands => QuietStep(c))
    /\ UNCHANGED stopped
    /\ stepWait' = [stepWait EXCEPT ![c] = TRUE]
    /\ ignoreUnset' = [ignoreUnset EXCEPT ![c] = TRUE]
    /\ mtf' = [mtf EXCEPT ![c] = TRUE]
    /\ Resume(c)
-----------------------------------------------------------------------------
(* MtfHandleVmexit                                                           *)

\* Mutant: the breakpoint that was stepped over is not written again.
MtfForgetsBreakpoint(c) == mem

\* The memory after the breakpoint being stepped over is re-applied.
Reapplied(c) == IF swBp[c] = NoBp THEN mem ELSE [mem EXCEPT ![PhysOf(swBp[c])] = "cc"]

\* Mutant: the interrupt flag stays masked.
MtfKeepsMask(c) ==
    /\ swBp' = [swBp EXCEPT ![c] = NoBp]
    /\ UNCHANGED <<desc, IF_>>

\* SoftwareBreakpointState is consumed and the interrupt flag set again.
Unmask(c) ==
    LET id == swBp[c]
        sets == id # NoBp /\ desc[id].SetRflagsIF IN
    /\ IF_' = [IF_ EXCEPT ![c] = @ \/ sets]
    /\ desc' = IF sets THEN [desc EXCEPT ![id].SetRflagsIF = FALSE] ELSE desc
    /\ swBp' = [swBp EXCEPT ![c] = NoBp]

MtfHandleVmexit(c) ==
    /\ pc[c] = "mtf"
    /\ Unmask(c)
    /\ stepWait' = [stepWait EXCEPT ![c] = FALSE]
    /\ ignoreUnset' = [ignoreUnset EXCEPT ![c] = FALSE]
    /\ IF stepWait[c]
       THEN Lookup(c, "mtf", Reapplied(c))
       ELSE /\ mem' = Reapplied(c)
            /\ pc' = [pc EXCEPT ![c] = "mtfEnd"]
            /\ UNCHANGED <<from, hit>>
    /\ UNCHANGED <<list, lastId, kd, rip, mtf, overlapped, haltVars>>

\* Mutant: the flag is cleared although a step or a breakpoint needs it.
MtfAlwaysUnset(c) ==
    /\ pc[c] = "mtfEnd"
    /\ mtf' = [mtf EXCEPT ![c] = FALSE]
    /\ ignoreUnset' = [ignoreUnset EXCEPT ![c] = FALSE]
    /\ pc' = [pc EXCEPT ![c] = "guest"]
    /\ UNCHANGED <<rip, from, hit, bpVars, swBp, stepWait, ifVars, haltVars>>

\* The end of the exit: unset the flag, once ignoring a request to keep it.
MtfEnd(c) ==
    /\ pc[c] = "mtfEnd"
    /\ mtf' = [mtf EXCEPT ![c] = @ /\ ignoreUnset[c]]
    /\ ignoreUnset' = [ignoreUnset EXCEPT ![c] = FALSE]
    /\ pc' = [pc EXCEPT ![c] = "guest"]
    /\ UNCHANGED <<rip, from, hit, bpVars, swBp, stepWait, ifVars, haltVars>>
-----------------------------------------------------------------------------
(* The commands of the operating core.                                       *)

\* No core is stepping over the breakpoint or waits behind this halt with it.
Quiet(c, id) == \A d \in Cores : swBp[d] # id /\ (hit[d] = id => d = c)

MayModify(c, id) == Reads(c) /\ id \in list /\ (QuietCommands => Quiet(c, id))

\* BreakpointWrite on an address that is safe to access.
BreakpointWrite(d) ==
    [d EXCEPT !.prev = mem[PhysAddress[d.addr]], !.Enabled = TRUE, !.AvoidReApply = FALSE]

\* BreakpointAddNew: refused for an address already in the list (and when the
\* pool manager has no descriptor left).
BreakpointAddNew(c, a, scope) ==
    LET new == [addr |-> a, prev |-> "op", Enabled |-> TRUE, AvoidReApply |-> FALSE,
                SetRflagsIF |-> FALSE, Core |-> scope] IN
    /\ Reads(c) /\ lastId < MaxBreakpointId
    /\ BreakpointGetEntryByAddress(a) = NoBp
    /\ lastId' = lastId + 1
    /\ desc' = [i \in 1 .. lastId' |-> IF i <= lastId THEN desc[i] ELSE BreakpointWrite(new)]
    /\ list' = list \cup {lastId'}
    /\ mem' = [mem EXCEPT ![PhysAddress[a]] = "cc"]
    /\ UNCHANGED <<kd, coreVars, mtfVars, ifVars, haltVars>>

\* 'be'; an address not mapped in the current process is left as it is.
Enable(c, id, safe) ==
    /\ MayModify(c, id) /\ ~desc[id].Enabled
    /\ IF safe
       THEN /\ desc' = [desc EXCEPT ![id] = BreakpointWrite(@)]
            /\ mem' = [mem EXCEPT ![PhysOf(id)] = "cc"]
       ELSE UNCHANGED <<desc, mem>>
    /\ UNCHANGED <<list, lastId, kd, coreVars, mtfVars, ifVars, haltVars>>

\* BreakpointClear: an address that is not safe is cleared if it still has 0xcc.
ClearedMem(id, safe, m) ==
    IF safe \/ m[PhysOf(id)] = "cc" THEN [m EXCEPT ![PhysOf(id)] = desc[id].prev] ELSE m

ClearedDesc(id, safe, m) ==
    IF safe \/ m[PhysOf(id)] = "cc"
    THEN [desc[id] EXCEPT !.Enabled = FALSE, !.AvoidReApply = TRUE] ELSE desc[id]

BreakpointClear(id, safe) ==
    /\ mem' = ClearedMem(id, safe, mem)
    /\ desc' = [desc EXCEPT ![id] = ClearedDesc(id, safe, mem)]

\* 'bd'
Disable(c, id, safe) ==
    /\ MayModify(c, id) /\ desc[id].Enabled
    /\ BreakpointClear(id, safe)
    /\ UNCHANGED <<list, lastId, kd, coreVars, mtfVars, ifVars, haltVars>>

\* 'bc': cleared, unlinked and its structure given back to the pool.
Clear(c, id, safe) ==
    /\ MayModify(c, id)
    /\ BreakpointClear(id, safe)
    /\ list' = list \ {id}
    /\ UNCHANGED <<lastId, kd, coreVars, mtfVars, ifVars, haltVars>>

\* KdUninitializeKernelDebugger: from the guest, every breakpoint is removed,
\* newest first.
BreakpointRemoveAllBreakpoints ==
    /\ kd /\ operating = NoCore /\ stopped = {}
    /\ \A c \in Cores : pc[c] = "guest"
    /\ QuietCommands => \A c \in Cores : swBp[c] = NoBp
    /\ kd' = FALSE
    /\ mem' = [p \in Phys |->
                 LET at == {i \in list : PhysOf(i) = p} IN
                 IF at = {} THEN mem[p]
                 ELSE desc[CHOOSE i \in at : \A j \in at : i <= j].prev]
    /\ desc' = [i \in 1 .. lastId |->
                  IF i \in list THEN [desc[i] EXCEPT !.Enabled = FALSE, !.AvoidReApply = TRUE]
                  ELSE desc[i]]
    /\ list' = {}
    /\ UNCHANGED <<lastId, coreVars, mtfVars, ifVars, haltVars>>
-----------------------------------------------------------------------------
CoreStep(c) ==
    \/ BreakpointHandleBpTraps(c)
    \/ EnterHalt(c)
    \/ Rearm(c)
    \/ MtfHandleVmexit(c)
    \/ MtfEnd(c)

Command(c) ==
    \/ Continue(c)
    \/ StepIn(c)
    \/ \E a \in BpAddrs, scope \in Scopes : BreakpointAddNew(c, a, scope)
    \/ \E id \in list, safe \in BOOLEAN :
       /\ hit[c] = id => safe    \* the core has just executed at the address
       /\ Enable(c, id, safe) \/ Disable(c, id, safe) \/ Clear(c, id, safe)

Next ==
    \/ \E c \in Cores :
         GuestInstruction(c) \/ CoreStep(c) \/ PauseBreak(c) \/ Command(c)
    \/ BreakpointRemoveAllBreakpoints

Spec == Init /\ [][Next]_vars
-----------------------------------------------------------------------------
\* A core that has taken the byte of breakpoint id out and will put it back.
Lifted(c, id) == swBp[c] = id \/ hit[c] = id

\* The guest's code differs from what it was only by the 0xcc of breakpoints
\* that are listed and enabled: clearing, disabling and closing the debugger
\* leave no int3 behind, and an int3 of the guest's own is never lost
\* (BreakpointClear, BreakpointWrite's previous byte, MtfHandleVmexit's re-apply).
NoStrayInt3 ==
    \A p \in Phys : mem[p] # OwnByte(p) =>
        mem[p] = "cc" /\ \E i \in list : PhysOf(i) = p /\ desc[i].Enabled

\* An enabled breakpoint is in memory, or a core is stepping over it and will
\* re-apply it (BreakpointCheckAndHandleDebuggerDefinedBreakpoints, Mtf.c).
EnabledArmed ==
    \A i \in list :
        desc[i].Enabled => mem[PhysOf(i)] = "cc" \/ \E c \in Cores : Lifted(c, i)

\* A core that runs the guest with no breakpoint to re-apply has the interrupt
\* flag it had before, unless it stepped over one breakpoint together with
\* another core: the flag to restore is kept in the shared descriptor.
InterruptFlagKept ==
    \A c \in Cores :
        pc[c] = "guest" /\ swBp[c] = NoBp => IF_[c] \/ c \in overlapped

\* A core that enters the guest with a step or a re-apply outstanding has the
\* monitor trap flag set, and has it set for no other reason (IgnoreMtfUnset,
\* AvoidUnsetMtf).
MtfIffNeeded ==
    \A c \in Cores :
        pc[c] = "guest" => (mtf[c] <=> stepWait[c] \/ swBp[c] # NoBp)
=============================================================================
