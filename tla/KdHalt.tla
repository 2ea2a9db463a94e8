------------------------------- MODULE KdHalt -------------------------------
(***************************************************************************)
(* How HyperDbg's kernel debugger stops, serves and resumes a multi-core   *)
(* debuggee (Kd.c, VmxBroadcast.c, Mtf.c, IdtEmulation.c).                 *)
(*                                                                         *)
(* A core that hits a break takes DebuggerHandleBreakpointLock, locks its  *)
(* own Lock, broadcasts an NMI and serves the debugger's commands.  A core *)
(* that gets the NMI locks its own Lock and spins on it until a command    *)
(* unlocks it.  An NMI that arrives in vmx-root only sets                  *)
(* WaitingToBeLocked and the monitor trap flag: the core halts in the spin *)
(* on the break lock or at its next MTF vm-exit.                           *)
(*                                                                         *)
(* NmiCalledInVmxRootRelatedToHaltDebuggee is left out: the code reads it  *)
(* only to decide whether to clear it.  Process and thread switching, trap *)
(* flag stepping and the breakpoint and EPT hook uses of the MTF are not   *)
(* part of this module.                                                    *)
(***************************************************************************)
EXTENDS Integers, FiniteSets

CONSTANTS
    N,                    \* number of active processors
    Commands,             \* the debugger's commands that change the halt state
    SettleBeforeCommand,  \* commands arrive only after the broadcast has settled
    BreakWhileStepping    \* events may fire on an instrumented instruction

ASSUME NAssumption == N \in Nat \ {0}
ASSUME CommandsAssumption ==
    Commands \subseteq {"continue", "pauseBreaks", "stepIn", "changeCore"}
ASSUME ModeAssumption ==
    SettleBeforeCommand \in BOOLEAN /\ BreakWhileStepping \in BOOLEAN

VARIABLES
    pc,                            \* where each core is
    bpCaller,                      \* who called KdHandleBreakpointAndDebugBreakpoints
    nmiCaller,                     \* who called KdHandleNmi
    idx,                           \* loop index over the cores, or the target core
    DebuggerHandleBreakpointLock,
    DebuggerResponseLock,
    Lock,                          \* DebuggingState.Lock of each core
    MainDebuggingCore,
    WaitingToBeLocked,
    DoNotNmiNotify,                \* DoNotNmiNotifyOtherCoresByThisCore
    NmiBroadcastAction,
    nmiPending,                    \* the core's NMI latch (hardware)
    nmiBlocked,                    \* NMI blocking after an NMI vm-exit (hardware)
    mtf,                           \* the monitor trap flag control of the VMCS
    IgnoreOneMtf,
    IgnoreMtfUnset,
    WaitForStep,                   \* WaitForInstrumentationStepInMtf
    PauseBreaks,                   \* g_IgnoreBreaksToDebugger
    HaltReason                     \* g_DebuggeeHaltReason

callVars == <<bpCaller, nmiCaller, idx>>
nmiVars  == <<NmiBroadcastAction, nmiPending, nmiBlocked>>
mtfVars  == <<mtf, IgnoreOneMtf, IgnoreMtfUnset, WaitForStep>>
coreVars == <<MainDebuggingCore, WaitingToBeLocked, DoNotNmiNotify>>
lockVars == <<DebuggerHandleBreakpointLock, DebuggerResponseLock, Lock>>
dbgVars  == <<PauseBreaks, HaltReason>>
vars     == <<pc, callVars, nmiVars, mtfVars, coreVars, lockVars, dbgVars>>

Cores == 0 .. N - 1

Locations ==
    {"guest", "exit", "leave", "spin", "check", "lockOwn", "broadcast", "compareExchange",
     "manage", "send", "command", "unlockAll", "switch", "escaped", "park",
     "held", "nmi", "nmiLock", "return", "release", "mtfTail"}

TypeOK ==
    /\ pc \in [Cores -> Locations]
    /\ bpCaller \in [Cores -> {"none", "exit", "mtfTail"}]
    /\ nmiCaller \in [Cores -> {"none", "leave", "mtfTail", "spin"}]
    /\ idx \in [Cores -> 0 .. N]
    /\ DebuggerHandleBreakpointLock \in BOOLEAN
    /\ DebuggerResponseLock \in BOOLEAN
    /\ Lock \in [Cores -> BOOLEAN]
    /\ MainDebuggingCore \in [Cores -> BOOLEAN]
    /\ WaitingToBeLocked \in [Cores -> BOOLEAN]
    /\ DoNotNmiNotify \in [Cores -> BOOLEAN]
    /\ NmiBroadcastAction \in [Cores -> {"NONE", "KD_HALT_CORE"}]
    /\ nmiPending \in [Cores -> BOOLEAN]
    /\ nmiBlocked \in [Cores -> BOOLEAN]
    /\ mtf \in [Cores -> BOOLEAN]
    /\ IgnoreOneMtf \in [Cores -> BOOLEAN]
    /\ IgnoreMtfUnset \in [Cores -> BOOLEAN]
    /\ WaitForStep \in [Cores -> BOOLEAN]
    /\ PauseBreaks \in BOOLEAN
    /\ HaltReason \in {"NOT_PAUSED", "BREAK", "CORE_SWITCHED"}

AllFalse == [c \in Cores |-> FALSE]

\* All cores run the guest, KdInitializeKernelDebugger has run.
Init ==
    /\ pc = [c \in Cores |-> "guest"]
    /\ bpCaller = [c \in Cores |-> "none"]
    /\ nmiCaller = [c \in Cores |-> "none"]
    /\ idx = [c \in Cores |-> 0]
    /\ DebuggerHandleBreakpointLock = FALSE
    /\ DebuggerResponseLock = FALSE
    /\ Lock = AllFalse
    /\ MainDebuggingCore = AllFalse
    /\ WaitingToBeLocked = AllFalse
    /\ DoNotNmiNotify = AllFalse
    /\ NmiBroadcastAction = [c \in Cores |-> "NONE"]
    /\ nmiPending = AllFalse
    /\ nmiBlocked = AllFalse
    /\ mtf = AllFalse
    /\ IgnoreOneMtf = AllFalse
    /\ IgnoreMtfUnset = AllFalse
    /\ WaitForStep = AllFalse
    /\ PauseBreaks = FALSE
    /\ HaltReason = "NOT_PAUSED"

Goto(c, from, to) == pc[c] = from /\ pc' = [pc EXCEPT ![c] = to]

-----------------------------------------------------------------------------
(* The guest, its vm-exits and the NMI                                     *)

\* Any vm-exit other than an NMI or the monitor trap flag.
VmExit(c) ==
    /\ Goto(c, "guest", "exit")
    /\ UNCHANGED <<callVars, nmiVars, mtfVars, coreVars, lockVars, dbgVars>>

VmEntry(c) ==
    /\ pc[c] \in {"exit", "leave"}
    /\ pc' = [pc EXCEPT ![c] = "guest"]
    /\ nmiBlocked' = [nmiBlocked EXCEPT ![c] = FALSE]
    /\ UNCHANGED <<callVars, NmiBroadcastAction, nmiPending, mtfVars, coreVars,
                   lockVars, dbgVars>>

\* The handler of the vm-exit reports a breakpoint, a step or an event.
Break(c) ==
    /\ Goto(c, "exit", "spin")
    /\ BreakWhileStepping \/ ~WaitForStep[c]
    /\ bpCaller' = [bpCaller EXCEPT ![c] = "exit"]
    /\ UNCHANGED <<nmiCaller, idx, nmiVars, mtfVars, coreVars, lockVars, dbgVars>>

\* The awaited message, sent from the guest through a vmcall.
KdResponsePacketToDebugger(c) ==
    /\ pc[c] = "exit"
    /\ PauseBreaks
    /\ ~DebuggerResponseLock
    /\ PauseBreaks' = FALSE
    /\ UNCHANGED <<pc, callVars, nmiVars, mtfVars, coreVars, lockVars, HaltReason>>

\* Mutant: the action is read but not exchanged for NONE.
NmiLeavesAction(c) ==
    /\ nmiPending[c]
    /\ ~WaitForStep[c]
    /\ NmiBroadcastAction[c] = "KD_HALT_CORE"
    /\ Goto(c, "guest", "nmi")
    /\ nmiPending' = [nmiPending EXCEPT ![c] = FALSE]
    /\ nmiBlocked' = [nmiBlocked EXCEPT ![c] = TRUE]
    /\ nmiCaller' = [nmiCaller EXCEPT ![c] = "leave"]
    /\ WaitingToBeLocked' = [WaitingToBeLocked EXCEPT ![c] = TRUE]
    /\ UNCHANGED <<bpCaller, idx, NmiBroadcastAction, mtfVars, MainDebuggingCore,
                   DoNotNmiNotify, lockVars, dbgVars>>

\* An NMI while the guest runs: a vm-exit.  During an instrumented step it is
\* dropped before the broadcast handler sees it.
IdtEmulationHandleNmi(c) ==
    LET handled == ~WaitForStep[c] /\ NmiBroadcastAction[c] = "KD_HALT_CORE" IN
    /\ nmiPending[c]
    /\ Goto(c, "guest", IF handled THEN "nmi" ELSE "leave")
    /\ nmiPending' = [nmiPending EXCEPT ![c] = FALSE]
    /\ nmiBlocked' = [nmiBlocked EXCEPT ![c] = TRUE]
    /\ NmiBroadcastAction' =
           [NmiBroadcastAction EXCEPT ![c] = IF WaitForStep[c] THEN @ ELSE "NONE"]
    /\ nmiCaller' = [nmiCaller EXCEPT ![c] = IF handled THEN "leave" ELSE @]
    /\ WaitingToBeLocked' = [WaitingToBeLocked EXCEPT ![c] = @ \/ handled]
    /\ UNCHANGED <<bpCaller, idx, mtfVars, MainDebuggingCore, DoNotNmiNotify,
                   lockVars, dbgVars>>

\* Mutant: the NMI in vmx-root sets the MTF but not WaitingToBeLocked.
NmiCallbackDoesNotWait(c) ==
    /\ pc[c] # "guest"
    /\ nmiPending[c]
    /\ ~nmiBlocked[c]
    /\ nmiPending' = [nmiPending EXCEPT ![c] = FALSE]
    /\ NmiBroadcastAction' = [NmiBroadcastAction EXCEPT ![c] = "NONE"]
    /\ mtf' = [mtf EXCEPT ![c] = @ \/ NmiBroadcastAction[c] = "KD_HALT_CORE"]
    /\ UNCHANGED <<pc, callVars, nmiBlocked, IgnoreOneMtf, IgnoreMtfUnset,
                   WaitForStep, coreVars, lockVars, dbgVars>>

\* An NMI in vmx-root: the host's NMI handler runs in the middle of whatever the
\* core does and leaves the halting to a later point.
VmxBroadcastHandleNmiCallback(c) ==
    LET handled == NmiBroadcastAction[c] = "KD_HALT_CORE" IN
    /\ pc[c] # "guest"
    /\ nmiPending[c]
    /\ ~nmiBlocked[c]
    /\ nmiPending' = [nmiPending EXCEPT ![c] = FALSE]
    /\ NmiBroadcastAction' = [NmiBroadcastAction EXCEPT ![c] = "NONE"]
    /\ WaitingToBeLocked' = [WaitingToBeLocked EXCEPT ![c] = @ \/ handled]
    /\ mtf' = [mtf EXCEPT ![c] = @ \/ handled]
    /\ UNCHANGED <<pc, callVars, nmiBlocked, IgnoreOneMtf, IgnoreMtfUnset,
                   WaitForStep, MainDebuggingCore, DoNotNmiNotify, lockVars,
                   dbgVars>>

\* MtfHandleVmexit, up to the calls it makes to halt the core.
MtfHandleVmexit(c) ==
    /\ mtf[c]
    /\ Goto(c, "guest", CASE WaitForStep[c] -> "spin"
                          [] ~WaitForStep[c] /\ WaitingToBeLocked[c] -> "nmi"
                          [] OTHER -> "mtfTail")
    /\ IgnoreMtfUnset' = [IgnoreMtfUnset EXCEPT ![c] = FALSE]
    /\ WaitForStep' = [WaitForStep EXCEPT ![c] = FALSE]
    /\ bpCaller' = [bpCaller EXCEPT ![c] = IF WaitForStep[c] THEN "mtfTail" ELSE @]
    /\ nmiCaller' = [nmiCaller EXCEPT
           ![c] = IF ~WaitForStep[c] /\ WaitingToBeLocked[c] THEN "mtfTail" ELSE @]
    /\ UNCHANGED <<idx, nmiVars, mtf, IgnoreOneMtf, coreVars, lockVars, dbgVars>>

\* The rest of MtfHandleVmexit.
MtfUnset(c) ==
    /\ Goto(c, "mtfTail", "leave")
    /\ IgnoreOneMtf' = [IgnoreOneMtf EXCEPT ![c] = FALSE]
    /\ mtf' = [mtf EXCEPT ![c] = IgnoreMtfUnset[c] /\ @]
    /\ IgnoreMtfUnset' = [IgnoreMtfUnset EXCEPT ![c] = FALSE]
    /\ UNCHANGED <<callVars, nmiVars, WaitForStep, coreVars, lockVars, dbgVars>>

-----------------------------------------------------------------------------
(* Entering the halt                                                       *)

\* SpinlockTryLock succeeds in KdCustomDebuggerBreakSpinlockLock.
AcquireBreakLock(c) ==
    /\ Goto(c, "spin", "check")
    /\ ~DebuggerHandleBreakpointLock
    /\ DebuggerHandleBreakpointLock' = TRUE
    /\ UNCHANGED <<callVars, nmiVars, mtfVars, coreVars, DebuggerResponseLock,
                   Lock, dbgVars>>

\* Mutant: the MTF set by the NMI is not announced as one to ignore.
SpinKeepsMtf(c) ==
    /\ Goto(c, "spin", "nmi")
    /\ DebuggerHandleBreakpointLock
    /\ WaitingToBeLocked[c]
    /\ nmiCaller' = [nmiCaller EXCEPT ![c] = "spin"]
    /\ UNCHANGED <<bpCaller, idx, nmiVars, mtfVars, coreVars, lockVars, dbgVars>>

\* It fails, and the loop finds that this core is to be halted by another.
HaltWhileSpinning(c) ==
    /\ Goto(c, "spin", "nmi")
    /\ DebuggerHandleBreakpointLock
    /\ WaitingToBeLocked[c]
    /\ IgnoreOneMtf' = [IgnoreOneMtf EXCEPT ![c] = TRUE]
    /\ nmiCaller' = [nmiCaller EXCEPT ![c] = "spin"]
    /\ UNCHANGED <<bpCaller, idx, nmiVars, mtf, IgnoreMtfUnset, WaitForStep,
                   coreVars, lockVars, dbgVars>>

\* The breaks are paused: unlock and return.
BreakIgnored(c) ==
    /\ PauseBreaks
    /\ Goto(c, "check", bpCaller[c])
    /\ DebuggerHandleBreakpointLock' = FALSE
    /\ bpCaller' = [bpCaller EXCEPT ![c] = "none"]
    /\ UNCHANGED <<nmiCaller, idx, nmiVars, mtfVars, coreVars,
                   DebuggerResponseLock, Lock, dbgVars>>

BecomeMainCore(c) ==
    /\ ~PauseBreaks
    /\ Goto(c, "check", "lockOwn")
    /\ MainDebuggingCore' = [MainDebuggingCore EXCEPT ![c] = TRUE]
    /\ WaitingToBeLocked' = [WaitingToBeLocked EXCEPT ![c] = FALSE]
    /\ UNCHANGED <<callVars, nmiVars, mtfVars, DoNotNmiNotify, lockVars, dbgVars>>

\* Mutant: DoNotNmiNotifyOtherCoresByThisCore is not unset after its use.
NotifyStaysOff(c) ==
    /\ Goto(c, "lockOwn", IF DoNotNmiNotify[c] THEN "manage" ELSE "broadcast")
    /\ ~Lock[c]
    /\ Lock' = [Lock EXCEPT ![c] = TRUE]
    /\ HaltReason' = "BREAK"
    /\ UNCHANGED <<callVars, nmiVars, mtfVars, coreVars,
                   DebuggerHandleBreakpointLock, DebuggerResponseLock, PauseBreaks>>

\* SpinlockLock on the core's own Lock, the halt reason, and whether to notify.
LockOwnCore(c) ==
    /\ Goto(c, "lockOwn", IF DoNotNmiNotify[c] THEN "manage" ELSE "broadcast")
    /\ ~Lock[c]
    /\ Lock' = [Lock EXCEPT ![c] = TRUE]
    /\ HaltReason' = "BREAK"
    /\ DoNotNmiNotify' = [DoNotNmiNotify EXCEPT ![c] = FALSE]
    /\ UNCHANGED <<callVars, nmiVars, mtfVars, MainDebuggingCore,
                   WaitingToBeLocked, DebuggerHandleBreakpointLock,
                   DebuggerResponseLock, PauseBreaks>>

VmxBroadcastNmi(c) ==
    /\ Goto(c, "broadcast", "compareExchange")
    /\ ~DebuggerResponseLock
    /\ DebuggerResponseLock' = TRUE
    /\ idx' = [idx EXCEPT ![c] = 0]
    /\ UNCHANGED <<bpCaller, nmiCaller, nmiVars, mtfVars, coreVars,
                   DebuggerHandleBreakpointLock, Lock, dbgVars>>

\* One round of the loop: the compare-exchange spins until the core has taken
\* the action of an earlier broadcast.
BroadcastCompareExchange(c) ==
    /\ pc[c] = "compareExchange"
    /\ idx[c] < N
    /\ idx[c] # c => NmiBroadcastAction[idx[c]] = "NONE"
    /\ NmiBroadcastAction' = [NmiBroadcastAction EXCEPT
           ![idx[c]] = IF idx[c] = c THEN @ ELSE "KD_HALT_CORE"]
    /\ idx' = [idx EXCEPT ![c] = @ + 1]
    /\ UNCHANGED <<pc, bpCaller, nmiCaller, nmiPending, nmiBlocked, mtfVars,
                   coreVars, lockVars, dbgVars>>

\* The local APIC sends the NMI to every core but this one.
ApicTriggerGenericNmi(c) ==
    /\ Goto(c, "compareExchange", "manage")
    /\ idx[c] = N
    /\ nmiPending' = [d \in Cores |-> nmiPending[d] \/ d # c]
    /\ DebuggerResponseLock' = FALSE
    /\ idx' = [idx EXCEPT ![c] = 0]
    /\ UNCHANGED <<bpCaller, nmiCaller, NmiBroadcastAction, nmiBlocked, mtfVars,
                   coreVars, DebuggerHandleBreakpointLock, Lock, dbgVars>>

KdHandleNmi(c) ==
    /\ Goto(c, "nmi", "nmiLock")
    /\ MainDebuggingCore' = [MainDebuggingCore EXCEPT ![c] = FALSE]
    /\ WaitingToBeLocked' = [WaitingToBeLocked EXCEPT ![c] = FALSE]
    /\ UNCHANGED <<callVars, nmiVars, mtfVars, DoNotNmiNotify, lockVars, dbgVars>>

NmiLockOwnCore(c) ==
    /\ Goto(c, "nmiLock", "manage")
    /\ ~Lock[c]
    /\ Lock' = [Lock EXCEPT ![c] = TRUE]
    /\ UNCHANGED <<callVars, nmiVars, mtfVars, coreVars,
                   DebuggerHandleBreakpointLock, DebuggerResponseLock, dbgVars>>

-----------------------------------------------------------------------------
(* KdManageSystemHaltOnVmxRoot                                             *)

\* The main core builds the pause packet from g_DebuggeeHaltReason.
ManageAsMain(c) ==
    /\ MainDebuggingCore[c]
    /\ Goto(c, "manage", "send")
    /\ UNCHANGED <<callVars, nmiVars, mtfVars, coreVars, lockVars, dbgVars>>

ManageAsHalted(c) ==
    /\ ~MainDebuggingCore[c]
    /\ Goto(c, "manage", "park")
    /\ WaitingToBeLocked' = [WaitingToBeLocked EXCEPT ![c] = FALSE]
    /\ UNCHANGED <<callVars, nmiVars, mtfVars, MainDebuggingCore, DoNotNmiNotify,
                   lockVars, dbgVars>>

SendPausePacket(c) ==
    /\ Goto(c, "send", "command")
    /\ ~DebuggerResponseLock
    /\ UNCHANGED <<callVars, nmiVars, mtfVars, coreVars, lockVars, dbgVars>>

\* Someone unlocked the halted core.
ScopedSpinlockAcquire(c) ==
    /\ Goto(c, "park", "held")
    /\ ~Lock[c]
    /\ Lock' = [Lock EXCEPT ![c] = TRUE]
    /\ UNCHANGED <<callVars, nmiVars, mtfVars, coreVars,
                   DebuggerHandleBreakpointLock, DebuggerResponseLock, dbgVars>>

\* It was unlocked to become the operating core: the lock stays held.
CoreSwitched(c) ==
    /\ MainDebuggingCore[c]
    /\ Goto(c, "held", "manage")
    /\ HaltReason' = "CORE_SWITCHED"
    /\ UNCHANGED <<callVars, nmiVars, mtfVars, coreVars, lockVars, PauseBreaks>>

\* It was unlocked to continue.
ScopedSpinlockRelease(c) ==
    /\ ~MainDebuggingCore[c]
    /\ Goto(c, "held", "return")
    /\ Lock' = [Lock EXCEPT ![c] = FALSE]
    /\ UNCHANGED <<callVars, nmiVars, mtfVars, coreVars,
                   DebuggerHandleBreakpointLock, DebuggerResponseLock, dbgVars>>

\* The command loop is left; only the core that is still main is done.
DispatchEscaped(c) ==
    /\ Goto(c, "escaped", IF MainDebuggingCore[c] THEN "return" ELSE "manage")
    /\ UNCHANGED <<callVars, nmiVars, mtfVars, coreVars, lockVars, dbgVars>>

-----------------------------------------------------------------------------
(* KdDispatchAndPerformCommandsFromDebugger.  The commands that neither     *)
(* resume nor switch a core leave this state unchanged.                     *)

Halted(c) == pc[c] = "park" /\ Lock[c]

\* The broadcast of c has halted every other core.
Settled(c) == \A d \in Cores \ {c} : Halted(d)

CommandArrives(c, command) ==
    /\ command \in Commands
    /\ SettleBeforeCommand => Settled(c)

\* CONTINUE, and with "pauseBreaks" REGISTER_EVENT, ADD_ACTION and USER_INPUT.
KdContinueDebuggee(c) ==
    \E pause \in BOOLEAN :
        /\ CommandArrives(c, IF pause THEN "pauseBreaks" ELSE "continue")
        /\ Goto(c, "command", "unlockAll")
        /\ PauseBreaks' = (PauseBreaks \/ pause)
        /\ idx' = [idx EXCEPT ![c] = 0]
        /\ UNCHANGED <<bpCaller, nmiCaller, nmiVars, mtfVars, coreVars, lockVars,
                       HaltReason>>

UnlockNextCore(c) ==
    /\ pc[c] = "unlockAll"
    /\ idx[c] < N
    /\ Lock' = [Lock EXCEPT ![idx[c]] = FALSE]
    /\ idx' = [idx EXCEPT ![c] = @ + 1]
    /\ UNCHANGED <<pc, bpCaller, nmiCaller, nmiVars, mtfVars, coreVars,
                   DebuggerHandleBreakpointLock, DebuggerResponseLock, dbgVars>>

\* Mutant: the loop stops before the last core.
LastCoreStaysLocked(c) ==
    /\ Goto(c, "unlockAll", "escaped")
    /\ idx[c] = N - 1
    /\ idx' = [idx EXCEPT ![c] = 0]
    /\ UNCHANGED <<bpCaller, nmiCaller, nmiVars, mtfVars, coreVars, lockVars,
                   dbgVars>>

AllUnlocked(c) ==
    /\ Goto(c, "unlockAll", "escaped")
    /\ idx[c] = N
    /\ idx' = [idx EXCEPT ![c] = 0]
    /\ UNCHANGED <<bpCaller, nmiCaller, nmiVars, mtfVars, coreVars, lockVars,
                   dbgVars>>

\* STEP, instrumented: KdGuaranteedStepInstruction and
\* KdContinueDebuggeeJustCurrentCore.
KdGuaranteedStepInstruction(c) ==
    /\ CommandArrives(c, "stepIn")
    /\ Goto(c, "command", "escaped")
    /\ WaitForStep' = [WaitForStep EXCEPT ![c] = TRUE]
    /\ IgnoreMtfUnset' = [IgnoreMtfUnset EXCEPT ![c] = TRUE]
    /\ mtf' = [mtf EXCEPT ![c] = TRUE]
    /\ DoNotNmiNotify' = [DoNotNmiNotify EXCEPT ![c] = TRUE]
    /\ Lock' = [Lock EXCEPT ![c] = FALSE]
    /\ UNCHANGED <<callVars, nmiVars, IgnoreOneMtf, MainDebuggingCore,
                   WaitingToBeLocked, DebuggerHandleBreakpointLock,
                   DebuggerResponseLock, dbgVars>>

\* Mutant: the current core is not unset.
SwitchKeepsOldCore(c) ==
    /\ CommandArrives(c, "changeCore")
    /\ Goto(c, "command", "switch")
    /\ \E d \in Cores \ {c} :
           /\ MainDebuggingCore' = [MainDebuggingCore EXCEPT ![d] = TRUE]
           /\ idx' = [idx EXCEPT ![c] = d]
    /\ UNCHANGED <<bpCaller, nmiCaller, nmiVars, mtfVars, WaitingToBeLocked,
                   DoNotNmiNotify, lockVars, dbgVars>>

\* CHANGE_CORE to another core: the operating core moves before the answer is
\* sent and the new core unlocked.
KdSwitchCore(c) ==
    /\ CommandArrives(c, "changeCore")
    /\ Goto(c, "command", "switch")
    /\ \E d \in Cores \ {c} :
           /\ MainDebuggingCore' =
                  [MainDebuggingCore EXCEPT ![c] = FALSE, ![d] = TRUE]
           /\ idx' = [idx EXCEPT ![c] = d]
    /\ UNCHANGED <<bpCaller, nmiCaller, nmiVars, mtfVars, WaitingToBeLocked,
                   DoNotNmiNotify, lockVars, dbgVars>>

UnlockTheNewCore(c) ==
    /\ Goto(c, "switch", "escaped")
    /\ ~DebuggerResponseLock
    /\ Lock' = [Lock EXCEPT ![idx[c]] = FALSE]
    /\ idx' = [idx EXCEPT ![c] = 0]
    /\ UNCHANGED <<bpCaller, nmiCaller, nmiVars, mtfVars, coreVars,
                   DebuggerHandleBreakpointLock, DebuggerResponseLock, dbgVars>>

-----------------------------------------------------------------------------
(* Leaving the halt                                                        *)

\* Mutant: KdHandleNmi clears the halt reason as well.
EveryCoreClearsReason(c) ==
    /\ Goto(c, "return", "release")
    /\ HaltReason' = "NOT_PAUSED"
    /\ UNCHANGED <<callVars, nmiVars, mtfVars, coreVars, lockVars, PauseBreaks>>

\* Back in KdHandleNmi or in KdHandleBreakpointAndDebugBreakpoints.  Only the
\* latter clears the halt reason, whether or not the core is still main.
HaltReturns(c) ==
    /\ Goto(c, "return", "release")
    /\ HaltReason' = IF nmiCaller[c] = "none" THEN "NOT_PAUSED" ELSE HaltReason
    /\ UNCHANGED <<callVars, nmiVars, mtfVars, coreVars, lockVars, PauseBreaks>>

\* Variant: a core releases the break lock whether or not it owns it.
ReleaseByAnyCore(c) ==
    /\ Goto(c, "release", IF nmiCaller[c] # "none" THEN nmiCaller[c] ELSE bpCaller[c])
    /\ MainDebuggingCore' = [MainDebuggingCore EXCEPT ![c] = FALSE]
    /\ DebuggerHandleBreakpointLock' = FALSE
    /\ nmiCaller' = [nmiCaller EXCEPT ![c] = "none"]
    /\ bpCaller' = [bpCaller EXCEPT ![c] = IF nmiCaller[c] # "none" THEN @ ELSE "none"]
    /\ UNCHANGED <<idx, nmiVars, mtfVars, WaitingToBeLocked, DoNotNmiNotify,
                   DebuggerResponseLock, Lock, dbgVars>>

ReleaseBreakLock(c) ==
    /\ Goto(c, "release", IF nmiCaller[c] # "none" THEN nmiCaller[c] ELSE bpCaller[c])
    /\ MainDebuggingCore' = [MainDebuggingCore EXCEPT ![c] = FALSE]
    /\ DebuggerHandleBreakpointLock' =
           (DebuggerHandleBreakpointLock /\ ~MainDebuggingCore[c])
    /\ nmiCaller' = [nmiCaller EXCEPT ![c] = "none"]
    /\ bpCaller' = [bpCaller EXCEPT ![c] = IF nmiCaller[c] # "none" THEN @ ELSE "none"]
    /\ UNCHANGED <<idx, nmiVars, mtfVars, WaitingToBeLocked, DoNotNmiNotify,
                   DebuggerResponseLock, Lock, dbgVars>>

-----------------------------------------------------------------------------
(* The specification                                                       *)

\* What a core does on its own once it is in vmx-root.
CoreStep(c) ==
    \/ MtfUnset(c) \/ AcquireBreakLock(c) \/ HaltWhileSpinning(c)
    \/ BreakIgnored(c) \/ BecomeMainCore(c) \/ LockOwnCore(c)
    \/ VmxBroadcastNmi(c) \/ BroadcastCompareExchange(c) \/ ApicTriggerGenericNmi(c)
    \/ KdHandleNmi(c) \/ NmiLockOwnCore(c) \/ ManageAsMain(c) \/ ManageAsHalted(c)
    \/ SendPausePacket(c) \/ ScopedSpinlockAcquire(c) \/ CoreSwitched(c)
    \/ ScopedSpinlockRelease(c) \/ DispatchEscaped(c) \/ UnlockNextCore(c)
    \/ AllUnlocked(c) \/ UnlockTheNewCore(c) \/ HaltReturns(c) \/ ReleaseBreakLock(c)

NmiDelivery(c) == IdtEmulationHandleNmi(c) \/ VmxBroadcastHandleNmiCallback(c)

Command(c) ==
    KdContinueDebuggee(c) \/ KdGuaranteedStepInstruction(c) \/ KdSwitchCore(c)

GuestStep(c) ==
    VmExit(c) \/ VmEntry(c) \/ Break(c) \/ KdResponsePacketToDebugger(c)

Next ==
    \E c \in Cores : \/ GuestStep(c) \/ NmiDelivery(c) \/ MtfHandleVmexit(c)
                     \/ CoreStep(c) \/ Command(c)

\* A core in vmx-root keeps executing and returns to the guest, a pending NMI is
\* delivered, and a guest instruction under the MTF ends in an MTF vm-exit even
\* if other vm-exits come first.  Breaks and commands may never come.
Fairness ==
    \A c \in Cores :
        /\ WF_vars(CoreStep(c))
        /\ WF_vars(VmEntry(c))
        /\ WF_vars(NmiDelivery(c))
        /\ SF_vars(MtfHandleVmexit(c))

Spec == Init /\ [][Next]_vars
FairSpec == Spec /\ Fairness

-----------------------------------------------------------------------------
(* Properties                                                              *)

\* The core answers for the break lock: it has just taken it, or it is the main
\* core, to which the lock belongs until it continues or switches.
Token(c) == pc[c] = "check" \/ MainDebuggingCore[c]

\* At most one core answers for the break lock, the lock is then taken, and only
\* that core broadcasts, talks to the debugger and unlocks the others: a core
\* switch moves the role without ever making two operating cores ("we want to not
\* have two operating cores at the same time", KdSwitchCore in Kd.c), however the
\* NMIs, the breaks of the other cores and the commands are timed.
OneOperatingCore ==
    /\ \A c, d \in Cores : Token(c) /\ Token(d) => c = d
    /\ \A c \in Cores : Token(c) => DebuggerHandleBreakpointLock
    /\ \A c \in Cores :
           pc[c] \in {"broadcast", "compareExchange", "send", "command", "unlockAll"}
               => MainDebuggingCore[c]

\* A core that is halted on its own Lock has a core that will unlock it: the
\* operating core, or one that steps alone and will come back as the operating
\* core.  KdContinueDebuggee "gurantees that all other cores are continued".
HaltedHasOwner ==
    \A d \in Cores : Halted(d) => \E c \in Cores : Token(c) \/ DoNotNmiNotify[c]

\* An action left for a core is announced by an NMI that is still to be taken, so
\* the compare-exchange of the next VmxBroadcastNmi does not wait for ever while
\* it holds DebuggerResponseLock.
ActionHasNmi ==
    \A d \in Cores : NmiBroadcastAction[d] = "KD_HALT_CORE" =>
        nmiPending[d] \/ \E c \in Cores \ {d} : pc[c] = "compareExchange" /\ idx[c] > d

\* The pause packet carries the reason of the pause: when the main core reads
\* g_DebuggeeHaltReason, no core that is leaving the previous halt has cleared it.
PauseHasReason ==
    \A c \in Cores : pc[c] = "manage" /\ MainDebuggingCore[c] =>
        HaltReason # "NOT_PAUSED"

\* The pause after an instrumented step sends no NMI
\* (DoNotNmiNotifyOtherCoresByThisCore): from the step command until that pause
\* every other core stays halted on its own Lock, whatever NMIs and breaks were on
\* their way, so that no core runs while the debugger shows a paused system.
OthersStayHalted ==
    \A c \in Cores : DoNotNmiNotify[c] => \A d \in Cores \ {c} : Halted(d)

\* Every MTF vm-exit has a reason MtfHandleVmexit knows ("why MTF occurred?!").
MtfHasReason ==
    \A c \in Cores : pc[c] = "guest" /\ mtf[c] =>
        WaitForStep[c] \/ WaitingToBeLocked[c] \/ IgnoreOneMtf[c]

\* The NMI came in vmx-root after the last check of WaitingToBeLocked in
\* MtfHandleVmexit and before the MTF it set was unset there.
Missed(c) ==
    pc[c] \in {"guest", "exit", "leave"} /\ WaitingToBeLocked[c] /\ ~mtf[c]

\* That one race aside, every other core gets halted, wherever the NMI finds it:
\* in the guest, in a vm-exit handler, spinning on the break lock for a break of
\* its own, or on its way out of the previous halt.
HaltReaches ==
    \A c, d \in Cores : c # d =>
        (pc[c] = "command" ~> pc[c] # "command" \/ Halted(d) \/ Missed(d))
=============================================================================
