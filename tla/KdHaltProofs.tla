---------------------------- MODULE KdHaltProofs ----------------------------
(***************************************************************************)
(* Proofs about KdHalt, for every number of cores, every set of commands   *)
(* and, with SettleBeforeCommand = FALSE, every timing of the commands.    *)
(*                                                                         *)
(* TypeOK is inductive only with Calls: a return goes to the recorded      *)
(* caller, so there must be one.  OneOperatingCore is inductive only with  *)
(* the rest of Roles: a core that has just taken the break lock is not     *)
(* main, and the core that locks itself next is.                           *)
(*                                                                         *)
(* The last part follows a halt from its announcement to its end.  Each    *)
(* theorem of it names what it needs: that commands arrive when the cores  *)
(* are halted (SettleBeforeCommand), that no core is switched.  Halting    *)
(* says where a core can be whose halt is announced, and which core then   *)
(* still owes it a command; MtfKnown and BreakOwner say what the flags of  *)
(* a core mean at each place of the core.                                  *)
(***************************************************************************)
EXTENDS KdHalt, TLAPS

\* Inside KdHandleBreakpointAndDebugBreakpoints before the halt, and inside
\* KdManageSystemHaltOnVmxRoot and what follows it in either caller.

InBreak == {"spin", "check", "lockOwn", "broadcast", "compareExchange"}
InHalt ==
    {"manage", "send", "command", "unlockAll", "switch", "escaped", "park", "held",
     "return", "release"}

\* A core inside a handler has a caller to return to.
Calls ==
    \A c \in Cores :
        /\ pc[c] \notin InHalt \cup {"nmi", "nmiLock"} => nmiCaller[c] = "none"
        /\ pc[c] \in InBreak \/ nmiCaller[c] = "spin" => bpCaller[c] # "none"
        /\ pc[c] \in {"nmi", "nmiLock"} => nmiCaller[c] # "none"
        /\ pc[c] \in InHalt => nmiCaller[c] # "none" \/ bpCaller[c] # "none"

\* Every step keeps the types and the record of the callers.
LEMMA TypeStep == TypeOK /\ Calls /\ [Next]_vars => TypeOK' /\ Calls'
<1> SUFFICES ASSUME TypeOK, Calls, [Next]_vars PROVE TypeOK' /\ Calls'
  OBVIOUS
<1>1. CASE UNCHANGED vars
  BY <1>1 DEF TypeOK, Calls, vars, callVars, nmiVars, mtfVars, coreVars, lockVars, dbgVars
<1>2. ASSUME NEW c \in Cores,
             GuestStep(c) \/ NmiDelivery(c) \/ MtfHandleVmexit(c) \/ CoreStep(c) \/ Command(c)
      PROVE  TypeOK' /\ Calls'
  <2>1. CASE VmExit(c)
    <3>1. TypeOK'
      BY <2>1, NAssumption DEF VmExit, Goto, TypeOK, Calls, Locations, Cores, InHalt, InBreak,
         callVars, nmiVars, mtfVars, coreVars, lockVars, dbgVars
    <3>2. Calls'
      BY <2>1 DEF VmExit, Goto, TypeOK, Calls, InHalt, InBreak,
         callVars, nmiVars, mtfVars, coreVars, lockVars, dbgVars
    <3> QED  BY <3>1, <3>2
  <2>2. CASE VmEntry(c)
    <3>1. TypeOK'
      BY <2>2, NAssumption DEF VmEntry, Goto, TypeOK, Calls, Locations, Cores, InHalt, InBreak,
         callVars, nmiVars, mtfVars, coreVars, lockVars, dbgVars
    <3>2. Calls'
      BY <2>2 DEF VmEntry, Goto, TypeOK, Calls, InHalt, InBreak,
         callVars, nmiVars, mtfVars, coreVars, lockVars, dbgVars
    <3> QED  BY <3>1, <3>2
  <2>3. CASE Break(c)
    <3>1. TypeOK'
      BY <2>3, NAssumption DEF Break, Goto, TypeOK, Calls, Locations, Cores, InHalt, InBreak,
         callVars, nmiVars, mtfVars, coreVars, lockVars, dbgVars
    <3>2. Calls'
      BY <2>3 DEF Break, Goto, TypeOK, Calls, InHalt, InBreak,
         callVars, nmiVars, mtfVars, coreVars, lockVars, dbgVars
    <3> QED  BY <3>1, <3>2
  <2>4. CASE KdResponsePacketToDebugger(c)
    <3>1. TypeOK'
      BY <2>4, NAssumption DEF KdResponsePacketToDebugger, Goto, TypeOK, Calls, Locations, Cores, InHalt, InBreak,
         callVars, nmiVars, mtfVars, coreVars, lockVars, dbgVars
    <3>2. Calls'
      BY <2>4 DEF KdResponsePacketToDebugger, Goto, TypeOK, Calls, InHalt, InBreak,
         callVars, nmiVars, mtfVars, coreVars, lockVars, dbgVars
    <3> QED  BY <3>1, <3>2
  <2>5. CASE IdtEmulationHandleNmi(c)
    <3>1. TypeOK'
      BY <2>5, NAssumption DEF IdtEmulationHandleNmi, Goto, TypeOK, Calls, Locations, Cores, InHalt, InBreak,
         callVars, nmiVars, mtfVars, coreVars, lockVars, dbgVars
    <3>2. Calls'
      BY <2>5 DEF IdtEmulationHandleNmi, Goto, TypeOK, Calls, InHalt, InBreak,
         callVars, nmiVars, mtfVars, coreVars, lockVars, dbgVars
    <3> QED  BY <3>1, <3>2
  <2>6. CASE VmxBroadcastHandleNmiCallback(c)
    <3>1. TypeOK'
      BY <2>6, NAssumption DEF VmxBroadcastHandleNmiCallback, Goto, TypeOK, Calls, Locations, Cores, InHalt, InBreak,
         callVars, nmiVars, mtfVars, coreVars, lockVars, dbgVars
    <3>2. Calls'
      BY <2>6 DEF VmxBroadcastHandleNmiCallback, Goto, TypeOK, Calls, InHalt, InBreak,
         callVars, nmiVars, mtfVars, coreVars, lockVars, dbgVars
    <3> QED  BY <3>1, <3>2
  <2>7. CASE MtfHandleVmexit(c)
    <3>1. TypeOK'
      BY <2>7, NAssumption DEF MtfHandleVmexit, Goto, TypeOK, Calls, Locations, Cores, InHalt, InBreak,
         callVars, nmiVars, mtfVars, coreVars, lockVars, dbgVars
    <3>2. Calls'
      BY <2>7 DEF MtfHandleVmexit, Goto, TypeOK, Calls, InHalt, InBreak,
         callVars, nmiVars, mtfVars, coreVars, lockVars, dbgVars
    <3> QED  BY <3>1, <3>2
  <2>8. CASE MtfUnset(c)
    <3>1. TypeOK'
      BY <2>8, NAssumption DEF MtfUnset, Goto, TypeOK, Calls, Locations, Cores, InHalt, InBreak,
         callVars, nmiVars, mtfVars, coreVars, lockVars, dbgVars
    <3>2. Calls'
      BY <2>8 DEF MtfUnset, Goto, TypeOK, Calls, InHalt, InBreak,
         callVars, nmiVars, mtfVars, coreVars, lockVars, dbgVars
    <3> QED  BY <3>1, <3>2
  <2>9. CASE AcquireBreakLock(c)
    <3>1. TypeOK'
      BY <2>9, NAssumption DEF AcquireBreakLock, Goto, TypeOK, Calls, Locations, Cores, InHalt, InBreak,
         callVars, nmiVars, mtfVars, coreVars, lockVars, dbgVars
    <3>2. Calls'
      BY <2>9 DEF AcquireBreakLock, Goto, TypeOK, Calls, InHalt, InBreak,
         callVars, nmiVars, mtfVars, coreVars, lockVars, dbgVars
    <3> QED  BY <3>1, <3>2
  <2>10. CASE HaltWhileSpinning(c)
    <3>1. TypeOK'
      BY <2>10, NAssumption DEF HaltWhileSpinning, Goto, TypeOK, Calls, Locations, Cores, InHalt, InBreak,
         callVars, nmiVars, mtfVars, coreVars, lockVars, dbgVars
    <3>2. Calls'
      BY <2>10 DEF HaltWhileSpinning, Goto, TypeOK, Calls, InHalt, InBreak,
         callVars, nmiVars, mtfVars, coreVars, lockVars, dbgVars
    <3> QED  BY <3>1, <3>2
  <2>11. CASE BreakIgnored(c)
    <3>1. TypeOK'
      BY <2>11, NAssumption DEF BreakIgnored, Goto, TypeOK, Calls, Locations, Cores, InHalt, InBreak,
         callVars, nmiVars, mtfVars, coreVars, lockVars, dbgVars
    <3>2. Calls'
      BY <2>11 DEF BreakIgnored, Goto, TypeOK, Calls, InHalt, InBreak,
         callVars, nmiVars, mtfVars, coreVars, lockVars, dbgVars
    <3> QED  BY <3>1, <3>2
  <2>12. CASE BecomeMainCore(c)
    <3>1. TypeOK'
      BY <2>12, NAssumption DEF BecomeMainCore, Goto, TypeOK, Calls, Locations, Cores, InHalt, InBreak,
         callVars, nmiVars, mtfVars, coreVars, lockVars, dbgVars
    <3>2. Calls'
      BY <2>12 DEF BecomeMainCore, Goto, TypeOK, Calls, InHalt, InBreak,
         callVars, nmiVars, mtfVars, coreVars, lockVars, dbgVars
    <3> QED  BY <3>1, <3>2
  <2>13. CASE LockOwnCore(c)
    <3>1. TypeOK'
      BY <2>13, NAssumption DEF LockOwnCore, Goto, TypeOK, Calls, Locations, Cores, InHalt, InBreak,
         callVars, nmiVars, mtfVars, coreVars, lockVars, dbgVars
    <3>2. Calls'
      BY <2>13 DEF LockOwnCore, Goto, TypeOK, Calls, InHalt, InBreak,
         callVars, nmiVars, mtfVars, coreVars, lockVars, dbgVars
    <3> QED  BY <3>1, <3>2
  <2>14. CASE VmxBroadcastNmi(c)
    <3>1. TypeOK'
      BY <2>14, NAssumption DEF VmxBroadcastNmi, Goto, TypeOK, Calls, Locations, Cores, InHalt, InBreak,
         callVars, nmiVars, mtfVars, coreVars, lockVars, dbgVars
    <3>2. Calls'
      BY <2>14 DEF VmxBroadcastNmi, Goto, TypeOK, Calls, InHalt, InBreak,
         callVars, nmiVars, mtfVars, coreVars, lockVars, dbgVars
    <3> QED  BY <3>1, <3>2
  <2>15. CASE BroadcastCompareExchange(c)
    <3>1. TypeOK'
      BY <2>15, NAssumption DEF BroadcastCompareExchange, Goto, TypeOK, Calls, Locations, Cores, InHalt, InBreak,
         callVars, nmiVars, mtfVars, coreVars, lockVars, dbgVars
    <3>2. Calls'
      BY <2>15 DEF BroadcastCompareExchange, Goto, TypeOK, Calls, InHalt, InBreak,
         callVars, nmiVars, mtfVars, coreVars, lockVars, dbgVars
    <3> QED  BY <3>1, <3>2
  <2>16. CASE ApicTriggerGenericNmi(c)
    <3>1. TypeOK'
      <4>1. nmiPending' \in [Cores -> BOOLEAN]
        BY <2>16 DEF ApicTriggerGenericNmi, TypeOK
      <4>2. /\ pc' = [pc EXCEPT ![c] = "manage"]
            /\ idx' = [idx EXCEPT ![c] = 0]
            /\ DebuggerResponseLock' = FALSE
            /\ UNCHANGED <<bpCaller, nmiCaller, NmiBroadcastAction, nmiBlocked, mtfVars,
                           coreVars, DebuggerHandleBreakpointLock, Lock, dbgVars>>
        BY <2>16 DEF ApicTriggerGenericNmi, Goto
      <4>3. idx' \in [Cores -> 0 .. N]
        BY <4>2, NAssumption DEF TypeOK
      <4>4. pc' \in [Cores -> Locations]
        BY <4>2 DEF TypeOK, Locations
      <4> QED
        BY <4>1, <4>2, <4>3, <4>4 DEF TypeOK, mtfVars, coreVars, dbgVars
    <3>2. Calls'
      BY <2>16 DEF ApicTriggerGenericNmi, Goto, TypeOK, Calls, InHalt, InBreak,
         callVars, nmiVars, mtfVars, coreVars, lockVars, dbgVars
    <3> QED  BY <3>1, <3>2
  <2>17. CASE KdHandleNmi(c)
    <3>1. TypeOK'
      BY <2>17, NAssumption DEF KdHandleNmi, Goto, TypeOK, Calls, Locations, Cores, InHalt, InBreak,
         callVars, nmiVars, mtfVars, coreVars, lockVars, dbgVars
    <3>2. Calls'
      BY <2>17 DEF KdHandleNmi, Goto, TypeOK, Calls, InHalt, InBreak,
         callVars, nmiVars, mtfVars, coreVars, lockVars, dbgVars
    <3> QED  BY <3>1, <3>2
  <2>18. CASE NmiLockOwnCore(c)
    <3>1. TypeOK'
      BY <2>18, NAssumption DEF NmiLockOwnCore, Goto, TypeOK, Calls, Locations, Cores, InHalt, InBreak,
         callVars, nmiVars, mtfVars, coreVars, lockVars, dbgVars
    <3>2. Calls'
      BY <2>18 DEF NmiLockOwnCore, Goto, TypeOK, Calls, InHalt, InBreak,
         callVars, nmiVars, mtfVars, coreVars, lockVars, dbgVars
    <3> QED  BY <3>1, <3>2
  <2>19. CASE ManageAsMain(c)
    <3>1. TypeOK'
      BY <2>19, NAssumption DEF ManageAsMain, Goto, TypeOK, Calls, Locations, Cores, InHalt, InBreak,
         callVars, nmiVars, mtfVars, coreVars, lockVars, dbgVars
    <3>2. Calls'
      BY <2>19 DEF ManageAsMain, Goto, TypeOK, Calls, InHalt, InBreak,
         callVars, nmiVars, mtfVars, coreVars, lockVars, dbgVars
    <3> QED  BY <3>1, <3>2
  <2>20. CASE ManageAsHalted(c)
    <3>1. TypeOK'
      BY <2>20, NAssumption DEF ManageAsHalted, Goto, TypeOK, Calls, Locations, Cores, InHalt, InBreak,
         callVars, nmiVars, mtfVars, coreVars, lockVars, dbgVars
    <3>2. Calls'
      BY <2>20 DEF ManageAsHalted, Goto, TypeOK, Calls, InHalt, InBreak,
         callVars, nmiVars, mtfVars, coreVars, lockVars, dbgVars
    <3> QED  BY <3>1, <3>2
  <2>21. CASE SendPausePacket(c)
    <3>1. TypeOK'
      BY <2>21, NAssumption DEF SendPausePacket, Goto, TypeOK, Calls, Locations, Cores, InHalt, InBreak,
         callVars, nmiVars, mtfVars, coreVars, lockVars, dbgVars
    <3>2. Calls'
      BY <2>21 DEF SendPausePacket, Goto, TypeOK, Calls, InHalt, InBreak,
         callVars, nmiVars, mtfVars, coreVars, lockVars, dbgVars
    <3> QED  BY <3>1, <3>2
  <2>22. CASE ScopedSpinlockAcquire(c)
    <3>1. TypeOK'
      BY <2>22, NAssumption DEF ScopedSpinlockAcquire, Goto, TypeOK, Calls, Locations, Cores, InHalt, InBreak,
         callVars, nmiVars, mtfVars, coreVars, lockVars, dbgVars
    <3>2. Calls'
      BY <2>22 DEF ScopedSpinlockAcquire, Goto, TypeOK, Calls, InHalt, InBreak,
         callVars, nmiVars, mtfVars, coreVars, lockVars, dbgVars
    <3> QED  BY <3>1, <3>2
  <2>23. CASE CoreSwitched(c)
    <3>1. TypeOK'
      BY <2>23, NAssumption DEF CoreSwitched, Goto, TypeOK, Calls, Locations, Cores, InHalt, InBreak,
         callVars, nmiVars, mtfVars, coreVars, lockVars, dbgVars
    <3>2. Calls'
      BY <2>23 DEF CoreSwitched, Goto, TypeOK, Calls, InHalt, InBreak,
         callVars, nmiVars, mtfVars, coreVars, lockVars, dbgVars
    <3> QED  BY <3>1, <3>2
  <2>24. CASE ScopedSpinlockRelease(c)
    <3>1. TypeOK'
      BY <2>24, NAssumption DEF ScopedSpinlockRelease, Goto, TypeOK, Calls, Locations, Cores, InHalt, InBreak,
         callVars, nmiVars, mtfVars, coreVars, lockVars, dbgVars
    <3>2. Calls'
      BY <2>24 DEF ScopedSpinlockRelease, Goto, TypeOK, Calls, InHalt, InBreak,
         callVars, nmiVars, mtfVars, coreVars, lockVars, dbgVars
    <3> QED  BY <3>1, <3>2
  <2>25. CASE DispatchEscaped(c)
    <3>1. TypeOK'
      BY <2>25, NAssumption DEF DispatchEscaped, Goto, TypeOK, Calls, Locations, Cores, InHalt, InBreak,
         callVars, nmiVars, mtfVars, coreVars, lockVars, dbgVars
    <3>2. Calls'
      BY <2>25 DEF DispatchEscaped, Goto, TypeOK, Calls, InHalt, InBreak,
         callVars, nmiVars, mtfVars, coreVars, lockVars, dbgVars
    <3> QED  BY <3>1, <3>2
  <2>26. CASE KdContinueDebuggee(c)
    <3>1. TypeOK'
      BY <2>26, NAssumption DEF KdContinueDebuggee, Goto, TypeOK, Calls, Locations, Cores, InHalt, InBreak,
         callVars, nmiVars, mtfVars, coreVars, lockVars, dbgVars
    <3>2. Calls'
      BY <2>26 DEF KdContinueDebuggee, Goto, TypeOK, Calls, InHalt, InBreak,
         callVars, nmiVars, mtfVars, coreVars, lockVars, dbgVars
    <3> QED  BY <3>1, <3>2
  <2>27. CASE UnlockNextCore(c)
    <3>1. TypeOK'
      BY <2>27, NAssumption DEF UnlockNextCore, Goto, TypeOK, Calls, Locations, Cores, InHalt, InBreak,
         callVars, nmiVars, mtfVars, coreVars, lockVars, dbgVars
    <3>2. Calls'
      BY <2>27 DEF UnlockNextCore, Goto, TypeOK, Calls, InHalt, InBreak,
         callVars, nmiVars, mtfVars, coreVars, lockVars, dbgVars
    <3> QED  BY <3>1, <3>2
  <2>28. CASE AllUnlocked(c)
    <3>1. TypeOK'
      BY <2>28, NAssumption DEF AllUnlocked, Goto, TypeOK, Calls, Locations, Cores, InHalt, InBreak,
         callVars, nmiVars, mtfVars, coreVars, lockVars, dbgVars
    <3>2. Calls'
      BY <2>28 DEF AllUnlocked, Goto, TypeOK, Calls, InHalt, InBreak,
         callVars, nmiVars, mtfVars, coreVars, lockVars, dbgVars
    <3> QED  BY <3>1, <3>2
  <2>29. CASE KdGuaranteedStepInstruction(c)
    <3>1. TypeOK'
      BY <2>29, NAssumption DEF KdGuaranteedStepInstruction, Goto, TypeOK, Calls, Locations, Cores, InHalt, InBreak,
         callVars, nmiVars, mtfVars, coreVars, lockVars, dbgVars
    <3>2. Calls'
      BY <2>29 DEF KdGuaranteedStepInstruction, Goto, TypeOK, Calls, InHalt, InBreak,
         callVars, nmiVars, mtfVars, coreVars, lockVars, dbgVars
    <3> QED  BY <3>1, <3>2
  <2>30. CASE KdSwitchCore(c)
    <3>1. TypeOK'
      <4>1. PICK d \in Cores \ {c} :
                /\ MainDebuggingCore' =
                       [MainDebuggingCore EXCEPT ![c] = FALSE, ![d] = TRUE]
                /\ idx' = [idx EXCEPT ![c] = d]
        BY <2>30 DEF KdSwitchCore
      <4>2. MainDebuggingCore' \in [Cores -> BOOLEAN]
        BY <4>1 DEF TypeOK
      <4>3. idx' \in [Cores -> 0 .. N]
        BY <4>1, NAssumption DEF TypeOK, Cores
      <4> QED
        BY <2>30, <4>2, <4>3 DEF KdSwitchCore, Goto, TypeOK, Locations,
           nmiVars, mtfVars, lockVars, dbgVars
    <3>2. Calls'
      BY <2>30 DEF KdSwitchCore, Goto, TypeOK, Calls, InHalt, InBreak,
         callVars, nmiVars, mtfVars, coreVars, lockVars, dbgVars
    <3> QED  BY <3>1, <3>2
  <2>31. CASE UnlockTheNewCore(c)
    <3>1. TypeOK'
      <4>1. Lock' \in [Cores -> BOOLEAN]
        BY <2>31 DEF UnlockTheNewCore, TypeOK
      <4>2. idx' \in [Cores -> 0 .. N]
        BY <2>31, NAssumption DEF UnlockTheNewCore, TypeOK
      <4> QED
        BY <2>31, <4>1, <4>2 DEF UnlockTheNewCore, Goto, TypeOK, Locations,
           nmiVars, mtfVars, coreVars, dbgVars
    <3>2. Calls'
      BY <2>31 DEF UnlockTheNewCore, Goto, TypeOK, Calls, InHalt, InBreak,
         callVars, nmiVars, mtfVars, coreVars, lockVars, dbgVars
    <3> QED  BY <3>1, <3>2
  <2>32. CASE HaltReturns(c)
    <3>1. TypeOK'
      BY <2>32, NAssumption DEF HaltReturns, Goto, TypeOK, Calls, Locations, Cores, InHalt, InBreak,
         callVars, nmiVars, mtfVars, coreVars, lockVars, dbgVars
    <3>2. Calls'
      BY <2>32 DEF HaltReturns, Goto, TypeOK, Calls, InHalt, InBreak,
         callVars, nmiVars, mtfVars, coreVars, lockVars, dbgVars
    <3> QED  BY <3>1, <3>2
  <2>33. CASE ReleaseBreakLock(c)
    <3>1. TypeOK'
      BY <2>33, NAssumption DEF ReleaseBreakLock, Goto, TypeOK, Calls, Locations, Cores, InHalt, InBreak,
         callVars, nmiVars, mtfVars, coreVars, lockVars, dbgVars
    <3>2. Calls'
      BY <2>33 DEF ReleaseBreakLock, Goto, TypeOK, Calls, InHalt, InBreak,
         callVars, nmiVars, mtfVars, coreVars, lockVars, dbgVars
    <3> QED  BY <3>1, <3>2
  <2> QED
    BY <1>2, <2>1, <2>2, <2>3, <2>4, <2>5, <2>6, <2>7, <2>8, <2>9, <2>10, <2>11, <2>12, <2>13, <2>14, <2>15, <2>16, <2>17, <2>18, <2>19, <2>20, <2>21, <2>22, <2>23, <2>24, <2>25, <2>26, <2>27, <2>28, <2>29, <2>30, <2>31, <2>32, <2>33
    DEF GuestStep, NmiDelivery, CoreStep, Command
<1> QED
  BY <1>1, <1>2 DEF Next

\* OneOperatingCore, strengthened at the two ends of BecomeMainCore.
Roles ==
    /\ OneOperatingCore
    /\ \A c \in Cores : pc[c] = "check" => ~MainDebuggingCore[c]
    /\ \A c \in Cores : pc[c] = "lockOwn" => MainDebuggingCore[c]

\* Every step keeps the operating core unique and the break lock with it.
LEMMA RoleStep == TypeOK /\ Calls /\ Roles /\ [Next]_vars => Roles'
<1> SUFFICES ASSUME TypeOK, Calls, Roles, [Next]_vars PROVE Roles'
  OBVIOUS
<1>1. CASE UNCHANGED vars
  BY <1>1 DEF Roles, OneOperatingCore, Token, vars, callVars, coreVars, lockVars
<1>2. ASSUME NEW c \in Cores,
             GuestStep(c) \/ NmiDelivery(c) \/ MtfHandleVmexit(c) \/ CoreStep(c) \/ Command(c)
      PROVE  Roles'
  <2>1. CASE VmExit(c)
    BY <2>1 DEF VmExit, Goto, Roles, OneOperatingCore, Token, TypeOK, Calls, InHalt, InBreak, callVars, nmiVars, mtfVars,
       coreVars, lockVars, dbgVars
  <2>2. CASE VmEntry(c)
    BY <2>2 DEF VmEntry, Goto, Roles, OneOperatingCore, Token, TypeOK, Calls, InHalt, InBreak, callVars, nmiVars, mtfVars,
       coreVars, lockVars, dbgVars
  <2>3. CASE Break(c)
    BY <2>3 DEF Break, Goto, Roles, OneOperatingCore, Token, TypeOK, Calls, InHalt, InBreak, callVars, nmiVars, mtfVars,
       coreVars, lockVars, dbgVars
  <2>4. CASE KdResponsePacketToDebugger(c)
    BY <2>4 DEF KdResponsePacketToDebugger, Goto, Roles, OneOperatingCore, Token, TypeOK, Calls, InHalt, InBreak, callVars, nmiVars, mtfVars,
       coreVars, lockVars, dbgVars
  <2>5. CASE IdtEmulationHandleNmi(c)
    BY <2>5 DEF IdtEmulationHandleNmi, Goto, Roles, OneOperatingCore, Token, TypeOK, Calls, InHalt, InBreak, callVars, nmiVars, mtfVars,
       coreVars, lockVars, dbgVars
  <2>6. CASE VmxBroadcastHandleNmiCallback(c)
    BY <2>6 DEF VmxBroadcastHandleNmiCallback, Goto, Roles, OneOperatingCore, Token, TypeOK, Calls, InHalt, InBreak, callVars, nmiVars, mtfVars,
       coreVars, lockVars, dbgVars
  <2>7. CASE MtfHandleVmexit(c)
    BY <2>7 DEF MtfHandleVmexit, Goto, Roles, OneOperatingCore, Token, TypeOK, Calls, InHalt, InBreak, callVars, nmiVars, mtfVars,
       coreVars, lockVars, dbgVars
  <2>8. CASE MtfUnset(c)
    BY <2>8 DEF MtfUnset, Goto, Roles, OneOperatingCore, Token, TypeOK, Calls, InHalt, InBreak, callVars, nmiVars, mtfVars,
       coreVars, lockVars, dbgVars
  <2>9. CASE AcquireBreakLock(c)
    BY <2>9 DEF AcquireBreakLock, Goto, Roles, OneOperatingCore, Token, TypeOK, Calls, InHalt, InBreak, callVars, nmiVars, mtfVars,
       coreVars, lockVars, dbgVars
  <2>10. CASE HaltWhileSpinning(c)
    BY <2>10 DEF HaltWhileSpinning, Goto, Roles, OneOperatingCore, Token, TypeOK, Calls, InHalt, InBreak, callVars, nmiVars, mtfVars,
       coreVars, lockVars, dbgVars
  <2>11. CASE BreakIgnored(c)
    BY <2>11 DEF BreakIgnored, Goto, Roles, OneOperatingCore, Token, TypeOK, Calls, InHalt, InBreak, callVars, nmiVars, mtfVars,
       coreVars, lockVars, dbgVars
  <2>12. CASE BecomeMainCore(c)
    BY <2>12 DEF BecomeMainCore, Goto, Roles, OneOperatingCore, Token, TypeOK, Calls, InHalt, InBreak, callVars, nmiVars, mtfVars,
       coreVars, lockVars, dbgVars
  <2>13. CASE LockOwnCore(c)
    BY <2>13 DEF LockOwnCore, Goto, Roles, OneOperatingCore, Token, TypeOK, Calls, InHalt, InBreak, callVars, nmiVars, mtfVars,
       coreVars, lockVars, dbgVars
  <2>14. CASE VmxBroadcastNmi(c)
    BY <2>14 DEF VmxBroadcastNmi, Goto, Roles, OneOperatingCore, Token, TypeOK, Calls, InHalt, InBreak, callVars, nmiVars, mtfVars,
       coreVars, lockVars, dbgVars
  <2>15. CASE BroadcastCompareExchange(c)
    BY <2>15 DEF BroadcastCompareExchange, Goto, Roles, OneOperatingCore, Token, TypeOK, Calls, InHalt, InBreak, callVars, nmiVars, mtfVars,
       coreVars, lockVars, dbgVars
  <2>16. CASE ApicTriggerGenericNmi(c)
    BY <2>16 DEF ApicTriggerGenericNmi, Goto, Roles, OneOperatingCore, Token, TypeOK, Calls, InHalt, InBreak, callVars, nmiVars, mtfVars,
       coreVars, lockVars, dbgVars
  <2>17. CASE KdHandleNmi(c)
    BY <2>17 DEF KdHandleNmi, Goto, Roles, OneOperatingCore, Token, TypeOK, Calls, InHalt, InBreak, callVars, nmiVars, mtfVars,
       coreVars, lockVars, dbgVars
  <2>18. CASE NmiLockOwnCore(c)
    BY <2>18 DEF NmiLockOwnCore, Goto, Roles, OneOperatingCore, Token, TypeOK, Calls, InHalt, InBreak, callVars, nmiVars, mtfVars,
       coreVars, lockVars, dbgVars
  <2>19. CASE ManageAsMain(c)
    BY <2>19 DEF ManageAsMain, Goto, Roles, OneOperatingCore, Token, TypeOK, Calls, InHalt, InBreak, callVars, nmiVars, mtfVars,
       coreVars, lockVars, dbgVars
  <2>20. CASE ManageAsHalted(c)
    BY <2>20 DEF ManageAsHalted, Goto, Roles, OneOperatingCore, Token, TypeOK, Calls, InHalt, InBreak, callVars, nmiVars, mtfVars,
       coreVars, lockVars, dbgVars
  <2>21. CASE SendPausePacket(c)
    BY <2>21 DEF SendPausePacket, Goto, Roles, OneOperatingCore, Token, TypeOK, Calls, InHalt, InBreak, callVars, nmiVars, mtfVars,
       coreVars, lockVars, dbgVars
  <2>22. CASE ScopedSpinlockAcquire(c)
    BY <2>22 DEF ScopedSpinlockAcquire, Goto, Roles, OneOperatingCore, Token, TypeOK, Calls, InHalt, InBreak, callVars, nmiVars, mtfVars,
       coreVars, lockVars, dbgVars
  <2>23. CASE CoreSwitched(c)
    BY <2>23 DEF CoreSwitched, Goto, Roles, OneOperatingCore, Token, TypeOK, Calls, InHalt, InBreak, callVars, nmiVars, mtfVars,
       coreVars, lockVars, dbgVars
  <2>24. CASE ScopedSpinlockRelease(c)
    BY <2>24 DEF ScopedSpinlockRelease, Goto, Roles, OneOperatingCore, Token, TypeOK, Calls, InHalt, InBreak, callVars, nmiVars, mtfVars,
       coreVars, lockVars, dbgVars
  <2>25. CASE DispatchEscaped(c)
    BY <2>25 DEF DispatchEscaped, Goto, Roles, OneOperatingCore, Token, TypeOK, Calls, InHalt, InBreak, callVars, nmiVars, mtfVars,
       coreVars, lockVars, dbgVars
  <2>26. CASE KdContinueDebuggee(c)
    BY <2>26 DEF KdContinueDebuggee, Goto, Roles, OneOperatingCore, Token, TypeOK, Calls, InHalt, InBreak, callVars, nmiVars, mtfVars,
       coreVars, lockVars, dbgVars
  <2>27. CASE UnlockNextCore(c)
    BY <2>27 DEF UnlockNextCore, Goto, Roles, OneOperatingCore, Token, TypeOK, Calls, InHalt, InBreak, callVars, nmiVars, mtfVars,
       coreVars, lockVars, dbgVars
  <2>28. CASE AllUnlocked(c)
    BY <2>28 DEF AllUnlocked, Goto, Roles, OneOperatingCore, Token, TypeOK, Calls, InHalt, InBreak, callVars, nmiVars, mtfVars,
       coreVars, lockVars, dbgVars
  <2>29. CASE KdGuaranteedStepInstruction(c)
    BY <2>29 DEF KdGuaranteedStepInstruction, Goto, Roles, OneOperatingCore, Token, TypeOK, Calls, InHalt, InBreak, callVars, nmiVars, mtfVars,
       coreVars, lockVars, dbgVars
  <2>30. CASE KdSwitchCore(c)
    BY <2>30 DEF KdSwitchCore, Goto, Roles, OneOperatingCore, Token, TypeOK, Calls, InHalt, InBreak, callVars, nmiVars, mtfVars,
       coreVars, lockVars, dbgVars
  <2>31. CASE UnlockTheNewCore(c)
    BY <2>31 DEF UnlockTheNewCore, Goto, Roles, OneOperatingCore, Token, TypeOK, Calls, InHalt, InBreak, callVars, nmiVars, mtfVars,
       coreVars, lockVars, dbgVars
  <2>32. CASE HaltReturns(c)
    BY <2>32 DEF HaltReturns, Goto, Roles, OneOperatingCore, Token, TypeOK, Calls, InHalt, InBreak, callVars, nmiVars, mtfVars,
       coreVars, lockVars, dbgVars
  <2>33. CASE ReleaseBreakLock(c)
    BY <2>33 DEF ReleaseBreakLock, Goto, Roles, OneOperatingCore, Token, TypeOK, Calls, InHalt, InBreak, callVars, nmiVars, mtfVars,
       coreVars, lockVars, dbgVars
  <2> QED
    BY <1>2, <2>1, <2>2, <2>3, <2>4, <2>5, <2>6, <2>7, <2>8, <2>9, <2>10, <2>11, <2>12, <2>13, <2>14, <2>15, <2>16, <2>17, <2>18, <2>19, <2>20, <2>21, <2>22, <2>23, <2>24, <2>25, <2>26, <2>27, <2>28, <2>29, <2>30, <2>31, <2>32, <2>33
    DEF GuestStep, NmiDelivery, CoreStep, Command
<1> QED
  BY <1>1, <1>2 DEF Next

\* ActionHasNmi, with no core in an instrumented step.
Announced ==
    /\ \A c \in Cores : ~WaitForStep[c]
    /\ ActionHasNmi

\* Without instrumented steps no step leaves an action without its NMI.
LEMMA AnnouncedStep ==
  ASSUME "stepIn" \notin Commands
  PROVE  TypeOK /\ Roles /\ Announced /\ [Next]_vars => Announced'
<1> SUFFICES ASSUME TypeOK, Roles, Announced, [Next]_vars PROVE Announced'
  OBVIOUS
<1>1. CASE UNCHANGED vars
  BY <1>1 DEF Announced, ActionHasNmi, vars, callVars, nmiVars, mtfVars
<1>2. ASSUME NEW c \in Cores,
             GuestStep(c) \/ NmiDelivery(c) \/ MtfHandleVmexit(c) \/ CoreStep(c) \/ Command(c)
      PROVE  Announced'
  <2>1. CASE VmExit(c)
    BY <2>1 DEF VmExit, Goto, Announced, ActionHasNmi, TypeOK, Cores, callVars, nmiVars, mtfVars,
       coreVars, lockVars, dbgVars
  <2>2. CASE VmEntry(c)
    BY <2>2 DEF VmEntry, Goto, Announced, ActionHasNmi, TypeOK, Cores, callVars, nmiVars, mtfVars,
       coreVars, lockVars, dbgVars
  <2>3. CASE Break(c)
    BY <2>3 DEF Break, Goto, Announced, ActionHasNmi, TypeOK, Cores, callVars, nmiVars, mtfVars,
       coreVars, lockVars, dbgVars
  <2>4. CASE KdResponsePacketToDebugger(c)
    BY <2>4 DEF KdResponsePacketToDebugger, Goto, Announced, ActionHasNmi, TypeOK, Cores, callVars, nmiVars, mtfVars,
       coreVars, lockVars, dbgVars
  <2>5. CASE IdtEmulationHandleNmi(c)
    BY <2>5 DEF IdtEmulationHandleNmi, Goto, Announced, ActionHasNmi, TypeOK, Cores, callVars, nmiVars, mtfVars,
       coreVars, lockVars, dbgVars
  <2>6. CASE VmxBroadcastHandleNmiCallback(c)
    BY <2>6 DEF VmxBroadcastHandleNmiCallback, Goto, Announced, ActionHasNmi, TypeOK, Cores, callVars, nmiVars, mtfVars,
       coreVars, lockVars, dbgVars
  <2>7. CASE MtfHandleVmexit(c)
    BY <2>7 DEF MtfHandleVmexit, Goto, Announced, ActionHasNmi, TypeOK, Cores, callVars, nmiVars, mtfVars,
       coreVars, lockVars, dbgVars
  <2>8. CASE MtfUnset(c)
    BY <2>8 DEF MtfUnset, Goto, Announced, ActionHasNmi, TypeOK, Cores, callVars, nmiVars, mtfVars,
       coreVars, lockVars, dbgVars
  <2>9. CASE AcquireBreakLock(c)
    BY <2>9 DEF AcquireBreakLock, Goto, Announced, ActionHasNmi, TypeOK, Cores, callVars, nmiVars, mtfVars,
       coreVars, lockVars, dbgVars
  <2>10. CASE HaltWhileSpinning(c)
    BY <2>10 DEF HaltWhileSpinning, Goto, Announced, ActionHasNmi, TypeOK, Cores, callVars, nmiVars, mtfVars,
       coreVars, lockVars, dbgVars
  <2>11. CASE BreakIgnored(c)
    BY <2>11 DEF BreakIgnored, Goto, Announced, ActionHasNmi, TypeOK, Cores, callVars, nmiVars, mtfVars,
       coreVars, lockVars, dbgVars
  <2>12. CASE BecomeMainCore(c)
    BY <2>12 DEF BecomeMainCore, Goto, Announced, ActionHasNmi, TypeOK, Cores, callVars, nmiVars, mtfVars,
       coreVars, lockVars, dbgVars
  <2>13. CASE LockOwnCore(c)
    BY <2>13 DEF LockOwnCore, Goto, Announced, ActionHasNmi, TypeOK, Cores, callVars, nmiVars, mtfVars,
       coreVars, lockVars, dbgVars
  <2>14. CASE VmxBroadcastNmi(c)
    BY <2>14 DEF VmxBroadcastNmi, Goto, Announced, ActionHasNmi, TypeOK, Cores, callVars, nmiVars, mtfVars,
       coreVars, lockVars, dbgVars
  <2>15. CASE BroadcastCompareExchange(c)
    BY <2>15 DEF BroadcastCompareExchange, Goto, Announced, ActionHasNmi, TypeOK, Cores, callVars, nmiVars, mtfVars,
       coreVars, lockVars, dbgVars, Roles, OneOperatingCore, Token
  <2>16. CASE ApicTriggerGenericNmi(c)
    BY <2>16 DEF ApicTriggerGenericNmi, Goto, Announced, ActionHasNmi, TypeOK, Cores, callVars, nmiVars, mtfVars,
       coreVars, lockVars, dbgVars, Roles, OneOperatingCore, Token
  <2>17. CASE KdHandleNmi(c)
    BY <2>17 DEF KdHandleNmi, Goto, Announced, ActionHasNmi, TypeOK, Cores, callVars, nmiVars, mtfVars,
       coreVars, lockVars, dbgVars
  <2>18. CASE NmiLockOwnCore(c)
    BY <2>18 DEF NmiLockOwnCore, Goto, Announced, ActionHasNmi, TypeOK, Cores, callVars, nmiVars, mtfVars,
       coreVars, lockVars, dbgVars
  <2>19. CASE ManageAsMain(c)
    BY <2>19 DEF ManageAsMain, Goto, Announced, ActionHasNmi, TypeOK, Cores, callVars, nmiVars, mtfVars,
       coreVars, lockVars, dbgVars
  <2>20. CASE ManageAsHalted(c)
    BY <2>20 DEF ManageAsHalted, Goto, Announced, ActionHasNmi, TypeOK, Cores, callVars, nmiVars, mtfVars,
       coreVars, lockVars, dbgVars
  <2>21. CASE SendPausePacket(c)
    BY <2>21 DEF SendPausePacket, Goto, Announced, ActionHasNmi, TypeOK, Cores, callVars, nmiVars, mtfVars,
       coreVars, lockVars, dbgVars
  <2>22. CASE ScopedSpinlockAcquire(c)
    BY <2>22 DEF ScopedSpinlockAcquire, Goto, Announced, ActionHasNmi, TypeOK, Cores, callVars, nmiVars, mtfVars,
       coreVars, lockVars, dbgVars
  <2>23. CASE CoreSwitched(c)
    BY <2>23 DEF CoreSwitched, Goto, Announced, ActionHasNmi, TypeOK, Cores, callVars, nmiVars, mtfVars,
       coreVars, lockVars, dbgVars
  <2>24. CASE ScopedSpinlockRelease(c)
    BY <2>24 DEF ScopedSpinlockRelease, Goto, Announced, ActionHasNmi, TypeOK, Cores, callVars, nmiVars, mtfVars,
       coreVars, lockVars, dbgVars
  <2>25. CASE DispatchEscaped(c)
    BY <2>25 DEF DispatchEscaped, Goto, Announced, ActionHasNmi, TypeOK, Cores, callVars, nmiVars, mtfVars,
       coreVars, lockVars, dbgVars
  <2>26. CASE KdContinueDebuggee(c)
    BY <2>26 DEF KdContinueDebuggee, Goto, Announced, ActionHasNmi, TypeOK, Cores, callVars, nmiVars, mtfVars,
       coreVars, lockVars, dbgVars
  <2>27. CASE UnlockNextCore(c)
    BY <2>27 DEF UnlockNextCore, Goto, Announced, ActionHasNmi, TypeOK, Cores, callVars, nmiVars, mtfVars,
       coreVars, lockVars, dbgVars
  <2>28. CASE AllUnlocked(c)
    BY <2>28 DEF AllUnlocked, Goto, Announced, ActionHasNmi, TypeOK, Cores, callVars, nmiVars, mtfVars,
       coreVars, lockVars, dbgVars
  <2>29. CASE KdGuaranteedStepInstruction(c)
    BY <2>29 DEF KdGuaranteedStepInstruction, Goto, Announced, ActionHasNmi, TypeOK, Cores, callVars, nmiVars, mtfVars,
       coreVars, lockVars, dbgVars, CommandArrives
  <2>30. CASE KdSwitchCore(c)
    BY <2>30 DEF KdSwitchCore, Goto, Announced, ActionHasNmi, TypeOK, Cores, callVars, nmiVars, mtfVars,
       coreVars, lockVars, dbgVars
  <2>31. CASE UnlockTheNewCore(c)
    BY <2>31 DEF UnlockTheNewCore, Goto, Announced, ActionHasNmi, TypeOK, Cores, callVars, nmiVars, mtfVars,
       coreVars, lockVars, dbgVars
  <2>32. CASE HaltReturns(c)
    BY <2>32 DEF HaltReturns, Goto, Announced, ActionHasNmi, TypeOK, Cores, callVars, nmiVars, mtfVars,
       coreVars, lockVars, dbgVars
  <2>33. CASE ReleaseBreakLock(c)
    BY <2>33 DEF ReleaseBreakLock, Goto, Announced, ActionHasNmi, TypeOK, Cores, callVars, nmiVars, mtfVars,
       coreVars, lockVars, dbgVars
  <2> QED
    BY <1>2, <2>1, <2>2, <2>3, <2>4, <2>5, <2>6, <2>7, <2>8, <2>9, <2>10, <2>11, <2>12, <2>13, <2>14, <2>15, <2>16, <2>17, <2>18, <2>19, <2>20, <2>21, <2>22, <2>23, <2>24, <2>25, <2>26, <2>27, <2>28, <2>29, <2>30, <2>31, <2>32, <2>33
    DEF GuestStep, NmiDelivery, CoreStep, Command
<1> QED
  BY <1>1, <1>2 DEF Next

-----------------------------------------------------------------------------
\* The initial state satisfies the three invariants.
LEMMA InitInv == Init => TypeOK /\ Calls /\ Roles
<1> SUFFICES ASSUME Init PROVE TypeOK /\ Calls /\ Roles
  OBVIOUS
<1>1. /\ pc \in [Cores -> Locations]
      /\ bpCaller \in [Cores -> {"none", "exit", "mtfTail"}]
      /\ nmiCaller \in [Cores -> {"none", "leave", "mtfTail", "spin"}]
      /\ idx \in [Cores -> 0 .. N]
  BY NAssumption DEF Init, Locations
<1>2. AllFalse \in [Cores -> BOOLEAN]
  BY DEF AllFalse
<1>3. NmiBroadcastAction \in [Cores -> {"NONE", "KD_HALT_CORE"}]
  BY DEF Init
<1>4. TypeOK
  BY <1>1, <1>2, <1>3 DEF Init, TypeOK
<1>5. Calls
  BY DEF Init, Calls, InHalt, InBreak
<1>6. Roles
  BY DEF Init, Roles, OneOperatingCore, Token, AllFalse
<1> QED
  BY <1>4, <1>5, <1>6

\* Every reachable state is well typed, for any number of cores, any commands and
\* any timing: no loop of Kd.c or VmxBroadcast.c leaves the range of the cores and
\* every return finds the caller it goes back to.
THEOREM TypeCorrect == Spec => []TypeOK
  BY InitInv, TypeStep, PTL DEF Spec

\* At most one core is the operating core, however breaks, NMIs and commands are
\* timed and for any number of cores (MainDebuggingCore and
\* DebuggerHandleBreakpointLock in Kd.c).
THEOREM OperatingCoreUnique == Spec => []OneOperatingCore
<1>1. Roles => OneOperatingCore
  BY DEF Roles
<1> QED
  BY <1>1, InitInv, TypeStep, RoleStep, PTL DEF Spec

\* Without instrumented steps a broadcast never waits for an action nobody will
\* take, whatever the timing of the commands: with them IdtEmulationHandleNmi
\* drops the NMI and leaves the action (VmxBroadcastNmi's compare-exchange).
THEOREM BroadcastIsAnnounced ==
  ASSUME "stepIn" \notin Commands
  PROVE  Spec => []ActionHasNmi
<1>1. Init => Announced
  BY DEF Init, Announced, ActionHasNmi, AllFalse
<1>2. Announced => ActionHasNmi
  BY DEF Announced
<1> QED
  BY <1>1, <1>2, InitInv, TypeStep, RoleStep, AnnouncedStep, PTL DEF Spec

-----------------------------------------------------------------------------
(* From the announcement of a halt to its end *)

\* The operating core has announced a halt of d, or serves commands, and has not
\* unlocked d again.
Open(d) ==
    \E m \in Cores :
        /\ MainDebuggingCore[m]
        /\ \/ pc[m] \in {"manage", "send", "command", "park", "held"}
           \/ pc[m] = "compareExchange" /\ idx[m] > d
           \/ pc[m] = "unlockAll" /\ idx[m] <= d

\* A halt of d is announced, on its way or reached.
Due(d) == NmiBroadcastAction[d] = "KD_HALT_CORE" \/ WaitingToBeLocked[d]
Doomed(d) ==
    \/ Due(d)
    \/ pc[d] \in {"nmi", "nmiLock"}
    \/ ~MainDebuggingCore[d] /\ (pc[d] \in {"switch", "escaped", "manage"} \/ Halted(d))

\* A core that steps alone: the others stay halted until it is back.
Alone(c) ==
    /\ pc[c] \in {"escaped", "return", "release", "guest", "exit", "leave", "mtfTail",
                  "spin", "check", "lockOwn"}
    /\ ~Doomed(c)
    /\ \A d \in Cores \ {c} : Halted(d) /\ ~MainDebuggingCore[d]

\* HaltedHasOwner, strengthened to all the way a core goes from the announcement of
\* its halt to the halt, and to the loops that undo it.
Attended == \A d \in Cores : Doomed(d) => Open(d) \/ \E c \in Cores : DoNotNmiNotify[c]
StepsAlone == \A d \in Cores : DoNotNmiNotify[d] => Alone(d)
Once ==
    \A d \in Cores : NmiBroadcastAction[d] = "KD_HALT_CORE" => ~WaitingToBeLocked[d] /\ pc[d] # "nmi"
DueElsewhere ==
    \A d \in Cores : Due(d) => /\ ~MainDebuggingCore[d] /\ ~Halted(d)
                               /\ pc[d] \notin {"nmiLock", "switch", "escaped", "manage"}
MainNotHalting == \A d \in Cores : MainDebuggingCore[d] => pc[d] \notin {"nmi", "nmiLock"}
UnlockedInOrder ==
    \A c \in Cores : pc[c] = "unlockAll" => \A d \in Cores \ {c} : idx[c] <= d => Halted(d)
SwitchPending ==
    \A c \in Cores : pc[c] = "switch" => /\ idx[c] \in Cores \ {c} /\ MainDebuggingCore[idx[c]]
                                         /\ \A d \in Cores \ {c} : Halted(d)

Halting == /\ Attended /\ StepsAlone /\ Once /\ DueElsewhere /\ MainNotHalting
           /\ UnlockedInOrder /\ SwitchPending

\* Every step keeps them, if commands arrive only when the cores are halted.
LEMMA HaltingStep ==
  ASSUME SettleBeforeCommand
  PROVE  TypeOK /\ Calls /\ Roles /\ Halting /\ [Next]_vars => Halting'
<1> SUFFICES ASSUME TypeOK, Calls, Roles, Halting, [Next]_vars PROVE Halting'
  OBVIOUS
<1> USE DEF Halted
<1>1. CASE UNCHANGED vars
  <2>1. UNCHANGED <<pc, idx, Lock, MainDebuggingCore, WaitingToBeLocked, DoNotNmiNotify, NmiBroadcastAction>>
    BY <1>1 DEF vars, callVars, nmiVars, coreVars, lockVars
  <2> QED
    BY <2>1, Zenon DEF Halting, Attended, StepsAlone, Once, DueElsewhere, MainNotHalting, UnlockedInOrder,
       SwitchPending, Open, Due, Doomed, Alone
<1>2. ASSUME NEW c \in Cores,
             GuestStep(c) \/ NmiDelivery(c) \/ MtfHandleVmexit(c) \/ CoreStep(c) \/ Command(c)
      PROVE  Halting'
  <2> /\ pc \in [Cores -> Locations] /\ idx \in [Cores -> 0 .. N] /\ Lock \in [Cores -> BOOLEAN]
      /\ MainDebuggingCore \in [Cores -> BOOLEAN] /\ WaitingToBeLocked \in [Cores -> BOOLEAN]
      /\ DoNotNmiNotify \in [Cores -> BOOLEAN]
      /\ NmiBroadcastAction \in [Cores -> {"NONE", "KD_HALT_CORE"}]
    BY DEF TypeOK
  <2> USE DEF Halting, Attended, StepsAlone, Once, DueElsewhere, MainNotHalting,
              UnlockedInOrder, SwitchPending, Roles, OneOperatingCore, Token, Open, Due,
              Doomed, Alone, Halted, CommandArrives, Settled, Cores, Goto, callVars, nmiVars,
              mtfVars, coreVars, lockVars, dbgVars
  <2>1. CASE VmExit(c)
    BY <2>1 DEF VmExit
  <2>2. CASE VmEntry(c)
    BY <2>2 DEF VmEntry
  <2>3. CASE Break(c)
    BY <2>3 DEF Break
  <2>4. CASE KdResponsePacketToDebugger(c)
    BY <2>4 DEF KdResponsePacketToDebugger
  <2>5. CASE IdtEmulationHandleNmi(c)
    BY <2>5 DEF IdtEmulationHandleNmi
  <2>6. CASE VmxBroadcastHandleNmiCallback(c)
    BY <2>6 DEF VmxBroadcastHandleNmiCallback
  <2>7. CASE MtfHandleVmexit(c)
    <3>1. PICK x \in {"spin", "nmi", "mtfTail"} :
             /\ pc' = [pc EXCEPT ![c] = x] /\ pc[c] = "guest" /\ (x = "nmi" => WaitingToBeLocked[c])
             /\ UNCHANGED <<idx, nmiVars, coreVars, lockVars>>
      BY <2>7, Zenon DEF MtfHandleVmexit
    <3>2. Attended'
      BY <3>1
    <3>3. StepsAlone'
      BY <3>1
    <3>4. Once'
      BY <3>1
    <3>5. DueElsewhere'
      BY <3>1
    <3>6. MainNotHalting'
      BY <3>1
    <3>7. UnlockedInOrder'
      BY <3>1
    <3>8. SwitchPending'
      BY <3>1
    <3> HIDE DEF Attended, StepsAlone, Once, DueElsewhere, MainNotHalting, UnlockedInOrder, SwitchPending
    <3> QED
      BY <3>2, <3>3, <3>4, <3>5, <3>6, <3>7, <3>8, Zenon DEF Halting
  <2>8. CASE MtfUnset(c)
    BY <2>8 DEF MtfUnset
  <2>9. CASE AcquireBreakLock(c)
    BY <2>9 DEF AcquireBreakLock
  <2>10. CASE HaltWhileSpinning(c)
    BY <2>10 DEF HaltWhileSpinning
  <2>11. CASE BreakIgnored(c)
    <3>1. PICK x \in {"exit", "mtfTail"} :
             /\ pc' = [pc EXCEPT ![c] = x] /\ pc[c] = "check"
             /\ UNCHANGED <<idx, nmiVars, coreVars, Lock>>
      BY <2>11, Zenon DEF BreakIgnored, TypeOK, Calls, InBreak
    <3>2. Attended'
      BY <3>1
    <3>3. StepsAlone'
      BY <3>1
    <3>4. Once'
      BY <3>1
    <3>5. DueElsewhere'
      BY <3>1
    <3>6. MainNotHalting'
      BY <3>1
    <3>7. UnlockedInOrder'
      BY <3>1
    <3>8. SwitchPending'
      BY <3>1
    <3> HIDE DEF Attended, StepsAlone, Once, DueElsewhere, MainNotHalting, UnlockedInOrder, SwitchPending
    <3> QED
      BY <3>2, <3>3, <3>4, <3>5, <3>6, <3>7, <3>8, Zenon DEF Halting
  <2>12. CASE BecomeMainCore(c)
    BY <2>12 DEF BecomeMainCore
  <2>13. CASE LockOwnCore(c)
    BY <2>13 DEF LockOwnCore
  <2>14. CASE VmxBroadcastNmi(c)
    <3>1. Attended'
      BY <2>14 DEF VmxBroadcastNmi
    <3>2. StepsAlone'
      BY <2>14, Zenon DEF VmxBroadcastNmi
    <3>3. Once'
      BY <2>14 DEF VmxBroadcastNmi
    <3>4. DueElsewhere'
      BY <2>14 DEF VmxBroadcastNmi
    <3>5. MainNotHalting'
      BY <2>14 DEF VmxBroadcastNmi
    <3>6. UnlockedInOrder'
      BY <2>14 DEF VmxBroadcastNmi
    <3>7. SwitchPending'
      BY <2>14 DEF VmxBroadcastNmi
    <3> HIDE DEF Attended, StepsAlone, Once, DueElsewhere, MainNotHalting, UnlockedInOrder, SwitchPending
    <3> QED
      BY <3>1, <3>2, <3>3, <3>4, <3>5, <3>6, <3>7, Zenon DEF Halting
  <2>15. CASE BroadcastCompareExchange(c)
    BY <2>15 DEF BroadcastCompareExchange
  <2>16. CASE ApicTriggerGenericNmi(c)
    BY <2>16 DEF ApicTriggerGenericNmi
  <2>17. CASE KdHandleNmi(c)
    BY <2>17 DEF KdHandleNmi
  <2>18. CASE NmiLockOwnCore(c)
    BY <2>18 DEF NmiLockOwnCore
  <2>19. CASE ManageAsMain(c)
    BY <2>19 DEF ManageAsMain
  <2>20. CASE ManageAsHalted(c)
    BY <2>20 DEF ManageAsHalted
  <2>21. CASE SendPausePacket(c)
    BY <2>21 DEF SendPausePacket
  <2>22. CASE ScopedSpinlockAcquire(c)
    BY <2>22 DEF ScopedSpinlockAcquire
  <2>23. CASE CoreSwitched(c)
    BY <2>23 DEF CoreSwitched
  <2>24. CASE ScopedSpinlockRelease(c)
    BY <2>24 DEF ScopedSpinlockRelease
  <2>25. CASE DispatchEscaped(c)
    BY <2>25 DEF DispatchEscaped
  <2>26. CASE KdContinueDebuggee(c)
    BY <2>26 DEF KdContinueDebuggee
  <2>27. CASE UnlockNextCore(c)
    BY <2>27 DEF UnlockNextCore
  <2>28. CASE AllUnlocked(c)
    <3>1. MainDebuggingCore[c] /\ ~\E d \in Cores : Open(d)
      BY <2>28 DEF AllUnlocked
    <3>2. Attended'
      BY <2>28, <3>1 DEF AllUnlocked
    <3>3. StepsAlone'
      BY <2>28, <3>1 DEF AllUnlocked
    <3>4. Once'
      BY <2>28, <3>1 DEF AllUnlocked
    <3>5. DueElsewhere'
      BY <2>28, <3>1 DEF AllUnlocked
    <3>6. MainNotHalting'
      BY <2>28, <3>1 DEF AllUnlocked
    <3>7. UnlockedInOrder'
      BY <2>28, <3>1 DEF AllUnlocked
    <3>8. SwitchPending'
      BY <2>28, <3>1 DEF AllUnlocked
    <3> HIDE DEF Attended, StepsAlone, Once, DueElsewhere, MainNotHalting, UnlockedInOrder, SwitchPending
    <3> QED
      BY <3>2, <3>3, <3>4, <3>5, <3>6, <3>7, <3>8, Zenon DEF Halting
  <2>29. CASE KdGuaranteedStepInstruction(c)
    BY <2>29 DEF KdGuaranteedStepInstruction
  <2>30. CASE KdSwitchCore(c)
    BY <2>30 DEF KdSwitchCore
  <2>31. CASE UnlockTheNewCore(c)
    BY <2>31 DEF UnlockTheNewCore
  <2>32. CASE HaltReturns(c)
    BY <2>32 DEF HaltReturns
  <2>33. CASE ReleaseBreakLock(c)
    <3>1. PICK x \in {"leave", "mtfTail", "spin", "exit"} :
             /\ pc' = [pc EXCEPT ![c] = x] /\ pc[c] = "release"
             /\ MainDebuggingCore' = [MainDebuggingCore EXCEPT ![c] = FALSE]
             /\ UNCHANGED <<idx, nmiVars, WaitingToBeLocked, DoNotNmiNotify, Lock>>
      BY <2>33, Zenon DEF ReleaseBreakLock, TypeOK, Calls, InHalt
    <3>2. Attended'
      BY <3>1
    <3>3. StepsAlone'
      BY <3>1
    <3>4. Once'
      BY <3>1
    <3>5. DueElsewhere'
      BY <3>1
    <3>6. MainNotHalting'
      BY <3>1
    <3>7. UnlockedInOrder'
      BY <3>1
    <3>8. SwitchPending'
      BY <3>1
    <3> HIDE DEF Attended, StepsAlone, Once, DueElsewhere, MainNotHalting, UnlockedInOrder, SwitchPending
    <3> QED
      BY <3>2, <3>3, <3>4, <3>5, <3>6, <3>7, <3>8, Zenon DEF Halting
  <2> HIDE DEF Halting, Attended, StepsAlone, Once, DueElsewhere, MainNotHalting,
               UnlockedInOrder, SwitchPending, Roles, OneOperatingCore, Token, Open, Due,
               Doomed, Alone, Halted, CommandArrives, Settled, Cores, Goto, callVars, nmiVars,
               mtfVars, coreVars, lockVars, dbgVars
  <2> QED
    BY <1>2, <2>1, <2>2, <2>3, <2>4, <2>5, <2>6, <2>7, <2>8, <2>9, <2>10, <2>11, <2>12, <2>13,
       <2>14, <2>15, <2>16, <2>17, <2>18, <2>19, <2>20, <2>21, <2>22, <2>23, <2>24, <2>25,
       <2>26, <2>27, <2>28, <2>29, <2>30, <2>31, <2>32, <2>33, Zenon
    DEF GuestStep, NmiDelivery, CoreStep, Command
<1> QED
  BY <1>1, <1>2 DEF Next

-----------------------------------------------------------------------------
\* MtfHasReason, strengthened to the handlers: while they run the reason of the
\* monitor trap flag can be the place the core is at or returns to.
MtfKnown ==
    \A c \in Cores :
        /\ pc[c] \in {"guest", "exit", "leave", "mtfTail"} => bpCaller[c] = "none"
        /\ nmiCaller[c] \in {"leave", "mtfTail"} => bpCaller[c] = "none"
        /\ IgnoreMtfUnset[c] => WaitForStep[c]
        /\ nmiCaller[c] = "spin" => IgnoreOneMtf[c]
        /\ mtf[c] => \/ WaitForStep[c] \/ WaitingToBeLocked[c] \/ IgnoreOneMtf[c]
                     \/ pc[c] = "mtfTail" \/ nmiCaller[c] = "mtfTail"
                     \/ nmiCaller[c] = "none" /\ bpCaller[c] = "mtfTail"
        /\ mtf[c] /\ pc[c] = "nmi" /\ nmiCaller[c] = "leave" => WaitForStep[c] \/ IgnoreOneMtf[c]

\* The core that has just taken the break lock is not to be halted by another.
LEMMA HolderNotDue ==
  ASSUME Roles, Halting, NEW c \in Cores, pc[c] = "check"
  PROVE  ~WaitingToBeLocked[c]
<1>1. SUFFICES ASSUME WaitingToBeLocked[c] PROVE FALSE
  OBVIOUS
<1>2. Doomed(c)
  BY <1>1 DEF Doomed, Due
<1>3. ~Open(c)
  BY DEF Roles, OneOperatingCore, Token, Open
<1>4. PICK d \in Cores : DoNotNmiNotify[d]
  BY <1>2, <1>3 DEF Halting, Attended
<1>5. Alone(d)
  BY <1>4 DEF Halting, StepsAlone
<1> QED
  BY <1>2, <1>5, Zenon DEF Alone, Halted

\* Every step keeps them.
LEMMA MtfStep ==
  TypeOK /\ Calls /\ Roles /\ Halting /\ MtfKnown /\ [Next]_vars => MtfKnown'
<1> SUFFICES ASSUME TypeOK, Calls, Roles, Halting, MtfKnown, [Next]_vars PROVE MtfKnown'
  OBVIOUS
<1>1. CASE UNCHANGED vars
  <2>1. UNCHANGED <<pc, bpCaller, nmiCaller, WaitingToBeLocked, mtf, IgnoreOneMtf, IgnoreMtfUnset, WaitForStep>>
    BY <1>1 DEF vars, callVars, mtfVars, coreVars, dbgVars
  <2> QED
    BY <2>1, Zenon DEF MtfKnown
<1>2. ASSUME NEW c \in Cores,
             GuestStep(c) \/ NmiDelivery(c) \/ MtfHandleVmexit(c) \/ CoreStep(c) \/ Command(c)
      PROVE  MtfKnown'
  <2> /\ pc \in [Cores -> Locations]
      /\ bpCaller \in [Cores -> {"none", "exit", "mtfTail"}]
      /\ nmiCaller \in [Cores -> {"none", "leave", "mtfTail", "spin"}]
      /\ WaitingToBeLocked \in [Cores -> BOOLEAN]
      /\ mtf \in [Cores -> BOOLEAN]
      /\ IgnoreOneMtf \in [Cores -> BOOLEAN]
      /\ IgnoreMtfUnset \in [Cores -> BOOLEAN]
      /\ WaitForStep \in [Cores -> BOOLEAN]
    BY Zenon DEF TypeOK
  <2> USE DEF MtfKnown, Calls, InHalt, InBreak, Goto, callVars, nmiVars, mtfVars, coreVars,
              lockVars, dbgVars
  <2>1. CASE VmExit(c)
    BY <2>1 DEF VmExit
  <2>2. CASE VmEntry(c)
    BY <2>2 DEF VmEntry
  <2>3. CASE Break(c)
    BY <2>3 DEF Break
  <2>4. CASE KdResponsePacketToDebugger(c)
    BY <2>4 DEF KdResponsePacketToDebugger
  <2>5. CASE IdtEmulationHandleNmi(c)
    BY <2>5 DEF IdtEmulationHandleNmi, Halting, Once
  <2>6. CASE VmxBroadcastHandleNmiCallback(c)
    BY <2>6 DEF VmxBroadcastHandleNmiCallback, Halting, Once
  <2>7. CASE MtfHandleVmexit(c)
    BY <2>7 DEF MtfHandleVmexit
  <2>8. CASE MtfUnset(c)
    BY <2>8 DEF MtfUnset
  <2>9. CASE AcquireBreakLock(c)
    BY <2>9 DEF AcquireBreakLock
  <2>10. CASE HaltWhileSpinning(c)
    BY <2>10 DEF HaltWhileSpinning
  <2>11. CASE BreakIgnored(c)
    BY <2>11 DEF BreakIgnored
  <2>12. CASE BecomeMainCore(c)
    BY <2>12, HolderNotDue DEF BecomeMainCore
  <2>13. CASE LockOwnCore(c)
    BY <2>13 DEF LockOwnCore
  <2>14. CASE VmxBroadcastNmi(c)
    BY <2>14 DEF VmxBroadcastNmi
  <2>15. CASE BroadcastCompareExchange(c)
    BY <2>15 DEF BroadcastCompareExchange
  <2>16. CASE ApicTriggerGenericNmi(c)
    BY <2>16 DEF ApicTriggerGenericNmi
  <2>17. CASE KdHandleNmi(c)
    BY <2>17 DEF KdHandleNmi
  <2>18. CASE NmiLockOwnCore(c)
    BY <2>18 DEF NmiLockOwnCore
  <2>19. CASE ManageAsMain(c)
    BY <2>19 DEF ManageAsMain
  <2>20. CASE ManageAsHalted(c)
    BY <2>20 DEF ManageAsHalted, Halting, DueElsewhere, Due
  <2>21. CASE SendPausePacket(c)
    BY <2>21 DEF SendPausePacket
  <2>22. CASE ScopedSpinlockAcquire(c)
    BY <2>22 DEF ScopedSpinlockAcquire
  <2>23. CASE CoreSwitched(c)
    BY <2>23 DEF CoreSwitched
  <2>24. CASE ScopedSpinlockRelease(c)
    BY <2>24 DEF ScopedSpinlockRelease
  <2>25. CASE DispatchEscaped(c)
    BY <2>25 DEF DispatchEscaped
  <2>26. CASE KdContinueDebuggee(c)
    BY <2>26 DEF KdContinueDebuggee
  <2>27. CASE UnlockNextCore(c)
    BY <2>27 DEF UnlockNextCore
  <2>28. CASE AllUnlocked(c)
    BY <2>28 DEF AllUnlocked
  <2>29. CASE KdGuaranteedStepInstruction(c)
    BY <2>29 DEF KdGuaranteedStepInstruction
  <2>30. CASE KdSwitchCore(c)
    BY <2>30 DEF KdSwitchCore
  <2>31. CASE UnlockTheNewCore(c)
    BY <2>31 DEF UnlockTheNewCore
  <2>32. CASE HaltReturns(c)
    BY <2>32 DEF HaltReturns
  <2>33. CASE ReleaseBreakLock(c)
    BY <2>33 DEF ReleaseBreakLock
  <2> HIDE DEF MtfKnown, Calls, InHalt, InBreak, Goto, callVars, nmiVars, mtfVars, coreVars,
               lockVars, dbgVars
  <2> QED
    BY <1>2, <2>1, <2>2, <2>3, <2>4, <2>5, <2>6, <2>7, <2>8, <2>9, <2>10, <2>11, <2>12, <2>13,
       <2>14, <2>15, <2>16, <2>17, <2>18, <2>19, <2>20, <2>21, <2>22, <2>23, <2>24, <2>25,
       <2>26, <2>27, <2>28, <2>29, <2>30, <2>31, <2>32, <2>33, Zenon
    DEF GuestStep, NmiDelivery, CoreStep, Command
<1> QED
  BY <1>1, <1>2, Zenon DEF Next

\* PauseHasReason, strengthened to the core that is on its way to the pause; with no
\* core switched, the core that came in through a break is the operating core as
\* long as it is halted.
BreakOwner ==
    /\ \A c \in Cores : pc[c] \in InHalt => (nmiCaller[c] = "none" <=> MainDebuggingCore[c])
    /\ \A c \in Cores : pc[c] = "nmiLock" => ~MainDebuggingCore[c]
    /\ \A c \in Cores : pc[c] # "switch"
    /\ \A c \in Cores : pc[c] \in {"broadcast", "compareExchange", "manage"} /\ MainDebuggingCore[c]
          => HaltReason # "NOT_PAUSED"

\* Every step keeps it, if no core is switched.
LEMMA BreakOwnerStep ==
  ASSUME "changeCore" \notin Commands
  PROVE  TypeOK /\ Calls /\ Roles /\ BreakOwner /\ [Next]_vars => BreakOwner'
<1> SUFFICES ASSUME TypeOK, Calls, Roles, BreakOwner, [Next]_vars PROVE BreakOwner'
  OBVIOUS
<1>1. CASE UNCHANGED vars
  <2>1. UNCHANGED <<pc, bpCaller, nmiCaller, MainDebuggingCore, HaltReason>>
    BY <1>1, Zenon DEF vars, callVars, mtfVars, coreVars, dbgVars
  <2> QED
    BY <2>1, Zenon DEF BreakOwner, InHalt
<1>2. ASSUME NEW c \in Cores,
             GuestStep(c) \/ NmiDelivery(c) \/ MtfHandleVmexit(c) \/ CoreStep(c) \/ Command(c)
      PROVE  BreakOwner'
  <2> /\ pc \in [Cores -> Locations]
      /\ bpCaller \in [Cores -> {"none", "exit", "mtfTail"}]
      /\ nmiCaller \in [Cores -> {"none", "leave", "mtfTail", "spin"}]
      /\ MainDebuggingCore \in [Cores -> BOOLEAN]
    BY Zenon DEF TypeOK
  <2> USE DEF BreakOwner, Calls, Roles, OneOperatingCore, Token, InHalt, InBreak, Goto,
              callVars, nmiVars, mtfVars, coreVars, lockVars, dbgVars
  <2>1. CASE VmExit(c)
    BY <2>1 DEF VmExit
  <2>2. CASE VmEntry(c)
    BY <2>2 DEF VmEntry
  <2>3. CASE Break(c)
    BY <2>3 DEF Break
  <2>4. CASE KdResponsePacketToDebugger(c)
    BY <2>4 DEF KdResponsePacketToDebugger
  <2>5. CASE IdtEmulationHandleNmi(c)
    BY <2>5 DEF IdtEmulationHandleNmi
  <2>6. CASE VmxBroadcastHandleNmiCallback(c)
    BY <2>6, Zenon DEF VmxBroadcastHandleNmiCallback
  <2>7. CASE MtfHandleVmexit(c)
    BY <2>7 DEF MtfHandleVmexit
  <2>8. CASE MtfUnset(c)
    BY <2>8 DEF MtfUnset
  <2>9. CASE AcquireBreakLock(c)
    BY <2>9 DEF AcquireBreakLock
  <2>10. CASE HaltWhileSpinning(c)
    BY <2>10 DEF HaltWhileSpinning
  <2>11. CASE BreakIgnored(c)
    BY <2>11 DEF BreakIgnored
  <2>12. CASE BecomeMainCore(c)
    BY <2>12 DEF BecomeMainCore
  <2>13. CASE LockOwnCore(c)
    BY <2>13 DEF LockOwnCore
  <2>14. CASE VmxBroadcastNmi(c)
    BY <2>14 DEF VmxBroadcastNmi
  <2>15. CASE BroadcastCompareExchange(c)
    BY <2>15 DEF BroadcastCompareExchange
  <2>16. CASE ApicTriggerGenericNmi(c)
    BY <2>16 DEF ApicTriggerGenericNmi
  <2>17. CASE KdHandleNmi(c)
    BY <2>17 DEF KdHandleNmi
  <2>18. CASE NmiLockOwnCore(c)
    BY <2>18 DEF NmiLockOwnCore
  <2>19. CASE ManageAsMain(c)
    BY <2>19 DEF ManageAsMain
  <2>20. CASE ManageAsHalted(c)
    BY <2>20 DEF ManageAsHalted
  <2>21. CASE SendPausePacket(c)
    BY <2>21 DEF SendPausePacket
  <2>22. CASE ScopedSpinlockAcquire(c)
    BY <2>22 DEF ScopedSpinlockAcquire
  <2>23. CASE CoreSwitched(c)
    BY <2>23 DEF CoreSwitched
  <2>24. CASE ScopedSpinlockRelease(c)
    BY <2>24 DEF ScopedSpinlockRelease
  <2>25. CASE DispatchEscaped(c)
    BY <2>25 DEF DispatchEscaped
  <2>26. CASE KdContinueDebuggee(c)
    BY <2>26 DEF KdContinueDebuggee
  <2>27. CASE UnlockNextCore(c)
    BY <2>27, Zenon DEF UnlockNextCore
  <2>28. CASE AllUnlocked(c)
    BY <2>28 DEF AllUnlocked
  <2>29. CASE KdGuaranteedStepInstruction(c)
    BY <2>29 DEF KdGuaranteedStepInstruction
  <2>30. CASE KdSwitchCore(c)
    BY <2>30, Zenon DEF KdSwitchCore, CommandArrives
  <2>31. CASE UnlockTheNewCore(c)
    BY <2>31 DEF UnlockTheNewCore
  <2>32. CASE HaltReturns(c)
    BY <2>32 DEF HaltReturns
  <2>33. CASE ReleaseBreakLock(c)
    BY <2>33 DEF ReleaseBreakLock
  <2> HIDE DEF BreakOwner, Calls, Roles, OneOperatingCore, Token, InHalt, InBreak, Goto,
               callVars, nmiVars, mtfVars, coreVars, lockVars, dbgVars
  <2> QED
    BY <1>2, <2>1, <2>2, <2>3, <2>4, <2>5, <2>6, <2>7, <2>8, <2>9, <2>10, <2>11, <2>12, <2>13,
       <2>14, <2>15, <2>16, <2>17, <2>18, <2>19, <2>20, <2>21, <2>22, <2>23, <2>24, <2>25,
       <2>26, <2>27, <2>28, <2>29, <2>30, <2>31, <2>32, <2>33, Zenon
    DEF GuestStep, NmiDelivery, CoreStep, Command
<1> QED
  BY <1>1, <1>2, Zenon DEF Next

-----------------------------------------------------------------------------
\* The initial state satisfies the others.
LEMMA InitHalting == Init => Halting /\ MtfKnown /\ BreakOwner
<1> SUFFICES ASSUME Init PROVE Halting /\ MtfKnown /\ BreakOwner
  OBVIOUS
<1>1. \A c \in Cores : /\ pc[c] = "guest" /\ nmiCaller[c] = "none" /\ bpCaller[c] = "none"
                       /\ ~MainDebuggingCore[c] /\ ~WaitingToBeLocked[c] /\ ~DoNotNmiNotify[c]
                       /\ NmiBroadcastAction[c] = "NONE"
                       /\ ~mtf[c] /\ ~IgnoreMtfUnset[c] /\ ~WaitForStep[c]
  BY Zenon DEF Init, AllFalse
<1>2. Halting
  BY <1>1 DEF Halting, Attended, StepsAlone, Once, DueElsewhere, MainNotHalting,
     UnlockedInOrder, SwitchPending, Doomed, Due, Halted
<1>3. MtfKnown /\ BreakOwner
  BY <1>1 DEF MtfKnown, BreakOwner, InHalt
<1> QED
  BY <1>2, <1>3

\* No halted core is abandoned, for any number of cores and any sequence of
\* commands, as long as a command arrives only when the cores are halted: whoever
\* halted it still serves commands, unlocks it, or comes back from a step of its
\* own (KdContinueDebuggee, KdSwitchCore and KdContinueDebuggeeJustCurrentCore).
THEOREM HaltedAreOwned ==
  ASSUME SettleBeforeCommand
  PROVE  Spec => []HaltedHasOwner
<1>1. ASSUME Halting PROVE HaltedHasOwner
  <2> SUFFICES ASSUME NEW d \in Cores, Halted(d), ~MainDebuggingCore[d]
               PROVE  \E c \in Cores : Token(c) \/ DoNotNmiNotify[c]
    BY DEF HaltedHasOwner, Token
  <2>1. Doomed(d)
    BY DEF Doomed
  <2>2. Open(d) \/ \E c \in Cores : DoNotNmiNotify[c]
    BY <1>1, <2>1, Zenon DEF Halting, Attended
  <2> QED
    BY <2>2, Zenon DEF Open, Token
<1> QED
  BY <1>1, InitInv, InitHalting, TypeStep, RoleStep, HaltingStep, PTL DEF Spec

\* MtfHandleVmexit never meets a monitor trap flag it cannot explain, under the
\* same condition.
THEOREM MtfIsExplained ==
  ASSUME SettleBeforeCommand
  PROVE  Spec => []MtfHasReason
<1>1. TypeOK /\ Calls /\ MtfKnown => MtfHasReason
  BY DEF TypeOK, Calls, MtfKnown, MtfHasReason, InHalt
<1> QED
  BY <1>1, InitInv, InitHalting, TypeStep, RoleStep, HaltingStep, MtfStep, PTL DEF Spec

\* As long as no core is switched, every pause packet has its reason, whenever
\* commands arrive: the cores that leave the previous halt do not clear the
\* reason of the next (g_DebuggeeHaltReason in Kd.c).
THEOREM PausesAreExplained ==
  ASSUME "changeCore" \notin Commands
  PROVE  Spec => []PauseHasReason
<1>1. BreakOwner => PauseHasReason
  BY Zenon DEF BreakOwner, PauseHasReason
<1> QED
  BY <1>1, InitInv, InitHalting, TypeStep, RoleStep, BreakOwnerStep, PTL DEF Spec

\* A step runs one core alone: if commands arrive only when the cores are halted,
\* the pause that ends it may skip the broadcast, for every number of cores
\* (KdContinueDebuggeeJustCurrentCore and DoNotNmiNotifyOtherCoresByThisCore).
THEOREM StepsAreAlone ==
  ASSUME SettleBeforeCommand
  PROVE  Spec => []OthersStayHalted
<1>1. Halting => OthersStayHalted
  BY Zenon DEF Halting, StepsAlone, Alone, OthersStayHalted
<1> QED
  BY <1>1, InitInv, InitHalting, TypeStep, RoleStep, HaltingStep, PTL DEF Spec
=============================================================================
