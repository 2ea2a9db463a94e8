----------------------------- MODULE ProtectedHv -----------------------------
(***************************************************************************)
(* The protected VMCS resources: the vm-exit controls of one core that     *)
(* several parts of the debugger share (the exception bitmap, external     *)
(* interrupt exiting, rdtsc exiting, mov-dr exiting, mov-to-cr3 exiting),  *)
(* and the routines every part has to go through to change them, because   *)
(* a part that turns a control off must not take it from another part.     *)
(*                                                                         *)
(* The module has no state of its own.  A routine is an operator from the  *)
(* controls m of core c to the controls it leaves; evs is the list of      *)
(* registered events (newest first) and u the record of the other users    *)
(* of the controls at the time of the call (see Users).                    *)
(***************************************************************************)
EXTENDS Integers, Sequences

CONSTANTS
  Cores,      \* processor indexes
  AllCores,   \* DEBUGGER_EVENT_APPLY_TO_ALL_CORES
  All,        \* an event parameter 0xffffffff: every vector, port or MSR
  Ports,      \* I/O ports
  Msrs,       \* MSRs (the ones the "all MSRs" bitmap leaves out excluded)
  Masks       \* masks of a control-register event (sets of bits)

ASSUME CoresAssumption == Cores \subseteq Nat /\ 0 \in Cores
ASSUME AllAssumption == AllCores \notin Cores /\ All \notin Nat

Vectors == 0..31
DB == 1    \* EXCEPTION_VECTOR_DEBUG_BREAKPOINT
BP == 3    \* EXCEPTION_VECTOR_BREAKPOINT
UD == 6    \* EXCEPTION_VECTOR_UNDEFINED_OPCODE
PF == 14   \* EXCEPTION_VECTOR_PAGE_FAULT
CrRegs == {0, 4}

\* The one-bit controls: "efer" is the EFER.SCE hook, "cr3" mov-to-cr3
\* exiting, the others are named after the event type they serve.
Exits == {"extint", "tsc", "pmc", "dr", "cr3", "efer"}

Controls == [exc : SUBSET Vectors, io : SUBSET Ports, rdmsr : SUBSET Msrs,
             wrmsr : SUBSET Msrs, cr : [CrRegs -> Masks \cup {{}}],
             exits : SUBSET Exits]

\* The users of the controls other than the events: the kernel and the user
\* debugger, transparent mode, the number of pages with hidden breakpoints,
\* the user debugger's thread interception, and per core the four ways a
\* thread or process switch is waited for.
Users == [kernel : BOOLEAN, user : BOOLEAN, transparent : BOOLEAN,
          hidden : Nat, checkPf : BOOLEAN,
          threadByDr : [Cores -> BOOLEAN], threadByClock : [Cores -> BOOLEAN],
          processByCr3 : [Cores -> BOOLEAN], processByClock : [Cores -> BOOLEAN]]

-----------------------------------------------------------------------------
(* Events *)

Covers(e, c) == e.core \in {AllCores, c}

DebuggerEventListCountByCore(evs, t, c) ==
  {i \in DOMAIN evs : evs[i].type = t /\ Covers(evs[i], c)}

\* The bits set in the binary representation of an exception vector.
Bits(n) == {b \in 0..4 : (n \div 2^b) % 2 = 1}

\* The mask is built by or-ing the vector numbers themselves, so an event on
\* vector 14 contributes the bits of the number 14.
DebuggerExceptionEventBitmapMask(evs, c) ==
  UNION {IF evs[i].param = All THEN Vectors ELSE Bits(evs[i].param) :
           i \in DebuggerEventListCountByCore(evs, "exception", c)}

VectorsOf(p) == IF p = All THEN Vectors ELSE {p}

-----------------------------------------------------------------------------
(* The exception bitmap *)

\* Variant: the debuggers' own #BP and #DB are not kept.
StillNeededWithoutDebuggers(c, evs, u, passOver) ==
  (IF "exception" \in passOver THEN {} ELSE DebuggerExceptionEventBitmapMask(evs, c))
  \cup {v \in {DB} : u.threadByDr[c]} \cup {v \in {PF} : u.checkPf} \cup {v \in {BP} : u.hidden # 0}

\* Vectors some part of the debugger still needs, whoever asks for a change;
\* passOver names the users that are being removed.
StillNeeded(c, evs, u, passOver) ==
  (IF "exception" \in passOver THEN {} ELSE DebuggerExceptionEventBitmapMask(evs, c))
  \cup {v \in {UD} : /\ "ud" \notin passOver
                     /\ \/ DebuggerEventListCountByCore(evs, "syscall", c) # {}
                        \/ DebuggerEventListCountByCore(evs, "sysret", c) # {}}
  \cup {v \in {BP, DB} : u.kernel \/ u.user}
  \cup {v \in {DB} : u.threadByDr[c]}
  \cup {v \in {PF} : u.checkPf}
  \cup {v \in {BP} : u.hidden # 0}

ChangeExceptionBitmapWithIntegrityCheck(m, mask, c, evs, u, passOver) ==
  [m EXCEPT !.exc = mask \cup StillNeeded(c, evs, u, passOver)]

SetExceptionBitmap(m, p, c, evs, u) ==
  ChangeExceptionBitmapWithIntegrityCheck(m, m.exc \cup VectorsOf(p), c, evs, u, {})

UnsetExceptionBitmap(m, p, c, evs, u) ==
  ChangeExceptionBitmapWithIntegrityCheck(m, m.exc \ VectorsOf(p), c, evs, u, {})

ResetExceptionBitmapToClearEvents(m, c, evs, u) ==
  ChangeExceptionBitmapWithIntegrityCheck(m, {}, c, evs, u, {"exception"})

RemoveUndefinedInstruction(m, c, evs, u) ==
  ChangeExceptionBitmapWithIntegrityCheck(m, m.exc \ {UD}, c, evs, u, {"ud"})

-----------------------------------------------------------------------------
(* The one-bit controls.  Turning one on is unconditional; turning it off   *)
(* is ignored while another user is found.                                  *)

On(m, x) == [m EXCEPT !.exits = @ \cup {x}]
Off(m, x) == [m EXCEPT !.exits = @ \ {x}]

\* Variants: a user of external interrupt exiting is forgotten.
DisableInterruptsIgnoringEvents(m, c, evs, u, passOver) ==
  IF u.threadByClock[c] \/ u.processByClock[c] THEN m ELSE Off(m, "extint")

DisableInterruptsIgnoringClock(m, c, evs, u, passOver) ==
  IF ~passOver /\ DebuggerEventListCountByCore(evs, "extint", c) # {}
  THEN m ELSE Off(m, "extint")

\* With the interrupt events passed over, CurrentCoreId keeps its initial 0.
DisableExternalInterruptExiting(m, c, evs, u, passOver) ==
  LET core == IF passOver THEN 0 ELSE c IN
  IF \/ ~passOver /\ DebuggerEventListCountByCore(evs, "extint", c) # {}
     \/ u.threadByClock[core]
     \/ u.processByClock[core]
  THEN m ELSE Off(m, "extint")

\* Variant: the event being cleared counts as a user.
DisableRdtscWithoutPassOver(m, c, evs, u, passOver) ==
  IF DebuggerEventListCountByCore(evs, "tsc", c) # {} \/ u.transparent
  THEN m ELSE Off(m, "tsc")

DisableRdtscExiting(m, c, evs, u, passOver) ==
  IF \/ ~passOver /\ DebuggerEventListCountByCore(evs, "tsc", c) # {}
     \/ u.transparent
  THEN m ELSE Off(m, "tsc")

\* Variant: the thread-switch detection is not checked.
DisableMovDrIgnoringThreads(m, c, evs, u, passOver) ==
  IF ~passOver /\ DebuggerEventListCountByCore(evs, "dr", c) # {}
  THEN m ELSE Off(m, "dr")

DisableMovDebugRegsExiting(m, c, evs, u, passOver) ==
  LET core == IF passOver THEN 0 ELSE c IN
  IF \/ ~passOver /\ DebuggerEventListCountByCore(evs, "dr", c) # {}
     \/ u.threadByDr[core]
  THEN m ELSE Off(m, "dr")

\* CurrentCoreId is never assigned here: the flag tested is core 0's.
DisableMovToCr3Exiting(m, u) ==
  IF u.processByCr3[0] \/ u.checkPf THEN m ELSE Off(m, "cr3")

SetMovToCrVmexit(m, r, mask) == [m EXCEPT !.cr[r] = mask]

SyscallHookConfigureEFER(m, enable, c, evs, u) ==
  IF enable THEN SetExceptionBitmap(On(m, "efer"), UD, c, evs, u)
            ELSE RemoveUndefinedInstruction(Off(m, "efer"), c, evs, u)
==============================================================================
