------------------------- MODULE EventSharingProofs --------------------------
(***************************************************************************)
(* Proofs about the controls that events and the debugger share, for every *)
(* number of cores, every set of event types and parameters.               *)
(*                                                                         *)
(* IntegrityHolds: no other user loses a control it relies on.             *)
(* EventsStayIntercepted: every event has its controls until terminated.   *)
(* NothingStale: no control outlives those who asked for it.               *)
(*                                                                         *)
(* None holds of every instance (EventControls lists what the code does    *)
(* not keep apart), so each theorem names its hypotheses on the constants: *)
(* OneProcess and StepsOneCore, NothingShared, CleansUp.                   *)
(***************************************************************************)
EXTENDS EventControlsProofs

-----------------------------------------------------------------------------
(* What the routines do to the controls, exactly *)

\* The one-bit controls that events of type t turn on.
Serves(t) == ({t} \cap {"extint", "tsc", "pmc", "dr"}) \cup {x \in {"efer"} : t \in {"syscall", "sysret"}}

\* n differs from m in the exception bitmap only, which is e.
OnlyExc(m, n, e) ==
  n.exc = e /\ n.io = m.io /\ n.cr = m.cr /\ n.exits = m.exits

\* n differs from m in the one-bit controls only, which are x.
OnlyExits(m, n, x) ==
  n.exits = x /\ n.io = m.io /\ n.cr = m.cr /\ n.exc = m.exc

\* A write to the exception bitmap.
LEMMA ChangeEffect ==
  ASSUME NEW m \in Controls, NEW mask, NEW c, NEW evs, NEW u, NEW passOver
  PROVE  OnlyExc(m, ChangeExceptionBitmapWithIntegrityCheck(m, mask, c, evs, u, passOver),
                 mask \cup StillNeeded(c, evs, u, passOver))
  BY Zenon DEF ChangeExceptionBitmapWithIntegrityCheck, Controls, OnlyExc

\* Turning a one-bit control on or off.
LEMMA SwitchEffect ==
  ASSUME NEW m \in Controls, NEW x
  PROVE  OnlyExits(m, On(m, x), m.exits \cup {x}) /\ OnlyExits(m, Off(m, x), m.exits \ {x})
  BY Zenon DEF On, Off, Controls, OnlyExits

\* The controls n after the events J of type t are applied to m on core c.
Effect(m, n, t, J, c, evs) ==
  LET P == ParamsOn(J, c, evs) IN
  /\ n.exits = m.exits \cup (IF P = {} THEN {} ELSE Serves(t))
  /\ n.io = m.io \cup (IF t \in {"in", "out"} THEN UNION {PortsOf(p) : p \in P} ELSE {})
  /\ n.cr = IF t = "cr" THEN [r \in CrRegs |-> LastMask(J, c, evs, r, m.cr[r])] ELSE m.cr
  /\ n.exc = m.exc \cup
       (IF P = {} THEN {}
        ELSE (IF t = "exception" THEN UNION {VectorsOf(p) : p \in P} ELSE {})
             \cup (IF t \in {"syscall", "sysret"} THEN {UD} ELSE {})
             \cup (IF t \in {"exception", "syscall", "sysret"} THEN StillNeeded(c, evs, users, {}) ELSE {}))

\* Applying events of one type, whichever it is.
LEMMA ApplyEffect ==
  ASSUME NEW m \in Controls, NEW evs, NEW J, NEW c, NEW t \in EventTypes
  PROVE  Effect(m, Apply(m, t, J, c, evs), t, J, c, evs)
<1> DEFINE n == Apply(m, t, J, c, evs)
           P == ParamsOn(J, c, evs)
           S == StillNeeded(c, evs, users, {})
<1>1. CASE t = "exception"
  <2>1. n = ApplyException(m, J, c, evs) /\ Serves(t) = {}
    BY <1>1 DEF Apply, Serves
  <2>2. CASE P = {}
    BY <1>1, <2>1, <2>2 DEF ApplyException, Effect
  <2>3. CASE P # {}
    <3> DEFINE M == m.exc \cup UNION {VectorsOf(p) : p \in P}
    <3>1. n = ChangeExceptionBitmapWithIntegrityCheck(m, M, c, evs, users, {})
      BY <2>1, <2>3, Zenon DEF ApplyException
    <3> HIDE DEF M, S
    <3>2. OnlyExc(m, n, M \cup S)
      BY <3>1, ChangeEffect DEF S
    <3> QED
      BY <1>1, <2>1, <2>3, <3>2 DEF Effect, OnlyExc, M, S
  <2> QED
    BY <2>2, <2>3, Zenon
<1>2. CASE t \in {"in", "out"}
  <2> DEFINE B == UNION {PortsOf(p) : p \in P}
  <2>1. n = [m EXCEPT !.io = m.io \cup B] /\ Serves(t) = {}
    BY <1>2 DEF Apply, Serves, ApplyIo, Controls
  <2>2. n.exits = m.exits /\ n.cr = m.cr /\ n.exc = m.exc /\ n.io = m.io \cup B
    BY <2>1, Zenon DEF Controls
  <2> QED
    BY <1>2, <2>1, <2>2 DEF Effect
<1>3. CASE t \in {"rdmsr", "wrmsr"}
  <2>1. Serves(t) = {}
    BY <1>3 DEF Serves
  <2>2. n.exits = m.exits /\ n.cr = m.cr /\ n.exc = m.exc /\ n.io = m.io
    <3>1. n \in {ApplyRdmsr(m, J, c, evs), ApplyWrmsr(m, J, c, evs)}
      BY <1>3 DEF Apply
    <3>2. ASSUME n = ApplyRdmsr(m, J, c, evs)
          PROVE  n.exits = m.exits /\ n.cr = m.cr /\ n.exc = m.exc /\ n.io = m.io
      BY <3>2, Zenon DEF ApplyRdmsr, Controls
    <3>3. ASSUME n = ApplyWrmsr(m, J, c, evs)
          PROVE  n.exits = m.exits /\ n.cr = m.cr /\ n.exc = m.exc /\ n.io = m.io
      BY <3>3, Zenon DEF ApplyWrmsr, Controls
    <3> QED
      BY <3>1, <3>2, <3>3, Zenon
  <2> QED
    BY <1>3, <2>1, <2>2 DEF Effect
<1>4. CASE t \in {"extint", "tsc", "pmc", "dr"}
  <2>1. n = ApplyExit(m, t, J, c, evs) /\ Serves(t) = {t}
    BY <1>4, Zenon DEF Apply, Serves
  <2>2. CASE P = {}
    BY <1>4, <2>1, <2>2 DEF ApplyExit, Effect
  <2>3. CASE P # {}
    <3>1. OnlyExits(m, n, m.exits \cup {t})
      BY <2>1, <2>3, SwitchEffect, Zenon DEF ApplyExit
    <3> QED
      BY <1>4, <2>1, <2>3, <3>1 DEF Effect, OnlyExits
  <2> QED
    BY <2>2, <2>3, Zenon
<1>5. CASE t = "cr"
  <2> DEFINE new == [r \in CrRegs |-> LastMask(J, c, evs, r, m.cr[r])]
  <2>1. n = [m EXCEPT !.cr = new] /\ Serves(t) = {}
    BY <1>5 DEF Apply, Serves, ApplyCr, Controls
  <2>2. n.exits = m.exits /\ n.cr = new /\ n.exc = m.exc /\ n.io = m.io
    BY <2>1, Zenon DEF Controls
  <2> QED
    BY <1>5, <2>1, <2>2 DEF Effect
<1>6. CASE t \in {"syscall", "sysret"}
  <2>1. n = ApplyEfer(m, J, c, evs) /\ Serves(t) = {"efer"}
    BY <1>6 DEF Apply, Serves
  <2>2. CASE P = {}
    BY <1>6, <2>1, <2>2 DEF ApplyEfer, Effect
  <2>3. CASE P # {}
    <3> DEFINE o == On(m, "efer")
    <3>1. n = SetExceptionBitmap(o, UD, c, evs, users)
      BY <2>1, <2>3, Zenon DEF ApplyEfer, SyscallHookConfigureEFER
    <3>2. o \in Controls /\ OnlyExits(m, o, m.exits \cup {"efer"})
      BY OnOff, SwitchEffect, Zenon DEF Exits
    <3> HIDE DEF o
    <3>3. OnlyExc(o, n, (o.exc \cup VectorsOf(UD)) \cup S)
      BY <3>1, <3>2, ChangeEffect DEF SetExceptionBitmap
    <3>4. VectorsOf(UD) = {UD}
      BY AllAssumption DEF VectorsOf, UD
    <3> QED
      BY <1>6, <2>1, <2>3, <3>2, <3>3, <3>4 DEF Effect, OnlyExc, OnlyExits
  <2> QED
    BY <2>2, <2>3, Zenon
<1>7. CASE t \in {"cpuid", "vmcall"}
  <2>1. n = m /\ Serves(t) = {}
    BY <1>7 DEF Apply, Serves
  <2> QED
    BY <1>7, <2>1 DEF Effect
<1> QED
  BY <1>1, <1>2, <1>3, <1>4, <1>5, <1>6, <1>7 DEF EventTypes, TypeOrder

\* Its parts, type by type.
PortsEffect(m, n, t, P) ==
  /\ t \in {"in", "out"} => \A p : p \in n.io <=> p \in m.io \/ \E q \in P : p \in PortsOf(q)
  /\ t \notin {"in", "out"} => n.io = m.io
MasksEffect(m, n, t, J, c, evs) ==
  /\ t = "cr" => \A r \in CrRegs : n.cr[r] = LastMask(J, c, evs, r, m.cr[r])
  /\ t # "cr" => n.cr = m.cr
ExceptionsEffect(m, n, t, P, N) ==
  /\ m.exc \subseteq n.exc
  /\ P = {} => n.exc = m.exc
  /\ t = "exception" => \A p \in P : VectorsOf(p) \subseteq n.exc
  /\ t \in {"syscall", "sysret"} /\ P # {} => n.exc = m.exc \cup ({UD} \cup N)
  /\ t \notin {"exception", "syscall", "sysret"} => n.exc = m.exc

\* What applying events does to ports, masks and exceptions.
LEMMA EffectParts ==
  ASSUME NEW m, NEW n, NEW t, NEW J, NEW c, NEW evs, Effect(m, n, t, J, c, evs)
  PROVE  /\ PortsEffect(m, n, t, ParamsOn(J, c, evs)) /\ MasksEffect(m, n, t, J, c, evs)
         /\ ExceptionsEffect(m, n, t, ParamsOn(J, c, evs), StillNeeded(c, evs, users, {}))
<1> DEFINE P == ParamsOn(J, c, evs)
           N == StillNeeded(c, evs, users, {})
<1>1. /\ n.io = m.io \cup (IF t \in {"in", "out"} THEN UNION {PortsOf(p) : p \in P} ELSE {})
      /\ n.cr = IF t = "cr" THEN [r \in CrRegs |-> LastMask(J, c, evs, r, m.cr[r])] ELSE m.cr
      /\ n.exc = m.exc \cup
           (IF P = {} THEN {}
            ELSE (IF t = "exception" THEN UNION {VectorsOf(p) : p \in P} ELSE {})
                 \cup (IF t \in {"syscall", "sysret"} THEN {UD} ELSE {})
                 \cup (IF t \in {"exception", "syscall", "sysret"} THEN N ELSE {}))
  BY Zenon DEF Effect
<1> HIDE DEF P, N
<1>2. PortsEffect(m, n, t, P)
  BY <1>1 DEF PortsEffect
<1>3. MasksEffect(m, n, t, J, c, evs)
  BY <1>1, Zenon DEF MasksEffect
<1>4. ExceptionsEffect(m, n, t, P, N)
  BY <1>1 DEF ExceptionsEffect
<1> QED
  BY <1>2, <1>3, <1>4, Zenon DEF P, N

\* The first half of terminating event i: the reset of its control.
ResetOf(m, i, c) ==
  LET t == events[i].type IN
  CASE t = "extint" -> DisableExternalInterruptExiting(m, c, events, users, TRUE)
    [] t = "rdmsr" -> [m EXCEPT !.rdmsr = {}]
    [] t = "wrmsr" -> [m EXCEPT !.wrmsr = {}]
    [] t = "exception" -> ResetExceptionBitmapToClearEvents(m, c, events, users)
    [] t \in {"in", "out"} -> [m EXCEPT !.io = {}]
    [] t = "tsc" -> DisableRdtscExiting(m, c, events, users, TRUE)
    [] t = "pmc" -> Off(m, "pmc")
    [] t = "dr" -> DisableMovDebugRegsExiting(m, c, events, users, TRUE)
    [] t = "cr" -> SetMovToCrVmexit(m, events[i].param.reg, {})
    [] t \in {"syscall", "sysret"} -> SyscallHookConfigureEFER(m, FALSE, c, events, users)
    [] OTHER -> m

\* Terminating is resetting and applying the other events of the type.
LEMMA TerminateIsResetAndApply ==
  ASSUME NEW m, NEW i, NEW c, events[i].type \in EventTypes
  PROVE  TerminateOn(m, i, c) = Apply(ResetOf(m, i, c), events[i].type, OtherEvents(i), c, events)
<1> DEFINE t == events[i].type
           J == OtherEvents(i)
<1> HIDE DEF J
<1>1. CASE t \in {"extint", "tsc", "pmc", "dr"}
  BY <1>1, Zenon DEF TerminateOn, ResetOf, Apply, TerminateExternalInterruptEvent, TerminateTscEvent,
              TerminatePmcEvent, TerminateDebugRegistersEvent, J
<1>2. CASE t \in {"rdmsr", "wrmsr"}
  BY <1>2, Zenon DEF TerminateOn, ResetOf, Apply, TerminateRdmsrExecutionEvent, TerminateWrmsrExecutionEvent, J
<1>3. CASE t \in {"exception", "cr"}
  BY <1>3, Zenon DEF TerminateOn, ResetOf, Apply, TerminateExceptionEvent, TerminateControlRegistersEvent, J
<1>4. CASE t \in {"in", "out"}
  BY <1>4, Zenon DEF TerminateOn, ResetOf, Apply, TerminateInInstructionExecutionEvent,
              TerminateOutInstructionExecutionEvent, J
<1>5. CASE t \in {"syscall", "sysret"}
  BY <1>5, Zenon DEF TerminateOn, ResetOf, Apply, TerminateSyscallHookEferEvent,
              TerminateSysretHookEferEvent, J
<1>6. CASE t \in {"cpuid", "vmcall"}
  BY <1>6, Zenon DEF TerminateOn, ResetOf, Apply
<1> QED
  BY <1>1, <1>2, <1>3, <1>4, <1>5, <1>6 DEF EventTypes, TypeOrder

\* The one-bit controls a termination finds another user for: it asks about
\* core 0, whichever core it runs on.
StillUsed ==
  {x \in {"extint"} : users.threadByClock[0] \/ users.processByClock[0]}
  \cup {x \in {"tsc"} : users.transparent}
  \cup {x \in {"dr"} : users.threadByDr[0]}

\* The controls o after the reset of the control of event i on core c.
ResetTo(m, o, i, c) ==
  LET t == events[i].type IN
  /\ o \in Controls
  /\ o.exits = m.exits \ (Serves(t) \ StillUsed)
  /\ o.io = IF t \in {"in", "out"} THEN {} ELSE m.io
  /\ o.cr = IF t = "cr" THEN [m.cr EXCEPT ![events[i].param.reg] = {}] ELSE m.cr
  /\ o.exc = IF t = "exception" THEN StillNeeded(c, events, users, {"exception"})
             ELSE IF t \in {"syscall", "sysret"}
             THEN (m.exc \ {UD}) \cup StillNeeded(c, events, users, {"ud"})
             ELSE m.exc

\* What the reset does, whatever the type of the event.
LEMMA ResetEffect ==
  ASSUME NEW m \in Controls, events \in Seq(Event), NEW i \in DOMAIN events, NEW c \in Cores,
         users \in Users
  PROVE  ResetTo(m, ResetOf(m, i, c), i, c)
<1> DEFINE t == events[i].type
           o == ResetOf(m, i, c)
<1>1. events[i] \in Event
  OBVIOUS
<1>2. t \in EventTypes /\ t \in Types /\ events[i].param \in Params[t]
  BY <1>1, EventShape, TypesAssumption, Zenon
<1>3. ASSUME NEW x \in {"extint", "tsc", "pmc", "dr"}, t = x,
             o = IF x \in StillUsed THEN m ELSE Off(m, x)
      PROVE  ResetTo(m, o, i, c)
  <2>1. Serves(t) = {x}
    BY <1>3, Zenon DEF Serves
  <2>2. Off(m, x) \in Controls /\ OnlyExits(m, Off(m, x), m.exits \ {x})
    BY OnOff, SwitchEffect, Zenon DEF Exits
  <2>3. CASE x \in StillUsed
    BY <1>3, <2>1, <2>3 DEF ResetTo
  <2>4. CASE x \notin StillUsed
    <3>1. o = Off(m, x)
      BY <1>3, <2>4, Zenon
    <3> QED
      BY <1>3, <2>1, <2>2, <2>4, <3>1 DEF ResetTo, OnlyExits
  <2> QED
    BY <2>3, <2>4, Zenon
<1>4. CASE t = "extint"
  BY <1>3, <1>4 DEF ResetOf, DisableExternalInterruptExiting, StillUsed
<1>5. CASE t = "tsc"
  BY <1>3, <1>5 DEF ResetOf, DisableRdtscExiting, StillUsed
<1>6. CASE t = "pmc"
  BY <1>3, <1>6 DEF ResetOf, StillUsed
<1>7. CASE t = "dr"
  BY <1>3, <1>7 DEF ResetOf, DisableMovDebugRegsExiting, StillUsed
<1>8. CASE t \in {"rdmsr", "wrmsr"}
  <2>1. Serves(t) = {} /\ o \in {[m EXCEPT !.rdmsr = {}], [m EXCEPT !.wrmsr = {}]}
    BY <1>8, Zenon DEF ResetOf, Serves
  <2>2. o \in Controls /\ o.exits = m.exits /\ o.io = m.io /\ o.cr = m.cr /\ o.exc = m.exc
    <3>1. ASSUME o = [m EXCEPT !.rdmsr = {}]
          PROVE  o \in Controls /\ o.exits = m.exits /\ o.io = m.io /\ o.cr = m.cr /\ o.exc = m.exc
      BY <3>1, Zenon DEF Controls
    <3>2. ASSUME o = [m EXCEPT !.wrmsr = {}]
          PROVE  o \in Controls /\ o.exits = m.exits /\ o.io = m.io /\ o.cr = m.cr /\ o.exc = m.exc
      BY <3>2, Zenon DEF Controls
    <3> QED
      BY <2>1, <3>1, <3>2, Zenon
  <2> QED
    BY <1>8, <2>1, <2>2 DEF ResetTo
<1>9. CASE t = "exception"
  <2> DEFINE none == {}
  <2>1. o = ChangeExceptionBitmapWithIntegrityCheck(m, none, c, events, users, {"exception"})
    BY <1>9 DEF ResetOf, ResetExceptionBitmapToClearEvents
  <2>2. none \in SUBSET Vectors /\ Serves(t) = {}
    BY <1>9 DEF Serves
  <2> HIDE DEF none
  <2>3. o \in Controls
    BY <2>1, <2>2, IntegrityCheck, Zenon
  <2>4. OnlyExc(m, o, none \cup StillNeeded(c, events, users, {"exception"}))
    BY <2>1, ChangeEffect
  <2> QED
    BY <1>9, <2>2, <2>3, <2>4 DEF ResetTo, OnlyExc, none
<1>10. CASE t \in {"in", "out"}
  <2>1. o = [m EXCEPT !.io = {}] /\ Serves(t) = {}
    BY <1>10, Zenon DEF ResetOf, Serves
  <2>2. o \in Controls /\ o.exits = m.exits /\ o.io = {} /\ o.cr = m.cr /\ o.exc = m.exc
    BY <2>1, Zenon DEF Controls
  <2> QED
    BY <1>10, <2>1, <2>2 DEF ResetTo
<1>11. CASE t = "cr"
  <2> DEFINE r == events[i].param.reg
             new == [m.cr EXCEPT ![r] = {}]
  <2>1. r \in CrRegs
    <3>1. "cr" \in Types /\ events[i].param \in Params["cr"]
      BY <1>2, <1>11
    <3>2. events[i].param \in [reg : CrRegs, mask : Masks]
      BY <3>1, ParamShape, Zenon
    <3> QED
      BY <3>2, Zenon
  <2>2. o = [m EXCEPT !.cr = new] /\ Serves(t) = {}
    BY <1>11 DEF ResetOf, Serves, SetMovToCrVmexit, Controls
  <2>4. new \in [CrRegs -> Masks \cup {{}}]
    BY <2>1, Zenon DEF Controls
  <2> HIDE DEF new
  <2>3. /\ o \in Controls /\ o.exits = m.exits /\ o.io = m.io /\ o.exc = m.exc
        /\ o.cr = new
    BY <2>2, <2>4, Zenon DEF Controls
  <2> QED
    BY <1>11, <2>2, <2>3 DEF ResetTo, new
<1>12. CASE t \in {"syscall", "sysret"}
  <2> DEFINE q == Off(m, "efer")
             wanted == q.exc \ {UD}
  <2>1. o = ChangeExceptionBitmapWithIntegrityCheck(q, wanted, c, events, users, {"ud"}) /\ Serves(t) = {"efer"}
    BY <1>12 DEF ResetOf, Serves, SyscallHookConfigureEFER, RemoveUndefinedInstruction
  <2>2. q \in Controls /\ OnlyExits(m, q, m.exits \ {"efer"})
    BY OnOff, SwitchEffect, Zenon DEF Exits
  <2> HIDE DEF q
  <2>3. wanted \in SUBSET Vectors
    BY <2>2 DEF Controls
  <2> HIDE DEF wanted
  <2>4. o \in Controls
    BY <2>1, <2>2, <2>3, IntegrityCheck, Zenon
  <2>6. OnlyExc(q, o, wanted \cup StillNeeded(c, events, users, {"ud"}))
    BY <2>1, <2>2, ChangeEffect
  <2>5. "efer" \notin StillUsed
    BY DEF StillUsed
  <2> QED
    BY <1>12, <2>1, <2>2, <2>4, <2>5, <2>6, Zenon DEF ResetTo, OnlyExc, OnlyExits, wanted
<1>13. CASE t \in {"cpuid", "vmcall"}
  BY <1>13, Zenon DEF ResetTo, ResetOf, Serves
<1> QED
  BY <1>2, <1>4, <1>5, <1>6, <1>7, <1>8, <1>9, <1>10, <1>11, <1>12, <1>13 DEF EventTypes, TypeOrder

\* The controls of core c after event i is terminated.
LEMMA TerminateEffect ==
  ASSUME NEW m \in Controls, events \in Seq(Event), NEW i \in DOMAIN events, NEW c \in Cores,
         users \in Users
  PROVE  \E o : /\ ResetTo(m, o, i, c)
                /\ Effect(o, TerminateOn(m, i, c), events[i].type, OtherEvents(i), c, events)
<1>1. events[i] \in Event
  OBVIOUS
<1>2. events[i].type \in EventTypes
  BY <1>1, EventShape, TypesAssumption, Zenon
<1>3. ResetTo(m, ResetOf(m, i, c), i, c)
  BY ResetEffect, Zenon
<1>4. ResetOf(m, i, c) \in Controls
  BY <1>3, Zenon DEF ResetTo
<1>5. Effect(ResetOf(m, i, c), TerminateOn(m, i, c), events[i].type, OtherEvents(i), c, events)
  BY <1>2, <1>4, ApplyEffect, TerminateIsResetAndApply, Zenon
<1> QED
  BY <1>3, <1>5, Zenon

-----------------------------------------------------------------------------
(* The other users of the one-bit controls *)

\* The one-bit controls x of core c have what the users u rely on.
Relies(x, u, c) ==
  /\ u.transparent => "tsc" \in x
  /\ u.threadByDr[c] => "dr" \in x
  /\ u.threadByClock[c] \/ u.processByClock[c] => "extint" \in x
  /\ u.processByCr3[c] \/ u.checkPf => "cr3" \in x

\* A switch is waited for on exactly the running cores it was asked for on
\* (a wait for a thread by clock interrupts may outlive its request).
Switches ==
  \A c \in Cores :
    /\ users.threadByDr[c] <=> c \notin halted /\ "thread" \in initial[c] /\ ~byClock[c]
    /\ users.processByCr3[c] <=> c \notin halted /\ "process" \in initial[c] /\ ~byClock[c]
    /\ users.processByClock[c] <=> c \notin halted /\ "process" \in initial[c] /\ byClock[c]

\* Cores on the same side of a halt or a continue wait for the same; a core
\* that has crossed is where the others will be.
AlikeAt(c, d) ==
  /\ (c \in halted <=> d \in halted) =>
       /\ users.threadByClock[c] = users.threadByClock[d]
       /\ initial[c] = initial[d] /\ byClock[c] = byClock[d]
  /\ halting /\ c \notin halted /\ d \in halted =>
       /\ initial[d] = {}
       /\ byClock[d] = IF initial[c] = {} THEN byClock[c] ELSE FALSE
       /\ users.threadByClock[d] =
            IF byClock[c] /\ initial[c] = {"thread"} THEN FALSE ELSE users.threadByClock[c]
  /\ ~halting /\ c \notin halted /\ d \in halted =>
       /\ initial[d] = initial[c] /\ byClock[d] = byClock[c]
       /\ users.threadByClock[c] =
            IF byClock[d] /\ "thread" \in initial[d] THEN TRUE ELSE users.threadByClock[d]

Alike == \A c, d \in Cores : AlikeAt(c, d)

\* The invariant behind IntegrityKept.
RInv ==
  /\ \A c \in Cores : Relies(vmcs[c].exits, users, c)
  /\ \A c \in masked \ halted : "extint" \in vmcs[c].exits
  /\ phase # {} => users.checkPf
  /\ ~halting => masked = {}
  /\ Switches
  /\ Alike

\* The users v are u but for what is waited for on core c.
Moved(u, v, c, tdr, tck, pcr, pck) ==
  /\ v \in Users /\ v.transparent = u.transparent /\ v.checkPf = u.checkPf
  /\ v.threadByDr = [u.threadByDr EXCEPT ![c] = tdr]
  /\ v.threadByClock = [u.threadByClock EXCEPT ![c] = tck]
  /\ v.processByCr3 = [u.processByCr3 EXCEPT ![c] = pcr]
  /\ v.processByClock = [u.processByClock EXCEPT ![c] = pck]

\* The users u and v wait for the same on the other cores.
SameElsewhere(u, v, c) ==
  \A d \in Cores \ {c} :
    /\ v.threadByDr[d] = u.threadByDr[d] /\ v.threadByClock[d] = u.threadByClock[d]
    /\ v.processByCr3[d] = u.processByCr3[d] /\ v.processByClock[d] = u.processByClock[d]

\* One core's view of the same.
LEMMA MovedAt ==
  ASSUME NEW u \in Users, NEW v, NEW c \in Cores, NEW tdr, NEW tck, NEW pcr, NEW pck,
         Moved(u, v, c, tdr, tck, pcr, pck)
  PROVE  /\ v.threadByDr[c] = tdr /\ v.threadByClock[c] = tck
         /\ v.processByCr3[c] = pcr /\ v.processByClock[c] = pck
         /\ v.transparent = u.transparent /\ v.checkPf = u.checkPf /\ v \in Users
         /\ SameElsewhere(u, v, c)
<1>1. /\ u.threadByDr \in [Cores -> BOOLEAN] /\ u.threadByClock \in [Cores -> BOOLEAN]
      /\ u.processByCr3 \in [Cores -> BOOLEAN] /\ u.processByClock \in [Cores -> BOOLEAN]
  BY Zenon DEF Users
<1> QED
  BY <1>1, Zenon DEF Moved, SameElsewhere

\* The flag of one kind of wait is set for one core.
LEMMA MovedOne ==
  ASSUME NEW u \in Users, NEW c \in Cores, NEW b \in BOOLEAN
  PROVE  /\ Moved(u, [u EXCEPT !.threadByDr[c] = b], c,
                  b, u.threadByClock[c], u.processByCr3[c], u.processByClock[c])
         /\ Moved(u, [u EXCEPT !.threadByClock[c] = b], c,
                  u.threadByDr[c], b, u.processByCr3[c], u.processByClock[c])
         /\ Moved(u, [u EXCEPT !.processByCr3[c] = b], c,
                  u.threadByDr[c], u.threadByClock[c], b, u.processByClock[c])
         /\ Moved(u, [u EXCEPT !.processByClock[c] = b], c,
                  u.threadByDr[c], u.threadByClock[c], u.processByCr3[c], b)
<1>1. Moved(u, [u EXCEPT !.threadByDr[c] = b], c,
            b, u.threadByClock[c], u.processByCr3[c], u.processByClock[c])
  BY DEF Moved, Users
<1>2. Moved(u, [u EXCEPT !.threadByClock[c] = b], c,
            u.threadByDr[c], b, u.processByCr3[c], u.processByClock[c])
  BY DEF Moved, Users
<1>3. Moved(u, [u EXCEPT !.processByCr3[c] = b], c,
            u.threadByDr[c], u.threadByClock[c], b, u.processByClock[c])
  BY DEF Moved, Users
<1>4. Moved(u, [u EXCEPT !.processByClock[c] = b], c,
            u.threadByDr[c], u.threadByClock[c], u.processByCr3[c], b)
  BY DEF Moved, Users
<1> QED
  BY <1>1, <1>2, <1>3, <1>4, Zenon

\* Setting two flags of one core, one after the other.
LEMMA MovedTwice ==
  ASSUME NEW u \in Users, NEW v, NEW w, NEW c \in Cores,
         NEW a1, NEW a2, NEW a3, NEW a4, NEW b1, NEW b2, NEW b3, NEW b4,
         Moved(u, v, c, a1, a2, a3, a4), Moved(v, w, c, b1, b2, b3, b4)
  PROVE  Moved(u, w, c, b1, b2, b3, b4)
<1>1. /\ u.threadByDr \in [Cores -> BOOLEAN] /\ u.threadByClock \in [Cores -> BOOLEAN]
      /\ u.processByCr3 \in [Cores -> BOOLEAN] /\ u.processByClock \in [Cores -> BOOLEAN]
  BY Zenon DEF Users
<1>2. \A f \in [Cores -> BOOLEAN] : \A a, b : [[f EXCEPT ![c] = a] EXCEPT ![c] = b] = [f EXCEPT ![c] = b]
  BY Zenon
<1>3. /\ w \in Users /\ w.transparent = u.transparent /\ w.checkPf = u.checkPf
      /\ w.threadByDr = [[u.threadByDr EXCEPT ![c] = a1] EXCEPT ![c] = b1]
      /\ w.threadByClock = [[u.threadByClock EXCEPT ![c] = a2] EXCEPT ![c] = b2]
      /\ w.processByCr3 = [[u.processByCr3 EXCEPT ![c] = a3] EXCEPT ![c] = b3]
      /\ w.processByClock = [[u.processByClock EXCEPT ![c] = a4] EXCEPT ![c] = b4]
  BY Zenon DEF Moved
<1>4. w.threadByDr = [u.threadByDr EXCEPT ![c] = b1] /\ w.threadByClock = [u.threadByClock EXCEPT ![c] = b2]
  BY <1>1, <1>2, <1>3
<1>5. w.processByCr3 = [u.processByCr3 EXCEPT ![c] = b3] /\ w.processByClock = [u.processByClock EXCEPT ![c] = b4]
  BY <1>1, <1>2, <1>3
<1> QED
  BY <1>3, <1>4, <1>5, Zenon DEF Moved

\* Arming and disarming the process-switch detection.
LEMMA ProcessMonitorFlags ==
  ASSUME NEW s, NEW c \in Cores, NEW b \in BOOLEAN, NEW k \in BOOLEAN, CoreOK(s, c),
         NEW r, r = ProcessMonitor(s, c, b, k)
  PROVE  /\ CoreOK(r, c)
         /\ Moved(s.u, r.u, c, s.u.threadByDr[c], s.u.threadByClock[c],
                  IF k THEN s.u.processByCr3[c] ELSE b, IF k THEN b ELSE s.u.processByClock[c])
         /\ Relies(s.m.exits, s.u, c) => Relies(r.m.exits, r.u, c)
<1> DEFINE m == s.m
           v == s.u
           u == r.u
           n == r.m
<1>1. m \in Controls /\ v \in Users
  BY Zenon DEF CoreOK
<1>2. CoreOK(r, c)
  BY ProcessMonitorOk, Zenon
<1>3. CASE k
  <2>1. u = [v EXCEPT !.processByClock[c] = b]
    BY <1>3, Zenon DEF ProcessMonitor
  <2>2. n = IF b THEN On(m, "extint") ELSE DisableExternalInterruptExiting(m, c, events, u, FALSE)
    BY <1>3, <2>1 DEF ProcessMonitor
  <2> HIDE DEF u, n, m, v
  <2>3. Moved(v, u, c, v.threadByDr[c], v.threadByClock[c], v.processByCr3[c], b)
    BY <1>1, <2>1, MovedOne, Zenon
  <2>4. /\ u.threadByDr[c] = v.threadByDr[c] /\ u.threadByClock[c] = v.threadByClock[c]
        /\ u.processByCr3[c] = v.processByCr3[c] /\ u.processByClock[c] = b
        /\ u.transparent = v.transparent /\ u.checkPf = v.checkPf
    BY <1>1, <2>3, MovedAt
  <2>5. On(m, "extint").exits = m.exits \cup {"extint"} /\ Off(m, "extint").exits = m.exits \ {"extint"}
    BY <1>1, SwitchEffect, Zenon DEF OnlyExits
  <2>6. Relies(m.exits, v, c) => Relies(n.exits, u, c)
    BY <2>2, <2>4, <2>5 DEF Relies, DisableExternalInterruptExiting
  <2> QED
    BY <1>2, <1>3, <2>3, <2>6, Zenon DEF u, n, m, v
<1>4. CASE ~k
  <2>1. u = [v EXCEPT !.processByCr3[c] = b]
    BY <1>4, Zenon DEF ProcessMonitor
  <2>2. n = IF b THEN On(m, "cr3") ELSE DisableMovToCr3Exiting(m, u)
    BY <1>4, <2>1 DEF ProcessMonitor
  <2> HIDE DEF u, n, m, v
  <2>3. Moved(v, u, c, v.threadByDr[c], v.threadByClock[c], b, v.processByClock[c])
    BY <1>1, <2>1, MovedOne, Zenon
  <2>4. /\ u.threadByDr[c] = v.threadByDr[c] /\ u.threadByClock[c] = v.threadByClock[c]
        /\ u.processByCr3[c] = b /\ u.processByClock[c] = v.processByClock[c]
        /\ u.transparent = v.transparent /\ u.checkPf = v.checkPf
    BY <1>1, <2>3, MovedAt
  <2>5. On(m, "cr3").exits = m.exits \cup {"cr3"} /\ Off(m, "cr3").exits = m.exits \ {"cr3"}
    BY <1>1, SwitchEffect, Zenon DEF OnlyExits
  <2>6. Relies(m.exits, v, c) => Relies(n.exits, u, c)
    BY <2>2, <2>4, <2>5 DEF Relies, DisableMovToCr3Exiting
  <2> QED
    BY <1>2, <1>4, <2>3, <2>6 DEF u, n, m, v
<1> QED
  BY <1>3, <1>4, Zenon

\* Arming and disarming the thread-switch detection.
LEMMA ThreadMonitorFlags ==
  ASSUME NEW s, NEW c \in Cores, NEW b \in BOOLEAN, NEW k \in BOOLEAN, CoreOK(s, c),
         NEW r, r = ThreadMonitor(s, c, b, k)
  PROVE  /\ CoreOK(r, c)
         /\ Moved(s.u, r.u, c, IF k THEN s.u.threadByDr[c] ELSE b, IF k THEN b ELSE s.u.threadByClock[c],
                  s.u.processByCr3[c], s.u.processByClock[c])
         /\ Relies(s.m.exits, s.u, c) => Relies(r.m.exits, r.u, c)
<1> DEFINE m == s.m
           v == s.u
           u == r.u
           n == r.m
<1>1. m \in Controls /\ v \in Users
  BY Zenon DEF CoreOK
<1>2. CoreOK(r, c)
  BY ThreadMonitorOk, Zenon
<1>3. CASE k
  <2>1. u = [v EXCEPT !.threadByClock[c] = b]
    BY <1>3, Zenon DEF ThreadMonitor
  <2>2. n = IF b THEN On(m, "extint") ELSE DisableExternalInterruptExiting(m, c, events, u, FALSE)
    BY <1>3, <2>1 DEF ThreadMonitor
  <2> HIDE DEF u, n, m, v
  <2>3. Moved(v, u, c, v.threadByDr[c], b, v.processByCr3[c], v.processByClock[c])
    BY <1>1, <2>1, MovedOne, Zenon
  <2>4. /\ u.threadByDr[c] = v.threadByDr[c] /\ u.threadByClock[c] = b
        /\ u.processByCr3[c] = v.processByCr3[c] /\ u.processByClock[c] = v.processByClock[c]
        /\ u.transparent = v.transparent /\ u.checkPf = v.checkPf
    BY <1>1, <2>3, MovedAt
  <2>5. On(m, "extint").exits = m.exits \cup {"extint"} /\ Off(m, "extint").exits = m.exits \ {"extint"}
    BY <1>1, SwitchEffect, Zenon DEF OnlyExits
  <2>6. Relies(m.exits, v, c) => Relies(n.exits, u, c)
    BY <2>2, <2>4, <2>5 DEF Relies, DisableExternalInterruptExiting
  <2> QED
    BY <1>2, <1>3, <2>3, <2>6, Zenon DEF u, n, m, v
<1>4. CASE ~k
  <2>1. u = [v EXCEPT !.threadByDr[c] = b]
    BY <1>4, Zenon DEF ThreadMonitor
  <2>2. n = IF b THEN On(SetExceptionBitmap(m, DB, c, events, u), "dr")
            ELSE UnsetExceptionBitmap(DisableMovDebugRegsExiting(m, c, events, u, FALSE), DB, c, events, u)
    BY <1>4, <2>1 DEF ThreadMonitor
  <2> HIDE DEF u, n, m, v
  <2>3. Moved(v, u, c, b, v.threadByClock[c], v.processByCr3[c], v.processByClock[c])
    BY <1>1, <2>1, MovedOne, Zenon
  <2>4. /\ u.threadByDr[c] = b /\ u.threadByClock[c] = v.threadByClock[c]
        /\ u.processByCr3[c] = v.processByCr3[c] /\ u.processByClock[c] = v.processByClock[c]
        /\ u.transparent = v.transparent /\ u.checkPf = v.checkPf /\ u \in Users
    BY <1>1, <2>3, MovedAt
  <2>5. CASE b
    <3> DEFINE o == SetExceptionBitmap(m, DB, c, events, u)
    <3>1. DB \in Vectors
      BY DEF DB, Vectors
    <3>2. o \in Controls /\ o.exits = m.exits
      BY <1>1, <2>4, <3>1, SetException DEF Same
    <3>3. n = On(o, "dr")
      BY <2>2, <2>5, Zenon
    <3> HIDE DEF o
    <3>4. n.exits = m.exits \cup {"dr"}
      BY <3>2, <3>3, SwitchEffect DEF OnlyExits
    <3> QED
      BY <1>2, <1>4, <2>3, <2>4, <3>4 DEF u, n, m, v, Relies
  <2>6. CASE ~b
    <3> DEFINE o == DisableMovDebugRegsExiting(m, c, events, u, FALSE)
    <3>1. o \in {m, Off(m, "dr")} /\ Off(m, "dr") \in Controls
      BY <1>1, OnOff DEF DisableMovDebugRegsExiting, Exits
    <3>2. o \in Controls
      BY <1>1, <3>1, Zenon
    <3>3. o.exits \in {m.exits, m.exits \ {"dr"}}
      <4>1. Off(m, "dr").exits = m.exits \ {"dr"}
        BY <1>1, SwitchEffect, Zenon DEF OnlyExits
      <4> QED
        BY <3>1, <4>1, Zenon
    <3> HIDE DEF o
    <3>4. n = ChangeExceptionBitmapWithIntegrityCheck(o, o.exc \ VectorsOf(DB), c, events, u, {})
      BY <2>2, <2>6, Zenon DEF UnsetExceptionBitmap, o
    <3>5. n.exits = o.exits
      BY <3>2, <3>4, ChangeEffect DEF OnlyExc
    <3>6. Relies(m.exits, v, c) => Relies(n.exits, u, c)
      BY <2>4, <2>6, <3>3, <3>5 DEF Relies
    <3> QED
      BY <1>2, <1>4, <2>3, <3>6 DEF u, n, m, v
  <2> QED
    BY <2>5, <2>6, Zenon
<1> QED
  BY <1>3, <1>4, Zenon

\* KdApplyTasksPreHaltCore: what is waited for on core c afterwards.
LEMMA PreHaltFlags ==
  ASSUME IInv, NEW c \in Cores, NEW r, r = PreHalt(c), Relies(vmcs[c].exits, users, c)
  PROVE  /\ CoreOK(r, c) /\ Relies(r.m.exits, r.u, c)
         /\ LET p == "process" \in initial[c]
                t == "thread" \in initial[c]
                k == byClock[c]
            IN  Moved(users, r.u, c,
                      IF t /\ (p \/ ~k) THEN FALSE ELSE users.threadByDr[c],
                      IF t /\ ~p /\ k THEN FALSE ELSE users.threadByClock[c],
                      IF p /\ ~k THEN FALSE ELSE users.processByCr3[c],
                      IF p /\ k THEN FALSE ELSE users.processByClock[c])
<1> DEFINE p == "process" \in initial[c]
           t == "thread" \in initial[c]
           k == byClock[c]
           s0 == [m |-> vmcs[c], u |-> users]
           s1 == IF p THEN ProcessMonitor(s0, c, FALSE, k) ELSE s0
           k1 == IF p THEN FALSE ELSE k
           pcr == IF p /\ ~k THEN FALSE ELSE users.processByCr3[c]
           pck == IF p /\ k THEN FALSE ELSE users.processByClock[c]
<1>1. vmcs[c] \in Controls /\ users \in Users /\ Keeps(vmcs[c], users, c) /\ k \in BOOLEAN
  BY Zenon DEF IInv, TypeOK
<1>2. CoreOK(s0, c) /\ s0.u = users /\ s0.m = vmcs[c]
  BY <1>1, Zenon DEF CoreOK, OthersSame, Retains
<1>3. r = IF t THEN ThreadMonitor(s1, c, FALSE, k1) ELSE s1
  BY Zenon DEF PreHalt
<1>4. Moved(users, users, c, users.threadByDr[c], users.threadByClock[c],
            users.processByCr3[c], users.processByClock[c])
  BY <1>1 DEF Moved, Users
<1> HIDE DEF s0
<1>5. CoreOK(s1, c) /\ Relies(s1.m.exits, s1.u, c)
      /\ Moved(users, s1.u, c, users.threadByDr[c], users.threadByClock[c], pcr, pck)
  <2>1. CASE p
    <3> DEFINE q == ProcessMonitor(s0, c, FALSE, k)
    <3>4. q = ProcessMonitor(s0, c, FALSE, k)
      BY Zenon
    <3> HIDE DEF q
    <3>5. /\ CoreOK(q, c)
          /\ Relies(s0.m.exits, s0.u, c) => Relies(q.m.exits, q.u, c)
          /\ Moved(s0.u, q.u, c, s0.u.threadByDr[c], s0.u.threadByClock[c],
                   IF k THEN s0.u.processByCr3[c] ELSE FALSE, IF k THEN FALSE ELSE s0.u.processByClock[c])
      BY <1>1, <1>2, <3>4, ProcessMonitorFlags, Zenon
    <3>1. /\ CoreOK(q, c) /\ Relies(q.m.exits, q.u, c)
          /\ Moved(users, q.u, c, users.threadByDr[c], users.threadByClock[c],
                   IF k THEN users.processByCr3[c] ELSE FALSE, IF k THEN FALSE ELSE users.processByClock[c])
      BY <1>2, <3>5, Zenon
    <3>2. s1 = q
      BY <2>1, <3>4, Zenon
    <3>3. /\ pcr = IF k THEN users.processByCr3[c] ELSE FALSE
          /\ pck = IF k THEN FALSE ELSE users.processByClock[c]
      BY <1>1, <2>1, Zenon
    <3> HIDE DEF s1, pcr, pck
    <3> QED
      BY <3>1, <3>2, <3>3, Zenon
  <2>2. CASE ~p
    <3>1. s1 = s0 /\ pcr = users.processByCr3[c] /\ pck = users.processByClock[c]
      BY <2>2, Zenon
    <3> HIDE DEF s1, pcr, pck
    <3> QED
      BY <1>2, <1>4, <3>1
  <2> QED
    BY <2>1, <2>2, Zenon
<1>6. k1 \in BOOLEAN
  BY <1>1, Zenon
<1> HIDE DEF s1, pcr, pck
<1>7. CASE t
  <2> DEFINE q == ThreadMonitor(s1, c, FALSE, k1)
             w == s1.u
  <2>1. /\ w.threadByDr[c] = users.threadByDr[c] /\ w.threadByClock[c] = users.threadByClock[c]
        /\ w.processByCr3[c] = pcr /\ w.processByClock[c] = pck /\ w \in Users
    BY <1>1, <1>5, MovedAt
  <2>7. q = ThreadMonitor(s1, c, FALSE, k1)
    BY Zenon
  <2> HIDE DEF q, k1
  <2>2. /\ CoreOK(q, c) /\ Relies(q.m.exits, q.u, c)
        /\ Moved(w, q.u, c, IF k1 THEN w.threadByDr[c] ELSE FALSE,
                 IF k1 THEN FALSE ELSE w.threadByClock[c], w.processByCr3[c], w.processByClock[c])
    BY <1>5, <1>6, <2>7, ThreadMonitorFlags, Zenon
  <2>3. r = q
    BY <1>3, <1>7, <2>7, Zenon
  <2>4. /\ (IF k1 THEN w.threadByDr[c] ELSE FALSE)
           = (IF t /\ (p \/ ~k) THEN FALSE ELSE users.threadByDr[c])
        /\ (IF k1 THEN FALSE ELSE w.threadByClock[c])
           = (IF t /\ ~p /\ k THEN FALSE ELSE users.threadByClock[c])
    BY <1>1, <1>7, <2>1, Zenon DEF k1
  <2> HIDE DEF w
  <2>5. Moved(users, q.u, c, IF k1 THEN w.threadByDr[c] ELSE FALSE,
              IF k1 THEN FALSE ELSE w.threadByClock[c], w.processByCr3[c], w.processByClock[c])
    <3> DEFINE b1 == IF k1 THEN w.threadByDr[c] ELSE FALSE
               b2 == IF k1 THEN FALSE ELSE w.threadByClock[c]
    <3>1. Moved(w, q.u, c, b1, b2, w.processByCr3[c], w.processByClock[c])
      BY <2>2, Zenon
    <3>2. Moved(users, w, c, users.threadByDr[c], users.threadByClock[c], pcr, pck)
      BY <1>5, Zenon DEF w
    <3> HIDE DEF b1, b2
    <3>3. Moved(users, q.u, c, b1, b2, w.processByCr3[c], w.processByClock[c])
      BY <1>1, <3>1, <3>2, MovedTwice
    <3> QED
      BY <3>3, Zenon DEF b1, b2
  <2>6. Moved(users, q.u, c, IF t /\ (p \/ ~k) THEN FALSE ELSE users.threadByDr[c],
              IF t /\ ~p /\ k THEN FALSE ELSE users.threadByClock[c], pcr, pck)
    BY <2>1, <2>4, <2>5, Zenon
  <2> QED
    BY <2>2, <2>3, <2>6, Zenon DEF pcr, pck
<1>8. CASE ~t
  <2>1. r = s1
    BY <1>3, <1>8, Zenon
  <2> QED
    BY <1>5, <1>8, <2>1, Zenon DEF pcr, pck
<1> QED
  BY <1>7, <1>8, Zenon

\* KdApplyTasksPostContinueCore: what is waited for on core c afterwards.
LEMMA PostContinueFlags ==
  ASSUME IInv, NEW c \in Cores, NEW r, r = PostContinue(c), Relies(vmcs[c].exits, users, c)
  PROVE  /\ CoreOK(r, c) /\ Relies(r.m.exits, r.u, c)
         /\ LET p == "process" \in initial[c]
                t == "thread" \in initial[c]
                k == byClock[c]
            IN  Moved(users, r.u, c,
                      IF t /\ ~k THEN TRUE ELSE users.threadByDr[c],
                      IF t /\ k THEN TRUE ELSE users.threadByClock[c],
                      IF p /\ ~k THEN TRUE ELSE users.processByCr3[c],
                      IF p /\ k THEN TRUE ELSE users.processByClock[c])
<1> DEFINE p == "process" \in initial[c]
           t == "thread" \in initial[c]
           k == byClock[c]
           s0 == [m |-> vmcs[c], u |-> users]
           s1 == IF p THEN ProcessMonitor(s0, c, TRUE, k) ELSE s0
           pcr == IF p /\ ~k THEN TRUE ELSE users.processByCr3[c]
           pck == IF p /\ k THEN TRUE ELSE users.processByClock[c]
<1>1. vmcs[c] \in Controls /\ users \in Users /\ Keeps(vmcs[c], users, c) /\ k \in BOOLEAN
  BY Zenon DEF IInv, TypeOK
<1>2. CoreOK(s0, c) /\ s0.u = users /\ s0.m = vmcs[c]
  BY <1>1, Zenon DEF CoreOK, OthersSame, Retains
<1>3. r = IF t THEN ThreadMonitor(s1, c, TRUE, k) ELSE s1
  BY Zenon DEF PostContinue
<1>4. Moved(users, users, c, users.threadByDr[c], users.threadByClock[c],
            users.processByCr3[c], users.processByClock[c])
  BY <1>1 DEF Moved, Users
<1> HIDE DEF s0
<1>5. CoreOK(s1, c) /\ Relies(s1.m.exits, s1.u, c)
      /\ Moved(users, s1.u, c, users.threadByDr[c], users.threadByClock[c], pcr, pck)
  <2>1. CASE p
    <3> DEFINE q == ProcessMonitor(s0, c, TRUE, k)
    <3>4. q = ProcessMonitor(s0, c, TRUE, k)
      BY Zenon
    <3> HIDE DEF q
    <3>5. /\ CoreOK(q, c)
          /\ Relies(s0.m.exits, s0.u, c) => Relies(q.m.exits, q.u, c)
          /\ Moved(s0.u, q.u, c, s0.u.threadByDr[c], s0.u.threadByClock[c],
                   IF k THEN s0.u.processByCr3[c] ELSE TRUE, IF k THEN TRUE ELSE s0.u.processByClock[c])
      BY <1>1, <1>2, <3>4, ProcessMonitorFlags, Zenon
    <3>1. /\ CoreOK(q, c) /\ Relies(q.m.exits, q.u, c)
          /\ Moved(users, q.u, c, users.threadByDr[c], users.threadByClock[c],
                   IF k THEN users.processByCr3[c] ELSE TRUE, IF k THEN TRUE ELSE users.processByClock[c])
      BY <1>2, <3>5, Zenon
    <3>2. s1 = q
      BY <2>1, <3>4, Zenon
    <3>3. /\ pcr = IF k THEN users.processByCr3[c] ELSE TRUE
          /\ pck = IF k THEN TRUE ELSE users.processByClock[c]
      BY <1>1, <2>1, Zenon
    <3> HIDE DEF s1, pcr, pck
    <3> QED
      BY <3>1, <3>2, <3>3, Zenon
  <2>2. CASE ~p
    <3>1. s1 = s0 /\ pcr = users.processByCr3[c] /\ pck = users.processByClock[c]
      BY <2>2, Zenon
    <3> HIDE DEF s1, pcr, pck
    <3> QED
      BY <1>2, <1>4, <3>1
  <2> QED
    BY <2>1, <2>2, Zenon
<1> HIDE DEF s1, pcr, pck
<1>7. CASE t
  <2> DEFINE q == ThreadMonitor(s1, c, TRUE, k)
             w == s1.u
  <2>1. /\ w.threadByDr[c] = users.threadByDr[c] /\ w.threadByClock[c] = users.threadByClock[c]
        /\ w.processByCr3[c] = pcr /\ w.processByClock[c] = pck /\ w \in Users
    BY <1>1, <1>5, MovedAt
  <2>7. q = ThreadMonitor(s1, c, TRUE, k)
    BY Zenon
  <2> HIDE DEF q
  <2>2. /\ CoreOK(q, c) /\ Relies(q.m.exits, q.u, c)
        /\ Moved(w, q.u, c, IF k THEN w.threadByDr[c] ELSE TRUE,
                 IF k THEN TRUE ELSE w.threadByClock[c], w.processByCr3[c], w.processByClock[c])
    BY <1>1, <1>5, <2>7, ThreadMonitorFlags, Zenon
  <2>3. r = q
    BY <1>3, <1>7, <2>7, Zenon
  <2>4. /\ (IF k THEN w.threadByDr[c] ELSE TRUE)
           = (IF t /\ ~k THEN TRUE ELSE users.threadByDr[c])
        /\ (IF k THEN TRUE ELSE w.threadByClock[c])
           = (IF t /\ k THEN TRUE ELSE users.threadByClock[c])
    BY <1>1, <1>7, <2>1, Zenon
  <2> HIDE DEF w
  <2>5. Moved(users, q.u, c, IF k THEN w.threadByDr[c] ELSE TRUE,
              IF k THEN TRUE ELSE w.threadByClock[c], w.processByCr3[c], w.processByClock[c])
    <3> DEFINE b1 == IF k THEN w.threadByDr[c] ELSE TRUE
               b2 == IF k THEN TRUE ELSE w.threadByClock[c]
    <3>1. Moved(w, q.u, c, b1, b2, w.processByCr3[c], w.processByClock[c])
      BY <2>2, Zenon
    <3>2. Moved(users, w, c, users.threadByDr[c], users.threadByClock[c], pcr, pck)
      BY <1>5, Zenon DEF w
    <3> HIDE DEF b1, b2
    <3>3. Moved(users, q.u, c, b1, b2, w.processByCr3[c], w.processByClock[c])
      BY <1>1, <3>1, <3>2, MovedTwice
    <3> QED
      BY <3>3, Zenon DEF b1, b2
  <2>6. Moved(users, q.u, c, IF t /\ ~k THEN TRUE ELSE users.threadByDr[c],
              IF t /\ k THEN TRUE ELSE users.threadByClock[c], pcr, pck)
    BY <2>1, <2>4, <2>5, Zenon
  <2> QED
    BY <2>2, <2>3, <2>6, Zenon DEF pcr, pck
<1>8. CASE ~t
  <2>1. r = s1
    BY <1>3, <1>8, Zenon
  <2> QED
    BY <1>5, <1>8, <2>1, Zenon DEF pcr, pck
<1> QED
  BY <1>7, <1>8, Zenon

-----------------------------------------------------------------------------
(* The actions, for the other users *)

\* A step while no core is held: each core keeps what the new users rely on.
LEMMA RunningStep ==
  ASSUME RInv, Running, UNCHANGED <<masked, halted, halting, initial, byClock>>,
         users'.threadByDr = users.threadByDr, users'.threadByClock = users.threadByClock,
         users'.processByCr3 = users.processByCr3, users'.processByClock = users.processByClock,
         \A c \in Cores : Relies(vmcs'[c].exits, users', c),
         phase' # {} => users'.checkPf
  PROVE  RInv'
<1>1. Switches'
  BY DEF RInv, Switches
<1>2. ASSUME NEW c \in Cores, NEW d \in Cores
      PROVE  AlikeAt(c, d)'
  <2>1. AlikeAt(c, d)
    BY Zenon DEF RInv, Alike
  <2> QED
    BY <2>1, Zenon DEF AlikeAt
<1>3. masked' = {}
  BY Zenon DEF RInv, Running
<1>4. (\A c \in Cores : Relies(vmcs[c].exits, users, c))'
  BY Zenon DEF Relies
<1> QED
  BY <1>1, <1>2, <1>3, <1>4, Zenon DEF RInv, Alike

\* While no core is held every core waits for what core 0 waits for.
LEMMA LikeCore0 ==
  ASSUME IInv, RInv, Running, NEW c \in Cores
  PROVE  /\ users.threadByDr[c] <=> users.threadByDr[0]
         /\ users.threadByClock[c] = users.threadByClock[0]
         /\ users.processByCr3[c] <=> users.processByCr3[0]
         /\ users.processByClock[c] <=> users.processByClock[0]
<1>1. 0 \in Cores /\ c \notin halted /\ 0 \notin halted
  BY CoresAssumption, Zenon DEF Running
<1>2. users.threadByClock[c] = users.threadByClock[0] /\ initial[c] = initial[0] /\ byClock[c] = byClock[0]
  BY <1>1, Zenon DEF RInv, Alike, AlikeAt
<1> QED
  BY <1>1, <1>2, Zenon DEF RInv, Switches

\* Terminating an event leaves every core what the users rely on.
LEMMA TerminateRelies ==
  ASSUME IInv, RInv, Running, NEW i \in DOMAIN events, DebuggerTerminateEvent(i), NEW c \in Cores
  PROVE  Relies(vmcs'[c].exits, users, c)
<1> DEFINE m == vmcs[c]
           n == vmcs'[c]
           t == events[i].type
<1>1. events \in Seq(Event) /\ users \in Users /\ m \in Controls
  BY Zenon DEF IInv, TypeOK
<1>2. n = TerminateOn(m, i, c)
  BY Zenon DEF DebuggerTerminateEvent
<1>3. PICK o : ResetTo(m, o, i, c) /\ Effect(o, n, t, OtherEvents(i), c, events)
  BY <1>1, <1>2, TerminateEffect
<1>4. m.exits \ (Serves(t) \ StillUsed) \subseteq n.exits
  BY <1>3, Zenon DEF ResetTo, Effect
<1>5. "cr3" \notin Serves(t)
  BY DEF Serves
<1>6. /\ users.transparent => "tsc" \in StillUsed
      /\ users.threadByDr[c] => "dr" \in StillUsed
      /\ users.threadByClock[c] \/ users.processByClock[c] => "extint" \in StillUsed
  BY LikeCore0, Zenon DEF StillUsed
<1>7. Relies(m.exits, users, c)
  BY Zenon DEF RInv
<1> HIDE DEF m, n, t
<1>8. Relies(n.exits, users, c)
  BY <1>4, <1>5, <1>6, <1>7, Zenon DEF Relies
<1> QED
  BY <1>8, Zenon DEF n

\* Registering, clearing and terminating events.
LEMMA EventStepsRely ==
  ASSUME IInv, RInv,
         \/ \E e \in Event : RegisterEvent(e)
         \/ \E i \in DOMAIN events : ClearEvent(i) \/ TerminateNext(i)
  PROVE  RInv'
<1>1. ASSUME NEW e \in Event, RegisterEvent(e)
      PROVE  RInv'
  <2>1. /\ UNCHANGED <<users, phase, initial, byClock, masked, halted, halting>> /\ Running
        /\ vmcs' = [c \in Cores |-> Apply(vmcs[c], e.type, {1}, c, events')]
    BY <1>1, Zenon DEF RegisterEvent, Idle
  <2>2. e.type \in EventTypes
    BY EventShape, TypesAssumption, Zenon
  <2>3. ASSUME NEW c \in Cores
        PROVE  Relies(vmcs'[c].exits, users', c)
    <3>1. vmcs[c] \in Controls /\ Relies(vmcs[c].exits, users, c)
      BY Zenon DEF IInv, TypeOK, RInv
    <3>2. vmcs'[c] = Apply(vmcs[c], e.type, {1}, c, events')
      BY <2>1, Zenon
    <3>3. Effect(vmcs[c], vmcs'[c], e.type, {1}, c, events')
      BY <2>2, <3>1, <3>2, ApplyEffect, Zenon
    <3>4. vmcs[c].exits \subseteq vmcs'[c].exits
      BY <3>3, Zenon DEF Effect
    <3> QED
      BY <2>1, <3>1, <3>4, Zenon DEF Relies
  <2> QED
    BY <2>1, <2>3, RunningStep, Zenon DEF RInv
<1>2. ASSUME NEW i \in DOMAIN events, ClearEvent(i) \/ TerminateNext(i)
      PROVE  RInv'
  <2>1. /\ UNCHANGED <<users, phase, initial, byClock, masked, halted, halting>> /\ Running
        /\ DebuggerTerminateEvent(i)
    BY <1>2, Zenon DEF ClearEvent, TerminateNext, Idle
  <2>2. \A c \in Cores : Relies(vmcs'[c].exits, users', c)
    BY <2>1, TerminateRelies, Zenon
  <2> QED
    BY <2>1, <2>2, RunningStep, Zenon DEF RInv
<1> QED
  BY <1>1, <1>2, Zenon

\* The four flags of every core are the same in u and v, and so is what
\* transparent mode and the interception of threads ask for.
SameWaits(u, v) ==
  /\ v.threadByDr = u.threadByDr /\ v.threadByClock = u.threadByClock
  /\ v.processByCr3 = u.processByCr3 /\ v.processByClock = u.processByClock

\* A user is switched on or off from user mode.
LEMMA ConfigureRely ==
  ASSUME RInv, Idle, NEW v, NEW u, Configure(v, u), SameWaits(users, u),
         phase' # {} => u.checkPf, \A c \in Cores : Relies(v[c].exits, u, c)
  PROVE  RInv'
<1>1. /\ UNCHANGED <<initial, byClock, masked, halted, halting>> /\ users' = u /\ vmcs' = v /\ Running
  BY Zenon DEF Configure, Idle
<1> QED
  BY <1>1, RunningStep, Zenon DEF SameWaits

\* A user that asks for exceptions only.
LEMMA ExceptionUserRely ==
  ASSUME RInv, Idle, NEW v, NEW u, Configure(v, u), SameWaits(users, u),
         u.transparent = users.transparent, u.checkPf = users.checkPf,
         phase' \subseteq phase, \A c \in Cores : v[c].exits = vmcs[c].exits
  PROVE  RInv'
<1>1. ASSUME NEW c \in Cores
      PROVE  Relies(v[c].exits, u, c)
  <2>1. Relies(vmcs[c].exits, users, c) /\ v[c].exits = vmcs[c].exits
    BY Zenon DEF RInv
  <2> QED
    BY <2>1, Zenon DEF Relies, SameWaits
<1>2. phase' # {} => u.checkPf
  BY Zenon DEF RInv
<1> QED
  BY <1>1, <1>2, ConfigureRely, Zenon

\* The kernel debugger, the user debugger and hidden breakpoints.
LEMMA ExceptionUsersRely ==
  ASSUME IInv, RInv,
         \/ KdInitializeKernelDebugger \/ KdUninitializeKernelDebugger
         \/ UdInitializeUserDebugger \/ UdUninitializeUserDebugger
         \/ (\E n \in {0, 1} : EptHook(n)) \/ EptUnHook
  PROVE  RInv'
<1>1. /\ vmcs \in [Cores -> Controls] /\ users \in Users /\ BP \in Vectors /\ DB \in Vectors
  BY DEF IInv, TypeOK, BP, DB, Vectors
<1>2. ASSUME NEW c \in Cores
      PROVE  EnableDbAndBp(vmcs[c], c, users).exits = vmcs[c].exits
  BY <1>1, EnableOk DEF Same
<1>3. CASE KdInitializeKernelDebugger
  <2> DEFINE u == [users EXCEPT !.kernel = TRUE]
             v == [c \in Cores |-> EnableDbAndBp(vmcs[c], c, users)]
  <2>1. Configure(v, u) /\ UNCHANGED phase /\ Idle
    BY <1>3, Zenon DEF KdInitializeKernelDebugger
  <2>2. SameWaits(users, u) /\ u.transparent = users.transparent /\ u.checkPf = users.checkPf
    BY <1>1, Zenon DEF Users, SameWaits
  <2>3. \A c \in Cores : v[c].exits = vmcs[c].exits
    BY <1>2, Zenon
  <2> HIDE DEF u, v
  <2> QED
    BY <2>1, <2>2, <2>3, ExceptionUserRely, Zenon
<1>4. CASE UdInitializeUserDebugger
  <2> DEFINE u == [users EXCEPT !.user = TRUE]
             v == [c \in Cores |-> EnableDbAndBp(vmcs[c], c, users)]
  <2>1. Configure(v, u) /\ UNCHANGED phase /\ Idle
    BY <1>4, Zenon DEF UdInitializeUserDebugger
  <2>2. SameWaits(users, u) /\ u.transparent = users.transparent /\ u.checkPf = users.checkPf
    BY <1>1, Zenon DEF Users, SameWaits
  <2>3. \A c \in Cores : v[c].exits = vmcs[c].exits
    BY <1>2, Zenon
  <2> HIDE DEF u, v
  <2> QED
    BY <2>1, <2>2, <2>3, ExceptionUserRely, Zenon
<1>5. CASE KdUninitializeKernelDebugger
  <2> DEFINE u == [users EXCEPT !.kernel = FALSE]
             v == [c \in Cores |-> DisableDbAndBp(vmcs[c], c, u)]
  <2>1. Configure(v, u) /\ UNCHANGED phase /\ Idle
    BY <1>5, Zenon DEF KdUninitializeKernelDebugger
  <2>2. /\ SameWaits(users, u) /\ u.transparent = users.transparent /\ u.checkPf = users.checkPf
        /\ u \in Users
    BY <1>1, Zenon DEF Users, SameWaits
  <2> HIDE DEF u
  <2>3. ASSUME NEW c \in Cores
        PROVE  v[c].exits = vmcs[c].exits
    <3> DEFINE m1 == UnsetExceptionBitmap(vmcs[c], BP, c, events, u)
               m2 == UnsetExceptionBitmap(m1, DB, c, events, u)
    <3>1. v[c] = m2
      BY Zenon DEF DisableDbAndBp
    <3>2. m1 \in Controls /\ Same(vmcs[c], m1)
      BY <1>1, <2>2, UnsetException
    <3> HIDE DEF m1
    <3>3. Same(m1, m2)
      BY <1>1, <2>2, <3>2, UnsetException
    <3> QED
      BY <3>1, <3>2, <3>3, Zenon DEF Same
  <2> HIDE DEF v
  <2> QED
    BY <2>1, <2>2, <2>3, ExceptionUserRely, Zenon
<1>6. CASE UdUninitializeUserDebugger
  <2> DEFINE u == [users EXCEPT !.user = FALSE]
  <2>1. Configure(vmcs, u) /\ phase' \subseteq phase /\ Idle
    BY <1>6, Zenon DEF UdUninitializeUserDebugger
  <2>2. SameWaits(users, u) /\ u.transparent = users.transparent /\ u.checkPf = users.checkPf
    BY <1>1, Zenon DEF Users, SameWaits
  <2> HIDE DEF u
  <2> QED
    BY <2>1, <2>2, ExceptionUserRely, Zenon
<1>7. ASSUME NEW n \in {0, 1}, EptHook(n)
      PROVE  RInv'
  <2> DEFINE u == [users EXCEPT !.hidden = @ + n]
             v == [c \in Cores |-> SetExceptionBitmap(vmcs[c], BP, c, events, users)]
  <2>1. Configure(v, u) /\ UNCHANGED phase /\ Idle
    BY <1>7, Zenon DEF EptHook
  <2>2. SameWaits(users, u) /\ u.transparent = users.transparent /\ u.checkPf = users.checkPf
    BY <1>1, Zenon DEF Users, SameWaits
  <2>3. \A c \in Cores : v[c].exits = vmcs[c].exits
    BY <1>1, SetException DEF Same
  <2> HIDE DEF u, v
  <2> QED
    BY <2>1, <2>2, <2>3, ExceptionUserRely, Zenon
<1>8. CASE EptUnHook
  <2> DEFINE u == [users EXCEPT !.hidden = @ - 1]
             v == [c \in Cores |-> IF u.hidden # 0 THEN vmcs[c]
                                   ELSE UnsetExceptionBitmap(vmcs[c], BP, c, events, u)]
  <2>1. Configure(v, u) /\ UNCHANGED phase /\ Idle /\ users.hidden > 0
    BY <1>8, Zenon DEF EptUnHook
  <2>2. SameWaits(users, u) /\ u.transparent = users.transparent /\ u.checkPf = users.checkPf
    BY <1>1, Zenon DEF Users, SameWaits
  <2>4. u \in Users
    BY <1>1, <2>1 DEF Users
  <2> HIDE DEF u
  <2>3. \A c \in Cores : v[c].exits = vmcs[c].exits
    BY <1>1, <2>4, UnsetException DEF Same
  <2> HIDE DEF v
  <2> QED
    BY <2>1, <2>2, <2>3, ExceptionUserRely, Zenon
<1> QED
  BY <1>3, <1>4, <1>5, <1>6, <1>7, <1>8, Zenon

\* Transparent mode.
LEMMA TransparentRely ==
  ASSUME IInv, RInv, TransparentHideDebugger \/ TransparentUnhideDebugger
  PROVE  RInv'
<1>1. vmcs \in [Cores -> Controls] /\ users \in Users
  BY Zenon DEF IInv, TypeOK
<1>2. ASSUME NEW c \in Cores
      PROVE  /\ On(vmcs[c], "tsc").exits = vmcs[c].exits \cup {"tsc"}
             /\ Off(vmcs[c], "tsc").exits = vmcs[c].exits \ {"tsc"}
             /\ Relies(vmcs[c].exits, users, c)
  <2>1. vmcs[c] \in Controls /\ Relies(vmcs[c].exits, users, c)
    BY <1>1, Zenon DEF RInv
  <2> QED
    BY <2>1, SwitchEffect DEF OnlyExits
<1>3. CASE TransparentHideDebugger
  <2> DEFINE u == [users EXCEPT !.transparent = TRUE]
             v == [c \in Cores |-> On(vmcs[c], "tsc")]
  <2>1. Configure(v, u) /\ UNCHANGED phase /\ Idle
    BY <1>3, Zenon DEF TransparentHideDebugger
  <2>2. SameWaits(users, u) /\ u.checkPf = users.checkPf
    BY <1>1, Zenon DEF Users, SameWaits
  <2> HIDE DEF u
  <2>3. \A c \in Cores : Relies(v[c].exits, u, c)
    BY <1>2, <2>2, Zenon DEF Relies, SameWaits
  <2> HIDE DEF v
  <2> QED
    BY <2>1, <2>2, <2>3, ConfigureRely, Zenon DEF RInv
<1>4. CASE TransparentUnhideDebugger
  <2> DEFINE u == [users EXCEPT !.transparent = FALSE]
             v == [c \in Cores |-> DisableRdtscExiting(vmcs[c], c, events, u, FALSE)]
  <2>1. Configure(v, u) /\ UNCHANGED phase /\ Idle
    BY <1>4, Zenon DEF TransparentUnhideDebugger
  <2>2. SameWaits(users, u) /\ u.checkPf = users.checkPf /\ u.transparent = FALSE
    BY <1>1, Zenon DEF Users, SameWaits
  <2> HIDE DEF u
  <2>3. ASSUME NEW c \in Cores
        PROVE  Relies(v[c].exits, u, c)
    <3>1. v[c] \in {vmcs[c], Off(vmcs[c], "tsc")}
      BY DEF DisableRdtscExiting
    <3> HIDE DEF v
    <3>2. v[c].exits = vmcs[c].exits \/ v[c].exits = vmcs[c].exits \ {"tsc"}
      BY <1>2, <3>1, Zenon
    <3> QED
      BY <1>2, <2>2, <3>2, Zenon DEF Relies, SameWaits
  <2> HIDE DEF v
  <2> QED
    BY <2>1, <2>2, <2>3, ConfigureRely, Zenon DEF RInv
<1> QED
  BY <1>3, <1>4, Zenon

\* The hypotheses of IntegrityKept: the one flag for the interception of
\* threads serves one process, and a core is stepped alone only where it is
\* the only one.
OneProcess == \A p, q \in Procs : p = q
StepsOneCore == "step" \in Features => Cores = {0}

\* The interception of the threads of a process.
LEMMA AttachingRely ==
  ASSUME OneProcess, IInv, RInv, NEW p \in Procs, NEW b \in BOOLEAN,
         AttachingConfigureInterceptingThreads(p, b)
  PROVE  RInv'
<1> DEFINE u == [users EXCEPT !.checkPf = b]
           v == [c \in Cores |-> IF b THEN On(vmcs[c], "cr3") ELSE DisableMovToCr3Exiting(vmcs[c], u)]
<1>1. vmcs \in [Cores -> Controls] /\ users \in Users /\ phase \subseteq Procs
  BY Zenon DEF IInv, TypeOK
<1>2. Configure(v, u) /\ Idle /\ phase' = IF b THEN phase \cup {p} ELSE phase \ {p}
  BY Zenon DEF AttachingConfigureInterceptingThreads
<1>3. SameWaits(users, u) /\ u.checkPf = b /\ u.transparent = users.transparent
  BY <1>1, Zenon DEF Users, SameWaits
<1>4. phase' # {} => u.checkPf
  BY <1>1, <1>2, <1>3, Zenon DEF OneProcess
<1> HIDE DEF u
<1>5. ASSUME NEW c \in Cores
      PROVE  Relies(v[c].exits, u, c)
  <2>1. /\ On(vmcs[c], "cr3").exits = vmcs[c].exits \cup {"cr3"}
        /\ Off(vmcs[c], "cr3").exits = vmcs[c].exits \ {"cr3"}
        /\ Relies(vmcs[c].exits, users, c)
    <3>1. vmcs[c] \in Controls /\ Relies(vmcs[c].exits, users, c)
      BY <1>1, Zenon DEF RInv
    <3> QED
      BY <3>1, SwitchEffect DEF OnlyExits
  <2>2. CASE b
    <3>1. v[c].exits = vmcs[c].exits \cup {"cr3"}
      BY <2>1, <2>2, Zenon
    <3> QED
      BY <1>3, <2>1, <3>1, Zenon DEF Relies, SameWaits
  <2>3. CASE ~b
    <3>1. v[c].exits = IF u.processByCr3[0] THEN vmcs[c].exits ELSE vmcs[c].exits \ {"cr3"}
      BY <1>3, <2>1, <2>3 DEF DisableMovToCr3Exiting
    <3>2. users.processByCr3[c] <=> users.processByCr3[0]
      BY <1>2, LikeCore0, Zenon DEF Idle
    <3> QED
      BY <1>3, <2>1, <2>3, <3>1, <3>2, Zenon DEF Relies, SameWaits
  <2> QED
    BY <2>2, <2>3, Zenon
<1> HIDE DEF v
<1> QED
  BY <1>2, <1>3, <1>4, <1>5, ConfigureRely, Zenon

\* A step of one core in vmx-root leaves the other cores what they rely on.
LEMMA CoreRelies ==
  ASSUME IInv, RInv, NEW c \in Cores, NEW r, NEW a1, NEW a2, NEW a3, NEW a4,
         Moved(users, r.u, c, a1, a2, a3, a4), Relies(r.m.exits, r.u, c),
         users' = r.u, vmcs' = [vmcs EXCEPT ![c] = r.m]
  PROVE  \A d \in Cores : Relies(vmcs'[d].exits, users', d)
<1>1. users \in Users /\ vmcs \in [Cores -> Controls]
  BY Zenon DEF IInv, TypeOK
<1>3. /\ users'.transparent = users.transparent /\ users'.checkPf = users.checkPf
      /\ SameElsewhere(users, users', c)
  <2>1. PICK v : v = r.u
    BY Zenon
  <2>2. Moved(users, v, c, a1, a2, a3, a4)
    BY <2>1, Zenon
  <2>3. /\ v.transparent = users.transparent /\ v.checkPf = users.checkPf
        /\ SameElsewhere(users, v, c)
    BY <1>1, <2>2, MovedAt
  <2> QED
    BY <2>1, <2>3, Zenon
<1>2. ASSUME NEW d \in Cores
      PROVE  Relies(vmcs'[d].exits, users', d)
  <2>1. CASE d = c
    BY <1>1, <2>1, Zenon
  <2>2. CASE d # c
    <3>1. /\ users'.threadByDr[d] = users.threadByDr[d] /\ users'.threadByClock[d] = users.threadByClock[d]
          /\ users'.processByCr3[d] = users.processByCr3[d] /\ users'.processByClock[d] = users.processByClock[d]
          /\ users'.transparent = users.transparent /\ users'.checkPf = users.checkPf
      BY <1>3, <2>2, Zenon DEF SameElsewhere
    <3>2. vmcs'[d] = vmcs[d] /\ Relies(vmcs[d].exits, users, d)
      BY <1>1, <2>2, Zenon DEF RInv
    <3> QED
      BY <3>1, <3>2, Zenon DEF Relies
  <2> QED
    BY <2>1, <2>2, Zenon
<1> QED
  BY <1>2, Zenon

\* KdHandleHaltsWhenNmiReceivedFromVmxRoot and its like: one core halts.
LEMMA HaltCoreRely ==
  ASSUME IInv, RInv, NEW c \in Cores, HaltCore(c)
  PROVE  RInv'
<1> DEFINE r == PreHalt(c)
           p == "process" \in initial[c]
           t == "thread" \in initial[c]
           k == byClock[c]
           tdr == IF t /\ (p \/ ~k) THEN FALSE ELSE users.threadByDr[c]
           tck == IF t /\ ~p /\ k THEN FALSE ELSE users.threadByClock[c]
           pcr == IF p /\ ~k THEN FALSE ELSE users.processByCr3[c]
           pck == IF p /\ k THEN FALSE ELSE users.processByClock[c]
<1>1. /\ halting /\ c \notin halted /\ halted' = halted \cup {c} /\ users' = r.u
      /\ vmcs' = [vmcs EXCEPT ![c] = r.m]
      /\ initial' = [initial EXCEPT ![c] = {}]
      /\ byClock' = [byClock EXCEPT ![c] = IF initial[c] = {} THEN byClock[c] ELSE FALSE]
      /\ UNCHANGED <<phase, masked, halting>>
  BY DEF HaltCore, SetCore
<1>2. /\ users \in Users /\ vmcs \in [Cores -> Controls] /\ initial \in [Cores -> SUBSET {"process", "thread"}]
      /\ byClock \in [Cores -> BOOLEAN] /\ masked \subseteq Cores
  BY Zenon DEF IInv, TypeOK
<1>3. Relies(r.m.exits, r.u, c) /\ Moved(users, r.u, c, tdr, tck, pcr, pck)
  <2>1. Relies(vmcs[c].exits, users, c)
    BY Zenon DEF RInv
  <2> QED
    BY <2>1, PreHaltFlags, Zenon
<1>4. /\ initial'[c] = {} /\ byClock'[c] = IF initial[c] = {} THEN byClock[c] ELSE FALSE
      /\ \A d \in Cores \ {c} : initial'[d] = initial[d] /\ byClock'[d] = byClock[d]
  BY <1>1, <1>2
<1> HIDE DEF r, tdr, tck, pcr, pck
<1>5. /\ users'.threadByDr[c] = tdr /\ users'.threadByClock[c] = tck
      /\ users'.processByCr3[c] = pcr /\ users'.processByClock[c] = pck
      /\ users'.checkPf = users.checkPf
      /\ SameElsewhere(users, users', c)
  <2>1. Moved(users, users', c, tdr, tck, pcr, pck)
    BY <1>1, <1>3, Zenon
  <2> QED
    BY <1>2, <2>1, MovedAt
<1>6. \A d \in Cores : Relies(vmcs'[d].exits, users', d)
  BY <1>1, <1>3, CoreRelies, Zenon
<1>7. \A d \in masked' \ halted' : "extint" \in vmcs'[d].exits
  BY <1>1, <1>2 DEF RInv
<1>8. Switches'
  <2>1. ASSUME NEW d \in Cores
        PROVE  /\ users'.threadByDr[d] <=> d \notin halted' /\ "thread" \in initial'[d] /\ ~byClock'[d]
               /\ users'.processByCr3[d] <=> d \notin halted' /\ "process" \in initial'[d] /\ ~byClock'[d]
               /\ users'.processByClock[d] <=> d \notin halted' /\ "process" \in initial'[d] /\ byClock'[d]
    <3>1. /\ users.threadByDr[d] <=> d \notin halted /\ "thread" \in initial[d] /\ ~byClock[d]
          /\ users.processByCr3[d] <=> d \notin halted /\ "process" \in initial[d] /\ ~byClock[d]
          /\ users.processByClock[d] <=> d \notin halted /\ "process" \in initial[d] /\ byClock[d]
      BY Zenon DEF RInv, Switches
    <3>2. CASE d = c
      BY <1>1, <1>5, <3>1, <3>2, Zenon DEF tdr, pcr, pck
    <3>3. CASE d # c
      <4>1. /\ initial'[d] = initial[d] /\ byClock'[d] = byClock[d] /\ (d \in halted' <=> d \in halted)
        BY <1>1, <1>4, <3>3, Zenon
      <4>2. /\ users'.threadByDr[d] = users.threadByDr[d] /\ users'.processByCr3[d] = users.processByCr3[d]
            /\ users'.processByClock[d] = users.processByClock[d]
        BY <1>5, <3>3, Zenon DEF SameElsewhere
      <4> QED
        BY <3>1, <4>1, <4>2, Zenon
    <3> QED
      BY <3>2, <3>3, Zenon
  <2> QED
    BY <2>1, Zenon DEF Switches
<1>9. ASSUME NEW a \in Cores, NEW d \in Cores
      PROVE  AlikeAt(a, d)'
  <2>1. tck = IF byClock[c] /\ initial[c] = {"thread"} THEN FALSE ELSE users.threadByClock[c]
    <3>1. initial[c] = {"thread"} <=> t /\ ~p
      BY <1>2
    <3> QED
      BY <3>1, Zenon DEF tck
  <2>2. AlikeAt(a, d) /\ AlikeAt(c, d) /\ AlikeAt(a, c) /\ AlikeAt(c, a)
    BY Zenon DEF RInv, Alike
  <2>3. CASE a = c /\ d = c
    BY <2>3, Zenon DEF AlikeAt
  <2>4. CASE a = c /\ d # c
    BY <1>1, <1>4, <1>5, <2>1, <2>2, <2>4, Zenon DEF AlikeAt, SameElsewhere
  <2>5. CASE a # c /\ d = c
    <3>1. initial'[a] = initial[a] /\ byClock'[a] = byClock[a] /\ users'.threadByClock[a] = users.threadByClock[a]
      BY <1>4, <1>5, <2>5 DEF SameElsewhere
    <3>2. /\ initial'[d] = {} /\ byClock'[d] = (IF initial[c] = {} THEN byClock[c] ELSE FALSE)
          /\ users'.threadByClock[d] = tck
      BY <1>4, <1>5, <2>5, Zenon
    <3>3. CASE a \in halted
      BY <1>1, <2>1, <2>2, <2>5, <3>1, <3>2, <3>3, Zenon DEF AlikeAt
    <3>4. CASE a \notin halted
      <4>1. initial[a] = initial[c] /\ byClock[a] = byClock[c] /\ users.threadByClock[a] = users.threadByClock[c]
        BY <1>1, <2>2, <3>4, Zenon DEF AlikeAt
      <4> QED
        BY <1>1, <2>1, <2>5, <3>1, <3>2, <3>4, <4>1, Zenon DEF AlikeAt
    <3> QED
      BY <3>3, <3>4, Zenon
  <2>6. CASE a # c /\ d # c
    BY <1>1, <1>4, <1>5, <2>2, <2>6, Zenon DEF AlikeAt, SameElsewhere
  <2> QED
    BY <2>3, <2>4, <2>5, <2>6, Zenon
<1> QED
  BY <1>1, <1>5, <1>6, <1>7, <1>8, <1>9 DEF RInv, Alike

\* What core c waits for once it runs again.
LEMMA ContinueFlags ==
  ASSUME IInv, RInv, NEW c \in Cores, NEW v, v = PostContinue(c).u
  PROVE  /\ v.threadByDr[c] = (IF "thread" \in initial[c] /\ ~byClock[c] THEN TRUE ELSE users.threadByDr[c])
         /\ v.threadByClock[c] = (IF "thread" \in initial[c] /\ byClock[c] THEN TRUE ELSE users.threadByClock[c])
         /\ v.processByCr3[c] = (IF "process" \in initial[c] /\ ~byClock[c] THEN TRUE ELSE users.processByCr3[c])
         /\ v.processByClock[c] = (IF "process" \in initial[c] /\ byClock[c] THEN TRUE ELSE users.processByClock[c])
         /\ v.checkPf = users.checkPf /\ v \in Users
         /\ SameElsewhere(users, v, c)
         /\ Relies(PostContinue(c).m.exits, v, c) /\ PostContinue(c).m \in Controls
         /\ \E a1, a2, a3, a4 : Moved(users, v, c, a1, a2, a3, a4)
<1> DEFINE p == "process" \in initial[c]
           t == "thread" \in initial[c]
           k == byClock[c]
           tdr == IF t /\ ~k THEN TRUE ELSE users.threadByDr[c]
           tck == IF t /\ k THEN TRUE ELSE users.threadByClock[c]
           pcr == IF p /\ ~k THEN TRUE ELSE users.processByCr3[c]
           pck == IF p /\ k THEN TRUE ELSE users.processByClock[c]
<1>1. users \in Users /\ Relies(vmcs[c].exits, users, c)
  BY Zenon DEF IInv, TypeOK, RInv
<1>2. /\ CoreOK(PostContinue(c), c) /\ Relies(PostContinue(c).m.exits, v, c)
      /\ Moved(users, v, c, tdr, tck, pcr, pck)
  BY <1>1, PostContinueFlags, Zenon
<1>3. PostContinue(c).m \in Controls
  BY <1>2, Zenon DEF CoreOK
<1>4. \E a1, a2, a3, a4 : Moved(users, v, c, a1, a2, a3, a4)
  BY <1>2, Zenon
<1> HIDE DEF tdr, tck, pcr, pck
<1>5. /\ v.threadByDr[c] = tdr /\ v.threadByClock[c] = tck
      /\ v.processByCr3[c] = pcr /\ v.processByClock[c] = pck
      /\ v.checkPf = users.checkPf /\ v \in Users
      /\ SameElsewhere(users, v, c)
  <2>1. PICK w : w = v
    BY Zenon
  <2>2. Moved(users, w, c, tdr, tck, pcr, pck)
    BY <1>2, <2>1, Zenon
  <2>3. /\ w.threadByDr[c] = tdr /\ w.threadByClock[c] = tck
        /\ w.processByCr3[c] = pcr /\ w.processByClock[c] = pck
        /\ w.checkPf = users.checkPf /\ w \in Users
        /\ SameElsewhere(users, w, c)
    BY <1>1, <2>2, MovedAt
  <2> QED
    BY <2>1, <2>3, Zenon
<1> QED
  BY <1>2, <1>3, <1>4, <1>5, Zenon DEF tdr, tck, pcr, pck

\* Core c runs again, the others stay as they are: it waits for what was asked for.
LEMMA ContinueSwitches ==
  ASSUME IInv, RInv, NEW c \in halted, users' = PostContinue(c).u, halted' = halted \ {c},
         UNCHANGED <<initial, byClock>>
  PROVE  Switches'
<1>1. ASSUME NEW d \in Cores
      PROVE  /\ users'.threadByDr[d] <=> d \notin halted' /\ "thread" \in initial'[d] /\ ~byClock'[d]
             /\ users'.processByCr3[d] <=> d \notin halted' /\ "process" \in initial'[d] /\ ~byClock'[d]
             /\ users'.processByClock[d] <=> d \notin halted' /\ "process" \in initial'[d] /\ byClock'[d]
  <2>1. /\ users.threadByDr[d] <=> d \notin halted /\ "thread" \in initial[d] /\ ~byClock[d]
        /\ users.processByCr3[d] <=> d \notin halted /\ "process" \in initial[d] /\ ~byClock[d]
        /\ users.processByClock[d] <=> d \notin halted /\ "process" \in initial[d] /\ byClock[d]
    BY Zenon DEF RInv, Switches
  <2>2. c \in Cores
    BY Zenon DEF IInv, TypeOK
  <2>3. CASE d = c
    <3>1. /\ users'.threadByDr[c] = (IF "thread" \in initial[c] /\ ~byClock[c] THEN TRUE ELSE users.threadByDr[c])
          /\ users'.processByCr3[c] = (IF "process" \in initial[c] /\ ~byClock[c] THEN TRUE ELSE users.processByCr3[c])
          /\ users'.processByClock[c] = (IF "process" \in initial[c] /\ byClock[c] THEN TRUE ELSE users.processByClock[c])
      BY <2>2, ContinueFlags, Zenon
    <3> QED
      BY <2>1, <2>3, <3>1
  <2>4. CASE d # c
    <3>1. /\ users'.threadByDr[d] = users.threadByDr[d]
          /\ users'.processByCr3[d] = users.processByCr3[d] /\ users'.processByClock[d] = users.processByClock[d]
      <4>1. SameElsewhere(users, users', c)
        BY <2>2, ContinueFlags, Zenon
      <4> QED
        BY <2>4, <4>1, Zenon DEF SameElsewhere
    <3> QED
      BY <2>1, <2>4, <3>1, Zenon
  <2> QED
    BY <2>3, <2>4, Zenon
<1> QED
  BY <1>1, Zenon DEF Switches

\* One core continues.
LEMMA ContinueCoreRely ==
  ASSUME IInv, RInv, NEW c \in Cores, ContinueCore(c)
  PROVE  RInv'
<1> DEFINE r == PostContinue(c)
<1>1. /\ ~halting /\ c \in halted /\ halted' = halted \ {c} /\ users' = r.u
      /\ vmcs' = [vmcs EXCEPT ![c] = r.m]
      /\ UNCHANGED <<phase, masked, halting, initial, byClock>>
  BY Zenon DEF ContinueCore, SetCore
<1>2. /\ users'.threadByClock[c] = (IF "thread" \in initial[c] /\ byClock[c] THEN TRUE ELSE users.threadByClock[c])
      /\ users'.checkPf = users.checkPf
      /\ SameElsewhere(users, users', c)
      /\ Relies(r.m.exits, r.u, c)
      /\ \E a1, a2, a3, a4 : Moved(users, r.u, c, a1, a2, a3, a4)
  BY <1>1, ContinueFlags, Zenon
<1> HIDE DEF r
<1>3. \A d \in Cores : Relies(vmcs'[d].exits, users', d)
  BY <1>1, <1>2, CoreRelies, Zenon
<1>4. masked' = {}
  BY <1>1, Zenon DEF RInv
<1>5. Switches'
  BY <1>1, ContinueSwitches, Zenon DEF r
<1>6. ASSUME NEW a \in Cores, NEW d \in Cores
      PROVE  AlikeAt(a, d)'
  <2>1. AlikeAt(a, d) /\ AlikeAt(c, d) /\ AlikeAt(a, c) /\ AlikeAt(d, c)
    BY Zenon DEF RInv, Alike
  <2>2. CASE a = c /\ d = c
    BY <2>2, Zenon DEF AlikeAt
  <2>3. CASE a = c /\ d # c
    BY <1>1, <1>2, <2>1, <2>3, Zenon DEF AlikeAt, SameElsewhere
  <2>4. CASE a # c /\ d = c
    BY <1>1, <1>2, <2>1, <2>4, Zenon DEF AlikeAt, SameElsewhere
  <2>5. CASE a # c /\ d # c
    BY <1>1, <1>2, <2>1, <2>5, Zenon DEF AlikeAt, SameElsewhere
  <2> QED
    BY <2>2, <2>3, <2>4, <2>5, Zenon
<1> QED
  BY <1>1, <1>2, <1>3, <1>4, <1>5, <1>6 DEF RInv, Alike

\* One core is stepped; it is the only one.
LEMMA GuaranteedStepRely ==
  ASSUME StepsOneCore, IInv, RInv, NEW c \in Cores, GuaranteedStep(c)
  PROVE  RInv'
<1> DEFINE q == PostContinue(c)
           r == [m |-> On(q.m, "extint"), u |-> q.u]
<1>1. /\ halting /\ halted = Cores /\ halted' = halted \ {c} /\ users' = q.u /\ masked' = {c}
      /\ vmcs' = [vmcs EXCEPT ![c] = r.m] /\ Cores = {0}
      /\ UNCHANGED <<phase, halting, initial, byClock>>
  BY Zenon DEF GuaranteedStep, StepsOneCore
<1>2. /\ users'.checkPf = users.checkPf /\ Relies(q.m.exits, q.u, c) /\ q.m \in Controls
      /\ \E a1, a2, a3, a4 : Moved(users, q.u, c, a1, a2, a3, a4)
  BY <1>1, ContinueFlags, Zenon
<1>3. r.m.exits = q.m.exits \cup {"extint"}
  BY <1>2, SwitchEffect, Zenon DEF OnlyExits
<1>4. Relies(r.m.exits, r.u, c)
  BY <1>2, <1>3, Zenon DEF Relies
<1>5. r.u = q.u
  BY Zenon
<1>6. c \in halted
  BY <1>1, Zenon
<1>7. Switches'
  BY <1>1, <1>6, ContinueSwitches, Zenon
<1> HIDE DEF q, r
<1>8. \A d \in Cores : Relies(vmcs'[d].exits, users', d)
  BY <1>1, <1>2, <1>4, <1>5, CoreRelies, Zenon
<1>9. \A d \in masked' \ halted' : "extint" \in vmcs'[d].exits
  <2>1. vmcs'[c] = r.m
    BY <1>1, Zenon DEF IInv, TypeOK
  <2> QED
    BY <1>1, <1>3, <2>1, Zenon
<1>10. ASSUME NEW a \in Cores, NEW d \in Cores
       PROVE  AlikeAt(a, d)'
  <2>1. a = d
    BY <1>1, Zenon
  <2> QED
    BY <2>1, Zenon DEF AlikeAt
<1> QED
  BY <1>1, <1>2, <1>7, <1>8, <1>9, <1>10, Zenon DEF RInv, Alike

\* A step that leaves every core's controls and users as they are, with all
\* cores on one side of a halt.
LEMMA HeldStep ==
  ASSUME RInv, UNCHANGED <<users, phase, halted>>, halted = Cores \/ halted = {},
         halted # Cores => UNCHANGED <<initial, byClock>>,
         \A c, d \in Cores : initial[c] = initial[d] /\ byClock[c] = byClock[d]
                               => initial'[c] = initial'[d] /\ byClock'[c] = byClock'[d],
         \A c \in Cores : Relies(vmcs'[c].exits, users, c),
         \A c \in masked' \ halted : "extint" \in vmcs'[c].exits,
         ~halting' => masked' = {}
  PROVE  RInv'
<1>1. Switches'
  BY Zenon DEF RInv, Switches
<1>2. ASSUME NEW c \in Cores, NEW d \in Cores
      PROVE  AlikeAt(c, d)'
  <2>1. AlikeAt(c, d) /\ (c \in halted <=> d \in halted)
    BY Zenon DEF RInv, Alike
  <2> QED
    BY <2>1, Zenon DEF AlikeAt
<1>3. (\A c \in Cores : Relies(vmcs[c].exits, users, c))'
  BY Zenon DEF Relies
<1> QED
  BY <1>1, <1>2, <1>3, Zenon DEF RInv, Alike

\* The loop that clears all events starts and ends; a halt starts; a switch is asked for.
LEMMA FramesRely ==
  ASSUME IInv, RInv,
         \/ ClearAllEvents \/ RemoveAllEvents \/ HaltSystem
         \/ \E kind \in {"process", "thread"}, b \in BOOLEAN : RequestSwitch(kind, b)
  PROVE  RInv'
<1>0. \A c \in Cores : Relies(vmcs[c].exits, users, c)
  BY Zenon DEF RInv
<1>1. CASE ClearAllEvents \/ RemoveAllEvents
  <2>1. UNCHANGED <<vmcs, users, phase, initial, byClock, masked, halted, halting>> /\ Running
    BY <1>1, Zenon DEF ClearAllEvents, RemoveAllEvents, Idle
  <2> QED
    BY <1>0, <2>1, RunningStep, Zenon DEF RInv
<1>2. CASE HaltSystem
  <2>1. UNCHANGED <<vmcs, users, phase, initial, byClock, masked, halted>> /\ halted = {} /\ halting'
    BY <1>2, Zenon DEF HaltSystem
  <2> QED
    BY <1>0, <2>1, HeldStep, Zenon DEF RInv
<1>3. ASSUME NEW kind \in {"process", "thread"}, NEW b \in BOOLEAN, RequestSwitch(kind, b)
      PROVE  RInv'
  <2>1. /\ UNCHANGED <<vmcs, users, phase, masked, halted, halting>> /\ halted = Cores /\ halting'
        /\ initial' = [c \in Cores |-> initial[c] \cup {kind}] /\ byClock' = [c \in Cores |-> b]
    BY <1>3, Zenon DEF RequestSwitch
  <2> QED
    BY <1>0, <2>1, HeldStep, Zenon DEF RInv
<1> QED
  BY <1>1, <1>2, <1>3, Zenon

\* The stepped core stops masking interrupts.
LEMMA UnmaskRely ==
  ASSUME IInv, RInv, SwitchCore \/ ContinueSystem
  PROVE  RInv'
<1>1. /\ UNCHANGED <<users, phase, halted, initial, byClock>> /\ halted = Cores /\ masked' = {}
      /\ vmcs' = [c \in Cores |-> IF c \in masked THEN Unmask(vmcs[c], c) ELSE vmcs[c]]
  BY Zenon DEF SwitchCore, ContinueSystem
<1>2. ASSUME NEW c \in Cores
      PROVE  Relies(vmcs'[c].exits, users, c)
  <2>1. vmcs[c] \in Controls /\ Relies(vmcs[c].exits, users, c)
    BY Zenon DEF IInv, TypeOK, RInv
  <2>2. OnlyExits(vmcs[c], Off(vmcs[c], "extint"), vmcs[c].exits \ {"extint"})
    BY <2>1, SwitchEffect, Zenon
  <2>3. CASE vmcs'[c] = vmcs[c]
    BY <2>1, <2>3, Zenon
  <2>4. CASE vmcs'[c] # vmcs[c]
    <3>1. vmcs'[c] = Unmask(vmcs[c], c)
      BY <1>1, <2>4, Zenon
    <3>2. vmcs'[c] = Off(vmcs[c], "extint") /\ ~users.threadByClock[c] /\ ~users.processByClock[c]
      BY <2>4, <3>1 DEF Unmask, DisableExternalInterruptExiting
    <3>3. vmcs'[c].exits = vmcs[c].exits \ {"extint"}
      BY <2>2, <3>2, Zenon DEF OnlyExits
    <3> QED
      BY <2>1, <3>2, <3>3, Zenon DEF Relies
  <2> QED
    BY <2>3, <2>4, Zenon
<1> QED
  BY <1>1, <1>2, HeldStep, Zenon

\* A mov-to-cr3 exit changes the exception bitmap only.
LEMMA Cr3VmexitRely ==
  ASSUME IInv, RInv, NEW c \in Cores, NEW b \in BOOLEAN, AttachingHandleCr3Vmexits(c, b)
  PROVE  RInv'
<1> DEFINE n == IF b THEN SetExceptionBitmap(vmcs[c], PF, c, events, users)
                ELSE UnsetExceptionBitmap(vmcs[c], PF, c, events, users)
<1>1. /\ UNCHANGED <<users, phase, initial, byClock, masked, halted, halting>>
      /\ vmcs' = [vmcs EXCEPT ![c] = n]
  BY Zenon DEF AttachingHandleCr3Vmexits, SetCore
<1>2. vmcs \in [Cores -> Controls] /\ users \in Users /\ PF \in Vectors
  BY DEF IInv, TypeOK, PF, Vectors
<1>3. n.exits = vmcs[c].exits
  <2>1. SetExceptionBitmap(vmcs[c], PF, c, events, users).exits = vmcs[c].exits
    BY <1>2, SetException DEF Same
  <2>2. UnsetExceptionBitmap(vmcs[c], PF, c, events, users).exits = vmcs[c].exits
    BY <1>2, UnsetException DEF Same
  <2> QED
    BY <2>1, <2>2, Zenon
<1> HIDE DEF n
<1>4. \A d \in Cores : vmcs'[d].exits = vmcs[d].exits
  BY <1>1, <1>2, <1>3, Zenon
<1>5. \A d \in Cores : Relies(vmcs'[d].exits, users', d)
  BY <1>1, <1>4, Zenon DEF RInv
<1>6. \A d \in masked' \ halted' : "extint" \in vmcs'[d].exits
  <2>1. masked \subseteq Cores
    BY Zenon DEF IInv, TypeOK
  <2> QED
    BY <1>1, <1>4, <2>1, Zenon DEF RInv
<1>7. Switches'
  BY <1>1, Zenon DEF RInv, Switches
<1>8. ASSUME NEW a \in Cores, NEW d \in Cores
      PROVE  AlikeAt(a, d)'
  <2>1. AlikeAt(a, d)
    BY Zenon DEF RInv, Alike
  <2> QED
    BY <1>1, <2>1, Zenon DEF AlikeAt
<1> QED
  BY <1>1, <1>5, <1>6, <1>7, <1>8, Zenon DEF RInv, Alike

\* Nothing is waited for at first.
LEMMA InitRely == Init => RInv
<1> SUFFICES ASSUME Init PROVE RInv
  OBVIOUS
<1>1. /\ phase = {} /\ masked = {} /\ halted = {} /\ ~halting
      /\ initial = [c \in Cores |-> {}] /\ byClock = [c \in Cores |-> FALSE]
      /\ ~users.transparent /\ ~users.checkPf
      /\ users.threadByDr = [c \in Cores |-> FALSE] /\ users.threadByClock = [c \in Cores |-> FALSE]
      /\ users.processByCr3 = [c \in Cores |-> FALSE] /\ users.processByClock = [c \in Cores |-> FALSE]
  BY DEF Init, NoCores
<1>2. \A c \in Cores : Relies(vmcs[c].exits, users, c)
  BY <1>1, Zenon DEF Relies
<1>3. Switches
  BY <1>1, Zenon DEF Switches
<1>4. Alike
  BY <1>1, Zenon DEF Alike, AlikeAt
<1> QED
  BY <1>1, <1>2, <1>3, <1>4, Zenon DEF RInv

\* The invariant is inductive where one process is intercepted, or none.
LEMMA NextRely ==
  ASSUME StepsOneCore
  PROVE  IInv /\ RInv /\ (OneProcess \/ ~users.user) /\ [Next]_vars => RInv'
<1> SUFFICES ASSUME IInv, RInv, OneProcess \/ ~users.user, [Next]_vars PROVE RInv'
  OBVIOUS
<1>1. CASE (\E e \in Event : RegisterEvent(e)) \/ (\E i \in DOMAIN events : ClearEvent(i) \/ TerminateNext(i))
  BY <1>1, EventStepsRely, Zenon
<1>2. CASE \/ ClearAllEvents \/ RemoveAllEvents \/ HaltSystem
           \/ \E kind \in {"process", "thread"}, b \in BOOLEAN : RequestSwitch(kind, b)
  BY <1>2, FramesRely, Zenon
<1>3. CASE \/ KdInitializeKernelDebugger \/ KdUninitializeKernelDebugger
           \/ UdInitializeUserDebugger \/ UdUninitializeUserDebugger
           \/ (\E n \in {0, 1} : EptHook(n)) \/ EptUnHook
  BY <1>3, ExceptionUsersRely, Zenon
<1>4. CASE TransparentHideDebugger \/ TransparentUnhideDebugger
  BY <1>4, TransparentRely, Zenon
<1>5. CASE \E p \in Procs, b \in BOOLEAN : AttachingConfigureInterceptingThreads(p, b)
  BY <1>5, AttachingRely, Zenon DEF AttachingConfigureInterceptingThreads
<1>6. CASE \E c \in Cores, b \in BOOLEAN : AttachingHandleCr3Vmexits(c, b)
  BY <1>6, Cr3VmexitRely, Zenon
<1>7. CASE SwitchCore \/ ContinueSystem
  BY <1>7, UnmaskRely, Zenon
<1>8. CASE \E c \in Cores : HaltCore(c) \/ ContinueCore(c) \/ GuaranteedStep(c)
  BY <1>8, HaltCoreRely, ContinueCoreRely, GuaranteedStepRely, Zenon
<1>9. CASE UNCHANGED vars
  <2>1. UNCHANGED <<vmcs, users, phase, initial, byClock, masked, halted, halting>>
    BY <1>9, Zenon DEF vars
  <2>2. \A d \in Cores : Relies(vmcs'[d].exits, users', d)
    BY <2>1, Zenon DEF RInv
  <2>3. Switches'
    BY <2>1, Zenon DEF RInv, Switches
  <2>4. ASSUME NEW a \in Cores, NEW d \in Cores
        PROVE  AlikeAt(a, d)'
    <3>1. AlikeAt(a, d)
      BY Zenon DEF RInv, Alike
    <3> QED
      BY <2>1, <3>1, Zenon DEF AlikeAt
  <2> QED
    BY <2>1, <2>2, <2>3, <2>4, Zenon DEF RInv, Alike
<1> QED
  BY <1>1, <1>2, <1>3, <1>4, <1>5, <1>6, <1>7, <1>8, <1>9, Zenon DEF Next

\* No user of the controls other than the events loses a control it relies on,
\* whatever events are registered, cleared and terminated and whichever other
\* users come and go (the "integrity" checks of ProtectedHv.c), provided the
\* user debugger intercepts the threads of one process (its global flag serves
\* them all) and no core of several is stepped alone (the checks made on behalf
\* of all cores look at core 0).
THEOREM IntegrityHolds ==
  ASSUME OneProcess, StepsOneCore
  PROVE  Spec => []IntegrityKept
<1>1. IInv /\ RInv => IntegrityKept
  <2> SUFFICES ASSUME IInv, RInv PROVE IntegrityKept
    OBVIOUS
  <2>1. DebuggerExceptionsKept
    BY InvImplies, Zenon
  <2>2. ASSUME NEW c \in Cores
        PROVE  /\ users.transparent => "tsc" \in vmcs[c].exits
               /\ users.threadByDr[c] => "dr" \in vmcs[c].exits
               /\ users.threadByClock[c] \/ users.processByClock[c] => "extint" \in vmcs[c].exits
               /\ users.processByCr3[c] \/ phase # {} => "cr3" \in vmcs[c].exits
               /\ c \in masked \ halted => "extint" \in vmcs[c].exits
    <3>1. Relies(vmcs[c].exits, users, c) /\ (phase # {} => users.checkPf)
      BY Zenon DEF RInv
    <3>2. c \in masked \ halted => "extint" \in vmcs[c].exits
      BY Zenon DEF RInv
    <3> QED
      BY <3>1, <3>2, Zenon DEF Relies
  <2> QED
    BY <2>1, <2>2, Zenon DEF IntegrityKept
<1>2. Init => IInv /\ RInv
  BY InitInv, InitRely, Zenon
<1>3. IInv /\ RInv /\ [Next]_vars => (IInv /\ RInv)'
  BY NextInv, NextRely, Zenon
<1> QED
  BY <1>1, <1>2, <1>3, PTL DEF Spec

-----------------------------------------------------------------------------
(* The events of the types that share a control *)

\* The exceptions that another user takes away when it goes, whoever else
\* asks for them: the integrity check reads an event's vector as a mask.
Contested ==
  {v \in {BP, DB} : "kernel" \in Features} \cup {v \in {BP} : "hook" \in Features}
  \cup {v \in {PF} : "user" \in Features}

\* The hypotheses of EventsIntercepted: no two event types of the instance
\* share a bitmap or the EFER hook, two events on one control register ask for
\* one mask, and an exception event asks for all vectors or for one that no
\* other user takes away.
NothingShared ==
  /\ ~({"in", "out"} \subseteq Types) /\ ~({"syscall", "sysret"} \subseteq Types)
  /\ "cr" \in Types => \A p, q \in Params["cr"] : p.reg = q.reg => p.mask = q.mask
  /\ "exception" \in Types =>
       /\ Params["exception"] \cap Contested = {}
       /\ Types \cap {"syscall", "sysret"} # {} => UD \notin Params["exception"]

\* What an event of a shared type needs; TRUE of the other types.
Holds(m, e) ==
  /\ e.type = "exception" => VectorsOf(e.param) \subseteq m.exc
  /\ e.type \in {"in", "out"} => PortsOf(e.param) \subseteq m.io
  /\ e.type = "cr" => e.param.mask \subseteq m.cr[e.param.reg]
  /\ e.type \in {"syscall", "sysret"} => "efer" \in m.exits /\ UD \in m.exc

\* n has lost nothing but contested exceptions, and those only where the
\* events' mask is in it.
Spared(m, n, c) ==
  /\ n.io = m.io /\ n.cr = m.cr /\ ("efer" \in m.exits => "efer" \in n.exits)
  /\ \A v \in m.exc : \/ v \in n.exc
                      \/ v \in Contested /\ DebuggerExceptionEventBitmapMask(events, c) \subseteq n.exc

\* One such change after the other.
LEMMA SparedTwice ==
  ASSUME NEW m, NEW n, NEW o, NEW c, Spared(m, n, c), Spared(n, o, c)
  PROVE  Spared(m, o, c)
<1>1. ASSUME NEW v \in m.exc, v \notin o.exc
      PROVE  v \in Contested /\ DebuggerExceptionEventBitmapMask(events, c) \subseteq o.exc
  <2>1. CASE v \in n.exc
    BY <1>1, <2>1, Zenon DEF Spared
  <2>2. CASE v \notin n.exc
    BY <1>1, <2>2, Zenon DEF Spared
  <2> QED
    BY <2>1, <2>2, Zenon
<1>2. o.io = m.io /\ o.cr = m.cr /\ ("efer" \in m.exits => "efer" \in o.exits)
  BY Zenon DEF Spared
<1> QED
  BY <1>1, <1>2, Zenon DEF Spared

\* An event that covers the core keeps what it needs.
LEMMA SparedHolds ==
  ASSUME NothingShared, events \in Seq(Event), NEW i \in DOMAIN events, NEW c, Covers(events[i], c),
         NEW m, NEW n, Holds(m, events[i]), Spared(m, n, c)
  PROVE  Holds(n, events[i])
<1> DEFINE e == events[i]
<1>1. e \in Event
  OBVIOUS
<1>2. e.type \in Types /\ e.param \in Params[e.type]
  BY <1>1, EventShape, Zenon
<1>3. ASSUME e.type = "exception"
      PROVE  VectorsOf(e.param) \subseteq n.exc
  <2>1. "exception" \in Types /\ e.param \in Params["exception"] /\ VectorsOf(e.param) \subseteq m.exc
    BY <1>2, <1>3, Zenon DEF Holds
  <2>2. CASE e.param = All
    <3>1. VectorsOf(e.param) = Vectors
      BY <2>2, Zenon DEF VectorsOf
    <3>2. Vectors \subseteq DebuggerExceptionEventBitmapMask(events, c)
      BY <1>3, <2>2 DEF DebuggerExceptionEventBitmapMask, DebuggerEventListCountByCore
    <3> QED
      BY <2>1, <3>1, <3>2, Zenon DEF Spared
  <2>3. CASE e.param # All
    <3>1. VectorsOf(e.param) = {e.param} /\ e.param \notin Contested
      BY <2>1, <2>3, Zenon DEF VectorsOf, NothingShared
    <3> QED
      BY <2>1, <3>1, Zenon DEF Spared
  <2> QED
    BY <2>2, <2>3, Zenon
<1>4. ASSUME e.type \in {"syscall", "sysret"}
      PROVE  "efer" \in n.exits /\ UD \in n.exc
  <2>1. "efer" \in m.exits /\ UD \in m.exc
    BY <1>4, Zenon DEF Holds
  <2>2. UD \notin Contested
    BY DEF Contested, UD, BP, DB, PF
  <2> QED
    BY <2>1, <2>2, Zenon DEF Spared
<1> QED
  BY <1>3, <1>4, Zenon DEF Holds, Spared

\* Adding a vector, turning a one-bit control on or off.
LEMMA ChangesSpare ==
  ASSUME NEW m \in Controls, NEW c, NEW u
  PROVE  /\ Spared(m, m, c)
         /\ \A v : Spared(m, SetExceptionBitmap(m, v, c, events, u), c)
         /\ \A x \in {"extint", "tsc", "dr", "cr3"} : Spared(m, On(m, x), c) /\ Spared(m, Off(m, x), c)
<1>1. Spared(m, m, c)
  BY Zenon DEF Spared
<1>2. ASSUME NEW v
      PROVE  Spared(m, SetExceptionBitmap(m, v, c, events, u), c)
  <2> DEFINE n == SetExceptionBitmap(m, v, c, events, u)
             w == m.exc \cup VectorsOf(v)
  <2>1. n = ChangeExceptionBitmapWithIntegrityCheck(m, w, c, events, u, {})
    BY Zenon DEF SetExceptionBitmap
  <2> HIDE DEF n, w
  <2>2. OnlyExc(m, n, w \cup StillNeeded(c, events, u, {}))
    BY <2>1, ChangeEffect
  <2>3. Spared(m, n, c)
    BY <2>2, Zenon DEF OnlyExc, Spared, w
  <2> QED
    BY <2>3, Zenon DEF n
<1>3. ASSUME NEW x \in {"extint", "tsc", "dr", "cr3"}
      PROVE  Spared(m, On(m, x), c) /\ Spared(m, Off(m, x), c)
  <2>1. OnlyExits(m, On(m, x), m.exits \cup {x}) /\ OnlyExits(m, Off(m, x), m.exits \ {x})
    BY SwitchEffect
  <2>2. x # "efer"
    OBVIOUS
  <2> QED
    BY <2>1, <2>2, Zenon DEF OnlyExits, Spared
<1> QED
  BY <1>1, <1>2, <1>3, Zenon

\* Taking a contested exception away.
LEMMA UnsetSpares ==
  ASSUME NEW m \in Controls, NEW c, NEW u, NEW v \in Contested
  PROVE  Spared(m, UnsetExceptionBitmap(m, v, c, events, u), c)
<1> DEFINE n == UnsetExceptionBitmap(m, v, c, events, u)
           w == m.exc \ VectorsOf(v)
<1>1. n = ChangeExceptionBitmapWithIntegrityCheck(m, w, c, events, u, {})
  BY Zenon DEF UnsetExceptionBitmap
<1>2. VectorsOf(v) = {v}
  BY AllAssumption DEF VectorsOf, Contested, BP, DB, PF
<1> HIDE DEF n, w
<1>3. OnlyExc(m, n, w \cup StillNeeded(c, events, u, {}))
  BY <1>1, ChangeEffect
<1>4. DebuggerExceptionEventBitmapMask(events, c) \subseteq StillNeeded(c, events, u, {})
  BY DEF StillNeeded
<1>5. Spared(m, n, c)
  BY <1>2, <1>3, <1>4, Zenon DEF OnlyExc, Spared, w
<1> QED
  BY <1>5, Zenon DEF n

\* A set of indexes of events that is not empty has a greatest one.
Ordered == \A S \in SUBSET (1..Len(events)) : S # {} => \E i \in S : \A j \in S : j <= i

\* The mask that stays is the mask of one of the events.
LEMMA LastMaskOf ==
  ASSUME Ordered, events \in Seq(Event), NEW J \in SUBSET DOMAIN events, NEW c, NEW r, NEW old,
         \E j \in J : Covers(events[j], c) /\ events[j].param.reg = r
  PROVE  \E j \in J : /\ Covers(events[j], c) /\ events[j].param.reg = r
                      /\ LastMask(J, c, events, r, old) = events[j].param.mask
<1> DEFINE I == {j \in J : Covers(events[j], c) /\ events[j].param.reg = r}
<1>1. I # {} /\ I \in SUBSET (1..Len(events))
  OBVIOUS
<1>2. \E i \in I : \A j \in I : j <= i
  <2> HIDE DEF I
  <2> QED
    BY <1>1, Zenon DEF Ordered
<1>3. \E i \in J : /\ Covers(events[i], c) /\ events[i].param.reg = r
                  /\ \A j \in J : Covers(events[j], c) /\ events[j].param.reg = r => j <= i
  BY <1>2, Zenon
<1> QED
  BY <1>3, MaskOfOne

\* Terminating event i leaves event j what it needs.
LEMMA TerminateHolds ==
  ASSUME NothingShared, Ordered, events \in Seq(Event), users \in Users, NEW i \in DOMAIN events,
         NEW j \in DOMAIN events \ {i}, NEW c \in Cores, Covers(events[j], c),
         NEW m \in Controls, Holds(m, events[j]), NEW n, n = TerminateOn(m, i, c)
  PROVE  Holds(n, events[j])
<1> DEFINE e == events[j]
           t == events[i].type
           J == OtherEvents(i)
<1>1. e \in Event /\ events[i] \in Event
  OBVIOUS
<1>2. e.type \in Types /\ e.param \in Params[e.type] /\ t \in Types
  BY <1>1, EventShape, Zenon
<1>3. PICK o : ResetTo(m, o, i, c) /\ Effect(o, n, t, J, c, events)
  BY TerminateEffect
<1>10. /\ PortsEffect(o, n, t, ParamsOn(J, c, events)) /\ MasksEffect(o, n, t, J, c, events)
       /\ ExceptionsEffect(o, n, t, ParamsOn(J, c, events), StillNeeded(c, events, users, {}))
  BY <1>3, EffectParts, Zenon
<1>4. /\ J \in SUBSET DOMAIN events /\ (\A k \in J : events[k].type = t)
      /\ e.type = t => j \in J
  BY Zenon DEF OtherEvents
<1>5. e.type = t => e.param \in ParamsOn(J, c, events)
  BY <1>4, Zenon DEF ParamsOn
<1> HIDE DEF J
<1>6. ASSUME e.type = "exception"
      PROVE  VectorsOf(e.param) \subseteq n.exc
  <2>1. "exception" \in Types /\ e.param \in Params["exception"] /\ VectorsOf(e.param) \subseteq m.exc
    BY <1>2, <1>6, Zenon DEF Holds
  <2>2. CASE t = "exception"
    <3>1. \A p \in ParamsOn(J, c, events) : VectorsOf(p) \subseteq n.exc
      BY <1>10, <2>2, Zenon DEF ExceptionsEffect
    <3> QED
      BY <1>5, <1>6, <2>2, <3>1, Zenon
  <2>3. CASE t \in {"syscall", "sysret"}
    <3>1. (m.exc \ {UD}) \cup StillNeeded(c, events, users, {"ud"}) \subseteq n.exc
      BY <1>3, <2>3 DEF ResetTo, Effect
    <3>2. CASE e.param = All
      <4>1. Vectors \subseteq DebuggerExceptionEventBitmapMask(events, c)
        BY <1>6, <3>2 DEF DebuggerExceptionEventBitmapMask, DebuggerEventListCountByCore
      <4>2. DebuggerExceptionEventBitmapMask(events, c) \subseteq StillNeeded(c, events, users, {"ud"})
        BY DEF StillNeeded
      <4> QED
        BY <3>1, <3>2, <4>1, <4>2, Zenon DEF VectorsOf
    <3>3. CASE e.param # All
      <4>1. VectorsOf(e.param) = {e.param} /\ e.param # UD
        BY <1>2, <2>1, <2>3, <3>3, Zenon DEF VectorsOf, NothingShared
      <4> QED
        BY <2>1, <3>1, <4>1, Zenon
    <3> QED
      BY <3>2, <3>3, Zenon
  <2>4. CASE t \notin {"exception", "syscall", "sysret"}
    <3>1. m.exc \subseteq n.exc
      BY <1>3, <2>4 DEF ResetTo, Effect
    <3> QED
      BY <2>1, <3>1, Zenon
  <2> QED
    BY <2>2, <2>3, <2>4, Zenon
<1>7. ASSUME e.type \in {"in", "out"}
      PROVE  PortsOf(e.param) \subseteq n.io
  <2>1. PortsOf(e.param) \subseteq m.io
    BY <1>7, Zenon DEF Holds
  <2>2. CASE t \in {"in", "out"}
    <3>1. e.type = t
      BY <1>2, <1>7, <2>2, Zenon DEF NothingShared
    <3>2. \A q \in ParamsOn(J, c, events) : PortsOf(q) \subseteq n.io
      BY <1>10, <2>2, Zenon DEF PortsEffect
    <3> QED
      BY <1>5, <3>1, <3>2, Zenon
  <2>3. CASE t \notin {"in", "out"}
    BY <1>3, <2>1, <2>3 DEF ResetTo, Effect
  <2> QED
    BY <2>2, <2>3, Zenon
<1>8. ASSUME e.type = "cr"
      PROVE  e.param.mask \subseteq n.cr[e.param.reg]
  <2> DEFINE r == e.param.reg
  <2>1. e.param \in Params["cr"] /\ "cr" \in Types /\ e.param.mask \subseteq m.cr[r]
    BY <1>2, <1>8, Zenon DEF Holds
  <2>2. r \in CrRegs
    BY <2>1, ParamShape, Zenon
  <2>3. CASE t = "cr"
    <3>1. n.cr[r] = LastMask(J, c, events, r, o.cr[r])
      BY <1>3, <2>2, <2>3 DEF Effect
    <3>6. \E k \in J : Covers(events[k], c) /\ events[k].param.reg = r
      BY <1>4, <1>8, <2>3, Zenon
    <3> HIDE DEF r
    <3>2. PICK k \in J : /\ Covers(events[k], c) /\ events[k].param.reg = r
                         /\ LastMask(J, c, events, r, o.cr[r]) = events[k].param.mask
      BY <1>4, <3>6, LastMaskOf
    <3>3. events[k] \in Event /\ events[k].type = "cr"
      BY <1>4, <2>3
    <3>4. events[k].param \in Params["cr"]
      BY <3>3, EventShape, Zenon
    <3>5. events[k].param.mask = e.param.mask
      BY <2>1, <3>2, <3>4, Zenon DEF NothingShared, r
    <3> QED
      BY <3>1, <3>2, <3>5, Zenon DEF r
  <2>4. CASE t # "cr"
    BY <1>3, <2>1, <2>4, Zenon DEF ResetTo, Effect
  <2> QED
    BY <2>3, <2>4, Zenon
<1>9. ASSUME e.type \in {"syscall", "sysret"}
      PROVE  "efer" \in n.exits /\ UD \in n.exc
  <2>1. "efer" \in m.exits /\ UD \in m.exc
    BY <1>9, Zenon DEF Holds
  <2>2. CASE t \in {"syscall", "sysret"}
    <3>1. e.type = t
      BY <1>2, <1>9, <2>2, Zenon DEF NothingShared
    <3>2. ParamsOn(J, c, events) # {}
      BY <1>5, <3>1, Zenon
    <3> QED
      BY <1>3, <2>2, <3>2, Zenon DEF Effect, Serves
  <2>3. CASE t \notin {"syscall", "sysret"}
    <3>1. "efer" \notin Serves(t)
      BY <2>3 DEF Serves
    <3>2. "efer" \in n.exits
      BY <1>3, <2>1, <3>1, Zenon DEF ResetTo, Effect
    <3>3. CASE t = "exception"
      <4>1. UD \in StillNeeded(c, events, users, {"exception"})
        BY <1>9 DEF StillNeeded, DebuggerEventListCountByCore
      <4>2. StillNeeded(c, events, users, {"exception"}) \subseteq n.exc
        <5>1. o.exc = StillNeeded(c, events, users, {"exception"}) /\ o.exc \subseteq n.exc
          BY <1>3, <1>10, <3>3, Zenon DEF ResetTo, ExceptionsEffect
        <5> QED
          BY <5>1, Zenon
      <4> QED
        BY <3>2, <4>1, <4>2, Zenon
    <3>4. CASE t # "exception"
      <4>1. m.exc \subseteq n.exc
        BY <1>3, <2>3, <3>4 DEF ResetTo, Effect
      <4> QED
        BY <2>1, <3>2, <4>1, Zenon
    <3> QED
      BY <3>3, <3>4, Zenon
  <2> QED
    BY <2>2, <2>3, Zenon
<1> QED
  BY <1>6, <1>7, <1>8, <1>9, Zenon DEF Holds

\* Applying the new event, first of evs, gives it what it needs and leaves
\* the others theirs.
LEMMA ApplyHolds ==
  ASSUME NothingShared, NEW evs \in Seq(Event), NEW i \in DOMAIN evs, 1 \in DOMAIN evs,
         NEW c \in Cores, Covers(evs[i], c), NEW m \in Controls, NEW n,
         n = Apply(m, evs[1].type, {1}, c, evs), i = 1 \/ Holds(m, evs[i])
  PROVE  Holds(n, evs[i])
<1> DEFINE e == evs[i]
           t == evs[1].type
           P == ParamsOn({1}, c, evs)
<1>1. e \in Event /\ evs[1] \in Event
  OBVIOUS
<1>2. /\ e.type \in Types /\ e.param \in Params[e.type]
      /\ t \in Types /\ t \in EventTypes /\ evs[1].param \in Params[t]
  BY <1>1, EventShape, TypesAssumption, Zenon
<1>3. Effect(m, n, t, {1}, c, evs)
  BY <1>2, ApplyEffect, Zenon
<1>9. /\ PortsEffect(m, n, t, P) /\ MasksEffect(m, n, t, {1}, c, evs)
      /\ ExceptionsEffect(m, n, t, P, StillNeeded(c, evs, users, {}))
  BY <1>3, EffectParts, Zenon
<1>4. i = 1 => e.param \in P
  BY Zenon DEF ParamsOn
<1> HIDE DEF P
<1>5. ASSUME e.type = "exception"
      PROVE  VectorsOf(e.param) \subseteq n.exc
  <2>1. m.exc \subseteq n.exc /\ (t = "exception" => \A p \in P : VectorsOf(p) \subseteq n.exc)
    BY <1>9, Zenon DEF ExceptionsEffect
  <2>2. CASE i = 1
    BY <1>4, <1>5, <2>1, <2>2, Zenon
  <2>3. CASE Holds(m, e)
    BY <1>5, <2>1, <2>3, Zenon DEF Holds
  <2> QED
    BY <2>2, <2>3, Zenon
<1>6. ASSUME e.type \in {"in", "out"}
      PROVE  PortsOf(e.param) \subseteq n.io
  <2>1. m.io \subseteq n.io /\ (t \in {"in", "out"} => \A p \in P : PortsOf(p) \subseteq n.io)
    BY <1>9, Zenon DEF PortsEffect
  <2>2. CASE i = 1
    BY <1>4, <1>6, <2>1, <2>2, Zenon
  <2>3. CASE Holds(m, e)
    BY <1>6, <2>1, <2>3, Zenon DEF Holds
  <2> QED
    BY <2>2, <2>3, Zenon
<1>7. ASSUME e.type \in {"syscall", "sysret"}
      PROVE  "efer" \in n.exits /\ UD \in n.exc
  BY <1>3, <1>4, <1>7 DEF Effect, Holds, P, Serves
<1>8. ASSUME e.type = "cr"
      PROVE  e.param.mask \subseteq n.cr[e.param.reg]
  <2> DEFINE r == e.param.reg
  <2>1. e.param \in Params["cr"] /\ "cr" \in Types /\ (i # 1 => e.param.mask \subseteq m.cr[r])
    BY <1>2, <1>8, Zenon DEF Holds
  <2>2. r \in CrRegs
    BY <2>1, ParamShape, Zenon
  <2>3. CASE t = "cr"
    <3>1. n.cr[r] = LastMask({1}, c, evs, r, m.cr[r])
      BY <1>3, <2>2, <2>3 DEF Effect
    <3>2. CASE Covers(evs[1], c) /\ evs[1].param.reg = r
      <4>1. n.cr[r] = evs[1].param.mask
        <5> DEFINE J == {1}
        <5>1. J \in SUBSET DOMAIN evs /\ \A j \in J : j = 1
          BY Zenon
        <5>2. n.cr[r] = LastMask(J, c, evs, r, m.cr[r])
          BY <3>1, Zenon
        <5>3. \E j \in J : Covers(evs[j], c) /\ evs[j].param.reg = r
          BY <3>2, Zenon
        <5>5. \E i1 \in J : /\ Covers(evs[i1], c) /\ evs[i1].param.reg = r
                           /\ \A j \in J : Covers(evs[j], c) /\ evs[j].param.reg = r => j <= i1
          BY <3>2
        <5> HIDE DEF J, r
        <5>4. \E j \in J : LastMask(J, c, evs, r, m.cr[r]) = evs[j].param.mask
          BY <5>5, MaskOfOne
        <5> QED
          BY <5>1, <5>2, <5>4, Zenon
      <4>2. evs[1].param.mask = e.param.mask
        BY <1>2, <2>1, <2>3, <3>2, Zenon DEF NothingShared
      <4> QED
        BY <4>1, <4>2, Zenon
    <3>3. CASE ~(Covers(evs[1], c) /\ evs[1].param.reg = r)
      <4>1. LastMask({1}, c, evs, r, m.cr[r]) = m.cr[r] /\ i # 1
        BY <3>3 DEF LastMask
      <4> QED
        BY <2>1, <3>1, <4>1, Zenon
    <3> QED
      BY <3>2, <3>3, Zenon
  <2>4. CASE t # "cr"
    <3>1. n.cr = m.cr /\ i # 1
      BY <1>3, <1>8, <2>4 DEF Effect
    <3> QED
      BY <2>1, <3>1, Zenon
  <2> QED
    BY <2>3, <2>4, Zenon
<1> QED
  BY <1>5, <1>6, <1>7, <1>8, Zenon DEF Holds

\* Arming and disarming the process-switch detection.
LEMMA ProcessMonitorSpares ==
  ASSUME NEW s, NEW c, NEW b \in BOOLEAN, NEW k \in BOOLEAN, s.m \in Controls,
         NEW n, n = ProcessMonitor(s, c, b, k).m
  PROVE  Spared(s.m, n, c)
<1>1. n \in {s.m, On(s.m, "extint"), Off(s.m, "extint"), On(s.m, "cr3"), Off(s.m, "cr3")}
  BY Zenon DEF ProcessMonitor, DisableExternalInterruptExiting, DisableMovToCr3Exiting
<1> QED
  BY <1>1, ChangesSpare, Zenon

\* Arming and disarming the thread-switch detection.
LEMMA ThreadMonitorSpares ==
  ASSUME NEW s, NEW c \in Cores, NEW b \in BOOLEAN, NEW k \in BOOLEAN, CoreOK(s, c),
         b \/ DB \in Contested, NEW n, n = ThreadMonitor(s, c, b, k).m
  PROVE  Spared(s.m, n, c)
<1> DEFINE m == s.m
           u == IF k THEN [s.u EXCEPT !.threadByClock[c] = b] ELSE [s.u EXCEPT !.threadByDr[c] = b]
<1>1. /\ ThreadMonitor(s, c, b, k).u = u
      /\ ThreadMonitor(s, c, b, k).m =
           IF k
           THEN IF b THEN On(m, "extint") ELSE DisableExternalInterruptExiting(m, c, events, u, FALSE)
           ELSE IF b THEN On(SetExceptionBitmap(m, DB, c, events, u), "dr")
                ELSE UnsetExceptionBitmap(DisableMovDebugRegsExiting(m, c, events, u, FALSE),
                                          DB, c, events, u)
  BY Zenon DEF ThreadMonitor
<1>7. CoreOK(ThreadMonitor(s, c, b, k), c)
  BY ThreadMonitorOk, Zenon
<1>3. m \in Controls /\ DB \in Vectors
  BY DEF CoreOK, DB, Vectors
<1> HIDE DEF u, m
<1>2. u \in Users
  BY <1>1, <1>7, Zenon DEF CoreOK
<1>4. CASE k
  <2>1. n \in {m, On(m, "extint"), Off(m, "extint")}
    BY <1>1, <1>4, Zenon DEF DisableExternalInterruptExiting
  <2> QED
    BY <1>3, <2>1, ChangesSpare, Zenon DEF m
<1>5. CASE ~k /\ b
  <2> DEFINE o == SetExceptionBitmap(m, DB, c, events, u)
  <2>1. n = On(o, "dr")
    BY <1>1, <1>5, Zenon
  <2>2. Spared(m, o, c)
    BY <1>3, ChangesSpare, Zenon
  <2>3. o \in Controls
    BY <1>2, <1>3, SetException
  <2> HIDE DEF o
  <2>4. Spared(o, n, c)
    BY <2>1, <2>3, ChangesSpare, Zenon
  <2> QED
    BY <2>2, <2>4, SparedTwice, Zenon DEF m
<1>6. CASE ~k /\ ~b
  <2> DEFINE o == DisableMovDebugRegsExiting(m, c, events, u, FALSE)
  <2>1. n = UnsetExceptionBitmap(o, DB, c, events, u)
    BY <1>1, <1>6, Zenon
  <2>2. o \in {m, Off(m, "dr")} /\ Off(m, "dr") \in Controls
    BY <1>3, OnOff DEF DisableMovDebugRegsExiting, Exits
  <2> HIDE DEF o
  <2>3. Spared(m, o, c) /\ o \in Controls
    BY <1>3, <2>2, ChangesSpare, Zenon
  <2>4. Spared(o, n, c)
    BY <1>6, <2>1, <2>3, UnsetSpares, Zenon
  <2> QED
    BY <2>3, <2>4, SparedTwice, Zenon DEF m
<1> QED
  BY <1>4, <1>5, <1>6, Zenon

\* A halt and a continue of core c.
LEMMA HaltAndContinueSpare ==
  ASSUME IInv, NEW c \in Cores
  PROVE  /\ DB \in Contested => Spared(vmcs[c], PreHalt(c).m, c)
         /\ Spared(vmcs[c], PostContinue(c).m, c)
<1> DEFINE s0 == [m |-> vmcs[c], u |-> users]
           p == "process" \in initial[c]
           t == "thread" \in initial[c]
           k == byClock[c]
<1>1. vmcs[c] \in Controls /\ users \in Users /\ Keeps(vmcs[c], users, c) /\ k \in BOOLEAN
  BY Zenon DEF IInv, TypeOK
<1>2. CoreOK(s0, c) /\ s0.m = vmcs[c]
  BY <1>1, Zenon DEF CoreOK, OthersSame, Retains
<1>3. Spared(vmcs[c], vmcs[c], c)
  BY <1>1, ChangesSpare, Zenon
<1>4. ASSUME NEW b \in BOOLEAN, NEW s, s = IF p THEN ProcessMonitor(s0, c, b, k) ELSE s0
      PROVE  CoreOK(s, c) /\ Spared(vmcs[c], s.m, c)
  <2> HIDE DEF s0
  <2>1. CASE p
    <3>1. s = ProcessMonitor(s0, c, b, k)
      BY <1>4, <2>1, Zenon
    <3>2. CoreOK(s, c)
      BY <1>1, <1>2, <3>1, ProcessMonitorOk, Zenon
    <3>3. Spared(s0.m, s.m, c)
      BY <1>1, <1>2, <3>1, ProcessMonitorSpares, Zenon
    <3> QED
      BY <1>2, <3>2, <3>3, Zenon
  <2>2. CASE ~p
    BY <1>2, <1>3, <1>4, <2>2, Zenon
  <2> QED
    BY <2>1, <2>2, Zenon
<1>5. ASSUME NEW b \in BOOLEAN, NEW s, s = (IF p THEN ProcessMonitor(s0, c, b, k) ELSE s0),
             NEW k1 \in BOOLEAN, NEW r, r = (IF t THEN ThreadMonitor(s, c, b, k1) ELSE s),
             b \/ DB \in Contested
      PROVE  Spared(vmcs[c], r.m, c)
  <2>1. CoreOK(s, c) /\ Spared(vmcs[c], s.m, c)
    BY <1>4, <1>5, Zenon
  <2>2. CASE t
    <3>1. r = ThreadMonitor(s, c, b, k1)
      BY <1>5, <2>2, Zenon
    <3>2. Spared(s.m, r.m, c)
      BY <1>5, <2>1, <3>1, ThreadMonitorSpares, Zenon
    <3> QED
      BY <2>1, <3>2, SparedTwice, Zenon
  <2>3. CASE ~t
    BY <1>5, <2>1, <2>3, Zenon
  <2> QED
    BY <2>2, <2>3, Zenon
<1>6. ASSUME DB \in Contested
      PROVE  Spared(vmcs[c], PreHalt(c).m, c)
  <2> DEFINE s == IF p THEN ProcessMonitor(s0, c, FALSE, k) ELSE s0
             k1 == IF p THEN FALSE ELSE k
  <2>1. PreHalt(c) = IF t THEN ThreadMonitor(s, c, FALSE, k1) ELSE s
    BY Zenon DEF PreHalt
  <2>2. k1 \in BOOLEAN /\ s = IF p THEN ProcessMonitor(s0, c, FALSE, k) ELSE s0
    BY <1>1, Zenon
  <2> HIDE DEF s, k1, s0
  <2> QED
    BY <1>5, <1>6, <2>1, <2>2, Zenon
<1>7. Spared(vmcs[c], PostContinue(c).m, c)
  <2> DEFINE s == IF p THEN ProcessMonitor(s0, c, TRUE, k) ELSE s0
  <2>1. PostContinue(c) = IF t THEN ThreadMonitor(s, c, TRUE, k) ELSE s
    BY Zenon DEF PostContinue
  <2>2. s = IF p THEN ProcessMonitor(s0, c, TRUE, k) ELSE s0
    BY Zenon
  <2> HIDE DEF s, s0
  <2> QED
    BY <1>1, <1>5, <2>1, <2>2, Zenon
<1> QED
  BY <1>6, <1>7, Zenon

\* Every event that is not terminated has what it needs of the shared controls
\* on its cores, and its trigger.
SharedServed ==
  \A i \in DOMAIN events \ done :
    /\ \A c \in Cores : Covers(events[i], c) => Holds(vmcs[c], events[i])
    /\ events[i].type \in {"cpuid", "vmcall"} => events[i].type \in triggers

\* A user of the controls is there only where the instance has it.
Featured ==
  /\ users.kernel \/ halting => "kernel" \in Features
  /\ users.user \/ users.checkPf => "user" \in Features
  /\ users.hidden > 0 => "hook" \in Features

\* A step that leaves the events alone and spares each core's controls.
LEMMA SparedStep ==
  ASSUME NothingShared, IInv, SharedServed, UNCHANGED <<events, triggers, done>>,
         \A c \in Cores : Spared(vmcs[c], vmcs'[c], c)
  PROVE  SharedServed'
<1>1. ASSUME NEW i \in DOMAIN events \ done, NEW c \in Cores, Covers(events[i], c)
      PROVE  Holds(vmcs'[c], events[i])
  <2>1. events \in Seq(Event) /\ Holds(vmcs[c], events[i]) /\ Spared(vmcs[c], vmcs'[c], c)
    BY <1>1, Zenon DEF IInv, TypeOK, SharedServed
  <2> QED
    BY <1>1, <2>1, SparedHolds, Zenon
<1>2. \A i \in DOMAIN events \ done :
        events[i].type \in {"cpuid", "vmcall"} => events[i].type \in triggers'
  BY Zenon DEF SharedServed
<1> QED
  BY <1>1, <1>2, Zenon DEF SharedServed

\* Registering an event.
LEMMA RegisterServes ==
  ASSUME NothingShared, IInv, SharedServed, NEW e \in Event, RegisterEvent(e)
  PROVE  SharedServed'
<1> DEFINE evs == <<e>> \o events
<1>1. /\ events \in Seq(Event) /\ vmcs \in [Cores -> Controls] /\ done = {}
      /\ events' = evs /\ done' = {} /\ triggers' = triggers \cup ({e.type} \cap {"cpuid", "vmcall"})
      /\ vmcs' = [c \in Cores |-> Apply(vmcs[c], e.type, {1}, c, evs)]
  BY Zenon DEF IInv, TypeOK, RegisterEvent, Idle
<1>2. /\ evs \in Seq(Event) /\ 1 \in DOMAIN evs /\ evs[1] = e
      /\ \A i \in DOMAIN evs : i # 1 => i - 1 \in DOMAIN events /\ evs[i] = events[i - 1]
  BY <1>1
<1> HIDE DEF evs
<1>3. ASSUME NEW i \in DOMAIN evs, NEW c \in Cores, Covers(evs[i], c)
      PROVE  Holds(vmcs'[c], evs[i])
  <2>1. i = 1 \/ Holds(vmcs[c], evs[i])
    BY <1>1, <1>2, <1>3, Zenon DEF SharedServed
  <2>2. vmcs[c] \in Controls /\ vmcs'[c] = Apply(vmcs[c], evs[1].type, {1}, c, evs)
    BY <1>1, <1>2, Zenon
  <2> QED
    BY <1>2, <1>3, <2>1, <2>2, ApplyHolds, Zenon
<1>4. ASSUME NEW i \in DOMAIN evs, evs[i].type \in {"cpuid", "vmcall"}
      PROVE  evs[i].type \in triggers'
  <2>1. CASE i = 1
    BY <1>1, <1>2, <1>4, <2>1, Zenon
  <2>2. CASE i # 1
    BY <1>1, <1>2, <1>4, <2>2, Zenon DEF SharedServed
  <2> QED
    BY <2>1, <2>2, Zenon
<1> QED
  BY <1>1, <1>3, <1>4, Zenon DEF SharedServed

\* Removing event i from the list leaves the others, and no more.
LEMMA Removal ==
  ASSUME events \in Seq(Event), NEW i \in DOMAIN events
  PROVE  LET evs == SubSeq(events, 1, i - 1) \o SubSeq(events, i + 1, Len(events)) IN
         /\ \A k \in DOMAIN evs : \E j \in DOMAIN events \ {i} : evs[k] = events[j]
         /\ \A j \in DOMAIN events \ {i} : \E k \in DOMAIN evs : evs[k] = events[j]
         /\ Len(evs) = Len(events) - 1
<1> DEFINE a == SubSeq(events, 1, i - 1)
           b == SubSeq(events, i + 1, Len(events))
           evs == a \o b
<1>1. i \in 1..Len(events) /\ Len(events) \in Nat /\ DOMAIN events = 1..Len(events)
  OBVIOUS
<1>2. a \in Seq(Event) /\ Len(a) = i - 1 /\ \A k \in 1..(i - 1) : a[k] = events[k]
  BY <1>1
<1>3. /\ b \in Seq(Event) /\ Len(b) = Len(events) - i
      /\ \A k \in 1..(Len(events) - i) : b[k] = events[i + k]
  BY <1>1, SMTT(20)
<1> HIDE DEF a, b
<1>4. /\ evs \in Seq(Event) /\ Len(evs) = Len(a) + Len(b)
      /\ \A k \in 1..(Len(a) + Len(b)) : evs[k] = IF k <= Len(a) THEN a[k] ELSE b[k - Len(a)]
  BY <1>2, <1>3
<1> HIDE DEF evs
<1>5. DOMAIN evs = 1..(Len(events) - 1) /\ Len(evs) = Len(events) - 1
  <2>1. Len(evs) = Len(events) - 1
    BY <1>1, <1>2, <1>3, <1>4
  <2> QED
    BY <1>4, <2>1
<1>6. ASSUME NEW k \in 1..(i - 1)
      PROVE  k \in DOMAIN evs /\ evs[k] = events[k]
  <2>1. k \in 1..(Len(a) + Len(b)) /\ k <= Len(a) /\ k \in 1..(Len(events) - 1)
    BY <1>1, <1>2, <1>3
  <2> QED
    BY <1>2, <1>4, <1>5, <2>1, Zenon
<1>7. ASSUME NEW k \in i..(Len(events) - 1)
      PROVE  k \in DOMAIN evs /\ evs[k] = events[k + 1]
  <2>1. /\ k \in 1..(Len(a) + Len(b)) /\ ~(k <= Len(a)) /\ k \in 1..(Len(events) - 1)
        /\ k - Len(a) \in 1..(Len(events) - i) /\ i + (k - Len(a)) = k + 1
    BY <1>1, <1>2, <1>3
  <2>2. evs[k] = b[k - Len(a)] /\ b[k - Len(a)] = events[k + 1]
    BY <1>3, <1>4, <2>1, Zenon
  <2> QED
    BY <1>5, <2>1, <2>2, Zenon
<1>8. ASSUME NEW k \in DOMAIN evs
      PROVE  \E j \in DOMAIN events \ {i} : evs[k] = events[j]
  <2>1. CASE k \in 1..(i - 1)
    BY <1>1, <1>6, <2>1
  <2>2. CASE k \in i..(Len(events) - 1)
    <3>1. k + 1 \in DOMAIN events \ {i}
      BY <1>1, <2>2
    <3> QED
      BY <1>7, <2>2, <3>1, Zenon
  <2> QED
    BY <1>1, <1>5, <2>1, <2>2
<1>9. ASSUME NEW j \in DOMAIN events \ {i}
      PROVE  \E k \in DOMAIN evs : evs[k] = events[j]
  <2>1. CASE j \in 1..(i - 1)
    BY <1>6, <2>1, Zenon
  <2>2. CASE j > i
    <3>1. j - 1 \in i..(Len(events) - 1) /\ (j - 1) + 1 = j
      BY <1>1, <2>2
    <3> QED
      BY <1>7, <3>1, Zenon
  <2> QED
    BY <1>1, <2>1, <2>2
<1> QED
  BY <1>5, <1>8, <1>9, Zenon DEF a, b, evs

\* Terminating an event: the others keep their controls and triggers.
LEMMA TerminateServes ==
  ASSUME NothingShared, Ordered, IInv, SharedServed, NEW i \in DOMAIN events, DebuggerTerminateEvent(i),
         NEW j \in DOMAIN events \ (done \cup {i})
  PROVE  /\ \A c \in Cores : Covers(events[j], c) => Holds(vmcs'[c], events[j])
         /\ events[j].type \in {"cpuid", "vmcall"} => events[j].type \in triggers'
<1>1. /\ events \in Seq(Event) /\ users \in Users /\ vmcs \in [Cores -> Controls]
      /\ vmcs' = [c \in Cores |-> TerminateOn(vmcs[c], i, c)]
  BY Zenon DEF IInv, TypeOK, DebuggerTerminateEvent
<1>2. ASSUME NEW c \in Cores, Covers(events[j], c)
      PROVE  Holds(vmcs'[c], events[j])
  <2>1. /\ vmcs[c] \in Controls /\ vmcs'[c] = TerminateOn(vmcs[c], i, c) /\ Holds(vmcs[c], events[j])
        /\ j \in DOMAIN events \ {i}
    BY <1>1, <1>2, Zenon DEF SharedServed
  <2> QED
    BY <1>1, <1>2, <2>1, TerminateHolds, Zenon
<1>3. ASSUME events[j].type \in {"cpuid", "vmcall"}
      PROVE  events[j].type \in triggers'
  <2>1. events[j].type \in triggers
    BY <1>3, Zenon DEF SharedServed
  <2>2. events[j].type = events[i].type => OtherEvents(i) # {}
    BY Zenon DEF OtherEvents
  <2> QED
    BY <2>1, <2>2, Zenon DEF DebuggerTerminateEvent, TerminateVmcallOrCpuidEvent
<1> QED
  BY <1>2, <1>3, Zenon

\* Clearing one event, and one step of clearing them all.
LEMMA ClearServes ==
  ASSUME NothingShared, Ordered, IInv, SharedServed, NEW i \in DOMAIN events, ClearEvent(i) \/ TerminateNext(i)
  PROVE  SharedServed'
<1>1. CASE ClearEvent(i)
  <2> DEFINE evs == SubSeq(events, 1, i - 1) \o SubSeq(events, i + 1, Len(events))
  <2>1. /\ events \in Seq(Event) /\ done = {} /\ events' = evs /\ done' = {}
        /\ DebuggerTerminateEvent(i)
    BY <1>1, Zenon DEF IInv, TypeOK, ClearEvent, Idle
  <2>2. \A k \in DOMAIN evs : \E j \in DOMAIN events \ {i} : evs[k] = events[j]
    BY <2>1, Removal, Zenon
  <2> HIDE DEF evs
  <2>3. \A j \in DOMAIN events \ {i} :
          /\ \A c \in Cores : Covers(events[j], c) => Holds(vmcs'[c], events[j])
          /\ events[j].type \in {"cpuid", "vmcall"} => events[j].type \in triggers'
    BY <2>1, TerminateServes, Zenon
  <2>4. \A k \in DOMAIN evs :
          /\ \A c \in Cores : Covers(evs[k], c) => Holds(vmcs'[c], evs[k])
          /\ evs[k].type \in {"cpuid", "vmcall"} => evs[k].type \in triggers'
    BY <2>2, <2>3, Zenon
  <2> QED
    BY <2>1, <2>4, Zenon DEF SharedServed
<1>2. CASE TerminateNext(i)
  <2>1. events' = events /\ done' = done \cup {i} /\ DebuggerTerminateEvent(i)
    BY <1>2, Zenon DEF TerminateNext
  <2>2. \A j \in DOMAIN events \ (done \cup {i}) :
          /\ \A c \in Cores : Covers(events[j], c) => Holds(vmcs'[c], events[j])
          /\ events[j].type \in {"cpuid", "vmcall"} => events[j].type \in triggers'
    BY <2>1, TerminateServes, Zenon
  <2> QED
    BY <2>1, <2>2, Zenon DEF SharedServed
<1> QED
  BY <1>1, <1>2, Zenon

\* The users that are switched on and off from user mode.
LEMMA UsersServe ==
  ASSUME NothingShared, IInv, Featured, SharedServed,
         \/ KdInitializeKernelDebugger \/ KdUninitializeKernelDebugger
         \/ UdInitializeUserDebugger \/ UdUninitializeUserDebugger
         \/ TransparentHideDebugger \/ TransparentUnhideDebugger
         \/ (\E n \in {0, 1} : EptHook(n)) \/ EptUnHook
         \/ \E p \in Procs, b \in BOOLEAN : AttachingConfigureInterceptingThreads(p, b)
  PROVE  SharedServed'
<1>1. vmcs \in [Cores -> Controls] /\ users \in Users /\ BP \in Vectors /\ DB \in Vectors
  BY DEF IInv, TypeOK, BP, DB, Vectors
<1>2. UNCHANGED <<events, triggers, done>>
  BY Zenon DEF KdInitializeKernelDebugger, KdUninitializeKernelDebugger, UdInitializeUserDebugger,
    UdUninitializeUserDebugger, TransparentHideDebugger, TransparentUnhideDebugger, EptHook, EptUnHook,
    AttachingConfigureInterceptingThreads, Configure
<1>3. ASSUME NEW c \in Cores
      PROVE  Spared(vmcs[c], vmcs'[c], c)
  <2> DEFINE m == vmcs[c]
             n == vmcs'[c]
  <2>1. m \in Controls
    BY <1>1, Zenon
  <2>2. CASE KdInitializeKernelDebugger \/ UdInitializeUserDebugger
    <3> DEFINE o == SetExceptionBitmap(m, BP, c, events, users)
    <3>1. n = SetExceptionBitmap(o, DB, c, events, users)
      BY <2>2, Zenon DEF KdInitializeKernelDebugger, UdInitializeUserDebugger, Configure, EnableDbAndBp
    <3> HIDE DEF m, n
    <3>2. o \in Controls
      BY <1>1, <2>1, SetException
    <3>3. Spared(m, o, c)
      BY <2>1, ChangesSpare, Zenon
    <3> HIDE DEF o
    <3>4. Spared(o, n, c)
      BY <3>1, <3>2, ChangesSpare, Zenon
    <3> QED
      BY <3>3, <3>4, SparedTwice, Zenon DEF m, n
  <2>3. CASE KdUninitializeKernelDebugger
    <3> DEFINE u == [users EXCEPT !.kernel = FALSE]
               o == UnsetExceptionBitmap(m, BP, c, events, u)
    <3>1. n = UnsetExceptionBitmap(o, DB, c, events, u) /\ users.kernel
      BY <2>3, Zenon DEF KdUninitializeKernelDebugger, Configure, DisableDbAndBp
    <3>2. u \in Users
      BY <1>1, Zenon DEF Users
    <3>3. BP \in Contested /\ DB \in Contested
      BY <3>1, Zenon DEF Featured, Contested
    <3> HIDE DEF m, n, u
    <3>4. o \in Controls
      BY <1>1, <2>1, <3>2, UnsetException
    <3>5. Spared(m, o, c)
      BY <2>1, <3>3, UnsetSpares, Zenon
    <3> HIDE DEF o
    <3>6. Spared(o, n, c)
      BY <3>1, <3>3, <3>4, UnsetSpares, Zenon
    <3> QED
      BY <3>5, <3>6, SparedTwice, Zenon DEF m, n
  <2>4. CASE UdUninitializeUserDebugger
    <3>1. n = m
      BY <2>4, Zenon DEF UdUninitializeUserDebugger, Configure
    <3> QED
      BY <2>1, <3>1, ChangesSpare, Zenon
  <2>5. CASE TransparentHideDebugger \/ TransparentUnhideDebugger
    <3>1. n \in {m, On(m, "tsc"), Off(m, "tsc")}
      BY <2>5, Zenon DEF TransparentHideDebugger, TransparentUnhideDebugger, Configure, DisableRdtscExiting
    <3> QED
      BY <2>1, <3>1, ChangesSpare, Zenon
  <2>6. CASE \E k \in {0, 1} : EptHook(k)
    <3>1. n = SetExceptionBitmap(m, BP, c, events, users)
      BY <2>6, Zenon DEF EptHook, Configure
    <3> QED
      BY <2>1, <3>1, ChangesSpare, Zenon
  <2>7. CASE EptUnHook
    <3> DEFINE u == [users EXCEPT !.hidden = @ - 1]
    <3>1. n \in {m, UnsetExceptionBitmap(m, BP, c, events, u)} /\ users.hidden > 0
      BY <2>7, Zenon DEF EptUnHook, Configure
    <3>2. BP \in Contested
      BY <3>1, Zenon DEF Featured, Contested
    <3> HIDE DEF u
    <3> QED
      BY <2>1, <3>1, <3>2, ChangesSpare, UnsetSpares, Zenon
  <2>8. CASE \E p \in Procs, b \in BOOLEAN : AttachingConfigureInterceptingThreads(p, b)
    <3>1. n \in {m, On(m, "cr3"), Off(m, "cr3")}
      BY <2>8, Zenon DEF AttachingConfigureInterceptingThreads, Configure, DisableMovToCr3Exiting
    <3> QED
      BY <2>1, <3>1, ChangesSpare, Zenon
  <2> QED
    BY <2>2, <2>3, <2>4, <2>5, <2>6, <2>7, <2>8, Zenon
<1> QED
  BY <1>2, <1>3, SparedStep, Zenon

\* A step of one core in vmx-root.
LEMMA CoreServes ==
  ASSUME NothingShared, IInv, SharedServed, UNCHANGED <<events, triggers, done>>,
         NEW c \in Cores, NEW n, Spared(vmcs[c], n, c), vmcs' = [vmcs EXCEPT ![c] = n]
  PROVE  SharedServed'
<1>1. vmcs \in [Cores -> Controls]
  BY Zenon DEF IInv, TypeOK
<1>2. ASSUME NEW d \in Cores
      PROVE  Spared(vmcs[d], vmcs'[d], d)
  <2>1. CASE d = c
    BY <1>1, <2>1, Zenon
  <2>2. CASE d # c
    <3>1. vmcs'[d] = vmcs[d] /\ vmcs[d] \in Controls
      BY <1>1, <2>2, Zenon
    <3> QED
      BY <3>1, ChangesSpare, Zenon
  <2> QED
    BY <2>1, <2>2, Zenon
<1> QED
  BY <1>2, SparedStep, Zenon

\* The steps in vmx-root.
LEMMA RootServes ==
  ASSUME NothingShared, IInv, Featured, SharedServed,
         \/ \E c \in Cores, b \in BOOLEAN : AttachingHandleCr3Vmexits(c, b)
         \/ SwitchCore \/ ContinueSystem
         \/ \E c \in Cores : HaltCore(c) \/ ContinueCore(c) \/ GuaranteedStep(c)
  PROVE  SharedServed'
<1>1. vmcs \in [Cores -> Controls] /\ users \in Users
  BY Zenon DEF IInv, TypeOK
<1>2. ASSUME NEW c \in Cores, NEW b \in BOOLEAN, AttachingHandleCr3Vmexits(c, b)
      PROVE  SharedServed'
  <2> DEFINE n == IF b THEN SetExceptionBitmap(vmcs[c], PF, c, events, users)
                  ELSE UnsetExceptionBitmap(vmcs[c], PF, c, events, users)
  <2>1. UNCHANGED <<events, triggers, done>> /\ vmcs' = [vmcs EXCEPT ![c] = n] /\ users.checkPf
    BY <1>2, Zenon DEF AttachingHandleCr3Vmexits, SetCore
  <2>2. PF \in Contested /\ vmcs[c] \in Controls
    BY <1>1, <2>1, Zenon DEF Featured, Contested
  <2>3. Spared(vmcs[c], n, c)
    BY <2>2, ChangesSpare, UnsetSpares, Zenon
  <2> HIDE DEF n
  <2> QED
    BY <2>1, <2>3, CoreServes, Zenon
<1>3. CASE SwitchCore \/ ContinueSystem
  <2>1. /\ UNCHANGED <<events, triggers, done>>
        /\ vmcs' = [c \in Cores |-> IF c \in masked THEN Unmask(vmcs[c], c) ELSE vmcs[c]]
    BY <1>3, Zenon DEF SwitchCore, ContinueSystem
  <2>2. ASSUME NEW c \in Cores
        PROVE  Spared(vmcs[c], vmcs'[c], c)
    <3>1. vmcs[c] \in Controls /\ vmcs'[c] \in {vmcs[c], Off(vmcs[c], "extint")}
      BY <1>1, <2>1, Zenon DEF Unmask, DisableExternalInterruptExiting
    <3> QED
      BY <3>1, ChangesSpare, Zenon
  <2> QED
    BY <2>1, <2>2, SparedStep, Zenon
<1>4. ASSUME NEW c \in Cores, HaltCore(c)
      PROVE  SharedServed'
  <2>1. UNCHANGED <<events, triggers, done>> /\ vmcs' = [vmcs EXCEPT ![c] = PreHalt(c).m] /\ halting
    BY <1>4, Zenon DEF HaltCore, SetCore
  <2>2. DB \in Contested
    BY <2>1, Zenon DEF Featured, Contested
  <2>3. Spared(vmcs[c], PreHalt(c).m, c)
    BY <2>2, HaltAndContinueSpare, Zenon
  <2> QED
    BY <2>1, <2>3, CoreServes, Zenon
<1>5. ASSUME NEW c \in Cores, ContinueCore(c)
      PROVE  SharedServed'
  <2>1. UNCHANGED <<events, triggers, done>> /\ vmcs' = [vmcs EXCEPT ![c] = PostContinue(c).m]
    BY <1>5, Zenon DEF ContinueCore, SetCore
  <2>2. Spared(vmcs[c], PostContinue(c).m, c)
    BY HaltAndContinueSpare, Zenon
  <2> QED
    BY <2>1, <2>2, CoreServes, Zenon
<1>6. ASSUME NEW c \in Cores, GuaranteedStep(c)
      PROVE  SharedServed'
  <2> DEFINE o == PostContinue(c).m
             n == On(o, "extint")
  <2>1. UNCHANGED <<events, triggers, done>> /\ vmcs' = [vmcs EXCEPT ![c] = n]
    BY <1>6, Zenon DEF GuaranteedStep
  <2>2. Spared(vmcs[c], o, c)
    BY HaltAndContinueSpare, Zenon
  <2>3. o \in Controls
    <3>1. vmcs[c] \in Controls /\ Keeps(vmcs[c], users, c) /\ byClock \in [Cores -> BOOLEAN]
      BY Zenon DEF IInv, TypeOK
    <3> QED
      BY <1>1, <3>1, HaltAndContinueOk, Zenon DEF CoreOK
  <2> HIDE DEF o
  <2>4. Spared(o, n, c)
    BY <2>3, ChangesSpare, Zenon
  <2> HIDE DEF n
  <2>5. Spared(vmcs[c], n, c)
    BY <2>2, <2>4, SparedTwice, Zenon
  <2> QED
    BY <2>1, <2>5, CoreServes, Zenon
<1> QED
  BY <1>2, <1>3, <1>4, <1>5, <1>6, Zenon

\* The steps that change no control.
LEMMA FramesServe ==
  ASSUME NothingShared, IInv, SharedServed,
         \/ ClearAllEvents \/ RemoveAllEvents \/ HaltSystem
         \/ \E kind \in {"process", "thread"}, b \in BOOLEAN : RequestSwitch(kind, b)
         \/ UNCHANGED vars
  PROVE  SharedServed'
<1>1. CASE RemoveAllEvents
  <2>1. events' = <<>>
    BY <1>1, Zenon DEF RemoveAllEvents
  <2>2. DOMAIN events' = {}
    BY <2>1
  <2> QED
    BY <2>2, Zenon DEF SharedServed
<1>2. CASE \/ ClearAllEvents \/ HaltSystem \/ UNCHANGED vars
           \/ \E kind \in {"process", "thread"}, b \in BOOLEAN : RequestSwitch(kind, b)
  <2>1. UNCHANGED <<events, triggers, done, vmcs>>
    BY <1>2, Zenon DEF ClearAllEvents, HaltSystem, RequestSwitch, vars
  <2>2. ASSUME NEW c \in Cores
        PROVE  Spared(vmcs[c], vmcs'[c], c)
    <3>1. vmcs[c] \in Controls /\ vmcs'[c] = vmcs[c]
      BY <2>1, Zenon DEF IInv, TypeOK
    <3> QED
      BY <3>1, ChangesSpare, Zenon
  <2> QED
    BY <2>1, <2>2, SparedStep, Zenon
<1> QED
  BY <1>1, <1>2, Zenon

\* The switch detection of a core leaves the interception of threads alone.
LEMMA CheckPfSame ==
  ASSUME IInv, NEW c \in Cores
  PROVE  /\ CoreOK(PreHalt(c), c) /\ PreHalt(c).u.checkPf = users.checkPf
         /\ CoreOK(PostContinue(c), c) /\ PostContinue(c).u.checkPf = users.checkPf
<1> DEFINE s0 == [m |-> vmcs[c], u |-> users]
           p == "process" \in initial[c]
           t == "thread" \in initial[c]
           k == byClock[c]
<1>1. /\ vmcs[c] \in Controls /\ users \in Users /\ Keeps(vmcs[c], users, c) /\ k \in BOOLEAN
      /\ byClock \in [Cores -> BOOLEAN]
  BY Zenon DEF IInv, TypeOK
<1>2. CoreOK(s0, c) /\ s0.u = users
  BY <1>1, Zenon DEF CoreOK, OthersSame, Retains
<1>3. ASSUME NEW s, NEW b \in BOOLEAN, NEW l \in BOOLEAN, s.u \in Users
      PROVE  /\ ProcessMonitor(s, c, b, l).u.checkPf = s.u.checkPf
             /\ ThreadMonitor(s, c, b, l).u.checkPf = s.u.checkPf
  <2>1. ProcessMonitor(s, c, b, l).u.checkPf = s.u.checkPf
    BY <1>3, Zenon DEF ProcessMonitor, Users
  <2>2. ThreadMonitor(s, c, b, l).u.checkPf = s.u.checkPf
    BY <1>3, Zenon DEF ThreadMonitor, Users
  <2> QED
    BY <2>1, <2>2, Zenon
<1> HIDE DEF s0
<1>4. ASSUME NEW b \in BOOLEAN, NEW s, s = IF p THEN ProcessMonitor(s0, c, b, k) ELSE s0
      PROVE  s.u \in Users /\ s.u.checkPf = users.checkPf
  <2>1. CASE p
    BY <1>1, <1>2, <1>3, <1>4, <2>1, ProcessMonitorOk, Zenon DEF CoreOK
  <2>2. CASE ~p
    BY <1>1, <1>2, <1>4, <2>2, Zenon
  <2> QED
    BY <2>1, <2>2, Zenon
<1>5. PreHalt(c).u.checkPf = users.checkPf
  <2> DEFINE s == IF p THEN ProcessMonitor(s0, c, FALSE, k) ELSE s0
             k1 == IF p THEN FALSE ELSE k
  <2>1. PreHalt(c) = IF t THEN ThreadMonitor(s, c, FALSE, k1) ELSE s
    BY Zenon DEF PreHalt, s0
  <2>2. k1 \in BOOLEAN /\ s.u \in Users /\ s.u.checkPf = users.checkPf
    BY <1>1, <1>4, Zenon
  <2> HIDE DEF s, k1
  <2> QED
    BY <1>3, <2>1, <2>2, Zenon
<1>6. PostContinue(c).u.checkPf = users.checkPf
  <2> DEFINE s == IF p THEN ProcessMonitor(s0, c, TRUE, k) ELSE s0
  <2>1. PostContinue(c) = IF t THEN ThreadMonitor(s, c, TRUE, k) ELSE s
    BY Zenon DEF PostContinue, s0
  <2>2. s.u \in Users /\ s.u.checkPf = users.checkPf
    BY <1>4, Zenon
  <2> HIDE DEF s
  <2>3. ThreadMonitor(s, c, TRUE, k).u.checkPf = s.u.checkPf
    BY <1>1, <1>3, <2>2, Zenon
  <2> QED
    BY <2>1, <2>2, <2>3, Zenon
<1> QED
  BY <1>1, <1>5, <1>6, HaltAndContinueOk, Zenon

\* No user appears that the instance does not have.
LEMMA NextFeatured == IInv /\ Featured /\ [Next]_vars => Featured'
<1> SUFFICES ASSUME IInv, Featured, [Next]_vars PROVE Featured'
  OBVIOUS
<1>1. users \in Users
  BY Zenon DEF IInv, TypeOK
<1>2. CASE \/ \E e \in Event : RegisterEvent(e)
           \/ \E i \in DOMAIN events : ClearEvent(i) \/ TerminateNext(i)
           \/ ClearAllEvents \/ RemoveAllEvents \/ HaltSystem \/ UNCHANGED vars
           \/ \E kind \in {"process", "thread"}, b \in BOOLEAN : RequestSwitch(kind, b)
           \/ \E c \in Cores, b \in BOOLEAN : AttachingHandleCr3Vmexits(c, b)
           \/ SwitchCore \/ ContinueSystem
  <2>1. users' = users /\ (halting' = halting \/ ~halting' \/ users.kernel)
    <3>1. CASE \/ \E e \in Event : RegisterEvent(e)
               \/ \E i \in DOMAIN events : ClearEvent(i) \/ TerminateNext(i)
      BY <3>1, Zenon DEF RegisterEvent, ClearEvent, TerminateNext
    <3>2. CASE ClearAllEvents \/ RemoveAllEvents \/ UNCHANGED vars \/ SwitchCore
      BY <3>2, Zenon DEF ClearAllEvents, RemoveAllEvents, vars, SwitchCore
    <3>3. CASE \/ \E kind \in {"process", "thread"}, b \in BOOLEAN : RequestSwitch(kind, b)
               \/ \E c \in Cores, b \in BOOLEAN : AttachingHandleCr3Vmexits(c, b)
      BY <3>3, Zenon DEF RequestSwitch, AttachingHandleCr3Vmexits
    <3>4. CASE HaltSystem \/ ContinueSystem
      BY <3>4, Zenon DEF HaltSystem, ContinueSystem
    <3> QED
      BY <1>2, <3>1, <3>2, <3>3, <3>4, Zenon
  <2>2. halting \in BOOLEAN /\ (halting' => "kernel" \in Features)
    BY <2>1 DEF Featured, IInv, TypeOK
  <2> QED
    BY <2>1, <2>2, Zenon DEF Featured
<1>3. CASE KdInitializeKernelDebugger \/ KdUninitializeKernelDebugger
  <2>1. /\ \E b \in BOOLEAN : users' = [users EXCEPT !.kernel = b]
        /\ "kernel" \in Features \/ users.kernel
        /\ halting' = halting
    BY <1>3, Zenon DEF KdInitializeKernelDebugger, KdUninitializeKernelDebugger, Configure
  <2>2. users'.user = users.user /\ users'.checkPf = users.checkPf /\ users'.hidden = users.hidden
    BY <1>1, <2>1, Zenon DEF Users
  <2> QED
    BY <2>1, <2>2, Zenon DEF Featured
<1>4. CASE UdInitializeUserDebugger \/ UdUninitializeUserDebugger
  <2>1. /\ \E b \in BOOLEAN : users' = [users EXCEPT !.user = b]
        /\ "user" \in Features \/ users.user
        /\ halting' = halting
    BY <1>4, Zenon DEF UdInitializeUserDebugger, UdUninitializeUserDebugger, Configure
  <2>2. users'.kernel = users.kernel /\ users'.hidden = users.hidden
    BY <1>1, <2>1, Zenon DEF Users
  <2> QED
    BY <2>1, <2>2, Zenon DEF Featured
<1>5. CASE TransparentHideDebugger \/ TransparentUnhideDebugger
  <2>1. (\E b \in BOOLEAN : users' = [users EXCEPT !.transparent = b]) /\ halting' = halting
    BY <1>5, Zenon DEF TransparentHideDebugger, TransparentUnhideDebugger, Configure
  <2>2. /\ users'.kernel = users.kernel /\ users'.user = users.user /\ users'.checkPf = users.checkPf
        /\ users'.hidden = users.hidden
    BY <1>1, <2>1, Zenon DEF Users
  <2> QED
    BY <2>1, <2>2, Zenon DEF Featured
<1>6. CASE (\E n \in {0, 1} : EptHook(n)) \/ EptUnHook
  <2>1. /\ \E h : users' = [users EXCEPT !.hidden = h]
        /\ "hook" \in Features \/ users.hidden > 0
        /\ halting' = halting
    BY <1>6, Zenon DEF EptHook, EptUnHook, Configure
  <2>2. users'.kernel = users.kernel /\ users'.user = users.user /\ users'.checkPf = users.checkPf
    BY <1>1, <2>1, Zenon DEF Users
  <2> QED
    BY <2>1, <2>2, Zenon DEF Featured
<1>7. CASE \E p \in Procs, b \in BOOLEAN : AttachingConfigureInterceptingThreads(p, b)
  <2>1. /\ \E b \in BOOLEAN : users' = [users EXCEPT !.checkPf = b]
        /\ users.user
        /\ halting' = halting
    BY <1>7, Zenon DEF AttachingConfigureInterceptingThreads, Configure
  <2>2. users'.kernel = users.kernel /\ users'.hidden = users.hidden
    BY <1>1, <2>1, Zenon DEF Users
  <2> QED
    BY <2>1, <2>2, Zenon DEF Featured
<1>8. CASE \E c \in Cores : HaltCore(c) \/ ContinueCore(c) \/ GuaranteedStep(c)
  <2>1. PICK c \in Cores : /\ users' \in {PreHalt(c).u, PostContinue(c).u}
                           /\ halting' = halting
    BY <1>8, Zenon DEF HaltCore, ContinueCore, GuaranteedStep
  <2>2. /\ users'.kernel = users.kernel /\ users'.user = users.user /\ users'.checkPf = users.checkPf
        /\ users'.hidden = users.hidden
    BY <2>1, CheckPfSame, Zenon DEF CoreOK, OthersSame
  <2> QED
    BY <2>1, <2>2, Zenon DEF Featured
<1> QED
  BY <1>2, <1>3, <1>4, <1>5, <1>6, <1>7, <1>8, Zenon DEF Next

\* The list grows at its head, so a set of its indexes keeps its greatest one.
LEMMA NextOrdered == IInv /\ Ordered /\ [Next]_vars => Ordered'
<1> SUFFICES ASSUME IInv, Ordered, [Next]_vars PROVE Ordered'
  OBVIOUS
<1>1. events \in Seq(Event) /\ Len(events) \in Nat
  BY DEF IInv, TypeOK
<1>2. ASSUME 1..Len(events') \subseteq 1..Len(events)
      PROVE  Ordered'
  BY <1>2, Zenon DEF Ordered
<1>3. CASE \E e \in Event : RegisterEvent(e)
  <2>1. Len(events') = Len(events) + 1
    <3>1. PICK e \in Event : events' = <<e>> \o events
      BY <1>3, Zenon DEF RegisterEvent
    <3> QED
      BY <1>1, <3>1
  <2> SUFFICES ASSUME NEW S \in SUBSET (1..Len(events')), S # {}
               PROVE  \E i \in S : \A j \in S : j <= i
    BY Zenon DEF Ordered
  <2>2. CASE Len(events) + 1 \in S
    BY <1>1, <2>1, <2>2
  <2>3. CASE Len(events) + 1 \notin S
    <3>1. S \in SUBSET (1..Len(events))
      BY <1>1, <2>1, <2>3
    <3> QED
      BY <3>1, Zenon DEF Ordered
  <2> QED
    BY <2>2, <2>3, Zenon
<1>4. CASE \E i \in DOMAIN events : ClearEvent(i)
  <2>1. PICK i \in DOMAIN events : events' = SubSeq(events, 1, i - 1) \o SubSeq(events, i + 1, Len(events))
    BY <1>4, Zenon DEF ClearEvent
  <2>2. Len(events') = Len(events) - 1
    BY <1>1, <2>1, Removal, Zenon
  <2>3. 1..Len(events') \subseteq 1..Len(events)
    BY <1>1, <2>2
  <2> QED
    BY <1>2, <2>3, Zenon
<1>5. CASE RemoveAllEvents
  <2>1. events' = <<>>
    BY <1>5, Zenon DEF RemoveAllEvents
  <2>2. 1..Len(events') \subseteq 1..Len(events)
    BY <1>1, <2>1
  <2> QED
    BY <1>2, <2>2, Zenon
<1>6. CASE events' = events
  BY <1>2, <1>6, Zenon
<1>7. CASE \/ \E i \in DOMAIN events : TerminateNext(i)
           \/ ClearAllEvents \/ HaltSystem \/ UNCHANGED vars
           \/ \E kind \in {"process", "thread"}, b \in BOOLEAN : RequestSwitch(kind, b)
           \/ \E c \in Cores, b \in BOOLEAN : AttachingHandleCr3Vmexits(c, b)
           \/ SwitchCore \/ ContinueSystem
           \/ \E c \in Cores : HaltCore(c) \/ ContinueCore(c) \/ GuaranteedStep(c)
  BY <1>6, <1>7, Zenon DEF TerminateNext, ClearAllEvents, HaltSystem, vars, RequestSwitch,
     AttachingHandleCr3Vmexits, SwitchCore, ContinueSystem, HaltCore, ContinueCore, GuaranteedStep
<1>8. CASE \/ KdInitializeKernelDebugger \/ KdUninitializeKernelDebugger
           \/ UdInitializeUserDebugger \/ UdUninitializeUserDebugger
           \/ TransparentHideDebugger \/ TransparentUnhideDebugger
           \/ (\E n \in {0, 1} : EptHook(n)) \/ EptUnHook
           \/ \E p \in Procs, b \in BOOLEAN : AttachingConfigureInterceptingThreads(p, b)
  BY <1>6, <1>8, Zenon DEF Configure, KdInitializeKernelDebugger, KdUninitializeKernelDebugger,
     UdInitializeUserDebugger, UdUninitializeUserDebugger, TransparentHideDebugger,
     TransparentUnhideDebugger, EptHook, EptUnHook, AttachingConfigureInterceptingThreads
<1> QED
  BY <1>3, <1>4, <1>5, <1>7, <1>8, Zenon DEF Next

\* The invariant behind EventsIntercepted is inductive.
LEMMA NextServes ==
  ASSUME NothingShared
  PROVE  IInv /\ Ordered /\ Featured /\ SharedServed /\ [Next]_vars => SharedServed'
<1> SUFFICES ASSUME IInv, Ordered, Featured, SharedServed, [Next]_vars PROVE SharedServed'
  OBVIOUS
<1>1. CASE \E e \in Event : RegisterEvent(e)
  BY <1>1, RegisterServes, Zenon
<1>2. CASE \E i \in DOMAIN events : ClearEvent(i) \/ TerminateNext(i)
  BY <1>2, ClearServes, Zenon
<1>3. CASE \/ ClearAllEvents \/ RemoveAllEvents \/ HaltSystem
           \/ \E kind \in {"process", "thread"}, b \in BOOLEAN : RequestSwitch(kind, b)
           \/ UNCHANGED vars
  BY <1>3, FramesServe, Zenon
<1>4. CASE \/ KdInitializeKernelDebugger \/ KdUninitializeKernelDebugger
           \/ UdInitializeUserDebugger \/ UdUninitializeUserDebugger
           \/ TransparentHideDebugger \/ TransparentUnhideDebugger
           \/ (\E n \in {0, 1} : EptHook(n)) \/ EptUnHook
           \/ \E p \in Procs, b \in BOOLEAN : AttachingConfigureInterceptingThreads(p, b)
  BY <1>4, UsersServe, Zenon
<1>5. CASE \/ \E c \in Cores, b \in BOOLEAN : AttachingHandleCr3Vmexits(c, b)
           \/ SwitchCore \/ ContinueSystem
           \/ \E c \in Cores : HaltCore(c) \/ ContinueCore(c) \/ GuaranteedStep(c)
  BY <1>5, RootServes, Zenon
<1> QED
  BY <1>1, <1>2, <1>3, <1>4, <1>5, Zenon DEF Next

\* Every registered event that has not been terminated is intercepted on every
\* core it covers, whatever other events are cleared, one or all, and whatever
\* the other users of the controls do (Termination.c applies the remaining
\* events again, ProtectedHv.c keeps what is still needed), provided
\* NothingShared: the pairs of event types that share a bitmap or the EFER
\* hook, the masks of one control register and the contested vectors are what
\* the code does not keep apart.
THEOREM EventsStayIntercepted ==
  ASSUME NothingShared
  PROVE  Spec => []EventsIntercepted
<1> DEFINE SInv == IInv /\ Ordered /\ Featured /\ SharedServed
<1>1. Init => SInv
  <2> SUFFICES ASSUME Init PROVE SInv
    OBVIOUS
  <2>1. /\ events = <<>> /\ ~users.kernel /\ ~users.user /\ ~users.checkPf /\ ~halting
        /\ users.hidden = 0
    BY DEF Init
  <2>2. DOMAIN events = {} /\ 1..Len(events) = {} /\ ~(users.hidden > 0)
    BY <2>1
  <2> QED
    BY <2>1, <2>2, InitInv, Zenon DEF Ordered, Featured, SharedServed
<1>2. SInv /\ [Next]_vars => SInv'
  BY NextInv, NextOrdered, NextFeatured, NextServes, Zenon
<1>3. SInv => EventsIntercepted
  <2> SUFFICES ASSUME IInv, SharedServed PROVE EventsIntercepted
    BY Zenon
  <2>1. ASSUME NEW i \in DOMAIN events \ done, NEW c \in Cores, Covers(events[i], c)
        PROVE  Intercepts(vmcs[c], events[i])
    <3> DEFINE e == events[i]
    <3>1. e \in Event
      BY DEF IInv, TypeOK
    <3>2. e.type \in EventTypes
      BY <3>1, EventShape, TypesAssumption, Zenon
    <3>3. Has(vmcs[c], e) /\ Holds(vmcs[c], e) /\ (e.type \in {"cpuid", "vmcall"} => e.type \in triggers)
      BY <2>1, Zenon DEF IInv, Served, SharedServed
    <3> HIDE DEF e
    <3>4. Intercepts(vmcs[c], e)
      BY <3>2, <3>3 DEF Has, Holds, Intercepts, EventTypes, TypeOrder
    <3> QED
      BY <3>4, Zenon DEF e
  <2> QED
    BY <2>1, Zenon DEF EventsIntercepted
<1> QED
  BY <1>1, <1>2, <1>3, PTL DEF Spec

-----------------------------------------------------------------------------
(* No control outlives those who asked for it *)

\* An event of evs that covers core c asks for the one-bit control x.
EventWants(evs, c, x) == \E i \in DOMAIN evs : Covers(evs[i], c) /\ x \in Serves(evs[i].type)

\* One of the users u asks for it.
UserWants(u, c, x) ==
  \/ x = "tsc" /\ u.transparent
  \/ x = "dr" /\ u.threadByDr[c]
  \/ x = "extint" /\ (u.threadByClock[c] \/ u.processByClock[c])
  \/ x = "cr3" /\ (u.processByCr3[c] \/ u.checkPf)

\* Someone asks for every one-bit control in X; k tells whether the core is
\* being stepped with its interrupts masked.
ExitsWanted(X, evs, u, k, c) ==
  \A x \in X : EventWants(evs, c, x) \/ UserWants(u, c, x) \/ (x = "extint" /\ k)

\* Someone asks for every exception in E, where no exception event is left.
ExcWanted(E, evs, u, c) ==
  (\A i \in DOMAIN evs : evs[i].type # "exception") =>
    \A v \in E : \/ v = UD /\ \E i \in DOMAIN evs : evs[i].type \in {"syscall", "sysret"}
                 \/ v \in {BP, DB} /\ u.kernel
                 \/ v = DB /\ u.threadByDr[c]

\* An event asks for every port and every control register of m.
BitsWanted(m, evs, c) ==
  /\ \A p \in m.io : \E i \in DOMAIN evs :
       /\ Covers(evs[i], c) /\ evs[i].type \in {"in", "out"}
       /\ p \in PortsOf(evs[i].param)
  /\ \A r \in CrRegs : m.cr[r] # {} => \E i \in DOMAIN evs :
       Covers(evs[i], c) /\ evs[i].type = "cr" /\ evs[i].param.reg = r

\* Nothing in m is without someone who asks for it.
Clean(m, evs, u, k, c) ==
  ExitsWanted(m.exits, evs, u, k, c) /\ ExcWanted(m.exc, evs, u, c) /\ BitsWanted(m, evs, c)

\* Neither the user debugger nor hidden breakpoints are among the users.
Plain(u) == ~u.user /\ ~u.checkPf /\ u.hidden = 0

\* What the integrity check keeps is asked for.
LEMMA NeededIsWanted ==
  ASSUME NEW c, NEW evs, NEW u, Plain(u), NEW passOver
  PROVE  ExcWanted(StillNeeded(c, evs, u, passOver), evs, u, c)
<1> SUFFICES ASSUME \A i \in DOMAIN evs : evs[i].type # "exception",
                    NEW v \in StillNeeded(c, evs, u, passOver)
             PROVE  \/ v = UD /\ \E i \in DOMAIN evs : evs[i].type \in {"syscall", "sysret"}
                    \/ v \in {BP, DB} /\ u.kernel
                    \/ v = DB /\ u.threadByDr[c]
  BY Zenon DEF ExcWanted
<1>1. DebuggerExceptionEventBitmapMask(evs, c) = {}
  <2>1. DebuggerEventListCountByCore(evs, "exception", c) = {}
    BY Zenon DEF DebuggerEventListCountByCore
  <2> QED
    BY <2>1 DEF DebuggerExceptionEventBitmapMask
<1>2. \/ v = UD /\ \/ DebuggerEventListCountByCore(evs, "syscall", c) # {}
                   \/ DebuggerEventListCountByCore(evs, "sysret", c) # {}
      \/ v \in {BP, DB} /\ u.kernel
      \/ v = DB /\ u.threadByDr[c]
  BY <1>1, Zenon DEF StillNeeded, Plain
<1> QED
  BY <1>2, Zenon DEF DebuggerEventListCountByCore

\* Two sets of exceptions.
LEMMA ExcUnion ==
  ASSUME NEW E, NEW F, NEW evs, NEW u, NEW c, ExcWanted(E, evs, u, c), ExcWanted(F, evs, u, c)
  PROVE  ExcWanted(E \cup F, evs, u, c)
  BY Zenon DEF ExcWanted

\* Exceptions the users u ask for, v ask for too.
LEMMA ExcMore ==
  ASSUME NEW c, NEW evs, NEW E, NEW u, NEW v, ExcWanted(E, evs, u, c),
         u.kernel => v.kernel, u.threadByDr[c] => v.threadByDr[c]
  PROVE  ExcWanted(E, evs, v, c)
  BY Zenon DEF ExcWanted

\* A write to the exception bitmap that goes through the check, for users u
\* that are about to be v.
LEMMA ChangeMore ==
  ASSUME NEW m \in Controls, NEW c, NEW evs, NEW u, NEW v, NEW k, Plain(u), NEW mask, NEW passOver,
         u.kernel => v.kernel, u.threadByDr[c] => v.threadByDr[c],
         ExitsWanted(m.exits, evs, v, k, c), BitsWanted(m, evs, c), ExcWanted(mask, evs, v, c),
         NEW n, n = ChangeExceptionBitmapWithIntegrityCheck(m, mask, c, evs, u, passOver)
  PROVE  Clean(n, evs, v, k, c)
<1> DEFINE S == StillNeeded(c, evs, u, passOver)
<1>1. OnlyExc(m, n, mask \cup S)
  BY ChangeEffect
<1>2. ExcWanted(S, evs, u, c)
  BY NeededIsWanted, Zenon
<1> HIDE DEF S
<1>3. ExcWanted(S, evs, v, c)
  BY <1>2, ExcMore, Zenon
<1>4. ExcWanted(mask \cup S, evs, v, c)
  BY <1>3, ExcUnion, Zenon
<1> QED
  BY <1>1, <1>4, Zenon DEF Clean, OnlyExc, BitsWanted

\* The same for the users as they are.
LEMMA ChangeClean ==
  ASSUME NEW m \in Controls, NEW c, NEW evs, NEW u, NEW k, Plain(u), NEW mask, NEW passOver,
         ExitsWanted(m.exits, evs, u, k, c), BitsWanted(m, evs, c), ExcWanted(mask, evs, u, c),
         NEW n, n = ChangeExceptionBitmapWithIntegrityCheck(m, mask, c, evs, u, passOver)
  PROVE  Clean(n, evs, u, k, c)
  BY ChangeMore, Zenon

\* The users v ask for what the users u ask for, but for x.
Keep(u, v, c, x) == \A y : y # x /\ UserWants(u, c, y) => UserWants(v, c, y)

\* n is m with control x turned off; or turned on, or left, as someone asks for it.
Turned(m, n, x, evs, v, l, c) ==
  \/ n = Off(m, x)
  \/ /\ n \in {m, On(m, x)}
     /\ EventWants(evs, c, x) \/ UserWants(v, c, x) \/ (x = "extint" /\ l)

\* All of n but the exceptions, which are m's, is asked for.
CleanExits(m, n, evs, u, k, c) ==
  ExitsWanted(n.exits, evs, u, k, c) /\ BitsWanted(n, evs, c) /\ n.exc = m.exc

\* A change of one one-bit control: turned off, or asked for.
LEMMA SwitchExits ==
  ASSUME NEW m \in Controls, NEW c, NEW evs, NEW u, NEW v, NEW k, NEW l, NEW x,
         ExitsWanted(m.exits, evs, u, k, c), BitsWanted(m, evs, c),
         Keep(u, v, c, x), x # "extint" => (k => l),
         NEW n, Turned(m, n, x, evs, v, l, c)
  PROVE  CleanExits(m, n, evs, v, l, c)
<1>1. OnlyExits(m, On(m, x), m.exits \cup {x}) /\ OnlyExits(m, Off(m, x), m.exits \ {x})
  BY SwitchEffect
<1>2. n.io = m.io /\ n.cr = m.cr /\ n.exc = m.exc
  BY <1>1, Zenon DEF OnlyExits, Turned
<1>3. BitsWanted(n, evs, c)
  BY <1>2, Zenon DEF BitsWanted
<1>4. ASSUME NEW y \in n.exits
      PROVE  EventWants(evs, c, y) \/ UserWants(v, c, y) \/ (y = "extint" /\ l)
  <2>1. CASE y = x
    <3>1. n # Off(m, x)
      BY <1>1, <1>4, <2>1, Zenon DEF OnlyExits
    <3> QED
      BY <2>1, <3>1, Zenon DEF Turned
  <2>2. CASE y # x
    <3>1. y \in m.exits
      BY <1>1, <1>4, <2>2, Zenon DEF OnlyExits, Turned
    <3>2. EventWants(evs, c, y) \/ UserWants(u, c, y) \/ (y = "extint" /\ k)
      BY <3>1, Zenon DEF ExitsWanted
    <3> QED
      BY <2>2, <3>2, Zenon DEF Keep
  <2> QED
    BY <2>1, <2>2, Zenon
<1> QED
  BY <1>2, <1>3, <1>4, Zenon DEF ExitsWanted, CleanExits

\* The same where no user of exceptions goes.
LEMMA SwitchClean ==
  ASSUME NEW m \in Controls, NEW c, NEW evs, NEW u, NEW v, NEW k, NEW l, NEW x,
         Clean(m, evs, u, k, c),
         Keep(u, v, c, x), x # "extint" => (k => l),
         u.kernel => v.kernel, u.threadByDr[c] => v.threadByDr[c],
         NEW n, Turned(m, n, x, evs, v, l, c)
  PROVE  Clean(n, evs, v, l, c)
<1>1. ExitsWanted(m.exits, evs, u, k, c) /\ BitsWanted(m, evs, c) /\ ExcWanted(m.exc, evs, u, c)
  BY Zenon DEF Clean
<1>2. CleanExits(m, n, evs, v, l, c)
  BY <1>1, SwitchExits, Zenon
<1>3. ExcWanted(m.exc, evs, v, c)
  BY <1>1, ExcMore, Zenon
<1> QED
  BY <1>2, <1>3, Zenon DEF Clean, CleanExits

\* Turning external interrupt exiting, rdtsc exiting and mov-dr exiting off
\* is refused only where someone asks for them on this core.
LEMMA DisableRefused ==
  ASSUME NEW m, NEW c, NEW evs, NEW u
  PROVE  /\ LET n == DisableExternalInterruptExiting(m, c, evs, u, FALSE) IN
            n = Off(m, "extint") \/ (n = m /\ (EventWants(evs, c, "extint") \/ UserWants(u, c, "extint")))
         /\ LET n == DisableRdtscExiting(m, c, evs, u, FALSE) IN
            n = Off(m, "tsc") \/ (n = m /\ (EventWants(evs, c, "tsc") \/ UserWants(u, c, "tsc")))
         /\ LET n == DisableMovDebugRegsExiting(m, c, evs, u, FALSE) IN
            n = Off(m, "dr") \/ (n = m /\ (EventWants(evs, c, "dr") \/ UserWants(u, c, "dr")))
<1>1. ASSUME NEW x \in {"extint", "tsc", "dr"}, DebuggerEventListCountByCore(evs, x, c) # {}
      PROVE  EventWants(evs, c, x)
  <2>1. PICK i \in DOMAIN evs : evs[i].type = x /\ Covers(evs[i], c)
    BY <1>1, Zenon DEF DebuggerEventListCountByCore
  <2>2. x \in Serves(x)
    BY Zenon DEF Serves
  <2> QED
    BY <2>1, <2>2, Zenon DEF EventWants
<1>2. LET n == DisableExternalInterruptExiting(m, c, evs, u, FALSE) IN
      n = Off(m, "extint") \/ (n = m /\ (EventWants(evs, c, "extint") \/ UserWants(u, c, "extint")))
  BY <1>1, Zenon DEF DisableExternalInterruptExiting, UserWants
<1>3. LET n == DisableRdtscExiting(m, c, evs, u, FALSE) IN
      n = Off(m, "tsc") \/ (n = m /\ (EventWants(evs, c, "tsc") \/ UserWants(u, c, "tsc")))
  BY <1>1, Zenon DEF DisableRdtscExiting, UserWants
<1>4. LET n == DisableMovDebugRegsExiting(m, c, evs, u, FALSE) IN
      n = Off(m, "dr") \/ (n = m /\ (EventWants(evs, c, "dr") \/ UserWants(u, c, "dr")))
  BY <1>1, Zenon DEF DisableMovDebugRegsExiting, UserWants
<1> QED
  BY <1>2, <1>3, <1>4, Zenon

\* Arming and disarming the process-switch detection.
LEMMA ProcessMonitorClean ==
  ASSUME NEW s, NEW c \in Cores, NEW b \in BOOLEAN, NEW k \in BOOLEAN, NEW g, CoreOK(s, c),
         Plain(s.u), Clean(s.m, events, s.u, g, c), c = 0, NEW r, r = ProcessMonitor(s, c, b, k)
  PROVE  Plain(r.u) /\ Clean(r.m, events, r.u, g, c)
<1> DEFINE m == s.m
           v == s.u
           u == r.u
           n == r.m
           pcr == IF k THEN v.processByCr3[c] ELSE b
           pck == IF k THEN b ELSE v.processByClock[c]
<1>1. m \in Controls /\ v \in Users
  BY Zenon DEF CoreOK
<1>2. CoreOK(r, c) /\ Moved(v, u, c, v.threadByDr[c], v.threadByClock[c], pcr, pck)
  BY ProcessMonitorFlags, Zenon
<1>3. u.kernel = v.kernel /\ u.user = v.user /\ u.hidden = v.hidden
  BY <1>2, Zenon DEF CoreOK, OthersSame
<1>4. n = IF b THEN On(m, IF k THEN "extint" ELSE "cr3")
          ELSE IF k THEN DisableExternalInterruptExiting(m, c, events, u, FALSE)
          ELSE DisableMovToCr3Exiting(m, u)
  BY DEF ProcessMonitor
<1> HIDE DEF m, v, u, n, pcr, pck
<1>5. /\ u.threadByDr[c] = v.threadByDr[c] /\ u.threadByClock[c] = v.threadByClock[c]
      /\ u.processByCr3[c] = pcr /\ u.processByClock[c] = pck
      /\ u.transparent = v.transparent /\ u.checkPf = v.checkPf
  BY <1>1, <1>2, MovedAt
<1>6. Plain(u) /\ Clean(m, events, v, g, c)
  BY <1>3, <1>5, Zenon DEF Plain, m, v
<1>7. CASE k
  <2>1. pcr = v.processByCr3[c] /\ pck = b
    BY <1>7, Zenon DEF pcr, pck
  <2>2. Keep(v, u, c, "extint")
    BY <1>5, <2>1, Zenon DEF UserWants, Keep
  <2>3. Turned(m, n, "extint", events, u, g, c)
    <3>1. CASE b
      <4>1. n = On(m, "extint") /\ UserWants(u, c, "extint")
        BY <1>4, <1>5, <1>7, <2>1, <3>1 DEF UserWants
      <4> QED
        BY <4>1, Zenon DEF Turned
    <3>2. CASE ~b
      <4>1. n = DisableExternalInterruptExiting(m, c, events, u, FALSE)
        BY <1>4, <1>7, <3>2, Zenon
      <4> QED
        BY <4>1, DisableRefused, Zenon DEF Turned
    <3> QED
      BY <3>1, <3>2, Zenon
  <2>4. Clean(n, events, u, g, c)
    BY <1>1, <1>3, <1>5, <1>6, <2>2, <2>3, SwitchClean, Zenon
  <2> QED
    BY <1>6, <2>4, Zenon DEF u, n
<1>8. CASE ~k
  <2>1. pcr = b /\ pck = v.processByClock[c]
    BY <1>8, Zenon DEF pcr, pck
  <2>2. Keep(v, u, c, "cr3")
    BY <1>5, <2>1, Zenon DEF UserWants, Keep
  <2>3. Turned(m, n, "cr3", events, u, g, c)
    <3>1. CASE b
      <4>1. n = On(m, "cr3") /\ UserWants(u, c, "cr3")
        BY <1>4, <1>5, <1>8, <2>1, <3>1 DEF UserWants
      <4> QED
        BY <4>1, Zenon DEF Turned
    <3>2. CASE ~b
      <4>1. n = DisableMovToCr3Exiting(m, u)
        BY <1>4, <1>8, <3>2, Zenon
      <4> QED
        BY <4>1, Zenon DEF DisableMovToCr3Exiting, UserWants, Turned
    <3> QED
      BY <3>1, <3>2, Zenon
  <2>4. Clean(n, events, u, g, c)
    BY <1>1, <1>3, <1>5, <1>6, <2>2, <2>3, SwitchClean, Zenon
  <2> QED
    BY <1>6, <2>4, Zenon DEF u, n
<1> QED
  BY <1>7, <1>8, Zenon

\* Arming and disarming the thread-switch detection.
LEMMA ThreadMonitorClean ==
  ASSUME NEW s, NEW c \in Cores, NEW b \in BOOLEAN, NEW k \in BOOLEAN, NEW g, CoreOK(s, c),
         Plain(s.u), Clean(s.m, events, s.u, g, c), NEW r, r = ThreadMonitor(s, c, b, k)
  PROVE  Plain(r.u) /\ Clean(r.m, events, r.u, g, c)
<1> DEFINE m == s.m
           v == s.u
           u == r.u
           n == r.m
           tdr == IF k THEN v.threadByDr[c] ELSE b
           tck == IF k THEN b ELSE v.threadByClock[c]
<1>1. m \in Controls /\ v \in Users
  BY Zenon DEF CoreOK
<1>2. CoreOK(r, c) /\ Moved(v, u, c, tdr, tck, v.processByCr3[c], v.processByClock[c])
  BY ThreadMonitorFlags, Zenon
<1>3. u.kernel = v.kernel /\ u.user = v.user /\ u.hidden = v.hidden /\ u \in Users
  BY <1>2, Zenon DEF CoreOK, OthersSame
<1>4. n = IF k
          THEN IF b THEN On(m, "extint") ELSE DisableExternalInterruptExiting(m, c, events, u, FALSE)
          ELSE IF b THEN On(SetExceptionBitmap(m, DB, c, events, u), "dr")
               ELSE UnsetExceptionBitmap(DisableMovDebugRegsExiting(m, c, events, u, FALSE),
                                         DB, c, events, u)
  BY DEF ThreadMonitor
<1> HIDE DEF m, v, u, n, tdr, tck
<1>5. /\ u.threadByDr[c] = tdr /\ u.threadByClock[c] = tck
      /\ u.processByCr3[c] = v.processByCr3[c] /\ u.processByClock[c] = v.processByClock[c]
      /\ u.transparent = v.transparent /\ u.checkPf = v.checkPf
  BY <1>1, <1>2, MovedAt
<1>6. Plain(u) /\ Clean(m, events, v, g, c)
  BY <1>3, <1>5, Zenon DEF Plain, m, v
<1>7. CASE k
  <2>1. tdr = v.threadByDr[c] /\ tck = b
    BY <1>7, Zenon DEF tdr, tck
  <2>2. Keep(v, u, c, "extint")
    BY <1>5, <2>1, Zenon DEF UserWants, Keep
  <2>3. Turned(m, n, "extint", events, u, g, c)
    <3>1. CASE b
      <4>1. n = On(m, "extint") /\ UserWants(u, c, "extint")
        BY <1>4, <1>5, <1>7, <2>1, <3>1 DEF UserWants
      <4> QED
        BY <4>1, Zenon DEF Turned
    <3>2. CASE ~b
      <4>1. n = DisableExternalInterruptExiting(m, c, events, u, FALSE)
        BY <1>4, <1>7, <3>2, Zenon
      <4> QED
        BY <4>1, DisableRefused, Zenon DEF Turned
    <3> QED
      BY <3>1, <3>2, Zenon
  <2>4. Clean(n, events, u, g, c)
    BY <1>1, <1>3, <1>5, <1>6, <2>1, <2>2, <2>3, SwitchClean, Zenon
  <2> QED
    BY <1>6, <2>4, Zenon DEF u, n
<1>8. CASE ~k
  <2>1. tdr = b /\ tck = v.threadByClock[c]
    BY <1>8, Zenon DEF tdr, tck
  <2>2. Keep(v, u, c, "dr")
    BY <1>5, <2>1, Zenon DEF UserWants, Keep
  <2>3. VectorsOf(DB) = {DB}
    BY AllAssumption DEF VectorsOf, DB
  <2>4. ExitsWanted(m.exits, events, v, g, c) /\ BitsWanted(m, events, c) /\ ExcWanted(m.exc, events, v, c)
    BY <1>6, Zenon DEF Clean
  <2>5. CASE b
    <3> DEFINE o == SetExceptionBitmap(m, DB, c, events, u)
               w == m.exc \cup VectorsOf(DB)
    <3>1. n = On(o, "dr") /\ o = ChangeExceptionBitmapWithIntegrityCheck(m, w, c, events, u, {})
      BY <1>4, <1>8, <2>5, Zenon DEF SetExceptionBitmap
    <3>2. ExcWanted(w, events, u, c)
      BY <1>3, <1>5, <2>1, <2>3, <2>4, <2>5, Zenon DEF ExcWanted
    <3>3. ExitsWanted(m.exits, events, u, g, c)
      <4>1. \A y : UserWants(v, c, y) => UserWants(u, c, y)
        BY <1>5, <2>1, <2>5, Zenon DEF UserWants
      <4> QED
        BY <2>4, <4>1, Zenon DEF ExitsWanted
    <3>4. DB \in Vectors
      BY DEF DB, Vectors
    <3>5. o \in Controls
      BY <1>1, <1>3, <3>4, SetException
    <3> HIDE DEF o, w
    <3>6. Clean(o, events, u, g, c)
      BY <1>1, <1>6, <2>4, <3>1, <3>2, <3>3, ChangeClean, Zenon
    <3>7. UserWants(u, c, "dr")
      BY <1>5, <2>1, <2>5, Zenon DEF UserWants
    <3>8. Keep(u, u, c, "dr") /\ Turned(o, n, "dr", events, u, g, c)
      BY <3>1, <3>7, Zenon DEF Keep, Turned
    <3>9. Clean(n, events, u, g, c)
      BY <3>5, <3>6, <3>8, SwitchClean, Zenon
    <3> QED
      BY <1>6, <3>9, Zenon DEF u, n
  <2>6. CASE ~b
    <3> DEFINE o == DisableMovDebugRegsExiting(m, c, events, u, FALSE)
               w == o.exc \ VectorsOf(DB)
    <3>1. n = ChangeExceptionBitmapWithIntegrityCheck(o, w, c, events, u, {})
      BY <1>4, <1>8, <2>6, Zenon DEF UnsetExceptionBitmap
    <3>2. o = Off(m, "dr") \/ (o = m /\ (EventWants(events, c, "dr") \/ UserWants(u, c, "dr")))
      BY DisableRefused, Zenon
    <3>3. o \in Controls
      <4>1. Off(m, "dr") \in Controls
        BY <1>1, OnOff DEF Exits
      <4> QED
        BY <1>1, <3>2, <4>1, Zenon
    <3> HIDE DEF o
    <3>4. ExitsWanted(o.exits, events, u, g, c) /\ BitsWanted(o, events, c) /\ o.exc = m.exc
      <4>1. Turned(m, o, "dr", events, u, g, c)
        BY <3>2, Zenon DEF Turned
      <4>2. CleanExits(m, o, events, u, g, c)
        BY <1>1, <2>2, <2>4, <4>1, SwitchExits, Zenon
      <4> QED
        BY <4>2, Zenon DEF CleanExits
    <3>5. ExcWanted(w, events, u, c)
      BY <1>3, <2>3, <2>4, <3>4, Zenon DEF ExcWanted
    <3> HIDE DEF w
    <3>6. Clean(n, events, u, g, c)
      BY <1>6, <3>1, <3>3, <3>4, <3>5, ChangeClean, Zenon
    <3> QED
      BY <1>6, <3>6, Zenon DEF u, n
  <2> QED
    BY <2>5, <2>6, Zenon
<1> QED
  BY <1>7, <1>8, Zenon

\* Applying the new event, first of evs.
LEMMA ApplyClean ==
  ASSUME NEW evs \in Seq(Event), 1 \in DOMAIN evs, NEW c \in Cores, NEW m \in Controls, NEW k,
         \A j \in DOMAIN events : \E i \in DOMAIN evs : evs[i] = events[j],
         Plain(users), Clean(m, events, users, k, c),
         NEW n, n = Apply(m, evs[1].type, {1}, c, evs)
  PROVE  Clean(n, evs, users, k, c)
<1> DEFINE e == evs[1]
           t == e.type
           P == ParamsOn({1}, c, evs)
<1>1. e \in Event
  OBVIOUS
<1>2. t \in EventTypes
  BY <1>1, EventShape, TypesAssumption, Zenon
<1>3. Effect(m, n, t, {1}, c, evs)
  BY <1>2, ApplyEffect, Zenon
<1>14. /\ PortsEffect(m, n, t, P) /\ MasksEffect(m, n, t, {1}, c, evs)
       /\ ExceptionsEffect(m, n, t, P, StillNeeded(c, evs, users, {}))
  BY <1>3, EffectParts, Zenon
<1>4. (P # {} => Covers(e, c)) /\ \A p \in P : p = e.param
  BY Zenon DEF ParamsOn
<1>5. ExitsWanted(m.exits, events, users, k, c) /\ BitsWanted(m, events, c) /\ ExcWanted(m.exc, events, users, c)
  BY Zenon DEF Clean
<1> HIDE DEF P
<1>6. ASSUME NEW x \in n.exits
      PROVE  EventWants(evs, c, x) \/ UserWants(users, c, x) \/ (x = "extint" /\ k)
  <2>1. CASE x \in m.exits
    BY <1>5, <2>1, Zenon DEF ExitsWanted, EventWants
  <2>2. CASE x \notin m.exits
    <3>1. P # {} /\ x \in Serves(t)
      BY <1>3, <1>6, <2>2, Zenon DEF Effect, P
    <3> QED
      BY <1>4, <3>1, Zenon DEF EventWants
  <2> QED
    BY <2>1, <2>2, Zenon
<1>7. ASSUME NEW p \in n.io
      PROVE  \E i \in DOMAIN evs : /\ Covers(evs[i], c) /\ evs[i].type \in {"in", "out"}
                                   /\ p \in PortsOf(evs[i].param)
  <2>1. CASE p \in m.io
    <3>1. PICK j \in DOMAIN events : /\ Covers(events[j], c) /\ events[j].type \in {"in", "out"}
                                     /\ p \in PortsOf(events[j].param)
      BY <1>5, <2>1, Zenon DEF BitsWanted
    <3>2. PICK i \in DOMAIN evs : evs[i] = events[j]
      BY Zenon
    <3> QED
      BY <3>1, <3>2, Zenon
  <2>2. CASE p \notin m.io
    <3>1. t \in {"in", "out"} /\ \E q \in P : p \in PortsOf(q)
      BY <1>7, <1>14, <2>2, Zenon DEF PortsEffect
    <3>2. Covers(e, c) /\ p \in PortsOf(e.param)
      BY <1>4, <3>1, Zenon
    <3> QED
      BY <3>1, <3>2, Zenon
  <2> QED
    BY <2>1, <2>2, Zenon
<1>8. ASSUME NEW r \in CrRegs, n.cr[r] # {}
      PROVE  \E i \in DOMAIN evs : Covers(evs[i], c) /\ evs[i].type = "cr" /\ evs[i].param.reg = r
  <2>1. CASE t = "cr" /\ Covers(e, c) /\ e.param.reg = r
    BY <2>1, Zenon
  <2>2. CASE ~(t = "cr" /\ Covers(e, c) /\ e.param.reg = r)
    <3>1. n.cr[r] = m.cr[r]
      <4>1. CASE t = "cr"
        <5>1. n.cr[r] = LastMask({1}, c, evs, r, m.cr[r])
          BY <1>14, <4>1, Zenon DEF MasksEffect
        <5>2. LastMask({1}, c, evs, r, m.cr[r]) = m.cr[r]
          BY <2>2, <4>1 DEF LastMask
        <5> QED
          BY <5>1, <5>2, Zenon
      <4>2. CASE t # "cr"
        BY <1>3, <4>2, Zenon DEF Effect
      <4> QED
        BY <4>1, <4>2, Zenon
    <3>2. PICK j \in DOMAIN events : Covers(events[j], c) /\ events[j].type = "cr" /\ events[j].param.reg = r
      BY <1>5, <1>8, <3>1, Zenon DEF BitsWanted
    <3>3. PICK i \in DOMAIN evs : evs[i] = events[j]
      BY Zenon
    <3> QED
      BY <3>2, <3>3, Zenon
  <2> QED
    BY <2>1, <2>2, Zenon
<1>9. ASSUME \A i \in DOMAIN evs : evs[i].type # "exception", NEW v \in n.exc
      PROVE  \/ v = UD /\ \E i \in DOMAIN evs : evs[i].type \in {"syscall", "sysret"}
             \/ v \in {BP, DB} /\ users.kernel
             \/ v = DB /\ users.threadByDr[c]
  <2> DEFINE S == StillNeeded(c, evs, users, {})
  <2>1. ExcWanted(S, evs, users, c)
    BY NeededIsWanted, Zenon
  <2>2. v \in m.exc \/ (v = UD /\ t \in {"syscall", "sysret"}) \/ v \in S
    BY <1>3, <1>9, Zenon DEF Effect, P
  <2> HIDE DEF S
  <2>3. CASE v \in m.exc
    <3>1. \A j \in DOMAIN events : events[j].type # "exception"
      BY <1>9, Zenon
    <3>2. \/ v = UD /\ \E j \in DOMAIN events : events[j].type \in {"syscall", "sysret"}
          \/ v \in {BP, DB} /\ users.kernel
          \/ v = DB /\ users.threadByDr[c]
      BY <1>5, <2>3, <3>1, Zenon DEF ExcWanted
    <3> QED
      BY <3>2, Zenon
  <2>4. CASE v = UD /\ t \in {"syscall", "sysret"}
    BY <2>4, Zenon
  <2>5. CASE v \in S
    BY <1>9, <2>1, <2>5, Zenon DEF ExcWanted
  <2> QED
    BY <2>2, <2>3, <2>4, <2>5, Zenon
<1>10. ExitsWanted(n.exits, evs, users, k, c)
  BY <1>6, Zenon DEF ExitsWanted
<1>11. BitsWanted(n, evs, c)
  BY <1>7, <1>8, Zenon DEF BitsWanted
<1>12. ExcWanted(n.exc, evs, users, c)
  BY <1>9, Zenon DEF ExcWanted
<1> QED
  BY <1>10, <1>11, <1>12, Zenon DEF Clean

\* The switch detection of core c is as on core 0.
AsCore0(c) ==
  /\ users.threadByDr[c] <=> users.threadByDr[0]
  /\ users.threadByClock[c] = users.threadByClock[0]
  /\ users.processByClock[c] <=> users.processByClock[0]

\* Terminating event i, which evs is without.
LEMMA TerminateClean ==
  ASSUME events \in Seq(Event), users \in Users, NEW i \in DOMAIN events, NEW c \in Cores,
         NEW m \in Controls, NEW k, AsCore0(c), Plain(users), Clean(m, events, users, k, c),
         NEW evs, \A j \in DOMAIN events \ {i} : \E h \in DOMAIN evs : evs[h] = events[j],
         NEW n, n = TerminateOn(m, i, c)
  PROVE  Clean(n, evs, users, k, c)
<1> DEFINE t == events[i].type
           J == OtherEvents(i)
           P == ParamsOn(J, c, events)
<1>1. PICK o : ResetTo(m, o, i, c) /\ Effect(o, n, t, J, c, events)
  BY TerminateEffect
<1>14. /\ PortsEffect(o, n, t, P) /\ MasksEffect(o, n, t, J, c, events)
       /\ ExceptionsEffect(o, n, t, P, StillNeeded(c, events, users, {}))
  BY <1>1, EffectParts, Zenon
<1>2. J \in SUBSET (DOMAIN events \ {i}) /\ \A j \in J : events[j].type = t
  BY Zenon DEF OtherEvents
<1>3. \A p \in P : \E j \in J : Covers(events[j], c) /\ events[j].param = p
  BY Zenon DEF ParamsOn
<1>4. ExitsWanted(m.exits, events, users, k, c) /\ BitsWanted(m, events, c) /\ ExcWanted(m.exc, events, users, c)
  BY Zenon DEF Clean
<1> HIDE DEF J, P
<1>6. ASSUME NEW x \in n.exits
      PROVE  EventWants(evs, c, x) \/ UserWants(users, c, x) \/ (x = "extint" /\ k)
  <2>1. CASE P # {} /\ x \in Serves(t)
    <3>1. PICK j \in J : Covers(events[j], c)
      BY <1>3, <2>1, Zenon
    <3>2. PICK h \in DOMAIN evs : evs[h] = events[j]
      BY <1>2, Zenon
    <3> QED
      BY <1>2, <2>1, <3>1, <3>2, Zenon DEF EventWants
  <2>2. CASE ~(P # {} /\ x \in Serves(t))
    <3>1. x \in o.exits
      BY <1>1, <1>6, <2>2, Zenon DEF Effect, P
    <3>2. x \in m.exits /\ (x \in Serves(t) => x \in StillUsed)
      BY <1>1, <3>1, Zenon DEF ResetTo
    <3>3. CASE UserWants(users, c, x) \/ (x = "extint" /\ k)
      BY <3>3, Zenon
    <3>4. CASE EventWants(events, c, x)
      <4>1. PICK j \in DOMAIN events : Covers(events[j], c) /\ x \in Serves(events[j].type)
        BY <3>4, Zenon DEF EventWants
      <4>2. CASE j = i
        <5>1. x \in StillUsed
          BY <3>2, <4>1, <4>2, Zenon
        <5>2. UserWants(users, c, x)
          BY <5>1, Zenon DEF StillUsed, UserWants, AsCore0
        <5> QED
          BY <5>2, Zenon
      <4>3. CASE j # i
        <5>1. PICK h \in DOMAIN evs : evs[h] = events[j]
          BY <4>3, Zenon
        <5> QED
          BY <4>1, <5>1, Zenon DEF EventWants
      <4> QED
        BY <4>2, <4>3, Zenon
    <3> QED
      BY <1>4, <3>2, <3>3, <3>4, Zenon DEF ExitsWanted
  <2> QED
    BY <2>1, <2>2, Zenon
<1>7. ASSUME NEW p \in n.io
      PROVE  \E h \in DOMAIN evs : /\ Covers(evs[h], c) /\ evs[h].type \in {"in", "out"}
                                   /\ p \in PortsOf(evs[h].param)
  <2>1. \E j \in DOMAIN events \ {i} : /\ Covers(events[j], c) /\ events[j].type \in {"in", "out"}
                                       /\ p \in PortsOf(events[j].param)
    <3>1. CASE t \in {"in", "out"}
      <4>1. \E q \in P : p \in PortsOf(q)
        <5>1. o.io = {}
          BY <1>1, <3>1, Zenon DEF ResetTo
        <5> QED
          BY <1>7, <1>14, <3>1, <5>1, Zenon DEF PortsEffect
      <4> QED
        BY <1>2, <1>3, <3>1, <4>1, Zenon
    <3>2. CASE t \notin {"in", "out"}
      <4>1. p \in m.io
        <5>1. o.io = m.io /\ n.io = o.io
          BY <1>1, <1>14, <3>2, Zenon DEF ResetTo, PortsEffect
        <5> QED
          BY <1>7, <5>1, Zenon
      <4> QED
        BY <1>4, <3>2, <4>1, Zenon DEF BitsWanted
    <3> QED
      BY <3>1, <3>2, Zenon
  <2> QED
    BY <2>1, Zenon
<1>8. ASSUME NEW r \in CrRegs, n.cr[r] # {}
      PROVE  \E h \in DOMAIN evs : Covers(evs[h], c) /\ evs[h].type = "cr" /\ evs[h].param.reg = r
  <2>1. \E j \in DOMAIN events \ {i} : Covers(events[j], c) /\ events[j].type = "cr" /\ events[j].param.reg = r
    <3>1. CASE t = "cr"
      <4>1. n.cr[r] = LastMask(J, c, events, r, o.cr[r])
        BY <1>14, <3>1, Zenon DEF MasksEffect
      <4>2. CASE \E j \in J : Covers(events[j], c) /\ events[j].param.reg = r
        BY <1>2, <3>1, <4>2, Zenon
      <4>3. CASE ~\E j \in J : Covers(events[j], c) /\ events[j].param.reg = r
        <5>1. LastMask(J, c, events, r, o.cr[r]) = o.cr[r]
          <6>1. {j \in J : Covers(events[j], c) /\ events[j].param.reg = r} = {}
            BY <4>3, Zenon
          <6> QED
            BY <6>1, Zenon DEF LastMask
        <5>2. o.cr = [m.cr EXCEPT ![events[i].param.reg] = {}] /\ m.cr \in [CrRegs -> Masks \cup {{}}]
          BY <1>1, <3>1, Zenon DEF ResetTo, Controls
        <5>3. r # events[i].param.reg /\ m.cr[r] # {}
          BY <1>8, <4>1, <5>1, <5>2, Zenon
        <5> QED
          BY <1>4, <5>3, Zenon DEF BitsWanted
      <4> QED
        BY <4>2, <4>3, Zenon
    <3>2. CASE t # "cr"
      <4>1. n.cr = m.cr
        BY <1>1, <1>14, <3>2, Zenon DEF ResetTo, MasksEffect
      <4> QED
        BY <1>4, <1>8, <3>2, <4>1, Zenon DEF BitsWanted
    <3> QED
      BY <3>1, <3>2, Zenon
  <2> QED
    BY <2>1, Zenon
<1>9. ASSUME \A h \in DOMAIN evs : evs[h].type # "exception", NEW v \in n.exc
      PROVE  \/ v = UD /\ \E h \in DOMAIN evs : evs[h].type \in {"syscall", "sysret"}
             \/ v \in {BP, DB} /\ users.kernel
             \/ v = DB /\ users.threadByDr[c]
  <2>1. \A j \in DOMAIN events \ {i} : events[j].type # "exception"
    BY <1>9, Zenon
  <2> SUFFICES \/ v = UD /\ \E j \in DOMAIN events \ {i} : events[j].type \in {"syscall", "sysret"}
               \/ v \in {BP, DB} /\ users.kernel
               \/ v = DB /\ users.threadByDr[c]
    BY Zenon
  <2>2. CASE t = "exception"
    <3>1. P = {}
      BY <1>2, <1>3, <2>1, <2>2, Zenon
    <3>2. v \in StillNeeded(c, events, users, {"exception"})
      <4>1. n.exc = o.exc /\ o.exc = StillNeeded(c, events, users, {"exception"})
        BY <1>1, <1>14, <2>2, <3>1, Zenon DEF ResetTo, ExceptionsEffect
      <4> QED
        BY <1>9, <4>1, Zenon
    <3>3. v \in {UD} => \E j \in DOMAIN events : events[j].type \in {"syscall", "sysret"}
      <4>1. UD \notin {BP, DB, PF}
        BY DEF UD, BP, DB, PF
      <4>2. (IF "exception" \in {"exception"} THEN {} ELSE DebuggerExceptionEventBitmapMask(events, c)) = {}
        OBVIOUS
      <4>3. v = UD => \/ DebuggerEventListCountByCore(events, "syscall", c) # {}
                      \/ DebuggerEventListCountByCore(events, "sysret", c) # {}
        BY <3>2, <4>1, <4>2, Zenon DEF StillNeeded
      <4> QED
        BY <4>3, Zenon DEF DebuggerEventListCountByCore
    <3>4. v = UD \/ (v \in {BP, DB} /\ users.kernel) \/ (v = DB /\ users.threadByDr[c])
      <4>1. \/ v \in {UD} \/ (v \in {BP, DB} /\ (users.kernel \/ users.user))
            \/ (v \in {DB} /\ users.threadByDr[c]) \/ users.checkPf \/ users.hidden # 0
        <5>1. (IF "exception" \in {"exception"} THEN {} ELSE DebuggerExceptionEventBitmapMask(events, c)) = {}
          OBVIOUS
        <5> QED
          BY <3>2, <5>1, Zenon DEF StillNeeded
      <4> QED
        BY <4>1, Zenon DEF Plain
    <3> QED
      BY <2>2, <3>3, <3>4, Zenon
  <2>3. CASE t # "exception"
    <3>1. \A j \in DOMAIN events : events[j].type # "exception"
      BY <2>1, <2>3, Zenon
    <3>2. ASSUME v \in m.exc
          PROVE  \/ v = UD /\ \E j \in DOMAIN events : events[j].type \in {"syscall", "sysret"}
                 \/ v \in {BP, DB} /\ users.kernel
                 \/ v = DB /\ users.threadByDr[c]
      BY <1>4, <3>1, <3>2, Zenon DEF ExcWanted
    <3>3. CASE t \in {"syscall", "sysret"}
      <4> DEFINE S == StillNeeded(c, events, users, {"ud"})
                 U == StillNeeded(c, events, users, {})
      <4>1. v \in m.exc \ {UD} \/ v \in S \/ (P # {} /\ v \in {UD} \cup U)
        <5>1. o.exc = (m.exc \ {UD}) \cup S
          BY <1>1, <3>3, Zenon DEF ResetTo
        <5>2. n.exc = o.exc \/ (P # {} /\ n.exc = o.exc \cup ({UD} \cup U))
          BY <1>14, <3>3, Zenon DEF ExceptionsEffect
        <5> HIDE DEF S, U
        <5> QED
          BY <1>9, <5>1, <5>2, Zenon
      <4>2. ExcWanted(S, events, users, c) /\ ExcWanted(U, events, users, c)
        BY NeededIsWanted, Zenon
      <4>3. UD \notin S
        <5>1. DebuggerExceptionEventBitmapMask(events, c) = {}
          BY <3>1, Zenon DEF DebuggerExceptionEventBitmapMask, DebuggerEventListCountByCore
        <5> QED
          <6>1. UD \notin {BP, DB, PF}
            BY DEF UD, BP, DB, PF
          <6> QED
            BY <5>1, <6>1, Zenon DEF StillNeeded
      <4> HIDE DEF S, U
      <4>4. CASE P # {}
        <5>1. \E j \in DOMAIN events \ {i} : events[j].type \in {"syscall", "sysret"}
          BY <1>2, <1>3, <3>3, <4>4, Zenon
        <5>2. CASE v = UD
          BY <5>1, <5>2, Zenon
        <5>3. CASE v # UD
          BY <3>1, <3>2, <4>1, <4>2, <5>3, Zenon DEF ExcWanted
        <5> QED
          BY <5>2, <5>3, Zenon
      <4>5. CASE P = {}
        <5>1. v # UD /\ (v \in m.exc \/ v \in S)
          BY <4>1, <4>3, <4>5, Zenon
        <5> QED
          BY <3>1, <3>2, <4>2, <5>1, Zenon DEF ExcWanted
      <4> QED
        BY <4>4, <4>5, Zenon
    <3>4. CASE t \notin {"syscall", "sysret"}
      <4>1. v \in m.exc
        <5>1. n.exc = o.exc /\ o.exc = m.exc
          BY <1>1, <1>14, <2>3, <3>4, Zenon DEF ResetTo, ExceptionsEffect
        <5> QED
          BY <1>9, <5>1, Zenon
      <4> QED
        BY <3>2, <3>4, <4>1, Zenon
    <3> QED
      BY <3>3, <3>4, Zenon
  <2> QED
    BY <2>2, <2>3, Zenon
<1>10. ExitsWanted(n.exits, evs, users, k, c)
  BY <1>6, Zenon DEF ExitsWanted
<1>11. BitsWanted(n, evs, c)
  BY <1>7, <1>8, Zenon DEF BitsWanted
<1>12. ExcWanted(n.exc, evs, users, c)
  BY <1>9, Zenon DEF ExcWanted
<1> QED
  BY <1>10, <1>11, <1>12, Zenon DEF Clean

\* The hypothesis of NoStaleControls: neither the user debugger (which leaves
\* the exception bitmap as it is when it goes) nor hidden breakpoints (which
\* leave #BP exiting when a hook fails) nor the command that clears all events
\* (which applies events again that are about to be removed), and one core
\* only where process switches are detected or a core is stepped alone (the
\* routines look at core 0).
CleansUp ==
  /\ Features \cap {"user", "hook", "clearall"} = {}
  /\ Features \cap {"process", "step"} # {} => Cores = {0}

\* What is requested is what the instance has.
Asked == (\A c \in Cores : initial[c] \subseteq Features) /\ (clearing => "clearall" \in Features)

\* Every trigger has its event.
Triggered == \A t \in triggers : \E i \in DOMAIN events : events[i].type = t

\* The invariant behind NoStaleControls.
NInv ==
  /\ \A c \in Cores : Clean(vmcs[c], events, users, c \in masked, c)
  /\ Triggered
  /\ Asked

\* The users the hypothesis leaves.
LEMMA PlainUsers ==
  ASSUME CleansUp, IInv, Featured
  PROVE  Plain(users)
<1>1. users.hidden \in Nat /\ ~(users.hidden > 0) /\ ~users.user /\ ~users.checkPf
  BY Zenon DEF CleansUp, IInv, TypeOK, Featured, Users
<1>2. users.hidden = 0
  BY <1>1
<1> QED
  BY <1>1, <1>2, Zenon DEF Plain

\* A core that is being stepped, or not yet, is as clean as one that is not.
LEMMA CleanMasked ==
  ASSUME NEW m, NEW evs, NEW u, NEW k, NEW l, NEW c, Clean(m, evs, u, k, c), k => l
  PROVE  Clean(m, evs, u, l, c)
  BY Zenon DEF Clean, ExitsWanted

\* Registering an event.
LEMMA RegisterClean ==
  ASSUME CleansUp, IInv, Featured, NInv, NEW e \in Event, RegisterEvent(e)
  PROVE  NInv'
<1> DEFINE evs == <<e>> \o events
<1>1. /\ events \in Seq(Event) /\ vmcs \in [Cores -> Controls]
      /\ events' = evs /\ triggers' = triggers \cup ({e.type} \cap {"cpuid", "vmcall"})
      /\ vmcs' = [c \in Cores |-> Apply(vmcs[c], e.type, {1}, c, evs)]
      /\ UNCHANGED <<users, masked, initial, clearing>>
  BY Zenon DEF IInv, TypeOK, RegisterEvent
<1>2. /\ evs \in Seq(Event) /\ 1 \in DOMAIN evs /\ evs[1] = e
      /\ \A j \in DOMAIN events : j + 1 \in DOMAIN evs /\ evs[j + 1] = events[j]
  BY <1>1
<1>3. \A j \in DOMAIN events : \E i \in DOMAIN evs : evs[i] = events[j]
  BY <1>2, Zenon
<1>4. Plain(users)
  BY PlainUsers
<1> HIDE DEF evs
<1>5. ASSUME NEW c \in Cores
      PROVE  Clean(vmcs'[c], evs, users, c \in masked, c)
  <2>1. /\ vmcs[c] \in Controls /\ vmcs'[c] = Apply(vmcs[c], evs[1].type, {1}, c, evs)
        /\ Clean(vmcs[c], events, users, c \in masked, c)
    BY <1>1, <1>2, Zenon DEF NInv
  <2> QED
    BY <1>2, <1>3, <1>4, <2>1, ApplyClean, Zenon
<1>6. ASSUME NEW t \in triggers'
      PROVE  \E i \in DOMAIN evs : evs[i].type = t
  <2>1. CASE t = e.type
    BY <1>2, <2>1, Zenon
  <2>2. CASE t \in triggers
    BY <1>3, <2>2, Zenon DEF NInv, Triggered
  <2> QED
    BY <1>1, <1>6, <2>1, <2>2, Zenon
<1> QED
  BY <1>1, <1>5, <1>6, Zenon DEF NInv, Triggered, Asked

\* Clearing one event.
LEMMA ClearClean ==
  ASSUME CleansUp, IInv, RInv, Featured, NInv, NEW i \in DOMAIN events, ClearEvent(i)
  PROVE  NInv'
<1> DEFINE evs == SubSeq(events, 1, i - 1) \o SubSeq(events, i + 1, Len(events))
<1>1. /\ events \in Seq(Event) /\ vmcs \in [Cores -> Controls] /\ users \in Users
      /\ events' = evs /\ triggers' = TerminateVmcallOrCpuidEvent(i)
      /\ vmcs' = [c \in Cores |-> TerminateOn(vmcs[c], i, c)]
      /\ UNCHANGED <<users, masked, initial, clearing>> /\ Running
  BY Zenon DEF IInv, TypeOK, ClearEvent, DebuggerTerminateEvent, Idle
<1>2. \A j \in DOMAIN events \ {i} : \E k \in DOMAIN evs : evs[k] = events[j]
  BY <1>1, Removal, Zenon
<1>3. Plain(users)
  BY PlainUsers
<1> HIDE DEF evs
<1>4. ASSUME NEW c \in Cores
      PROVE  Clean(vmcs'[c], evs, users, c \in masked, c)
  <2>1. /\ vmcs[c] \in Controls /\ vmcs'[c] = TerminateOn(vmcs[c], i, c)
        /\ Clean(vmcs[c], events, users, c \in masked, c)
    BY <1>1, Zenon DEF NInv
  <2>2. AsCore0(c)
    BY <1>1, LikeCore0, Zenon DEF AsCore0
  <2> QED
    BY <1>1, <1>2, <1>3, <2>1, <2>2, TerminateClean, Zenon
<1>5. ASSUME NEW t \in triggers'
      PROVE  \E k \in DOMAIN evs : evs[k].type = t
  <2>1. t \in triggers /\ (t = events[i].type => OtherEvents(i) # {})
    BY <1>1, <1>5, Zenon DEF TerminateVmcallOrCpuidEvent
  <2>2. \E j \in DOMAIN events \ {i} : events[j].type = t
    BY <2>1, Zenon DEF NInv, Triggered, OtherEvents
  <2> QED
    BY <1>2, <2>2, Zenon
<1> QED
  BY <1>1, <1>4, <1>5, Zenon DEF NInv, Triggered, Asked

\* A halt and a continue of core c.
LEMMA HaltAndContinueClean ==
  ASSUME IInv, NEW c \in Cores, "process" \in initial[c] => c = 0, NEW g,
         Plain(users), Clean(vmcs[c], events, users, g, c)
  PROVE  /\ Plain(PreHalt(c).u) /\ Clean(PreHalt(c).m, events, PreHalt(c).u, g, c)
         /\ Plain(PostContinue(c).u) /\ Clean(PostContinue(c).m, events, PostContinue(c).u, g, c)
<1> DEFINE s0 == [m |-> vmcs[c], u |-> users]
           p == "process" \in initial[c]
           t == "thread" \in initial[c]
           k == byClock[c]
           Fine(s) == CoreOK(s, c) /\ Plain(s.u) /\ Clean(s.m, events, s.u, g, c)
<1>1. vmcs[c] \in Controls /\ users \in Users /\ Keeps(vmcs[c], users, c) /\ k \in BOOLEAN
  BY Zenon DEF IInv, TypeOK
<1>2. Fine(s0)
  BY <1>1, Zenon DEF CoreOK, OthersSame, Retains
<1> HIDE DEF s0
<1>3. ASSUME NEW b \in BOOLEAN, NEW s, s = IF p THEN ProcessMonitor(s0, c, b, k) ELSE s0
      PROVE  Fine(s)
  <2>1. CASE p
    <3>1. s = ProcessMonitor(s0, c, b, k) /\ c = 0
      BY <1>3, <2>1, Zenon
    <3>2. CoreOK(s, c)
      BY <1>1, <1>2, <3>1, ProcessMonitorOk, Zenon
    <3>3. Plain(s.u) /\ Clean(s.m, events, s.u, g, c)
      BY <1>1, <1>2, <3>1, ProcessMonitorClean, Zenon
    <3> QED
      BY <3>2, <3>3, Zenon
  <2>2. CASE ~p
    BY <1>2, <1>3, <2>2, Zenon
  <2> QED
    BY <2>1, <2>2, Zenon
<1>4. ASSUME NEW b \in BOOLEAN, NEW s, Fine(s), NEW l \in BOOLEAN, NEW r,
             r = IF t THEN ThreadMonitor(s, c, b, l) ELSE s
      PROVE  Plain(r.u) /\ Clean(r.m, events, r.u, g, c)
  <2>1. CASE t
    <3>1. r = ThreadMonitor(s, c, b, l)
      BY <1>4, <2>1, Zenon
    <3> QED
      BY <1>4, <3>1, ThreadMonitorClean, Zenon
  <2>2. CASE ~t
    BY <1>4, <2>2, Zenon
  <2> QED
    BY <2>1, <2>2, Zenon
<1> HIDE DEF Fine
<1>5. Plain(PreHalt(c).u) /\ Clean(PreHalt(c).m, events, PreHalt(c).u, g, c)
  <2> DEFINE s == IF p THEN ProcessMonitor(s0, c, FALSE, k) ELSE s0
             k1 == IF p THEN FALSE ELSE k
  <2>1. PreHalt(c) = IF t THEN ThreadMonitor(s, c, FALSE, k1) ELSE s
    BY Zenon DEF PreHalt, s0
  <2>2. k1 \in BOOLEAN /\ Fine(s)
    BY <1>1, <1>3, Zenon
  <2> HIDE DEF s, k1
  <2> QED
    BY <1>4, <2>1, <2>2, Zenon
<1>6. Plain(PostContinue(c).u) /\ Clean(PostContinue(c).m, events, PostContinue(c).u, g, c)
  <2> DEFINE s == IF p THEN ProcessMonitor(s0, c, TRUE, k) ELSE s0
  <2>1. PostContinue(c) = IF t THEN ThreadMonitor(s, c, TRUE, k) ELSE s
    BY Zenon DEF PostContinue, s0
  <2>2. Fine(s)
    BY <1>3, Zenon
  <2> HIDE DEF s
  <2> QED
    BY <1>1, <1>4, <2>1, <2>2, Zenon
<1> QED
  BY <1>5, <1>6, Zenon

\* What a halt and a continue of core c leave of the users.
LEMMA CoreMoves ==
  ASSUME IInv, RInv, NEW c \in Cores, NEW r, r = PreHalt(c) \/ r = PostContinue(c)
  PROVE  /\ SameElsewhere(users, r.u, c) /\ r.m \in Controls /\ r.u.kernel = users.kernel
         /\ r.u.transparent = users.transparent /\ r.u.checkPf = users.checkPf
<1>1. users \in Users /\ Relies(vmcs[c].exits, users, c)
  BY Zenon DEF IInv, TypeOK, RInv
<1>2. CoreOK(r, c) /\ \E a1, a2, a3, a4 : Moved(users, r.u, c, a1, a2, a3, a4)
  <2>1. CASE r = PreHalt(c)
    BY <1>1, <2>1, PreHaltFlags, Zenon
  <2>2. CASE r = PostContinue(c)
    BY <1>1, <2>2, PostContinueFlags, Zenon
  <2> QED
    BY <2>1, <2>2, Zenon
<1>3. r.m \in Controls /\ r.u.kernel = users.kernel
  BY <1>2, Zenon DEF CoreOK, OthersSame
<1>4. PICK v : v = r.u
  BY Zenon
<1>5. PICK a1, a2, a3, a4 : Moved(users, v, c, a1, a2, a3, a4)
  BY <1>2, <1>4, Zenon
<1>6. SameElsewhere(users, v, c) /\ v.transparent = users.transparent /\ v.checkPf = users.checkPf
  BY <1>1, <1>5, MovedAt, Zenon
<1> QED
  BY <1>3, <1>4, <1>6, Zenon

\* A step of one core in vmx-root.
LEMMA CoreClean ==
  ASSUME IInv, RInv, NInv, NEW c \in Cores, NEW r, r = PreHalt(c) \/ r = PostContinue(c),
         users' = r.u, NEW n, vmcs' = [vmcs EXCEPT ![c] = n], Clean(n, events, r.u, c \in masked', c),
         UNCHANGED events, \A d \in Cores \ {c} : d \in masked => d \in masked', UNCHANGED triggers, Asked'
  PROVE  NInv'
<1>1. /\ SameElsewhere(users, users', c) /\ users'.kernel = users.kernel
      /\ users'.transparent = users.transparent /\ users'.checkPf = users.checkPf
  BY CoreMoves, Zenon
<1>2. vmcs \in [Cores -> Controls]
  BY Zenon DEF IInv, TypeOK
<1>3. ASSUME NEW d \in Cores
      PROVE  Clean(vmcs'[d], events, users', d \in masked', d)
  <2>1. CASE d = c
    BY <1>2, <2>1, Zenon
  <2>2. CASE d # c
    <3>1. vmcs'[d] = vmcs[d] /\ Clean(vmcs[d], events, users, d \in masked, d)
      BY <1>2, <2>2, Zenon DEF NInv
    <3>2. /\ users'.threadByDr[d] = users.threadByDr[d] /\ users'.threadByClock[d] = users.threadByClock[d]
          /\ users'.processByCr3[d] = users.processByCr3[d] /\ users'.processByClock[d] = users.processByClock[d]
      BY <1>1, <2>2, Zenon DEF SameElsewhere
    <3>3. \A y : UserWants(users, d, y) => UserWants(users', d, y)
      BY <1>1, <3>2, Zenon DEF UserWants
    <3>4. ExitsWanted(vmcs[d].exits, events, users', d \in masked', d)
      BY <2>2, <3>1, <3>3, Zenon DEF Clean, ExitsWanted
    <3>5. ExcWanted(vmcs[d].exc, events, users', d)
      BY <1>1, <3>1, <3>2, ExcMore, Zenon DEF Clean
    <3> QED
      BY <3>1, <3>4, <3>5, Zenon DEF Clean
  <2> QED
    BY <2>1, <2>2, Zenon
<1> QED
  BY <1>3, Zenon DEF NInv, Triggered

\* One core halts, continues, or is stepped.
LEMMA RootClean ==
  ASSUME CleansUp, IInv, RInv, Featured, NInv, NEW c \in Cores,
         HaltCore(c) \/ ContinueCore(c) \/ GuaranteedStep(c)
  PROVE  NInv'
<1>1. "process" \in initial[c] => c = 0
  BY Zenon DEF NInv, Asked, CleansUp
<1>2. Clean(vmcs[c], events, users, c \in masked, c) /\ Plain(users)
  BY PlainUsers, Zenon DEF NInv
<1>3. /\ Clean(PreHalt(c).m, events, PreHalt(c).u, c \in masked, c)
      /\ Clean(PostContinue(c).m, events, PostContinue(c).u, c \in masked, c)
  BY <1>1, <1>2, HaltAndContinueClean, Zenon
<1>4. CASE HaltCore(c)
  <2>1. /\ users' = PreHalt(c).u /\ vmcs' = [vmcs EXCEPT ![c] = PreHalt(c).m]
        /\ initial' = [initial EXCEPT ![c] = {}] /\ UNCHANGED <<events, triggers, masked, clearing>>
    BY <1>4, Zenon DEF HaltCore, SetCore
  <2>2. Asked'
    <3>1. initial \in [Cores -> SUBSET {"process", "thread"}]
      BY Zenon DEF IInv, TypeOK
    <3>2. \A d \in Cores : initial'[d] \subseteq initial[d]
      BY <2>1, <3>1, Zenon
    <3> QED
      BY <2>1, <3>2, Zenon DEF NInv, Asked
  <2>3. Clean(PreHalt(c).m, events, PreHalt(c).u, c \in masked', c)
    BY <1>3, <2>1, CleanMasked, Zenon
  <2> QED
    BY <2>1, <2>2, <2>3, CoreClean, Zenon
<1>5. CASE ContinueCore(c)
  <2>1. /\ users' = PostContinue(c).u /\ vmcs' = [vmcs EXCEPT ![c] = PostContinue(c).m]
        /\ UNCHANGED <<events, triggers, masked, clearing, initial>>
    BY <1>5, Zenon DEF ContinueCore, SetCore
  <2>2. Asked'
    BY <2>1, Zenon DEF NInv, Asked
  <2>3. Clean(PostContinue(c).m, events, PostContinue(c).u, c \in masked', c)
    BY <1>3, <2>1, CleanMasked, Zenon
  <2> QED
    BY <2>1, <2>2, <2>3, CoreClean, Zenon
<1>6. CASE GuaranteedStep(c)
  <2> DEFINE q == PostContinue(c)
             n == On(q.m, "extint")
  <2>1. /\ users' = q.u /\ vmcs' = [vmcs EXCEPT ![c] = n] /\ masked' = {c} /\ masked \subseteq {c}
        /\ UNCHANGED <<events, triggers, clearing, initial>>
    BY <1>6, Zenon DEF GuaranteedStep
  <2>2. Asked'
    BY <2>1, Zenon DEF NInv, Asked
  <2>3. q.m \in Controls
    BY CoreMoves, Zenon
  <2>4. Clean(n, events, q.u, c \in masked', c)
    <3>1. Turned(q.m, n, "extint", events, q.u, c \in masked', c) /\ Keep(q.u, q.u, c, "extint")
      BY <2>1, Zenon DEF Turned, Keep
    <3>2. Clean(q.m, events, q.u, c \in masked, c)
      BY <1>3, Zenon
    <3> HIDE DEF q, n
    <3> QED
      BY <2>3, <3>1, <3>2, SwitchClean, Zenon
  <2>5. \A d \in Cores \ {c} : d \in masked => d \in masked'
    BY <2>1, Zenon
  <2> HIDE DEF n
  <2> QED
    BY <2>1, <2>2, <2>4, <2>5, CoreClean, Zenon DEF q
<1> QED
  BY <1>4, <1>5, <1>6, Zenon

\* A user that is switched on or off from user mode.
LEMMA ConfigureClean ==
  ASSUME NInv, NEW v, NEW u, Configure(v, u),
         \A c \in Cores : Clean(v[c], events, u, c \in masked, c)
  PROVE  NInv'
<1>1. UNCHANGED <<events, triggers, initial, masked, clearing>> /\ vmcs' = v /\ users' = u
  BY Zenon DEF Configure
<1> QED
  BY <1>1, Zenon DEF NInv, Triggered, Asked

\* Where exceptions change and the one-bit controls keep their users.
LEMMA SameUsersClean ==
  ASSUME NEW m, NEW evs, NEW u, NEW v, NEW k, NEW c, Clean(m, evs, u, k, c),
         SameWaits(u, v), v.transparent = u.transparent, v.checkPf = u.checkPf
  PROVE  ExitsWanted(m.exits, evs, v, k, c) /\ BitsWanted(m, evs, c)
<1>1. \A y : UserWants(u, c, y) => UserWants(v, c, y)
  BY Zenon DEF UserWants, SameWaits
<1> QED
  BY <1>1, Zenon DEF Clean, ExitsWanted

\* The kernel debugger comes and goes.
LEMMA KernelClean ==
  ASSUME CleansUp, IInv, Featured, NInv, KdInitializeKernelDebugger \/ KdUninitializeKernelDebugger
  PROVE  NInv'
<1>1. vmcs \in [Cores -> Controls] /\ users \in Users /\ Plain(users) /\ BP \in Vectors /\ DB \in Vectors
  BY PlainUsers DEF IInv, TypeOK, BP, DB, Vectors
<1>2. VectorsOf(BP) = {BP} /\ VectorsOf(DB) = {DB}
  BY AllAssumption DEF VectorsOf, BP, DB
<1>3. CASE KdInitializeKernelDebugger
  <2> DEFINE u == [users EXCEPT !.kernel = TRUE]
             v == [c \in Cores |-> EnableDbAndBp(vmcs[c], c, users)]
  <2>1. Configure(v, u)
    BY <1>3, Zenon DEF KdInitializeKernelDebugger
  <2>2. /\ SameWaits(users, u) /\ u.transparent = users.transparent /\ u.checkPf = users.checkPf
        /\ u.kernel
    BY <1>1, Zenon DEF Users, SameWaits
  <2> HIDE DEF u
  <2>3. ASSUME NEW c \in Cores
        PROVE  Clean(v[c], events, u, c \in masked, c)
    <3> DEFINE m == vmcs[c]
               m1 == SetExceptionBitmap(m, BP, c, events, users)
               m2 == SetExceptionBitmap(m1, DB, c, events, users)
               k == c \in masked
    <3>1. v[c] = m2
      BY Zenon DEF EnableDbAndBp
    <3>2. Clean(m, events, users, k, c) /\ m \in Controls
      BY <1>1, Zenon DEF NInv
    <3>3. m1 \in Controls
      BY <1>1, SetException
    <3>4. users.threadByDr[c] => u.threadByDr[c]
      BY <2>2, Zenon DEF SameWaits
    <3> HIDE DEF m, k
    <3>5. ExitsWanted(m.exits, events, u, k, c) /\ BitsWanted(m, events, c)
      BY <2>2, <3>2, SameUsersClean, Zenon
    <3>6. Clean(m1, events, u, k, c)
      <4> DEFINE w == m.exc \cup VectorsOf(BP)
      <4>1. m1 = ChangeExceptionBitmapWithIntegrityCheck(m, w, c, events, users, {})
        BY Zenon DEF SetExceptionBitmap
      <4>2. ExcWanted(m.exc, events, u, c)
        BY <2>2, <3>2, <3>4, ExcMore, Zenon DEF Clean
      <4>3. ExcWanted(w, events, u, c)
        BY <1>2, <2>2, <4>2, Zenon DEF ExcWanted
      <4> HIDE DEF m1, w
      <4> QED
        BY <1>1, <2>2, <3>2, <3>4, <3>5, <4>1, <4>3, ChangeMore, Zenon
    <3> HIDE DEF m1
    <3>7. Clean(m2, events, u, k, c)
      <4> DEFINE w == m1.exc \cup VectorsOf(DB)
      <4>1. m2 = ChangeExceptionBitmapWithIntegrityCheck(m1, w, c, events, users, {})
        BY Zenon DEF SetExceptionBitmap
      <4>2. /\ ExcWanted(m1.exc, events, u, c) /\ ExitsWanted(m1.exits, events, u, k, c)
            /\ BitsWanted(m1, events, c)
        BY <3>6, Zenon DEF Clean
      <4>3. ExcWanted(w, events, u, c)
        BY <1>2, <2>2, <4>2, Zenon DEF ExcWanted
      <4> HIDE DEF m2, w
      <4> QED
        BY <1>1, <2>2, <3>3, <3>4, <4>1, <4>2, <4>3, ChangeMore, Zenon
    <3> QED
      BY <3>1, <3>7, Zenon DEF k
  <2> HIDE DEF v
  <2> QED
    BY <2>1, <2>3, ConfigureClean, Zenon
<1>4. CASE KdUninitializeKernelDebugger
  <2> DEFINE u == [users EXCEPT !.kernel = FALSE]
             v == [c \in Cores |-> DisableDbAndBp(vmcs[c], c, u)]
  <2>1. Configure(v, u)
    BY <1>4, Zenon DEF KdUninitializeKernelDebugger
  <2>2. /\ SameWaits(users, u) /\ u.transparent = users.transparent /\ u.checkPf = users.checkPf
        /\ u.user = users.user /\ u.hidden = users.hidden /\ u \in Users
    BY <1>1, Zenon DEF Users, SameWaits
  <2>3. Plain(u)
    BY <1>1, <2>2, Zenon DEF Plain
  <2> HIDE DEF u
  <2>4. ASSUME NEW c \in Cores
        PROVE  Clean(v[c], events, u, c \in masked, c)
    <3> DEFINE m == vmcs[c]
               m1 == UnsetExceptionBitmap(m, BP, c, events, u)
               m2 == UnsetExceptionBitmap(m1, DB, c, events, u)
               k == c \in masked
    <3>1. v[c] = m2
      BY Zenon DEF DisableDbAndBp
    <3>2. Clean(m, events, users, k, c) /\ m \in Controls
      BY <1>1, Zenon DEF NInv
    <3>3. m1 \in Controls
      BY <1>1, <2>2, UnsetException
    <3> HIDE DEF m, k
    <3>4. ExitsWanted(m.exits, events, u, k, c) /\ BitsWanted(m, events, c)
      BY <2>2, <3>2, SameUsersClean, Zenon
    <3> DEFINE w == m.exc \ {BP}
               S == StillNeeded(c, events, u, {})
    <3>5. OnlyExc(m, m1, w \cup S) /\ OnlyExc(m1, m2, (m1.exc \ {DB}) \cup S)
      <4>1. m1 = ChangeExceptionBitmapWithIntegrityCheck(m, w, c, events, u, {})
        BY <1>2, Zenon DEF UnsetExceptionBitmap
      <4> HIDE DEF m1
      <4>2. m2 = ChangeExceptionBitmapWithIntegrityCheck(m1, m1.exc \ {DB}, c, events, u, {})
        BY <1>2, Zenon DEF UnsetExceptionBitmap
      <4> HIDE DEF m2, w
      <4>3. OnlyExc(m, m1, w \cup S)
        BY <3>2, <4>1, ChangeEffect
      <4>4. OnlyExc(m1, m2, (m1.exc \ {DB}) \cup S)
        BY <3>3, <4>2, ChangeEffect
      <4> QED
        BY <4>3, <4>4, Zenon
    <3>6. ExcWanted(S, events, u, c)
      BY <2>3, NeededIsWanted, Zenon
    <3> HIDE DEF m1, m2, w, S
    <3>7. m2.exits = m.exits /\ m2.io = m.io /\ m2.cr = m.cr /\ m2.exc \subseteq (w \ {DB}) \cup S
      BY <3>5, Zenon DEF OnlyExc
    <3>8. ExcWanted(m.exc, events, users, c)
      BY <3>2, Zenon DEF Clean
    <3>9. ExcWanted(w \ {DB}, events, u, c)
      BY <3>8, Zenon DEF ExcWanted, w
    <3>10. ExcWanted(m2.exc, events, u, c)
      BY <3>6, <3>7, <3>9, Zenon DEF ExcWanted
    <3>11. Clean(m2, events, u, k, c)
      BY <3>4, <3>7, <3>10, Zenon DEF Clean, BitsWanted
    <3> QED
      BY <3>1, <3>11, Zenon DEF k
  <2> HIDE DEF v
  <2> QED
    BY <2>1, <2>4, ConfigureClean, Zenon
<1> QED
  BY <1>3, <1>4, Zenon

\* Transparent mode comes and goes.
LEMMA TransparentClean ==
  ASSUME IInv, NInv, TransparentHideDebugger \/ TransparentUnhideDebugger
  PROVE  NInv'
<1>1. vmcs \in [Cores -> Controls] /\ users \in Users
  BY Zenon DEF IInv, TypeOK
<1>2. PICK b, v, u : /\ b \in BOOLEAN /\ Configure(v, u) /\ u = [users EXCEPT !.transparent = b]
                     /\ v = [c \in Cores |-> IF b THEN On(vmcs[c], "tsc")
                               ELSE DisableRdtscExiting(vmcs[c], c, events, u, FALSE)]
  <2>1. CASE TransparentHideDebugger
    <3> DEFINE u == [users EXCEPT !.transparent = TRUE]
    <3>1. Configure([c \in Cores |-> On(vmcs[c], "tsc")], u)
      BY <2>1, Zenon DEF TransparentHideDebugger
    <3>2. [c \in Cores |-> On(vmcs[c], "tsc")] =
          [c \in Cores |-> IF TRUE THEN On(vmcs[c], "tsc")
                           ELSE DisableRdtscExiting(vmcs[c], c, events, u, FALSE)]
      OBVIOUS
    <3> QED
      BY <3>1, <3>2, Zenon
  <2>2. CASE TransparentUnhideDebugger
    <3> DEFINE u == [users EXCEPT !.transparent = FALSE]
    <3>1. Configure([c \in Cores |-> DisableRdtscExiting(vmcs[c], c, events, u, FALSE)], u)
      BY <2>2, Zenon DEF TransparentUnhideDebugger
    <3>2. [c \in Cores |-> DisableRdtscExiting(vmcs[c], c, events, u, FALSE)] =
          [c \in Cores |-> IF FALSE THEN On(vmcs[c], "tsc")
                           ELSE DisableRdtscExiting(vmcs[c], c, events, u, FALSE)]
      OBVIOUS
    <3> QED
      BY <3>1, <3>2, Zenon
  <2> QED
    BY <2>1, <2>2, Zenon
<1>3. /\ SameWaits(users, u) /\ u.kernel = users.kernel /\ u.checkPf = users.checkPf
      /\ u.transparent = b
  BY <1>1, <1>2, Zenon DEF Users, SameWaits
<1>4. ASSUME NEW c \in Cores
      PROVE  Clean(v[c], events, u, c \in masked, c)
  <2>1. Clean(vmcs[c], events, users, c \in masked, c) /\ vmcs[c] \in Controls
    BY <1>1, Zenon DEF NInv
  <2>2. Keep(users, u, c, "tsc") /\ (users.threadByDr[c] => u.threadByDr[c])
    BY <1>3, Zenon DEF Keep, UserWants, SameWaits
  <2>3. v[c] = IF b THEN On(vmcs[c], "tsc") ELSE DisableRdtscExiting(vmcs[c], c, events, u, FALSE)
    BY <1>2, Zenon
  <2>4. Turned(vmcs[c], v[c], "tsc", events, u, c \in masked, c)
    <3>1. CASE b
      BY <1>3, <2>3, <3>1, Zenon DEF Turned, UserWants
    <3>2. CASE ~b
      <4>1. v[c] = DisableRdtscExiting(vmcs[c], c, events, u, FALSE)
        BY <2>3, <3>2, Zenon
      <4>2. \/ v[c] = Off(vmcs[c], "tsc")
            \/ v[c] = vmcs[c] /\ (EventWants(events, c, "tsc") \/ UserWants(u, c, "tsc"))
        BY <4>1, DisableRefused, Zenon
      <4> QED
        BY <4>2, Zenon DEF Turned
    <3> QED
      BY <3>1, <3>2, Zenon
  <2> QED
    BY <1>3, <2>1, <2>2, <2>4, SwitchClean, Zenon
<1> QED
  BY <1>2, <1>4, ConfigureClean, Zenon

\* The stepped core stops masking interrupts.
LEMMA UnmaskClean ==
  ASSUME IInv, NInv, SwitchCore \/ ContinueSystem
  PROVE  NInv'
<1>1. /\ UNCHANGED <<events, triggers, users, initial, clearing>> /\ masked' = {}
      /\ vmcs' = [c \in Cores |-> IF c \in masked THEN Unmask(vmcs[c], c) ELSE vmcs[c]]
  BY Zenon DEF SwitchCore, ContinueSystem
<1>2. ASSUME NEW c \in Cores
      PROVE  Clean(vmcs'[c], events, users, c \in masked', c)
  <2>1. Clean(vmcs[c], events, users, c \in masked, c) /\ vmcs[c] \in Controls
    BY Zenon DEF NInv, IInv, TypeOK
  <2>2. CASE c \in masked
    <3>1. vmcs'[c] = DisableExternalInterruptExiting(vmcs[c], c, events, users, FALSE)
      BY <1>1, <2>2, Zenon DEF Unmask
    <3>2. /\ Turned(vmcs[c], vmcs'[c], "extint", events, users, c \in masked', c)
          /\ Keep(users, users, c, "extint")
      BY <3>1, DisableRefused, Zenon DEF Turned, Keep
    <3> QED
      BY <2>1, <3>2, SwitchClean, Zenon
  <2>3. CASE c \notin masked
    <3>1. vmcs'[c] = vmcs[c]
      BY <1>1, <2>3, Zenon
    <3>2. Clean(vmcs[c], events, users, c \in masked', c)
      BY <2>1, <2>3, Zenon DEF Clean, ExitsWanted
    <3> QED
      BY <3>1, <3>2, Zenon
  <2> QED
    BY <2>2, <2>3, Zenon
<1> QED
  BY <1>1, <1>2, Zenon DEF NInv, Triggered, Asked

\* A halt starts; a switch is asked for; nothing happens.
LEMMA FramesClean ==
  ASSUME IInv, NInv,
         \/ HaltSystem \/ UNCHANGED vars
         \/ \E kind \in {"process", "thread"}, b \in BOOLEAN : RequestSwitch(kind, b)
  PROVE  NInv'
<1>1. /\ UNCHANGED <<events, vmcs, triggers, users, masked, clearing>>
      /\ \/ initial' = initial
         \/ \E kind \in Features : initial' = [c \in Cores |-> initial[c] \cup {kind}]
  BY Zenon DEF HaltSystem, vars, RequestSwitch
<1>2. Asked'
  BY <1>1, Zenon DEF NInv, Asked
<1> QED
  BY <1>1, <1>2, Zenon DEF NInv, Triggered

\* The invariant behind NoStaleControls is inductive.
LEMMA NextClean ==
  ASSUME CleansUp
  PROVE  IInv /\ RInv /\ Featured /\ NInv /\ [Next]_vars => NInv'
<1> SUFFICES ASSUME IInv, RInv, Featured, NInv, [Next]_vars PROVE NInv'
  OBVIOUS
<1>1. Plain(users) /\ ~clearing
  BY PlainUsers, Zenon DEF NInv, Asked, CleansUp
<1>2. CASE \E e \in Event : RegisterEvent(e)
  BY <1>2, RegisterClean, Zenon
<1>3. CASE \E i \in DOMAIN events : ClearEvent(i) \/ TerminateNext(i)
  BY <1>1, <1>3, ClearClean, Zenon DEF TerminateNext
<1>4. CASE KdInitializeKernelDebugger \/ KdUninitializeKernelDebugger
  BY <1>4, KernelClean, Zenon
<1>5. CASE TransparentHideDebugger \/ TransparentUnhideDebugger
  BY <1>5, TransparentClean, Zenon
<1>6. CASE SwitchCore \/ ContinueSystem
  BY <1>6, UnmaskClean, Zenon
<1>7. CASE \/ HaltSystem \/ UNCHANGED vars
           \/ \E kind \in {"process", "thread"}, b \in BOOLEAN : RequestSwitch(kind, b)
  BY <1>7, FramesClean, Zenon
<1>8. CASE \E c \in Cores : HaltCore(c) \/ ContinueCore(c) \/ GuaranteedStep(c)
  BY <1>8, RootClean, Zenon
<1>9. ~(ClearAllEvents \/ RemoveAllEvents \/ UdInitializeUserDebugger \/ \E n \in {0, 1} : EptHook(n))
  BY <1>1, Zenon DEF ClearAllEvents, RemoveAllEvents, UdInitializeUserDebugger, EptHook, CleansUp
<1>10. /\ ~UdUninitializeUserDebugger /\ ~EptUnHook
       /\ ~\E p \in Procs, b \in BOOLEAN : AttachingConfigureInterceptingThreads(p, b)
       /\ ~\E c \in Cores, b \in BOOLEAN : AttachingHandleCr3Vmexits(c, b)
  <2>1. ~(users.hidden > 0) /\ ~users.user /\ ~users.checkPf
    BY <1>1 DEF Plain
  <2> QED
    BY <2>1, Zenon DEF UdUninitializeUserDebugger, EptUnHook,
                       AttachingConfigureInterceptingThreads, AttachingHandleCr3Vmexits
<1> QED
  BY <1>2, <1>3, <1>4, <1>5, <1>6, <1>7, <1>8, <1>9, <1>10, Zenon DEF Next

\* No control outlives the events and users that asked for it: one-bit
\* controls, I/O ports, control-register masks and triggers that are on have
\* an event or a user on that core, and with no user of exceptions left the
\* exception bitmap is empty ("restore everything to default",
\* Termination.c), provided CleansUp.
THEOREM NothingStale ==
  ASSUME CleansUp
  PROVE  Spec => []NoStaleControls
<1> DEFINE SInv == IInv /\ RInv /\ Featured /\ NInv
<1>1. Init => SInv
  <2> SUFFICES ASSUME Init PROVE SInv
    OBVIOUS
  <2>1. /\ events = <<>> /\ ~users.kernel /\ ~users.user /\ ~users.checkPf /\ ~halting
        /\ users.hidden = 0 /\ triggers = {} /\ ~clearing
        /\ initial = [c \in Cores |-> {}]
        /\ vmcs = [c \in Cores |-> [exc |-> {}, io |-> {}, rdmsr |-> {}, wrmsr |-> {},
                                    cr |-> [r \in CrRegs |-> {}], exits |-> {}]]
    BY DEF Init
  <2>2. ~(users.hidden > 0)
    BY <2>1
  <2>3. \A c \in Cores : Clean(vmcs[c], events, users, c \in masked, c)
    BY <2>1, Zenon DEF Clean, ExitsWanted, ExcWanted, BitsWanted
  <2>4. Triggered /\ Asked
    BY <2>1, Zenon DEF Triggered, Asked
  <2> QED
    BY <2>1, <2>2, <2>3, <2>4, InitInv, InitRely, Zenon DEF Featured, NInv
<1>2. SInv /\ [Next]_vars => SInv'
  <2>1. StepsOneCore
    BY Zenon DEF CleansUp, StepsOneCore
  <2>2. ASSUME SInv PROVE ~users.user
    BY <2>2, PlainUsers, Zenon DEF Plain
  <2> QED
    BY <2>1, <2>2, NextInv, NextRely, NextFeatured, NextClean, Zenon
<1>3. SInv => NoStaleControls
  <2> SUFFICES ASSUME NInv PROVE NoStaleControls
    BY Zenon
  <2>1. ASSUME NEW c \in Cores
        PROVE  /\ vmcs[c].exits \subseteq WantedExits(c)
               /\ \A p \in vmcs[c].io : \E i \in DOMAIN events :
                    /\ Covers(events[i], c) /\ events[i].type \in {"in", "out"}
                    /\ p \in PortsOf(events[i].param)
               /\ \A r \in CrRegs : vmcs[c].cr[r] # {} => \E i \in DOMAIN events :
                    Covers(events[i], c) /\ events[i].type = "cr" /\ events[i].param.reg = r
               /\ (~\E i \in DOMAIN events : events[i].type \in {"exception", "syscall", "sysret"})
                    /\ ~users.kernel /\ ~users.user /\ users.hidden = 0 /\ ~users.checkPf
                    /\ ~users.threadByDr[c] => vmcs[c].exc = {}
    <3>1. /\ ExitsWanted(vmcs[c].exits, events, users, c \in masked, c) /\ BitsWanted(vmcs[c], events, c)
          /\ ExcWanted(vmcs[c].exc, events, users, c)
      BY Zenon DEF NInv, Clean
    <3>2. ASSUME NEW x \in vmcs[c].exits
          PROVE  x \in WantedExits(c)
      <4>1. CASE EventWants(events, c, x)
        <5>1. PICK i \in DOMAIN events : Covers(events[i], c) /\ x \in Serves(events[i].type)
          BY <4>1, Zenon DEF EventWants
        <5>2. \/ x = events[i].type
              \/ x = "efer" /\ events[i].type \in {"syscall", "sysret"}
          BY <5>1, Zenon DEF Serves
        <5> QED
          BY <5>1, <5>2, Zenon DEF WantedExits
      <4>2. CASE UserWants(users, c, x) \/ (x = "extint" /\ c \in masked)
        BY <4>2, Zenon DEF UserWants, WantedExits
      <4> QED
        BY <3>1, <4>1, <4>2, Zenon DEF ExitsWanted
    <3>3. ASSUME ~\E i \in DOMAIN events : events[i].type \in {"exception", "syscall", "sysret"},
                 ~users.kernel, ~users.threadByDr[c]
          PROVE  vmcs[c].exc = {}
      BY <3>1, <3>3, Zenon DEF ExcWanted
    <3> QED
      BY <3>1, <3>2, <3>3, Zenon DEF BitsWanted
  <2> QED
    BY <2>1, Zenon DEF NoStaleControls, NInv, Triggered
<1> QED
  BY <1>1, <1>2, <1>3, PTL DEF Spec
==============================================================================
