---------------------------- MODULE EventControls ----------------------------
(***************************************************************************)
(* Events and the vm-exit controls they need.  An event registered from    *)
(* user mode turns a control on in every core it covers; clearing it       *)
(* terminates it (the control is reset on all cores and applied again for  *)
(* the other events of its type) and then removes it from its list.  The   *)
(* same controls serve the kernel and user debugger, transparent mode,     *)
(* hidden breakpoints, the interception of a process's threads and the     *)
(* thread/process switches.  The routines are in ProtectedHv.              *)
(*                                                                         *)
(* Registering and clearing run in vmx non-root on behalf of the user-mode *)
(* controller, one request at a time, and broadcast to the cores with      *)
(* DPCs they wait for.  Halting, continuing and mov-to-cr3 exits run in    *)
(* vmx-root on each core and interleave with the loop that clears all      *)
(* events.                                                                 *)
(***************************************************************************)
EXTENDS ProtectedHv

CONSTANTS
  Types,       \* event types the instance registers
  Params,      \* [Types -> set of parameters]
  Features,    \* requests and other users of the controls the instance has
  Procs,       \* processes the user debugger may intercept
  MaxEvents,   \* bound on registered events
  MaxHooks     \* bound on pages with hidden breakpoints

VARIABLES
  events,    \* registered events, newest first (all lists in one)
  vmcs,      \* the controls of every core
  triggers,  \* g_TriggerEventForVmcalls, g_TriggerEventForCpuids
  users,     \* the other users of the controls
  phase,     \* processes with IsOnThreadInterceptingPhase
  initial,   \* per core: InitialSet{Process,Thread}ChangeEvent
  byClock,   \* per core: InitialSetByClockInterrupt
  masked,    \* cores with EnableExternalInterruptsOnContinue
  halted,    \* cores the kernel debugger holds
  halting,   \* the debugger is halting the cores (or has halted them)
  clearing,  \* the loop that clears all events is running
  done       \* the events that loop has terminated (indexes)

vars == <<events, vmcs, triggers, users, phase, initial, byClock, masked,
          halted, halting, clearing, done>>

TypeOrder == <<"syscall", "sysret", "cpuid", "rdmsr", "wrmsr", "exception", "tsc",
               "pmc", "in", "out", "dr", "extint", "vmcall", "cr">>
EventTypes == {TypeOrder[i] : i \in DOMAIN TypeOrder}
Rank(t) == CHOOSE i \in DOMAIN TypeOrder : TypeOrder[i] = t

ASSUME TypesAssumption == Types \subseteq EventTypes
ASSUME ParamsAssumption ==
  \A t \in Types :
    CASE t = "exception" -> Params[t] \subseteq (0..30) \cup {All}
      [] t \in {"in", "out"} -> Params[t] \subseteq Ports \cup {All}
      [] t \in {"rdmsr", "wrmsr"} -> Params[t] \subseteq Msrs \cup {All}
      [] t = "cr" -> Params[t] \subseteq [reg : CrRegs, mask : Masks]
      [] OTHER -> TRUE
ASSUME BoundAssumption == MaxEvents \in Nat /\ MaxHooks \in Nat

Event == UNION {[type : {t}, core : Cores \cup {AllCores}, param : Params[t]] : t \in Types}

NoCores == [c \in Cores |-> FALSE]

Init ==
  /\ events = <<>>
  /\ vmcs = [c \in Cores |-> [exc |-> {}, io |-> {}, rdmsr |-> {}, wrmsr |-> {},
                              cr |-> [r \in CrRegs |-> {}], exits |-> {}]]
  /\ triggers = {}
  /\ users = [kernel |-> FALSE, user |-> FALSE, transparent |-> FALSE, hidden |-> 0,
              checkPf |-> FALSE, threadByDr |-> NoCores, threadByClock |-> NoCores,
              processByCr3 |-> NoCores, processByClock |-> NoCores]
  /\ phase = {}
  /\ initial = [c \in Cores |-> {}]
  /\ byClock = NoCores
  /\ masked = {} /\ halted = {} /\ halting = FALSE
  /\ clearing = FALSE /\ done = {}

-----------------------------------------------------------------------------
(* Applying and resetting the control of an event type on one core *)

PortsOf(p) == IF p = All THEN Ports ELSE {p}
MsrsOf(p) == IF p = All THEN Msrs ELSE {p}

\* The parameters of the events J (indexes into evs) that cover core c.
ParamsOn(J, c, evs) == {evs[j].param : j \in {k \in J : Covers(evs[k], c)}}

\* Applying control-register events one after the other: each overwrites the
\* mask of its register, so the last one of the list stays.
LastMask(J, c, evs, r, old) ==
  LET I == {j \in J : Covers(evs[j], c) /\ evs[j].param.reg = r}
      last == {i \in I : \A j \in I : j <= i} IN
  IF last = {} THEN old ELSE evs[CHOOSE i \in last : TRUE].param.mask

\* Apply* : the controls of core c once the events J of one list are applied
\* to it, in list order.

ApplyException(m, J, c, evs) ==
  IF ParamsOn(J, c, evs) = {} THEN m
  ELSE ChangeExceptionBitmapWithIntegrityCheck(
         m, m.exc \cup UNION {VectorsOf(p) : p \in ParamsOn(J, c, evs)}, c, evs, users, {})

ApplyIo(m, J, c, evs) == [m EXCEPT !.io = @ \cup UNION {PortsOf(p) : p \in ParamsOn(J, c, evs)}]

ApplyRdmsr(m, J, c, evs) == [m EXCEPT !.rdmsr = @ \cup UNION {MsrsOf(p) : p \in ParamsOn(J, c, evs)}]

ApplyWrmsr(m, J, c, evs) == [m EXCEPT !.wrmsr = @ \cup UNION {MsrsOf(p) : p \in ParamsOn(J, c, evs)}]

\* The event types that are one bit of the execution controls.
ApplyExit(m, x, J, c, evs) == IF ParamsOn(J, c, evs) = {} THEN m ELSE On(m, x)

ApplyCr(m, J, c, evs) == [m EXCEPT !.cr = [r \in CrRegs |-> LastMask(J, c, evs, r, @[r])]]

ApplyEfer(m, J, c, evs) ==
  IF ParamsOn(J, c, evs) = {} THEN m ELSE SyscallHookConfigureEFER(m, TRUE, c, evs, users)

Apply(m, t, J, c, evs) ==
  CASE t = "exception" -> ApplyException(m, J, c, evs)
    [] t \in {"in", "out"} -> ApplyIo(m, J, c, evs)
    [] t = "rdmsr" -> ApplyRdmsr(m, J, c, evs)
    [] t = "wrmsr" -> ApplyWrmsr(m, J, c, evs)
    [] t \in {"extint", "tsc", "pmc", "dr"} -> ApplyExit(m, t, J, c, evs)
    [] t = "cr" -> ApplyCr(m, J, c, evs)
    [] t \in {"syscall", "sysret"} -> ApplyEfer(m, J, c, evs)
    [] OTHER -> m

\* Variant: nothing is applied again after the reset.
NoOtherEvents(i) == {}

\* The other events in the list of event i.
OtherEvents(i) == {j \in DOMAIN events \ {i} : events[j].type = events[i].type}

\* Terminate* : the controls m of core c after the event i, still in its list,
\* is terminated.  Every core is reset, then the events of the same list are
\* applied again; with no such event only the reset is left.

TerminateExternalInterruptEvent(m, i, c) ==
  ApplyExit(DisableExternalInterruptExiting(m, c, events, users, TRUE), "extint", OtherEvents(i), c, events)

TerminateRdmsrExecutionEvent(m, i, c) == ApplyRdmsr([m EXCEPT !.rdmsr = {}], OtherEvents(i), c, events)

TerminateWrmsrExecutionEvent(m, i, c) == ApplyWrmsr([m EXCEPT !.wrmsr = {}], OtherEvents(i), c, events)

TerminateExceptionEvent(m, i, c) ==
  ApplyException(ResetExceptionBitmapToClearEvents(m, c, events, users), OtherEvents(i), c, events)

\* One I/O bitmap for IN and OUT, but only the list of the event's own type
\* is applied again.
TerminateInInstructionExecutionEvent(m, i, c) == ApplyIo([m EXCEPT !.io = {}], OtherEvents(i), c, events)

TerminateOutInstructionExecutionEvent(m, i, c) == ApplyIo([m EXCEPT !.io = {}], OtherEvents(i), c, events)

TerminateTscEvent(m, i, c) ==
  ApplyExit(DisableRdtscExiting(m, c, events, users, TRUE), "tsc", OtherEvents(i), c, events)

TerminatePmcEvent(m, i, c) == ApplyExit(Off(m, "pmc"), "pmc", OtherEvents(i), c, events)

TerminateDebugRegistersEvent(m, i, c) ==
  ApplyExit(DisableMovDebugRegsExiting(m, c, events, users, TRUE), "dr", OtherEvents(i), c, events)

\* Only the mask of the removed event's register is reset.
TerminateControlRegistersEvent(m, i, c) ==
  ApplyCr(SetMovToCrVmexit(m, events[i].param.reg, {}), OtherEvents(i), c, events)

\* As with I/O: SYSCALL and SYSRET share the EFER hook.
TerminateSyscallHookEferEvent(m, i, c) ==
  ApplyEfer(SyscallHookConfigureEFER(m, FALSE, c, events, users), OtherEvents(i), c, events)

TerminateSysretHookEferEvent(m, i, c) ==
  ApplyEfer(SyscallHookConfigureEFER(m, FALSE, c, events, users), OtherEvents(i), c, events)

TerminateOn(m, i, c) ==
  LET t == events[i].type IN
  CASE t = "extint" -> TerminateExternalInterruptEvent(m, i, c)
    [] t = "rdmsr" -> TerminateRdmsrExecutionEvent(m, i, c)
    [] t = "wrmsr" -> TerminateWrmsrExecutionEvent(m, i, c)
    [] t = "exception" -> TerminateExceptionEvent(m, i, c)
    [] t = "in" -> TerminateInInstructionExecutionEvent(m, i, c)
    [] t = "out" -> TerminateOutInstructionExecutionEvent(m, i, c)
    [] t = "tsc" -> TerminateTscEvent(m, i, c)
    [] t = "pmc" -> TerminatePmcEvent(m, i, c)
    [] t = "dr" -> TerminateDebugRegistersEvent(m, i, c)
    [] t = "cr" -> TerminateControlRegistersEvent(m, i, c)
    [] t = "syscall" -> TerminateSyscallHookEferEvent(m, i, c)
    [] t = "sysret" -> TerminateSysretHookEferEvent(m, i, c)
    [] OTHER -> m

\* CPUID and VMCALL exit unconditionally; a global says whether to trigger.
TerminateVmcallOrCpuidEvent(i) ==
  IF OtherEvents(i) = {} THEN triggers \ {events[i].type} ELSE triggers

\* The broadcast of the reset and those that apply the rest of the list are one
\* step: in between the rest of the list is not intercepted.
DebuggerTerminateEvent(i) ==
  /\ vmcs' = [c \in Cores |-> TerminateOn(vmcs[c], i, c)]
  /\ triggers' = TerminateVmcallOrCpuidEvent(i)

-----------------------------------------------------------------------------
(* Requests from user mode.  They run while no core is held. *)

Running == halted = {} /\ ~halting
Idle == Running /\ ~clearing

\* DebuggerParseEventFromUsermode: create, put at the head of its list, apply.
RegisterEvent(e) ==
  /\ Idle /\ Len(events) < MaxEvents
  /\ events' = <<e>> \o events
  /\ vmcs' = [c \in Cores |-> Apply(vmcs[c], e.type, {1}, c, events')]
  /\ triggers' = triggers \cup ({e.type} \cap {"cpuid", "vmcall"})
  /\ UNCHANGED <<users, phase, initial, byClock, masked, halted, halting, clearing, done>>

\* Clearing one event: disable, terminate, remove.
ClearEvent(i) ==
  /\ Idle
  /\ DebuggerTerminateEvent(i)
  /\ events' = SubSeq(events, 1, i - 1) \o SubSeq(events, i + 1, Len(events))
  /\ UNCHANGED <<users, phase, initial, byClock, masked, halted, halting, clearing, done>>

\* Clearing all events: disable all, ...
ClearAllEvents ==
  /\ "clearall" \in Features /\ Idle /\ events # <<>>
  /\ clearing' = TRUE
  /\ UNCHANGED <<events, vmcs, triggers, users, phase, initial, byClock, masked, halted, halting, done>>

\* ... terminate them one by one, list after list, each still registered, ...
TerminateNext(i) ==
  /\ clearing /\ Running
  /\ i \notin done
  /\ \A j \in DOMAIN events \ (done \cup {i}) :
       LET ri == Rank(events[i].type)
           rj == Rank(events[j].type) IN ri < rj \/ (ri = rj /\ i < j)
  /\ DebuggerTerminateEvent(i)
  /\ done' = done \cup {i}
  /\ UNCHANGED <<events, users, phase, initial, byClock, masked, halted, halting, clearing>>

\* ... and remove them all.
RemoveAllEvents ==
  /\ clearing /\ Running
  /\ done = DOMAIN events
  /\ events' = <<>> /\ clearing' = FALSE /\ done' = {}
  /\ UNCHANGED <<vmcs, triggers, users, phase, initial, byClock, masked, halted, halting>>

\* A user of the controls that is switched on and off from user mode.
Configure(v, u) ==
  /\ vmcs' = v /\ users' = u
  /\ UNCHANGED <<events, triggers, initial, byClock, masked, halted, halting, clearing, done>>

EnableDbAndBp(m, c, u) == SetExceptionBitmap(SetExceptionBitmap(m, BP, c, events, u), DB, c, events, u)
DisableDbAndBp(m, c, u) ==
  UnsetExceptionBitmap(UnsetExceptionBitmap(m, BP, c, events, u), DB, c, events, u)

KdInitializeKernelDebugger ==
  /\ "kernel" \in Features /\ Idle /\ ~users.kernel
  /\ Configure([c \in Cores |-> EnableDbAndBp(vmcs[c], c, users)], [users EXCEPT !.kernel = TRUE])
  /\ UNCHANGED phase

\* The state is cleared first, so that the integrity check lets the bits go.
KdUninitializeKernelDebugger ==
  /\ Idle /\ users.kernel
  /\ LET u == [users EXCEPT !.kernel = FALSE] IN
     Configure([c \in Cores |-> DisableDbAndBp(vmcs[c], c, u)], u)
  /\ UNCHANGED phase

UdInitializeUserDebugger ==
  /\ "user" \in Features /\ Idle /\ ~users.user
  /\ Configure([c \in Cores |-> EnableDbAndBp(vmcs[c], c, users)], [users EXCEPT !.user = TRUE])
  /\ UNCHANGED phase

\* The process details go with the list; the bitmap is left as it is.
UdUninitializeUserDebugger ==
  /\ Idle /\ users.user
  /\ Configure(vmcs, [users EXCEPT !.user = FALSE])
  /\ phase' = {}

TransparentHideDebugger ==
  /\ "transparent" \in Features /\ Idle /\ ~users.transparent
  /\ Configure([c \in Cores |-> On(vmcs[c], "tsc")], [users EXCEPT !.transparent = TRUE])
  /\ UNCHANGED phase

TransparentUnhideDebugger ==
  /\ Idle /\ users.transparent
  /\ LET u == [users EXCEPT !.transparent = FALSE] IN
     Configure([c \in Cores |-> DisableRdtscExiting(vmcs[c], c, events, u, FALSE)], u)
  /\ UNCHANGED phase

\* EptHook: #BP exiting first, then the hook, which may fail.
EptHook(hooked) ==
  /\ "hook" \in Features /\ Idle /\ users.hidden < MaxHooks
  /\ Configure([c \in Cores |-> SetExceptionBitmap(vmcs[c], BP, c, events, users)],
               [users EXCEPT !.hidden = @ + hooked])
  /\ UNCHANGED phase

\* The last breakpoint of a page is removed; #BP exiting goes with the last page.
EptUnHook ==
  /\ Idle /\ users.hidden > 0
  /\ LET u == [users EXCEPT !.hidden = @ - 1] IN
     Configure([c \in Cores |-> IF u.hidden # 0 THEN vmcs[c]
                                ELSE UnsetExceptionBitmap(vmcs[c], BP, c, events, u)], u)
  /\ UNCHANGED phase

\* Start or stop intercepting the threads of a process: one global flag serves
\* every process.
AttachingConfigureInterceptingThreads(p, enable) ==
  /\ Idle /\ users.user
  /\ (p \in phase) # enable
  /\ phase' = IF enable THEN phase \cup {p} ELSE phase \ {p}
  /\ LET u == [users EXCEPT !.checkPf = enable] IN
     Configure([c \in Cores |-> IF enable THEN On(vmcs[c], "cr3")
                                ELSE DisableMovToCr3Exiting(vmcs[c], u)], u)

-----------------------------------------------------------------------------
(* vmx-root, one core *)

SetCore(c, m) == vmcs' = [vmcs EXCEPT ![c] = m]

\* A mov-to-cr3 exit while the user debugger intercepts threads: #PF exits are
\* wanted in the intercepted processes only.
AttachingHandleCr3Vmexits(c, intercepted) ==
  /\ c \notin halted
  /\ "cr3" \in vmcs[c].exits /\ users.checkPf
  /\ intercepted => phase # {}
  /\ SetCore(c, IF intercepted THEN SetExceptionBitmap(vmcs[c], PF, c, events, users)
                ELSE UnsetExceptionBitmap(vmcs[c], PF, c, events, users))
  /\ UNCHANGED <<events, triggers, users, phase, initial, byClock, masked, halted, halting, clearing, done>>

\* Process-switch detection on core c, by clock interrupts or by mov-to-cr3.
ProcessMonitor(s, c, enable, clock) ==
  LET u == IF clock THEN [s.u EXCEPT !.processByClock[c] = enable]
                    ELSE [s.u EXCEPT !.processByCr3[c] = enable]
      x == IF clock THEN "extint" ELSE "cr3"
  IN  [u |-> u,
       m |-> IF enable THEN On(s.m, x)
             ELSE IF clock THEN DisableExternalInterruptExiting(s.m, c, events, u, FALSE)
             ELSE DisableMovToCr3Exiting(s.m, u)]

\* Variant: the flag is cleared after the control is turned off.
ThreadMonitorLateFlag(s, c, enable, clock) ==
  [u |-> IF clock THEN [s.u EXCEPT !.threadByClock[c] = enable]
                  ELSE [s.u EXCEPT !.threadByDr[c] = enable],
   m |-> IF enable THEN IF clock THEN On(s.m, "extint") ELSE On(s.m, "dr")
         ELSE IF clock THEN DisableExternalInterruptExiting(s.m, c, events, s.u, FALSE)
         ELSE DisableMovDebugRegsExiting(s.m, c, events, s.u, FALSE)]

\* Thread-switch detection on core c, by clock interrupts or by a debug register
\* on the current-thread field, which needs #DB and mov-dr exits.
ThreadMonitor(s, c, enable, clock) ==
  LET u == IF clock THEN [s.u EXCEPT !.threadByClock[c] = enable]
                    ELSE [s.u EXCEPT !.threadByDr[c] = enable]
  IN  [u |-> u,
       m |-> IF clock
             THEN IF enable THEN On(s.m, "extint")
                  ELSE DisableExternalInterruptExiting(s.m, c, events, u, FALSE)
             ELSE IF enable THEN On(SetExceptionBitmap(s.m, DB, c, events, u), "dr")
                  ELSE UnsetExceptionBitmap(DisableMovDebugRegsExiting(s.m, c, events, u, FALSE),
                                            DB, c, events, u)]

\* KdApplyTasksPreHaltCore: stop detection, process first; the flag that says
\* "by clock" is shared and cleared with the process part.
PreHalt(c) ==
  LET s0 == [m |-> vmcs[c], u |-> users]
      s1 == IF "process" \in initial[c] THEN ProcessMonitor(s0, c, FALSE, byClock[c]) ELSE s0
      k1 == IF "process" \in initial[c] THEN FALSE ELSE byClock[c]
  IN  IF "thread" \in initial[c] THEN ThreadMonitor(s1, c, FALSE, k1) ELSE s1

\* KdApplyTasksPostContinueCore: start detection.
PostContinue(c) ==
  LET s0 == [m |-> vmcs[c], u |-> users]
      s1 == IF "process" \in initial[c] THEN ProcessMonitor(s0, c, TRUE, byClock[c]) ELSE s0
  IN  IF "thread" \in initial[c] THEN ThreadMonitor(s1, c, TRUE, byClock[c]) ELSE s1

HaltSystem ==
  /\ Features \cap {"process", "thread", "step"} # {}
  /\ users.kernel /\ ~halting /\ halted = {}
  /\ halting' = TRUE
  /\ UNCHANGED <<events, vmcs, triggers, users, phase, initial, byClock, masked, halted, clearing, done>>

HaltCore(c) ==
  /\ halting /\ c \notin halted
  /\ SetCore(c, PreHalt(c).m) /\ users' = PreHalt(c).u
  /\ initial' = [initial EXCEPT ![c] = {}]
  /\ byClock' = [byClock EXCEPT ![c] = IF initial[c] = {} THEN @ ELSE FALSE]
  /\ halted' = halted \cup {c}
  /\ UNCHANGED <<events, triggers, phase, masked, halting, clearing, done>>

\* ProcessSwitch, ThreadSwitch: asked for while the system is halted.
RequestSwitch(kind, clock) ==
  /\ kind \in Features /\ halting /\ halted = Cores
  /\ initial' = [c \in Cores |-> initial[c] \cup {kind}]
  /\ byClock' = [c \in Cores |-> clock]
  /\ UNCHANGED <<events, vmcs, triggers, users, phase, masked, halted, halting, clearing, done>>

\* External interrupts stop exiting on core c again, unless someone else needs them.
Unmask(m, c) == DisableExternalInterruptExiting(m, c, events, users, FALSE)

\* KdGuaranteedStepInstruction: the operating core runs one instruction with
\* external interrupt exiting on; the other cores stay held.
GuaranteedStep(c) ==
  /\ "step" \in Features /\ halting /\ halted = Cores /\ masked \subseteq {c}
  /\ vmcs' = [vmcs EXCEPT ![c] = On(PostContinue(c).m, "extint")]
  /\ users' = PostContinue(c).u
  /\ masked' = {c}
  /\ halted' = halted \ {c}
  /\ UNCHANGED <<events, triggers, phase, initial, byClock, halting, clearing, done>>

\* KdSwitchCore, on the operating core.
SwitchCore ==
  /\ halting /\ halted = Cores /\ masked # {}
  /\ vmcs' = [c \in Cores |-> IF c \in masked THEN Unmask(vmcs[c], c) ELSE vmcs[c]]
  /\ masked' = {}
  /\ UNCHANGED <<events, triggers, users, phase, initial, byClock, halted, halting, clearing, done>>

\* KdContinueDebuggee, on the operating core.
ContinueSystem ==
  /\ halting /\ halted = Cores
  /\ vmcs' = [c \in Cores |-> IF c \in masked THEN Unmask(vmcs[c], c) ELSE vmcs[c]]
  /\ masked' = {}
  /\ halting' = FALSE
  /\ UNCHANGED <<events, triggers, users, phase, initial, byClock, halted, clearing, done>>

ContinueCore(c) ==
  /\ ~halting /\ c \in halted
  /\ SetCore(c, PostContinue(c).m) /\ users' = PostContinue(c).u
  /\ halted' = halted \ {c}
  /\ UNCHANGED <<events, triggers, phase, initial, byClock, masked, halting, clearing, done>>

Next ==
  \/ \E e \in Event : RegisterEvent(e)
  \/ \E i \in DOMAIN events : ClearEvent(i) \/ TerminateNext(i)
  \/ ClearAllEvents \/ RemoveAllEvents
  \/ KdInitializeKernelDebugger \/ KdUninitializeKernelDebugger
  \/ UdInitializeUserDebugger \/ UdUninitializeUserDebugger
  \/ TransparentHideDebugger \/ TransparentUnhideDebugger
  \/ \E n \in {0, 1} : EptHook(n)
  \/ EptUnHook
  \/ \E p \in Procs, b \in BOOLEAN : AttachingConfigureInterceptingThreads(p, b)
  \/ \E c \in Cores, b \in BOOLEAN : AttachingHandleCr3Vmexits(c, b)
  \/ HaltSystem \/ SwitchCore \/ ContinueSystem
  \/ \E c \in Cores : HaltCore(c) \/ ContinueCore(c) \/ GuaranteedStep(c)
  \/ \E kind \in {"process", "thread"}, b \in BOOLEAN : RequestSwitch(kind, b)

Spec == Init /\ [][Next]_vars

-----------------------------------------------------------------------------
(* Properties *)

\* Every variable stays in its type.
TypeOK ==
  /\ events \in Seq(Event) /\ Len(events) <= MaxEvents
  /\ vmcs \in [Cores -> Controls]
  /\ triggers \subseteq {"cpuid", "vmcall"}
  /\ users \in Users
  /\ phase \subseteq Procs
  /\ initial \in [Cores -> SUBSET {"process", "thread"}]
  /\ byClock \in [Cores -> BOOLEAN]
  /\ masked \subseteq Cores /\ halted \subseteq Cores
  /\ halting \in BOOLEAN /\ clearing \in BOOLEAN
  /\ done \subseteq DOMAIN events

\* What event e needs on a core with controls m.
Intercepts(m, e) ==
  CASE e.type = "exception" -> VectorsOf(e.param) \subseteq m.exc
    [] e.type \in {"in", "out"} -> PortsOf(e.param) \subseteq m.io
    [] e.type = "rdmsr" -> MsrsOf(e.param) \subseteq m.rdmsr
    [] e.type = "wrmsr" -> MsrsOf(e.param) \subseteq m.wrmsr
    [] e.type = "cr" -> e.param.mask \subseteq m.cr[e.param.reg]
    [] e.type \in {"syscall", "sysret"} -> "efer" \in m.exits /\ UD \in m.exc
    [] e.type \in {"cpuid", "vmcall"} -> e.type \in triggers
    [] OTHER -> e.type \in m.exits

\* A registered event that has not been terminated is intercepted on every
\* core it covers, whatever other events are cleared and whatever the other
\* users of the controls do (Termination.c re-applies the remaining events,
\* ProtectedHv.c keeps what is still needed).
EventsIntercepted ==
  \A i \in DOMAIN events \ done : \A c \in Cores :
    Covers(events[i], c) => Intercepts(vmcs[c], events[i])

\* The same for the event types that have a control, or a bitmap, of their
\* own: neither clearing events, one or all, nor the halts, steps and switches
\* of the debugger take the control from such an event, whatever the masks and
\* the events that share a control.
UnsharedTypes == {"rdmsr", "wrmsr", "tsc", "pmc", "dr", "extint"}

UnsharedEventsIntercepted ==
  \A i \in DOMAIN events \ done : \A c \in Cores :
    events[i].type \in UnsharedTypes /\ Covers(events[i], c)
      => Intercepts(vmcs[c], events[i])

\* The debugger never loses the exceptions it lives on: #BP and #DB while the
\* kernel or the user debugger is on, #BP while a page has hidden breakpoints,
\* #DB while a debug register watches for a thread switch (ProtectedHv.c:
\* "modifying exception bitmap won't break the debugger's integrity").
DebuggerExceptionsKept ==
  \A c \in Cores :
    /\ users.kernel \/ users.user => {BP, DB} \subseteq vmcs[c].exc
    /\ users.hidden > 0 => BP \in vmcs[c].exc
    /\ users.threadByDr[c] => DB \in vmcs[c].exc

\* No user of the controls other than the events loses one it relies on: the
\* exceptions above, transparent mode's rdtsc exits, the mov-to-cr3 exits of
\* thread interception, each core's pending switch detection, and the
\* interrupt masking of a core that is being stepped.
IntegrityKept ==
  /\ DebuggerExceptionsKept
  /\ \A c \in Cores : LET x == vmcs[c].exits IN
       /\ users.transparent => "tsc" \in x
       /\ users.threadByDr[c] => "dr" \in x
       /\ users.threadByClock[c] \/ users.processByClock[c] => "extint" \in x
       /\ users.processByCr3[c] \/ phase # {} => "cr3" \in x
       /\ c \in masked \ halted => "extint" \in x

\* The controls of core c that some event or other user asks for.
WantedExits(c) ==
  {events[i].type : i \in {j \in DOMAIN events : Covers(events[j], c)}}
  \cup {x \in {"efer"} : \E i \in DOMAIN events :
           Covers(events[i], c) /\ events[i].type \in {"syscall", "sysret"}}
  \cup {x \in {"tsc"} : users.transparent}
  \cup {x \in {"dr"} : users.threadByDr[c]}
  \cup {x \in {"extint"} : \/ users.threadByClock[c] \/ users.processByClock[c]
                            \/ c \in masked}
  \cup {x \in {"cr3"} : users.processByCr3[c] \/ users.checkPf}

\* No control outlives the events and users that asked for it: once the last
\* of them is gone the guest runs without that vm-exit ("restore everything
\* to default", Termination.c).
NoStaleControls ==
  /\ \A c \in Cores :
       /\ vmcs[c].exits \subseteq WantedExits(c)
       /\ \A p \in vmcs[c].io : \E i \in DOMAIN events :
            /\ Covers(events[i], c) /\ events[i].type \in {"in", "out"}
            /\ p \in PortsOf(events[i].param)
       /\ \A r \in CrRegs : vmcs[c].cr[r] # {} => \E i \in DOMAIN events :
            Covers(events[i], c) /\ events[i].type = "cr" /\ events[i].param.reg = r
       /\ (~\E i \in DOMAIN events : events[i].type \in {"exception", "syscall", "sysret"})
            /\ ~users.kernel /\ ~users.user /\ users.hidden = 0 /\ ~users.checkPf
            /\ ~users.threadByDr[c] => vmcs[c].exc = {}
  /\ \A t \in triggers : \E i \in DOMAIN events : events[i].type = t
==============================================================================
