# HyperDbg in TLA+

HyperDbg debugs a Windows system from a hypervisor. This directory holds TLA+
modules translated from its source, the TLC configurations that check them on
small instances, and TLAPS proofs of the main results for every instance. Paths
below are relative to `src/hyperdbg/`; `hv/` abbreviates `hprdbghv/code/` and
`ctrl/` abbreviates `hprdbgctrl/code/`.

## The system

Two programs talk to each other, over a serial line or, on one machine, through
IOCTLs.

* The **debuggee side** is a kernel driver, `hprdbghv`. It puts every core in VMX
  non-root operation and runs debugger code in the vm-exit handlers (*vmx-root*),
  in IOCTL handlers (PASSIVE_LEVEL), and in DPCs that run on all cores.
* The **controller**, `hprdbgctrl` (started by `hyperdbg-cli`), parses commands,
  compiles scripts (`script-engine`), reads symbols (`symbol-parser`), and sends
  requests. It has a command thread, a thread that listens to the debuggee and a
  CTRL+C handler.

What makes it hard to test is that the handlers of several cores run at once with
no scheduler underneath, that an NMI can arrive between any two instructions of a
handler, that one hardware setting (an exception bitmap bit, the MTF, an EPT
entry) is shared by several features, and that requests and answers cross
between five threads on two machines.

### Modules

| part | source | modules | proofs |
|---|---|---|---|
| kernel debugger: halt, serve, resume | `hv/debugger/kernel-level/Kd.c`, `hv/vmm/vmx/VmxBroadcast.c`, `Mtf.c`, `IdtEmulation.c` | `KdHalt` | `KdHaltProofs` |
| vm-exit controls shared by events and debugger | `hv/vmm/vmx/ProtectedHv.c`, `hv/debugger/core/Termination.c`, `Debugger.c`, `hv/debugger/broadcast/` | `ProtectedHv`, `EventControls` | `EventControlsProofs`, `EventSharingProofs` |
| software breakpoints | `hv/debugger/commands/BreakpointCommands.c`, `Mtf.c` | `Breakpoints` | `BreakpointsProofs` |
| EPT hooks on pool buffers | `hv/debugger/features/hooks/ept-hook/EptHook.c`, `hv/vmm/ept/Ept.c`, `hv/memory/PoolManager.c` | `PoolLifecycle` (abstract), `PoolManager`, `EptHooks` | `EptHooksProofs` |
| event lists | `hv/debugger/core/Debugger.c` | `EventList` | `EventListProofs` |
| message tracing and the life of the driver | `hv/common/Logging.c`, `hv/driver/`, `ctrl/app/`, `ctrl/debugger/driver-loader/`, `hv/vmm/vmx/Vmx.c` | `LogQueue` (abstract), `LogTracing`, `Driver` | `DriverProofs` |
| remote session | `ctrl/debugger/`, `hv/debugger/kernel-level/Kd.c`, `hv/debugger/communication/` | `KdProtocol`, `Commands`, `Session` | |
| user-mode debugger | `hv/debugger/user-level/`, `ctrl/debugger/user-level/` | `UserDebugger` | `UserDebuggerProofs` |
| scripts | `script-engine/`, `script-eval/` | `ScriptEngine`, `ScriptEval`, `ScriptSource`, `Script` | |

An `MC` module holds the sets a configuration cannot write itself. `PROJECT.json`
maps each definition to the lines it translates.

### Runs

| run | instance | states | shows |
|---|---|---|---|
| `halt_switch` | 3 cores | 1.79 M | `OneOperatingCore`, `ActionHasNmi`, `HaltedHasOwner`, `MtfHasReason` |
| `halt_step` | 2 cores, fair | 9,852 | `PauseHasReason`, `OthersStayHalted`, `HaltReaches` |
| `controls_types` | 2 cores, 3 events of 12 types | 820 k | `EventsIntercepted`, `NoStaleControls` |
| `controls_users` | 1 core, 2 events, every other user | 2.18 M | `UnsharedEventsIntercepted`, `DebuggerExceptionsKept`, `IntegrityKept` |
| `bp_steps` | 2 cores, 3 addresses, 2 breakpoints | 2.63 M | `NoStrayInt3`, `EnabledArmed`, `InterruptFlagKept`, `MtfIffNeeded` |
| `ept_hooks` | 2 cores, 2 pages, 2 threads | 441 k | `HookInForce`, `UnhookAllRestores`; `BuffersLiveOnce` (refinement) |
| `session` | every command, 3 cores, 2 tags, fair | 306 k | `NoStaleAnswer`, `PromptAgrees`, `PacketsReachTheirReader`, `CommandsReturn` |
| `driver` | rings of 2, fair | 130 k | `IrpHasOneOwner`, `NoneStranded`, `ResourcesInPlace`; `RingsAreQueues` (refinement); `CommandsEnd` |
| `user` | 3 threads of 2 processes, 1 core, fair | 45 k | `PausedMeansHeld`, `DebuggeeUnharmed`, `PauseHolds`, `CommandsEnd`, `InterceptionCatches` |
| `events` | 2 cores, 2 events, fair | 116 k | `PerformedIntact`, `TriggersInForce`, `ClearEnds` |
| `events_walked` | the same, no refusals, `Passing` | | **violation** of `WalkedIntact` |
| `script` | about 900 scripts, 2 cores, fair | 122 k | `AcceptsWellFormed`, `RunsAsWritten`, `WritesOnlyItsView`, `ScriptEnds` |

Most modules have constants that switch collisions on which the code does not
withstand. The passing runs have them off, so that what they show is everything
else, and each section says what happens with them on and how to see it. Each
module also defines a `TypeOK`; the proofs have it, or as much of it as they need, in their
invariants.

## The halt protocol: `KdHalt.tla`

When a core hits a breakpoint, a step or an event, its vm-exit handler calls
`KdHandleBreakpointAndDebugBreakpoints`. It takes `DebuggerHandleBreakpointLock`,
becomes the *main debugging core*, locks its own `DebuggingState.Lock`, sends an NMI
to every other core and serves the debugger's commands in
`KdManageSystemHaltOnVmxRoot`. A core that receives the NMI in the guest locks its own
`Lock` and spins on it. A core that receives it in vmx-root sets `WaitingToBeLocked`
and the monitor trap flag (MTF), so that it halts after at most one guest instruction;
if it is itself spinning for the break lock it halts inside that loop.

### State and actions

| module | code |
|---|---|
| `pc`, `bpCaller`, `nmiCaller`, `idx` | the place of each core in these functions, their callers, loop variables |
| `DebuggerHandleBreakpointLock`, `DebuggerResponseLock`, `Lock` | the spinlocks of the same names |
| `MainDebuggingCore`, `WaitingToBeLocked`, `DoNotNmiNotify` | fields of `DebuggingState` |
| `NmiBroadcastAction`, `nmiPending`, `nmiBlocked` | the action left for a core; the processor's NMI latch and blocking |
| `mtf`, `IgnoreOneMtf`, `IgnoreMtfUnset`, `WaitForStep` | the VMCS control and the flags of `Mtf.c` |
| `PauseBreaks`, `HaltReason` | `g_IgnoreBreaksToDebugger`, `g_DebuggeeHaltReason` |

A step of the model is the code between two points at which another core can
observe or change shared state: acquiring a lock, each iteration of the unlock loop
and of the NMI compare-exchange loop, reading `MainDebuggingCore`, sending the packet.
`VmExit`/`VmEntry` bracket a handler. An NMI delivery is enabled at every point at
which NMIs are not blocked: in the guest it is a vm-exit
(`IdtEmulationHandleNmi`), in vmx-root the callback
`VmxBroadcastHandleNmiCallback`. `"leave"` is a handler about to enter the guest after an
NMI or MTF vm-exit, which cannot report a new break.

The commands are the four that change the halt state: continue, continue with
breaks ignored until the awaited message (`pauseBreaks`), the instrumented step and the
change of core. Other commands are answered in place and change none of these
variables. `Commands` selects those a run allows. `SettleBeforeCommand` says whether a
command may arrive while some core has yet to take its NMI: at human speed it does not
happen, over a script it can. `BreakWhileStepping` lets an event fire on the
instruction that is being stepped.

Left out: `NmiCalledInVmxRootRelatedToHaltDebuggee` (the code reads it only to decide
whether to clear it), an event on the NMI vector itself, trap-flag stepping, and the use
of the MTF by breakpoints (`Breakpoints`) and EPT hooks (`EptHooks`).

### Runs

`halt_switch` has breaks, core switches, pause-breaks and continues with settled
commands on three cores. A halted core has somebody to unlock it
(`HaltedHasOwner`), the next broadcast cannot hang with `DebuggerResponseLock` held
(`ActionHasNmi`), there is no unexplained MTF exit, and nothing deadlocks.
`halt_step` has instrumented steps and continues on two cores. The pause that ends a
step skips the broadcast, so from the step command to that pause the other core has to
stay halted, whatever NMIs and breaks were on their way (`OthersStayHalted`); every
pause packet has its reason, and under fairness a broadcast
halts the other core wherever it finds it (`HaltReaches`). The same configuration
with `N = 3` has 740,613 states and passes too; it takes twelve minutes because of
the liveness property.

What the runs leave out, because the model, like the code, breaks a property there:

* a command that overtakes an NMI (`SettleBeforeCommand = FALSE`) leaves the late core
  halted with no owner (`HaltedHasOwner`);
* an NMI between the last check and the last line of `MtfHandleVmexit` has its MTF
  unset, and the core runs on; `HaltReaches` names this window `Missed`;
* stepping and switching cores together: a core that was switched away clears
  `g_DebuggeeHaltReason` when it leaves, possibly after the next breaking core has set
  it (`Kd.c:1086`, `PauseHasReason`); and a stepping core that ignores
  an NMI leaves its action set (`ActionHasNmi`), at which the next broadcast stops. A
  core that was halted in the spin for its own break and is then switched to and stepped
  reports a pause without having run an instruction (`Kd.c:981`); no property
  promises otherwise;
* a stepped instruction that triggers an event (`BreakWhileStepping = TRUE`): the run then
  deadlocks.

*Bounds.* Two cores are enough for a break racing an NMI; the third lets one core
halt in the guest while another halts in the spin and a third commands, and lets a
switch go to a core that is neither. There is no bound on the number of breaks or
commands.

*Fairness.* Weak fairness of the steps of a core in vmx-root (nothing preempts it),
of vm-entry and of the delivery of a pending NMI. Strong fairness of the MTF
vm-exit: other vm-exits of the same instruction may come first, infinitely often in
principle, but the instruction eventually completes. No fairness is assumed of breaks
and commands.

### Proofs: `KdHaltProofs.tla`

For every number of cores and every set of commands, with or without settling:

* `TypeCorrect`: `TypeOK` is invariant. It is not inductive alone: a return reads the
  saved caller, so the invariant adds `Calls`, which says which locations have a caller.
* `OperatingCoreUnique`: `OneOperatingCore`. The strengthening `Roles` says what each
  location of the protocol implies about the lock and the main core, in particular for
  the location between the two assignments of `KdSwitchCore`.
* `BroadcastIsAnnounced`: `ActionHasNmi`, for command sets without the instrumented
  step. The restriction is real: a stepping core that takes an NMI ignores it.

The second half follows a halt from its announcement to its end, again for every number
of cores. The theorems build on `TypeOK`, `Calls` and `Roles`, and each assumes only what
excludes a collision of the list above:

* `HaltedAreOwned`: `HaltedHasOwner`, if commands settle. `Halting` extends the property
  from the halt itself to the whole way to it: a core whose halt is announced, is carried
  by the MTF or is being locked has an operating core that has not passed it in its unlock loop, or one
  that steps alone, during which all the others are halted.
* `MtfIsExplained`: `MtfHasReason`, if commands settle. `MtfKnown` says at which places
  of a core its MTF may be set and which of the flags of `Mtf.c` then is.
* `PausesAreExplained`: `PauseHasReason`, without core switches, whether or not commands
  settle. `BreakOwner` says which core the reason belongs to while one core after another
  leaves the previous halt.
* `StepsAreAlone`: `OthersStayHalted`, if commands settle, with every set of commands. It
  follows from `Halting`, whose part `Alone` says of a core that steps that every other
  core is in its spin with its own `Lock` held.

`HaltReaches` is liveness, outside the prover's reach.

## Events and their vm-exit controls: `ProtectedHv.tla`, `EventControls.tla`

An event (`!msrread`, `!exception`, `!interrupt`...) needs a vm-exit control on every
core it covers. Clearing it *terminates* it: the control is reset on all cores and
applied again for the other events of the list (`hv/debugger/core/Termination.c`).
Other parts use the same controls: the kernel and the user debugger and hidden
breakpoints need #BP and #DB, transparent mode rdtsc exits, the interception of a
process's threads mov-to-cr3 exits and #PF, and a pending thread or process switch
clock interrupts, debug registers or mov-to-cr3. `hv/vmm/vmx/ProtectedHv.c` is the
set of routines that decide, when one of them gives a control up, whether another
still needs it.

### State and actions

`ProtectedHv` has no state: each routine is an operator from the controls of one core
to the controls it leaves, given the event lists and the other users. `EventControls`
is the state machine around it.

| module | code |
|---|---|
| `events` | the event lists of `g_Events`, in one sequence, newest first |
| `vmcs` | per core: exception bitmap, I/O and MSR bitmaps, CR masks, the one-bit controls |
| `triggers` | `g_TriggerEventForVmcalls`, `g_TriggerEventForCpuids` |
| `users` | the flags and counts the routines consult (`g_KernelDebuggerState`, `g_UserDebuggerState`, `g_TransparentMode`, hooked pages, `g_CheckPageFaultsAndMov2Cr3VmexitsWithUserDebugger`, the per-core switch-detection flags) |
| `phase` | processes in `IsOnThreadInterceptingPhase` |
| `initial`, `byClock` | `InitialSetThreadChangeEvent`, `InitialSetProcessChangeEvent`, `InitialSetByClockInterrupt` |
| `masked` | `EnableExternalInterruptsOnContinue` |
| `clearing`, `done` | the loop that clears all events and how far it is |

Registering, clearing and the `Configure` actions are requests from user mode. Each is
one step: the controller sends one at a time, and the DPCs it broadcasts are waited
for. They need a running debuggee, because a DPC does not run on a held core. Clearing
*all* events is a loop and is modelled as one (`ClearAllEvents`, `TerminateNext`,
`RemoveAllEvents`), so that halts and cr3 exits fall between its iterations. `HaltCore`,
`ContinueCore`, `GuaranteedStep` and `AttachingHandleCr3Vmexits` are steps of one core in
vmx-root. Terminating one event is one step on all cores, although the code broadcasts the
reset (`Termination.c:37`) and then applies the other events of the list with a broadcast each
(`63-76`): in between, the others are not intercepted on the cores that were
reset. The properties speak of the states before and after, and a halt or an exit
between two of these broadcasts is left out. `Features` selects the requests a run allows.

Left out: event conditions, actions and validation (an event of the model is one that
passed validation; `EventList` has conditions and actions), EPT-hook events
(`EptHooks`), the MSRs the "all MSRs" bitmap excludes (`Msrs` stands for the others), and the NMI-exiting and
acknowledge bits that go with external interrupt exiting.

### Runs

`controls_types` registers and clears events of twelve types, up to three at a time on
two cores, with transparent mode going on and off: clearing any event leaves the
others intercepted and no control behind. `controls_users` has one core with
exception, interrupt and debug-register events, the kernel and the user debugger,
hidden breakpoints, thread interception, process and thread switches, steps and
clear-all, so that halts fall between the iterations of a clear-all: #BP and #DB
are never taken from their users, nor any other control from whoever relies on it.

Deadlock is checked in both. They leave out the combinations in which the model,
like the code, breaks the property:

* IN with OUT: they share a control but only one list is applied again
  (`EventsIntercepted`, with both in `Types`);
* SYSCALL with SYSRET: clearing one kind turns the EFER hook off under the other
  (`Termination.c:1012`), as with IN and OUT;
* two control-register events with different masks on one register: the last one
  decides (`ProtectedHv.c:507`);
* an exception event on #BP or #DB while the kernel debugger is uninitialized: the mask
  of needed exceptions is built by or-ing vector numbers and not bits (`Debugger.c:1648`),
  so `controls_users` checks `UnsharedEventsIntercepted` in place of `EventsIntercepted`;
* clearing all of two events of one type: terminating the second applies the first
  again, and its control stays on (`Debugger.c:1496`, `NoStaleControls`);
* a process and a thread switch asked for in one halt: the by-clock flag is cleared
  between the two (`Kd.c:445`);
* two cores waiting for a process switch: mov-to-cr3 exiting of one is kept for the
  flag of core 0 (`ProtectedHv.c:607`); with `Core2`, interrupt events and thread
  switches the same core-0 test takes a control away (`IntegrityKept`);
* two intercepted processes: one flag serves both (`Attaching.c:701`, `IntegrityKept`).

*Bounds.* Three events let one be cleared while two of its list, or one of its list and
one of another, stay; two cores let an event cover one, the other or both. One hooked
page and one process are enough to have a user come and go. No counter other than the number of events and
of hooked pages is bounded.

### Proofs: `EventControlsProofs.tla`, `EventSharingProofs.tla`

For every number of cores, every set of types, parameters, masks and features, and any
bound on events:

* `TypeCorrect`: `TypeOK`.
* `ExceptionsKept`: `DebuggerExceptionsKept`. No sequence of events, halts and other
  users takes from a debugger the exceptions it lives on.
* `UnsharedIntercepted`: `UnsharedEventsIntercepted`. The event types with a control of
  their own (MSR reads and writes, rdtsc, rdpmc, debug registers, external interrupts)
  are intercepted until terminated. The other types are the ones of the list above,
  so the restriction is real.

The inductive invariant `IInv` adds to the two properties the types and the fact that
an event counts as terminated only while all events are being cleared; without it a
new event could be born terminated. The proof is in three parts. The routines of
`ProtectedHv` on one core: whatever mask is written, the integrity check leaves what the
users need and touches nothing else. Applying and terminating an event on one core:
a reset that spares the other types, followed by applying the rest of the list, leaves
every other event what it had. The actions: each is one of the two, on one core or
on all of them, with the events or the users changed. The assumptions are the ones
named in the modules: core 0 exists, `AllCores` and `All` are neither a core nor a number,
and parameters have the shape that validation lets through.

`EventSharingProofs` proves the three properties about what is shared, again for any
cores, types, parameters and bounds. None of them holds of every combination, so each
theorem has as hypothesis what keeps the items of the list above apart, and no more;
the instances of the runs satisfy it.

* `EventsStayIntercepted`: `EventsIntercepted`, under `NothingShared`: not both IN and OUT,
  not both SYSCALL and SYSRET, one mask per control register, and exception events on
  vectors that no other user of the instance takes away when it goes (`Contested`).
  The invariant adds to `IInv` that each event that is not terminated has what
  it needs of the shared controls and its trigger (`SharedServed`), and that a user is there
  only if the instance has it (`Featured`). That a non-empty set of indexes of the list has a
  greatest one (`Ordered`: the last mask of a register wins) is an induction over data, so it
  is carried through the actions as an invariant too. The lemmas say of each routine what it may
  take (`Spared`): nothing but contested vectors, and those only after the events' mask
  was written.
* `IntegrityHolds`: `IntegrityKept`, under `OneProcess` (one flag serves the interception of
  all processes) and `StepsOneCore` (the routines look at core 0, and a core stepped alone is
  where core 0 is not). A routine that asks core 0 about a switch is right on core
  `c` only if `c` waits for the same. So the invariant `RInv` says when a core waits for which
  switch (`Switches`), and that cores on the same side of a halt or a continue wait for the
  same, while one that has crossed is where the others will be (`Alike`).
* `NothingStale`: `NoStaleControls`, under `CleansUp`: without the user debugger (its end
  leaves the exception bitmap), hidden breakpoints (a hook that fails leaves #BP exiting)
  and clear-all, and with process switches and steps on one core only. The invariant `NInv` says of every
  control who wants it (`Clean`), which is more than the property, which only speaks of
  the states where no one is left to want any: an event that is cleared takes its
  control with it unless another user is named, through all the halts between.

TLC checked `IntegrityKept` with `Switches` and `Alike`, and `NoStaleControls` with `NInv`, on
instances with the other users (two cores, two events) before they were proved.

## Software breakpoints: `Breakpoints.tla`

A breakpoint is a descriptor in `g_BreakpointsListHead` and a 0xcc in the guest's
code. A core that hits it reports, gets the original byte back, runs one instruction
under the MTF with interrupts masked, and re-applies the 0xcc in `MtfHandleVmexit`. The
byte, the descriptor and the interrupt flag to restore are shared by all cores; the
MTF is also used by the instrumented step.

`mem`, `desc`, `list` and `lastId` are the code bytes, the descriptors, the list and
`g_MaximumBreakpointId`; `swBp`, `mtf`, `ignoreUnset`, `stepWait` are the fields of a core
that the two users of the MTF share; `pc`, `from` and `hit` are its place in the handler.
The actions are an instruction of the guest, the handlers of #BP and of the MTF, `bp`, `be`,
`bd`, `bc`, the step, continue, and `BreakpointRemoveAllBreakpoints`. The halt is the one `KdHalt` promises: one
operating core, the others stopped. Breakpoints may be scoped to one core
(`Scopes <- EveryOrTwo`), and one address holds an int3 of the guest's own.

`bp_steps` checks that the code differs from the original only by the 0xcc of enabled
breakpoints (`NoStrayInt3`), that an enabled breakpoint is in memory or about to be
(`EnabledArmed`), that the interrupt flag comes back, and that the MTF is set exactly when
a step or a re-apply is outstanding. Deadlock is checked. Two breakpoints let one be
stepped over while the other is hit, disabled or cleared; identifiers are not
reused, so `MaxBreakpointId` bounds the number of `bp` commands.

`QuietCommands` is the operator's discipline: no `be`, `bd` or `bc` of a breakpoint that another
core has hit or is still to re-apply, and no further step by a core that stepped onto a
breakpoint and then had it disabled or cleared in that halt. Without it
`NoStrayInt3`, `InterruptFlagKept` and `MtfIffNeeded` fail: for example a step is lost on a
breakpoint disabled at that address, because `Mtf.c:187` overwrites the flag that
`Kd.c:1181` ("Not unset again") has set. `InterruptFlagKept` excepts cores that step over one
breakpoint at the same time (`overlapped`): the flag is kept in the shared descriptor.
A step onto a breakpoint that is scoped to another core is not reported, and the other cores
stay held with no operating core. After the debugger is closed a step that was
outstanding still halts, and `bp` still finds the list; the model keeps both.
`BreakpointRemoveAllBreakpoints` is one step, and a failed allocation is a refused `bp`.

### Proofs: `BreakpointsProofs.tla`

`CodeKept`, `BreakpointsArmed`, `MtfExact` and `InterruptFlagRestored` establish the four properties
for every number of cores, addresses, breakpoints and scopes, from `QuietCommands` and
`NoAliases` (no two addresses of one physical byte: with aliases two descriptors save
each other's 0xcc). None of the four is inductive: what a core will write depends on
its place in the handler. `IInv` adds to them

* on the bytes: one descriptor per address (`Unique`), whose saved byte is the guest's
  own (`SavedByteIsOwn`), and which is re-applied exactly when enabled (`DescOK`);
* on each core: that the descriptor in hand is the one at `rip` (`HitOK`), that the
  one stepped over stays enabled and listed until it is re-applied (`OverOK`), the MTF against its
  reasons at every location (`MtfOK`), and who will restore the flag (`MaskOK`).

The proof has lemmas for the search of the list and for a change of one byte or one
descriptor, and then a step per action, with the bytes and the cores apart.

## EPT hooks and their buffers: `PoolManager.tla`, `EptHooks.tla`

Hidden breakpoints, detours and monitors change the EPT entry of a page. The code
that installs them may run where memory cannot be allocated, so the records,
split tables and trampolines are buffers of the pool manager: requested ahead into
slots, allocated by the next IOCTL of any thread, handed out and given back on any
core.

`PoolManager` has the table (`pools`), the request slots, the two flags and each thread's
place in `PoolManagerCheckAndPerformAllocationAndDeallocation`, whose steps interleave
between threads. Inserting a new buffer is two of these steps, because `InsertHeadList`
takes no lock here: it reads which entry is the first (`ServeSlot`) and makes the new one
the first (`LinkEntry`). `EptHooks` composes it with the page table (`entry`, `table`), what each
core has cached (`tlb`), the records (`hooked`, `listed`), each core's restore point and
the worker thread that installs and removes hooks, with the DPC it waits for.

`ept_hooks` checks that swapping an entry for one instruction and back on several
cores always ends with the hook in force, that a core runs past a hook only with a
translation cached while another core had the entry swapped (`HookInForce`; only the
calling core invalidates), that removing everything restores every page
(`UnhookAllRestores`), and that buffers live once (`BuffersLiveOnce`: the pool manager
implements `PoolLifecycle`). Two cores and two pages of different large pages, three
kinds of hook; one buffer of each intention and two slots, so that requests fail at
every point of an installation. `MaxRequests` bounds hooks and other threads' IOCTLs,
`MaxUnhooks` single removals. Cores and pages are symmetric; deadlock is not checked
because the run ends when the requests are used up.

The model keeps what the code does, including:

* `EptHookFindByPhysAddress` assigns to its parameter, so `EptHookRestoreSingleHookToOrginalEntry` never finds a
  record and a single removal leaves the entry hooked (`EptHook.c:43-57`; the comment at
  `EptHook.c:1410` says it is restored). `unhookedOne` excepts such pages;
* a second hidden breakpoint on a page makes a second record whose original entry is the
  first record's (`Ept.c:642`);
* an instruction that touches two hooked pages overwrites the one restore point
  (`TwoPageAccess = TRUE` violates `HookInForce`);
* a split table is given back while it is in use (`EptHook.c:1055`), and a detour without
  details buffer writes through NULL (`EptHook.c:794-795`; `"crashed"`);
* a thread that inserts while another inserts loses the other's entry, and one that
  inserts before an entry that is released meanwhile links to freed memory
  (`PoolManager.c:283`; the comment at `238` counts on a single caller, but every IOCTL
  calls it). `Overtaking = TRUE` has both and violates `BuffersLiveOnce`; the
  run has it off. The loop that releases entries reads the link of the entry it has
  just freed (`PoolManager.c:342-386`), which the model takes as intact;
* two threads in the pass can lose a request (`PoolManager.c:200-201`, `391-392`): the
  lifecycle allows it, since it promises no buffer.

### Proofs: `EptHooksProofs.tla`

For every number of cores, pages, threads, slots and buffers, if no insertion into the
table is overtaken (`~Overtaking`):

* `Refinement`: `BuffersLiveOnce`. The mapping (at the end of `PoolManager`) takes the
  addresses ever used, and the entries that are free, busy and to be freed. The invariant
  needed is that the table is well formed (`TableOK`), that the entry a thread read as the first
  still is (`Inserting`), and that every address the hooks
  hold is of a busy buffer or of one that is gone (`Holders`), so that giving it back is
  a `Return`.
* `HooksStayInForce`: `HookInForce`, if no instruction touches two hooked pages
  (`~TwoPageAccess`; the one restore point is the reason).
* `RemovingAllRestores`: `UnhookAllRestores`, whatever an instruction touches.

The last two rest on one invariant, `Machine /\ Job`. A page's entry is its own only
while some core has a restore point for it (`Entries`), a restore point names a
record of the page the core trapped on (`CoresOK`), and a core has the page's own entry cached
only if it looked while another core stepped, or has an invalidation pending (`Cached`).
The order of the list matters: the original entry of a page's record may be an older
record of the page. So records carry the position at which they were listed (`nth`) and originals
point to smaller ones (`Records`); the oldest record, the last one that
`EptHookUnHookAll` restores, then has the page's own entry as its original. `Restored` says
what that removal has done to each core before and after its DPC.

## Event lists: `EventList.tla`

Every exit walks the list of its event type without a lock while an IOCTL
registers, enables, disables and clears events. A walk step is one event or one
action, which may be a script that enables or disables an event of the list
(`Functions.c:571`, `596`); `next` are the forward links, `mem` says which buffers are freed, `armed` the
cores that take exits, and `seen` records for each walk which events were in force
throughout and which at some time. `ioctl` is the progress of a clear: the step it is at
(disable, terminate, unlink, free), the event it has reached, whether it goes on to the next
one of the list, and the cores the broadcast has yet to reach. The list is what the links
make of it: `Chain(links, n)` is the least set that has `n` and follows the links, and
`InList` the chain of the head's link.

`events` checks that a core performing an event's actions finds them (the broadcast of
the termination runs on each core between its exits, which is what makes the free
wait), that an exit performs every event in force throughout, at most once and none
that was disabled before it began, and that clearing ends. Fairness: walks and the
clearing thread weakly, the DPC on each core strongly, since exits of the guest come between.

`events_walked` is the one violation. The code's reasoning is "we first disable the
tag(s) and this way the debugger no longer use that event and this way we can safely
remove and deallocate the buffers later after termination" (`Debugger.c:3188-3190`, and the
same at `3158-3160`). The walk reads the links of disabled events too: an event is cleared; a
core serves the broadcast of its termination, takes its next exit and steps onto the
disabled event; the other core serves the broadcast; the event is unlinked and freed
under the first. The run has `Refusal = FALSE`, so that clearing is the only way to
free an event. A registration that is refused (`Debugger.c:2728-2735`) unlinks and frees the new
event with no broadcast at all, and gets to the same state sooner.

Each collision the code does not withstand is a constant, off in `events`:

| constant | what it adds | breaks |
|---|---|---|
| `Passing` | an event is freed while a core stands on it, as above | `TriggersInForce` |
| `Reenabling` | a script enables an event that is being cleared, after it was disabled | `PerformedIntact` |
| `NonRoot` | the walks of detours run in VMX non-root mode (`DebuggerEvents.c:64-97`), so the broadcast interrupts them | `PerformedIntact` |
| `Replacing` | the first hidden-hook or detour event that matches replaces the context (`Debugger.c:938`, `994`), which the later ones are compared with as if it were the structure; the comparison may then say anything | `TriggersInForce` |
| `Broadcast = FALSE` | cpuid and vmcall events are terminated by a flag (`Termination.c:598-665`) | `PerformedIntact` |

So what `events` shows is of the types that are walked in vmx-root, terminated by a
broadcast and compared with a plain value: interrupts, exceptions, MSRs, ports,
time-stamp and performance counters, debug and control registers.
`g_EnableDebuggerEvents` is set before there are events and never cleared, so the test of
it has no action. Also met: an action's buffer is read after it was freed
(`Debugger.c:1848-1870`), an event whose action could not be allocated is enabled
(`2807-2859`), and actions run newest first, against `Debugger.h:179`.

### Proofs: `EventListProofs.tla`

For any cores, events, filters and numbers of actions, with scripts that enable and disable
events at any time, and with `Broadcast`, `~NonRoot` and `~Reenabling`:

* `ActionsIntact`: `PerformedIntact`. The invariant `Cleared` says what each step of a clear
  has reached: what is to be unlinked is disabled, and no core that the broadcast has
  passed performs it any more.
* `ExitsTrigger`: the action property `TriggersInForce`, if in addition no core stands on an event that is
  freed (`~Passing`) and the context stays what it was (`~Replacing`). `Walks` relates a core's walk to the list it is in: each event in force since the walk
  began has been performed or is ahead, none is performed and ahead.

Both rest on `Shape` (the links have no cycle and lead only to live events; the event that was unlinked and is
to be freed still links into the list) and on lemmas about `Chain`: what inserting at the head and removing
an entry do to the chain of every node. `Chain` being a least set, a chain is compared with
the sets closed under the links, and no induction over the list is needed.

## Message tracing and the driver: `LogTracing.tla`, `Driver.tla`

`LogTracing` has both message pools, each with a ring of regular and one of priority
buffers, the accumulated messages, and the notify record with its DPC and the
reader's pending IRP. `Driver` composes it with the application: installing and
starting the service, `load vmm` with its chain of allocations, the reader thread,
IOCTLs, `unload vmm`, stopping and removing. `live` counts the allocations of each
resource that were not freed and `known` those a pointer leads to.

`driver` checks that the rings implement the FIFO queues with priority of `LogQueue`
(`RingsAreQueues`; the mapping reads a ring from its send index), that a waiting IRP
is owned by its record or its DPC (`IrpHasOneOwner`), that no message waits for another to
arrive (`NoneStranded`), that allocations are made and freed once and handlers find them
(`ResourcesInPlace`), and that load, unload and stop end (`CommandsEnd`). Rings of two
buffers wrap after two messages; `MaxUnread` bounds messages in flight to two, `MaxLive`
the count of one resource. Fairness is weak, of the threads, the DPC and the unload:
the code uses ordinary Windows threads. Deadlock is checked.

What the run leaves out:

* `Races`: a writer that laps the reader overwrites unread buffers (`"overrun"`,
  `Logging.c:262-264`, `RingsAreQueues`); two pools, each under its own lock, use the notify
  record at once (`"notify"`, `304-323`); a message between the check of the rings and the
  registration of the IRP waits for the next one (`"register"`, `1216-1267`, `NoneStranded`);
* `Settle = FALSE`: without the assumption that `Sleep(1000)` outlasts the reader, a second
  reader starts beside the first (`ctrl/app/hprdbgctrl.cpp:761`);
* `FailAt`: the run has a refused open; a failure inside the chain leaves what was allocated
  (`{"support"}` violates `ResourcesInPlace`). A reload leaks the script variables
  (`Driver.c:237`). `Driver.c:205-210` says a second handle is refused and the code accepts it,
  which the reader thread depends on.

### Proofs: `DriverProofs.tla`

For buffers of every size, any lengths and texts of messages and any number of loads:

* `IrpIsOwned`: `IrpHasOneOwner`, unless the two pools race for the notify record; full rings
  and late registrations are included. The invariant is `Owned`: types, `ReaderOK` (where
  the reader thread is while its IRP is pending, and that it has the device open) and `OwnerOK` (the
  pending IRP is in the record or with the DPC, in both only while the one sender that has found the
  record has queued the DPC and not yet reset the record).
* `NoneIsStranded`: `NoneStranded`, with no race. `RingsOK` says that each ring holds its
  messages in one run of `n` buffers that starts at the send index and ends at the write index, both taken
  modulo the ring's size; so a test of the one buffer at the send index, which is what
  the code does, sees whether the ring is empty. `Quiet` says that while a record waits, a message that is in a
  ring has a sender that is about to look at it.
* `ResourcesStayInPlace`: `ResourcesInPlace`, if the load meets no error but the missing privilege and
  `Sleep(1000)` outlasts the reader; messages may race. `LifeOK`, `LaunchOK` and `KnownOK`
  say what each stage of the main thread and of the service has allocated, and that a pointer leads to it.
* `RingsImplementQueues`: `Spec => RingsAreQueues`, under all of these. With `RingsOK`, `Waiting(r)` is the
  run of `n` buffers in order (`WaitingInOrder`); sending appends to it, the DPC takes its head and only if the
  priority ring is empty, flushing empties it, and unloading empties all. Every other step leaves the rings alone.

`CommandsEnd` is liveness.

## The remote session: `KdProtocol.tla`, `Commands.tla`, `Session.tla`

`KdProtocol` is the conversation as tables: what each request of `kd.cpp` sends and waits
for, what `KdDispatchAndPerformCommandsFromDebugger` answers, and which events the
listening thread sets. `Commands` gives, for every command of the controller and every state
it looks at, the programs it may run: packets, waits, IOCTLs and effects. `Session` runs
them: the main thread, the listening thread and CTRL+C threads on the host, the two
directions of the line, and on the debuggee vmx-root mode, the reader of the kernel's
log and the thread that waits for a pause request.

`session` types every command with a program of its own in every order and checks that
no request finds an event already set (`NoStaleAnswer`), that at the prompt the
controller's picture of the debuggee is right (`PromptAgrees`: halted, core, tags), that
packets are read by the actor they are for, and that commands and CTRL+C return, also
when the debuggee dies. Two tags, step counts 1 and 2 and one CTRL+C at a time; three
cores so that a switch has a choice. Fairness is weak, of every thread of both sides.
The line is a queue of packets without loss: a damaged packet is dropped by the code with no
resend. `exit`, `pause` and `settings` are not typed: the first ends the program, and the others only
lead to a clear with paused output and auto-flush on, where the listening thread waits
for an answer that only it could read (`FlushFirst`, `events.cpp:575`).

`Crossing` lists timings that break it, each with what it does: `"hit"`, `"break"` and
`"steal"` (`PacketsReachTheirReader`: the pause thread and the halted core take each
other's packets), `"type"` (deadlock: the request is read while the debuggee runs, `kd.cpp:184`
waits for ever), `"crash"` (a tag stays in `g_EventTrace`), `"leave"` (a closed session's events stay
in the debuggee, so `PromptAgrees` fails on the tags).

## The user-mode debugger: `UserDebugger.tla`

Attaching makes the user-mode part of a process's page tables fault. A thread that
faults is sent to a sled of NOPs and CPUIDs; each CPUID exits and serves one command of
the thread. The model has Windows' view (`prog`, `run`, `hw`), the page tables and #PF bits,
the kernel's process and thread details, the entry-point breakpoint of `.start`, the log with
the pause packets, and the controller's active thread and command.

`user` checks that the sled, the details and the controller agree on who is paused
(`PausedMeansHeld`), that a debuggee never sees a fault or trap the debugger provoked
(`DebuggeeUnharmed`), that a thread pauses with no command left over (`PauseHolds`), that `t`
and `.start` return, and that intercepted threads are all caught. One process with two
threads and a started image with one; holders of one thread so that a second is
needed; one core, since a second does not fit the liveness check (the safety
properties hold with two cores too, 312,095 states). Fairness is strong for a thread's steps,
which Windows may preempt again and again but not for ever, weak for the scheduler,
the kernel's pending requests and the pausing reader.

`Crossing` names the collisions of commands with work left by earlier ones, listed in the
module. `"command"` and `"serve"` break the controller's part of `PausedMeansHeld`, `"sled"` the
kernel's part, `"fault"`, `"core"` and `"two"` break `DebuggeeUnharmed`, `"unload"` leaves page tables
blocked. With `"over"` in `Steps`, `p` never pauses again (`CommandsEnd`). The shipped build has
this debugger switched off (`include/Configuration.h:69`).

### Proofs: `UserDebuggerProofs.tla`

For any cores, threads, processes, images and numbers of page tables, holders and command
slots:

* `PausedIsHeld`: `PausedMeansHeld`, and `PausesHold`: `PauseHolds`, if commands do not cross
  (`Orderly`: of the collisions only `"fault"` and `"core"` are allowed).
* `DebuggeeNoticesNothing`: `DebuggeeUnharmed`, if nothing crosses anything and a process has no
  more page tables than there are slots for them (`Gentle`).

The invariant `Inv` (theorem `UserDebuggerInv`) is about threads in flight, those with a command
to serve or a step to finish. While there is one, nothing else goes on: no process is
intercepted, no entry point awaited and no pause unread (`Flights`). With it go what the kernel
holds (`Held`), one command per thread and only for paused ones (`Slots`), tokens that tell processes
apart (`Tokens`), what the controller shows (`Shown`), the request it is performing (`Asked`)
and a started image on its way to its entry point (`Started`).

## Scripts: `ScriptEngine.tla`, `ScriptEval.tla`, `ScriptSource.tla`, `Script.tla`

`ScriptEngine` is `CodeGen`: what each semantic rule does to the stack, the code buffer, the
map of temporaries and the identifier table. `ScriptEval` is the evaluator, one instruction at
a time, on registers scaled so that a byte is one bit. `ScriptSource` is the reference:
scripts as trees, the items the grammar makes of them, when they are well formed, and their
meaning by recursion on the text. `Script` compiles scripts one after the other and runs
them on several cores.

`script` compares code with meaning for about nine hundred scripts: every operator and
function, nested expressions, every statement in every loop and conditional, every
register view, refusals and run-time failures, sequences of three, and scripts
on two cores that share memory under a lock or interlocked functions, which must have the effect of
some serial order (`RunsAsWritten`). `AcceptsWellFormed` is the compiler's verdict,
`WritesOnlyItsView` that a write to `ah` or `zf` changes nothing else, `ScriptEnds` termination, with weak
fairness of the parser and of each core. The end of the last script is a real end, so
deadlock is not checked. `Fuel` marks a script as endless. `MaxTemps` is the number of
temporaries, exactly what the scripts need three in a row (with 5 in place of 6
`AcceptsWellFormed` is violated), so that a rule that forgets to give one back is noticed. The code
has 128 (`script-engine`'s `globals.h:16`) and forgets some: the condition of a `for`, arguments of
printing functions, results nobody uses. They are in the model, the instance has room for
three scripts' worth of them, and in the code a long enough series of scripts
makes the compiler refuse a well-formed one.

`MCScript` names the scripts on which the code does not do what they mean, and leaves them
out of the list (`Scripts <- LeftOut` has only them): `continue` in a `for` loop or in a `while` loop
inside one (`Continuing`, miscompiled); `break` and `continue` in no loop and no
conditional (`Unstacked`: `script-engine.c:1328` pops a stack that is empty,
`common.c:353-365`); and `dd` and `dw` of values wider than a word (`Wide`: `Keywords.c:162-221`
reads a word for `dd` and a double word for `dw`; `ScriptEval` does the same and
`ScriptSource` says what the names mean). Left out as well are expressions that need more
temporaries than there are, and unlocked `++` of a global by two cores, which is a read and a write. `&&` and `||`
compile to the bitwise operators, and the reference says so too. Not in
`ScriptEval`: `strlen`, `wcslen`, address conversion, printf's formatting, flags above bit 7 and the
user-mode build. Values written to control registers are assumed to be accepted.

## What is proved and what is only checked

| theorem | module | property |
|---|---|---|
| `TypeCorrect` | `KdHaltProofs`, `EventControlsProofs` | `TypeOK` |
| `OperatingCoreUnique` | `KdHaltProofs` | `OneOperatingCore` |
| `BroadcastIsAnnounced` | `KdHaltProofs` | `ActionHasNmi`, without steps |
| `ExceptionsKept`, `UnsharedIntercepted` | `EventControlsProofs` | `DebuggerExceptionsKept`, `UnsharedEventsIntercepted` |
| `CodeKept`, `BreakpointsArmed`, `MtfExact`, `InterruptFlagRestored` | `BreakpointsProofs` | the four of `bp_steps` |
| `EventsStayIntercepted` | `EventSharingProofs` | `EventsIntercepted`, if no control is shared |
| `IntegrityHolds` | `EventSharingProofs` | `IntegrityKept`, one process, steps on one core |
| `NothingStale` | `EventSharingProofs` | `NoStaleControls`, without the users that leave something |
| `Refinement`, `RemovingAllRestores` | `EptHooksProofs` | `BuffersLiveOnce`, `UnhookAllRestores`, no insertion overtaken |
| `HooksStayInForce` | `EptHooksProofs` | `HookInForce`, the same and one hooked page per instruction |
| `HaltedAreOwned`, `MtfIsExplained`, `StepsAreAlone` | `KdHaltProofs` | `HaltedHasOwner`, `MtfHasReason`, `OthersStayHalted`, if commands settle |
| `PausesAreExplained` | `KdHaltProofs` | `PauseHasReason`, without core switches |
| `ActionsIntact` | `EventListProofs` | `PerformedIntact`, vmx-root walks, broadcast, nothing enabled while cleared |
| `ExitsTrigger` | `EventListProofs` | `TriggersInForce`, the same, no core on a freed event, one context |
| `IrpIsOwned`, `NoneIsStranded`, `ResourcesStayInPlace` | `DriverProofs` | the three invariants of `driver` |
| `RingsImplementQueues` | `DriverProofs` | `RingsAreQueues` |
| `PausedIsHeld`, `PausesHold` | `UserDebuggerProofs` | `PausedMeansHeld`, `PauseHolds`, if commands do not cross |
| `DebuggeeNoticesNothing` | `UserDebuggerProofs` | `DebuggeeUnharmed`, if nothing crosses |

The other properties are model-checked on the instances above. Liveness needs fairness and
ENABLED, which the prover does not have; what scripts compute is defined by recursion on
the text, which needs induction over data (lists and rings do without: a list is a least
closed set, a ring a run of a given length). The session's safety properties are not
proved: an invariant for them has a case for each step of each command of the controller,
in each state of the line and of the debuggee's threads.

## Not modelled

* **Pending external interrupts** (`hv/vmm/vmx/IdtEmulation.c:358-386`, `444-660`): a queue of one core that
  only that core touches; when it is drained is decided by the processor's interrupt window.
  Continue and core switch look at its first entry only (`Kd.c:560`, `743`, `Mtf.c:126`).
* **Event forwarding** (`ctrl/debugger/communication/forwarding.cpp`): its sources belong into
  `Driver`'s reader thread, and the product is beyond what TLC enumerates. The reader forwards a message to the
  first event with custom output without comparing its tag (`ctrl/app/hprdbgctrl.cpp:373-412`).
* **Serial framing** and `kdserial`: bytes to packets by an end sequence and a checksum, with one reader
  at a time. `Session` starts from packets.
* **Memory mapper, page walks, MTRRs, the VMCS layout, vm-exit dispatch, instruction emulation,
  detour machine code, assembly**: encodings and register loads with no state of the debugger between steps.
* **Queries** (memory, registers, MSRs, page tables, call stack, search, processes, threads, modules): one synchronous copy each.
* **Symbols, disassembler, display, sockets, named pipes, transparency statistics, SSDT walks**: libraries,
  system calls, formatting, floating point.
* **Generated parse tables** and the scanner's characters: `ScriptSource` starts from the items the grammar emits.
* **Test programs** (`hyperdbg-test`).
* In modelled parts: validation of requests and the commands that only print;
  `Logging.c:140-145`, `158-193`, `765-898`, `1287-1340`; the thread listing
  of `ThreadHolder.c:490-620`; `AttachingRemoveAndFreeAllProcessDebuggingDetails`'s read of a freed entry (`Attaching.c:231-246`).
