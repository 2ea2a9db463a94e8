------------------------------- MODULE Driver -------------------------------
(* The driver's life, seen from the application that loads it: service       *)
(* install and start (install.cpp, Driver.c), `load vmm` (HyperDbgLoadVmm,   *)
(* DrvCreate), IOCTLs (DrvDispatchIoControl), the thread that reads the      *)
(* driver's messages (ReadIrpBasedBuffer), `unload vmm` (HyperDbgUnloadVmm,  *)
(* DrvClose) and the removal of the driver (DrvUnload).  The main thread and *)
(* the reader thread each hold a handle of the device.                       *)
EXTENDS LogTracing, Sequences

CONSTANTS
    Settle,   \* Sleep(1000) in HyperDbgUnloadVmm outlasts the reader thread
    FailAt,   \* initialisation steps that may fail
    MaxLive   \* bound: allocations counted of one resource

ASSUME DriverAssumption == MaxLive \in Nat \ {0}

VARIABLES
    service,   \* the service: "absent", "stopped", "running", "stopping"
    deleting,  \* the service is marked for deletion
    main,      \* the main thread: "idle", or where it is in a command
    removing,  \* the command is `unload remove vmm`
    modules,   \* g_IsDebuggerModulesLoaded
    event,     \* g_IsDriverLoadedSuccessfully is signalled
    reader,    \* the reader thread
    handles,   \* threads that have the device open
    inUse,     \* g_HandleInUse
    allow,     \* g_AllowIOCTLFromUsermode
    vmxOff,    \* g_IsVmxOffProcessStart
    launched,  \* the cores run as guests
    live,      \* per resource: allocations that were not freed
    known      \* resources a pointer of the driver leads to

svcVars == <<service, deleting>>
appVars == <<main, removing, modules, event, vmxOff>>
driverVars == <<inUse, allow, launched, live, known>>
lifeVars == <<svcVars, appVars, reader, handles, driverVars>>
vars == <<logVars, lifeVars>>

Threads == {"main", "reader"}

\* The allocations of a load, in order.  "support", "launch" and "attaching" are
\* steps that allocate nothing.
VmxAllocateRegions == <<"vmxon", "vmcs">>
VmxAllocatePerCore == <<"stack", "msrBitmap", "ioBitmaps">>
VmxPerformVirtualizationOnAllCores == <<"support", "eptState", "pools", "eptTable">> \o VmxAllocateRegions
VmxInitialize == VmxPerformVirtualizationOnAllCores \o VmxAllocatePerCore \o <<"invalidMsrs", "launch">>
DebuggerInitialize == <<"events", "scriptGlobals", "scriptLocals", "nmi", "attaching">>
CreateSteps == <<"mapper">> \o VmxInitialize \o DebuggerInitialize
DriverEntry == {"log", "guestState"}
ToSet(steps) == {steps[i] : i \in DOMAIN steps}
Resources == (ToSet(CreateSteps) \ {"support", "launch", "attaching"}) \cup DriverEntry

\* What is freed when the hypervisor is turned off.
VmxTerminate == ToSet(VmxAllocateRegions) \cup ToSet(VmxAllocatePerCore)
VmxPerformTermination == VmxTerminate \cup {"invalidMsrs", "eptTable", "eptState", "pools"}
DebuggerUninitialize == {"nmi"}
MemoryMapperUninitialize == {"mapper"}
VmmResources == VmxPerformTermination \cup DebuggerUninitialize \cup MemoryMapperUninitialize

TypeOK ==
    /\ LogTypeOK
    /\ service \in {"absent", "stopped", "running", "stopping"} /\ deleting \in BOOLEAN
    /\ main \in {"idle", "opening", "starting", "loading", "terminate", "return", "flag", "sleep",
                 "stop", "remove"}
    /\ removing \in BOOLEAN /\ modules \in BOOLEAN /\ event \in BOOLEAN
    /\ reader \in {"none", "open", "loop", "register", "wait"}
    /\ handles \subseteq Threads
    /\ inUse \in BOOLEAN /\ allow \in BOOLEAN /\ vmxOff \in BOOLEAN /\ launched \in BOOLEAN
    /\ live \in [Resources -> 0 .. MaxLive] /\ known \subseteq Resources

Init ==
    /\ LogInitialize
    /\ service = "absent" /\ deleting = FALSE /\ reader = "none" /\ handles = {}
    /\ main = "idle" /\ removing = FALSE /\ modules = FALSE /\ event = FALSE
    /\ inUse = FALSE /\ allow = FALSE /\ vmxOff = FALSE /\ launched = FALSE
    /\ live = [r \in Resources |-> 0] /\ known = {}

Allocated(R) == live' = [r \in Resources |-> IF r \in R /\ live[r] < MaxLive THEN live[r] + 1 ELSE live[r]]
Freed(R) == live' = [r \in Resources |-> IF r \in R THEN live[r] - 1 ELSE live[r]]
-----------------------------------------------------------------------------
(* Service control                                                           *)

\* InstallDriver creates the service, or finds it; a service marked for deletion
\* is neither.  StartDriver then starts it, or finds it running.
InstallDriver == ~deleting
StartDriver == service # "stopping"

\* RemoveDriver deletes a stopped service and marks any other for deletion.
RemoveDriver ==
    /\ service' = IF service \in {"absent", "stopped"} THEN "absent" ELSE service
    /\ deleting' = (service \in {"running", "stopping"})

\* HyperDbgInstallVmmDriver with ManageDriver: a service that could not be
\* installed or started is removed.  A driver that starts runs DriverEntry.
HyperDbgInstallVmmDriver ==
    IF InstallDriver /\ StartDriver
    THEN /\ service' = "running" /\ UNCHANGED deleting
         /\ IF service = "running"
            THEN UNCHANGED <<inUse, allow, live, known>>
            ELSE inUse' = FALSE /\ allow' = FALSE /\ Allocated(DriverEntry) /\ known' = DriverEntry
    ELSE RemoveDriver /\ UNCHANGED <<inUse, allow, live, known>>

\* HyperDbgStopVmmDriver asks for the stop.
HyperDbgStopVmmDriver ==
    /\ main = "stop"
    /\ service' = IF service = "running" THEN "stopping" ELSE service
    /\ main' = IF service = "running" THEN "remove" ELSE "idle"
    /\ UNCHANGED <<logVars, deleting, removing, modules, event, vmxOff, reader, handles, driverVars>>

HyperDbgUninstallVmmDriver ==
    /\ main = "remove"
    /\ RemoveDriver /\ main' = "idle"
    /\ UNCHANGED <<logVars, removing, modules, event, vmxOff, reader, handles, driverVars>>

\* The system calls DrvUnload once the last handle of the device is closed.
DrvUnload ==
    /\ service = "stopping" /\ handles = {}
    /\ sender = [p \in Pools |-> "idle"]
    /\ service' = IF deleting THEN "absent" ELSE "stopped"
    /\ deleting' = FALSE
    /\ LogUnInitialize
    /\ Freed(known \ VmmResources)
    /\ known' = {}
    /\ UNCHANGED <<appVars, reader, handles, inUse, allow, launched>>
-----------------------------------------------------------------------------
(* Opening and closing the device                                            *)

\* What has been done when step fails, or when none does.
Before(step) ==
    {CreateSteps[k] : k \in {j \in DOMAIN CreateSteps : \A i \in 1 .. j : CreateSteps[i] # step}}

\* Not DrvCreate: initialises again although a handle is in use.
CreateAlways(step) ==
    /\ allow' = TRUE
    /\ Allocated((Before(step) \cap Resources) \ (known \cap {"events", "scriptGlobals"}))
    /\ known' = known \cup (Before(step) \cap Resources)
    /\ launched' = (launched \/ "launch" \in Before(step))
    /\ inUse' = (step = "none")
    /\ UNCHANGED logVars

\* DrvCreate of a caller that may debug.  With a handle in use it only succeeds.
\* Otherwise g_GuestState is zeroed, which forgets the script variables of the
\* cores, and everything is set up again; events and the global script
\* variables are reused.  The test VMCALL at the end of VmxInitialize tells the
\* reader that the hypervisor runs.  Nothing is undone when a step fails.
DrvCreate(step) ==
    IF inUse
    THEN UNCHANGED <<logVars, driverVars>>
    ELSE LET done == Before(step) IN
         /\ allow' = TRUE
         /\ Allocated((done \cap Resources) \ (known \cap {"events", "scriptGlobals"}))
         /\ known' = (known \ {"scriptLocals"}) \cup (done \cap Resources)
         /\ launched' = (launched \/ "launch" \in done)
         /\ inUse' = (step = "none")
         /\ IF "launch" \in done
            THEN LogSendBuffer(<<"root", TRUE>>, Loaded) /\ UNCHANGED nonImm
            ELSE UNCHANGED logVars

\* The caller has no debug privilege in step "denied".
Open(step) == IF step = "denied" THEN UNCHANGED <<logVars, driverVars>> ELSE DrvCreate(step)
Opened(step) == step = "none" \/ (inUse /\ step # "denied")
OpenOutcomes == FailAt \cup {"none"}

\* DrvClose, of either handle.
DrvClose(t) == handles' = handles \ {t} /\ inUse' = FALSE

\* CommandLoadVmmModule up to HyperDbgLoadVmm's CreateFile: refused while the main
\* thread has the device open, and given up when the driver does not start.
CommandLoadVmmModule ==
    /\ main = "idle" /\ "main" \notin handles
    /\ event' = FALSE
    /\ HyperDbgInstallVmmDriver
    /\ IF InstallDriver /\ StartDriver
       THEN main' = "opening" /\ vmxOff' = FALSE
       ELSE UNCHANGED <<main, vmxOff>>
    /\ UNCHANGED <<logVars, removing, modules, reader, handles, launched>>

\* HyperDbgLoadVmm's CreateFile.
LoadOpens ==
    \E step \in OpenOutcomes :
        /\ main = "opening"
        /\ Open(step)
        /\ handles' = IF Opened(step) THEN handles \cup {"main"} ELSE handles
        /\ main' = IF Opened(step) THEN "starting" ELSE "idle"
        /\ UNCHANGED <<svcVars, removing, modules, event, vmxOff, reader>>

\* Its CreateThread.
LoadStartsReader ==
    /\ main = "starting" /\ reader = "none"
    /\ reader' = "open" /\ main' = "loading"
    /\ UNCHANGED <<logVars, svcVars, removing, modules, event, vmxOff, handles, driverVars>>

\* CommandLoadVmmModule has waited for g_IsDriverLoadedSuccessfully.
LoadReturns ==
    /\ main = "loading" /\ event
    /\ event' = FALSE /\ modules' = TRUE /\ main' = "idle"
    /\ UNCHANGED <<logVars, svcVars, removing, vmxOff, reader, handles, driverVars>>
-----------------------------------------------------------------------------
(* IOCTLs of the commands                                                    *)

\* What the handlers of DrvDispatchIoControl use once their parameters are valid;
\* those that differ in nothing else are one.
Handlers ==
    {{"guestState"},           \* memory, MSRs, addresses, transparency, threads, modules, tests
     {"mapper"},               \* page tables, edits, searches, lists of processes and threads
     {"launched", "events", "pools", "eptState", "msrBitmap", "ioBitmaps"}, \* new events
     {"events"},               \* new actions
     {"launched", "events"},   \* enabling, disabling and clearing events
     {"log"},                  \* flush
     {"launched", "pools"},    \* attaching and detaching
     {"launched", "nmi"},      \* preparing a debuggee, pause packets
     {"launched"},             \* messages and buffers for the remote debugger
     {"pools"},                \* reserving pools
     {"guestState", "pools"}}  \* commands of the user-mode debugger

Usable == {r \in Resources : live[r] > 0 /\ r \in known} \cup (IF launched THEN {"launched"} ELSE {})

\* IOCTL_DEBUGGER_FLUSH_LOGGING_BUFFERS of the `flush` command, DebuggerCommandFlush
\* with it: one pool after the other, each under its lock.
Flush(p) ==
    /\ main = "idle" /\ "main" \in handles /\ allow
    /\ LogMarkAllAsRead(p)
    /\ UNCHANGED lifeVars
-----------------------------------------------------------------------------
(* `unload vmm`                                                              *)

\* `unload vmm`, and `unload remove vmm`, which goes on without loaded modules.
CommandUnload(remove) ==
    /\ main = "idle"
    /\ IF modules THEN main' = "terminate" ELSE remove /\ service # "absent" /\ main' = "stop"
    /\ removing' = remove
    /\ UNCHANGED <<logVars, svcVars, modules, event, vmxOff, reader, handles, driverVars>>

\* HyperDbgUnloadVmm's IOCTL_TERMINATE_VMX: DebuggerUninitialize,
\* VmxPerformTermination and MemoryMapperUninitialize.
TerminateVmx ==
    /\ main = "terminate"
    /\ main' = "return"
    /\ IF allow
       THEN launched' = FALSE /\ Freed(VmmResources) /\ known' = known \ VmmResources
       ELSE UNCHANGED <<launched, live, known>>
    /\ UNCHANGED <<logVars, svcVars, removing, modules, event, vmxOff, reader, handles, inUse, allow>>

\* IOCTL_RETURN_IRP_PENDING_PACKETS_AND_DISALLOW_IOCTL: no IOCTL is served from
\* here on, and a last message completes the pending IRP.
ReturnIrpAndDisallow ==
    /\ main = "return"
    /\ main' = "flag" /\ allow' = FALSE
    /\ IF allow
       THEN LogSendBuffer(<<"nonroot", TRUE>>, EndOfIrps) /\ UNCHANGED nonImm
       ELSE UNCHANGED logVars
    /\ UNCHANGED <<svcVars, removing, modules, event, vmxOff, reader, handles>>
    /\ UNCHANGED <<inUse, launched, live, known>>

\* Tells the reader thread to end.
UnloadSetsFlag ==
    /\ main = "flag"
    /\ vmxOff' = TRUE /\ main' = "sleep"
    /\ UNCHANGED <<logVars, svcVars, removing, modules, event, reader, handles, driverVars>>

\* After Sleep(1000): CloseHandle.
UnloadCloses ==
    /\ main = "sleep"
    /\ Settle => reader = "none"
    /\ main' = IF removing THEN "stop" ELSE "idle"
    /\ modules' = FALSE
    /\ DrvClose("main")
    /\ UNCHANGED <<logVars, svcVars, removing, event, vmxOff, reader, allow, launched, live, known>>
-----------------------------------------------------------------------------
(* The reader thread                                                         *)

ReaderOpens ==
    \E step \in OpenOutcomes \ {"denied"} :
        /\ reader = "open"
        /\ Open(step)
        /\ handles' = IF Opened(step) THEN handles \cup {"reader"} ELSE handles
        /\ reader' = IF Opened(step) THEN "loop" ELSE "none"
        /\ UNCHANGED <<svcVars, appVars>>

\* Not ReadIrpBasedBuffer: ends without closing its handle.
ReaderKeepsHandle ==
    /\ reader = "loop"
    /\ reader' = IF vmxOff THEN "none" ELSE "register"
    /\ UNCHANGED <<logVars, svcVars, appVars, handles, driverVars>>

\* ReadIrpBasedBuffer's loop: ends once the unload has begun.
ReadIrpBasedBuffer ==
    /\ reader = "loop"
    /\ IF vmxOff
       THEN reader' = "none" /\ DrvClose("reader")
       ELSE reader' = "register" /\ UNCHANGED <<handles, inUse>>
    /\ UNCHANGED <<logVars, svcVars, appVars, allow, launched, live, known>>

\* IOCTL_REGISTER_EVENT: completed at once when no IOCTL is served or a record
\* is registered already.
ReaderRegisters ==
    /\ reader = "register"
    /\ IF allow /\ ~record
       THEN LogRegisterIrpBasedNotification /\ reader' = "wait"
       ELSE reader' = "loop" /\ UNCHANGED logVars
    /\ UNCHANGED <<svcVars, appVars, handles, driverVars>>

\* The IRP was completed: a message is handled, an error ignored.
ReaderReturns ==
    /\ reader = "wait" /\ irp \in Messages \cup {"failed"}
    /\ irp' = "none" /\ reader' = "loop"
    /\ event' = (event \/ irp = Loaded)
    /\ UNCHANGED <<rings, nonImm, sender, record, dpc>>
    /\ UNCHANGED <<svcVars, main, removing, modules, vmxOff, handles, driverVars>>
-----------------------------------------------------------------------------
\* Code that sends messages runs in vmx-root while the cores are guests, and
\* otherwise for requests of the main thread.
MayLog(p) == IF p = "root" THEN launched ELSE main \in {"idle", "terminate"} /\ "main" \in handles /\ allow

\* Bound: priority rings keep a buffer for the driver's own messages.
Room(r) ==
    /\ Cardinality(Unread) < MaxUnread
    /\ r[2] => Cardinality({i \in DOMAIN slots[r] : slots[r][i] = Empty}) > 1

Sends ==
    /\ \/ \E r \in Sources, m \in Texts : MayLog(r[1]) /\ Room(r) /\ LogSendBuffer(r, m) /\ UNCHANGED nonImm
       \/ \E p \in Accumulated, len \in Lengths :
             MayLog(p) /\ Room(<<p, FALSE>>) /\ LogSendMessageToQueue(p, len)
    /\ UNCHANGED lifeVars

NotifyStep ==
    /\ \E p \in Pools : NotifyTest(p) \/ NotifyQueue(p) \/ NotifyReset(p)
    /\ UNCHANGED lifeVars

Dpc == LogNotifyUsermodeCallback /\ UNCHANGED lifeVars
Registers == RegisterRecord /\ UNCHANGED lifeVars
MainStep ==
    \/ LoadOpens \/ LoadStartsReader \/ LoadReturns
    \/ TerminateVmx \/ ReturnIrpAndDisallow \/ UnloadSetsFlag \/ UnloadCloses
    \/ HyperDbgStopVmmDriver \/ HyperDbgUninstallVmmDriver
ReaderStep == ReaderOpens \/ ReadIrpBasedBuffer \/ ReaderRegisters \/ ReaderReturns \/ Registers

Next ==
    \/ CommandLoadVmmModule \/ MainStep \/ ReaderStep \/ DrvUnload \/ Sends \/ NotifyStep \/ Dpc
    \/ \E remove \in BOOLEAN : CommandUnload(remove)
    \/ \E p \in Pools : Flush(p)

Spec == Init /\ [][Next]_vars

\* A command that has begun goes on, and so do the reader thread, a sender that
\* holds a pool's lock and a queued DPC; the system unloads a stopped driver.
FairSpec ==
    /\ Spec
    /\ WF_vars(MainStep) /\ WF_vars(ReaderStep) /\ WF_vars(NotifyStep) /\ WF_vars(Dpc)
    /\ WF_vars(DrvUnload)
-----------------------------------------------------------------------------
(* Properties                                                                *)

\* The messages of a ring in the order they will be read.
Waiting(r) ==
    LET n == Cardinality({i \in DOMAIN slots[r] : slots[r][i] # Empty})
    IN [k \in 1 .. n |-> slots[r][(send[r] + k - 1) % Size(r)]]
Queue == INSTANCE LogQueue WITH queue <- [r \in Rings |-> Waiting(r)], loaded <- service \in {"running", "stopping"}

\* The rings of LogSendBuffer, LogReadBuffer and LogMarkAllAsRead are the queues
\* of LogQueue: no message is lost, repeated or overtaken within its ring, and
\* priority messages of a pool come first, wherever the indices wrap.
RingsAreQueues == Queue!Spec

\* An IRP that waits will be completed: its record is registered or its DPC is
\* queued, never both, except while the sender that queued it still holds the
\* lock; and no record or DPC is left without an IRP.
IrpHasOneOwner ==
    /\ irp = "pending" => record \/ dpc # NoPool
    /\ record \/ dpc # NoPool => irp = "pending"
    /\ record /\ dpc # NoPool => \E p \in Pools : sender[p] = "queued"

\* No message waits for another one to arrive: if the IRP waits on its record,
\* a message in a ring has a sender that is about to look at the record.
NoneStranded ==
    record /\ dpc = NoPool =>
        \A m \in Unread : sender[m[1][1]] \in {"notify", "found"}

\* The cores are launched exactly once per load (VmxInitialize), and an unload
\* frees what the load allocated for the hypervisor, no more and no less; and
\* every handler of DrvDispatchIoControl that a request of the main thread can
\* reach finds what it uses.
ResourcesInPlace ==
    /\ \A r \in VmmResources : live[r] = IF launched THEN 1 ELSE 0
    /\ main = "idle" /\ "main" \in handles /\ allow => \A h \in Handlers : h \subseteq Usable

\* Load, unload and stop come to an end.  The message that the hypervisor runs
\* gets through the rings and the reader thread to the event that
\* CommandLoadVmmModule waits for; in an unload the reader thread leaves the
\* pending IRP, closes its handle and ends, and the device is closed
\* (HyperDbgUnloadVmm); no handle keeps a driver that was asked to stop.
CommandsEnd ==
    /\ main = "opening" ~> main = "idle"
    /\ main = "terminate" ~> reader = "none" /\ "main" \notin handles
    /\ service = "stopping" ~> service # "stopping"
=============================================================================
