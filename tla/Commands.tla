------------------------------ MODULE Commands ------------------------------
(***************************************************************************)
(* What the commands of the controller (hprdbgctrl) do, as data.           *)
(*                                                                         *)
(* c is the state a command looks at when it starts:                       *)
(*   serialDebuggee  this controller debugs a kernel over a serial line    *)
(*   serialDebugger  this controller runs in the debuggee                  *)
(*   tcpDebuggee, tcpDebugger   the same over tcp, for the vmi mode        *)
(*   local, device, modules     .connect local, the driver's handle, its   *)
(*                   modules loaded                                        *)
(*   process         "none", "paused" or "running": the active process     *)
(*   running, core   the debuggee is believed to run; its operating core   *)
(*   tag, tags       the next event's tag, the tags of g_EventTrace        *)
(*   started         a .start has recorded a path                          *)
(* A command is the set of the programs it may run, one for each kind of   *)
(* argument the code tells apart; a program is a sequence of steps         *)
(* (KdProtocol).  A command whose arguments are refused, or that only      *)
(* reports, runs no step and is not in the set.  A step that fails ends    *)
(* the program: the commands return at the first failure.                  *)
(***************************************************************************)
EXTENDS KdProtocol, FiniteSetsExt

CONSTANTS Counts,     \* the numbers of steps p, t and i are asked for
          Cores       \* the cores ~ is asked for

When(condition, programs) == IF condition THEN programs ELSE {}
After(firsts, seconds) == {p \o q : p \in firsts, q \in seconds}

(* A command of the driver: AssertShowMessageReturnStmt(g_DeviceHandle). *)
OnDriver(c, code) == When(c.device, {<<Ioctl(code, 0, "")>>})

-----------------------------------------------------------------------------
(* Helpers the commands share.                                             *)

(* An expression is evaluated on the debuggee, in debugger mode. *)
ScriptEngineEvalSingleExpression(c) ==
    IF c.serialDebuggee THEN {KdSendScriptPacketToDebuggee(TRUE)} ELSE {<<>>}

(* A number and a symbol need no evaluation. *)
SymbolConvertNameOrExprToAddress(c) ==
    {<<>>} \cup ScriptEngineEvalSingleExpression(c)

(* The command stops here when the text is no address. *)
WithAddress(c, programs) ==
    SymbolConvertNameOrExprToAddress(c)
        \cup After(SymbolConvertNameOrExprToAddress(c), programs)

HyperDbgReadMemoryAndDisassemble(c) ==
    IF c.serialDebuggee THEN {KdSendReadMemoryPacketToDebuggee}
    ELSE OnDriver(c, "READ_MEMORY")

ShowAllRegisters(c) ==
    When(c.serialDebuggee, {KdSendReadRegisterPacketToDebuggee})

(* The list takes a count and then the entries. *)
ObjectShowProcessesOrThreadList(c) ==
    When(c.device, {<<Ioctl("QUERY_COUNT", 0, ""), Ioctl("QUERY_LIST", 0, "")>>})

ObjectShowProcessesOrThreadDetails(c) == OnDriver(c, "QUERY_CURRENT")

(* The user-mode modules of a process are asked of the driver in two       *)
(* calls, the count and then the modules; without a driver the table holds *)
(* the kernel modules only.                                                *)
SymbolBuildSymbolTable(device) ==
    IF device THEN <<Ioctl("USER_MODE_MODULES", 0, "count"),
                     Ioctl("USER_MODE_MODULES", 0, "modules")>>
    ELSE <<>>

RemoteConnectionSendCommand(command) == <<Step("tcp", "", 0, command)>>

-----------------------------------------------------------------------------
(* Events.                                                                 *)

(* One action per kind: a custom code and a script may come together; with *)
(* neither the action is a break, which only the debugger mode allows.     *)
ActionCounts == {1, 2}

(* Mutant: the answer is not waited for. *)
SendEventUnanswered(c) ==
    {<<Send("REGISTER_EVENT", c.tag, "")>>}

(* The event, and nothing more when the answer is an error.  In vmi mode   *)
(* an event that is in place ends a pause.                                 *)
SendEventToKernel(c) ==
    IF c.serialDebuggee
    THEN {KdSendRegisterEventPacketToDebuggee(c.tag) \o <<Do("if registered")>>}
    ELSE When(c.device, {<<Ioctl("REGISTER_EVENT", c.tag, ""),
                           Do("if registered"), Do("auto-unpause")>>})

(* The actions, and last the entry of g_EventTrace.  The answers of the    *)
(* debuggee to the actions are not looked at.                              *)
RegisterActionToEvent(c, count) ==
    LET action == IF c.serialDebuggee
                  THEN KdSendAddActionToEventPacketToDebuggee(c.tag)
                  ELSE <<Ioctl("ADD_ACTION_TO_EVENT", c.tag, "")>>
    IN  action \o (IF count = 2 THEN action ELSE <<>>)
            \o <<Step("do", "trace", c.tag, "")>>

Event(c) ==
    {p \o RegisterActionToEvent(c, n) :
        p \in SendEventToKernel(c), n \in ActionCounts}

CommandCpuid(c) == Event(c)
CommandCrwrite(c) == Event(c)
CommandDr(c) == Event(c)
CommandEptHook(c) == WithAddress(c, Event(c))
CommandEptHook2(c) == WithAddress(c, Event(c))
CommandException(c) == Event(c)
CommandInterrupt(c) == Event(c)
CommandIoin(c) == Event(c)
CommandIoout(c) == Event(c)
CommandMonitor(c) == WithAddress(c, WithAddress(c, Event(c)))
CommandMsrread(c) == Event(c)
CommandMsrwrite(c) == Event(c)
CommandPmc(c) == Event(c)
CommandSyscallAndSysret(c) == Event(c)
CommandTsc(c) == Event(c)
CommandVmcall(c) == Event(c)

(* The tag has to be in g_EventTrace; tag 0 stands for all of them.  On    *)
(* the driver the result is applied here, in debugger mode the listening   *)
(* thread applies it.                                                      *)
CommandEventsModifyAndQueryEvents(c, tag, kind) ==
    When(tag \in c.tags \/ (tag = 0 /\ c.tags # {}),
         IF c.serialDebuggee
         THEN {KdSendEventQueryAndModifyPacketToDebuggee(tag, kind)}
         ELSE When(c.device, {<<Ioctl("MODIFY_EVENTS", tag, kind),
                                Step("do", "handle modified", tag, kind)>>}))

CommandEventQueryEventState(c, tag) ==
    IF c.serialDebuggee
    THEN KdSendEventQueryAndModifyPacketToDebuggee(tag, "query")
    ELSE IF c.device THEN <<Ioctl("MODIFY_EVENTS", tag, "query")>> ELSE <<>>

(* The list shows the state of each event, asked in turn. *)
CommandEventsShowEvents(c) ==
    FoldSet(LAMBDA tag, p : p \o CommandEventQueryEventState(c, tag),
            <<>>, c.tags)

CommandEvents(c) ==
    {CommandEventsShowEvents(c)}
    \cup UNION {CommandEventsModifyAndQueryEvents(c, tag, kind) :
                  tag \in c.tags \cup {0},
                  kind \in {"enable", "disable", "clear"}}

-----------------------------------------------------------------------------
(* Running and stepping.                                                   *)

CommandG(c) ==
    IF c.serialDebuggee
    THEN {KdBreakControlCheckAndContinueDebugger(c.running)}
    ELSE {<<Do("speak")>>
          \o (IF c.tcpDebuggee THEN RemoteConnectionSendCommand("g")
              ELSE IF c.process = "paused"
              THEN <<Ioctl("SEND_COMMAND", 0, "continue"), Do("process runs")>>
              ELSE <<>>)}

CommandPause(c) ==
    {<<Do("quiet")>>
     \o (IF c.tcpDebuggee THEN RemoteConnectionSendCommand("pause")
         ELSE IF c.process # "none" /\ c.device
         THEN <<Ioctl("ATTACH_DETACH", 0, "pause")>>
         ELSE <<>>)}

(* After each step the flag tells whether CTRL+C asked to stop. *)
Repeat(step, n) ==
    <<Do("instrument")>>
    \o [i \in 1 .. n * (Len(step) + 1) |->
          LET k == ((i - 1) % (Len(step) + 1)) + 1
          IN  IF k > Len(step) THEN Do("if instrumenting") ELSE step[k]]
    \o <<Do("end instrumenting")>>

(* The variants pr, tr and ir show the registers after each step. *)
StepPrograms(c, kind) ==
    LET step == KdSendStepPacketToDebuggee(kind)
    IN  {Repeat(s, n) : s \in {step} \cup After({step}, ShowAllRegisters(c)),
                        n \in Counts}

UdStepPrograms(kind) ==
    {Repeat(<<Ioctl("SEND_COMMAND", 0, kind), Wait("USER_DEBUGGER_RUNNING")>>, n) :
        n \in Counts}

CommandP(c) ==
    CASE c.process = "running" -> {}
      [] c.serialDebuggee -> StepPrograms(c, "over")
      [] ~c.serialDebuggee /\ c.process = "paused" -> UdStepPrograms("over")
      [] OTHER -> {}

CommandT(c) ==
    CASE c.process = "running" -> {}
      [] c.serialDebuggee -> StepPrograms(c, "in")
      [] ~c.serialDebuggee /\ c.process = "paused" -> UdStepPrograms("in")
      [] OTHER -> {}

CommandI(c) ==
    When(c.process = "none" /\ c.serialDebuggee,
         StepPrograms(c, "instrumentation"))

CommandCore(c) ==
    When(c.serialDebuggee,
         {KdSendSwitchCorePacketToDebuggee(c.core, new) : new \in Cores})

-----------------------------------------------------------------------------
(* Inspecting and changing the debuggee.  A process id, which is that of   *)
(* the active process unless one is given, is refused in debugger mode.    *)

CommandBp(c) == When(c.serialDebuggee, WithAddress(c, {KdSendBpPacketToDebuggee}))

CommandBreakpoints(c) ==
    When(c.serialDebuggee, {KdSendListOrModifyPacketToDebuggee})

CommandReadMemoryAndDisassembler(c) ==
    WithAddress(c, HyperDbgReadMemoryAndDisassemble(c))

CommandDtShowDataBasedOnSymbolTypes(c) == HyperDbgReadMemoryAndDisassemble(c)

CommandDtAndStruct(c) ==
    WithAddress(c, CommandDtShowDataBasedOnSymbolTypes(c))

CommandEditMemory(c) ==
    WithAddress(c, IF c.serialDebuggee THEN {KdSendEditMemoryPacketToDebuggee}
                   ELSE OnDriver(c, "EDIT_MEMORY"))

CommandSearchMemory(c) ==
    WithAddress(c, IF c.serialDebuggee THEN {KdSendSearchRequestPacketToDebuggee}
                   ELSE OnDriver(c, "SEARCH_MEMORY"))

CommandPte(c) ==
    WithAddress(c, IF c.serialDebuggee THEN {KdSendPtePacketToDebuggee}
                   ELSE OnDriver(c, "PTE_DETAILS"))

CommandVa2pa(c) ==
    WithAddress(c, IF c.serialDebuggee
                   THEN {KdSendVa2paAndPa2vaPacketToDebuggee}
                   ELSE OnDriver(c, "VA2PA_AND_PA2VA"))

CommandPa2va(c) ==
    WithAddress(c, IF c.serialDebuggee
                   THEN {KdSendVa2paAndPa2vaPacketToDebuggee}
                   ELSE OnDriver(c, "VA2PA_AND_PA2VA"))

(* A register is read, or written by a script. *)
CommandR(c) ==
    When(c.serialDebuggee, ShowAllRegisters(c)
                             \cup {KdSendReadRegisterPacketToDebuggee,
                                   KdSendScriptPacketToDebuggee(FALSE)})

CommandK(c) ==
    When(c.serialDebuggee, WithAddress(c, {KdSendCallStackPacketToDebuggee}))

(* Outside of the debugger mode the script is only parsed. *)
CommandEval(c) ==
    When(c.serialDebuggee, {KdSendScriptPacketToDebuggee(FALSE)})

CommandPrint(c) ==
    When(c.serialDebuggee, {KdSendScriptPacketToDebuggee(FALSE)})

CommandFormats(c) == ScriptEngineEvalSingleExpression(c)

CommandFlushRequestFlush(c) ==
    IF c.serialDebuggee THEN {KdSendFlushPacketToDebuggee}
    ELSE OnDriver(c, "FLUSH_BUFFERS")

CommandRdmsr(c) == OnDriver(c, "READ_OR_WRITE_MSR")
CommandWrmsr(c) == OnDriver(c, "READ_OR_WRITE_MSR")
CommandPrealloc(c) == WithAddress(c, OnDriver(c, "RESERVE_POOLS"))

(* Measuring needs the processor without the hypervisor, except for the    *)
(* default values; hiding needs a measurement.                             *)
CommandMeasure(c) == {<<Do("measured")>>}
CommandHide(c) == When(c.measured, OnDriver(c, "HIDE_AND_UNHIDE"))
CommandUnhide(c) == OnDriver(c, "HIDE_AND_UNHIDE")

CommandLmShowUserModeModule(c) ==
    When(c.device, {SymbolBuildSymbolTable(TRUE)})
CommandLm(c) == CommandLmShowUserModeModule(c)

CommandTestPerformKernelTestsIoctl(c) == OnDriver(c, "KERNEL_SIDE_TESTS")
CommandTestInVmiMode(c) ==
    After(OnDriver(c, "TEST_INFORMATION"),
          {<<>>} \cup CommandTestPerformKernelTestsIoctl(c))
CommandTestQueryState(c) ==
    When(c.serialDebuggee, {KdSendTestQueryPacketToDebuggee})
CommandTest(c) == CommandTestInVmiMode(c) \cup CommandTestQueryState(c)

(* The list starts from the address of a symbol. *)
CommandProcess(c) ==
    IF c.serialDebuggee
    THEN {KdSendSwitchProcessPacketToDebuggee}
           \cup WithAddress(c, {KdSendSwitchProcessPacketToDebuggee})
    ELSE ObjectShowProcessesOrThreadDetails(c)
           \cup ObjectShowProcessesOrThreadList(c)

CommandThreadListThreads(c) ==
    WithAddress(c, IF c.serialDebuggee THEN {KdSendSwitchThreadPacketToDebuggee}
                   ELSE ObjectShowProcessesOrThreadList(c))

CommandThread(c) ==
    CommandThreadListThreads(c)
    \cup (IF c.serialDebuggee
          THEN {KdSendSwitchThreadPacketToDebuggee}
                 \cup WithAddress(c, {KdSendSwitchThreadPacketToDebuggee})
          ELSE ObjectShowProcessesOrThreadDetails(c))

CommandSym(c) ==
    IF c.serialDebuggee THEN {KdSendSymbolReloadPacketToDebuggee}
    ELSE {SymbolBuildSymbolTable(c.device)}

-----------------------------------------------------------------------------
(* Debugging a user-mode process.  The build leaves these commands to the  *)
(* controller in a debuggee (ActivateUserModeDebugger is FALSE).           *)

(* A new process is created suspended and waited for: the hook at its      *)
(* entry point is removed in a call of its own, retried until it succeeds. *)
UdAttachToProcess(c, new) ==
    When(c.device,
         {IF new THEN <<Ioctl("ATTACH_DETACH", 0, "start"),
                        Step("retry", "ATTACH_DETACH", 0, "remove hooks")>>
          ELSE <<Ioctl("ATTACH_DETACH", 0, "attach")>>})

UdKillProcess(c) ==
    When(c.device, {<<Ioctl("ATTACH_DETACH", 0, "kill"), Do("no process")>>})

UdDetachProcess(c) ==
    When(c.device, {<<Ioctl("SEND_COMMAND", 0, "continue"),
                      Ioctl("ATTACH_DETACH", 0, "detach"), Do("no process")>>})

UdSetActiveDebuggingThreadByPidOrTid(c) ==
    When(c.device,
         {<<Ioctl("ATTACH_DETACH", 0, "switch"), Do("process switched")>>})

UdShowListActiveDebuggingProcessesAndThreads(c) ==
    When(c.device, {<<Ioctl("ATTACH_DETACH", 0, "count"),
                      Ioctl("ACTIVE_THREADS", 0, "")>>})

CommandAttach(c) ==
    When(c.serialDebugger /\ ~c.serialDebuggee, UdAttachToProcess(c, FALSE))

CommandStart(c) ==
    When(c.serialDebugger, After({<<Do("started")>>}, UdAttachToProcess(c, TRUE)))

CommandRestart(c) ==
    When(c.started, After(IF c.process = "none" THEN {<<>>} ELSE UdKillProcess(c),
                          UdAttachToProcess(c, TRUE)))

CommandKill(c) == When(c.process # "none", UdKillProcess(c))

CommandDetach(c) ==
    When(~c.serialDebuggee /\ c.process # "none", UdDetachProcess(c))

CommandSwitch(c) ==
    When(~c.serialDebuggee, UdSetActiveDebuggingThreadByPidOrTid(c)
            \cup UdShowListActiveDebuggingProcessesAndThreads(c))

-----------------------------------------------------------------------------
(* Connecting, loading and settings.                                       *)

Connected(c) ==
    c.local \/ c.tcpDebuggee \/ c.tcpDebugger \/ c.serialDebuggee
        \/ c.serialDebugger

IsConnectedToAnyInstanceOfDebuggerOrDebuggee(c) ==
    c.device \/ c.tcpDebuggee \/ c.tcpDebugger \/ c.serialDebuggee
        \/ c.serialDebugger

CommandConnect(c) ==
    When(~Connected(c), {<<Do("connect local")>>, <<Do("connect tcp")>>})

CommandListen(c) == When(~Connected(c), {<<Do("listen")>>})

CommandDisconnect(c) ==
    When((c.local \/ c.tcpDebuggee) /\ ~(c.local /\ c.device),
         {<<Do("disconnect")>>})

CommandLoad(c) ==
    When(c.local /\ ~c.device,
         {<<Do("load")>> \o SymbolBuildSymbolTable(TRUE)})

(* "remove" stops and uninstalls the driver as well. *)
CommandUnload(c) ==
    When(c.local /\ ~c.serialDebuggee /\ ~c.serialDebugger,
         LET unload == IF c.modules THEN <<Do("unload")>> ELSE <<>>
         IN  {unload, unload \o <<Do("stop driver"), Do("uninstall driver")>>})

CommandExit(c) ==
    {(IF c.device THEN <<Do("unload")>> ELSE <<>>) \o <<Do("exit")>>}

CommandDebug(c) ==
    When(c.serialDebuggee \/ c.serialDebugger, {<<Do("close")>>})
    \cup When(~IsConnectedToAnyInstanceOfDebuggerOrDebuggee(c),
              {<<Do("connect serial")>>, <<Do("prepare serial")>>})

(* Over tcp the setting is that of the other side. *)
CommandSettings(c) ==
    {<<Do("auto-unpause on")>>, <<Do("auto-unpause off")>>}
    \cup (IF c.tcpDebuggee THEN {RemoteConnectionSendCommand("settings")}
          ELSE {<<Do("auto-flush on")>>, <<Do("auto-flush off")>>})

-----------------------------------------------------------------------------
(* The interpreter.                                                        *)

AbsoluteLocal ==
    {"connect", "listen", "g", "disconnect", "debug", "exit", "pause"}

EventCommands ==
    {"!monitor", "!vmcall", "!epthook", "!epthook2", "!cpuid", "!msrread",
     "!msrwrite", "!tsc", "!pmc", "!crwrite", "!dr", "!ioin", "!ioout",
     "!exception", "!interrupt", "!syscall"}

LocalInDebuggerMode ==
    EventCommands \cup
    {"attach", "detach", "switch", "process", "thread", "events", "settings",
     "flush", "print", "eval", "test", "!va2pa", "!pa2va", "formats", "!pte",
     "core", "p", "t", "i", "d", "e", "s", "r", "bp", "bl", "sym", "k", "dt"}

WontStopDebuggerAgain == {"start", "restart", "kill"}

(* The rest has no attribute. *)
Names ==
    AbsoluteLocal \cup LocalInDebuggerMode \cup WontStopDebuggerAgain
    \cup {"load", "unload", "wrmsr", "rdmsr", "!hide", "!unhide", "!measure",
          "lm", "prealloc"}

EventCommand(c, name) ==
    CASE name = "!monitor" -> CommandMonitor(c)
      [] name = "!vmcall" -> CommandVmcall(c)
      [] name = "!epthook" -> CommandEptHook(c)
      [] name = "!epthook2" -> CommandEptHook2(c)
      [] name = "!cpuid" -> CommandCpuid(c)
      [] name = "!msrread" -> CommandMsrread(c)
      [] name = "!msrwrite" -> CommandMsrwrite(c)
      [] name = "!tsc" -> CommandTsc(c)
      [] name = "!pmc" -> CommandPmc(c)
      [] name = "!crwrite" -> CommandCrwrite(c)
      [] name = "!dr" -> CommandDr(c)
      [] name = "!ioin" -> CommandIoin(c)
      [] name = "!ioout" -> CommandIoout(c)
      [] name = "!exception" -> CommandException(c)
      [] name = "!interrupt" -> CommandInterrupt(c)
      [] name = "!syscall" -> CommandSyscallAndSysret(c)

ControlCommand(c, name) ==
    CASE name = "connect" -> CommandConnect(c)
      [] name = "listen" -> CommandListen(c)
      [] name = "g" -> CommandG(c)
      [] name = "disconnect" -> CommandDisconnect(c)
      [] name = "debug" -> CommandDebug(c)
      [] name = "exit" -> CommandExit(c)
      [] name = "pause" -> CommandPause(c)
      [] name = "attach" -> CommandAttach(c)
      [] name = "detach" -> CommandDetach(c)
      [] name = "switch" -> CommandSwitch(c)
      [] name = "start" -> CommandStart(c)
      [] name = "restart" -> CommandRestart(c)
      [] name = "kill" -> CommandKill(c)
      [] name = "load" -> CommandLoad(c)
      [] name = "unload" -> CommandUnload(c)
      [] name = "settings" -> CommandSettings(c)
      [] name = "events" -> CommandEvents(c)
      [] name = "core" -> CommandCore(c)
      [] name = "p" -> CommandP(c)
      [] name = "t" -> CommandT(c)
      [] name = "i" -> CommandI(c)

InspectCommand(c, name) ==
    CASE name = "process" -> CommandProcess(c)
      [] name = "thread" -> CommandThread(c)
      [] name = "flush" -> CommandFlushRequestFlush(c)
      [] name = "print" -> CommandPrint(c)
      [] name = "eval" -> CommandEval(c)
      [] name = "test" -> CommandTest(c)
      [] name = "!va2pa" -> CommandVa2pa(c)
      [] name = "!pa2va" -> CommandPa2va(c)
      [] name = "formats" -> CommandFormats(c)
      [] name = "!pte" -> CommandPte(c)
      [] name = "d" -> CommandReadMemoryAndDisassembler(c)
      [] name = "e" -> CommandEditMemory(c)
      [] name = "s" -> CommandSearchMemory(c)
      [] name = "r" -> CommandR(c)
      [] name = "bp" -> CommandBp(c)
      [] name = "bl" -> CommandBreakpoints(c)
      [] name = "sym" -> CommandSym(c)
      [] name = "k" -> CommandK(c)
      [] name = "dt" -> CommandDtAndStruct(c)
      [] name = "wrmsr" -> CommandWrmsr(c)
      [] name = "rdmsr" -> CommandRdmsr(c)
      [] name = "!hide" -> CommandHide(c)
      [] name = "!unhide" -> CommandUnhide(c)
      [] name = "!measure" -> CommandMeasure(c)
      [] name = "lm" -> CommandLm(c)
      [] name = "prealloc" -> CommandPrealloc(c)

Handler(c, name) ==
    CASE name \in EventCommands -> EventCommand(c, name)
      [] name \in AbsoluteLocal \cup WontStopDebuggerAgain
            \cup {"attach", "detach", "switch", "load", "unload", "settings",
                  "events", "core", "p", "t", "i"} -> ControlCommand(c, name)
      [] OTHER -> InspectCommand(c, name)

(* Over tcp a command that is not local runs on the other side, and the    *)
(* pause of the output ends; in debugger mode it runs in the debuggee's    *)
(* controller, which stops the debuggee again when it is done, or lets it  *)
(* run.                                                                    *)
HyperDbgInterpreter(c, name) ==
    IF c.tcpDebuggee /\ name \notin AbsoluteLocal
    THEN {<<Do("speak")>> \o RemoteConnectionSendCommand(name)}
    ELSE IF c.serialDebuggee /\ name \notin AbsoluteLocal \cup LocalInDebuggerMode
    THEN IF name \in WontStopDebuggerAgain
         THEN {KdSendUserInputPacketToDebuggee(name, TRUE)
                 \o KdSetStatusAndWaitForPause}
         ELSE {KdSendUserInputPacketToDebuggee(name, FALSE)}
    ELSE Handler(c, name)
=============================================================================
