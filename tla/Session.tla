------------------------------ MODULE Session -------------------------------
(***************************************************************************)
(* A kernel debugging session over the serial line.                        *)
(*                                                                         *)
(* On the host: the main thread, which runs the commands (Commands); the   *)
(* listening thread, which reads the line; and the threads that Windows    *)
(* starts for CTRL+C.  They meet at auto-reset events, one per kind of     *)
(* answer.  On the debuggee: the debugger in vmx-root mode, which owns the *)
(* line while it is halted; the thread that reads the kernel's log buffer  *)
(* and performs what vmx-root mode cannot; and the thread that reads the   *)
(* line for a pause request while the debuggee runs.                       *)
(***************************************************************************)
EXTENDS Commands

CONSTANTS
    Typed,          \* the commands the user types
    MaxTags,        \* events registered in all sessions
    MaxBreaks,      \* CTRL+C threads that wait at a time
    Crossing        \* timings to allow; see the list below

(* "hit"    an event of the guest breaks while nobody waits for a break    *)
(* "break"  CTRL+C is pressed while the debuggee is on its way to a halt   *)
(* "steal"  the pause thread reads a request before its machine is halted  *)
(* "type"   a command is typed before the machine has halted again         *)
(* "crash"  the debuggee dies while a command waits for an answer          *)
(* "leave"  a session is closed while it has events                        *)

NoCore == 99
SomeCores == Cores \ {NoCore}
Off == "off"

VARIABLES
    host,       \* the globals of the controller
    main,       \* the rest of the command; a wait turns to "waiting"
    breakers,   \* CTRL+C threads waiting for the pause
    tokens,     \* the events that are set
    marked,     \* the events with IsOnWaitingState
    hostTags,   \* g_EventTrace
    down, up,   \* the line
    kernel,     \* the debugger in vmx-root mode
    logs,       \* the operations in the log buffer
    reader,     \* what the reader of the log buffer still does
    agent,      \* the controller it belongs to
    pauser      \* the thread that listens for a pause

hostVars == <<host, main, breakers, tokens, marked, hostTags>>
debuggeeVars == <<kernel, logs, reader, agent, pauser>>
vars == <<hostVars, down, up, debuggeeVars>>

Packet(act, n, x, good) == [act |-> act, n |-> n, x |-> x, ok |-> good]

Init ==
    /\ host = [port |-> FALSE, serialDebuggee |-> FALSE, running |-> FALSE,
               core |-> NoCore, closed |-> TRUE, ignorePause |-> FALSE,
               instrumenting |-> FALSE, quiet |-> FALSE, autoFlush |-> FALSE,
               registered |-> FALSE, tag |-> 1, broken |-> FALSE]
    /\ main = <<>> /\ breakers = 0
    /\ tokens = {} /\ marked = {} /\ hostTags = {}
    /\ down = <<>> /\ up = <<>>
    /\ kernel = [mode |-> Off, core |-> 0, ignoring |-> "none", tags |-> {}]
    /\ logs = <<>> /\ reader = <<>> /\ pauser = Off
    /\ agent = [ok |-> TRUE, process |-> "none", started |-> FALSE,
                measured |-> FALSE]

-----------------------------------------------------------------------------
(* The host.                                                               *)

HostState ==
    [serialDebuggee |-> host.serialDebuggee, serialDebugger |-> FALSE,
     tcpDebuggee |-> FALSE, tcpDebugger |-> FALSE, local |-> FALSE,
     device |-> FALSE, modules |-> FALSE, process |-> "none",
     running |-> host.running, core |-> host.core, tag |-> host.tag,
     tags |-> hostTags, started |-> FALSE, measured |-> FALSE]

IsBlockedOn(object) == main # <<>> /\ Head(main) = [Wait(object) EXCEPT !.do = "waiting"]

(* The thread in the debuggee is about to stop the machine. *)
HaltIsDue == \E i \in DOMAIN reader : reader[i].do = "halt"

(* The user types a command at the prompt. *)
Prompt ==
    /\ main = <<>>
    /\ "type" \in Crossing \/ (up = <<>> /\ ~HaltIsDue)
    /\ \E name \in Typed :
        /\ host.serialDebuggee \/ name = "debug"
        /\ name \in EventCommands => host.tag <= MaxTags
        /\ name = "debug" => ("leave" \in Crossing \/ hostTags = {})
        /\ main' \in HyperDbgInterpreter(HostState, name) \ {<<>>, <<Do("prepare serial")>>}
    /\ UNCHANGED <<host, breakers, tokens, marked, hostTags,
                   down, up, debuggeeVars>>

(* The port is gone once the session has been closed. *)
KdCommandPacketToDebuggee(s) ==
    /\ s.do = "send"
    /\ IF host.port
       THEN /\ main' = Tail(main)
            /\ down' = Append(down, s)
            /\ host' = IF s.act = "REGISTER_EVENT"
                       THEN [host EXCEPT !.tag = s.n + 1] ELSE host
       ELSE main' = <<>> /\ UNCHANGED <<host, down>>
    /\ UNCHANGED <<tokens, marked, hostTags>>

(* Without its handle the event is not waited for. *)
DbgWaitForKernelResponse(s) ==
    /\ s.do = "wait"
    /\ IF host.port
       THEN /\ marked' = marked \cup {s.act}
            /\ main' = <<[s EXCEPT !.do = "waiting"]>> \o Tail(main)
       ELSE main' = Tail(main) /\ UNCHANGED marked
    /\ UNCHANGED <<host, tokens, hostTags, down>>

(* A mark that outlives its wait (the answer came first) only sets an      *)
(* event whose handle is closed at once, and is dropped here.              *)
WaitReturns(s) ==
    /\ s.do = "waiting" /\ s.act \in tokens
    /\ tokens' = tokens \ {s.act}
    /\ marked' = marked \ {s.act}
    /\ main' = Tail(main)
    /\ UNCHANGED <<host, hostTags, down>>

(* The flags of the controller that a command sets. *)
SetFlag(s) ==
    /\ s.do = "do"
    /\ s.act \in {"running", "no core", "quiet", "instrument",
                  "end instrumenting", "auto-flush on", "auto-flush off",
                  "auto-unpause on", "auto-unpause off", "trace"}
    /\ host' = CASE s.act = "running" -> [host EXCEPT !.running = TRUE]
                 [] s.act = "no core" -> [host EXCEPT !.core = NoCore]
                 [] s.act = "quiet" -> [host EXCEPT !.quiet = TRUE]
                 [] s.act = "instrument" -> [host EXCEPT !.instrumenting = TRUE]
                 [] s.act = "end instrumenting" ->
                        [host EXCEPT !.instrumenting = FALSE]
                 [] s.act = "auto-flush on" -> [host EXCEPT !.autoFlush = TRUE]
                 [] s.act = "auto-flush off" -> [host EXCEPT !.autoFlush = FALSE]
                 [] OTHER -> host
    /\ hostTags' = hostTags \cup (IF s.act = "trace" THEN {s.n} ELSE {})
    /\ main' = Tail(main)
    /\ UNCHANGED <<tokens, marked, down>>

(* The event was refused, or CTRL+C ended the repetition: the rest is left *)
(* out, except for the last step of a repetition.                          *)
LeaveOut(s) ==
    /\ s.do = "do"
    /\ \/ /\ s.act = "if registered"
          /\ main' = IF host.registered THEN Tail(main) ELSE <<>>
       \/ /\ s.act = "if instrumenting"
          /\ main' = IF host.instrumenting THEN Tail(main)
                     ELSE <<main[Len(main)]>>
    /\ UNCHANGED <<host, tokens, marked, hostTags, down>>

(* .debug remote: the events are created, the listening thread is started  *)
(* and the debuggee is awaited; its first pause is that of a running one.  *)
KdPrepareSerialConnectionToRemoteSystem(s) ==
    /\ s = Do("connect serial")
    /\ host' = [host EXCEPT !.port = TRUE, !.closed = FALSE, !.broken = FALSE]
    /\ tokens' = {} /\ marked' = {}
    /\ main' = <<Wait("STARTED_PACKET_RECEIVED"), Do("await symbols"),
                 Wait("SYMBOL_RELOAD"), Do("connected"),
                 Wait("IS_DEBUGGER_RUNNING")>>
    /\ UNCHANGED <<hostTags, down>>

Connecting(s) ==
    \/ /\ s = Do("await symbols")
       /\ main' = IF host.closed THEN <<>> ELSE Tail(main)
       /\ host' = [host EXCEPT !.ignorePause = ~host.closed]
       /\ UNCHANGED <<tokens, marked, hostTags, down>>
    \/ /\ s = Do("connected")
       /\ main' = Tail(main)
       /\ host' = [host EXCEPT !.serialDebuggee = TRUE, !.running = TRUE,
                               !.ignorePause = FALSE]
       /\ UNCHANGED <<tokens, marked, hostTags, down>>

(* Every event somebody is marked to wait for is set, and the running one  *)
(* in any case.                                                            *)
KdUninitializeConnection(also, tag) ==
    /\ tokens' = tokens \cup marked \cup {"IS_DEBUGGER_RUNNING"} \cup also
    /\ breakers' = IF breakers > 0 /\ "PAUSED_DEBUGGEE_DETAILS" \in marked \cup tokens
                   THEN breakers - 1 ELSE breakers
    /\ marked' = {}
    /\ host' = [host EXCEPT !.closed = TRUE, !.port = FALSE, !.core = NoCore,
                            !.serialDebuggee = FALSE, !.running = FALSE, !.tag = tag]

(* .debug close *)
KdCloseConnection(s) ==
    \/ /\ s = Do("close")
       /\ main' = IF host.closed THEN <<>>
                  ELSE <<Send("CLOSE_AND_UNLOAD", 0, ""),
                         Send("DO_NOT_READ_ANY_PACKET", 0, ""), Do("uninitialize")>>
       /\ host' = [host EXCEPT !.closed = TRUE]
       /\ UNCHANGED <<breakers, tokens, marked, hostTags, down>>
    \/ /\ s = Do("uninitialize")
       /\ KdUninitializeConnection({}, host.tag)
       /\ main' = <<>>
       /\ UNCHANGED <<hostTags, down>>

(* One step of the command that runs. *)
MainStep ==
    /\ main # <<>>
    /\ LET s == Head(main)
       IN  \/ KdCommandPacketToDebuggee(s) \/ DbgWaitForKernelResponse(s)
           \/ WaitReturns(s) \/ SetFlag(s) \/ LeaveOut(s)
           \/ KdPrepareSerialConnectionToRemoteSystem(s) \/ Connecting(s)
    /\ UNCHANGED <<breakers, up, debuggeeVars>>

(* Its last command closes the session. *)
MainCloses ==
    /\ main # <<>> /\ KdCloseConnection(Head(main))
    /\ UNCHANGED <<up, debuggeeVars>>

(* CTRL+C: Windows runs the handler in a thread of its own. *)
BreakController ==
    /\ host.serialDebuggee /\ ~host.ignorePause
    /\ \/ /\ host.instrumenting
          /\ host' = [host EXCEPT !.instrumenting = FALSE]
          /\ UNCHANGED <<breakers, marked, down>>
       \/ /\ ~host.instrumenting
          /\ host.running /\ breakers < MaxBreaks
          /\ \/ "break" \in Crossing
             \/ /\ IsBlockedOn("IS_DEBUGGER_RUNNING") /\ up = <<>> /\ down = <<>>
                /\ kernel.mode = "run" /\ kernel.ignoring = "none"
                /\ logs = <<>> /\ reader = <<>>
                /\ "IS_DEBUGGER_RUNNING" \notin tokens
          /\ down' = Append(down, Send("PAUSE", 0, ""))
          /\ breakers' = breakers + 1
          /\ marked' = marked \cup {"PAUSED_DEBUGGEE_DETAILS"}
          /\ UNCHANGED host
    /\ UNCHANGED <<main, tokens, hostTags, up, debuggeeVars>>

(* The pause has come: the thread lets the main thread go on. *)
BreakReturns ==
    /\ breakers > 0 /\ "PAUSED_DEBUGGEE_DETAILS" \in tokens
    /\ breakers' = breakers - 1
    /\ tokens' = (tokens \ {"PAUSED_DEBUGGEE_DETAILS"})
                   \cup (IF host.port THEN {"IS_DEBUGGER_RUNNING"} ELSE {})
    /\ marked' = marked \ {"IS_DEBUGGER_RUNNING"}
    /\ UNCHANGED <<host, main, hostTags, down, up, debuggeeVars>>

Signals(p) ==
    CASE p.act = "PAUSED" -> PausedSignals(p.x)
      [] p.act = "STARTED" -> {"STARTED_PACKET_RECEIVED"}
      [] p.act \in DOMAIN SwitchSignals(TRUE) -> SwitchSignals(p.ok)[p.act]
      [] p.act \in DOMAIN ScriptSignals(TRUE) ->
            ScriptSignals(p.x = "format")[p.act]
      [] p.act \in DOMAIN EventSignals -> EventSignals[p.act]
      [] p.act \in DOMAIN MemorySignals -> MemorySignals[p.act]
      [] p.act \in DOMAIN BreakpointSignals -> BreakpointSignals[p.act]

DbgReceivedKernelResponse(objects) ==
    /\ tokens' = tokens \cup objects
    /\ marked' = marked \ objects

CommandEventsHandleModifiedEvent(tag, kind) ==
    hostTags' = IF kind # "clear" THEN hostTags
                ELSE IF tag = 0 THEN {} ELSE hostTags \ {tag}

(* Clearing an event while the output is paused flushes the buffers, on    *)
(* the listening thread and before the answer is passed on: it then waits  *)
(* for an answer that only it could read.  The timing is left out below.   *)
FlushFirst(p) ==
    /\ p.act = "RESULT_OF_QUERY_AND_MODIFY_EVENT" /\ p.ok /\ p.x = "clear"
    /\ host.quiet /\ host.autoFlush

(* The listening thread takes a packet. *)
ListeningSerialPortInDebugger ==
    /\ host.port /\ up # <<>> /\ ~FlushFirst(Head(up))
    /\ LET p == Head(up)
       IN  /\ host' = CASE p.act = "PAUSED" ->
                              [host EXCEPT !.running = FALSE, !.core = p.n]
                        [] p.act = "RESULT_OF_REGISTERING_EVENT" ->
                              [host EXCEPT !.registered = p.ok]
                        [] OTHER -> host
           /\ IF p.act = "RESULT_OF_QUERY_AND_MODIFY_EVENT" /\ p.ok
              THEN CommandEventsHandleModifiedEvent(p.n, p.x)
              ELSE UNCHANGED hostTags
           /\ DbgReceivedKernelResponse(Signals(p))
    /\ up' = Tail(up)
    /\ UNCHANGED <<main, breakers, down, debuggeeVars>>

(* The line breaks with the debuggee: the read fails, the list of events   *)
(* is emptied and this thread closes the session.                          *)
ReadFails ==
    /\ host.port /\ host.broken /\ up = <<>>
    /\ hostTags' = IF host.serialDebuggee THEN {} ELSE hostTags
    /\ IF host.closed
       THEN /\ host' = [host EXCEPT !.broken = FALSE]
            /\ UNCHANGED <<breakers, tokens, marked>>
       ELSE KdUninitializeConnection(
                IF host.serialDebuggee THEN {} ELSE {"STARTED_PACKET_RECEIVED"},
                IF host.serialDebuggee THEN 1 ELSE host.tag)
    /\ down' = <<>>
    /\ UNCHANGED <<main, up, debuggeeVars>>

-----------------------------------------------------------------------------
(* The debuggee in vmx-root mode.                                          *)

(* The machine stops and tells why, unless it waits for the end of a       *)
(* request and ignores breaks.                                             *)
KdHandleBreakpointAndDebugBreakpoints(reason, core) ==
    LET stops == kernel.ignoring = "none"
    IN  /\ kernel' = IF stops THEN [kernel EXCEPT !.mode = "halt", !.core = core]
                     ELSE kernel
        /\ up' = IF stops THEN Append(up, Packet("PAUSED", core, reason, TRUE))
                 ELSE up

KdContinueDebuggee(ignoring) ==
    kernel' = [kernel EXCEPT !.mode = "run", !.ignoring = ignoring]

Answer(names, n, x, good) ==
    up' = up \o [i \in DOMAIN names |-> Packet(names[i], n, x, good)]

(* A breakpoint, an event's break or the entry point of a process that is  *)
(* started.                                                                *)
GuestBreaks ==
    /\ kernel.mode = "run"
    /\ \/ "hit" \in Crossing
       \/ kernel.ignoring # "none"
       \/ /\ IsBlockedOn("IS_DEBUGGER_RUNNING") /\ host.running
          /\ up = <<>> /\ down = <<>> /\ pauser = "listen" /\ breakers = 0
          /\ "IS_DEBUGGER_RUNNING" \notin tokens
          /\ logs = <<>> /\ \A i \in DOMAIN reader : reader[i].do = "retry"
    /\ \E core \in SomeCores, reason \in {"break", "entry point"} :
          KdHandleBreakpointAndDebugBreakpoints(reason, core)
    /\ UNCHANGED <<hostVars, down, logs, reader, agent, pauser>>

(* A step ends on its core. *)
StepEnds ==
    /\ kernel.mode = "step"
    /\ KdHandleBreakpointAndDebugBreakpoints("step", kernel.core)
    /\ UNCHANGED <<hostVars, down, logs, reader, agent, pauser>>

KdSwitchCore(p) ==
    /\ p.act = "CHANGE_CORE"
    /\ IF p.n \in SomeCores \ {kernel.core}
       THEN /\ kernel' = [kernel EXCEPT !.core = p.n]
            /\ up' = up \o <<Packet("RESULT_OF_CHANGING_CORE", p.n, "", TRUE),
                             Packet("PAUSED", p.n, "core switched", TRUE)>>
       ELSE /\ Answer(<<"RESULT_OF_CHANGING_CORE">>, p.n, "", p.n = kernel.core)
            /\ UNCHANGED kernel
    /\ UNCHANGED logs

(* The packets for user mode; vmx-root mode drops them. *)
UserModePackets == {"PAUSE", "DO_NOT_READ_ANY_PACKET"}
Dropped == [act \in UserModePackets |-> <<>>]

(* The requests that are answered at once. *)
AnswerAtOnce(p) ==
    /\ \/ /\ p.act = "RUN_SCRIPT"
          /\ Answer(ScriptAnswers(p.x = "format"), 0, p.x, TRUE)
       \/ \E answers \in {InspectionAnswers, SearchAnswers, Dropped} :
            /\ p.act \in DOMAIN answers
            /\ Answer(answers[p.act], 0, "", TRUE)
       \/ \E answers \in {MemoryAnswers, BreakpointAnswers}, good \in BOOLEAN :
            /\ p.act \in DOMAIN answers
            /\ Answer(answers[p.act], 0, "", good)
    /\ UNCHANGED <<kernel, logs>>

(* The requests the debuggee runs for. *)
LetRun(p) ==
    \/ /\ p.act = "CONTINUE"
       /\ KdContinueDebuggee("none") /\ UNCHANGED <<logs, up>>
    \/ /\ p.act = "STEP"
       /\ kernel' = [kernel EXCEPT !.mode = "step"] /\ UNCHANGED <<logs, up>>
    \/ /\ p.act \in {"USER_INPUT_BUFFER", "SYMBOL_QUERY", "CLOSE_AND_UNLOAD"}
       /\ KdContinueDebuggee("none")
       /\ logs' = Append(logs, p) /\ UNCHANGED up

(* Registering an event is left to the controller in the debuggee; until   *)
(* its result is sent, breaks are ignored.                                 *)
KdRegisterEvent(p) ==
    /\ p.act = "REGISTER_EVENT"
    /\ logs' = Append(logs, p)
    /\ KdContinueDebuggee("RESULT_OF_REGISTERING_EVENT")
    /\ UNCHANGED up

KdAddActionToEvent(p) ==
    /\ p.act = "ADD_ACTION_TO_EVENT"
    /\ logs' = Append(logs, p)
    /\ KdContinueDebuggee("RESULT_OF_ADDING_ACTION_TO_EVENT")
    /\ UNCHANGED up

(* Mutant: the clearing is not handed to the controller. *)
ClearIsDropped(p) ==
    /\ p.act = "QUERY_AND_MODIFY_EVENT"
    /\ IF p.x = "clear"
       THEN KdContinueDebuggee("RESULT_OF_QUERY_AND_MODIFY_EVENT") /\ UNCHANGED up
       ELSE /\ Answer(<<"RESULT_OF_QUERY_AND_MODIFY_EVENT">>, p.n, p.x, TRUE)
            /\ UNCHANGED kernel
    /\ UNCHANGED logs

(* So is clearing one, for a tag that is known; the debuggee is continued  *)
(* for any tag.                                                            *)
KdPerformEventQueryAndModification(p) ==
    /\ p.act = "QUERY_AND_MODIFY_EVENT"
    /\ LET known == p.n = 0 \/ p.n \in kernel.tags
       IN  IF p.x = "clear"
           THEN /\ logs' = IF known THEN Append(logs, p) ELSE logs
                /\ KdContinueDebuggee("RESULT_OF_QUERY_AND_MODIFY_EVENT")
                /\ UNCHANGED up
           ELSE /\ Answer(<<"RESULT_OF_QUERY_AND_MODIFY_EVENT">>, p.n, p.x, known)
                /\ UNCHANGED <<kernel, logs>>

(* The halted core takes a packet. *)
KdDispatchAndPerformCommandsFromDebugger ==
    /\ kernel.mode = "halt" /\ down # <<>>
    /\ LET p == Head(down)
       IN  \/ KdSwitchCore(p) \/ AnswerAtOnce(p) \/ LetRun(p)
           \/ KdRegisterEvent(p) \/ KdAddActionToEvent(p)
           \/ KdPerformEventQueryAndModification(p)
    /\ down' = Tail(down)
    /\ UNCHANGED <<hostVars, reader, agent, pauser>>

-----------------------------------------------------------------------------
(* The controller in the debuggee; it runs while the machine does.         *)

AgentState ==
    [serialDebuggee |-> FALSE, serialDebugger |-> TRUE, tcpDebuggee |-> FALSE,
     tcpDebugger |-> FALSE, local |-> TRUE, device |-> TRUE, modules |-> TRUE,
     process |-> agent.process, running |-> FALSE, core |-> NoCore, tag |-> 0,
     tags |-> {}, started |-> agent.started, measured |-> agent.measured]

Respond(act, n, x) == Step("respond", act, n, x)
Halt(reason) == Step("halt", reason, 0, "")

(* A general buffer is sent from vmx-root mode, which then stops the       *)
(* machine if it was asked to.                                             *)
KdSendGeneralBuffersFromDebuggeeToDebugger(act, n, x) ==
    <<Respond(act, n, x), Halt("without disasm")>>

KdRegisterEventInDebuggee(tag) ==
    <<Ioctl("REGISTER_EVENT", tag, "")>>
    \o KdSendGeneralBuffersFromDebuggeeToDebugger(
            "RESULT_OF_REGISTERING_EVENT", tag, "")

KdAddActionToEventInDebuggee(tag) ==
    <<Ioctl("ADD_ACTION_TO_EVENT", tag, "")>>
    \o KdSendGeneralBuffersFromDebuggeeToDebugger(
            "RESULT_OF_ADDING_ACTION_TO_EVENT", tag, "")

KdSendModifyEventInDebuggee(tag, kind) ==
    <<Ioctl("MODIFY_EVENTS", tag, kind)>>
    \o KdSendGeneralBuffersFromDebuggeeToDebugger(
            "RESULT_OF_QUERY_AND_MODIFY_EVENT", tag, kind)

KdReloadSymbolsInDebuggee ==
    SymbolBuildSymbolTable(TRUE)
    \o KdSendGeneralBuffersFromDebuggeeToDebugger("RELOAD_SYMBOL_FINISHED", 0, "")

(* The command is run as if typed here; the machine stops again at its end *)
(* unless the debugger said not to.                                        *)
KdHandleUserInputInDebuggee(command, ignore) ==
    {p \o (IF ignore THEN <<>> ELSE <<Halt("command finished")>>) :
        p \in HyperDbgInterpreter(AgentState, command) \cup {<<>>}}

(* The reader takes an operation from the log buffer. *)
ReadIrpBasedBuffer ==
    /\ kernel.mode = "run" /\ reader = <<>> /\ logs # <<>>
    /\ LET p == Head(logs)
       IN  reader' \in
             CASE p.act = "REGISTER_EVENT" -> {KdRegisterEventInDebuggee(p.n)}
               [] p.act = "ADD_ACTION_TO_EVENT" ->
                    {KdAddActionToEventInDebuggee(p.n)}
               [] p.act = "QUERY_AND_MODIFY_EVENT" ->
                    {KdSendModifyEventInDebuggee(p.n, p.x)}
               [] p.act = "SYMBOL_QUERY" -> {KdReloadSymbolsInDebuggee}
               [] p.act = "USER_INPUT_BUFFER" ->
                    KdHandleUserInputInDebuggee(p.x, p.n = 1)
               [] p.act = "CLOSE_AND_UNLOAD" -> {<<Do("unload")>>}
    /\ logs' = Tail(logs)
    /\ UNCHANGED <<hostVars, down, up, kernel, agent, pauser>>

EventIoctls == {"REGISTER_EVENT", "ADD_ACTION_TO_EVENT", "MODIFY_EVENTS"}

(* What the driver does for it, as far as the session can tell.  A command *)
(* that fails is left, an event operation reports its failure, a retry     *)
(* goes on until it succeeds.                                              *)
DrvDispatchIoControl(s) ==
    /\ s.do \in {"ioctl", "retry"}
    /\ \E good \in BOOLEAN :
        /\ s.do = "retry" => good
        /\ s.act \in {"ADD_ACTION_TO_EVENT", "MODIFY_EVENTS"}
             => good = (s.n \in kernel.tags \cup {0})
        /\ agent' = [agent EXCEPT !.ok = good \/ s.act \notin EventIoctls,
                        !.process = IF s.do = "retry" /\ good THEN "paused" ELSE @]
        /\ kernel' = [kernel EXCEPT !.tags =
             IF ~good THEN @
             ELSE IF s.act = "REGISTER_EVENT" THEN @ \cup {s.n}
             ELSE IF s.act = "MODIFY_EVENTS"
                  THEN IF s.n = 0 THEN {} ELSE @ \ {s.n}
             ELSE @]
        /\ reader' = IF good \/ s.act \in EventIoctls \cup {"USER_MODE_MODULES"}
                     THEN Tail(reader)
                     ELSE SelectSeq(reader, LAMBDA t : t.do = "halt")
    /\ UNCHANGED <<up, logs>>

AgentDoes(s) ==
    /\ s.do = "do" /\ s.act # "unload"
    /\ agent' = CASE s.act = "started" -> [agent EXCEPT !.started = TRUE]
                  [] s.act = "no process" -> [agent EXCEPT !.process = "none"]
                  [] s.act = "measured" -> [agent EXCEPT !.measured = TRUE]
                  [] OTHER -> agent
    /\ reader' = Tail(reader)
    /\ UNCHANGED <<up, kernel, logs>>

(* The awaited response ends the time in which breaks are ignored. *)
KdResponsePacketToDebugger(s) ==
    /\ s.do = "respond"
    /\ Answer(<<s.act>>, s.n, s.x, agent.ok)
    /\ kernel' = [kernel EXCEPT !.ignoring = IF @ = s.act THEN "none" ELSE @]
    /\ reader' = Tail(reader)
    /\ agent' = [agent EXCEPT !.ok = TRUE]
    /\ UNCHANGED logs

ReaderHalts(s) ==
    /\ s.do = "halt"
    /\ \E core \in SomeCores : KdHandleBreakpointAndDebugBreakpoints(s.act, core)
    /\ reader' = Tail(reader)
    /\ UNCHANGED <<agent, logs>>

ReaderStep ==
    /\ kernel.mode = "run" /\ reader # <<>>
    /\ LET s == Head(reader)
       IN  \/ DrvDispatchIoControl(s) \/ AgentDoes(s)
           \/ KdResponsePacketToDebugger(s) \/ ReaderHalts(s)
    /\ UNCHANGED <<hostVars, down, pauser>>

(* .debug close has arrived: the vmm is unloaded and the controller is as  *)
(* it was before.  Unloading sleeps for a second, in which the pause       *)
(* thread reads that it has to end.                                        *)
Unload ==
    /\ kernel.mode = "run" /\ reader = <<Do("unload")>> /\ pauser = Off
    /\ kernel' = [kernel EXCEPT !.mode = Off, !.ignoring = "none", !.tags = {}]
    /\ reader' = <<>> /\ logs' = <<>>
    /\ agent' = [agent EXCEPT !.process = "none"]
    /\ UNCHANGED <<hostVars, down, up, pauser>>

(* .debug prepare, given while the host waits: the driver sends the first  *)
(* packet, then the symbols follow, and the pause thread starts.           *)
KdPrepareAndConnectDebugPort ==
    /\ kernel.mode = Off /\ host.port /\ ~host.closed
    /\ IsBlockedOn("STARTED_PACKET_RECEIVED") /\ up = <<>>
    /\ kernel' = [kernel EXCEPT !.mode = "run", !.ignoring = "none", !.tags = {}]
    /\ up' = <<Packet("STARTED", 0, "", TRUE),
               Packet("RELOAD_SYMBOL_FINISHED", 0, "", TRUE)>>
    /\ pauser' = "listen" /\ logs' = <<>> /\ reader' = <<>> /\ down' = <<>>
    /\ UNCHANGED <<hostVars, agent>>

(* While the machine runs this thread reads the line; a packet that is not *)
(* for it is dropped.                                                      *)
ListeningSerialPortInDebuggee ==
    /\ kernel.mode = "run" /\ pauser = "listen" /\ down # <<>>
    /\ \/ "steal" \in Crossing
       \/ Head(down).act \in UserModePackets
       \/ ~(reader # <<>> /\ Head(reader).do = "halt")
    /\ pauser' = CASE Head(down).act = "PAUSE" -> "pausing"
                   [] Head(down).act = "DO_NOT_READ_ANY_PACKET" -> Off
                   [] OTHER -> "listen"
    /\ down' = Tail(down)
    /\ UNCHANGED <<hostVars, up, kernel, logs, reader, agent>>

DebuggerPauseDebuggee ==
    /\ kernel.mode = "run" /\ pauser = "pausing"
    /\ \E core \in SomeCores :
          KdHandleBreakpointAndDebugBreakpoints("request from debugger", core)
    /\ pauser' = "listen"
    /\ UNCHANGED <<hostVars, down, logs, reader, agent>>

(* The debuggee is switched off. *)
Crash ==
    /\ kernel.mode # Off /\ host.serialDebuggee /\ ~host.closed
    /\ \/ "crash" \in Crossing
       \/ main = <<>>
       \/ IsBlockedOn("IS_DEBUGGER_RUNNING") /\ "IS_DEBUGGER_RUNNING" \notin tokens
    /\ kernel' = [kernel EXCEPT !.mode = Off, !.ignoring = "none", !.tags = {}]
    /\ down' = <<>> /\ up' = <<>>
    /\ logs' = <<>> /\ reader' = <<>> /\ pauser' = Off
    /\ agent' = [ok |-> TRUE, process |-> "none", started |-> FALSE,
                 measured |-> FALSE]
    /\ host' = [host EXCEPT !.broken = TRUE]
    /\ UNCHANGED <<main, breakers, tokens, marked, hostTags>>

-----------------------------------------------------------------------------
Next ==
    \/ Prompt \/ MainStep \/ MainCloses \/ BreakController \/ BreakReturns
    \/ ListeningSerialPortInDebugger \/ ReadFails
    \/ GuestBreaks \/ StepEnds \/ KdDispatchAndPerformCommandsFromDebugger
    \/ ReadIrpBasedBuffer \/ ReaderStep \/ Unload
    \/ KdPrepareAndConnectDebugPort \/ ListeningSerialPortInDebuggee
    \/ DebuggerPauseDebuggee \/ Crash

Spec == Init /\ [][Next]_vars

(* The threads and the halted core keep working, and a step ends.  The     *)
(* user, the guest's breaks and a crash are not bound to happen.           *)
FairSpec ==
    /\ Spec
    /\ WF_vars(MainStep) /\ WF_vars(MainCloses) /\ WF_vars(BreakReturns)
    /\ WF_vars(ListeningSerialPortInDebugger)
    /\ WF_vars(ReadFails) /\ WF_vars(StepEnds)
    /\ WF_vars(KdDispatchAndPerformCommandsFromDebugger)
    /\ WF_vars(ReadIrpBasedBuffer) /\ WF_vars(ReaderStep) /\ WF_vars(Unload)
    /\ WF_vars(ListeningSerialPortInDebuggee) /\ WF_vars(DebuggerPauseDebuggee)

-----------------------------------------------------------------------------
(* Properties.                                                             *)

(* The variables keep their types. *)
TypeOK ==
    /\ host.core \in Cores /\ host.tag \in 1 .. MaxTags + 1
    /\ breakers \in 0 .. MaxBreaks
    /\ hostTags \subseteq 1 .. MaxTags /\ kernel.tags \subseteq 1 .. MaxTags
    /\ kernel.mode \in {Off, "run", "halt", "step"}
    /\ pauser \in {Off, "listen", "pausing"}

(* At the prompt of a session, with every packet delivered. *)
AtRest ==
    /\ main = <<>> /\ host.serialDebuggee /\ ~host.broken
    /\ up = <<>> /\ down = <<>> /\ breakers = 0
    /\ ~HaltIsDue

(* When a command has returned, the debuggee is halted, so that the next   *)
(* request finds a reader in vmx-root mode, and the controller's picture   *)
(* of it is right: that it is halted (g_IsDebuggeeRunning), the operating  *)
(* core (g_CurrentRemoteCore), and the events the tags are checked against *)
(* (g_EventTrace), whichever registrations were refused.                   *)
PromptAgrees ==
    AtRest =>
        /\ kernel.mode = "halt" /\ ~host.running
        /\ host.core = kernel.core
        /\ hostTags = kernel.tags

WaitedFor(program) ==
    {program[i].act : i \in {j \in DOMAIN program : program[j].do = "wait"}}

(* A request is sent while none of the events its command will wait for is *)
(* set: no answer is taken for that of an earlier request.                 *)
NoStaleAnswer ==
    host.port /\ main # <<>> /\ Head(main).do = "send" =>
        tokens \cap WaitedFor(main) = {}

(* A request for vmx-root mode is never read, and dropped, by the pause    *)
(* thread, nor a pause by the halted core.                                 *)
PacketsReachTheirReader ==
    [][down # <<>> /\ down' = Tail(down) /\ kernel.mode # Off /\ ~host'.broken =>
         (Head(down).act \in UserModePackets <=> kernel.mode = "run")]_vars

(* Every command returns to the prompt, or comes to wait for the guest to  *)
(* break or for the debuggee to connect, also when the line breaks; and    *)
(* CTRL+C comes back: its thread sees the pause or the end of the session. *)
CommandsReturn ==
    /\ []<>\/ main = <<>> \/ IsBlockedOn("IS_DEBUGGER_RUNNING")
           \/ IsBlockedOn("STARTED_PACKET_RECEIVED")
    /\ breakers > 0 ~> breakers = 0
=============================================================================
