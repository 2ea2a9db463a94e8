----------------------------- MODULE KdProtocol -----------------------------
(***************************************************************************)
(* The conversation between the controller on the host (hprdbgctrl) and    *)
(* the debugger in vmx-root mode on the debuggee (hprdbghv), as tables.    *)
(*                                                                         *)
(*   KdSend...      what a request of kd.cpp does: a sequence of steps,    *)
(*                  the packet first, then the events it waits for;        *)
(*   ...Answers     which packet KdDispatchAndPerformCommandsFromDebugger  *)
(*                  (Kd.c) answers a request with, for the requests it     *)
(*                  answers without letting the debuggee run;              *)
(*   ...Signals     which events ListeningSerialPortInDebugger             *)
(*                  (kernel-listening.cpp) sets on a packet.               *)
(*                                                                         *)
(* Whether the tables fit together is what Session checks.                 *)
(***************************************************************************)
EXTENDS Naturals, Sequences

(* A step of a thread.  act is a packet, an event, an ioctl or an effect;  *)
(* n is the tag, the core or the flag that goes with it, x a name.         *)
Step(do, act, n, x) == [do |-> do, act |-> act, n |-> n, x |-> x]
Send(act, n, x) == Step("send", act, n, x)
Wait(object) == Step("wait", object, 0, "")
Ioctl(code, n, x) == Step("ioctl", code, n, x)
Do(effect) == Step("do", effect, 0, "")

Request(act, n, x, object) == <<Send(act, n, x), Wait(object)>>
Query(act, object) == Request(act, 0, "", object)

-----------------------------------------------------------------------------
(* The requests.                                                           *)

(* The flag is raised once the packet is on its way. *)
KdSetStatusAndWaitForPause == <<Do("running"), Wait("IS_DEBUGGER_RUNNING")>>

KdSendContinuePacketToDebuggee == <<Do("no core"), Send("CONTINUE", 0, "")>>

(* Nothing is sent when the debuggee is believed to run already. *)
KdBreakControlCheckAndContinueDebugger(running) ==
    IF running THEN <<>>
    ELSE KdSendContinuePacketToDebuggee \o KdSetStatusAndWaitForPause

(* Nothing is sent for the core that is operating already. *)
KdSendSwitchCorePacketToDebuggee(core, new) ==
    IF core = new THEN <<>>
    ELSE Request("CHANGE_CORE", new, "", "CORE_SWITCHING_RESULT")

KdSendEventQueryAndModifyPacketToDebuggee(tag, kind) ==
    Request("QUERY_AND_MODIFY_EVENT", tag, kind, "MODIFY_AND_QUERY_EVENT")

KdSendFlushPacketToDebuggee == Query("FLUSH_BUFFERS", "FLUSH_RESULT")

KdSendCallStackPacketToDebuggee == Query("CALLSTACK", "CALLSTACK_RESULT")

KdSendTestQueryPacketToDebuggee == Query("TEST_QUERY", "TEST_QUERY")

KdSendSymbolReloadPacketToDebuggee == Query("SYMBOL_QUERY", "SYMBOL_RELOAD")

KdSendReadRegisterPacketToDebuggee ==
    Query("READ_REGISTERS", "READ_REGISTERS")

KdSendReadMemoryPacketToDebuggee == Query("READ_MEMORY", "READ_MEMORY")

KdSendEditMemoryPacketToDebuggee == Query("EDIT_MEMORY", "EDIT_MEMORY")

KdSendRegisterEventPacketToDebuggee(tag) ==
    Request("REGISTER_EVENT", tag, "", "REGISTER_EVENT")

KdSendAddActionToEventPacketToDebuggee(tag) ==
    Request("ADD_ACTION_TO_EVENT", tag, "", "ADD_ACTION_TO_EVENT")

KdSendSwitchProcessPacketToDebuggee ==
    Query("CHANGE_PROCESS", "PROCESS_SWITCHING_RESULT")

KdSendSwitchThreadPacketToDebuggee ==
    Query("CHANGE_THREAD", "THREAD_SWITCHING_RESULT")

KdSendPtePacketToDebuggee == Query("SYMBOL_QUERY_PTE", "PTE_RESULT")

KdSendVa2paAndPa2vaPacketToDebuggee ==
    Query("QUERY_PA2VA_AND_VA2PA", "VA2PA_AND_PA2VA_RESULT")

KdSendBpPacketToDebuggee == Query("BP", "BP")

KdSendListOrModifyPacketToDebuggee ==
    Query("LIST_OR_MODIFY_BREAKPOINTS", "LIST_OR_MODIFY_BREAKPOINTS")

KdSendScriptPacketToDebuggee(isFormat) ==
    <<Send("RUN_SCRIPT", 0, IF isFormat THEN "format" ELSE "")>>
    \o (IF isFormat THEN <<Wait("SCRIPT_FORMATS_RESULT")>> ELSE <<>>)
    \o <<Wait("SCRIPT_RUNNING_RESULT")>>

(* Mutant: the end of the command is not waited for. *)
SendInputAndReturn(command, ignoreBreakingAgain) ==
    <<Send("USER_INPUT_BUFFER", IF ignoreBreakingAgain THEN 1 ELSE 0, command)>>

KdSendUserInputPacketToDebuggee(command, ignoreBreakingAgain) ==
    <<Send("USER_INPUT_BUFFER", IF ignoreBreakingAgain THEN 1 ELSE 0, command)>>
    \o (IF ignoreBreakingAgain THEN <<>>
        ELSE <<Wait("DEBUGGEE_FINISHED_COMMAND_EXECUTION")>>)

KdSendSearchRequestPacketToDebuggee ==
    Query("SEARCH_QUERY", "SEARCH_QUERY_RESULT")

(* The wait is for the break that follows the step; g_IsDebuggeeRunning    *)
(* stays FALSE meanwhile.                                                  *)
KdSendStepPacketToDebuggee(kind) ==
    Request("STEP", 0, kind, "IS_DEBUGGER_RUNNING")

-----------------------------------------------------------------------------
(* What the halted kernel answers a request with.                          *)

InspectionAnswers ==
    [FLUSH_BUFFERS  |-> <<"RESULT_OF_FLUSH">>,
     CALLSTACK      |-> <<"RESULT_OF_CALLSTACK">>,
     TEST_QUERY     |-> <<"RESULT_TEST_QUERY">>,
     READ_REGISTERS |-> <<"RESULT_OF_READING_REGISTERS">>]

MemoryAnswers ==
    [READ_MEMORY    |-> <<"RESULT_OF_READING_MEMORY">>,
     EDIT_MEMORY    |-> <<"RESULT_OF_EDITING_MEMORY">>,
     CHANGE_PROCESS |-> <<"RESULT_OF_CHANGING_PROCESS">>,
     CHANGE_THREAD  |-> <<"RESULT_OF_CHANGING_THREAD">>]

(* A formats script reports its value before its end. *)
ScriptAnswers(format) ==
    (IF format THEN <<"RESULT_OF_FORMATS">> ELSE <<>>)
    \o <<"RESULT_OF_RUNNING_SCRIPT">>

SearchAnswers == [SEARCH_QUERY |-> <<"RELOAD_SEARCH_QUERY">>]

BreakpointAnswers ==
    [BP              |-> <<"RESULT_OF_BP">>,
     SYMBOL_QUERY_PTE      |-> <<"RESULT_OF_PTE">>,
     QUERY_PA2VA_AND_VA2PA |-> <<"RESULT_OF_VA2PA_AND_PA2VA">>,
     LIST_OR_MODIFY_BREAKPOINTS |-> <<"RESULT_OF_LIST_OR_MODIFY_BREAKPOINTS">>]

-----------------------------------------------------------------------------
(* What the listening thread of the host sets on a packet.                 *)

(* Mutant: the pause after a general buffer counts as a break.             *)
EveryPauseIsABreak(reason) ==
    CASE reason = "core switched" -> {"CORE_SWITCHING_RESULT"}
      [] reason = "command finished" -> {"DEBUGGEE_FINISHED_COMMAND_EXECUTION"}
      [] reason = "request from debugger" -> {"PAUSED_DEBUGGEE_DETAILS"}
      [] OTHER -> {"IS_DEBUGGER_RUNNING"}
(* A pause tells its reason; the pause after a general buffer              *)
(* ("without disasm") wakes nobody.                                        *)
PausedSignals(reason) ==
    CASE reason \in {"break", "step", "entry point"} -> {"IS_DEBUGGER_RUNNING"}
      [] reason = "without disasm" -> {}
      [] reason = "core switched" -> {"CORE_SWITCHING_RESULT"}
      [] reason = "command finished" -> {"DEBUGGEE_FINISHED_COMMAND_EXECUTION"}
      [] reason = "request from debugger" -> {"PAUSED_DEBUGGEE_DETAILS"}

(* A core change that worked is told by the pause of the new core. *)
SwitchSignals(ok) ==
    [RESULT_OF_CHANGING_CORE    |-> IF ok THEN {} ELSE {"CORE_SWITCHING_RESULT"},
     RESULT_OF_CHANGING_PROCESS |-> {"PROCESS_SWITCHING_RESULT"},
     RELOAD_SEARCH_QUERY        |-> {"SEARCH_QUERY_RESULT"},
     RESULT_OF_CHANGING_THREAD  |-> {"THREAD_SWITCHING_RESULT"}]

(* Only a formats script sets the formats event. *)
ScriptSignals(format) ==
    [RESULT_OF_FLUSH          |-> {"FLUSH_RESULT"},
     RESULT_OF_CALLSTACK      |-> {"CALLSTACK_RESULT"},
     RESULT_TEST_QUERY        |-> {"TEST_QUERY"},
     RESULT_OF_RUNNING_SCRIPT |->
        {"SCRIPT_RUNNING_RESULT"}
        \cup (IF format THEN {"SCRIPT_FORMATS_RESULT"} ELSE {}),
     RESULT_OF_FORMATS        |-> {}]

EventSignals ==
    [RESULT_OF_REGISTERING_EVENT       |-> {"REGISTER_EVENT"},
     RESULT_OF_ADDING_ACTION_TO_EVENT  |-> {"ADD_ACTION_TO_EVENT"},
     RESULT_OF_QUERY_AND_MODIFY_EVENT  |-> {"MODIFY_AND_QUERY_EVENT"},
     RELOAD_SYMBOL_FINISHED            |-> {"SYMBOL_RELOAD"},
     RESULT_OF_READING_REGISTERS       |-> {"READ_REGISTERS"}]

MemorySignals ==
    [RESULT_OF_READING_MEMORY  |-> {"READ_MEMORY"},
     RESULT_OF_EDITING_MEMORY  |-> {"EDIT_MEMORY"}]

BreakpointSignals ==
    [RESULT_OF_BP              |-> {"BP"},
     RESULT_OF_PTE             |-> {"PTE_RESULT"},
     RESULT_OF_VA2PA_AND_PA2VA |-> {"VA2PA_AND_PA2VA_RESULT"},
     RESULT_OF_LIST_OR_MODIFY_BREAKPOINTS |-> {"LIST_OR_MODIFY_BREAKPOINTS"},
     UPDATE_SYMBOL_INFO        |-> {}]
=============================================================================
