---------------------------- MODULE UserDebugger ----------------------------
(***************************************************************************)
(* The user-mode debugger of VMI mode: attaching to a process, catching    *)
(* its threads in a sled of NOPs and CPUIDs, and releasing them again.     *)
(*                                                                         *)
(* The kernel keeps one record per attached process (Attaching.c) with the *)
(* details of its threads (ThreadHolder.c).  A thread is caught by a page  *)
(* fault that the debugger provokes, by a trap after a step or by the      *)
(* debug register on the entry point; it is then sent to the sled, where   *)
(* every CPUID exits and serves one command of the thread's slots (Ud.c).  *)
(* The controller (ud.cpp) types commands from one thread and learns of    *)
(* pauses from the reader of the log (user-listening.cpp).                 *)
(***************************************************************************)
EXTENDS Integers, Sequences, FiniteSets

CONSTANTS Cores,       \* the cores; each runs one thread at a time
          Threads,     \* the threads of the debuggees
          ProcessOf,   \* the process of each thread
          Images,      \* the processes that .start creates
          NCr3,        \* the page tables a process runs on
          MaxCr3,      \* MAX_CR3_IN_A_PROCESS
          HolderSize,  \* MAX_THREADS_IN_A_PROCESS_HOLDER
          PoolSize,    \* the holders the pool manager keeps ready
          MaxActions,  \* MAX_USER_ACTIONS_FOR_THREADS
          MaxTokens,   \* bound: the tokens known at a time
          Steps,       \* the stepping commands typed: "in" (t), "over" (p)
          Crossing     \* the collisions of actors a run lets happen

Procs == {ProcessOf[t] : t \in Threads}
ThreadsOf(p) == {t \in Threads : ProcessOf[t] = p}

(***************************************************************************)
(* The collisions.  "command": a command is typed while a pause is still   *)
(* unread, or awaited at an entry point.  "serve": a command is typed, or  *)
(* the second request of .detach sent, while a thread has a command it has *)
(* not served.  "fault": a thread faults after the interception was        *)
(* switched off and before the page tables are restored.  "core": a thread *)
(* faults on a core that has not loaded CR3 since its tables were changed. *)
(* "sled": the sled lies in the part of the address space that is blocked. *)
(* "two": a process is intercepted while another is, or is commanded.      *)
(* "unload": the module is unloaded with threads in the sled.              *)
(***************************************************************************)
ASSUME UserDebuggerConstants ==
    /\ ProcessOf \in [Threads -> Procs] /\ "none" \notin Threads \cup Procs
    /\ Images \subseteq Procs
    /\ {NCr3, MaxCr3, HolderSize, PoolSize, MaxActions, MaxTokens} \subseteq Nat \ {0}
    /\ Steps \subseteq {"in", "over"}
    /\ Crossing \subseteq {"command", "serve", "fault", "core", "sled", "two", "unload"}

VARIABLES
    prog,      \* the state of each process as Windows runs it
    run,       \* the thread on each core and the page table it runs on
    pf,        \* the cores whose #PF bit is set in the exception bitmap
    blocked,   \* the page tables of each process that fault in user mode
    hw,        \* of each thread: where it executes, and its trap flag
    checkPf,   \* g_CheckPageFaultsAndMov2Cr3VmexitsWithUserDebugger
    waitEntry, \* g_IsWaitingForUserModeModuleEntrypointToBeCalled
    waitPf,    \* g_IsWaitingForReturnAndRunFromPageFault
    armed,     \* the debug register on the entry point is set
    detail,    \* the process debugging details, by process
    det,       \* the thread debugging details, by thread
    pool,      \* the free thread holders of the pool
    log,       \* the pause packets in the log, oldest first
    active,    \* g_ActiveProcessDebuggingState
    waiting,   \* IsOnWaitingState of the object of user-mode stepping
    main,      \* where the controller's command thread stands
    cmd,       \* the request it is performing
    harmed     \* a debuggee saw an exception the debugger provoked, or the
               \* kernel used details that do not exist

guest == <<prog, run, pf, blocked, hw, harmed>>
entry == <<waitEntry, waitPf, armed>>
kernel == <<checkPf, detail, det, pool>>
host == <<log, active, waiting, main, cmd>>
vars == <<guest, entry, kernel, host>>

Idle == [thread |-> "none", cr3 |-> 0]
NoDetail == [token |-> 0, phase |-> FALSE, starting |-> FALSE, saved |-> {},
             held |-> 0, known |-> {}]
NoThread == [rip |-> "none", paused |-> FALSE, tf |-> FALSE,
             acts |-> [i \in 1..MaxActions |-> "none"]]
NoCommand == [kind |-> "none", token |-> 0, proc |-> "none", thread |-> "none",
              restore |-> FALSE]
NoActive == [on |-> FALSE, proc |-> "none", thread |-> "none", token |-> 0,
             paused |-> FALSE]

Attached(p) == detail[p].token # 0
ByToken(k) == {p \in Procs : Attached(p) /\ detail[p].token = k}
Busy(t) == \E i \in 1..MaxActions : det[t].acts[i] # "none"

Init ==
    /\ prog = [p \in Procs |-> IF p \in Images THEN "absent" ELSE "live"]
    /\ run = [c \in Cores |-> Idle]
    /\ pf = {}
    /\ blocked = [p \in Procs |-> {}]
    /\ hw = [t \in Threads |-> [at |-> "code", trap |-> FALSE]]
    /\ harmed = FALSE
    /\ waitEntry = FALSE /\ waitPf = FALSE /\ armed = FALSE
    /\ checkPf = FALSE
    /\ detail = [p \in Procs |-> NoDetail]
    /\ det = [t \in Threads |-> NoThread]
    /\ pool = 0
    /\ log = <<>>
    /\ active = NoActive
    /\ waiting = FALSE
    /\ main = "idle"
    /\ cmd = NoCommand

-----------------------------------------------------------------------------
(* The guest: Windows schedules threads and loads CR3. *)

\* Mutant: the page faults of the core are not intercepted.
BitmapForgotten(c) == pf
HvSetExceptionBitmap(c) == pf \cup {c}

\* Windows puts a thread of a running process, or none, on a core.  Loading
\* CR3 exits while the debugger checks it: a page table of an intercepted
\* process is recorded in the first free slot, blocked for user mode, and the
\* core's page faults are intercepted; any other process clears them.
AttachingHandleCr3(c, p, k) ==
    IF p # "none" /\ detail[p].phase
    THEN /\ detail' = [detail EXCEPT ![p].saved =
                          IF Cardinality(@) < MaxCr3 THEN @ \cup {k} ELSE @]
         /\ blocked' = [blocked EXCEPT ![p] = @ \cup {k}]
         /\ pf' = HvSetExceptionBitmap(c)
    ELSE /\ pf' = pf \ {c}
         /\ UNCHANGED <<detail, blocked>>

Loads(c, t, k) ==
    run[c] = Idle \/ ProcessOf[run[c].thread] # ProcessOf[t] \/ run[c].cr3 # k

Dispatch(c, t, k) ==
    /\ \A d \in Cores : run[d].thread # t
    /\ prog[ProcessOf[t]] \notin {"absent", "dead"}
    /\ run' = [run EXCEPT ![c] = [thread |-> t, cr3 |-> k]]
    /\ IF checkPf /\ Loads(c, t, k) THEN AttachingHandleCr3(c, ProcessOf[t], k)
                                     ELSE UNCHANGED <<detail, blocked, pf>>
    /\ UNCHANGED <<prog, hw, harmed, entry, checkPf, det, pool, host>>

Preempt(c) ==
    /\ run[c] # Idle
    /\ run' = [run EXCEPT ![c] = Idle]
    /\ IF checkPf THEN AttachingHandleCr3(c, "none", 0)
                  ELSE UNCHANGED <<detail, blocked, pf>>
    /\ UNCHANGED <<prog, hw, harmed, entry, checkPf, det, pool, host>>

-----------------------------------------------------------------------------
(* Catching a thread. *)

\* The thread has details, or there is room for them: a free entry of a
\* holder of the process, or a holder of the pool.
NeedsHolder(p, t) ==
    /\ t \notin detail[p].known
    /\ Cardinality(detail[p].known) = HolderSize * detail[p].held
ThreadHolderFound(p, t) == NeedsHolder(p, t) => pool > 0

\* The address that the thread continues from is saved, and the thread is
\* sent to the sled.
UdSpinThreadOnNop(t, d) == [d EXCEPT !.rip = hw[t].at, !.paused = TRUE]

\* Mutant: the trap flag of a step is not taken back.
TrapFlagKept(trap, stepped) == trap
UdHandleAfterStepping(trap, stepped) == trap /\ ~stepped

\* A break in a thread of an attached process: its details are found or
\* created, a step's trap flag is taken back, the controller is told, and
\* the thread spins.
UdCheckAndHandleBreakpointsAndDebugBreaks(t, reason) ==
    LET p == ProcessOf[t]
        new == NeedsHolder(p, t)
        stepped == reason = "step" /\ det[t].tf
        d == IF stepped THEN [det[t] EXCEPT !.tf = FALSE] ELSE det[t]
    IN  /\ Attached(p)
        /\ ThreadHolderFound(p, t)
        /\ detail' = [detail EXCEPT ![p].known = @ \cup {t},
                                    ![p].held = IF new THEN @ + 1 ELSE @,
                                    ![p].starting = @ /\ reason # "entry"]
        /\ pool' = IF new THEN pool - 1 ELSE pool
        /\ det' = [det EXCEPT ![t] = UdSpinThreadOnNop(t, d)]
        /\ hw' = [hw EXCEPT ![t] = [at |-> "sled",
                                    trap |-> UdHandleAfterStepping(@.trap, stepped)]]
        /\ log' = Append(log, [thread |-> t, proc |-> p, token |-> detail[p].token])

\* A thread touches memory behind a blocked page table.  The exception is
\* the debugger's when the core intercepts it and the process is being
\* intercepted; a thread that gets no details faults again.
PageFault(c) ==
    LET t == run[c].thread
        p == ProcessOf[t]
    IN  /\ run[c] # Idle
        /\ run[c].cr3 \in blocked[p]
        /\ hw[t].at = "code" \/ "sled" \in Crossing
        /\ c \in pf \/ "core" \in Crossing
        /\ checkPf \/ "fault" \in Crossing
        /\ IF c \in pf /\ checkPf /\ Attached(p) /\ detail[p].phase
           THEN /\ UdCheckAndHandleBreakpointsAndDebugBreaks(t, "intercepted")
                /\ UNCHANGED harmed
           ELSE /\ harmed' = TRUE
                /\ UNCHANGED <<detail, pool, det, hw, log>>
        /\ UNCHANGED <<prog, run, pf, blocked, entry, checkPf, active,
                       waiting, main, cmd>>

\* The trap after the instruction of a step.  While an entry point is
\* awaited every #DB is taken for it; a #DB outside an attached process goes
\* to the guest.
DebugTrap(c) ==
    LET t == run[c].thread
        p == ProcessOf[t]
    IN  /\ run[c] # Idle
        /\ hw[t] = [at |-> "code", trap |-> TRUE]
        /\ IF ~waitEntry /\ ~waitPf /\ Attached(p) /\ ThreadHolderFound(p, t)
           THEN /\ UdCheckAndHandleBreakpointsAndDebugBreaks(t, "step")
                /\ UNCHANGED harmed
           ELSE /\ harmed' = TRUE
                /\ UNCHANGED <<detail, pool, det, hw, log>>
        /\ UNCHANGED <<prog, run, pf, blocked, entry, checkPf, active,
                       waiting, main, cmd>>

\* The main thread of a started image touches its PEB; once the loader has
\* entered the module there, its entry point gets the debug register.
PebAccess(c) ==
    LET t == run[c].thread
        p == ProcessOf[t]
    IN  /\ run[c] # Idle
        /\ prog[p] = "loading"
        /\ waitEntry /\ Attached(p) /\ detail[p].starting
        /\ ~armed
        /\ armed' = TRUE
        /\ UNCHANGED <<guest, waitEntry, waitPf, kernel, host>>

\* The thread reaches the entry point.  If its page is not in memory the
\* fault is left to Windows and the debug register waits for the return;
\* otherwise, or at the return, the process has been started and pauses.
EntrypointPagedOut(c) ==
    LET p == ProcessOf[run[c].thread]
    IN  /\ run[c] # Idle
        /\ prog[p] = "loading"
        /\ armed /\ waitEntry /\ Attached(p)
        /\ waitEntry' = FALSE
        /\ waitPf' = TRUE
        /\ prog' = [prog EXCEPT ![p] = "paging"]
        /\ UNCHANGED <<run, pf, blocked, hw, harmed, armed, kernel, host>>

EntrypointTaken == waitPf' = FALSE /\ waitEntry' = FALSE

ReachedToProcessEntrypoint(c) ==
    LET t == run[c].thread
        p == ProcessOf[t]
    IN  /\ run[c] # Idle
        /\ prog[p] \in {"loading", "paging"}
        /\ armed /\ (waitEntry \/ waitPf)
        /\ UdCheckAndHandleBreakpointsAndDebugBreaks(t, "entry")
        /\ EntrypointTaken
        /\ armed' = FALSE
        /\ prog' = [prog EXCEPT ![p] = "live"]
        /\ UNCHANGED <<run, pf, blocked, harmed, checkPf, active, waiting,
                       main, cmd>>

-----------------------------------------------------------------------------
(* Serving commands in the sled. *)

\* The thread goes back to the address it was caught at; stepping in also
\* sets its trap flag, stepping over sets nothing.
UdContinueThread(d) == [d EXCEPT !.paused = FALSE]
UdStepInstructions(d, kind) == [UdContinueThread(d) EXCEPT !.tf = @ \/ kind = "in"]
UdPerformCommand(d, kind) ==
    IF kind = "continue" THEN UdContinueThread(d) ELSE UdStepInstructions(d, kind)

FirstCommand(acts) ==
    CHOOSE i \in 1..MaxActions :
        acts[i] # "none" /\ \A j \in 1..(i - 1) : acts[j] = "none"

\* Mutant: the slot of the served command is not emptied.
ServedAgain(d, i) == UdPerformCommand(d, d.acts[i])
Served(d, i) == [UdPerformCommand(d, d.acts[i]) EXCEPT !.acts[i] = "none"]

\* A CPUID of the sled: a paused thread serves the first of its slots that
\* holds a command, and empties it.
UdCheckForCommand(c) ==
    LET t == run[c].thread
        p == ProcessOf[t]
        i == FirstCommand(det[t].acts)
    IN  /\ run[c] # Idle
        /\ hw[t].at = "sled"
        /\ Attached(p) /\ t \in detail[p].known
        /\ det[t].paused /\ Busy(t)
        /\ det' = [det EXCEPT ![t] = Served(@, i)]
        /\ hw' = [hw EXCEPT ![t] = [at |-> det[t].rip, trap |-> @.trap \/ det'[t].tf]]
        /\ UNCHANGED <<prog, run, pf, blocked, harmed, entry, checkPf,
                       detail, pool, host>>

-----------------------------------------------------------------------------
(* The controller's commands. *)

\* The command thread reads a line when its last command has returned.
Prompt ==
    /\ main = "idle"
    /\ (log = <<>> /\ ~waitPf) \/ "command" \in Crossing
    /\ (\A t \in Threads : det[t].paused => ~Busy(t)) \/ "serve" \in Crossing

\* Every IOCTL first lets the pool manager replace the holders in use.
Refilled(taken) == pool' = PoolSize - taken

\* g_SeedOfUserDebuggingDetails counts up, so a token is never one that is
\* still known to anybody.  Tokens are reused here once they are forgotten;
\* MaxTokens bounds how many are known at a time.
Unknown(k) ==
    /\ k \notin {active.token, cmd.token} \cup {detail[p].token : p \in Procs}
    /\ \A i \in DOMAIN log : log[i].token # k
TokensLeft == \E k \in 1..MaxTokens : Unknown(k)
NewToken == CHOOSE k \in 1..MaxTokens : Unknown(k)

AttachingCreateProcessDebuggingDetails == [NoDetail EXCEPT !.token = NewToken, !.held = 1]

\* The threads of a process are intercepted as they load CR3 and fault, or no
\* longer; the switch that makes the exits matter is one for all processes.
AttachingConfigureInterceptingThreads(p, d, enable) ==
    /\ detail' = [detail EXCEPT ![p] = [d EXCEPT !.phase = enable]]
    /\ checkPf' = enable

\* .attach: the record gets the next token and a holder, and the threads of
\* the process are intercepted.
AttachingPerformAttachToProcess(p) ==
    /\ Prompt
    /\ p \notin Images /\ prog[p] = "live"
    /\ ~Attached(p) /\ TokensLeft
    /\ (\A q \in Procs : ~detail[q].phase) \/ "two" \in Crossing
    /\ AttachingConfigureInterceptingThreads(p, AttachingCreateProcessDebuggingDetails, TRUE)
    /\ Refilled(1)
    /\ UNCHANGED <<guest, entry, det, host>>

\* .start: the image is created suspended, attached in its starting phase
\* and resumed; the controller then asks again and again to remove the
\* monitor of its PEB, which is refused until the entry point is reached.
StartAttached(p) ==
    /\ Prompt
    /\ p \in Images /\ prog[p] \in {"absent", "dead"}
    /\ ~Attached(p) /\ TokensLeft
    /\ \A q \in Procs : ~detail[q].starting
    /\ detail' = [detail EXCEPT ![p] = [AttachingCreateProcessDebuggingDetails EXCEPT
                                            !.starting = TRUE]]
    /\ waitEntry' = TRUE
    /\ prog' = [prog EXCEPT ![p] = "loading"]
    /\ Refilled(1)
    /\ main' = "start"
    /\ UNCHANGED <<run, pf, blocked, hw, harmed, waitPf, armed, checkPf, det, log,
                   active, waiting, cmd>>

AttachingRemoveHooks ==
    /\ main = "start"
    /\ ~waitEntry
    /\ main' = "idle"
    /\ Refilled(0)
    /\ UNCHANGED <<guest, entry, checkPf, detail, det, log, active, waiting,
                   cmd>>

\* pause and CTRL+C: the threads of the active process are intercepted again.
AttachingPauseProcess ==
    /\ Prompt \/ main = "start"
    /\ active.on
    /\ \E p \in ByToken(active.token) :
          /\ ~detail[p].phase
          /\ (\A q \in Procs : ~detail[q].phase) \/ "two" \in Crossing
          /\ AttachingConfigureInterceptingThreads(p, detail[p], TRUE)
    /\ Refilled(0)
    /\ UNCHANGED <<guest, entry, det, host>>

\* The first half of a command for the debuggee: the interception of the
\* process that holds the token is switched off.
UdDispatchUsermodeCommands(kind, token, t) ==
    LET ps == ByToken(token) IN
    /\ (\A p \in Procs \ ps : ~detail[p].phase) \/ "two" \in Crossing
    /\ IF \E p \in ps : detail[p].phase
       THEN \E p \in ps : AttachingConfigureInterceptingThreads(p, detail[p], FALSE)
       ELSE UNCHANGED <<detail, checkPf>>
    /\ cmd' = [kind |-> kind, token |-> token, proc |-> active.proc, thread |-> t,
               restore |-> \E p \in ps : detail[p].phase]
    /\ main' = "apply"
    /\ Refilled(0)
    /\ UNCHANGED <<guest, entry, det, log>>
\* Mutant: the controller still shows the thread as paused.
ShownPaused(a) == a
Resumed(a) == [a EXCEPT !.paused = FALSE]

\* g: every paused thread is to continue.
CommandG ==
    /\ Prompt
    /\ active.on /\ active.paused
    /\ UdDispatchUsermodeCommands("continue", active.token, "none")
    /\ active' = Resumed(active)
    /\ UNCHANGED waiting

\* t and p: one thread is to step, and the command waits for its pause.
UdSendStepPacketToDebuggee(kind) ==
    /\ Prompt
    /\ active.on /\ active.paused
    /\ UdDispatchUsermodeCommands(kind, active.token, active.thread)
    /\ waiting' = TRUE
    /\ UNCHANGED active

\* .detach continues the threads before it asks for the detachment.
UdDetachProcess ==
    /\ Prompt
    /\ active.on
    /\ UdDispatchUsermodeCommands("detach", active.token, "none")
    /\ UNCHANGED <<active, waiting>>

\* The command goes to the first free slot, and is lost without one.
Queued(acts, kind) ==
    IF \E i \in DOMAIN acts : acts[i] = "none"
    THEN LET i == CHOOSE j \in DOMAIN acts :
                    acts[j] = "none" /\ \A k \in 1..(j - 1) : acts[k] # "none"
         IN  [acts EXCEPT ![i] = kind]
    ELSE acts

Restored(p) == blocked[p] \ detail[p].saved

\* The second half of a command: the recorded page tables of an intercepted
\* process are restored, and the command is queued for every paused thread,
\* or for the one thread it names, paused or not.
ThreadHolderApplyActionToPausedThreads ==
    LET ps == ByToken(cmd.token)
        known == UNION {detail[p].known : p \in ps}
        targets == IF cmd.thread = "none" THEN {t \in known : det[t].paused}
                                          ELSE {cmd.thread} \cap known
        kind == IF cmd.kind = "detach" THEN "continue" ELSE cmd.kind
    IN  /\ main = "apply"
        /\ blocked' = [p \in Procs |-> IF p \in ps /\ cmd.restore
                                      THEN Restored(p) ELSE blocked[p]]
        /\ det' = [t \in Threads |->
                      IF t \in targets THEN [det[t] EXCEPT !.acts = Queued(@, kind)]
                                       ELSE det[t]]
        /\ harmed' = (harmed \/ (ps # {} /\ cmd.thread # "none" /\ targets = {}))
        /\ main' = CASE cmd.kind = "continue" -> "idle"
                     [] cmd.kind = "detach" -> "detach"
                     [] OTHER -> "step"
        /\ cmd' = IF cmd.kind = "detach" THEN cmd ELSE NoCommand
        /\ UNCHANGED <<prog, run, pf, hw, entry, checkPf, detail, pool, log,
                       active, waiting>>

\* The step returns when the reader has signalled a pause.
StepReturns ==
    /\ main = "step" /\ ~waiting
    /\ main' = "idle"
    /\ UNCHANGED <<guest, entry, kernel, log, active, waiting, cmd>>

\* The record of a process and the details of its threads are given back;
\* neither the interception nor the page tables are touched.
AttachingRemoveProcessDebuggingDetails(ps) ==
    /\ detail' = [p \in Procs |-> IF p \in ps THEN NoDetail ELSE detail[p]]
    /\ det' = [t \in Threads |-> IF ProcessOf[t] \in ps THEN NoThread ELSE det[t]]

ThreadHolderIsAnyPausedThreadInProcess(p) == \E t \in detail[p].known : det[t].paused

\* The detachment is refused while a thread is paused.
AttachingPerformDetach ==
    LET p == cmd.proc
    IN  /\ main = "detach"
        /\ (\A t \in Threads : det[t].paused => ~Busy(t)) \/ "serve" \in Crossing
        /\ IF Attached(p) /\ ~ThreadHolderIsAnyPausedThreadInProcess(p)
           THEN /\ AttachingRemoveProcessDebuggingDetails({p})
                /\ active' = NoActive
           ELSE UNCHANGED <<detail, det, active>>
        /\ main' = "idle"
        /\ cmd' = NoCommand
        /\ Refilled(0)
        /\ UNCHANGED <<guest, entry, checkPf, log, waiting>>

\* .kill ends the active process and forgets it.
AttachingKillProcess ==
    LET p == active.proc
        gone == {c \in Cores : run[c].thread \in ThreadsOf(p)}
    IN  /\ Prompt
        /\ active.on /\ Attached(p)
        /\ prog' = [prog EXCEPT ![p] = "dead"]
        /\ run' = [c \in Cores |-> IF c \in gone THEN Idle ELSE run[c]]
        /\ pf' = IF checkPf THEN pf \ gone ELSE pf
        /\ blocked' = [blocked EXCEPT ![p] = {}]
        /\ hw' = [t \in Threads |-> IF ProcessOf[t] = p
                                    THEN [at |-> "code", trap |-> FALSE] ELSE hw[t]]
        /\ AttachingRemoveProcessDebuggingDetails({p})
        /\ active' = NoActive
        /\ Refilled(0)
        /\ UNCHANGED <<harmed, entry, checkPf, log, waiting, main, cmd>>

\* switch: a thread the kernel has details of becomes the active one.
AttachingSwitchProcess(t) ==
    LET p == ProcessOf[t] IN
    /\ Prompt
    /\ Attached(p) /\ t \in detail[p].known
    /\ active' = [on |-> TRUE, proc |-> p, thread |-> t, token |-> detail[p].token,
                  paused |-> det[t].paused]
    /\ Refilled(0)
    /\ UNCHANGED <<guest, entry, checkPf, detail, det, log, waiting, main, cmd>>

\* Unloading the module frees every record; the hypervisor ends with it.
UdUninitializeUserDebugger ==
    /\ Prompt
    /\ \/ "unload" \in Crossing
       \/ /\ \A t \in Threads : hw[t].at # "sled"
          /\ \A p \in Procs : blocked[p] = {}
    /\ checkPf' = FALSE
    /\ pf' = {}
    /\ AttachingRemoveProcessDebuggingDetails(Procs)
    /\ active' = NoActive
    /\ UNCHANGED <<prog, run, blocked, hw, harmed, entry, pool, log, waiting, main, cmd>>

\* Mutant: the step that waits is not signalled.
ResponseMissed == UNCHANGED waiting
DbgReceivedUserResponse == waiting' = FALSE

\* The reader takes a pause packet: its thread becomes the active one, and a
\* step that waits is signalled.
UdHandleUserDebuggerPausing ==
    /\ log # <<>>
    /\ LET m == Head(log) IN
       active' = [on |-> TRUE, proc |-> m.proc, thread |-> m.thread, token |-> m.token,
                  paused |-> TRUE]
    /\ log' = Tail(log)
    /\ DbgReceivedUserResponse
    /\ UNCHANGED <<guest, entry, kernel, main, cmd>>

-----------------------------------------------------------------------------
ThreadStep(c) ==
    \/ PageFault(c) \/ DebugTrap(c) \/ PebAccess(c) \/ EntrypointPagedOut(c)
    \/ ReachedToProcessEntrypoint(c) \/ UdCheckForCommand(c)

Typed ==
    \/ \E p \in Procs : AttachingPerformAttachToProcess(p) \/ StartAttached(p)
    \/ AttachingPauseProcess
    \/ CommandG
    \/ \E kind \in Steps : UdSendStepPacketToDebuggee(kind)
    \/ UdDetachProcess
    \/ AttachingKillProcess
    \/ \E t \in Threads : AttachingSwitchProcess(t)
    \/ UdUninitializeUserDebugger

Pending ==
    \/ AttachingRemoveHooks \/ ThreadHolderApplyActionToPausedThreads
    \/ StepReturns \/ AttachingPerformDetach

Next ==
    \/ \E c \in Cores, t \in Threads, k \in 1..NCr3 : Dispatch(c, t, k)
    \/ \E c \in Cores : Preempt(c) \/ ThreadStep(c)
    \/ Typed
    \/ Pending
    \/ UdHandleUserDebuggerPausing

Spec == Init /\ [][Next]_vars

(***************************************************************************)
(* Windows runs every ready thread again and again and lets it execute; a  *)
(* core does not run one thread for ever; the controller's two threads     *)
(* continue what they began.  No command need be typed.                    *)
(***************************************************************************)
FairSpec ==
    /\ Spec
    /\ \A t \in Threads :
          /\ WF_vars(\E c \in Cores, k \in 1..NCr3 : Dispatch(c, t, k))
          /\ SF_vars(\E c \in Cores : run[c].thread = t /\ ThreadStep(c))
    /\ \A c \in Cores : WF_vars(Preempt(c))
    /\ WF_vars(Pending)
    /\ WF_vars(UdHandleUserDebuggerPausing)

-----------------------------------------------------------------------------
\* The values the state of the two debuggers may take.
TypeOK ==
    /\ prog \in [Procs -> {"absent", "loading", "paging", "live", "dead"}]
    /\ \A c \in Cores : run[c] \in {Idle} \cup [thread : Threads, cr3 : 1..NCr3]
    /\ pf \subseteq Cores
    /\ blocked \in [Procs -> SUBSET (1..NCr3)]
    /\ hw \in [Threads -> [at : {"code", "sled"}, trap : BOOLEAN]]
    /\ {checkPf, waitEntry, waitPf, armed, waiting, harmed} \subseteq BOOLEAN
    /\ \A p \in Procs : /\ detail[p].token \in 0..MaxTokens
                         /\ detail[p].saved \subseteq 1..NCr3
                         /\ detail[p].known \subseteq ThreadsOf(p)
                         /\ Cardinality(detail[p].known) <= HolderSize * detail[p].held
    /\ pool \in 0..PoolSize
    /\ main \in {"idle", "start", "apply", "step", "detach"}

\* Whether a thread is paused is known at three places that agree.  It spins in
\* the sled exactly while its details say it is paused and know the address it
\* was caught at: none is left in the sled with nobody to release it.  And when
\* a command can be typed, what the controller shows as the active, paused
\* thread is one the kernel holds, under the token it will send.
PausedMeansHeld ==
    /\ \A t \in Threads :
         LET p == ProcessOf[t] IN
         (hw[t].at = "sled") = (/\ Attached(p) /\ t \in detail[p].known
                               /\ det[t].paused /\ det[t].rip = "code")
    /\ (Prompt /\ active.on /\ active.paused) =>
         /\ detail[active.proc].token = active.token
         /\ active.thread \in detail[active.proc].known
         /\ det[active.thread].paused

\* No debuggee sees a page fault or a trap that the debugger provoked, and
\* the kernel is never asked to act on a thread it has no details of.
DebuggeeUnharmed == ~harmed

\* A thread that pauses has no command left over from an earlier pause: it
\* stays paused until the user asks for something.
PauseHolds ==
    [][\A t \in Threads : ~det[t].paused /\ det'[t].paused => ~Busy(t)']_vars

\* t returns: the thread that was told to step pauses again; and .start returns:
\* the entry point of the image is reached and noticed.
CommandsEnd ==
    /\ main = "step" ~> main # "step"
    /\ main = "start" ~> main # "start"

\* Every thread of an intercepted process is caught, unless the user gives
\* up first.
InterceptionCatches ==
    \A t \in Threads :
        detail[ProcessOf[t]].phase ~> (hw[t].at = "sled" \/ ~detail[ProcessOf[t]].phase)
=============================================================================
