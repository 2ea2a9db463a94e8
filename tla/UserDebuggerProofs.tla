------------------------- MODULE UserDebuggerProofs -------------------------
(***************************************************************************)
(* Proofs about UserDebugger, for any cores, threads, processes, images    *)
(* and numbers of page tables, holders and command slots: who is paused,   *)
(* who holds a paused thread, and that a debuggee notices nothing.         *)
(*                                                                         *)
(* A thread is in flight while it has a command to serve or a step to      *)
(* finish.  The invariant says that then nothing else is going on: no      *)
(* process is intercepted, no entry point awaited and no pause unread.     *)
(***************************************************************************)
EXTENDS UserDebugger, FiniteSetTheorems, TLAPS

Details == [token : Nat, phase : BOOLEAN, starting : BOOLEAN, saved : SUBSET (1..NCr3),
            held : Nat, known : SUBSET Threads]
ThreadDetails == [rip : {"none", "code"}, paused : BOOLEAN, tf : BOOLEAN,
                  acts : [1..MaxActions -> {"none", "continue", "in", "over"}]]
Packets == [thread : Threads, proc : Procs, token : Nat]
Actives == [on : BOOLEAN, proc : Procs \cup {"none"}, thread : Threads \cup {"none"}, token : Nat,
            paused : BOOLEAN]

Types ==
  /\ run \in [Cores -> {Idle} \cup [thread : Threads, cr3 : 1..NCr3]]
  /\ prog \in [Procs -> {"absent", "loading", "paging", "live", "dead"}]
  /\ blocked \in [Procs -> SUBSET (1..NCr3)]
  /\ hw \in [Threads -> [at : {"code", "sled"}, trap : BOOLEAN]]
  /\ detail \in [Procs -> Details]
  /\ det \in [Threads -> ThreadDetails]
  /\ log \in Seq(Packets)

\* The threads that the kernel holds: paused means in the sled, with details of
\* the thread's own process; and a trap flag is known to be the debugger's.
Held ==
  /\ \A p \in Procs : ~Attached(p) => detail[p].known = {} /\ ~detail[p].phase
  /\ \A p \in Procs : \A t \in detail[p].known : ProcessOf[t] = p
  /\ \A t \in Threads :
       /\ det[t].paused <=> hw[t].at = "sled"
       /\ det[t].paused => t \in detail[ProcessOf[t]].known /\ det[t].rip = "code"
       /\ det[t].tf = hw[t].trap
       /\ hw[t].trap => ~det[t].paused /\ t \in detail[ProcessOf[t]].known

\* A thread has a command to serve or a step to finish.
InFlight(t) == Busy(t) \/ hw[t].trap

\* No thread is about to be caught, but by a step.
Calm == ~waitEntry /\ ~waitPf /\ \A p \in Procs : ~detail[p].phase

\* Only paused threads have a command, each only one, and a step is on its way
\* only while the command thread waits for it.
Slots ==
  \A t \in Threads :
    /\ Busy(t) => det[t].paused
    /\ \A i, j \in 1..MaxActions : det[t].acts[i] # "none" /\ det[t].acts[j] # "none" => i = j
    /\ \A i \in 1..MaxActions : det[t].acts[i] \in {"in", "over"} => main = "step"
    /\ hw[t].trap => main = "step"

Flights ==
  /\ \A t \in Threads : InFlight(t) =>
       /\ Calm /\ log = <<>> /\ main \in {"idle", "step", "detach"}
       /\ main = "step" => t = active.thread /\ waiting
       /\ main = "idle" => ~active.paused
  /\ main \in {"apply", "step", "detach"} => Calm
  /\ main \in {"apply", "detach"} => log = <<>>
  /\ waitEntry => main = "start"

\* No two processes have one token.
Tokens == \A p, q \in Procs : Attached(p) /\ detail[p].token = detail[q].token => p = q

\* What the controller knows: its active thread is one the kernel knows, and
\* paused if it is shown so and is not on its way; the packets tell of paused
\* threads.
Shown ==
  /\ active \in Actives
  /\ active.on =>
       /\ active.proc \in Procs /\ Attached(active.proc)
       /\ active.token = detail[active.proc].token
       /\ active.thread \in detail[active.proc].known
       /\ active.paused => \/ det[active.thread].paused
                           \/ main = "step" /\ waiting
                           \/ main = "detach"
  /\ \A i \in 1..Len(log) :
       /\ log[i].proc = ProcessOf[log[i].thread]
       /\ log[i].token = detail[log[i].proc].token
       /\ det[log[i].thread].paused

\* The request the command thread is performing.
Asked ==
  /\ main \in {"apply", "detach"} =>
       active.on /\ cmd.proc = active.proc /\ cmd.token = active.token
  /\ main = "apply" =>
       \/ cmd.kind = "continue" /\ cmd.thread = "none" /\ ~active.paused
       \/ cmd.kind = "detach" /\ cmd.thread = "none"
       \/ cmd.kind \in {"in", "over"} /\ cmd.thread = active.thread /\ active.paused /\ waiting
  /\ main = "detach" => \A t \in detail[cmd.proc].known : det[t].paused => Busy(t)

\* A started image that has not reached its entry point.
Young(p) == prog[p] \in {"loading", "paging"}
Started ==
  /\ \A p \in Procs : Young(p) =>
       Attached(p) /\ detail[p].known = {} /\ ~detail[p].phase /\ (waitEntry \/ waitPf)
  /\ \A p, q \in Procs : Young(p) /\ Young(q) => p = q

Inv == Types /\ Held /\ Slots /\ Flights /\ Tokens /\ Shown /\ Asked /\ Started

\* No command crosses another's work, and no other process is intercepted
\* meanwhile; a debuggee may see faults that are not its own.
Orderly == Crossing \subseteq {"fault", "core"}

-----------------------------------------------------------------------------
(* Threads, slots and tokens                                                 *)

\* What the constants are assumed to be.
LEMMA Owner ==
  /\ \A t \in Threads : ProcessOf[t] \in Procs
  /\ "none" \notin Threads /\ "none" \notin Procs
  /\ MaxActions \in Nat /\ MaxActions > 0 /\ 1 \in 1..MaxActions
  /\ MaxTokens \in Nat /\ NCr3 \in Nat /\ MaxCr3 \in Nat
  /\ Steps \subseteq {"in", "over"}
BY UserDebuggerConstants

\* What is known of one thread.
LEMMA HeldOf ==
  ASSUME Held, NEW t \in Threads
  PROVE  /\ det[t].paused <=> hw[t].at = "sled"
         /\ det[t].paused => t \in detail[ProcessOf[t]].known /\ det[t].rip = "code"
         /\ det[t].tf = hw[t].trap
         /\ hw[t].trap => ~det[t].paused /\ t \in detail[ProcessOf[t]].known
BY Zenon DEF Held

\* A thread that runs on a core.
LEMMA Runs ==
  ASSUME Types, NEW c \in Cores, run[c] # Idle
  PROVE  /\ run[c].thread \in Threads /\ ProcessOf[run[c].thread] \in Procs
         /\ run[c].cr3 \in 1..NCr3
BY Owner, Zenon DEF Types

\* The token of a new attachment is nobody's.
LEMMA TokenIsNew ==
  ASSUME TokensLeft
  PROVE  /\ NewToken \in Nat /\ NewToken # 0
         /\ \A p \in Procs : detail[p].token # NewToken
<1>1. NewToken \in 1..MaxTokens /\ Unknown(NewToken)
  BY Zenon DEF TokensLeft, NewToken
<1> QED  BY <1>1, Owner DEF Unknown

\* The one command of a thread is the first one.
LEMMA OnlyCommand ==
  ASSUME Types, Slots, NEW t \in Threads, NEW i \in 1..MaxActions, det[t].acts[i] # "none"
  PROVE  FirstCommand(det[t].acts) = i
<1>1. \A j \in 1..MaxActions : det[t].acts[j] # "none" => j = i
  BY Zenon DEF Slots
<1>2. \A j \in 1..(i - 1) : j \in 1..MaxActions /\ j # i
  BY Owner
<1>3. /\ det[t].acts[i] # "none" /\ \A j \in 1..(i - 1) : det[t].acts[j] = "none"
  BY <1>1, <1>2, Zenon
<1> QED  BY <1>1, <1>3, Zenon DEF FirstCommand

\* A thread without a command gets it into its first slot.
LEMMA FirstSlot ==
  ASSUME Types, NEW t \in Threads, ~Busy(t), NEW kind
  PROVE  Queued(det[t].acts, kind) = [det[t].acts EXCEPT ![1] = kind]
<1>1. det[t].acts \in [1..MaxActions -> {"none", "continue", "in", "over"}]
  BY Zenon DEF Types, ThreadDetails
<1>2. \A i \in 1..MaxActions : det[t].acts[i] = "none"
  BY Zenon DEF Busy
<1>3. DOMAIN det[t].acts = 1..MaxActions /\ 1..(1 - 1) = {} /\ 1 \in 1..MaxActions
  BY <1>1, Owner
<1>4. \A j \in 1..MaxActions : (\A k \in 1..(j - 1) : det[t].acts[k] # "none") => j = 1
  <2> SUFFICES ASSUME NEW j \in 1..MaxActions, \A k \in 1..(j - 1) : det[t].acts[k] # "none", j # 1
               PROVE FALSE
    BY Zenon
  <2>1. 1 \in 1..(j - 1) /\ 1 \in 1..MaxActions
    BY Owner
  <2> QED  BY <1>2, <2>1, Zenon
<1> DEFINE first == CHOOSE j \in DOMAIN det[t].acts :
                      det[t].acts[j] = "none" /\ \A k \in 1..(j - 1) : det[t].acts[k] # "none"
<1>5. first = 1
  BY <1>2, <1>3, <1>4, Zenon
<1>6. \E i \in DOMAIN det[t].acts : det[t].acts[i] = "none"
  BY <1>2, <1>3, Zenon
<1> HIDE DEF first
<1>7. Queued(det[t].acts, kind) = [det[t].acts EXCEPT ![first] = kind]
  BY <1>6, Zenon DEF Queued, first
<1> QED  BY <1>5, <1>7, Zenon
-----------------------------------------------------------------------------
(* A thread is caught                                                        *)

Same(u) == det'[u] = det[u] /\ hw'[u] = hw[u]

\* What UdCheckAndHandleBreakpointsAndDebugBreaks does to thread t.
Caught(t, stepped) ==
  /\ Attached(ProcessOf[t])
  /\ det'[t].paused /\ det'[t].rip = "code" /\ det'[t].acts = det[t].acts
  /\ det'[t].tf = (det[t].tf /\ ~stepped)
  /\ hw'[t].at = "sled" /\ hw'[t].trap = (hw[t].trap /\ ~(stepped /\ det[t].tf))
  /\ \A u \in Threads \ {t} : Same(u)
  /\ \A q \in Procs : /\ detail'[q].token = detail[q].token /\ detail'[q].phase = detail[q].phase
                      /\ detail'[q].saved = detail[q].saved
                      /\ q # ProcessOf[t] => detail'[q].known = detail[q].known
  /\ detail'[ProcessOf[t]].known = detail[ProcessOf[t]].known \cup {t}
  /\ log' = Append(log, [thread |-> t, proc |-> ProcessOf[t], token |-> detail[ProcessOf[t]].token])

LEMMA CatchCaught ==
  ASSUME Types, NEW t \in Threads, NEW reason, hw[t].at = "code",
         UdCheckAndHandleBreakpointsAndDebugBreaks(t, reason)
  PROVE  /\ detail' \in [Procs -> Details] /\ det' \in [Threads -> ThreadDetails]
         /\ hw' \in [Threads -> [at : {"code", "sled"}, trap : BOOLEAN]] /\ log' \in Seq(Packets)
         /\ Caught(t, reason = "step")
<1> DEFINE p == ProcessOf[t]
           new == NeedsHolder(p, t)
           stepped == reason = "step" /\ det[t].tf
           d == IF stepped THEN [det[t] EXCEPT !.tf = FALSE] ELSE det[t]
<1>1. /\ Attached(p)
      /\ detail' = [detail EXCEPT ![p].known = @ \cup {t}, ![p].held = IF new THEN @ + 1 ELSE @,
                                  ![p].starting = @ /\ reason # "entry"]
      /\ det' = [det EXCEPT ![t] = [d EXCEPT !.rip = hw[t].at, !.paused = TRUE]]
      /\ hw' = [hw EXCEPT ![t] = [at |-> "sled", trap |-> @.trap /\ ~stepped]]
      /\ log' = Append(log, [thread |-> t, proc |-> p, token |-> detail[p].token])
  BY Zenon DEF UdCheckAndHandleBreakpointsAndDebugBreaks, UdSpinThreadOnNop, UdHandleAfterStepping
<1>2. p \in Procs /\ detail \in [Procs -> Details] /\ detail[p] \in Details /\ det \in [Threads -> ThreadDetails]
      /\ hw \in [Threads -> [at : {"code", "sled"}, trap : BOOLEAN]] /\ log \in Seq(Packets)
      /\ det[t] \in ThreadDetails /\ hw[t] \in [at : {"code", "sled"}, trap : BOOLEAN]
  BY Owner, Zenon DEF Types
<1> HIDE DEF new, p
<1>3. detail' \in [Procs -> Details]
  <2> DEFINE e == [token |-> detail[p].token, phase |-> detail[p].phase,
                   starting |-> detail[p].starting /\ reason # "entry", saved |-> detail[p].saved,
                   held |-> IF new THEN detail[p].held + 1 ELSE detail[p].held,
                   known |-> detail[p].known \cup {t}]
             f == [detail EXCEPT ![p] = [detail[p] EXCEPT !.known = detail[p].known \cup {t}]]
             g == [f EXCEPT ![p] = [f[p] EXCEPT !.held = IF new THEN f[p].held + 1 ELSE f[p].held]]
  <2>1. detail' = [detail EXCEPT ![p] = e]
    <3>1. f[p] = [token |-> detail[p].token, phase |-> detail[p].phase,
                  starting |-> detail[p].starting, saved |-> detail[p].saved,
                  held |-> detail[p].held, known |-> detail[p].known \cup {t}]
      BY <1>2, Zenon DEF Details
    <3>2. g[p] = [f[p] EXCEPT !.held = IF new THEN f[p].held + 1 ELSE f[p].held]
      BY <1>2
    <3>3. g[p] = [token |-> detail[p].token, phase |-> detail[p].phase,
                  starting |-> detail[p].starting, saved |-> detail[p].saved,
                  held |-> IF new THEN detail[p].held + 1 ELSE detail[p].held,
                  known |-> detail[p].known \cup {t}]
      <4> HIDE DEF f
      <4> QED  BY <3>1, <3>2
    <3>4. detail' = [g EXCEPT ![p] = [g[p] EXCEPT !.starting = g[p].starting /\ reason # "entry"]]
      BY <1>1, Zenon
    <3>5. [g[p] EXCEPT !.starting = g[p].starting /\ reason # "entry"] = e
      <4> HIDE DEF g
      <4> QED  BY <3>3
    <3>6. detail' = [g EXCEPT ![p] = e]
      BY <3>4, <3>5, Zenon
    <3>7. [g EXCEPT ![p] = e] = [detail EXCEPT ![p] = e]
      <4> HIDE DEF e
      <4> QED  BY <1>2, Zenon
    <3> QED  BY <3>6, <3>7, Zenon
  <2>2. e \in Details
    BY <1>2 DEF Details
  <2> HIDE DEF e
  <2> QED  BY <1>2, <2>1, <2>2, Zenon
<1>4. /\ \A q \in Procs : /\ detail'[q].token = detail[q].token /\ detail'[q].phase = detail[q].phase
                          /\ detail'[q].saved = detail[q].saved
                          /\ q # p => detail'[q].known = detail[q].known
      /\ detail'[p].known = detail[p].known \cup {t}
  BY <1>1, <1>2, Zenon DEF Details
<1>5. det' \in [Threads -> ThreadDetails] /\ \A u \in Threads \ {t} : det'[u] = det[u]
  BY <1>1, <1>2, Zenon DEF ThreadDetails
<1>6. /\ det'[t].paused /\ det'[t].rip = "code" /\ det'[t].acts = det[t].acts
      /\ det'[t].tf = (det[t].tf /\ ~(reason = "step"))
  BY <1>1, <1>2, Zenon DEF ThreadDetails
<1>7. /\ hw' \in [Threads -> [at : {"code", "sled"}, trap : BOOLEAN]]
      /\ \A u \in Threads \ {t} : hw'[u] = hw[u]
      /\ hw'[t].at = "sled" /\ hw'[t].trap = (hw[t].trap /\ ~(reason = "step" /\ det[t].tf))
  BY <1>1, <1>2, Zenon DEF ThreadDetails
<1>8. log' \in Seq(Packets)
  <2>1. detail[p].token \in Nat
    BY <1>2, Zenon DEF Details
  <2>2. [thread |-> t, proc |-> p, token |-> detail[p].token] \in Packets
    BY <1>2, <2>1, Zenon DEF Packets
  <2> QED  BY <1>1, <1>2, <2>2
<1> QED  BY <1>1, <1>3, <1>4, <1>5, <1>6, <1>7, <1>8, Zenon DEF Caught, Same, p

\* A catch keeps the invariant if nothing else is in flight.
LEMMA CatchKeeps ==
  ASSUME Inv, Types', NEW t \in Threads, NEW stepped \in BOOLEAN, Caught(t, stepped),
         hw[t].at = "code", det[t].tf => stepped, \A u \in Threads \ {t} : ~InFlight(u),
         main \notin {"apply", "detach"}, UNCHANGED <<active, waiting, main, cmd>>,
         main = "step" => ~waitEntry' /\ ~waitPf', waitEntry' => waitEntry,
         \A p \in Procs : Young(p)' => Young(p) /\ p # ProcessOf[t] /\ (waitEntry' \/ waitPf')
  PROVE  Inv'
<1>1. Types /\ Held /\ Slots /\ Flights /\ Tokens /\ Shown /\ Asked /\ Started
  BY Zenon DEF Inv
<1>2. ProcessOf[t] \in Procs
  BY Owner, Zenon
<1>3. \A u \in Threads : det'[u].acts = det[u].acts /\ (det[u].paused => det'[u].paused)
  BY Zenon DEF Caught, Same
<1>4. det'[t].tf = FALSE /\ hw'[t].trap = FALSE
  BY <1>1, Zenon DEF Caught, Held, Types, ThreadDetails
<1>5. \A q \in Procs : detail[q].known \subseteq detail'[q].known
  BY <1>2, Zenon DEF Caught
<1>6. Held'
  <2>1. (\A p \in Procs : ~Attached(p) => detail[p].known = {} /\ ~detail[p].phase)'
    BY <1>1 DEF Held, Caught, Attached
  <2>2. (\A p \in Procs : \A u \in detail[p].known : ProcessOf[u] = p)'
    BY <1>1 DEF Held, Caught
  <2>3. ASSUME NEW u \in Threads
        PROVE /\ det'[u].paused <=> hw'[u].at = "sled"
              /\ det'[u].paused => u \in detail'[ProcessOf[u]].known /\ det'[u].rip = "code"
              /\ det'[u].tf = hw'[u].trap
              /\ hw'[u].trap => ~det'[u].paused /\ u \in detail'[ProcessOf[u]].known
    <3>1. CASE u = t
      BY <1>2, <1>4, <3>1, Zenon DEF Caught
    <3>2. CASE u # t
      <4>1. det'[u] = det[u] /\ hw'[u] = hw[u] /\ ProcessOf[u] \in Procs
        BY <3>2, Owner, Zenon DEF Caught, Same
      <4>2. detail[ProcessOf[u]].known \subseteq detail'[ProcessOf[u]].known
        BY <1>5, <4>1, Zenon
      <4> QED  BY <1>1, <4>1, <4>2, HeldOf
    <3> QED  BY <3>1, <3>2, Zenon
  <2> QED  BY <2>1, <2>2, <2>3, Zenon DEF Held
<1>7. \A u \in Threads : ~Busy(u)' /\ ~hw'[u].trap
  <2>1. ~Busy(t)
    BY <1>1, Zenon DEF Slots, Held
  <2>2. \A u \in Threads : ~Busy(u)
    BY <2>1, Zenon DEF InFlight
  <2>3. \A u \in Threads : ~Busy(u)'
    BY <1>3, <2>2 DEF Busy
  <2>4. \A u \in Threads \ {t} : ~hw'[u].trap
    BY Zenon DEF InFlight, Caught, Same
  <2> QED  BY <1>4, <2>3, <2>4, Zenon
<1>8. Slots'
  <2>1. \A u \in Threads : \A i \in 1..MaxActions : det'[u].acts[i] = "none"
    BY <1>7, Zenon DEF Busy
  <2> QED  BY <1>7, <2>1, Zenon DEF Slots
<1>9. Flights'
  <2>1. main = "step" => Calm'
    BY <1>1, Zenon DEF Flights, Calm, Caught
  <2> QED  BY <1>1, <1>7, <2>1, Zenon DEF Flights, InFlight
<1>10. Tokens'
  BY <1>1 DEF Tokens, Caught, Attached
<1>11. Shown'
  <2> DEFINE m == [thread |-> t, proc |-> ProcessOf[t], token |-> detail[ProcessOf[t]].token]
  <2>1. \A q \in Procs : detail'[q].token = detail[q].token
    BY Zenon DEF Caught
  <2>2. ASSUME active.on
        PROVE  (/\ active.proc \in Procs /\ Attached(active.proc)
                /\ active.token = detail[active.proc].token
                /\ active.thread \in detail[active.proc].known
                /\ active.paused => \/ det[active.thread].paused
                                    \/ main = "step" /\ waiting
                                    \/ main = "detach")'
    <3>1. active.proc \in Procs /\ active.thread \in Threads
      BY <1>1, <2>2, Zenon DEF Shown, Types, Details
    <3>2. active' = active /\ main' = main /\ waiting' = waiting
      OBVIOUS
    <3> QED  BY <1>1, <1>3, <1>5, <2>1, <2>2, <3>1, <3>2 DEF Shown, Attached
  <2>3. log' = Append(log, m) /\ log \in Seq(Packets)
    BY <1>1, Zenon DEF Caught, Types
  <2>4. /\ m.proc = ProcessOf[m.thread] /\ m.token = detail'[m.proc].token /\ det'[m.thread].paused
    BY <1>2, <2>1, Zenon DEF Caught
  <2>5. ASSUME NEW i \in 1..Len(log')
        PROVE  log'[i] = m \/ (i \in 1..Len(log) /\ log'[i] = log[i] /\ log[i] \in Packets)
    <3> HIDE DEF m
    <3> QED  BY <2>3, <2>5
  <2>6. ASSUME NEW i \in 1..Len(log')
        PROVE  (/\ log[i].proc = ProcessOf[log[i].thread]
                /\ log[i].token = detail[log[i].proc].token
                /\ det[log[i].thread].paused)'
    <3>1. CASE log'[i] = m
      BY <2>4, <3>1, Zenon
    <3>2. CASE i \in 1..Len(log) /\ log'[i] = log[i] /\ log[i] \in Packets
      <4>1. /\ log[i].proc = ProcessOf[log[i].thread] /\ log[i].token = detail[log[i].proc].token
            /\ det[log[i].thread].paused
        BY <1>1, <3>2, Zenon DEF Shown
      <4>2. log[i].thread \in Threads /\ log[i].proc \in Procs
        BY <3>2, Zenon DEF Packets
      <4> QED  BY <1>3, <2>1, <3>2, <4>1, <4>2, Zenon
    <3> QED  BY <2>5, <2>6, <3>1, <3>2, Zenon
  <2>7. active' \in Actives
    BY <1>1, Zenon DEF Shown
  <2> QED  BY <2>2, <2>6, <2>7, Zenon DEF Shown
<1>12. Asked'
  BY Zenon DEF Asked
<1>13. Started'
  <2>1. \A p \in Procs : Young(p)' =>
          (Attached(p) /\ detail[p].known = {} /\ ~detail[p].phase /\ (waitEntry \/ waitPf))'
    BY <1>1 DEF Started, Caught, Attached
  <2> QED  BY <1>1, <2>1, Zenon DEF Started
<1> QED  BY <1>6, <1>8, <1>9, <1>10, <1>11, <1>12, <1>13, Zenon DEF Inv

-----------------------------------------------------------------------------
(* Steps that leave most of the state alone                                  *)

\* What the invariant is about, but for the page tables and where threads run.
invVars == <<prog, hw, det, log, main, active, waiting, cmd, waitEntry, waitPf>>

LEMMA SameThreads ==
  ASSUME Inv, UNCHANGED invVars, Types', Flights',
         \A p \in Procs : /\ detail'[p].token = detail[p].token /\ detail'[p].known = detail[p].known
                          /\ detail'[p].phase => Attached(p) /\ ~Young(p)
  PROVE  Inv'
<1>1. Types /\ Held /\ Slots /\ Flights /\ Tokens /\ Shown /\ Asked /\ Started
  BY Zenon DEF Inv
<1>2. /\ prog' = prog /\ hw' = hw /\ det' = det /\ log' = log /\ main' = main /\ active' = active
      /\ waiting' = waiting /\ cmd' = cmd /\ waitEntry' = waitEntry /\ waitPf' = waitPf
  BY DEF invVars
<1>3. \A p \in Procs : Attached(p)' = Attached(p) /\ Young(p)' = Young(p)
  BY <1>2, Zenon DEF Attached, Young
<1>4. \A t \in Threads : Busy(t)' = Busy(t)
  BY <1>2 DEF Busy
<1>5. Held'
  BY <1>1, <1>2, <1>3, Owner, Zenon DEF Held
<1>6. Slots'
  BY <1>1, <1>2, <1>4, Zenon DEF Slots
<1>7. Tokens'
  BY <1>1, <1>3 DEF Tokens
<1>8. Shown'
  <2>1. \A i \in 1..Len(log) : log[i].proc \in Procs
    <3>1. \A i \in 1..Len(log) : log[i] \in Packets
      BY <1>1 DEF Types
    <3> QED  BY <3>1, Zenon DEF Packets
  <2> QED  BY <1>1, <1>2, <1>3, <2>1, Zenon DEF Shown
<1>9. Asked'
  <2>1. main = "detach" => cmd.proc \in Procs /\ detail[cmd.proc].known \subseteq Threads
    BY <1>1, Zenon DEF Asked, Shown, Types, Details
  <2> QED  BY <1>1, <1>2, <1>4, <2>1, Zenon DEF Asked
<1>10. Started'
  BY <1>1, <1>2, <1>3, Zenon DEF Started
<1> QED  BY <1>5, <1>6, <1>7, <1>8, <1>9, <1>10, Zenon DEF Inv

LEMMA Alike ==
  ASSUME Inv, UNCHANGED invVars, Types',
         \A p \in Procs : /\ detail'[p].token = detail[p].token /\ detail'[p].phase = detail[p].phase
                          /\ detail'[p].known = detail[p].known
  PROVE  Inv'
<1>1. /\ hw' = hw /\ det' = det /\ log' = log /\ main' = main /\ active' = active
      /\ waiting' = waiting /\ waitEntry' = waitEntry /\ waitPf' = waitPf
  BY DEF invVars
<1>2. Calm' = Calm
  BY <1>1, Zenon DEF Calm
<1>3. \A t \in Threads : InFlight(t)' = InFlight(t)
  BY <1>1, Zenon DEF InFlight, Busy
<1>4. Flights'
  BY <1>1, <1>2, <1>3, Zenon DEF Inv, Flights
<1>5. \A p \in Procs : detail[p].phase => Attached(p) /\ ~Young(p)
  BY Zenon DEF Inv, Held, Started
<1> QED  BY <1>4, <1>5, SameThreads, Zenon

LEMMA Untouched ==
  ASSUME Inv, UNCHANGED <<run, blocked, detail, invVars>>
  PROVE  Inv'
<1>1. run' = run /\ blocked' = blocked /\ detail' = detail /\ UNCHANGED invVars
  BY Zenon
<1>2. Types'
  BY <1>1, Zenon DEF invVars, Inv, Types
<1> QED  BY <1>1, <1>2, Alike, Zenon

\* Interception and an awaited entry point exclude everything in flight.
LEMMA Excluded ==
  ASSUME Inv, waitEntry \/ waitPf \/ \E p \in Procs : detail[p].phase
  PROVE  /\ \A u \in Threads : ~InFlight(u) /\ ~hw[u].trap /\ ~det[u].tf
         /\ main \in {"apply", "step", "detach"} => FALSE
<1>1. ~Calm
  BY Zenon DEF Calm
<1>2. Flights /\ Held /\ Types
  BY Zenon DEF Inv
<1>3. \A u \in Threads : ~InFlight(u) /\ ~hw[u].trap
  BY <1>1, <1>2, Zenon DEF Flights, InFlight
<1> QED  BY <1>1, <1>2, <1>3, Zenon DEF Flights, Held

\* A page fault.
LEMMA PageFaultKeeps ==
  ASSUME Orderly, Inv, NEW c \in Cores, PageFault(c)
  PROVE  Inv'
<1> DEFINE t == run[c].thread
           p == ProcessOf[t]
<1>1. /\ run[c] # Idle /\ hw[t].at = "code"
      /\ UNCHANGED <<prog, run, blocked, active, waiting, main, cmd, waitEntry, waitPf>>
      /\ \/ /\ detail[p].phase /\ UdCheckAndHandleBreakpointsAndDebugBreaks(t, "intercepted")
         \/ UNCHANGED <<detail, det, hw, log>>
  BY Zenon DEF PageFault, Orderly, entry
<1>2. t \in Threads /\ p \in Procs
  BY <1>1, Runs, Zenon DEF Inv
<1> HIDE DEF t, p
<1>3. CASE UNCHANGED <<detail, det, hw, log>>
  BY <1>1, <1>3, Untouched, Zenon DEF invVars
<1>4. CASE detail[p].phase /\ UdCheckAndHandleBreakpointsAndDebugBreaks(t, "intercepted")
  <2>1. /\ Caught(t, FALSE) /\ Types'
    <3>1. /\ detail' \in [Procs -> Details] /\ det' \in [Threads -> ThreadDetails]
          /\ hw' \in [Threads -> [at : {"code", "sled"}, trap : BOOLEAN]] /\ log' \in Seq(Packets)
          /\ Caught(t, "intercepted" = "step")
      BY <1>1, <1>2, <1>4, CatchCaught, Zenon DEF Inv
    <3>2. ("intercepted" = "step") = FALSE
      BY Zenon
    <3>3. Caught(t, FALSE)
      BY <3>1, <3>2, Zenon
    <3> QED  BY <1>1, <3>1, <3>3, Zenon DEF Inv, Types
  <2>2. /\ \A u \in Threads : ~InFlight(u) /\ ~hw[u].trap /\ ~det[u].tf
        /\ main \in {"apply", "step", "detach"} => FALSE
    BY <1>2, <1>4, Excluded, Zenon
  <2>3. \A q \in Procs : Young(q)' => Young(q) /\ q # p /\ (waitEntry' \/ waitPf')
    BY <1>1, <1>4, Zenon DEF Inv, Started, Young
  <2> QED  BY <1>1, <1>2, <2>1, <2>2, <2>3, CatchKeeps, Zenon DEF p
<1> QED  BY <1>1, <1>3, <1>4, Zenon

\* A trap.
LEMMA DebugTrapKeeps ==
  ASSUME Inv, NEW c \in Cores, DebugTrap(c)
  PROVE  Inv'
<1> DEFINE t == run[c].thread
           p == ProcessOf[t]
<1>1. /\ run[c] # Idle /\ hw[t] = [at |-> "code", trap |-> TRUE]
      /\ UNCHANGED <<prog, run, blocked, active, waiting, main, cmd, waitEntry, waitPf>>
      /\ \/ UdCheckAndHandleBreakpointsAndDebugBreaks(t, "step")
         \/ UNCHANGED <<detail, det, hw, log>>
  BY Zenon DEF DebugTrap, entry
<1>2. t \in Threads /\ p \in Procs
  BY <1>1, Runs, Zenon DEF Inv
<1> HIDE DEF t, p
<1>3. CASE UNCHANGED <<detail, det, hw, log>>
  BY <1>1, <1>3, Untouched, Zenon DEF invVars
<1>4. CASE UdCheckAndHandleBreakpointsAndDebugBreaks(t, "step")
  <2>0. hw[t].at = "code" /\ hw[t].trap
    BY <1>1
  <2>1. /\ Caught(t, TRUE) /\ Types'
    <3>1. /\ detail' \in [Procs -> Details] /\ det' \in [Threads -> ThreadDetails]
          /\ hw' \in [Threads -> [at : {"code", "sled"}, trap : BOOLEAN]] /\ log' \in Seq(Packets)
          /\ Caught(t, "step" = "step")
      BY <1>2, <1>4, <2>0, CatchCaught, Zenon DEF Inv
    <3>2. ("step" = "step") = TRUE
      BY Zenon
    <3>3. Caught(t, TRUE)
      BY <3>1, <3>2, Zenon
    <3> QED  BY <1>1, <3>1, <3>3, Zenon DEF Inv, Types
  <2>2. /\ main = "step" /\ t = active.thread /\ ~waitEntry /\ ~waitPf
        /\ \A u \in Threads : InFlight(u) => u = active.thread
    BY <1>2, <2>0, Zenon DEF Inv, Slots, Flights, InFlight, Calm
  <2>3. \A u \in Threads \ {t} : ~InFlight(u)
    BY <2>2, Zenon
  <2>4. \A q \in Procs : Young(q)' => Young(q) /\ q # p /\ (waitEntry' \/ waitPf')
    BY <1>1, <2>2, Zenon DEF Inv, Started, Young
  <2> QED  BY <1>1, <1>2, <2>0, <2>1, <2>2, <2>3, <2>4, CatchKeeps, Zenon DEF p
<1> QED  BY <1>1, <1>3, <1>4, Zenon

\* The entry point of a started image.
LEMMA EntrypointKeeps ==
  ASSUME Inv, NEW c \in Cores, ReachedToProcessEntrypoint(c)
  PROVE  Inv'
<1> DEFINE t == run[c].thread
           p == ProcessOf[t]
<1>1. /\ run[c] # Idle /\ Young(p) /\ (waitEntry \/ waitPf)
      /\ UdCheckAndHandleBreakpointsAndDebugBreaks(t, "entry")
      /\ UNCHANGED <<run, blocked, active, waiting, main, cmd>>
      /\ ~waitEntry' /\ ~waitPf' /\ prog' = [prog EXCEPT ![p] = "live"]
  BY Zenon DEF ReachedToProcessEntrypoint, EntrypointTaken, Young
<1>2. t \in Threads /\ p \in Procs
  BY <1>1, Runs, Zenon DEF Inv
<1>3. hw[t].at = "code"
  BY <1>1, <1>2 DEF Inv, Started, Held, Types
<1> HIDE DEF t, p
<1>4. /\ Caught(t, FALSE) /\ Types'
  <2>1. /\ detail' \in [Procs -> Details] /\ det' \in [Threads -> ThreadDetails]
        /\ hw' \in [Threads -> [at : {"code", "sled"}, trap : BOOLEAN]] /\ log' \in Seq(Packets)
        /\ Caught(t, "entry" = "step")
    BY <1>1, <1>2, <1>3, CatchCaught, Zenon DEF Inv
  <2>2. ("entry" = "step") = FALSE
    OBVIOUS
  <2>3. Caught(t, FALSE)
    BY <2>1, <2>2, Zenon
  <2>4. prog' \in [Procs -> {"absent", "loading", "paging", "live", "dead"}]
    BY <1>1, <1>2, Zenon DEF Inv, Types
  <2> QED  BY <1>1, <2>1, <2>3, <2>4, Zenon DEF Inv, Types
<1>5. /\ \A u \in Threads : ~InFlight(u) /\ ~hw[u].trap /\ ~det[u].tf
      /\ main \in {"apply", "step", "detach"} => FALSE
  BY <1>1, Excluded, Zenon
<1>6. \A q \in Procs : ~Young(q)'
  <2>1. \A q \in Procs : Young(q) => q = p
    BY <1>1, <1>2, Zenon DEF Inv, Started
  <2>2. \A q \in Procs : prog'[q] = IF q = p THEN "live" ELSE prog[q]
    BY <1>1, <1>2, Zenon DEF Inv, Types
  <2> QED  BY <2>1, <2>2, Zenon DEF Young
<1> QED  BY <1>1, <1>2, <1>3, <1>4, <1>5, <1>6, CatchKeeps, Zenon
-----------------------------------------------------------------------------
(* The steps of the guest                                                    *)

\* A thread is put on a core or taken from it.
LEMMA CoreKeeps ==
  ASSUME Inv, NEW c \in Cores,
         Preempt(c) \/ \E t \in Threads, k \in 1..NCr3 : Dispatch(c, t, k)
  PROVE  Inv'
<1>1. UNCHANGED invVars
  BY Zenon DEF invVars, Preempt, Dispatch, entry, host
<1>2. Types
  BY Zenon DEF Inv
<1>3. /\ run' \in [Cores -> {Idle} \cup [thread : Threads, cr3 : 1..NCr3]]
      /\ \/ UNCHANGED <<detail, blocked>>
         \/ \E p \in Procs, k \in 1..NCr3 :
              /\ detail' = [detail EXCEPT ![p].saved =
                                IF Cardinality(@) < MaxCr3 THEN @ \cup {k} ELSE @]
              /\ blocked' = [blocked EXCEPT ![p] = @ \cup {k}]
  <2>1. CASE Preempt(c)
    BY <1>2, <2>1, Zenon DEF Preempt, AttachingHandleCr3, Types
  <2>2. ASSUME NEW t \in Threads, NEW k \in 1..NCr3, Dispatch(c, t, k)
        PROVE <1>3!1 /\ <1>3!2
    <3>1. run' \in [Cores -> {Idle} \cup [thread : Threads, cr3 : 1..NCr3]]
      BY <1>2, <2>2, Zenon DEF Dispatch, Types
    <3>2. ProcessOf[t] \in Procs
      BY Owner, Zenon
    <3> QED  BY <2>2, <3>1, <3>2, Zenon DEF Dispatch, AttachingHandleCr3
  <2> QED  BY <2>1, <2>2, Zenon
<1>4. /\ Types'
      /\ \A p \in Procs : /\ detail'[p].token = detail[p].token /\ detail'[p].phase = detail[p].phase
                          /\ detail'[p].known = detail[p].known
  <2>1. CASE UNCHANGED <<detail, blocked>>
    <3>1. Types'
      BY <1>1, <1>2, <1>3, <2>1, Zenon DEF Types, invVars
    <3> QED  BY <2>1, <3>1, Zenon
  <2>2. ASSUME NEW p \in Procs, NEW k \in 1..NCr3,
               detail' = [detail EXCEPT ![p].saved =
                                IF Cardinality(@) < MaxCr3 THEN @ \cup {k} ELSE @],
               blocked' = [blocked EXCEPT ![p] = @ \cup {k}]
        PROVE  <1>4!1 /\ <1>4!2
    <3> DEFINE s == IF Cardinality(detail[p].saved) < MaxCr3 THEN detail[p].saved \cup {k}
                                                             ELSE detail[p].saved
    <3>1. s \in SUBSET (1..NCr3) /\ detail[p] \in Details
      BY <1>2, Zenon DEF Types, Details
    <3>2. detail' = [detail EXCEPT ![p] = [detail[p] EXCEPT !.saved = s]]
      BY <2>2, Zenon
    <3> HIDE DEF s
    <3>3. /\ detail' \in [Procs -> Details]
          /\ \A q \in Procs : /\ detail'[q].token = detail[q].token
                              /\ detail'[q].phase = detail[q].phase
                              /\ detail'[q].known = detail[q].known
      BY <1>2, <3>1, <3>2, Zenon DEF Types, Details
    <3>4. blocked' \in [Procs -> SUBSET (1..NCr3)]
      BY <1>2, <2>2, Zenon DEF Types
    <3>5. Types'
      BY <1>1, <1>2, <1>3, <3>3, <3>4, Zenon DEF Types, invVars
    <3> QED  BY <3>3, <3>5, Zenon
  <2> QED  BY <1>3, <2>1, <2>2, Zenon
<1> QED  BY <1>1, <1>4, Alike, Zenon

\* The page of an entry point is not in memory.
LEMMA PagedOutKeeps ==
  ASSUME Inv, NEW c \in Cores, EntrypointPagedOut(c)
  PROVE  Inv'
<1> DEFINE p == ProcessOf[run[c].thread]
<1>1. /\ run[c] # Idle /\ prog[p] = "loading" /\ waitEntry /\ ~waitEntry' /\ waitPf'
      /\ prog' = [prog EXCEPT ![p] = "paging"]
      /\ UNCHANGED <<run, blocked, hw, detail, det, log, main, active, waiting, cmd>>
  BY Zenon DEF EntrypointPagedOut, kernel, host
<1>2. Types /\ Held /\ Slots /\ Flights /\ Tokens /\ Shown /\ Asked /\ Started
  BY Zenon DEF Inv
<1>3. p \in Procs
  BY <1>1, <1>2, Runs, Zenon
<1> HIDE DEF p
<1>4. \A q \in Procs : Young(q)' = Young(q)
  BY <1>1, <1>2, <1>3 DEF Types, Young
<1>5. Types'
  <2>1. prog' \in [Procs -> {"absent", "loading", "paging", "live", "dead"}]
    BY <1>1, <1>2, <1>3, Zenon DEF Types
  <2> QED  BY <1>1, <1>2, <2>1, Zenon DEF Types
<1>6. Held' /\ Slots' /\ Tokens'
  <2>1. Held'
    BY <1>1, <1>2, Zenon DEF Held, Attached
  <2>2. Slots'
    BY <1>1, <1>2, Zenon DEF Slots, Busy
  <2> QED  BY <1>1, <1>2, <2>1, <2>2, Zenon DEF Tokens, Attached
<1>7. Flights'
  <2>1. /\ \A u \in Threads : ~InFlight(u)
        /\ main \in {"apply", "step", "detach"} => FALSE
    BY <1>1, Excluded, Zenon
  <2>2. \A u \in Threads : ~InFlight(u)'
    BY <1>1, <2>1, Zenon DEF InFlight, Busy
  <2> QED  BY <1>1, <2>1, <2>2, Zenon DEF Flights
<1>8. Shown' /\ Asked'
  BY <1>1, <1>2, Zenon DEF Shown, Asked, Attached, Busy
<1>9. Started'
  BY <1>1, <1>2, <1>4, Zenon DEF Started, Attached
<1> QED  BY <1>5, <1>6, <1>7, <1>8, <1>9, Zenon DEF Inv

\* What serving its command does to thread t.
ServedThread(t, kind) ==
  /\ Busy(t) /\ det[t].paused
  /\ ~det'[t].paused /\ det'[t].rip = det[t].rip /\ det'[t].tf = (kind = "in")
  /\ \A i \in 1..MaxActions : det'[t].acts[i] = "none"
  /\ hw'[t].at = "code" /\ hw'[t].trap = (kind = "in")
  /\ kind = "in" => main = "step"
  /\ \A u \in Threads \ {t} : Same(u)
  /\ UNCHANGED <<run, prog, blocked, detail, log, main, active, waiting, cmd, waitEntry, waitPf>>

LEMMA ServeServed ==
  ASSUME Inv, NEW c \in Cores, UdCheckForCommand(c)
  PROVE  Types' /\ \E t \in Threads, kind \in {"continue", "in", "over"} : ServedThread(t, kind)
<1> DEFINE t == run[c].thread
           i == FirstCommand(det[t].acts)
<1>1. /\ run[c] # Idle /\ det[t].paused /\ Busy(t)
      /\ det' = [det EXCEPT ![t] = Served(det[t], i)]
      /\ hw' = [hw EXCEPT ![t] = [at |-> det[t].rip, trap |-> hw[t].trap \/ det'[t].tf]]
      /\ UNCHANGED <<run, prog, blocked, detail, log, main, active, waiting, cmd, waitEntry, waitPf>>
  BY Zenon DEF UdCheckForCommand, entry, host
<1>2. Types /\ Held /\ Slots
  BY Zenon DEF Inv
<1>3. t \in Threads
  BY <1>1, <1>2, Runs, Zenon
<1>4. PICK k \in 1..MaxActions : det[t].acts[k] # "none"
  BY <1>1, Zenon DEF Busy
<1>5. i = k
  BY <1>2, <1>3, <1>4, OnlyCommand, Zenon
<1> DEFINE kind == det[t].acts[k]
<1> HIDE DEF t, i
<1>6. /\ det[t] \in ThreadDetails /\ kind \in {"continue", "in", "over"}
      /\ \A j \in 1..MaxActions : j # k => det[t].acts[j] = "none"
  <2>1. det[t] \in ThreadDetails
    BY <1>2, <1>3, Zenon DEF Types
  <2>2. kind \in {"continue", "in", "over"}
    BY <1>4, <2>1, Zenon DEF ThreadDetails
  <2>3. \A j \in 1..MaxActions : j # k => det[t].acts[j] = "none"
    BY <1>2, <1>3, <1>4, Zenon DEF Slots
  <2> QED  BY <2>1, <2>2, <2>3, Zenon
<1>7. ~hw[t].trap /\ ~det[t].tf /\ det[t].rip = "code"
  BY <1>1, <1>2, <1>3, Zenon DEF Held
<1> DEFINE d == [rip |-> det[t].rip, paused |-> FALSE, tf |-> kind = "in",
                 acts |-> [det[t].acts EXCEPT ![k] = "none"]]
<1>8. Served(det[t], i) = d
  <2>1. UdPerformCommand(det[t], kind) = [rip |-> det[t].rip, paused |-> FALSE, tf |-> kind = "in",
                                          acts |-> det[t].acts]
    BY <1>6, <1>7, Zenon DEF UdPerformCommand, UdContinueThread, UdStepInstructions, ThreadDetails
  <2> DEFINE r == UdPerformCommand(det[t], kind)
  <2>2. Served(det[t], i) = [r EXCEPT !.acts = [r.acts EXCEPT ![k] = "none"]]
    BY <1>5, Zenon DEF Served
  <2>3. /\ r = [rip |-> det[t].rip, paused |-> FALSE, tf |-> kind = "in", acts |-> det[t].acts]
        /\ r.acts = det[t].acts
    BY <2>1
  <2> DEFINE x == [det[t].acts EXCEPT ![k] = "none"]
             b == kind = "in"
  <2>4. /\ Served(det[t], i) = [r EXCEPT !.acts = x]
        /\ d = [rip |-> det[t].rip, paused |-> FALSE, tf |-> b, acts |-> x]
        /\ r = [rip |-> det[t].rip, paused |-> FALSE, tf |-> b, acts |-> det[t].acts]
    BY <2>2, <2>3, Zenon
  <2> HIDE DEF d, kind, r, x, b
  <2> QED  BY <2>4, Zenon
<1>9. /\ d \in ThreadDetails /\ ~d.paused /\ d.rip = "code" /\ d.tf = (kind = "in")
      /\ d.rip = det[t].rip /\ \A j \in 1..MaxActions : d.acts[j] = "none"
  BY <1>6, <1>7, Zenon DEF ThreadDetails
<1>10. det' = [det EXCEPT ![t] = d]
  BY <1>1, <1>8, Zenon
<1> HIDE DEF d
<1>11. det' \in [Threads -> ThreadDetails] /\ det'[t] = d /\ \A u \in Threads \ {t} : det'[u] = det[u]
  BY <1>2, <1>3, <1>9, <1>10, Zenon DEF Types
<1>12. /\ hw' \in [Threads -> [at : {"code", "sled"}, trap : BOOLEAN]]
       /\ hw'[t].at = "code" /\ hw'[t].trap = (kind = "in")
       /\ \A u \in Threads \ {t} : hw'[u] = hw[u]
  <2>1. hw' = [hw EXCEPT ![t] = [at |-> "code", trap |-> kind = "in"]]
    BY <1>1, <1>7, <1>9, <1>11, Zenon
  <2>2. (kind = "in") \in BOOLEAN
    OBVIOUS
  <2> HIDE DEF kind
  <2> QED  BY <1>2, <1>3, <2>1, <2>2, Zenon DEF Types
<1>13. Types'
  BY <1>1, <1>2, <1>11, <1>12, Zenon DEF Types
<1>14. kind = "in" => main = "step"
  BY <1>2, <1>3, <1>4, Zenon DEF Slots
<1>15. ServedThread(t, kind)
  <2> HIDE DEF kind
  <2> QED  BY <1>1, <1>9, <1>11, <1>12, <1>14 DEF ServedThread, Same
<1> QED  BY <1>3, <1>6, <1>13, <1>15, Zenon

\* A thread serves its command.
LEMMA ServeKeeps ==
  ASSUME Inv, NEW c \in Cores, UdCheckForCommand(c)
  PROVE  Inv'
<1>1. Types /\ Held /\ Slots /\ Flights /\ Tokens /\ Shown /\ Asked /\ Started
  BY Zenon DEF Inv
<1>2. PICK t \in Threads, kind \in {"continue", "in", "over"} : ServedThread(t, kind)
  BY ServeServed, Zenon
<1>3. Types'
  BY ServeServed, Zenon
<1>4. /\ detail' = detail /\ log' = log /\ main' = main /\ active' = active /\ waiting' = waiting
      /\ cmd' = cmd /\ waitEntry' = waitEntry /\ waitPf' = waitPf /\ prog' = prog
  BY <1>2, Zenon DEF ServedThread
<1>5. /\ Calm /\ log = <<>> /\ main \in {"idle", "step", "detach"}
      /\ main = "step" => t = active.thread /\ waiting
      /\ main = "idle" => ~active.paused
  BY <1>1, <1>2, Zenon DEF Flights, InFlight, ServedThread
<1>6. \A u \in Threads : u # t => det'[u] = det[u] /\ hw'[u] = hw[u]
  BY <1>2, Zenon DEF ServedThread, Same
<1>7. \A u \in Threads : Busy(u)' => u # t /\ Busy(u)
  BY <1>2, <1>6 DEF ServedThread, Busy
<1>8. Held'
  <2>1. ASSUME NEW u \in Threads
        PROVE /\ det'[u].paused <=> hw'[u].at = "sled"
              /\ det'[u].paused => u \in detail'[ProcessOf[u]].known /\ det'[u].rip = "code"
              /\ det'[u].tf = hw'[u].trap
              /\ hw'[u].trap => ~det'[u].paused /\ u \in detail'[ProcessOf[u]].known
    <3>1. CASE u = t
      BY <1>1, <1>2, <1>4, <3>1, Zenon DEF ServedThread, Held
    <3>2. CASE u # t
      BY <1>1, <1>4, <1>6, <3>2, HeldOf
    <3> QED  BY <3>1, <3>2, Zenon
  <2>2. /\ \A p \in Procs : ~Attached(p)' => detail'[p].known = {} /\ ~detail'[p].phase
        /\ \A p \in Procs : \A u \in detail'[p].known : ProcessOf[u] = p
    BY <1>1, <1>4, Zenon DEF Held, Attached
  <2> QED  BY <2>1, <2>2, Zenon DEF Held
<1>9. Slots'
  <2> SUFFICES ASSUME NEW u \in Threads
               PROVE (/\ Busy(u) => det[u].paused
                      /\ \A i, j \in 1..MaxActions : det[u].acts[i] # "none" /\ det[u].acts[j] # "none" => i = j
                      /\ \A i \in 1..MaxActions : det[u].acts[i] \in {"in", "over"} => main = "step"
                      /\ hw[u].trap => main = "step")'
    BY Zenon DEF Slots
  <2>1. CASE u = t
    BY <1>2, <1>4, <1>7, <2>1, Zenon DEF ServedThread
  <2>2. CASE u # t
    BY <1>1, <1>4, <1>6, <1>7, <2>2 DEF Slots
  <2> QED  BY <2>1, <2>2, Zenon
<1>10. Flights'
  <2>1. \A u \in Threads : InFlight(u)' => InFlight(u)
    BY <1>2, <1>6, <1>7, Zenon DEF InFlight, ServedThread
  <2>2. Calm' = Calm
    BY <1>4, Zenon DEF Calm
  <2> QED  BY <1>1, <1>4, <2>1, <2>2, Zenon DEF Flights
<1>11. Tokens' /\ Started'
  BY <1>1, <1>4, Zenon DEF Tokens, Started, Attached, Young
<1>12. Shown'
  <2>1. active.on => active.thread \in Threads
    BY <1>1, Zenon DEF Shown, Types, Details
  <2>2. active.on => /\ active.proc \in Procs /\ Attached(active.proc)
                     /\ active.token = detail[active.proc].token
                     /\ active.thread \in detail[active.proc].known
    BY <1>1, Zenon DEF Shown
  <2>3. active.on /\ active.paused => \/ det'[active.thread].paused
                                      \/ main = "step" /\ waiting
                                      \/ main = "detach"
    BY <1>1, <1>5, <1>6, <2>1, Zenon DEF Shown
  <2>4. \A i \in 1..Len(log) : FALSE
    BY <1>5
  <2>5. active \in Actives
    BY <1>1, Zenon DEF Shown
  <2> QED  BY <1>4, <2>2, <2>3, <2>4, <2>5, Zenon DEF Shown, Attached
<1>13. Asked'
  <2>1. main = "detach" => \A u \in detail[cmd.proc].known : det'[u].paused => Busy(u)'
    <3> SUFFICES ASSUME main = "detach", NEW u \in detail[cmd.proc].known, det'[u].paused
                 PROVE  Busy(u)'
      OBVIOUS
    <3>1. u \in Threads
      BY <1>1, Zenon DEF Asked, Shown, Types, Details
    <3>2. u # t
      BY <1>2, Zenon DEF ServedThread
    <3>3. det[u].paused => Busy(u)
      BY <1>1, Zenon DEF Asked
    <3> QED  BY <1>6, <3>1, <3>2, <3>3, Zenon DEF Busy
  <2> QED  BY <1>1, <1>4, <1>5, <2>1, Zenon DEF Asked
<1> QED  BY <1>3, <1>8, <1>9, <1>10, <1>11, <1>12, <1>13, Zenon DEF Inv

-----------------------------------------------------------------------------
(* The commands                                                              *)

\* When a command can be typed, nothing is on its way.
LEMMA AtPrompt ==
  ASSUME Orderly, Inv, Prompt
  PROVE  /\ main = "idle" /\ log = <<>> /\ ~waitPf /\ ~waitEntry
         /\ \A t \in Threads : ~InFlight(t) /\ ~hw[t].trap /\ ~Busy(t)
         /\ \A p \in Procs : ~Young(p)
         /\ active.on /\ active.paused => det[active.thread].paused
<1>1. Types /\ Held /\ Slots /\ Flights /\ Shown /\ Started
  BY Zenon DEF Inv
<1>2. /\ main = "idle" /\ log = <<>> /\ ~waitPf
      /\ \A t \in Threads : det[t].paused => ~Busy(t)
  BY Zenon DEF Prompt, Orderly
<1>3. \A t \in Threads : ~hw[t].trap /\ ~Busy(t)
  BY <1>1, <1>2, Zenon DEF Slots
<1>4. ~waitEntry
  BY <1>1, <1>2, Zenon DEF Flights
<1> QED  BY <1>1, <1>2, <1>3, <1>4, Zenon DEF InFlight, Started, Shown

\* Nothing is on its way, and the controller shows what is so.
AtRest ==
  /\ active \in Actives
  /\ main \in {"idle", "start"} /\ log = <<>> /\ (waitEntry => main = "start")
  /\ \A t \in Threads : ~hw[t].trap /\ ~Busy(t)
  /\ active.on =>
       /\ active.proc \in Procs /\ Attached(active.proc)
       /\ active.token = detail[active.proc].token
       /\ active.thread \in detail[active.proc].known
       /\ active.paused => det[active.thread].paused

LEMMA RestIsInv == Types /\ Held /\ Tokens /\ Started /\ AtRest => Inv
<1> SUFFICES ASSUME Types, Held, Tokens, Started, AtRest
             PROVE  Inv
  BY Zenon
<1>1. \A t \in Threads : \A i \in 1..MaxActions : det[t].acts[i] = "none"
  BY Zenon DEF AtRest, Busy
<1>2. Slots
  BY <1>1, Zenon DEF AtRest, Slots
<1>3. Flights
  BY Zenon DEF AtRest, Flights, InFlight
<1>4. Shown
  <2>1. \A i \in 1..Len(log) : FALSE
    BY DEF AtRest
  <2> QED  BY <2>1, Zenon DEF AtRest, Shown
<1>5. Asked
  BY Zenon DEF AtRest, Asked
<1> QED  BY <1>2, <1>3, <1>4, <1>5, Zenon DEF Inv

\* A process that is not attached gets a record.
LEMMA NewRecord ==
  ASSUME Inv, NEW p \in Procs, ~Attached(p), TokensLeft, NEW d \in Details, d.token = NewToken,
         d.known = {}, detail' = [detail EXCEPT ![p] = d], UNCHANGED <<det, hw, active>>,
         main = "idle"
  PROVE  /\ detail' \in [Procs -> Details] /\ detail'[p] = d /\ Attached(p)'
         /\ \A q \in Procs : q # p => detail'[q] = detail[q]
         /\ Held' /\ Tokens'
         /\ active'.on => /\ active'.proc \in Procs /\ Attached(active.proc)'
                          /\ active'.token = detail'[active'.proc].token
                          /\ active'.thread \in detail'[active'.proc].known
                          /\ active'.paused => det'[active'.thread].paused
<1>1. Types /\ Held /\ Tokens /\ Shown
  BY Zenon DEF Inv
<1>2. NewToken \in Nat /\ NewToken # 0 /\ \A q \in Procs : detail[q].token # NewToken
  BY TokenIsNew, Zenon
<1>3. /\ detail' \in [Procs -> Details] /\ detail'[p] = d /\ \A q \in Procs : q # p => detail'[q] = detail[q]
  BY <1>1, Zenon DEF Types
<1>4. Attached(p)' /\ \A q \in Procs : q # p => Attached(q)' = Attached(q)
  BY <1>2, <1>3, Zenon DEF Attached
<1>5. \A q \in Procs : detail'[q].known = detail[q].known
  <2>1. detail[p].known = {} /\ detail'[p].known = {}
    BY <1>1, <1>3, Zenon DEF Held
  <2> QED  BY <1>3, <2>1, Zenon
<1>6. Held'
  <2>1. \A t \in Threads : ProcessOf[t] \in Procs
    BY Owner, Zenon
  <2> QED  BY <1>1, <1>3, <1>4, <1>5, <2>1 DEF Held
<1>7. Tokens'
  BY <1>1, <1>2, <1>3, <1>4, Zenon DEF Tokens
<1>8. active.on => /\ active.proc \in Procs /\ Attached(active.proc) /\ active.proc # p
                   /\ active.token = detail[active.proc].token
                   /\ active.thread \in detail[active.proc].known
                   /\ active.paused => det[active.thread].paused
  BY <1>1, Zenon DEF Shown
<1> QED  BY <1>3, <1>4, <1>5, <1>6, <1>7, <1>8, Zenon

\* .attach.
LEMMA AttachKeeps ==
  ASSUME Orderly, Inv, NEW p \in Procs, AttachingPerformAttachToProcess(p)
  PROVE  Inv'
<1> DEFINE d == [AttachingCreateProcessDebuggingDetails EXCEPT !.phase = TRUE]
<1>1. /\ Prompt /\ ~Attached(p) /\ TokensLeft /\ detail' = [detail EXCEPT ![p] = d]
      /\ UNCHANGED <<run, prog, blocked, hw, det, log, main, active, waiting, cmd, waitEntry, waitPf>>
  BY Zenon DEF AttachingPerformAttachToProcess, AttachingConfigureInterceptingThreads, guest, entry, host
<1>2. NewToken \in Nat
  BY <1>1, TokenIsNew, Zenon
<1>3. d \in Details /\ d.token = NewToken /\ d.known = {}
  BY <1>2, Owner, Zenon DEF AttachingCreateProcessDebuggingDetails, NoDetail, Details
<1> HIDE DEF d
<1>4. /\ main = "idle" /\ log = <<>> /\ ~waitPf /\ ~waitEntry
      /\ \A t \in Threads : ~hw[t].trap /\ ~Busy(t)
      /\ \A q \in Procs : ~Young(q)
  BY <1>1, AtPrompt, Zenon
<1>5. /\ detail' \in [Procs -> Details] /\ Held' /\ Tokens'
      /\ active'.on => /\ active'.proc \in Procs /\ Attached(active.proc)'
                       /\ active'.token = detail'[active'.proc].token
                       /\ active'.thread \in detail'[active'.proc].known
                       /\ active'.paused => det'[active'.thread].paused
  BY <1>1, <1>3, <1>4, NewRecord, Zenon
<1>6. Types'
  BY <1>1, <1>5, Zenon DEF Inv, Types
<1>7. Started'
  BY <1>1, <1>4, Zenon DEF Started, Young
<1>8. AtRest'
  <2>1. active' \in Actives
    BY <1>1, Zenon DEF Inv, Shown
  <2> QED  BY <1>1, <1>4, <1>5, <2>1, Zenon DEF AtRest, Busy
<1> QED  BY <1>5, <1>6, <1>7, <1>8, RestIsInv, PTL

\* .start.
LEMMA StartKeeps ==
  ASSUME Orderly, Inv, NEW p \in Procs, StartAttached(p)
  PROVE  Inv'
<1> DEFINE d == [AttachingCreateProcessDebuggingDetails EXCEPT !.starting = TRUE]
<1>1. /\ Prompt /\ ~Attached(p) /\ TokensLeft /\ detail' = [detail EXCEPT ![p] = d]
      /\ waitEntry' = TRUE /\ main' = "start" /\ prog' = [prog EXCEPT ![p] = "loading"]
      /\ UNCHANGED <<run, blocked, hw, det, log, active, waiting, cmd, waitPf>>
  BY Zenon DEF StartAttached
<1>2. NewToken \in Nat
  BY <1>1, TokenIsNew, Zenon
<1>3. d \in Details /\ d.token = NewToken /\ d.known = {} /\ ~d.phase
  BY <1>2, Owner, Zenon DEF AttachingCreateProcessDebuggingDetails, NoDetail, Details
<1> HIDE DEF d
<1>4. /\ main = "idle" /\ log = <<>> /\ ~waitPf /\ ~waitEntry
      /\ \A t \in Threads : ~hw[t].trap /\ ~Busy(t)
      /\ \A q \in Procs : ~Young(q)
  BY <1>1, AtPrompt, Zenon
<1>5. /\ detail' \in [Procs -> Details] /\ Held' /\ Tokens' /\ detail'[p] = d /\ Attached(p)'
      /\ active'.on => /\ active'.proc \in Procs /\ Attached(active.proc)'
                       /\ active'.token = detail'[active'.proc].token
                       /\ active'.thread \in detail'[active'.proc].known
                       /\ active'.paused => det'[active'.thread].paused
  BY <1>1, <1>3, <1>4, NewRecord, Zenon
<1>6. /\ prog' \in [Procs -> {"absent", "loading", "paging", "live", "dead"}]
      /\ \A q \in Procs : Young(q)' => q = p
  BY <1>1, <1>4, Zenon DEF Inv, Types, Young
<1>7. Types'
  BY <1>1, <1>5, <1>6, Zenon DEF Inv, Types
<1>8. Started'
  BY <1>1, <1>3, <1>5, <1>6, Zenon DEF Started
<1>9. AtRest'
  <2>1. active' \in Actives
    BY <1>1, Zenon DEF Inv, Shown
  <2> QED  BY <1>1, <1>4, <1>5, <2>1, Zenon DEF AtRest, Busy
<1> QED  BY <1>5, <1>7, <1>8, <1>9, RestIsInv, PTL

\* The end of .start.
LEMMA RemoveHooksKeeps ==
  ASSUME Inv, AttachingRemoveHooks
  PROVE  Inv'
<1>1. /\ main = "start" /\ ~waitEntry /\ main' = "idle"
      /\ UNCHANGED <<run, prog, blocked, hw, detail, det, log, active, waiting, cmd, waitEntry, waitPf>>
  BY Zenon DEF AttachingRemoveHooks, guest, entry
<1>2. Types /\ Held /\ Slots /\ Flights /\ Tokens /\ Shown /\ Started
  BY Zenon DEF Inv
<1>3. \A t \in Threads : ~InFlight(t)
  BY <1>1, <1>2, Zenon DEF Flights
<1>4. \A t \in Threads : ~InFlight(t)' /\ ~Busy(t)' /\ ~hw'[t].trap
  BY <1>1, <1>3, Zenon DEF InFlight, Busy
<1>5. Slots'
  <2>1. \A t \in Threads : \A i \in 1..MaxActions : det'[t].acts[i] = "none"
    BY <1>4, Zenon DEF Busy
  <2> QED  BY <1>4, <2>1, Zenon DEF Slots
<1>6. Flights'
  BY <1>1, <1>4, Zenon DEF Flights
<1>7. Shown'
  <2>1. active.on => /\ active.proc \in Procs /\ Attached(active.proc)
                     /\ active.token = detail[active.proc].token
                     /\ active.thread \in detail[active.proc].known
                     /\ active.paused => det[active.thread].paused
    BY <1>1, <1>2, Zenon DEF Shown
  <2> QED  BY <1>1, <1>2, <2>1, Zenon DEF Shown, Attached
<1>8. Types' /\ Held' /\ Tokens' /\ Started'
  <2>1. Types' /\ Tokens' /\ Started'
    BY <1>1, <1>2, Zenon DEF Types, Tokens, Started, Young, Attached
  <2> QED  BY <1>1, <1>2, <2>1, Zenon DEF Held, Attached
<1>9. Asked'
  BY <1>1, Zenon DEF Asked
<1> QED  BY <1>5, <1>6, <1>7, <1>8, <1>9, Zenon DEF Inv

\* The process of a token.
LEMMA ByTokenActive ==
  ASSUME Inv, active.on
  PROVE  active.proc \in Procs /\ ByToken(active.token) = {active.proc}
BY DEF Inv, Shown, Tokens, ByToken

\* The interception of a process is switched.
LEMMA Switched ==
  ASSUME Types, NEW p \in Procs, NEW b \in BOOLEAN,
         detail' = [detail EXCEPT ![p] = [detail[p] EXCEPT !.phase = b]]
  PROVE  /\ detail' \in [Procs -> Details]
         /\ \A q \in Procs : detail'[q].token = detail[q].token /\ detail'[q].known = detail[q].known
         /\ \A q \in Procs : detail'[q].saved = detail[q].saved
         /\ \A q \in Procs : detail'[q].phase = IF q = p THEN b ELSE detail[q].phase
<1>1. detail[p] \in Details /\ detail \in [Procs -> Details]
  BY Zenon DEF Types
<1>2. detail' \in [Procs -> Details]
  BY <1>1, Zenon DEF Details
<1> QED  BY <1>1, <1>2, Zenon DEF Details

\* pause and CTRL+C.
LEMMA PauseKeeps ==
  ASSUME Orderly, Inv, AttachingPauseProcess
  PROVE  Inv'
<1>1. /\ Prompt \/ main = "start"
      /\ active.on /\ UNCHANGED invVars /\ UNCHANGED <<run, blocked>>
      /\ \E p \in ByToken(active.token) : detail' = [detail EXCEPT ![p] = [detail[p] EXCEPT !.phase = TRUE]]
  BY Zenon DEF AttachingPauseProcess, AttachingConfigureInterceptingThreads, guest, entry, host, invVars
<1>2. Types /\ Held /\ Flights /\ Shown /\ Started
  BY Zenon DEF Inv
<1> DEFINE p == active.proc
<1>3. p \in Procs /\ detail' = [detail EXCEPT ![p] = [detail[p] EXCEPT !.phase = TRUE]]
  BY <1>1, ByTokenActive, Zenon
<1>4. /\ detail' \in [Procs -> Details]
      /\ \A q \in Procs : detail'[q].token = detail[q].token /\ detail'[q].known = detail[q].known
      /\ \A q \in Procs : detail'[q].phase => q = p \/ detail[q].phase
  BY <1>2, <1>3, Switched, Zenon
<1>5. Attached(p) /\ ~Young(p)
  BY <1>1, <1>2, Zenon DEF Shown, Started
<1>6. Types'
  BY <1>1, <1>2, <1>4, Zenon DEF Types, invVars
<1>7. \A t \in Threads : ~InFlight(t)
  BY <1>1, <1>2, AtPrompt, Zenon DEF Flights
<1>8. main \in {"idle", "start"}
  BY <1>1, Zenon DEF Prompt
<1>9. Flights'
  <2>1. /\ hw' = hw /\ det' = det /\ main' = main /\ waitEntry' = waitEntry
    BY <1>1, Zenon DEF invVars
  <2>2. \A t \in Threads : ~InFlight(t)'
    BY <1>7, <2>1, Zenon DEF InFlight, Busy
  <2> QED  BY <1>2, <1>8, <2>1, <2>2, Zenon DEF Flights
<1>10. \A q \in Procs : detail'[q].phase => Attached(q) /\ ~Young(q)
  BY <1>2, <1>4, <1>5, Zenon DEF Held, Started
<1> QED  BY <1>1, <1>4, <1>6, <1>9, <1>10, SameThreads, Zenon

\* switch.
LEMMA SwitchKeeps ==
  ASSUME Orderly, Inv, NEW t \in Threads, AttachingSwitchProcess(t)
  PROVE  Inv'
<1> DEFINE p == ProcessOf[t]
<1>1. /\ Prompt /\ Attached(p) /\ t \in detail[p].known
      /\ active' = [on |-> TRUE, proc |-> p, thread |-> t, token |-> detail[p].token,
                    paused |-> det[t].paused]
      /\ UNCHANGED <<run, prog, blocked, hw, detail, det, log, main, waiting, cmd, waitEntry, waitPf>>
  BY Zenon DEF AttachingSwitchProcess, guest, entry
<1>2. p \in Procs
  BY Owner, Zenon
<1> HIDE DEF p
<1>3. /\ main = "idle" /\ log = <<>> /\ ~waitEntry
      /\ \A u \in Threads : ~hw[u].trap /\ ~Busy(u)
  BY <1>1, AtPrompt, Zenon
<1>4. AtRest'
  <2>1. active' \in Actives
    <3>1. detail[p].token \in Nat /\ det[t].paused \in BOOLEAN
      BY <1>2, Zenon DEF Inv, Types, Details, ThreadDetails
    <3> QED  BY <1>1, <1>2, <3>1, Zenon DEF Actives
  <2> QED  BY <1>1, <1>2, <1>3, <2>1, Zenon DEF AtRest, Busy, Attached
<1>5. Types /\ Held /\ Tokens /\ Started
  BY Zenon DEF Inv
<1>6. Types' /\ Tokens' /\ Started'
  BY <1>1, <1>5, Zenon DEF Types, Tokens, Started, Young, Attached
<1>7. Held'
  BY <1>1, <1>5, Zenon DEF Held, Attached
<1> QED  BY <1>4, <1>6, <1>7, RestIsInv, PTL

\* The record of a process goes, when none of its threads is held.
LEMMA RecordGone ==
  ASSUME Types, Held, Tokens, NEW ps \in SUBSET Procs, AttachingRemoveProcessDebuggingDetails(ps),
         hw' \in [Threads -> [at : {"code", "sled"}, trap : BOOLEAN]],
         \A t \in Threads : IF ProcessOf[t] \in ps THEN hw'[t].at = "code" /\ ~hw'[t].trap
                                                   ELSE hw'[t] = hw[t]
  PROVE  /\ detail' \in [Procs -> Details] /\ det' \in [Threads -> ThreadDetails]
         /\ Held' /\ Tokens'
         /\ \A t \in Threads : (\A i \in 1..MaxActions : det[t].acts[i] = "none") =>
                                 \A i \in 1..MaxActions : det'[t].acts[i] = "none"
         /\ \A q \in Procs : detail'[q] = IF q \in ps THEN NoDetail ELSE detail[q]
<1>1. /\ detail' = [p \in Procs |-> IF p \in ps THEN NoDetail ELSE detail[p]]
      /\ det' = [t \in Threads |-> IF ProcessOf[t] \in ps THEN NoThread ELSE det[t]]
  BY Zenon DEF AttachingRemoveProcessDebuggingDetails
<1>2. NoDetail \in Details /\ NoThread \in ThreadDetails
  BY Owner, Zenon DEF NoDetail, NoThread, Details, ThreadDetails
<1>3. /\ NoDetail.token = 0 /\ NoDetail.known = {} /\ ~NoDetail.phase
      /\ NoThread.paused = FALSE /\ NoThread.tf = FALSE /\ \A i \in 1..MaxActions : NoThread.acts[i] = "none"
  BY Zenon DEF NoDetail, NoThread
<1>4. detail' \in [Procs -> Details] /\ det' \in [Threads -> ThreadDetails]
  BY <1>1, <1>2, Zenon DEF Types
<1>5. /\ \A q \in Procs : detail'[q] = IF q \in ps THEN NoDetail ELSE detail[q]
      /\ \A t \in Threads : det'[t] = IF ProcessOf[t] \in ps THEN NoThread ELSE det[t]
  BY <1>1, Zenon
<1>6. Held'
  <2>1. \A p \in Procs : ~Attached(p)' => detail'[p].known = {} /\ ~detail'[p].phase
    BY <1>3, <1>5, Zenon DEF Held, Attached
  <2>2. \A p \in Procs : \A t \in detail'[p].known : ProcessOf[t] = p
    BY <1>3, <1>5, Zenon DEF Held
  <2>3. ASSUME NEW u \in Threads
        PROVE /\ det'[u].paused <=> hw'[u].at = "sled"
              /\ det'[u].paused => u \in detail'[ProcessOf[u]].known /\ det'[u].rip = "code"
              /\ det'[u].tf = hw'[u].trap
              /\ hw'[u].trap => ~det'[u].paused /\ u \in detail'[ProcessOf[u]].known
    <3>1. CASE ProcessOf[u] \in ps
      <4>1. det'[u] = NoThread /\ hw'[u].at = "code" /\ hw'[u].trap = FALSE
        BY <1>5, <3>1, Zenon
      <4>2. hw'[u].at # "sled" /\ det'[u].paused = FALSE /\ det'[u].tf = FALSE
        BY <1>3, <4>1, Zenon
      <4> QED  BY <4>1, <4>2, Zenon
    <3>2. CASE ProcessOf[u] \notin ps
      <4>1. det'[u] = det[u] /\ hw'[u] = hw[u] /\ detail'[ProcessOf[u]] = detail[ProcessOf[u]]
        BY <1>5, <3>2, Owner, Zenon
      <4> QED  BY <4>1, HeldOf, Zenon
    <3> QED  BY <3>1, <3>2, Zenon
  <2> QED  BY <2>1, <2>2, <2>3, Zenon DEF Held
<1>7. Tokens'
  BY <1>3, <1>5 DEF Tokens, Attached
<1>8. \A t \in Threads : (\A i \in 1..MaxActions : det[t].acts[i] = "none") =>
                                 \A i \in 1..MaxActions : det'[t].acts[i] = "none"
  BY <1>3, <1>5
<1> QED  BY <1>4, <1>5, <1>6, <1>7, <1>8, Zenon

\* .kill.
LEMMA KillKeeps ==
  ASSUME Orderly, Inv, AttachingKillProcess
  PROVE  Inv'
<1> DEFINE p == active.proc
<1>1. /\ Prompt /\ active.on
      /\ prog' = [prog EXCEPT ![p] = "dead"] /\ blocked' = [blocked EXCEPT ![p] = {}]
      /\ run' = [c \in Cores |-> IF run[c].thread \in ThreadsOf(p) THEN Idle ELSE run[c]]
      /\ hw' = [t \in Threads |-> IF ProcessOf[t] = p THEN [at |-> "code", trap |-> FALSE] ELSE hw[t]]
      /\ AttachingRemoveProcessDebuggingDetails({p}) /\ active' = NoActive
      /\ UNCHANGED <<waitEntry, waitPf, log, waiting, main, cmd>>
  BY Zenon DEF AttachingKillProcess, entry
<1>2. Types /\ Held /\ Tokens
  BY Zenon DEF Inv
<1>3. p \in Procs
  BY <1>1, ByTokenActive, Zenon
<1> HIDE DEF p
<1>4. /\ main = "idle" /\ log = <<>> /\ ~waitEntry
      /\ \A u \in Threads : ~hw[u].trap /\ ~Busy(u)
      /\ \A q \in Procs : ~Young(q)
  BY <1>1, AtPrompt, Zenon
<1>5. /\ run' \in [Cores -> {Idle} \cup [thread : Threads, cr3 : 1..NCr3]]
      /\ prog' \in [Procs -> {"absent", "loading", "paging", "live", "dead"}]
      /\ blocked' \in [Procs -> SUBSET (1..NCr3)]
  BY <1>1, <1>2, <1>3, Zenon DEF Types
<1>6. hw' \in [Threads -> [at : {"code", "sled"}, trap : BOOLEAN]]
  BY <1>1, <1>2, Zenon DEF Types
<1>7. \A t \in Threads : IF ProcessOf[t] \in {p} THEN hw'[t].at = "code" /\ ~hw'[t].trap
                                                 ELSE hw'[t] = hw[t]
  BY <1>1, Zenon
<1>8. /\ detail' \in [Procs -> Details] /\ det' \in [Threads -> ThreadDetails] /\ Held' /\ Tokens'
      /\ \A t \in Threads : (\A i \in 1..MaxActions : det[t].acts[i] = "none") =>
                              \A i \in 1..MaxActions : det'[t].acts[i] = "none"
  BY <1>1, <1>2, <1>3, <1>6, <1>7, RecordGone, Zenon
<1>9. Types'
  BY <1>1, <1>2, <1>5, <1>6, <1>8, Zenon DEF Types
<1>10. Started'
  BY <1>1, <1>2, <1>4, Zenon DEF Started, Young, Types
<1>11. AtRest'
  <2>1. \A t \in Threads : ~hw'[t].trap
    BY <1>4, <1>7, Zenon
  <2>2. \A t \in Threads : ~Busy(t)'
    BY <1>4, <1>8, Zenon DEF Busy
  <2>3. ~active'.on /\ active' \in Actives
    BY <1>1, Zenon DEF NoActive, Actives
  <2> QED  BY <1>1, <1>4, <2>1, <2>2, <2>3, Zenon DEF AtRest
<1> QED  BY <1>8, <1>9, <1>10, <1>11, RestIsInv, PTL

\* Unloading the module.
LEMMA UnloadKeeps ==
  ASSUME Orderly, Inv, UdUninitializeUserDebugger
  PROVE  Inv'
<1>1. /\ Prompt /\ \A t \in Threads : hw[t].at # "sled"
      /\ AttachingRemoveProcessDebuggingDetails(Procs) /\ active' = NoActive
      /\ UNCHANGED <<run, prog, blocked, hw, waitEntry, waitPf, log, waiting, main, cmd>>
  BY Zenon DEF UdUninitializeUserDebugger, Orderly, entry
<1>2. Types /\ Held /\ Tokens
  BY Zenon DEF Inv
<1>3. /\ main = "idle" /\ log = <<>> /\ ~waitEntry
      /\ \A u \in Threads : ~hw[u].trap /\ ~Busy(u)
      /\ \A q \in Procs : ~Young(q)
  BY <1>1, AtPrompt, Zenon
<1>4. \A t \in Threads : IF ProcessOf[t] \in Procs THEN hw'[t].at = "code" /\ ~hw'[t].trap
                                                   ELSE hw'[t] = hw[t]
  BY <1>1, <1>2, <1>3, Zenon DEF Types
<1>5. hw' \in [Threads -> [at : {"code", "sled"}, trap : BOOLEAN]]
  BY <1>1, <1>2, Zenon DEF Types
<1>6. /\ detail' \in [Procs -> Details] /\ det' \in [Threads -> ThreadDetails] /\ Held' /\ Tokens'
      /\ \A t \in Threads : (\A i \in 1..MaxActions : det[t].acts[i] = "none") =>
                              \A i \in 1..MaxActions : det'[t].acts[i] = "none"
  BY <1>1, <1>2, <1>4, <1>5, RecordGone, Zenon
<1>7. Types'
  BY <1>1, <1>2, <1>6, Zenon DEF Types
<1>8. Started'
  BY <1>1, <1>3, Zenon DEF Started, Young
<1>9. AtRest'
  <2>1. \A t \in Threads : ~Busy(t)'
    BY <1>3, <1>6, Zenon DEF Busy
  <2>2. ~active'.on /\ active' \in Actives
    BY <1>1, Zenon DEF NoActive, Actives
  <2> QED  BY <1>1, <1>3, <2>1, <2>2, Zenon DEF AtRest
<1> QED  BY <1>6, <1>7, <1>8, <1>9, RestIsInv, PTL

\* The second request of .detach, which is not refused.
LEMMA DetachPerformed ==
  ASSUME Orderly, Inv, AttachingPerformDetach
  PROVE  /\ cmd.proc \in Procs /\ AttachingRemoveProcessDebuggingDetails({cmd.proc})
         /\ active' = NoActive
         /\ \A t \in Threads : ~Busy(t) /\ (ProcessOf[t] = cmd.proc => ~det[t].paused)
<1>1. /\ main = "detach" /\ \A t \in Threads : det[t].paused => ~Busy(t)
  BY Zenon DEF AttachingPerformDetach, Orderly
<1>2. Types /\ Held /\ Slots /\ Shown /\ Asked
  BY Zenon DEF Inv
<1>3. cmd.proc \in Procs /\ Attached(cmd.proc)
  BY <1>1, <1>2, Zenon DEF Asked, Shown
<1>4. detail[cmd.proc].known \subseteq Threads
  BY <1>2, <1>3, Zenon DEF Types, Details
<1>5. \A t \in detail[cmd.proc].known : ~det[t].paused
  BY <1>1, <1>2, <1>4, Zenon DEF Asked
<1>6. \A t \in Threads : ~Busy(t) /\ (ProcessOf[t] = cmd.proc => ~det[t].paused)
  BY <1>1, <1>2, <1>5 DEF Slots, Held
<1> QED  BY <1>3, <1>5, <1>6, Zenon DEF AttachingPerformDetach, ThreadHolderIsAnyPausedThreadInProcess

LEMMA DetachKeeps ==
  ASSUME Orderly, Inv, AttachingPerformDetach
  PROVE  Inv'
<1> DEFINE p == cmd.proc
<1>1. /\ main = "detach" /\ main' = "idle"
      /\ UNCHANGED <<run, prog, blocked, hw, waitEntry, waitPf, log, waiting>>
  BY Zenon DEF AttachingPerformDetach, guest, entry
<1>2. /\ p \in Procs /\ AttachingRemoveProcessDebuggingDetails({p}) /\ active' = NoActive
      /\ \A t \in Threads : ~Busy(t) /\ (ProcessOf[t] = p => ~det[t].paused)
  BY DetachPerformed, Zenon
<1> HIDE DEF p
<1>3. Types /\ Held /\ Slots /\ Flights /\ Tokens /\ Started
  BY Zenon DEF Inv
<1>4. Calm /\ log = <<>> /\ \A t \in Threads : ~hw[t].trap
  BY <1>1, <1>3, Zenon DEF Flights, Slots
<1>5. \A t \in Threads : IF ProcessOf[t] \in {p} THEN hw'[t].at = "code" /\ ~hw'[t].trap
                                                 ELSE hw'[t] = hw[t]
  BY <1>1, <1>2, <1>3, <1>4 DEF Types, Held
<1>6. hw' \in [Threads -> [at : {"code", "sled"}, trap : BOOLEAN]]
  BY <1>1, <1>3, Zenon DEF Types
<1>7. /\ detail' \in [Procs -> Details] /\ det' \in [Threads -> ThreadDetails] /\ Held' /\ Tokens'
      /\ \A t \in Threads : (\A i \in 1..MaxActions : det[t].acts[i] = "none") =>
                              \A i \in 1..MaxActions : det'[t].acts[i] = "none"
  BY <1>2, <1>3, <1>5, <1>6, RecordGone, Zenon
<1>8. Types'
  BY <1>1, <1>3, <1>7, Zenon DEF Types
<1>9. Started'
  BY <1>1, <1>3, <1>4, Zenon DEF Started, Young, Calm
<1>10. AtRest'
  <2>1. \A t \in Threads : ~Busy(t)'
    BY <1>2, <1>7, Zenon DEF Busy
  <2>2. ~active'.on /\ active' \in Actives
    BY <1>2, Zenon DEF NoActive, Actives
  <2> QED  BY <1>1, <1>4, <2>1, <2>2, Zenon DEF AtRest, Calm
<1> QED  BY <1>7, <1>8, <1>9, <1>10, RestIsInv, PTL

\* t and p return.
LEMMA ReturnKeeps ==
  ASSUME Inv, StepReturns
  PROVE  Inv'
<1>1. /\ main = "step" /\ ~waiting /\ main' = "idle"
      /\ UNCHANGED <<run, prog, blocked, hw, detail, det, log, active, waiting, cmd, waitEntry, waitPf>>
  BY Zenon DEF StepReturns, guest, entry, kernel
<1>2. Types /\ Held /\ Slots /\ Flights /\ Tokens /\ Shown /\ Started
  BY Zenon DEF Inv
<1>3. ~waitEntry /\ \A t \in Threads : ~InFlight(t)
  BY <1>1, <1>2, Zenon DEF Flights, Calm
<1>4. \A t \in Threads : ~InFlight(t)' /\ ~Busy(t)' /\ ~hw'[t].trap
  BY <1>1, <1>3, Zenon DEF InFlight, Busy
<1>5. Slots'
  <2>1. \A t \in Threads : \A i \in 1..MaxActions : det'[t].acts[i] = "none"
    BY <1>4, Zenon DEF Busy
  <2> QED  BY <1>4, <2>1, Zenon DEF Slots
<1>6. Flights'
  BY <1>1, <1>3, <1>4, Zenon DEF Flights
<1>7. Shown'
  <2>1. active.on => /\ active.proc \in Procs /\ Attached(active.proc)
                     /\ active.token = detail[active.proc].token
                     /\ active.thread \in detail[active.proc].known
                     /\ active.paused => det[active.thread].paused
    BY <1>1, <1>2, Zenon DEF Shown
  <2> QED  BY <1>1, <1>2, <2>1, Zenon DEF Shown, Attached
<1>8. Types' /\ Held' /\ Tokens' /\ Started'
  <2>1. Types' /\ Tokens' /\ Started'
    BY <1>1, <1>2, Zenon DEF Types, Tokens, Started, Young, Attached
  <2> QED  BY <1>1, <1>2, <2>1, Zenon DEF Held, Attached
<1>9. Asked'
  BY <1>1, Zenon DEF Asked
<1> QED  BY <1>5, <1>6, <1>7, <1>8, <1>9, Zenon DEF Inv

\* The reader takes a pause from the log.
LEMMA ReadKeeps ==
  ASSUME Inv, UdHandleUserDebuggerPausing
  PROVE  Inv'
<1> DEFINE m == Head(log)
<1>1. /\ log # <<>> /\ log' = Tail(log)
      /\ active' = [on |-> TRUE, proc |-> m.proc, thread |-> m.thread, token |-> m.token, paused |-> TRUE]
      /\ UNCHANGED <<run, prog, blocked, hw, detail, det, main, cmd, waitEntry, waitPf>>
  BY Zenon DEF UdHandleUserDebuggerPausing, guest, entry, kernel
<1>2. Types /\ Held /\ Slots /\ Flights /\ Tokens /\ Shown /\ Started
  BY Zenon DEF Inv
<1>3. /\ main \notin {"apply", "detach"} /\ \A t \in Threads : ~InFlight(t)
  BY <1>1, <1>2, Zenon DEF Flights
<1>4. log \in Seq(Packets) /\ Len(log) \in Nat /\ 1 \in 1..Len(log) /\ m = log[1] /\ log[1] \in Packets
  BY <1>1, <1>2 DEF Types
<1>5. /\ log' \in Seq(Packets)
      /\ \A i \in 1..Len(log') : i + 1 \in 1..Len(log) /\ log'[i] = log[i + 1]
  <2>1. log \in Seq(Packets) /\ log # <<>>
    BY <1>1, <1>4, Zenon
  <2> HIDE DEF m
  <2> QED  BY <1>1, <2>1
<1>6. /\ m.thread \in Threads /\ m.proc = ProcessOf[m.thread] /\ m.proc \in Procs
      /\ m.token = detail[m.proc].token /\ det[m.thread].paused
  <2>1. m.thread \in Threads /\ m.proc \in Procs
    BY <1>4, Zenon DEF Packets
  <2> QED  BY <1>2, <1>4, <2>1, Zenon DEF Shown
<1>7. m.thread \in detail[m.proc].known /\ Attached(m.proc)
  BY <1>2, <1>6 DEF Held
<1> HIDE DEF m
<1>8. Shown'
  <2>1. /\ active'.on /\ active'.proc = m.proc /\ active'.token = m.token /\ active'.thread = m.thread
    BY <1>1, Zenon
  <2>2. \A i \in 1..Len(log') : /\ log'[i].proc = ProcessOf[log'[i].thread]
                                /\ log'[i].token = detail[log'[i].proc].token
                                /\ det[log'[i].thread].paused
    BY <1>2, <1>5, Zenon DEF Shown
  <2>3. active' \in Actives
    <3>1. m.token \in Nat
      BY <1>4, Zenon DEF Packets
    <3> QED  BY <1>1, <1>6, <3>1, Zenon DEF Actives
  <2> QED  BY <1>1, <1>6, <1>7, <2>1, <2>2, <2>3, Zenon DEF Shown, Attached
<1>9. Flights'
  <2>1. \A t \in Threads : ~InFlight(t)'
    BY <1>1, <1>3, Zenon DEF InFlight, Busy
  <2>2. Calm' = Calm
    BY <1>1, Zenon DEF Calm
  <2> QED  BY <1>1, <1>2, <1>3, <2>1, <2>2, Zenon DEF Flights
<1>10. Types' /\ Tokens' /\ Started'
  BY <1>1, <1>2, <1>5, Zenon DEF Types, Tokens, Started, Young, Attached
<1>11. Held' /\ Slots'
  <2>1. Held'
    BY <1>1, <1>2, Zenon DEF Held, Attached
  <2> QED  BY <1>1, <1>2, <2>1, Zenon DEF Slots, Busy
<1>12. Asked'
  BY <1>1, <1>3, Zenon DEF Asked
<1> QED  BY <1>8, <1>9, <1>10, <1>11, <1>12, Zenon DEF Inv

\* The first half of g, t, p or .detach: the interception is switched off.
LEMMA Dispatched ==
  ASSUME Orderly, Inv, Prompt, active.on, NEW kind, NEW t,
         UdDispatchUsermodeCommands(kind, active.token, t)
  PROVE  /\ detail' \in [Procs -> Details]
         /\ \A q \in Procs : /\ detail'[q].token = detail[q].token /\ detail'[q].known = detail[q].known
                             /\ detail'[q].saved = detail[q].saved /\ ~detail'[q].phase
         /\ \A q \in Procs : detail[q].phase => q = active.proc /\ cmd'.restore /\ ~checkPf'
         /\ main' = "apply" /\ cmd'.kind = kind /\ cmd'.token = active.token
         /\ cmd'.proc = active.proc /\ cmd'.thread = t
         /\ UNCHANGED <<run, prog, blocked, hw, harmed, waitEntry, waitPf, det, log>>
<1> DEFINE p == active.proc
<1>1. p \in Procs /\ ByToken(active.token) = {p}
  BY ByTokenActive, Zenon
<1>2. Types
  BY Zenon DEF Inv
<1>3. /\ \A q \in Procs : q # p => ~detail[q].phase
      /\ IF detail[p].phase
         THEN detail' = [detail EXCEPT ![p] = [detail[p] EXCEPT !.phase = FALSE]] /\ checkPf' = FALSE
         ELSE detail' = detail
      /\ main' = "apply" /\ cmd'.kind = kind /\ cmd'.token = active.token
      /\ cmd'.proc = active.proc /\ cmd'.thread = t /\ (detail[p].phase => cmd'.restore)
      /\ UNCHANGED <<run, prog, blocked, hw, harmed, waitEntry, waitPf, det, log>>
  BY <1>1, Zenon DEF UdDispatchUsermodeCommands, AttachingConfigureInterceptingThreads, Orderly, guest, entry
<1> HIDE DEF p
<1>4. CASE detail[p].phase
  <2>1. detail' = [detail EXCEPT ![p] = [detail[p] EXCEPT !.phase = FALSE]]
    BY <1>3, <1>4, Zenon
  <2>2. /\ detail' \in [Procs -> Details]
        /\ \A q \in Procs : detail'[q].token = detail[q].token /\ detail'[q].known = detail[q].known
        /\ \A q \in Procs : detail'[q].saved = detail[q].saved
        /\ \A q \in Procs : detail'[q].phase = IF q = p THEN FALSE ELSE detail[q].phase
    BY <1>1, <1>2, <2>1, Switched, Zenon
  <2> QED  BY <1>3, <1>4, <2>2, Zenon DEF p
<1>5. CASE ~detail[p].phase
  BY <1>2, <1>3, <1>5, Zenon DEF Types, p
<1> QED  BY <1>4, <1>5, Zenon
LEMMA DispatchKeeps ==
  ASSUME Orderly, Inv, Prompt, active.on, NEW kind, NEW t,
         UdDispatchUsermodeCommands(kind, active.token, t),
         active' \in Actives, active'.on, active'.proc = active.proc, active'.token = active.token,
         active'.thread = active.thread, active'.paused => active.paused,
         \/ kind = "continue" /\ t = "none" /\ ~active'.paused
         \/ kind = "detach" /\ t = "none"
         \/ kind \in {"in", "over"} /\ t = active.thread /\ active'.paused /\ waiting'
  PROVE  Inv'
<1>1. Types /\ Held /\ Slots /\ Tokens /\ Shown
  BY Zenon DEF Inv
<1>2. /\ main = "idle" /\ log = <<>> /\ ~waitPf /\ ~waitEntry
      /\ \A u \in Threads : ~InFlight(u) /\ ~hw[u].trap /\ ~Busy(u)
      /\ \A p \in Procs : ~Young(p)
      /\ active.on /\ active.paused => det[active.thread].paused
  BY AtPrompt, Zenon
<1>3. /\ detail' \in [Procs -> Details]
      /\ \A q \in Procs : /\ detail'[q].token = detail[q].token /\ detail'[q].known = detail[q].known
                          /\ ~detail'[q].phase
      /\ main' = "apply" /\ cmd'.kind = kind /\ cmd'.token = active.token
      /\ cmd'.proc = active.proc /\ cmd'.thread = t
      /\ UNCHANGED <<run, prog, blocked, hw, harmed, waitEntry, waitPf, det, log>>
  BY Dispatched, Zenon
<1>4. \A p \in Procs : Attached(p)' = Attached(p)
  BY <1>3, Zenon DEF Attached
<1>5. \A u \in Threads : ~InFlight(u)' /\ ~Busy(u)' /\ ~hw'[u].trap
  BY <1>2, <1>3, Zenon DEF InFlight, Busy
<1>6. Types'
  BY <1>1, <1>3, Zenon DEF Types
<1>7. Held'
  BY <1>1, <1>3, <1>4, Owner DEF Held
<1>8. Slots'
  <2>1. \A u \in Threads : \A i \in 1..MaxActions : det'[u].acts[i] = "none"
    BY <1>5, Zenon DEF Busy
  <2> QED  BY <1>5, <2>1, Zenon DEF Slots
<1>9. Flights'
  <2>1. Calm'
    BY <1>2, <1>3, Zenon DEF Calm
  <2> QED  BY <1>2, <1>3, <1>5, <2>1, Zenon DEF Flights, Calm
<1>10. Tokens'
  BY <1>1, <1>3, <1>4 DEF Tokens
<1>11. Shown'
  <2>1. /\ active.proc \in Procs /\ Attached(active.proc) /\ active.token = detail[active.proc].token
        /\ active.thread \in detail[active.proc].known
    BY <1>1, Zenon DEF Shown
  <2>2. \A i \in 1..Len(log) : FALSE
    BY <1>2
  <2> QED  BY <1>2, <1>3, <1>4, <2>1, <2>2, Zenon DEF Shown
<1>12. Asked'
  BY <1>3, Zenon DEF Asked
<1>13. Started'
  BY <1>2, <1>3, Zenon DEF Started, Young
<1> QED  BY <1>6, <1>7, <1>8, <1>9, <1>10, <1>11, <1>12, <1>13, Zenon DEF Inv

\* g, t, p and .detach.
LEMMA CommandKeeps ==
  ASSUME Orderly, Inv,
         CommandG \/ UdDetachProcess \/ \E kind \in Steps : UdSendStepPacketToDebuggee(kind)
  PROVE  Inv'
<1>1. active \in Actives
  BY Zenon DEF Inv, Shown
<1>2. CASE CommandG
  <2>1. /\ Prompt /\ active.on /\ UdDispatchUsermodeCommands("continue", active.token, "none")
        /\ active' = [active EXCEPT !.paused = FALSE]
    BY <1>2, Zenon DEF CommandG, Resumed
  <2>2. /\ active' \in Actives /\ active'.on = active.on /\ active'.proc = active.proc
        /\ active'.token = active.token /\ active'.thread = active.thread /\ ~active'.paused
    BY <1>1, <2>1, Zenon DEF Actives
  <2> QED  BY <2>1, <2>2, DispatchKeeps, Zenon
<1>3. CASE UdDetachProcess
  <2>1. /\ Prompt /\ active.on /\ UdDispatchUsermodeCommands("detach", active.token, "none")
        /\ active' = active
    BY <1>3, Zenon DEF UdDetachProcess
  <2> QED  BY <1>1, <2>1, DispatchKeeps, Zenon
<1>4. ASSUME NEW kind \in Steps, UdSendStepPacketToDebuggee(kind)
      PROVE  Inv'
  <2>1. /\ Prompt /\ active.on /\ UdDispatchUsermodeCommands(kind, active.token, active.thread)
        /\ active.paused /\ active' = active /\ waiting'
    BY <1>4, Zenon DEF UdSendStepPacketToDebuggee
  <2>2. kind \in {"in", "over"}
    BY Owner, Zenon
  <2> QED  BY <1>1, <2>1, <2>2, DispatchKeeps, Zenon
<1> QED  BY <1>2, <1>3, <1>4, Zenon

\* The second half of a command: it goes to the first slot of its threads.
AppliedTo(targets, kind) ==
  /\ main = "apply" /\ active.on /\ active.proc \in Procs
  /\ \A t \in targets : t \in Threads /\ det[t].paused
  /\ det' = [t \in Threads |->
               IF t \in targets THEN [det[t] EXCEPT !.acts = [det[t].acts EXCEPT ![1] = kind]]
                                ELSE det[t]]
  /\ \/ /\ cmd.kind = "continue" /\ kind = "continue" /\ main' = "idle" /\ ~active.paused
     \/ /\ cmd.kind = "detach" /\ kind = "continue" /\ main' = "detach" /\ cmd' = cmd
        /\ \A t \in detail[active.proc].known : det[t].paused => t \in targets
     \/ /\ cmd.kind \in {"in", "over"} /\ main' = "step" /\ waiting /\ targets = {active.thread}
  /\ harmed' => harmed
  /\ blocked' = [p \in Procs |-> IF p = active.proc /\ cmd.restore THEN Restored(p) ELSE blocked[p]]
  /\ \A t \in Threads : ~Busy(t) /\ ~hw[t].trap
  /\ UNCHANGED <<run, prog, hw, waitEntry, waitPf, detail, log, active, waiting>>

LEMMA Applied ==
  ASSUME Inv, ThreadHolderApplyActionToPausedThreads
  PROVE  \E targets \in SUBSET Threads, kind \in {"continue", "in", "over"} : AppliedTo(targets, kind)
<1> DEFINE ps == ByToken(cmd.token)
           known == UNION {detail[p].known : p \in ps}
           targets == IF cmd.thread = "none" THEN {t \in known : det[t].paused}
                                             ELSE {cmd.thread} \cap known
           kind == IF cmd.kind = "detach" THEN "continue" ELSE cmd.kind
<1>1. /\ main = "apply"
      /\ blocked' = [p \in Procs |-> IF p \in ps /\ cmd.restore THEN Restored(p) ELSE blocked[p]]
      /\ det' = [t \in Threads |->
                    IF t \in targets THEN [det[t] EXCEPT !.acts = Queued(det[t].acts, kind)] ELSE det[t]]
      /\ harmed' = (harmed \/ (ps # {} /\ cmd.thread # "none" /\ targets = {}))
      /\ main' = CASE cmd.kind = "continue" -> "idle"
                   [] cmd.kind = "detach" -> "detach"
                   [] OTHER -> "step"
      /\ cmd' = IF cmd.kind = "detach" THEN cmd ELSE NoCommand
      /\ UNCHANGED <<run, prog, hw, waitEntry, waitPf, detail, log, active, waiting>>
  BY Zenon DEF ThreadHolderApplyActionToPausedThreads, entry
<1>2. Types /\ Held /\ Slots /\ Flights /\ Shown /\ Asked
  BY Zenon DEF Inv
<1>3. /\ active.on /\ cmd.token = active.token
      /\ \/ cmd.kind = "continue" /\ cmd.thread = "none" /\ ~active.paused
         \/ cmd.kind = "detach" /\ cmd.thread = "none"
         \/ cmd.kind \in {"in", "over"} /\ cmd.thread = active.thread /\ active.paused /\ waiting
  BY <1>1, <1>2, Zenon DEF Asked
<1>4. active.proc \in Procs /\ ps = {active.proc} /\ known = detail[active.proc].known
  BY <1>3, ByTokenActive
<1>5. /\ active.thread \in known /\ (active.paused => det[active.thread].paused) /\ known \subseteq Threads
  BY <1>1, <1>2, <1>3, <1>4, Zenon DEF Shown, Types, Details
<1>6. \A t \in Threads : ~Busy(t) /\ ~hw[t].trap
  BY <1>1, <1>2, Zenon DEF Flights, InFlight
<1>7. active.thread # "none"
  BY <1>5, Owner, Zenon
<1>8. /\ targets \subseteq known /\ \A t \in targets : t \in Threads /\ det[t].paused
      /\ cmd.thread = "none" => \A t \in known : det[t].paused => t \in targets
      /\ cmd.thread = active.thread /\ active.paused => targets = {active.thread}
  <2>1. CASE cmd.thread = "none"
    <3>1. targets = {t \in known : det[t].paused}
      BY <2>1, Zenon
    <3> HIDE DEF known, targets
    <3> QED  BY <1>5, <1>7, <2>1, <3>1, Zenon
  <2>2. CASE cmd.thread # "none"
    <3>1. targets = {cmd.thread} \cap known
      BY <2>2, Zenon
    <3>2. cmd.thread = active.thread /\ active.paused
      BY <1>3, <2>2, Zenon
    <3> HIDE DEF known, targets
    <3> QED  BY <1>5, <2>2, <3>1, <3>2, Zenon
  <2> QED  BY <2>1, <2>2, Zenon
<1>9. kind \in {"continue", "in", "over"} /\ (cmd.kind \in {"continue", "detach"} => kind = "continue")
  BY <1>3, Zenon
<1> HIDE DEF kind, targets, known, ps
<1>10. \A t \in Threads : Queued(det[t].acts, kind) = [det[t].acts EXCEPT ![1] = kind]
  BY <1>2, <1>6, FirstSlot, Zenon
<1>11. det' = [t \in Threads |->
                 IF t \in targets THEN [det[t] EXCEPT !.acts = [det[t].acts EXCEPT ![1] = kind]]
                                  ELSE det[t]]
  BY <1>1, <1>10, Zenon
<1>12. \/ /\ cmd.kind = "continue" /\ kind = "continue" /\ main' = "idle" /\ ~active.paused
       \/ /\ cmd.kind = "detach" /\ kind = "continue" /\ main' = "detach" /\ cmd' = cmd
          /\ \A t \in known : det[t].paused => t \in targets
       \/ /\ cmd.kind \in {"in", "over"} /\ main' = "step" /\ waiting /\ targets = {active.thread}
  BY <1>1, <1>3, <1>8, <1>9, Zenon
<1>13. harmed' => harmed
  <2>1. cmd.thread # "none" => targets # {}
    BY <1>3, <1>8, Zenon
  <2> QED  BY <1>1, <2>1, Zenon
<1>14. blocked' = [p \in Procs |-> IF p = active.proc /\ cmd.restore THEN Restored(p) ELSE blocked[p]]
  BY <1>1, <1>4, Zenon
<1>15. AppliedTo(targets, kind)
  BY <1>1, <1>3, <1>4, <1>6, <1>8, <1>11, <1>12, <1>13, <1>14, Zenon DEF AppliedTo
<1>16. targets \in SUBSET Threads
  BY <1>8, Zenon
<1> QED  BY <1>9, <1>15, <1>16, Zenon
LEMMA ApplyKeeps ==
  ASSUME Inv, ThreadHolderApplyActionToPausedThreads
  PROVE  Inv'
<1>1. PICK targets \in SUBSET Threads, kind \in {"continue", "in", "over"} : AppliedTo(targets, kind)
  BY Applied, Zenon
<1>2. Types /\ Held /\ Slots /\ Flights /\ Tokens /\ Shown /\ Asked /\ Started
  BY Zenon DEF Inv
<1>3. /\ main = "apply" /\ active.on /\ active.proc \in Procs
      /\ \A t \in targets : t \in Threads /\ det[t].paused
      /\ \A t \in Threads : ~Busy(t) /\ ~hw[t].trap
      /\ UNCHANGED <<run, prog, hw, waitEntry, waitPf, detail, log, active, waiting>>
  BY <1>1, Zenon DEF AppliedTo
<1>4. \/ /\ cmd.kind = "continue" /\ kind = "continue" /\ main' = "idle" /\ ~active.paused
      \/ /\ cmd.kind = "detach" /\ kind = "continue" /\ main' = "detach" /\ cmd' = cmd
         /\ \A t \in detail[active.proc].known : det[t].paused => t \in targets
      \/ /\ main' = "step" /\ waiting /\ targets = {active.thread}
  BY <1>1, Zenon DEF AppliedTo
<1>5. /\ det' \in [Threads -> ThreadDetails]
      /\ \A t \in Threads :
           /\ det'[t].paused = det[t].paused /\ det'[t].rip = det[t].rip /\ det'[t].tf = det[t].tf
           /\ \A i \in 1..MaxActions :
                det'[t].acts[i] = IF t \in targets /\ i = 1 THEN kind ELSE "none"
  <2>1. det' = [t \in Threads |->
                  IF t \in targets THEN [det[t] EXCEPT !.acts = [det[t].acts EXCEPT ![1] = kind]]
                                   ELSE det[t]]
    BY <1>1, Zenon DEF AppliedTo
  <2>2. ASSUME NEW t \in Threads
        PROVE  /\ det'[t] \in ThreadDetails
               /\ det'[t].paused = det[t].paused /\ det'[t].rip = det[t].rip /\ det'[t].tf = det[t].tf
               /\ \A i \in 1..MaxActions :
                    det'[t].acts[i] = IF t \in targets /\ i = 1 THEN kind ELSE "none"
    <3>1. /\ det[t] \in ThreadDetails /\ det[t].acts \in [1..MaxActions -> {"none", "continue", "in", "over"}]
          /\ \A i \in 1..MaxActions : det[t].acts[i] = "none"
      BY <1>2, <1>3, Zenon DEF Types, ThreadDetails, Busy
    <3> DEFINE a == [det[t].acts EXCEPT ![1] = kind]
    <3>2. /\ a \in [1..MaxActions -> {"none", "continue", "in", "over"}]
          /\ \A i \in 1..MaxActions : a[i] = IF i = 1 THEN kind ELSE "none"
      BY <3>1, Zenon
    <3>3. det'[t] = IF t \in targets THEN [det[t] EXCEPT !.acts = a] ELSE det[t]
      BY <2>1, Zenon
    <3> HIDE DEF a
    <3> QED  BY <3>1, <3>2, <3>3 DEF ThreadDetails
  <2>3. det' \in [Threads -> ThreadDetails]
    <3>1. \A t \in Threads : det'[t] \in ThreadDetails
      BY <2>2, Zenon
    <3> QED  BY <2>1, <3>1, Zenon
  <2> QED  BY <2>2, <2>3, Zenon
<1>6. \A t \in Threads : /\ Busy(t)' <=> t \in targets
                         /\ InFlight(t)' => t \in targets
  <2>1. \A t \in Threads : Busy(t)' <=> t \in targets
    <3>1. kind # "none" /\ 1 \in 1..MaxActions
      BY Owner, Zenon
    <3> QED  BY <1>5, <3>1, Zenon DEF Busy
  <2>2. \A t \in Threads : ~hw'[t].trap
    BY <1>3, Zenon
  <2> QED  BY <2>1, <2>2, Zenon DEF InFlight
<1>7. Calm /\ log = <<>>
  BY <1>2, <1>3, Zenon DEF Flights
<1>8. Types'
  <2>1. blocked' = [p \in Procs |-> IF p = active.proc /\ cmd.restore THEN Restored(p) ELSE blocked[p]]
    BY <1>1, Zenon DEF AppliedTo
  <2>2. blocked' \in [Procs -> SUBSET (1..NCr3)]
    BY <1>2, <2>1, Zenon DEF Types, Restored
  <2> QED  BY <1>2, <1>3, <1>5, <2>2, Zenon DEF Types
<1>9. Held'
  BY <1>2, <1>3, <1>5 DEF Held, Attached
<1>10. Slots'
  <2> SUFFICES ASSUME NEW u \in Threads
               PROVE (/\ Busy(u) => det[u].paused
                      /\ \A i, j \in 1..MaxActions : det[u].acts[i] # "none" /\ det[u].acts[j] # "none" => i = j
                      /\ \A i \in 1..MaxActions : det[u].acts[i] \in {"in", "over"} => main = "step"
                      /\ hw[u].trap => main = "step")'
    BY Zenon DEF Slots
  <2>1. Busy(u)' => det'[u].paused
    BY <1>3, <1>5, <1>6, Zenon
  <2>2. \A i \in 1..MaxActions : det'[u].acts[i] = IF u \in targets /\ i = 1 THEN kind ELSE "none"
    BY <1>5, Zenon
  <2> QED  BY <1>3, <1>4, <2>1, <2>2, Zenon
<1>11. Flights'
  <2>1. Calm'
    BY <1>3, <1>7, Zenon DEF Calm
  <2>2. log' = <<>> /\ active' = active /\ waiting' = waiting
    BY <1>3, <1>7, Zenon
  <2> QED  BY <1>3, <1>4, <1>6, <2>1, <2>2 DEF Flights, Calm
<1>12. Tokens' /\ Started'
  BY <1>2, <1>3, Zenon DEF Tokens, Started, Attached, Young
<1>13. Shown'
  <2>1. /\ active \in Actives /\ Attached(active.proc)
        /\ active.token = detail[active.proc].token
        /\ active.thread \in detail[active.proc].known
        /\ active.paused => det[active.thread].paused
    BY <1>2, <1>3, Zenon DEF Shown
  <2>2. active.thread \in Threads
    BY <1>2, <1>3, <2>1, Zenon DEF Types, Details
  <2>3. \A i \in 1..Len(log) : FALSE
    BY <1>7
  <2> QED  BY <1>3, <1>5, <2>1, <2>2, <2>3, Zenon DEF Shown, Attached
<1>14. Asked'
  <2>1. main' = "detach" => \A t \in detail'[cmd'.proc].known : det'[t].paused => Busy(t)'
    <3> SUFFICES ASSUME main' = "detach", NEW t \in detail'[cmd'.proc].known, det'[t].paused
                 PROVE  Busy(t)'
      BY Zenon
    <3>1. t \in detail[active.proc].known
      BY <1>2, <1>3, <1>4, Zenon DEF Asked
    <3>2. t \in Threads
      BY <1>2, <1>3, <3>1, Zenon DEF Types, Details
    <3> QED  BY <1>4, <1>5, <1>6, <3>1, <3>2, Zenon
  <2> QED  BY <1>2, <1>3, <1>4, <2>1, Zenon DEF Asked
<1> QED  BY <1>8, <1>9, <1>10, <1>11, <1>12, <1>13, <1>14, Zenon DEF Inv

-----------------------------------------------------------------------------
(* What is paused is held                                                    *)

LEMMA InitInv == Init => Inv
<1> SUFFICES ASSUME Init
             PROVE  Inv
  OBVIOUS
<1>1. NoDetail \in Details /\ NoThread \in ThreadDetails /\ NoActive \in Actives
  BY Owner, Zenon DEF NoDetail, NoThread, NoActive, Details, ThreadDetails, Actives
<1>2. /\ NoDetail.token = 0 /\ NoDetail.known = {} /\ ~NoDetail.phase
      /\ NoThread.paused = FALSE /\ NoThread.tf = FALSE /\ \A i \in 1..MaxActions : NoThread.acts[i] = "none"
      /\ NoActive.on = FALSE
  BY Zenon DEF NoDetail, NoThread, NoActive
<1>3. /\ detail \in [Procs -> Details] /\ det \in [Threads -> ThreadDetails]
      /\ \A p \in Procs : detail[p] = NoDetail /\ ~Young(p)
      /\ \A t \in Threads : det[t] = NoThread /\ hw[t].at = "code" /\ hw[t].trap = FALSE
  BY <1>1, Zenon DEF Init, Young
<1>4. Types
  BY <1>3 DEF Init, Types, Idle
<1>5. Held
  BY <1>2, <1>3, Zenon DEF Held, Attached
<1>6. Tokens /\ Started
  BY <1>2, <1>3, Zenon DEF Tokens, Started, Attached
<1>7. AtRest
  BY <1>1, <1>2, <1>3, Zenon DEF AtRest, Init, Busy
<1> QED  BY <1>4, <1>5, <1>6, <1>7, RestIsInv, Zenon

LEMMA NextInv ==
  ASSUME Orderly, Inv, [Next]_vars
  PROVE  Inv'
<1>1. CASE UNCHANGED vars
  BY <1>1, Untouched, Zenon DEF vars, guest, entry, kernel, host, invVars
<1>2. CASE \E c \in Cores, t \in Threads, k \in 1..NCr3 : Dispatch(c, t, k)
  BY <1>2, CoreKeeps, Zenon
<1>3. CASE \E c \in Cores : Preempt(c)
  BY <1>3, CoreKeeps, Zenon
<1>4. CASE \E c \in Cores : ThreadStep(c)
  <2> SUFFICES ASSUME NEW c \in Cores, ThreadStep(c)
               PROVE  Inv'
    BY <1>4, Zenon
  <2>1. CASE PebAccess(c)
    BY <2>1, Untouched, Zenon DEF PebAccess, guest, kernel, host, invVars
  <2> QED  BY <2>1, PageFaultKeeps, DebugTrapKeeps, PagedOutKeeps, EntrypointKeeps, ServeKeeps, Zenon DEF ThreadStep
<1>5. CASE Typed
  BY <1>5, AttachKeeps, StartKeeps, PauseKeeps, CommandKeeps, KillKeeps, SwitchKeeps, UnloadKeeps, Zenon DEF Typed
<1>6. CASE Pending
  BY <1>6, RemoveHooksKeeps, ApplyKeeps, ReturnKeeps, DetachKeeps, Zenon DEF Pending
<1>7. CASE UdHandleUserDebuggerPausing
  BY <1>7, ReadKeeps, Zenon
<1> QED  BY <1>1, <1>2, <1>3, <1>4, <1>5, <1>6, <1>7, Zenon DEF Next

\* The invariant holds in every state.
THEOREM UserDebuggerInv ==
  ASSUME Orderly
  PROVE  Spec => []Inv
<1>1. Inv /\ [Next]_vars => Inv'
  BY NextInv, Zenon
<1> QED  BY InitInv, <1>1, PTL DEF Spec

\* Wherever commands do not cross one another (Ud.c, Attaching.c and the
\* commands of ud.cpp one after the other), whatever else faults and on whatever
\* core: a thread spins in the sled exactly while its details hold it, and what
\* the controller shows as paused is held, under the token it will send.
THEOREM PausedIsHeld ==
  ASSUME Orderly
  PROVE  Spec => []PausedMeansHeld
<1>1. Inv => PausedMeansHeld
  <2> SUFFICES ASSUME Inv
               PROVE  PausedMeansHeld
    BY Zenon
  <2>1. Types /\ Held /\ Shown
    BY Zenon DEF Inv
  <2>2. ASSUME NEW t \in Threads
        PROVE  (hw[t].at = "sled") = (/\ Attached(ProcessOf[t]) /\ t \in detail[ProcessOf[t]].known
                                      /\ det[t].paused /\ det[t].rip = "code")
    <3>1. /\ det[t].paused <=> hw[t].at = "sled"
          /\ det[t].paused => t \in detail[ProcessOf[t]].known /\ det[t].rip = "code"
      BY <2>1, HeldOf, Zenon
    <3>2. t \in detail[ProcessOf[t]].known => Attached(ProcessOf[t])
      BY <2>1, Owner DEF Held
    <3> QED  BY <3>1, <3>2
  <2>3. (Prompt /\ active.on /\ active.paused) =>
           /\ detail[active.proc].token = active.token
           /\ active.thread \in detail[active.proc].known
           /\ det[active.thread].paused
    BY <2>1, AtPrompt, Zenon DEF Shown
  <2> QED  BY <2>2, <2>3, Zenon DEF PausedMeansHeld
<1> QED  BY <1>1, UserDebuggerInv, PTL
-----------------------------------------------------------------------------
(* A pause holds                                                             *)

PauseStep == \A t \in Threads : ~det[t].paused /\ det'[t].paused => ~Busy(t)'

\* A thread is caught with the commands it has.
LEMMA CatchPauses ==
  ASSUME Inv, NEW t \in Threads, NEW reason, UdCheckAndHandleBreakpointsAndDebugBreaks(t, reason)
  PROVE  PauseStep
<1> DEFINE stepped == reason = "step" /\ det[t].tf
           d == IF stepped THEN [det[t] EXCEPT !.tf = FALSE] ELSE det[t]
<1>1. det' = [det EXCEPT ![t] = [d EXCEPT !.rip = hw[t].at, !.paused = TRUE]]
  BY Zenon DEF UdCheckAndHandleBreakpointsAndDebugBreaks, UdSpinThreadOnNop
<1>2. det \in [Threads -> ThreadDetails] /\ det[t] \in ThreadDetails
  BY Zenon DEF Inv, Types
<1>3. \A u \in Threads : det'[u].acts = det[u].acts
  BY <1>1, <1>2, Zenon DEF ThreadDetails
<1>4. \A u \in Threads : ~det[u].paused => ~Busy(u)
  BY Zenon DEF Inv, Slots
<1> QED  BY <1>3, <1>4 DEF PauseStep, Busy

\* No other step pauses a thread.
LEMMA NextPauses ==
  ASSUME Orderly, Inv, [Next]_vars
  PROVE  PauseStep
<1>1. Types
  BY Zenon DEF Inv
<1>2. CASE det' = det
  BY <1>2, Zenon DEF PauseStep
<1>3. ASSUME NEW ps, AttachingRemoveProcessDebuggingDetails(ps)
      PROVE  PauseStep
  <2>1. \A t \in Threads : det'[t] = IF ProcessOf[t] \in ps THEN NoThread ELSE det[t]
    BY <1>3, Zenon DEF AttachingRemoveProcessDebuggingDetails
  <2>2. ~NoThread.paused
    BY Zenon DEF NoThread
  <2> QED  BY <2>1, <2>2, Zenon DEF PauseStep
<1>4. CASE UNCHANGED vars
  BY <1>2, <1>4, Zenon DEF vars, kernel
<1>5. CASE \E c \in Cores, t \in Threads, k \in 1..NCr3 : Dispatch(c, t, k)
  BY <1>2, <1>5, Zenon DEF Dispatch
<1>6. CASE \E c \in Cores : Preempt(c)
  BY <1>2, <1>6, Zenon DEF Preempt
<1>7. CASE \E c \in Cores : ThreadStep(c)
  <2> SUFFICES ASSUME NEW c \in Cores, ThreadStep(c)
               PROVE  PauseStep
    BY <1>7, Zenon
  <2>1. run[c] # Idle => run[c].thread \in Threads
    BY <1>1, Runs, Zenon
  <2>2. CASE PageFault(c)
    BY <1>2, <2>1, <2>2, CatchPauses, Zenon DEF PageFault
  <2>3. CASE DebugTrap(c)
    BY <1>2, <2>1, <2>3, CatchPauses, Zenon DEF DebugTrap
  <2>4. CASE PebAccess(c) \/ EntrypointPagedOut(c)
    BY <1>2, <2>4, Zenon DEF PebAccess, EntrypointPagedOut, kernel
  <2>5. CASE ReachedToProcessEntrypoint(c)
    BY <2>1, <2>5, CatchPauses, Zenon DEF ReachedToProcessEntrypoint
  <2>6. CASE UdCheckForCommand(c)
    <3>1. PICK t \in Threads, kind \in {"continue", "in", "over"} : ServedThread(t, kind)
      BY <2>6, ServeServed, Zenon
    <3>2. ~det'[t].paused /\ \A u \in Threads : u # t => det'[u] = det[u]
      BY <3>1, Zenon DEF ServedThread, Same
    <3> QED  BY <3>2, Zenon DEF PauseStep
  <2> QED  BY <2>2, <2>3, <2>4, <2>5, <2>6, Zenon DEF ThreadStep
<1>8. CASE Typed
  <2>1. CASE \E p \in Procs : AttachingPerformAttachToProcess(p) \/ StartAttached(p)
    BY <1>2, <2>1, Zenon DEF AttachingPerformAttachToProcess, StartAttached
  <2>2. CASE AttachingPauseProcess \/ \E t \in Threads : AttachingSwitchProcess(t)
    BY <1>2, <2>2, Zenon DEF AttachingPauseProcess, AttachingSwitchProcess
  <2>3. CASE CommandG \/ UdDetachProcess \/ \E kind \in Steps : UdSendStepPacketToDebuggee(kind)
    BY <1>2, <2>3, Zenon DEF CommandG, UdDetachProcess, UdSendStepPacketToDebuggee, UdDispatchUsermodeCommands
  <2>4. CASE AttachingKillProcess
    BY <1>3, <2>4, Zenon DEF AttachingKillProcess
  <2>5. CASE UdUninitializeUserDebugger
    BY <1>3, <2>5, Zenon DEF UdUninitializeUserDebugger
  <2> QED  BY <1>8, <2>1, <2>2, <2>3, <2>4, <2>5, Zenon DEF Typed
<1>9. CASE Pending
  <2>1. CASE AttachingRemoveHooks \/ StepReturns
    BY <1>2, <2>1, Zenon DEF AttachingRemoveHooks, StepReturns, kernel
  <2>2. CASE ThreadHolderApplyActionToPausedThreads
    <3>1. PICK targets \in SUBSET Threads, kind \in {"continue", "in", "over"} : AppliedTo(targets, kind)
      BY <2>2, Applied, Zenon
    <3>2. /\ \A t \in targets : det[t].paused
          /\ \A t \in Threads : t \notin targets => det'[t] = det[t]
      BY <3>1, Zenon DEF AppliedTo
    <3>3. \A t \in Threads : ~det[t].paused => det'[t] = det[t]
      BY <3>2, Zenon
    <3> QED  BY <3>3, Zenon DEF PauseStep
  <2>3. CASE AttachingPerformDetach
    BY <1>3, <2>3, DetachPerformed, Zenon
  <2> QED  BY <1>9, <2>1, <2>2, <2>3, Zenon DEF Pending
<1>10. CASE UdHandleUserDebuggerPausing
  BY <1>2, <1>10, Zenon DEF UdHandleUserDebuggerPausing, kernel
<1> QED  BY <1>4, <1>5, <1>6, <1>7, <1>8, <1>9, <1>10, Zenon DEF Next

\* Wherever commands do not cross one another: a thread that
\* UdCheckAndHandleBreakpointsAndDebugBreaks pauses has no command left in its
\* slots, so it stays paused until the user asks for something.
THEOREM PausesHold ==
  ASSUME Orderly
  PROVE  Spec => PauseHolds
<1>1. Inv /\ [Next]_vars => [PauseStep]_vars
  BY NextPauses, Zenon
<1>2. [PauseStep]_vars => [\A t \in Threads : ~det[t].paused /\ det'[t].paused => ~Busy(t)']_vars
  BY Zenon DEF PauseStep
<1> QED  BY <1>1, <1>2, UserDebuggerInv, PTL DEF Spec, PauseHolds
-----------------------------------------------------------------------------
(* A debuggee notices nothing                                                *)

\* Nothing crosses anything, and the slots for page tables are enough.
Gentle == Crossing = {} /\ NCr3 <= MaxCr3

\* What is blocked can be restored, and is restored before it matters: the
\* process is intercepted, or the command that ended that is about to restore
\* its tables.
Safe ==
  /\ ~harmed
  /\ \A p \in Procs :
       /\ blocked[p] \subseteq detail[p].saved
       /\ blocked[p] # {} => \/ detail[p].phase
                             \/ main = "apply" /\ cmd.restore /\ cmd.proc = p /\ ~checkPf

\* Steps that leave the page tables alone.
LEMMA SafeAlike ==
  ASSUME Safe, UNCHANGED <<harmed, blocked>>, main = "apply" => UNCHANGED <<main, cmd, checkPf>>,
         \A p \in Procs : detail'[p].saved = detail[p].saved /\ (detail[p].phase => detail'[p].phase)
  PROVE  Safe'
<1>1. harmed' = harmed /\ blocked' = blocked
  BY Zenon
<1>2. ASSUME NEW p \in Procs
      PROVE  /\ blocked'[p] \subseteq detail'[p].saved
             /\ blocked'[p] # {} => \/ detail'[p].phase
                                    \/ main' = "apply" /\ cmd'.restore /\ cmd'.proc = p /\ ~checkPf'
  BY <1>1 DEF Safe
<1> QED  BY <1>1, <1>2 DEF Safe

\* There is always a slot for a page table.
LEMMA Room ==
  ASSUME Gentle, NEW s \in SUBSET (1..NCr3), NEW k \in 1..NCr3
  PROVE  (IF Cardinality(s) < MaxCr3 THEN s \cup {k} ELSE s) = s \cup {k}
<1>1. IsFiniteSet(1..NCr3) /\ Cardinality(1..NCr3) = NCr3
  BY FS_Interval, Owner
<1>2. CASE k \in s
  BY <1>2, Zenon
<1>3. CASE k \notin s
  <2>1. IsFiniteSet(s) /\ s # 1..NCr3
    BY <1>1, <1>3, FS_Subset, Zenon
  <2>2. Cardinality(s) <= Cardinality(1..NCr3) /\ Cardinality(1..NCr3) # Cardinality(s)
    BY <1>1, <2>1, FS_Subset, Zenon
  <2>3. Cardinality(s) \in Nat
    BY <2>1, FS_CardinalityType, Zenon
  <2>4. Cardinality(s) < NCr3
    BY <1>1, <2>2, <2>3, Owner
  <2> QED  BY <2>3, <2>4, Owner DEF Gentle
<1> QED  BY <1>2, <1>3, Zenon

\* CR3 is loaded.
LEMMA CoreSafe ==
  ASSUME Gentle, Inv, Safe, NEW c \in Cores,
         Preempt(c) \/ \E t \in Threads, k \in 1..NCr3 : Dispatch(c, t, k)
  PROVE  Safe'
<1>1. UNCHANGED <<harmed, main, cmd, checkPf>>
  BY Zenon DEF Preempt, Dispatch, host
<1>2. \/ UNCHANGED <<detail, blocked>>
      \/ \E p \in Procs, k \in 1..NCr3 :
           /\ detail[p].phase
           /\ detail' = [detail EXCEPT ![p].saved = IF Cardinality(@) < MaxCr3 THEN @ \cup {k} ELSE @]
           /\ blocked' = [blocked EXCEPT ![p] = @ \cup {k}]
  <2>1. CASE Preempt(c)
    BY <2>1, Zenon DEF Preempt, AttachingHandleCr3
  <2>2. ASSUME NEW t \in Threads, NEW k \in 1..NCr3, Dispatch(c, t, k)
        PROVE <1>2
    BY <2>2, Owner, Zenon DEF Dispatch, AttachingHandleCr3
  <2> QED  BY <2>1, <2>2, Zenon
<1>3. CASE UNCHANGED <<detail, blocked>>
  BY <1>1, <1>3, SafeAlike, Zenon
<1>4. ASSUME NEW p \in Procs, NEW k \in 1..NCr3, detail[p].phase,
             detail' = [detail EXCEPT ![p].saved = IF Cardinality(@) < MaxCr3 THEN @ \cup {k} ELSE @],
             blocked' = [blocked EXCEPT ![p] = @ \cup {k}]
      PROVE  Safe'
  <2> DEFINE s == detail[p].saved
  <2>1. detail \in [Procs -> Details] /\ detail[p] \in Details /\ s \in SUBSET (1..NCr3)
        /\ blocked \in [Procs -> SUBSET (1..NCr3)]
    BY Zenon DEF Inv, Types, Details
  <2>2. detail' = [detail EXCEPT ![p] = [detail[p] EXCEPT !.saved =
                                           IF Cardinality(s) < MaxCr3 THEN s \cup {k} ELSE s]]
    BY <1>4, Zenon
  <2>3. detail' = [detail EXCEPT ![p] = [detail[p] EXCEPT !.saved = s \cup {k}]]
    BY <2>1, <2>2, Room, Zenon
  <2>4. /\ detail'[p].saved = s \cup {k} /\ detail'[p].phase
        /\ \A q \in Procs : q # p => detail'[q] = detail[q]
    BY <1>4, <2>1, <2>3 DEF Details
  <2>5. blocked'[p] = blocked[p] \cup {k} /\ \A q \in Procs : q # p => blocked'[q] = blocked[q]
    BY <1>4, <2>1, Zenon
  <2>6. ASSUME NEW q \in Procs
        PROVE  /\ blocked'[q] \subseteq detail'[q].saved
               /\ blocked'[q] # {} => \/ detail'[q].phase
                                      \/ main' = "apply" /\ cmd'.restore /\ cmd'.proc = q /\ ~checkPf'
    <3>1. CASE q = p
      BY <2>4, <2>5, <3>1, Zenon DEF Safe
    <3>2. CASE q # p
      BY <1>1, <2>4, <2>5, <3>2, Zenon DEF Safe
    <3> QED  BY <3>1, <3>2, Zenon
  <2> QED  BY <1>1, <2>6, Zenon DEF Safe
<1> QED  BY <1>2, <1>3, <1>4, Zenon

\* A fault or a trap, which is always the debugger's.
LEMMA CatchSafe ==
  ASSUME Gentle, Inv, Safe, NEW c \in Cores,
         PageFault(c) \/ DebugTrap(c) \/ ReachedToProcessEntrypoint(c)
  PROVE  Safe'
<1> DEFINE t == run[c].thread
           p == ProcessOf[t]
<1>1. Types /\ Held /\ Slots /\ Flights /\ Started
  BY Zenon DEF Inv
<1>2. t \in Threads /\ p \in Procs /\ run[c].cr3 \in 1..NCr3
  BY <1>1, Runs, Zenon DEF PageFault, DebugTrap, ReachedToProcessEntrypoint
<1>3. UNCHANGED <<blocked, main, cmd, checkPf>>
  BY Zenon DEF PageFault, DebugTrap, ReachedToProcessEntrypoint
<1>4. \E reason \in {"intercepted", "step", "entry"} :
        /\ UdCheckAndHandleBreakpointsAndDebugBreaks(t, reason)
        /\ harmed' = harmed /\ hw[t].at = "code"
  <2>1. CASE PageFault(c)
    <3>1. run[c].cr3 \in blocked[p] /\ hw[t].at = "code" /\ c \in pf /\ checkPf
      BY <2>1, Zenon DEF PageFault, Gentle
    <3>2. detail[p].phase /\ Attached(p)
      BY <1>1, <1>2, <3>1, Zenon DEF Safe, Held
    <3> QED  BY <2>1, <3>1, <3>2, Zenon DEF PageFault
  <2>2. CASE DebugTrap(c)
    <3>1. hw[t].at = "code" /\ hw[t].trap
      BY <2>2 DEF DebugTrap
    <3>2. ~waitEntry /\ ~waitPf
      BY <1>1, <1>2, <3>1, Zenon DEF Flights, InFlight, Calm
    <3>3. t \in detail[p].known
      BY <1>1, <1>2, <3>1, Zenon DEF Held
    <3>4. Attached(p) /\ ThreadHolderFound(p, t)
      BY <1>1, <1>2, <3>3, Zenon DEF Held, ThreadHolderFound, NeedsHolder
    <3> QED  BY <2>2, <3>1, <3>2, <3>4, Zenon DEF DebugTrap
  <2>3. CASE ReachedToProcessEntrypoint(c)
    <3>1. Young(p)
      BY <2>3, Zenon DEF ReachedToProcessEntrypoint, Young
    <3>2. hw[t].at = "code"
      BY <1>1, <1>2, <3>1 DEF Started, Held, Types
    <3> QED  BY <2>3, <3>2, Zenon DEF ReachedToProcessEntrypoint
  <2> QED  BY <2>1, <2>2, <2>3, Zenon
<1> HIDE DEF t, p
<1>5. \A q \in Procs : detail'[q].saved = detail[q].saved /\ detail'[q].phase = detail[q].phase
  <2>1. PICK reason \in {"intercepted", "step", "entry"} :
          UdCheckAndHandleBreakpointsAndDebugBreaks(t, reason) /\ hw[t].at = "code"
    BY <1>4, Zenon
  <2>2. Caught(t, reason = "step")
    BY <1>1, <1>2, <2>1, CatchCaught, Zenon
  <2> QED  BY <2>2, Zenon DEF Caught
<1> QED  BY <1>3, <1>4, <1>5, SafeAlike, Zenon

\* The commands, which block no page table.
LEMMA TypedSafe ==
  ASSUME Gentle, Inv, Safe, Typed
  PROVE  Safe'
<1>1. Types /\ Held /\ Tokens /\ Orderly
  BY Zenon DEF Inv, Gentle, Orderly
<1>2. main = "idle" \/ main = "start"
  BY Zenon DEF Typed, AttachingPerformAttachToProcess, StartAttached, AttachingPauseProcess, CommandG,
         UdSendStepPacketToDebuggee, UdDetachProcess, AttachingKillProcess, AttachingSwitchProcess,
         UdUninitializeUserDebugger, Prompt
<1>3. \A q \in Procs : blocked[q] \subseteq detail[q].saved /\ (blocked[q] # {} => detail[q].phase)
  BY <1>2, Zenon DEF Safe
<1>4. ASSUME NEW p \in Procs, ~Attached(p), NEW d, detail' = [detail EXCEPT ![p] = d],
             UNCHANGED <<harmed, blocked>>
      PROVE  Safe'
  <2>1. blocked[p] = {}
    BY <1>1, <1>3, <1>4, Zenon DEF Held
  <2>2. \A q \in Procs : q # p => detail'[q] = detail[q]
    BY <1>1, <1>4, Zenon DEF Types
  <2> QED  BY <1>3, <1>4, <2>1, <2>2, Zenon DEF Safe
<1>5. CASE \E p \in Procs : AttachingPerformAttachToProcess(p) \/ StartAttached(p)
  BY <1>4, <1>5, Zenon DEF AttachingPerformAttachToProcess, AttachingConfigureInterceptingThreads,
                    StartAttached, guest
<1>6. CASE AttachingPauseProcess
  <2>1. /\ active.on /\ harmed' = harmed /\ blocked' = blocked
        /\ \E p \in ByToken(active.token) : detail' = [detail EXCEPT ![p] = [detail[p] EXCEPT !.phase = TRUE]]
    BY <1>6, Zenon DEF AttachingPauseProcess, AttachingConfigureInterceptingThreads, guest
  <2>2. PICK p \in Procs : detail' = [detail EXCEPT ![p] = [detail[p] EXCEPT !.phase = TRUE]]
    BY <2>1, Zenon DEF ByToken
  <2>3. \A q \in Procs : detail'[q].saved = detail[q].saved /\ (detail[q].phase => detail'[q].phase)
    BY <1>1, <2>2, Switched
  <2> QED  BY <1>2, <2>1, <2>3, SafeAlike, Zenon
<1>7. CASE CommandG \/ UdDetachProcess \/ \E kind \in Steps : UdSendStepPacketToDebuggee(kind)
  <2>1. \E kind, t : /\ Prompt /\ active.on
                     /\ UdDispatchUsermodeCommands(kind, active.token, t)
    BY <1>7, Zenon DEF CommandG, UdDetachProcess, UdSendStepPacketToDebuggee
  <2>2. /\ \A q \in Procs : detail'[q].saved = detail[q].saved
        /\ \A q \in Procs : detail[q].phase => q = active.proc /\ cmd'.restore /\ ~checkPf'
        /\ main' = "apply" /\ cmd'.proc = active.proc
        /\ blocked' = blocked /\ harmed' = harmed
    BY <1>1, <2>1, Dispatched, Zenon
  <2> QED  BY <1>3, <2>2, Zenon DEF Safe
<1>8. CASE AttachingKillProcess
  <2> DEFINE p == active.proc
  <2>1. /\ active.on /\ harmed' = harmed /\ blocked' = [blocked EXCEPT ![p] = {}]
        /\ AttachingRemoveProcessDebuggingDetails({p})
    BY <1>8, Zenon DEF AttachingKillProcess
  <2>2. p \in Procs
    BY <2>1, ByTokenActive, Zenon
  <2> HIDE DEF p
  <2>3. \A q \in Procs : IF q = p THEN blocked'[q] = {} ELSE blocked'[q] = blocked[q] /\ detail'[q] = detail[q]
    BY <1>1, <2>1, <2>2, Zenon DEF Types, AttachingRemoveProcessDebuggingDetails
  <2> QED  BY <1>3, <2>1, <2>3, Zenon DEF Safe
<1>9. CASE \E t \in Threads : AttachingSwitchProcess(t)
  BY <1>2, <1>9, SafeAlike, Zenon DEF AttachingSwitchProcess, guest
<1>10. CASE UdUninitializeUserDebugger
  <2>1. harmed' = harmed /\ blocked' = blocked /\ \A p \in Procs : blocked[p] = {}
    BY <1>10, Zenon DEF UdUninitializeUserDebugger, Gentle
  <2> QED  BY <2>1, Zenon DEF Safe
<1> QED  BY <1>5, <1>6, <1>7, <1>8, <1>9, <1>10, Zenon DEF Typed

\* The second halves of the commands.
LEMMA PendingSafe ==
  ASSUME Gentle, Inv, Safe, Pending
  PROVE  Safe'
<1>1. Flights /\ Asked /\ Orderly
  BY Zenon DEF Inv, Gentle, Orderly
<1>2. CASE AttachingRemoveHooks \/ StepReturns
  BY <1>2, SafeAlike, Zenon DEF AttachingRemoveHooks, StepReturns, guest, kernel
<1>3. CASE ThreadHolderApplyActionToPausedThreads
  <2>1. PICK targets \in SUBSET Threads, kind \in {"continue", "in", "over"} : AppliedTo(targets, kind)
    BY <1>3, Applied, Zenon
  <2>2. /\ main = "apply" /\ (harmed' => harmed)
        /\ blocked' = [p \in Procs |-> IF p = active.proc /\ cmd.restore THEN Restored(p) ELSE blocked[p]]
    BY <2>1, Zenon DEF AppliedTo
  <2>3. ASSUME NEW p \in Procs
        PROVE  blocked'[p] = {}
    <3>1. blocked[p] \subseteq detail[p].saved /\ (blocked[p] # {} => p = active.proc /\ cmd.restore)
      BY <1>1, <2>2, Zenon DEF Safe, Flights, Calm, Asked
    <3> QED  BY <2>2, <3>1, Zenon DEF Restored
  <2> QED  BY <2>2, <2>3, Zenon DEF Safe
<1>4. CASE AttachingPerformDetach
  <2>1. main = "detach" /\ harmed' = harmed /\ blocked' = blocked
    BY <1>4, Zenon DEF AttachingPerformDetach, guest
  <2>2. \A p \in Procs : blocked[p] = {}
    BY <1>1, <2>1, Zenon DEF Safe, Flights, Calm
  <2> QED  BY <2>1, <2>2, Zenon DEF Safe
<1> QED  BY <1>2, <1>3, <1>4, Zenon DEF Pending

LEMMA NextSafe ==
  ASSUME Gentle, Inv, Safe, [Next]_vars
  PROVE  Safe'
<1>1. CASE UNCHANGED vars \/ UdHandleUserDebuggerPausing
  BY <1>1, SafeAlike, Zenon DEF vars, guest, kernel, host, UdHandleUserDebuggerPausing
<1>2. CASE \E c \in Cores, t \in Threads, k \in 1..NCr3 : Dispatch(c, t, k)
  BY <1>2, CoreSafe, Zenon
<1>3. CASE \E c \in Cores : Preempt(c)
  BY <1>3, CoreSafe, Zenon
<1>4. CASE \E c \in Cores : ThreadStep(c)
  <2> SUFFICES ASSUME NEW c \in Cores, ThreadStep(c)
               PROVE  Safe'
    BY <1>4, Zenon
  <2>1. CASE PebAccess(c) \/ EntrypointPagedOut(c)
    BY <2>1, SafeAlike, Zenon DEF PebAccess, EntrypointPagedOut, guest, kernel, host
  <2>2. CASE UdCheckForCommand(c)
    BY <2>2, SafeAlike, Zenon DEF UdCheckForCommand, host
  <2> QED  BY <2>1, <2>2, CatchSafe, Zenon DEF ThreadStep
<1> QED  BY <1>1, <1>2, <1>3, <1>4, TypedSafe, PendingSafe, Zenon DEF Next

\* If nothing crosses anything and a process has no more page tables than
\* AttachingHandleCr3Events has slots for (MAX_CR3_IN_A_PROCESS): no debuggee
\* sees a fault or a trap that the debugger provoked, and the kernel is never
\* asked to act on a thread it has no details of.
THEOREM DebuggeeNoticesNothing ==
  ASSUME Gentle
  PROVE  Spec => []DebuggeeUnharmed
<1>1. Orderly
  BY Zenon DEF Gentle, Orderly
<1>2. Init => Safe
  BY Zenon DEF Init, Safe
<1>3. Inv /\ Safe /\ [Next]_vars => Safe'
  BY NextSafe, Zenon
<1>4. Safe => DebuggeeUnharmed
  BY Zenon DEF Safe, DebuggeeUnharmed
<1>5. Spec => []Inv
  BY <1>1, UserDebuggerInv, Zenon
<1> QED  BY <1>2, <1>3, <1>4, <1>5, PTL DEF Spec
=============================================================================
