------------------------------- MODULE Script -------------------------------
(* Scripts from the text to their effect: the controller compiles one after  *)
(* the other, with a table of identifiers and a map of temporaries that      *)
(* outlive each script, and the driver runs the code on the cores on which   *)
(* the event happens, each with its own local variables, temporaries and     *)
(* registers, all with the same global variables and memory.                 *)
EXTENDS ScriptSource

CONSTANTS Cores,
          Locals,     \* names of local variables
          Scripts,    \* the scripts: their text and the cores that run them
          Later,      \* the scripts that may follow another one
          MaxScripts, \* how many are compiled in a row
          Fuel        \* statements after which a script counts as endless

VARIABLES mode,   \* "idle", "parse", "refused" or "run"
          script, \* which script
          items,  \* what the parsers have still to meet of it
          gen,    \* the compiler
          core,   \* the cores
          mem,
          before, \* cores and memory when the script was given, and whether it is well formed
          given   \* how many scripts have been

vars == <<mode, script, items, gen, core, mem, before, given>>

(* A temporary holds whatever an earlier script has left in it. *)
Stale == Qword - 1

Start(k) == [k EXCEPT !.pc = 0, !.out = <<>>, !.err = FALSE, !.tmp = [i \in 0 .. MaxTemps - 1 |-> Stale]]

Init ==
  /\ mode = "idle"
  /\ script = [text |-> <<>>, cores |-> {}]
  /\ items = <<>>
  /\ gen = Fresh({}, {})
  /\ core = [c \in Cores |->
       [id |-> c, pc |-> 0, loc |-> [x \in Locals |-> 0],
        reg |-> [r \in Registers |-> IF r \in {"rflags"} \cup GuestSelectors THEN 2 ELSE 165],
        tmp |-> [i \in 0 .. MaxTemps - 1 |-> Stale], out |-> <<>>, held |-> <<>>, err |-> FALSE]]
  /\ mem = [a \in Mapped |-> 0]
  /\ before = [core |-> core, mem |-> mem, sound |-> TRUE]
  /\ given = 0

(* ScriptEngineParse: the operands and rules one after the other. *)
ScriptEngineParse(s) ==
  /\ mode = "idle"
  /\ mode' = "parse"
  /\ script' = s
  /\ items' = ItemsOfScript(s.text)
  /\ gen' = Fresh(gen.temps, gen.ids)
  /\ core' = [c \in Cores |-> Start(core[c])]
  /\ before' = [core |-> core', mem |-> mem, sound |-> WellFormed(s.text, gen.ids)]
  /\ given' = given + 1
  /\ UNCHANGED mem

Parse ==
  /\ mode = "parse"
  /\ items # <<>>
  /\ gen' = ParseStep(gen, Head(items))
  /\ items' = IF gen'.error = "none" THEN Tail(items) ELSE <<>>
  /\ mode' = IF gen'.error = "none" THEN "parse" ELSE "refused"
  /\ UNCHANGED <<script, core, mem, before, given>>

(* An error: the message is shown and nothing runs. *)
HandleError ==
  /\ mode = "refused"
  /\ mode' = "idle"
  /\ UNCHANGED <<script, items, gen, core, mem, before, given>>

Parsed ==
  /\ mode = "parse"
  /\ items = <<>>
  /\ mode' = "run"
  /\ UNCHANGED <<script, items, gen, core, mem, before, given>>

(* DebuggerPerformRunScript: until an error or the end of the code. *)
Over(c) == core[c].err \/ core[c].pc >= Len(gen.code)

DebuggerPerformRunScript(c) ==
  /\ mode = "run"
  /\ c \in script.cores
  /\ ~ Over(c)
  /\ ~ Spins(core[c], mem, gen.code)
  /\ LET r == Execute(core[c], mem, gen.code)
     IN  core' = [core EXCEPT ![c] = r.k] /\ mem' = r.mem
  /\ UNCHANGED <<mode, script, items, gen, before, given>>

Ended == mode = "run" /\ \A c \in script.cores : Over(c)

End ==
  /\ Ended
  /\ mode' = "idle"
  /\ UNCHANGED <<script, items, gen, core, mem, before, given>>

Offered == IF given = 0 THEN Scripts ELSE IF given < MaxScripts THEN Later ELSE {}

Next ==
  \/ mode = "idle" /\ \E s \in Offered : ScriptEngineParse(s)
  \/ Parse
  \/ HandleError
  \/ Parsed
  \/ \E c \in Cores : DebuggerPerformRunScript(c)
  \/ End

Spec == Init /\ [][Next]_vars

(* The parser and every core go on. *)
FairSpec ==
  /\ Spec
  /\ WF_vars(Parse \/ HandleError \/ Parsed \/ End)
  /\ \A c \in Cores : WF_vars(DebuggerPerformRunScript(c))

-----------------------------------------------------------------------------
(* Every variable, register and memory cell holds a value of its width, and  *)
(* the compiler's tables name what exists (ScriptEngineExecute's results are *)
(* UINT64).                                                                  *)
TypeOK ==
  /\ mode \in {"idle", "parse", "refused", "run"}
  /\ script.cores \subseteq Cores
  /\ gen.temps \subseteq 0 .. MaxTemps - 1
  /\ gen.ids \subseteq Locals \cup DOMAIN AddressOf
  /\ gen.error \in {"none", "unresolved", "syntax", "temps", "corrupt"}
  /\ mem \in [Mapped -> 0 .. Qword - 1]
  /\ \A c \in Cores : /\ core[c].loc \in [Locals -> 0 .. Qword - 1]
                      /\ core[c].reg \in [Registers -> 0 .. Qword - 1]
                      /\ core[c].tmp \in [0 .. MaxTemps - 1 -> 0 .. Qword - 1]
                      /\ core[c].err \in BOOLEAN

(* The compiler refuses a script exactly when the script reads a name that   *)
(* no statement above has assigned, gives printf another number of arguments *)
(* than placeholders or breaks out of no loop, whatever was compiled before  *)
(* it; and it never patches a token that is no address (ScriptEngineParse,   *)
(* ToSymbol, the @BREAK and @CONTINUE of CodeGen).                           *)
AcceptsWellFormed ==
  /\ mode = "refused" => ~ before.sound /\ gen.error # "corrupt"
  /\ mode = "run" => before.sound

Orders(s) == {o \in [1 .. Cardinality(s) -> s] : \A i, j \in DOMAIN o : o[i] = o[j] => i = j}

(* The script as written, on the cores one after the other: after core c. *)
After(m, c, r) ==
  [core |-> [m.core EXCEPT ![c] = [r.k EXCEPT !.err = r.why = "error"]],
   mem |-> r.mem,
   endless |-> m.endless \/ r.why = "fuel"]

Meaning(order) ==
  LET M[i \in 0 .. Len(order)] ==
        IF i = 0 THEN [core |-> before.core, mem |-> before.mem, endless |-> FALSE]
        ELSE After(M[i - 1], order[i],
                   Run(script.text, M[i - 1].core[order[i]], M[i - 1].mem, Fuel))
  IN  M[Len(order)]

Visible(k) == [loc |-> k.loc, reg |-> k.reg, out |-> k.out, err |-> k.err]

Agrees(m) ==
  /\ ~ m.endless
  /\ m.mem = mem
  /\ \A c \in Cores : Visible(m.core[c]) = Visible(core[c])

(* When a script has ended, the variables, the registers, the memory and     *)
(* what was sent to the debugger are what its text says: the compiled code   *)
(* does what the statements mean, whichever temporaries earlier scripts have *)
(* left marked, and when several cores ran it, what they did together is     *)
(* what they would have done one after the other in some order, for scripts  *)
(* that touch what they share with a lock or an interlocked function         *)
(* (CodeGen and ScriptEngineExecute against the source).                     *)
RunsAsWritten ==
  Ended => \E o \in Orders(script.cores) : Agrees(Meaning(o))

Bit(v, i) == (v \div 2 ^ i) % 2

(* Where an instruction that writes its operand or a destination names it. *)
Destination(k, code) ==
  LET op == code[k.pc + 1].s IN IF op \in OperatorsOneOperand THEN code[k.pc + 2] ELSE code[k.pc + 3]

(* A script's write to a register or to a part of one changes no bit outside *)
(* that part: the upper half survives a write to eax, the low byte one to ah *)
(* and the other flags one to zf (SetRegValue).                              *)
WritesOnlyItsView ==
  [][mode = "run" => \A c \in Cores : \A r \in {q \in Registers : core[c].reg[q] # core'[c].reg[q]}, i \in 0 .. 7 :
       Bit(core[c].reg[r], i) # Bit(core'[c].reg[r], i) =>
         LET d == Destination(core[c], gen.code)
         IN  /\ d.t = "reg"
             /\ r \in {View[d.s].of} \cup (IF View[d.s].of = "rsp" THEN {"guest_rsp"} ELSE {})
             /\ 2 ^ i >= View[d.s].low
             /\ 2 ^ i < View[d.s].low * View[d.s].size]_vars

(* A script that was given is refused or comes to its end on every core,     *)
(* also when the cores wait for each other's lock (the loop of               *)
(* DebuggerPerformRunScript, SpinlockLock).                                  *)
ScriptEnds == mode = "parse" ~> mode = "idle"
=============================================================================
