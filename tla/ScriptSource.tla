---------------------------- MODULE ScriptSource ----------------------------
(* Scripts as they are written.  Items lists the operands and the semantic   *)
(* rules the grammar makes the parsers meet, WellFormed is what a script     *)
(* needs to be accepted, and Run is its meaning, statement by statement.     *)
(*                                                                           *)
(* A script is a sequence of statements:                                     *)
(*   [k |-> "set", x, e]  [k |-> "inc" or "dec", x]  [k |-> "call", f, args] *)
(*   [k |-> "printf", n, args]  [k |-> "if", arms, else]                     *)
(*   [k |-> "while", c, body]  [k |-> "do", c, body]                         *)
(*   [k |-> "for", init, c, step, body]  [k |-> "break"]  [k |-> "continue"] *)
(* where an arm is a condition c and a body, and x is an identifier or a     *)
(* register; an expression is a token or [k |-> "op", f, args].              *)
EXTENDS ScriptEval

Is(e, kind) == "k" \in DOMAIN e /\ e.k = kind

ResultFunctions == OneOpFunc1 \cup TwoOpFunc1 \cup ThreeOpFunc1

Flat(seqs) ==
  LET F[i \in 0 .. Len(seqs)] == IF i = 0 THEN <<>> ELSE F[i - 1] \o seqs[i] IN F[Len(seqs)]

Each(s, F(_)) == Flat([i \in DOMAIN s |-> F(s[i])])

RECURSIVE ItemsOf(_)
ItemsOf(e) ==
  IF Is(e, "op") THEN Each(e.args, ItemsOf) \o <<Mark(e.f)>> ELSE <<e>>

(* The productions of STATEMENT. *)
RECURSIVE Items(_)
Items(s) ==
  LET Body(b) == Each(b, Items)
      Arm(i) == (IF i = 1 THEN <<Mark("@START_OF_IF")>> ELSE <<Mark("@JMP_TO_END_AND_JZCOMPLETED")>>)
                \o ItemsOf(s.arms[i].c) \o <<Mark("@JZ")>> \o Body(s.arms[i].body)
  IN  CASE s.k = "set" -> <<s.x>> \o ItemsOf(s.e) \o <<Mark("@MOV")>>
        [] s.k \in {"inc", "dec"} -> <<s.x, Mark(s.k)>>
        [] s.k = "call" -> Each(s.args, ItemsOf) \o <<Mark(s.f)>>
                           \o (IF s.f \in ResultFunctions THEN <<Mark("@IGNORE_LVALUE")>> ELSE <<>>)
        [] s.k = "printf" -> <<Format(s.n), Mark("@VARGSTART")>> \o Each(s.args, ItemsOf) \o <<Mark("printf")>>
        [] s.k = "if" -> Flat([i \in DOMAIN s.arms |-> Arm(i)])
                         \o <<Mark("@JMP_TO_END_AND_JZCOMPLETED")>> \o Body(s.else) \o <<Mark("@END_OF_IF")>>
        [] s.k = "while" -> <<Mark("@START_OF_WHILE")>> \o ItemsOf(s.c)
                            \o <<Mark("@START_OF_WHILE_COMMANDS")>> \o Body(s.body) \o <<Mark("@END_OF_WHILE")>>
        [] s.k = "do" -> <<Mark("@START_OF_DO_WHILE")>> \o Body(s.body) \o ItemsOf(s.c)
                         \o <<Mark("@END_OF_DO_WHILE")>>
        [] s.k = "for" -> Items(s.init) \o <<Mark("@START_OF_FOR")>> \o ItemsOf(s.c) \o <<Mark("@FOR_INC_DEC")>>
                          \o Items(s.step) \o <<Mark("@START_OF_FOR_COMMANDS")>> \o Body(s.body)
                          \o <<Mark("@END_OF_FOR")>>
        [] s.k = "break" -> <<Mark("@BREAK")>>
        [] s.k = "continue" -> <<Mark("@CONTINUE")>>

ItemsOfScript(script) == Each(script, Items)

-----------------------------------------------------------------------------
(* What a script needs to compile: every name is assigned somewhere above    *)
(* its use, printf has an argument for each placeholder, break is in a loop  *)
(* and continue in a for loop.  Known is the set of names after the          *)
(* statements, {"?"} added when one of them is in error.                     *)
RECURSIVE Names(_)
Names(e) == IF Is(e, "op") THEN UNION {Names(e.args[i]) : i \in DOMAIN e.args}
            ELSE IF e.t = "id" THEN {e.s} ELSE {}

NamesOfAll(args) == UNION {Names(args[i]) : i \in DOMAIN args}

RECURSIVE Known(_, _, _)
Known(stmts, ids, loops) ==
  IF stmts = <<>> \/ "?" \in ids THEN ids
  ELSE LET s == Head(stmts)
           Needs(names, then) == IF names \subseteq ids THEN then ELSE ids \cup {"?"}
           Arms[i \in 0 .. Len(s.arms)] ==
             IF i = 0 THEN ids
             ELSE IF Names(s.arms[i].c) \subseteq Arms[i - 1] THEN Known(s.arms[i].body, Arms[i - 1], loops)
                  ELSE {"?"}
           after ==
             CASE s.k = "set" -> Needs(Names(s.e), ids \cup Names(s.x))
               [] s.k \in {"inc", "dec"} -> Needs(Names(s.x), ids)
               [] s.k = "call" -> Needs(NamesOfAll(s.args), ids)
               [] s.k = "printf" -> Needs(NamesOfAll(s.args), IF Len(s.args) = s.n THEN ids ELSE {"?"})
               [] s.k = "if" -> Known(s.else, Arms[Len(s.arms)], loops)
               [] s.k = "while" -> Needs(Names(s.c), Known(s.body, ids, loops \cup {"loop"}))
               [] s.k = "do" -> LET b == Known(s.body, ids, loops \cup {"loop"})
                                IN  IF Names(s.c) \subseteq b THEN b ELSE {"?"}
               [] s.k = "for" -> LET i == Known(<<s.init>>, ids, loops)
                                 IN  IF Names(s.c) \subseteq i
                                     THEN Known(s.body, Known(<<s.step>>, i, loops), loops \cup {"loop", "for"})
                                     ELSE {"?"}
               [] s.k = "break" -> IF "loop" \in loops THEN ids ELSE {"?"}
               [] s.k = "continue" -> IF "for" \in loops THEN ids ELSE {"?"}
       IN  Known(Tail(stmts), after, loops)

WellFormed(script, ids) == "?" \notin Known(script, ids, {})

-----------------------------------------------------------------------------
(* The meaning of a script on a core k: r is the core, the memory and why    *)
(* the statements stopped ("" when they did not, "error" when the script     *)
(* failed, "fuel" when it did not end in the steps it was given).            *)
RECURSIVE Value(_, _, _)
WithValue(a, r) == [vs |-> Append(a.vs, r.v), mem |-> r.mem, err |-> r.err]

Values(args, k, mem) ==
  LET V[i \in 0 .. Len(args)] ==
        IF i = 0 THEN [vs |-> <<>>, mem |-> mem, err |-> FALSE]
        ELSE IF V[i - 1].err THEN V[i - 1]
        ELSE WithValue(V[i - 1], Value(args[i], k, V[i - 1].mem))
  IN  V[Len(args)]

(* What a function is to return: dd a dword and dw a word.                   *)
Meant(f, vs, mem) ==
  IF f \in {"dd", "dw"} /\ vs[1] \in Mapped
  THEN Done(mem[vs[1]] % (IF f = "dd" THEN Dword ELSE Word), mem)
  ELSE Compute(f, vs, mem)

Applied(f, a) == IF a.err THEN Bad(a.mem) ELSE Meant(f, a.vs, a.mem)

Value(e, k, mem) ==
  CASE ~ Is(e, "op") -> Done(GetValue(k, mem, e), mem)
    [] Is(e, "op") /\ e.f = "reference" -> Done(AddressOf[e.args[1].s], mem)
    [] OTHER -> Applied(e.f, Values(e.args, k, mem))

Outcome(k, mem, why) == [k |-> k, mem |-> mem, why |-> why]

(* A call made for its effect, with the arguments a. *)
Effect(f, a, k) ==
  CASE a.err -> Outcome(k, a.mem, "error")
    [] ~ a.err /\ f \in ResultFunctions \ {"reference"} ->
         LET r == Meant(f, a.vs, a.mem) IN Outcome(k, r.mem, IF r.err THEN "error" ELSE "")
    [] ~ a.err /\ f \in {"spinlock_lock", "spinlock_unlock"} \cup TwoOpFunc2 ->
         IF a.vs[1] \notin Mapped THEN Outcome(k, a.mem, "error")
         ELSE Outcome(k, [a.mem EXCEPT ![a.vs[1]] = IF f = "spinlock_unlock" THEN 0 ELSE 1], "")
    [] OTHER -> Outcome([k EXCEPT !.out = Append(@, <<f>> \o a.vs)], a.mem, "")

(* The value r is stored in x. *)
Store(x, r, k) ==
  IF r.err THEN Outcome(k, r.mem, "error")
  ELSE LET w == SetValue(k, r.mem, x, r.v) IN Outcome(w.k, w.mem, "")

RECURSIVE Run(_, _, _, _)
Then(r, next, fuel) == IF r.why # "" THEN r ELSE Run(next, r.k, r.mem, fuel)

RunIf(v, yes, no, k, fuel) ==
  IF v.err THEN Outcome(k, v.mem, "error") ELSE Run(IF v.v # 0 THEN yes ELSE no, k, v.mem, fuel)

(* After a loop's body: again, or out. *)
RunLoop(r, again, fuel) ==
  CASE r.why = "break" -> Outcome(r.k, r.mem, "")
    [] r.why \in {"", "continue"} -> Run(again, r.k, r.mem, fuel)
    [] OTHER -> r

RunWhile(v, body, again, k, fuel) ==
  CASE v.err -> Outcome(k, v.mem, "error")
    [] ~ v.err /\ v.v = 0 -> Outcome(k, v.mem, "")
    [] OTHER -> RunLoop(Run(body, k, v.mem, fuel), again, fuel)

RunFirst(s, k, mem, fuel) ==
  CASE s.k = "set" -> Store(s.x, Value(s.e, k, mem), k)
    [] s.k \in {"inc", "dec"} ->
         Store(s.x, Done((GetValue(k, mem, s.x) + (IF s.k = "inc" THEN 1 ELSE -1)) % Qword, mem), k)
    [] s.k \in {"call", "printf"} ->
         Effect(IF s.k = "call" THEN s.f ELSE "printf", Values(s.args, k, mem), k)
    [] s.k = "if" ->
         RunIf(Value(s.arms[1].c, k, mem), s.arms[1].body,
               IF Len(s.arms) = 1 THEN s.else ELSE <<[s EXCEPT !.arms = Tail(@)]>>, k, fuel)
    [] s.k = "while" -> RunWhile(Value(s.c, k, mem), s.body, <<s>>, k, fuel)
    [] s.k = "do" -> RunLoop(Run(s.body, k, mem, fuel),
                             <<[k |-> "if", arms |-> <<[c |-> s.c, body |-> <<s>>]>>, else |-> <<>>]>>, fuel)
    [] s.k = "for" -> Run(<<s.init, [k |-> "again", of |-> s]>>, k, mem, fuel)
    [] s.k = "again" -> RunWhile(Value(s.of.c, k, mem), s.of.body, <<s.of.step, s>>, k, fuel)
    [] OTHER -> Outcome(k, mem, s.k)

Run(stmts, k, mem, fuel) ==
  CASE stmts = <<>> -> Outcome(k, mem, "")
    [] stmts # <<>> /\ fuel = 0 -> Outcome(k, mem, "fuel")
    [] OTHER -> Then(RunFirst(Head(stmts), k, mem, fuel - 1), Tail(stmts), fuel - 1)
=============================================================================
