---------------------------- MODULE ScriptEngine ----------------------------
(* The script compiler of script-engine.c: what CodeGen does to the semantic *)
(* stack, the code buffer, the map of temporaries and the table of           *)
(* identifiers for each semantic rule the two parsers meet.                  *)
(*                                                                           *)
(* The tables of the LL(1) and LALR parsers are generated files; a script is *)
(* given by the sequence of operands and rules its productions make the      *)
(* parsers emit (see ScriptSource).  A token and a symbol of the code buffer *)
(* have the same shape: a kind, a number and a name.  Addresses count from 0 *)
(* as in the code; code[a + 1] is the symbol at address a.                   *)
EXTENDS Integers, Sequences, FiniteSets

CONSTANT MaxTemps \* the length of TempMap

Token(t, n, s) == [t |-> t, n |-> n, s |-> s]
Num(n) == Token("num", n, "")
Id(x) == Token("id", 0, x)
Unresolved(x) == Token("unresolved", 0, x)
Reg(r) == Token("reg", 0, r)
PseudoReg(p) == Token("pseudo", 0, p)
Temp(i) == Token("temp", i, "")
Format(placeholders) == Token("str", placeholders, "")
Count(n) == Token("count", n, "")
Mark(m) == Token("rule", 0, m)
Op(f) == Token("op", 0, f)

(* A jump target that is still to be filled in. *)
Unpatched == -1

(* The functions and operators, by the shape CodeGen gives them. *)
OneOpFunc1 == {"poi", "db", "dd", "dw", "dq", "neg", "hi", "low", "not", "check_address",
               "interlocked_increment", "interlocked_decrement", "reference"}
OneOpFunc2 == {"print", "formats", "event_enable", "event_disable", "test_statement",
               "spinlock_lock", "spinlock_unlock"}
ZeroOpFunc1 == {"pause", "flush", "event_ignore"}
TwoOpFunc1 == {"ed", "eb", "eq", "interlocked_exchange", "interlocked_exchange_add"}
TwoOpFunc2 == {"spinlock_lock_custom_wait"}
ThreeOpFunc1 == {"interlocked_compare_exchange"}
OperatorsTwoOperand == {"or", "xor", "and", "asr", "asl", "add", "sub", "mul", "div", "mod",
                        "gt", "lt", "egt", "elt", "equal", "neq"}
OperatorsOneOperand == {"inc", "dec"}

-----------------------------------------------------------------------------
(* The compiler's state: stack is MatchedStack, code the CodeBuffer, temps   *)
(* the used entries of TempMap, ids the names of IdTable.  "corrupt" is what *)
(* the code does when a token that is no address is patched as one, or the   *)
(* empty stack is popped: it writes through a meaningless index.             *)
Fresh(temps, ids) == [stack |-> <<>>, code |-> <<>>, temps |-> temps, ids |-> ids, error |-> "none"]

Pointer(g) == Len(g.code)

Nth(g, k) == g.stack[Len(g.stack) - k]

Below(g, k) == SubSeq(g.stack, 1, Len(g.stack) - k)

(* NewTemp takes the first free entry. *)
FreeTemps(g) == (0 .. MaxTemps - 1) \ g.temps
NewTemp(g) == IF FreeTemps(g) = {} THEN Temp(MaxTemps - 1)
              ELSE Temp(CHOOSE i \in FreeTemps(g) : \A j \in FreeTemps(g) : i <= j)

FreeTemp(temps, token) == temps \ (IF token.t = "temp" THEN {token.n} ELSE {})

(* The first error is the one reported. *)
Fail(g, error) == [g EXCEPT !.error = IF @ = "none" THEN error ELSE @]

Unknown(tokens) == \E i \in DOMAIN tokens : tokens[i].t = "unresolved"

(* Pop the k operands, Op0 first, emit the operator, the operands and, if it *)
(* has one, a fresh temporary for the result; free the operands that are     *)
(* temporaries.                                                              *)
Apply(g, op, k, result, frees) ==
  LET operands == [i \in 1 .. k |-> Nth(g, i - 1)]
      des == IF result THEN <<NewTemp(g)>> ELSE <<>>
      taken == g.temps \cup {des[i].n : i \in DOMAIN des}
      Freed[i \in 0 .. k] == IF i = 0 THEN taken ELSE FreeTemp(Freed[i - 1], operands[i])
      h == [g EXCEPT !.stack = Below(g, k) \o des,
                     !.code = @ \o <<Op(op)>> \o operands \o des,
                     !.temps = IF frees THEN Freed[k] ELSE taken]
  IN  CASE Unknown(operands) -> Fail(h, "unresolved")
        [] result /\ FreeTemps(g) = {} -> Fail(h, "temps")
        [] OTHER -> h

(* @MOV: the destination is the deeper operand; a name met for the first     *)
(* time enters the table, also when the value is in error.                   *)
Mov(g) ==
  LET value == Nth(g, 0)
      des == Nth(g, 1)
      h == [g EXCEPT !.stack = Below(g, 2),
                     !.ids = @ \cup (IF des.t = "unresolved" THEN {des.s} ELSE {}),
                     !.code = @ \o <<Op("mov"), value, IF des.t = "unresolved" THEN Id(des.s) ELSE des>>,
                     !.temps = FreeTemp(FreeTemp(@, value), des)]
  IN  IF Unknown(<<value>>) THEN Fail(h, "unresolved") ELSE h

(* Where the last of the given markers is; 0 if it is not on the stack. *)
LastMark(g, marks) ==
  LET at == {i \in DOMAIN g.stack : g.stack[i].t = "rule" /\ g.stack[i].s \in marks}
  IN  IF at = {} THEN 0 ELSE CHOOSE i \in at : \A j \in at : j <= i

Above(g, i) == SubSeq(g.stack, i + 1, Len(g.stack))

(* A string takes the symbols its header and its characters fill: each       *)
(* placeholder of the modelled formats takes five characters.                *)
GetStringSymbolSize(placeholders) == (8 + 5 * placeholders) \div 16 + 1

(* printf: the arguments pushed since @VARGSTART, then the format; one       *)
(* argument for each placeholder.                                            *)
Printf(g) ==
  LET i == LastMark(g, {"@VARGSTART"})
      format == g.stack[i - 1]
      args == Above(g, i)
      h == [g EXCEPT !.stack = SubSeq(@, 1, i - 2),
                     !.temps = {t \in @ : \A a \in DOMAIN args : args[a] # Temp(t)},
                     !.code = @ \o <<Op("printf")>>
                                \o [j \in 1 .. GetStringSymbolSize(format.n) |-> format]
                                \o <<Count(Len(args))>> \o args]
  IN  CASE Unknown(args) -> Fail(h, "unresolved")
        [] Len(args) # format.n -> Fail(h, "syntax")
        [] OTHER -> h

-----------------------------------------------------------------------------
(* Jumps.  The address tokens on the stack say where a target is to be       *)
(* filled in once it is known.                                               *)
Patch(code, address, target) ==
  IF address + 1 \in DOMAIN code THEN [code EXCEPT ![address + 1] = Num(target)] ELSE code

(* Fill in every token above i with the code's end, offset symbols further. *)
PatchAbove(g, i, offset) ==
  LET tokens == Above(g, i)
      Patched[k \in 0 .. Len(tokens)] ==
        IF k = 0 THEN g.code ELSE Patch(Patched[k - 1], tokens[k].n + offset, Pointer(g))
      h == [g EXCEPT !.stack = SubSeq(@, 1, i - 1), !.code = Patched[Len(tokens)]]
  IN  IF \E k \in DOMAIN tokens : tokens[k].t # "num" THEN Fail(h, "corrupt") ELSE h

PushMark(g, m) == [g EXCEPT !.stack = Append(@, Mark(m))]

(* @JZ: the condition's target stays open; its place is two symbols before   *)
(* the address pushed.                                                       *)
Jz(g) ==
  LET condition == Nth(g, 0)
      h == [g EXCEPT !.code = @ \o <<Op("jz"), Num(Unpatched), condition>>,
                     !.temps = FreeTemp(@, condition)]
      k == [h EXCEPT !.stack = Append(Below(g, 1), Num(Pointer(h)))]
  IN  IF Unknown(<<condition>>) THEN Fail(k, "unresolved") ELSE k

(* @JMP_TO_END_AND_JZCOMPLETED: a failed condition continues behind the jump *)
(* that leaves the arm.                                                      *)
JmpToEndAndJzCompleted(g) ==
  [g EXCEPT !.code = Patch(@, Nth(g, 0).n - 2, Pointer(g) + 2) \o <<Op("jmp"), Num(Unpatched)>>,
            !.stack = Append(Below(g, 1), Num(Pointer(g)))]

EndOfIf(g) == PatchAbove(g, LastMark(g, {"@START_OF_IF"}), 1)

(* @START_OF_WHILE, @START_OF_DO_WHILE and @START_OF_FOR remember where the  *)
(* loop starts.                                                              *)
StartOfLoop(g, m) == [PushMark(g, m) EXCEPT !.stack = Append(@, Num(Pointer(g)))]

StartOfWhileCommands(g) ==
  LET condition == Nth(g, 0)
      h == [g EXCEPT !.stack = Below(g, 2) \o <<Num(Pointer(g) + 1), Nth(g, 1)>>,
                     !.code = @ \o <<Op("jz"), Num(Unpatched), condition>>,
                     !.temps = FreeTemp(@, condition)]
  IN  IF Unknown(<<condition>>) THEN Fail(h, "unresolved") ELSE h

EndOfWhile(g) ==
  LET h == [g EXCEPT !.code = @ \o <<Op("jmp"), Nth(g, 0)>>, !.stack = Below(g, 1)]
  IN  PatchAbove(h, LastMark(h, {"@START_OF_WHILE"}), 0)

(* The loop's start is the token right above its marker. *)
EndOfDoWhile(g) ==
  LET condition == Nth(g, 0)
      i == LastMark(g, {"@START_OF_DO_WHILE"})
      h == [g EXCEPT !.code = @ \o <<Op("jnz"), Nth(g, 1), condition>>,
                     !.stack = Below(g, 2),
                     !.temps = FreeTemp(@, condition)]
      k == PatchAbove(h, i, 0)
  IN  IF Unknown(<<condition>>) THEN Fail(k, "unresolved") ELSE k

(* @FOR_INC_DEC: leave the loop or jump over the increment that follows; the *)
(* condition's temporary is not given back.                                  *)
ForIncDec(g) ==
  LET condition == Nth(g, 0)
      h == [g EXCEPT !.code = @ \o <<Op("jz"), Num(Unpatched), condition, Op("jmp"), Num(Unpatched)>>]
      k == [h EXCEPT !.stack = Below(g, 2) \o <<Num(Pointer(h)), Nth(g, 1)>>]
  IN  IF Unknown(<<condition>>) THEN Fail(k, "unresolved") ELSE k

(* @START_OF_FOR_COMMANDS: the increment jumps back to the condition, and    *)
(* the jump over it lands here.                                              *)
StartOfForCommands(g) ==
  LET increment == Nth(g, 1)
      code == g.code \o <<Op("jmp"), Nth(g, 0)>>
  IN  [g EXCEPT !.code = Patch(code, increment.n - 1, Len(code)),
                !.stack = Below(g, 2) \o <<Num(increment.n - 4), Mark("@INC_DEC"), increment>>]

EndOfFor(g) ==
  LET h == [g EXCEPT !.code = @ \o <<Op("jmp"), Nth(g, 0)>>, !.stack = Below(g, 2)]
  IN  PatchAbove(h, LastMark(h, {"@START_OF_FOR"}), 0)

(* @BREAK: a jump whose address goes right above the marker of the innermost *)
(* loop, below whatever the loop has pushed since.                           *)
Break(g) ==
  LET i == LastMark(g, {"@START_OF_FOR", "@START_OF_WHILE", "@START_OF_DO_WHILE"})
  IN  CASE g.stack = <<>> -> Fail(g, "corrupt")
        [] i = 0 -> Fail(g, "syntax")
        [] OTHER -> [g EXCEPT !.stack = SubSeq(@, 1, i) \o <<Num(Pointer(g) + 1)>> \o Above(g, i),
                              !.code = @ \o <<Op("jmp"), Num(Unpatched)>>]

(* @CONTINUE: jump to the increment of the innermost for.  The tokens above  *)
(* its address are moved away and back; when there is none, the loop that    *)
(* moves them back pops the empty list and pushes the address once more.     *)
Continue(g) ==
  LET i == LastMark(g, {"@INC_DEC"})
      tokens == Above(g, i)
      moved == IF Len(tokens) = 1 THEN tokens ELSE Tail(tokens)
  IN  CASE g.stack = <<>> -> Fail(g, "corrupt")
        [] i = 0 -> Fail(g, "syntax")
        [] OTHER -> [g EXCEPT !.stack = SubSeq(@, 1, i) \o <<tokens[1]>> \o moved,
                              !.code = @ \o <<Op("jmp"), tokens[1]>>]

-----------------------------------------------------------------------------
(* CodeGen for one semantic rule. *)
CodeGen(g, rule) ==
  CASE rule = "@MOV" -> Mov(g)
    [] rule \in OneOpFunc2 -> Apply(g, rule, 1, FALSE, FALSE)
    [] rule \in OneOpFunc1 -> Apply(g, rule, 1, TRUE, TRUE)
    [] rule = "printf" -> Printf(g)
    [] rule \in ZeroOpFunc1 -> Apply(g, rule, 0, FALSE, FALSE)
    [] rule = "@IGNORE_LVALUE" -> [g EXCEPT !.stack = Below(g, 1)]
    [] rule \in TwoOpFunc1 \cup OperatorsTwoOperand -> Apply(g, rule, 2, TRUE, TRUE)
    [] rule \in TwoOpFunc2 -> Apply(g, rule, 2, FALSE, TRUE)
    [] rule \in ThreeOpFunc1 -> Apply(g, rule, 3, TRUE, TRUE)
    [] rule \in OperatorsOneOperand -> Apply(g, rule, 1, FALSE, TRUE)
    [] rule \in {"@VARGSTART", "@START_OF_IF"} -> PushMark(g, rule)
    [] rule = "@JZ" -> Jz(g)
    [] rule = "@JMP_TO_END_AND_JZCOMPLETED" -> JmpToEndAndJzCompleted(g)
    [] rule = "@END_OF_IF" -> EndOfIf(g)
    [] rule \in {"@START_OF_WHILE", "@START_OF_DO_WHILE", "@START_OF_FOR"} -> StartOfLoop(g, rule)
    [] rule = "@START_OF_WHILE_COMMANDS" -> StartOfWhileCommands(g)
    [] rule = "@END_OF_WHILE" -> EndOfWhile(g)
    [] rule = "@END_OF_DO_WHILE" -> EndOfDoWhile(g)
    [] rule = "@FOR_INC_DEC" -> ForIncDec(g)
    [] rule = "@START_OF_FOR_COMMANDS" -> StartOfForCommands(g)
    [] rule = "@END_OF_FOR" -> EndOfFor(g)
    [] rule = "@BREAK" -> Break(g)
    [] rule = "@CONTINUE" -> Continue(g)

(* The scanner decides whether a name is known when it reads it. *)
ScanTrusting(g, token) == token

Scan(g, token) ==
  IF token.t = "id" /\ token.s \notin g.ids THEN Unresolved(token.s) ELSE token

(* What the parsers do with one operand or rule of the script; the first     *)
(* error ends the parse, and only then is the map of temporaries cleared.    *)
ParseStep(g, item) ==
  LET h == IF item.t = "rule" THEN CodeGen(g, item.s) ELSE [g EXCEPT !.stack = Append(@, Scan(g, item))]
  IN  IF h.error = "none" THEN h ELSE [h EXCEPT !.temps = {}]
=============================================================================
