----------------------------- MODULE ScriptEval -----------------------------
(* The evaluator of script-eval: what ScriptEngineExecute does for one       *)
(* instruction of a compiled script on one core, in the driver's build.      *)
(*                                                                           *)
(* Sizes are scaled by eight, so that a BYTE is one bit and a QWORD eight.   *)
(* Memory is a few qwords at separate addresses; the global variables are    *)
(* among them, which is what & needs.  A core's record k has the index of    *)
(* the next symbol, its own local and temporary variables, its registers,    *)
(* what it has sent to the debugger, the value it has read and not yet       *)
(* written back, and whether the script has failed or ended on it.           *)
EXTENDS ScriptEngine, Bitwise, TLC

CONSTANTS Mapped,   \* the addresses CheckMemoryAccessSafety accepts
          Tag,      \* the tag of the event
          AddressOf \* the addresses of the global variables, by name

Byte == 2
Word == 4
Dword == 16
Qword == 256

Bool(b) == IF b THEN 1 ELSE 0

-----------------------------------------------------------------------------
(* A register name is a view of a register: its lowest bit and its width.    *)
(* rflags has only its low eight bits, in their places.                      *)
Part(r, low, size) == [of |-> r, low |-> low, size |-> size]

Halves(r, d, w, l) ==
  (r :> Part(r, 1, Qword)) @@ (d :> Part(r, 1, Dword)) @@ (w :> Part(r, 1, Word)) @@ (l :> Part(r, 1, Byte))

WithHigh(r, d, w, h, l) == Halves(r, d, w, l) @@ (h :> Part(r, Byte, Byte))

Accumulators == WithHigh("rax", "eax", "ax", "ah", "al") @@ WithHigh("rcx", "ecx", "cx", "ch", "cl")
                @@ WithHigh("rdx", "edx", "dx", "dh", "dl") @@ WithHigh("rbx", "ebx", "bx", "bh", "bl")

Pointers == Halves("rsp", "esp", "sp", "spl") @@ Halves("rbp", "ebp", "bp", "bpl")
            @@ Halves("rsi", "esi", "si", "sil") @@ Halves("rdi", "edi", "di", "dil")

R8ToR11 == WithHigh("r8", "r8d", "r8w", "r8h", "r8l") @@ WithHigh("r9", "r9d", "r9w", "r9h", "r9l")
           @@ WithHigh("r10", "r10d", "r10w", "r10h", "r10l") @@ WithHigh("r11", "r11d", "r11w", "r11h", "r11l")

R12ToR15 == WithHigh("r12", "r12d", "r12w", "r12h", "r12l") @@ WithHigh("r13", "r13d", "r13w", "r13h", "r13l")
            @@ WithHigh("r14", "r14d", "r14w", "r14h", "r14l") @@ WithHigh("r15", "r15d", "r15w", "r15h", "r15l")

Flag(bit) == Part("rflags", 2 ^ bit, 2)
Flags == [f \in {"rflags", "eflags", "flags"} |-> Part("rflags", 1, Qword)]
         @@ [cf |-> Flag(0), pf |-> Flag(2), af |-> Flag(4), zf |-> Flag(6), sf |-> Flag(7)]

(* The registers the processor keeps for the guest or leaves to it.  What a  *)
(* script writes to one is taken to be a value the processor accepts.        *)
Whole(rs) == [r \in rs |-> Part(r, 1, Qword)]
Selectors(rs) == [r \in rs |-> Part(r, 1, Word)]
GuestSelectors == {"cs", "ss", "ds", "fs", "gs", "es"}
GuestTables == {"idtr", "ldtr", "gdtr", "tr"}
GuestControlRegisters == {"cr0", "cr2", "cr3", "cr4", "cr8"}
GuestDebugRegisters == {"dr0", "dr1", "dr2", "dr3", "dr6", "dr7"}

InstructionPointers == [rip |-> Part("rip", 1, Qword), eip |-> Part("rip", 1, Dword), ip |-> Part("rip", 1, Word)]

View == Accumulators @@ Pointers @@ R8ToR11 @@ R12ToR15 @@ Flags @@ InstructionPointers
        @@ Selectors(GuestSelectors) @@ Whole(GuestTables \cup GuestControlRegisters \cup GuestDebugRegisters)

Registers == {View[r].of : r \in DOMAIN View} \cup {"guest_rsp"}

GetRegValue(regs, r) == (regs[View[r].of] \div View[r].low) % View[r].size

ZeroExtend(regs, r, v) == [regs EXCEPT ![View[r].of] = (v % View[r].size) * View[r].low]

(* A write of a narrower view keeps the other bits, those of the upper half  *)
(* included: the lowest bits, the second byte, or one flag.  The guest's     *)
(* stack pointer is in the saved registers, where scripts read it, and in    *)
(* the VMCS, from where the guest resumes.                                   *)
SetLowest(old, v, size) == (old \div size) * size + (v % size)

SetSecondByte(old, v) == (old \div Word) * Word + (v % Byte) * Byte + (old % Byte)

SetFlag(old, v, bit) == IF v % 2 = 1 THEN old | bit ELSE old & (255 - bit)

Written(regs, r, v) ==
  CASE View[r].of = "rflags" /\ View[r].size = 2 -> SetFlag(regs["rflags"], v, View[r].low)
    [] View[r].low = Byte /\ View[r].of # "rflags" -> SetSecondByte(regs[View[r].of], v)
    [] OTHER -> SetLowest(regs[View[r].of], v, View[r].size)

SetRegValue(regs, r, v) ==
  IF View[r].of = "rsp" THEN [regs EXCEPT !["rsp"] = Written(regs, r, v), !["guest_rsp"] = Written(regs, r, v)]
  ELSE [regs EXCEPT ![View[r].of] = Written(regs, r, v)]

-----------------------------------------------------------------------------
(* The pseudo-registers: the core that runs the script, and the event it     *)
(* belongs to.                                                               *)
GetPseudoRegValue(k, p) == IF p = "core" THEN k.id ELSE Tag

GetValue(k, mem, symbol) ==
  CASE symbol.t \in {"num", "count"} -> symbol.n
    [] symbol.t = "id" -> IF symbol.s \in DOMAIN AddressOf THEN mem[AddressOf[symbol.s]] ELSE k.loc[symbol.s]
    [] symbol.t = "reg" -> GetRegValue(k.reg, symbol.s)
    [] symbol.t = "pseudo" -> GetPseudoRegValue(k, symbol.s)
    [] symbol.t = "temp" -> k.tmp[symbol.n]

SetValue(k, mem, symbol, v) ==
  CASE symbol.t = "id" /\ symbol.s \in DOMAIN AddressOf ->
         [k |-> k, mem |-> [mem EXCEPT ![AddressOf[symbol.s]] = v]]
    [] symbol.t = "id" /\ symbol.s \notin DOMAIN AddressOf ->
         [k |-> [k EXCEPT !.loc = [@ EXCEPT ![symbol.s] = v]], mem |-> mem]
    [] symbol.t = "reg" -> [k |-> [k EXCEPT !.reg = SetRegValue(@, symbol.s, v)], mem |-> mem]
    [] symbol.t = "temp" -> [k |-> [k EXCEPT !.tmp[symbol.n] = v], mem |-> mem]
    [] OTHER -> [k |-> k, mem |-> mem]

-----------------------------------------------------------------------------
(* What the operators and the functions compute, from their operands in the  *)
(* order of the source.  Division by zero is an error of the script.         *)
Logical(op, a, b) ==
  CASE op = "or" -> a | b
    [] op = "xor" -> a ^^ b
    [] op = "and" -> a & b
    [] op = "asr" -> a \div 2 ^ b
    [] op = "asl" -> (a * 2 ^ b) % Qword

Arithmetic(op, a, b) ==
  CASE op = "add" -> (a + b) % Qword
    [] op = "sub" -> (a - b) % Qword
    [] op = "mul" -> (a * b) % Qword
    [] op = "div" -> a \div b
    [] op = "mod" -> a % b

Compare(op, a, b) ==
  Bool(CASE op = "gt" -> a > b
         [] op = "lt" -> a < b
         [] op = "egt" -> a >= b
         [] op = "elt" -> a <= b
         [] op = "equal" -> a = b
         [] op = "neq" -> a # b)

Done(v, mem) == [v |-> v, mem |-> mem, err |-> FALSE]
Bad(mem) == [v |-> 0, mem |-> mem, err |-> TRUE]

(* poi, dq, dd, dw, db, hi and low read memory and fail on an address that   *)
(* is not mapped.  dd reads a WORD and dw a DWORD.                           *)
Keyword(op, a, mem) ==
  LET m == mem[a]
  IN  CASE a \notin Mapped -> Bad(mem)
        [] op \in {"poi", "dq"} -> Done(m, mem)
        [] op = "dw" -> Done(m % Dword, mem)
        [] op \in {"dd", "low"} -> Done(m % Word, mem)
        [] op = "db" -> Done(m % Byte, mem)
        [] op = "hi" -> Done((m \div Word) % Word, mem)

(* eq, ed and eb write memory; an address that is not mapped makes them      *)
(* return 0, not fail.                                                       *)
Edit(size, a, v, mem) ==
  IF a \in Mapped THEN Done(1, [mem EXCEPT ![a] = (@ - (@ % size)) + (v % size)]) ELSE Done(0, mem)

(* The interlocked functions fail on an address that is not mapped. *)
Interlocked(op, args, mem) ==
  LET a == args[1]
      m == mem[a]
  IN  CASE a \notin Mapped -> Bad(mem)
        [] op = "interlocked_exchange" -> Done(m, [mem EXCEPT ![a] = args[2]])
        [] op = "interlocked_exchange_add" -> Done(m, [mem EXCEPT ![a] = (m + args[2]) % Qword])
        [] op = "interlocked_increment" -> Done((m + 1) % Qword, [mem EXCEPT ![a] = (m + 1) % Qword])
        [] op = "interlocked_decrement" -> Done((m - 1) % Qword, [mem EXCEPT ![a] = (m - 1) % Qword])
        [] op = "interlocked_compare_exchange" ->
             Done(m, [mem EXCEPT ![a] = IF m = args[3] THEN args[2] ELSE m])

Compute(op, args, mem) ==
  CASE op \in {"div", "mod"} /\ args[2] = 0 -> Bad(mem)
    [] op \in {"or", "xor", "and", "asr", "asl"} -> Done(Logical(op, args[1], args[2]), mem)
    [] op \in {"add", "sub", "mul", "div", "mod"} -> Done(Arithmetic(op, args[1], args[2]), mem)
    [] op \in {"gt", "lt", "egt", "elt", "equal", "neq"} -> Done(Compare(op, args[1], args[2]), mem)
    [] op = "neg" -> Done((-args[1]) % Qword, mem)
    [] op = "not" -> Done(Qword - 1 - args[1], mem)
    [] op = "check_address" -> Done(Bool(args[1] \in Mapped), mem)
    [] op \in {"poi", "dq", "dd", "dw", "db", "hi", "low"} -> Keyword(op, args[1], mem)
    [] op = "eq" -> Edit(Qword, args[1], args[2], mem)
    [] op = "ed" -> Edit(Dword, args[1], args[2], mem)
    [] op = "eb" -> Edit(Byte, args[1], args[2], mem)
    [] OTHER -> Interlocked(op, args, mem)

-----------------------------------------------------------------------------
(* One instruction.  Symbol i of the instruction at k.pc, and the core after *)
(* it when the instruction has n symbols in all.                             *)
Symbol(k, code, i) == code[k.pc + i + 1]
Advance(k, n) == [k EXCEPT !.pc = @ + n]
Source(k, mem, code, i) == GetValue(k, mem, Symbol(k, code, i))

Stop(k) == [k EXCEPT !.err = TRUE]

(* Store the result and go on, or end the script. *)
Finish(k, r, des) ==
  LET s == SetValue(k, r.mem, des, r.v)
  IN  IF r.err THEN [k |-> Stop(k), mem |-> r.mem] ELSE s

ArgumentsAsEmitted(k, mem, code, n) == [i \in 1 .. n |-> Source(k, mem, code, i)]

(* The operands are emitted last first, so the source's first is the one     *)
(* before the destination.                                                   *)
Arguments(k, mem, code, n) == [i \in 1 .. n |-> Source(k, mem, code, n + 1 - i)]

Call(k, mem, code, op, n) ==
  Finish(Advance(k, n + 2), Compute(op, Arguments(k, mem, code, n), mem), Symbol(k, code, n + 1))

(* & gives the address of a variable. *)
Reference(k, mem, code) ==
  Finish(Advance(k, 3), Done(AddressOf[Symbol(k, code, 1).s], mem), Symbol(k, code, 2))

ExecMov(k, mem, code) ==
  Finish(Advance(k, 3), Done(Source(k, mem, code, 1), mem), Symbol(k, code, 2))

(* ++ and -- read the variable and write it back, and another core may run   *)
(* between the two.                                                          *)
IncDec(k, mem, code, op) ==
  LET step == IF op = "inc" THEN 1 ELSE -1
      read == [k EXCEPT !.held = <<(Source(k, mem, code, 1) + step) % Qword>>]
      write == Finish(Advance([k EXCEPT !.held = <<>>], 2), Done(k.held[1], mem), Symbol(k, code, 1))
  IN  IF k.held = <<>> THEN [k |-> read, mem |-> mem] ELSE write

(* What goes to the debugger: a printed value, a tag to enable or disable, a *)
(* pause, a flush, the formatted arguments.                                  *)
Send(k, mem, code, op, n) ==
  [k |-> [Advance(k, n + 1) EXCEPT !.out = Append(@, <<op>> \o Arguments(k, mem, code, n))], mem |-> mem]

ExecPrintf(k, mem, code) ==
  LET size == GetStringSymbolSize(Symbol(k, code, 1).n)
      args == [i \in 1 .. Symbol(k, code, size + 1).n |-> Source(k, mem, code, size + 1 + i)]
  IN  [k |-> [Advance(k, size + 2 + Len(args)) EXCEPT !.out = Append(@, <<"printf">> \o args)],
       mem |-> mem]

(* SpinlockLock is taken when it is free: Execute is not enabled before.     *)
LockOperand(op) == IF op = "spinlock_lock_custom_wait" THEN 2 ELSE 1

SpinlockLock(k, mem, code, op) ==
  LET lock == Source(k, mem, code, LockOperand(op))
      n == LockOperand(op) + 1
  IN  IF lock \notin Mapped THEN [k |-> Stop(Advance(k, n)), mem |-> mem]
      ELSE [k |-> Advance(k, n), mem |-> [mem EXCEPT ![lock] = @ + 1]]

UnlockNothing(k, mem, code) ==
  [k |-> IF Source(k, mem, code, 1) \in Mapped THEN Advance(k, 2) ELSE Stop(Advance(k, 2)), mem |-> mem]

SpinlockUnlock(k, mem, code) ==
  LET lock == Source(k, mem, code, 1)
  IN  IF lock \notin Mapped THEN [k |-> Stop(Advance(k, 2)), mem |-> mem]
      ELSE [k |-> Advance(k, 2), mem |-> [mem EXCEPT ![lock] = @ - (@ % Dword)]]

Jump(k, mem, code, op) ==
  LET target == Symbol(k, code, 1).n
      taken == CASE op = "jmp" -> TRUE
                 [] op = "jz" -> Source(k, mem, code, 2) = 0
                 [] op = "jnz" -> Source(k, mem, code, 2) # 0
      next == k.pc + (IF op = "jmp" THEN 2 ELSE 3)
  IN  [k |-> [k EXCEPT !.pc = IF taken THEN target ELSE next], mem |-> mem]

(* ScriptEngineExecute *)
Execute(k, mem, code) ==
  LET op == code[k.pc + 1].s
  IN  CASE op = "mov" -> ExecMov(k, mem, code)
        [] op \in OperatorsOneOperand -> IncDec(k, mem, code, op)
        [] op = "reference" -> Reference(k, mem, code)
        [] op \in OneOpFunc1 \ {"reference"} -> Call(k, mem, code, op, 1)
        [] op \in OperatorsTwoOperand \cup TwoOpFunc1 -> Call(k, mem, code, op, 2)
        [] op \in ThreeOpFunc1 -> Call(k, mem, code, op, 3)
        [] op \in {"spinlock_lock"} \cup TwoOpFunc2 -> SpinlockLock(k, mem, code, op)
        [] op = "spinlock_unlock" -> SpinlockUnlock(k, mem, code)
        [] op \in OneOpFunc2 \ {"spinlock_lock", "spinlock_unlock"} -> Send(k, mem, code, op, 1)
        [] op \in ZeroOpFunc1 -> Send(k, mem, code, op, 0)
        [] op = "printf" -> ExecPrintf(k, mem, code)
        [] op \in {"jmp", "jz", "jnz"} -> Jump(k, mem, code, op)

(* Whether the instruction at k.pc has to wait for a lock. *)
Spins(k, mem, code) ==
  LET op == code[k.pc + 1].s
  IN  /\ op \in {"spinlock_lock"} \cup TwoOpFunc2
      /\ LET lock == Source(k, mem, code, LockOperand(op))
         IN  lock \in Mapped /\ mem[lock] % 2 = 1
=============================================================================
