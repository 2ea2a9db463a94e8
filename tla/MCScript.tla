------------------------------ MODULE MCScript ------------------------------
(* Scripts for model checking: every operator and function, nested           *)
(* expressions, every statement inside every loop and conditional, the ways  *)
(* a script can be refused or fail, and scripts that two cores run at once.  *)
EXTENDS Script, SequencesExt

Addresses == (".g" :> 10) @@ (".l" :> 12)

X == Id("x")
Y == Id("y")
G == Id(".g")
Apply1(f, a) == [k |-> "op", f |-> f, args |-> <<a>>]
Apply2(f, a, b) == [k |-> "op", f |-> f, args |-> <<a, b>>]
Apply3(f, a, b, c) == [k |-> "op", f |-> f, args |-> <<a, b, c>>]
Ref(v) == Apply1("reference", v)
Set(x, e) == [k |-> "set", x |-> x, e |-> e]
Inc(x) == [k |-> "inc", x |-> x]
Dec(x) == [k |-> "dec", x |-> x]
Does(f, args) == [k |-> "call", f |-> f, args |-> args]
Show(e) == Does("print", <<e>>)
Formatted(n, args) == [k |-> "printf", n |-> n, args |-> args]
If(c, yes, no) == [k |-> "if", arms |-> <<[c |-> c, body |-> yes]>>, else |-> no]
IfElsif(c, yes, d, also, no) ==
  [k |-> "if", arms |-> <<[c |-> c, body |-> yes], [c |-> d, body |-> also]>>, else |-> no]
Loop(kind, c, body) == [k |-> kind, c |-> c, body |-> body]
For(init, c, step, body) == [k |-> "for", init |-> init, c |-> c, step |-> step, body |-> body]
Leave == [k |-> "break"]
Skip == [k |-> "continue"]

OnOne(text) == [text |-> text, cores |-> {1}]
OnBoth(text) == [text |-> text, cores |-> {1, 2}]

(* Operands of both kinds, variables of both kinds, results in temporaries. *)
Operators ==
  {<<Set(X, Num(150)), Set(Y, Apply2(op, Apply2("sub", Num(7), X), Apply2("add", X, Num(120)))), Show(Y)>> :
     op \in OperatorsTwoOperand \ {"asr", "asl"}}
  \cup
  {<<Set(X, Num(3)), Set(Y, Apply2(op, Apply2("sub", Num(7), X), Apply2("add", X, Num(1)))), Show(Y)>> :
     op \in OperatorsTwoOperand}
  \cup {<<Set(X, Num(6)), Show(Apply2(op, X, Apply2("sub", X, Num(6))))>> : op \in {"div", "mod", "lt", "equal"}}

Functions1 ==
  {<<Set(G, Num(g)), Set(X, Apply1(f, Apply2("add", Num(a), Num(0)))), Show(X)>> :
     f \in OneOpFunc1 \ {"reference"}, a \in {8, 9, 10}, g \in {3, 201}}

Functions2 ==
  {<<Set(G, Num(90)), Set(X, Apply2(f, Num(a), Num(39))), Does(f, <<Ref(G), Apply1("poi", Ref(G))>>), Show(G), Show(X)>> :
     f \in TwoOpFunc1, a \in {9, 10}}
  \cup {<<Set(G, Num(4)), Set(X, Apply3("interlocked_compare_exchange", Ref(G), Num(7), Num(c))), Show(G)>> :
          c \in {4, 5}}
  \cup {<<Does(f, <<Num(9)>>), Show(Num(1))>> : f \in {"spinlock_lock", "spinlock_unlock"}}

Effects ==
  {<<Does(f, <<Num(2)>>)>> : f \in OneOpFunc2 \ {"spinlock_lock", "spinlock_unlock"}}
  \cup {<<Does(f, <<>>)>> : f \in ZeroOpFunc1}
  \cup {<<Set(X, Num(5)), Formatted(n, [i \in 1 .. m |-> Apply2("mul", X, Num(i))]), Show(X)>> : n, m \in 0 .. 2}

RegisterWrites ==
  {<<Set(Reg(r), Num(v)), Show(Reg(r)), Inc(Reg(r)), Show(Reg("rax")), Show(Reg("zf"))>> :
     r \in DOMAIN View, v \in {1, 90}}

(* Statements for the inside of a loop over x that prints and may leave it.  *)
AtOne == Apply2("equal", X, Num(1))
Simple == {<<Show(X)>>, <<Inc(Y)>>, <<>>}
Inside ==
  Simple
  \cup {<<Show(Y), Leave>>, <<If(AtOne, <<Leave>>, <<>>), Show(X)>>}
  \cup {<<If(AtOne, b, <<Show(Num(9))>>), Inc(Y)>> : b \in Simple}
  \cup {<<IfElsif(AtOne, b, Apply2("gt", X, Num(1)), <<Leave>>, <<Inc(Y)>>), Show(X)>> : b \in Simple}
  \cup {<<Loop(w, Apply2("lt", Y, Num(2)), <<Inc(Y)>> \o b), Show(Y)>> :
          w \in {"while", "do"}, b \in {<<>>, <<If(AtOne, <<Leave>>, <<>>)>>}}
  \cup {<<For(Set(Y, Num(0)), Apply2("lt", Y, Num(2)), Inc(Y), b), Show(Y)>> :
          b \in {<<Show(X)>>, <<If(AtOne, <<Leave>>, <<>>)>>, <<If(AtOne, <<Skip>>, <<>>), Show(Y)>>}}

OnlyInFor == {<<If(AtOne, <<Skip>>, <<Inc(Y)>>), Show(X)>>,
              <<IfElsif(AtOne, <<Skip>>, Apply2("egt", X, Num(2)), <<Leave>>, <<>>), Show(Y)>>}

Twice(bodies) == bodies \cup {a \o b : a, b \in bodies}

Loops ==
  {<<Set(X, Num(0)), Set(Y, Num(1)), Loop(w, Apply2("lt", X, Num(3)), <<Inc(X)>> \o b), Show(Y)>> :
     w \in {"while", "do"}, b \in Twice(Inside)}
  \cup {<<Set(Y, Num(1)), For(Set(X, Num(0)), Apply2("elt", X, Num(2)), Inc(X), b), Show(Y)>> :
          b \in Twice(Inside) \cup Twice(OnlyInFor)}
  \cup {<<Set(X, Num(a)), Set(Y, Num(0))>> \o b : a \in {1, 2}, b \in Inside}

Counted ==
  {<<For(Set(X, Num(4)), Apply2("gt", X, Num(1)), s, <<Show(X)>>)>> :
     s \in {Dec(X), Set(X, Apply2("asr", X, Num(1)))}}

Wrong ==
  {<<Show(X), Set(X, Num(1))>>, <<Set(X, X)>>, <<Inc(Y)>>, <<Set(Y, Apply2("add", Num(1), X))>>,
   <<If(X, <<Set(Y, Num(1))>>, <<>>)>>, <<Loop("while", Y, <<>>)>>, <<Loop("do", X, <<Show(Num(1))>>)>>,
   <<Set(Y, Num(1)), For(Set(X, Num(0)), Id("z"), Inc(X), <<Show(X)>>)>>,
   <<If(Num(1), <<Leave>>, <<>>)>>, <<Set(X, Num(1)), Loop("while", X, <<Dec(X), If(X, <<Skip>>, <<>>)>>)>>,
   <<Formatted(1, <<Apply2("add", X, Num(1))>>)>>}

(* Two cores: a lock around what is shared, or interlocked functions. *)
Lock == Does("spinlock_lock", <<Ref(Id(".l"))>>)
LockWaiting == Does("spinlock_lock_custom_wait", <<Ref(Id(".l")), Num(4)>>)
Unlock == Does("spinlock_unlock", <<Ref(Id(".l"))>>)
Declare == <<If(Num(0), <<Set(G, Num(0)), Set(Id(".l"), Num(0))>>, <<>>)>>

Together ==
  {Declare \o <<lock, Inc(G), Set(X, G), Unlock, Show(X)>> : lock \in {Lock, LockWaiting}}
  \cup {<<Set(X, Apply2("asl", PseudoReg("core"), Num(2))), Formatted(2, <<X, PseudoReg("event_tag")>>)>>,
        Declare \o <<Set(X, Apply1("interlocked_increment", Ref(G))), Show(X)>>,
        Declare \o <<Does("interlocked_exchange_add", <<Ref(G), Num(2)>>),
                     Does("interlocked_decrement", <<Ref(G)>>)>>,
        Declare \o <<Lock, If(Apply2("equal", G, Num(0)), <<Inc(G), Set(Y, Num(1))>>, <<Set(Y, Num(2))>>), Unlock>>}

(* Scripts the instance leaves out, on which the code does not do what they  *)
(* mean.  dd reads a word and dw a dword, which shows when the value is      *)
(* wider than a word.                                                        *)
Wide ==
  {<<Set(G, Num(201)), Set(X, Apply1(f, Apply2("add", Num(10), Num(0)))), Show(X)>> : f \in {"dd", "dw"}}

(* break and continue that are in no loop and no conditional pop the empty   *)
(* stack of the compiler.                                                    *)
Unstacked ==
  {<<Leave>>, <<Skip>>}
  \cup {<<Set(X, Num(a)), Set(Y, Num(0))>> \o b : a \in {1, 2}, b \in {c \in Inside : Leave \in ToSet(c)}}

(* continue directly in the body of a for loop corrupts the stack, and in a  *)
(* while loop inside a for loop it continues the for loop.                   *)
Continuing ==
  {<<Set(Y, Num(1)), For(Set(X, Num(0)), Apply2("lt", X, Num(2)), Inc(X), b), Show(Y)>> :
     b \in {<<Show(X), Skip>>,
            <<Loop("while", Apply2("gt", Y, Num(0)), <<Dec(Y), If(Y, <<>>, <<Skip>>), Show(Y)>>), Show(X)>>}}

LeftOut == {OnOne(s) : s \in Wide \cup Unstacked \cup Continuing}

AllScripts ==
  ({OnOne(s) : s \in Operators \cup Functions1 \cup Functions2 \cup Effects \cup RegisterWrites
                  \cup Loops \cup Counted \cup Wrong} \ LeftOut)
  \cup {OnBoth(s) : s \in Together}

(* The scripts that follow another one: one that reads a name it does not    *)
(* assign, one with an increment that needs the table, one with temporaries. *)
FollowingTexts ==
  {<<Show(X), Set(X, Num(1))>>, <<Inc(Y)>>,
   <<Set(X, Num(3)), Set(Y, Apply2("mul", Apply2("sub", Num(7), X), Apply2("add", X, Num(1)))), Show(Y)>>}
Following == {OnOne(s) : s \in FollowingTexts}
=============================================================================
