-------------------------- MODULE BreakpointsProofs --------------------------
(* The bytes in the guest's code, the monitor trap flag and the interrupt    *)
(* flag of Breakpoints, for every number of cores, addresses and breakpoints *)
(* of every scope.                                                           *)
EXTENDS Breakpoints, TLAPS

\* No two addresses are mapped to one physical address.
NoAliases == \A a, b \in Addrs : PhysAddress[a] = PhysAddress[b] => a = b

\* A listed breakpoint is the only one at its address.
Unique == \A i, j \in list : desc[i].addr = desc[j].addr => i = j

\* The byte a listed breakpoint will write back is the guest's own.
SavedByteIsOwn == \A i \in list : desc[i].prev = OwnByte(PhysOf(i))

\* A breakpoint that is on is listed and will be re-applied.
DescOK ==
  \A i \in 1 .. lastId :
     desc[i].AvoidReApply = ~desc[i].Enabled /\ (desc[i].Enabled => i \in list)

\* The handler has looked the address up, and the address is the one at rip.
HitOK(c) ==
  /\ hit[c] # NoBp => pc[c] \in {"lock", "halt", "rearm"} /\ PhysOf(hit[c]) = PhysAddress[rip[c]]
  /\ pc[c] = "rearm" => hit[c] # NoBp
  /\ from[c] # "none" <=> pc[c] \in {"lock", "halt", "rearm"}
  /\ from[c] = "pause" => hit[c] = NoBp
  /\ from[c] = "bp" => kd /\ (hit[c] = NoBp => swBp[c] = NoBp)

\* The breakpoint a core steps over stays on, and is at rip until the step.
OverOK(c) ==
  swBp[c] # NoBp =>
    /\ swBp[c] \in list /\ desc[swBp[c]].Enabled
    /\ pc[c] = "mtf" \/ ~kd \/ PhysOf(swBp[c]) = PhysAddress[rip[c]]

Needed(c) == stepWait[c] \/ swBp[c] # NoBp

\* The flag against its reasons, at every place of the handlers.
MtfOK(c) ==
  /\ pc[c] \in {"guest", "trap"} \/ from[c] \in {"bp", "pause"} => (mtf[c] <=> Needed(c))
  /\ pc[c] = "mtf" => mtf[c]
  /\ pc[c] = "mtfEnd" => mtf[c] /\ (ignoreUnset[c] <=> Needed(c))
  /\ from[c] = "mtf" =>
       /\ mtf[c] /\ swBp[c] = NoBp
       /\ pc[c] \in {"lock", "halt"} => ~stepWait[c] /\ ~ignoreUnset[c]
       /\ pc[c] = "rearm" /\ stepWait[c] => ~desc[hit[c]].AvoidReApply

\* A masked interrupt flag will be set again by the breakpoint stepped over.
MaskOK(c) ==
  /\ ~IF_[c] /\ c \notin overlapped => swBp[c] # NoBp /\ desc[swBp[c]].SetRflagsIF
  /\ \A d \in Cores : d # c /\ swBp[d] = swBp[c] /\ swBp[c] # NoBp => c \in overlapped

CoreOK == \A c \in Cores : HitOK(c) /\ OverOK(c) /\ MtfOK(c) /\ MaskOK(c)

BytesOK == Unique /\ SavedByteIsOwn /\ NoStrayInt3 /\ EnabledArmed /\ DescOK

IInv == TypeOK /\ BytesOK /\ CoreOK
-----------------------------------------------------------------------------
(* Searching the list                                                        *)

\* With one breakpoint at an address the search finds that one.
LEMMA NewestOfOne ==
  ASSUME NEW S \in SUBSET Nat, \A i, j \in S : i = j
  PROVE  (S = {} /\ Newest(S) = NoBp) \/ Newest(S) \in S
<1>1. CASE S = {}
  BY <1>1, Zenon DEF Newest
<1>2. CASE S # {}
  <2>1. PICK i \in S : TRUE
    BY <1>2, Zenon
  <2>2. \A j \in S : j <= i
    BY <2>1
  <2> QED  BY <1>2, <2>1, <2>2, Zenon DEF Newest
<1> QED  BY <1>1, <1>2, Zenon

\* What the handlers find at an address is the breakpoint there, or nothing.
LEMMA EntryAtOK ==
  ASSUME NoAliases, TypeOK, Unique, NEW a \in Addrs
  PROVE  /\ EntryAt(a) \in 0 .. lastId
         /\ EntryAt(a) # NoBp => EntryAt(a) \in list /\ PhysOf(EntryAt(a)) = PhysAddress[a]
         /\ EntryAt(a) = NoBp => \A i \in list : PhysOf(i) # PhysAddress[a]
<1> DEFINE S == {i \in list : PhysOf(i) = PhysAddress[a]}
<1>0. list \subseteq 1 .. lastId /\ lastId \in Nat
  BY BreakpointConstants DEF TypeOK
<1>1. \A i \in list : desc[i].addr \in Addrs
  BY <1>0, Zenon DEF TypeOK, Descriptor
<1>2. ASSUME NEW i \in S, NEW j \in S PROVE i = j
  <2>1. i \in list /\ j \in list /\ PhysAddress[desc[i].addr] = PhysAddress[desc[j].addr]
    BY Zenon DEF PhysOf
  <2>2. desc[i].addr = desc[j].addr
    BY <1>1, <2>1, Zenon DEF NoAliases
  <2> QED  BY <2>1, <2>2, Zenon DEF Unique
<1>3. S \in SUBSET Nat
  <2>1. 1 .. lastId \subseteq Nat
    BY <1>0
  <2>2. S \subseteq list
    BY Zenon
  <2> HIDE DEF S
  <2> QED  BY <1>0, <2>1, <2>2, Zenon
<1>4. (S = {} /\ Newest(S) = NoBp) \/ Newest(S) \in S
  <2> HIDE DEF S
  <2> QED  BY <1>2, <1>3, NewestOfOne, Zenon
<1>5. EntryAt(a) = Newest(S)
  BY Zenon DEF EntryAt
<1>6. CASE S = {} /\ Newest(S) = NoBp
  BY <1>0, <1>5, <1>6 DEF NoBp
<1>7. CASE Newest(S) \in S
  <2>1. Newest(S) \in list /\ PhysOf(Newest(S)) = PhysAddress[a]
    BY <1>7, Zenon
  <2>2. Newest(S) \in 1 .. lastId
    BY <1>0, <2>1, Zenon
  <2> HIDE DEF S
  <2> QED  BY <1>0, <1>5, <2>1, <2>2 DEF NoBp
<1> QED  BY <1>4, <1>6, <1>7, Zenon

\* 'bp' goes on when no breakpoint is at the address.
LEMMA NoEntryByAddress ==
  ASSUME TypeOK, Unique, NEW a \in Addrs, BreakpointGetEntryByAddress(a) = NoBp
  PROVE  \A i \in list : desc[i].addr # a
<1> DEFINE S == {i \in list : desc[i].addr = a}
<1>1. list \subseteq 1 .. lastId /\ lastId \in Nat
  BY BreakpointConstants DEF TypeOK
<1>2. ASSUME NEW i \in S, NEW j \in S PROVE i = j
  <2>1. i \in list /\ j \in list /\ desc[i].addr = desc[j].addr
    BY Zenon
  <2> QED  BY <2>1 DEF Unique
<1>3. S \in SUBSET Nat
  <2>1. 1 .. lastId \subseteq Nat
    BY <1>1
  <2>2. S \subseteq list
    BY Zenon
  <2> HIDE DEF S
  <2> QED  BY <1>1, <2>1, <2>2, Zenon
<1>4. (S = {} /\ Newest(S) = NoBp) \/ Newest(S) \in S
  <2> HIDE DEF S
  <2> QED  BY <1>2, <1>3, NewestOfOne, Zenon
<1> QED  BY <1>1, <1>4 DEF BreakpointGetEntryByAddress, NoBp
-----------------------------------------------------------------------------
(* Steps that leave the breakpoints and the bytes alone                      *)

\* What the invariant says of the bytes survives a step that leaves them alone.
LEMMA BytesUntouched ==
  ASSUME BytesOK, UNCHANGED <<mem, desc, list, lastId, hit, swBp>>
  PROVE  BytesOK'
BY Zenon DEF BytesOK, Unique, SavedByteIsOwn, NoStrayInt3, EnabledArmed, DescOK, Lifted, PhysOf

\* A core that takes no part in a step, and keeps the breakpoints it has taken
\* out or looked up, is as it was.
Same(d) ==
  /\ pc'[d] = pc[d] /\ rip'[d] = rip[d] /\ from'[d] = from[d] /\ hit'[d] = hit[d]
  /\ swBp'[d] = swBp[d] /\ mtf'[d] = mtf[d] /\ ignoreUnset'[d] = ignoreUnset[d]
  /\ stepWait'[d] = stepWait[d]

\* Such a core keeps its part of the invariant.
LEMMA OtherCore ==
  ASSUME NEW d \in Cores, HitOK(d), OverOK(d), MtfOK(d), Same(d), kd' = kd,
         hit[d] # NoBp => /\ desc'[hit[d]].addr = desc[hit[d]].addr
                          /\ pc[d] = "rearm" =>
                               desc'[hit[d]].AvoidReApply = desc[hit[d]].AvoidReApply,
         swBp[d] # NoBp => /\ swBp[d] \in list' /\ desc'[swBp[d]].Enabled
                           /\ desc'[swBp[d]].addr = desc[swBp[d]].addr
  PROVE  (HitOK(d) /\ OverOK(d) /\ MtfOK(d))'
<1>1. HitOK(d)'
  BY Zenon DEF HitOK, Same, PhysOf
<1>2. OverOK(d)'
  BY DEF OverOK, Same, PhysOf
<1>3. MtfOK(d)'
  BY Zenon DEF MtfOK, HitOK, Same, Needed
<1> QED  BY <1>1, <1>2, <1>3, Zenon

\* A step that changes one core only.
LEMMA OneCore ==
  ASSUME IInv, NEW c \in Cores, UNCHANGED <<mem, desc, list, lastId, kd, hit, swBp, IF_, overlapped>>,
         TypeOK', \A d \in Cores \ {c} : Same(d), (HitOK(c) /\ OverOK(c) /\ MtfOK(c))'
  PROVE  IInv'
<1>1. BytesOK'
  BY BytesUntouched, Zenon DEF IInv
<1>2. ASSUME NEW d \in Cores PROVE (HitOK(d) /\ OverOK(d) /\ MtfOK(d))'
  <2>1. CASE d = c
    BY <2>1, Zenon
  <2>2. CASE d # c
    <3>1. HitOK(d) /\ OverOK(d) /\ MtfOK(d)
      BY Zenon DEF IInv, CoreOK
    <3>2. swBp[d] # NoBp => swBp[d] \in list' /\ desc'[swBp[d]].Enabled
      BY <3>1, Zenon DEF OverOK
    <3> QED  BY <2>2, <3>1, <3>2, OtherCore, Zenon
  <2> QED  BY <2>1, <2>2, Zenon
<1>3. ASSUME NEW d \in Cores PROVE MaskOK(d)'
  BY Zenon DEF IInv, CoreOK, MaskOK
<1> QED  BY <1>1, <1>2, <1>3, Zenon DEF IInv, CoreOK

\* The guest's instruction pointer stays an address.
LEMMA Moved ==
  ASSUME rip \in [Cores -> Addrs], NEW c \in Cores,
         rip' = rip \/ \E a \in Addrs : rip' = [rip EXCEPT ![c] = a]
  PROVE  rip' \in [Cores -> Addrs] /\ \A d \in Cores \ {c} : rip'[d] = rip[d]
<1>1. CASE rip' = rip
  BY <1>1, Zenon
<1>2. CASE \E a \in Addrs : rip' = [rip EXCEPT ![c] = a]
  BY <1>2, Zenon
<1> QED  BY <1>1, <1>2, Zenon

\* A guest instruction keeps the invariant.
LEMMA GuestInstructionKeeps ==
  ASSUME IInv, NEW c \in Cores, GuestInstruction(c)
  PROVE  IInv'
<1>0. /\ pc \in [Cores -> {"guest", "trap", "lock", "halt", "rearm", "mtf", "mtfEnd"}]
      /\ rip \in [Cores -> Addrs]
  BY Zenon DEF IInv, TypeOK
<1>m. /\ rip' = rip \/ \E a \in Addrs : rip' = [rip EXCEPT ![c] = a]
      /\ \E p \in {"trap", "mtf", "guest"} : pc' = [pc EXCEPT ![c] = p]
  BY Zenon DEF GuestInstruction
<1>u. UNCHANGED <<from, hit, bpVars, mtfVars, ifVars, haltVars>>
  BY Zenon DEF GuestInstruction
<1>t. /\ rip' \in [Cores -> Addrs]
      /\ pc' \in [Cores -> {"guest", "trap", "lock", "halt", "rearm", "mtf", "mtfEnd"}]
  BY <1>0, <1>m, Moved, Zenon
<1> USE DEF GuestInstruction, bpVars, mtfVars, ifVars, haltVars
<1>1. TypeOK'
  <2> HIDE DEF GuestInstruction
  <2> QED  BY <1>t, <1>u, Zenon DEF IInv, TypeOK
<1>2. \A d \in Cores \ {c} : Same(d)
  BY DEF IInv, TypeOK, Same
<1>3. HitOK(c) /\ OverOK(c) /\ MtfOK(c)
  BY Zenon DEF IInv, CoreOK
<1>4. /\ pc'[c] \in {"guest", "trap", "mtf"} /\ hit[c] = NoBp /\ from[c] = "none"
      /\ pc'[c] = "mtf" <=> mtf[c] /\ mem[PhysAddress[rip[c]]] # "cc"
      /\ mtf[c] <=> Needed(c)
  BY <1>3, Zenon DEF IInv, TypeOK, HitOK, MtfOK
<1>5. HitOK(c)'
  BY <1>3, <1>4, Zenon DEF HitOK
<1>6. OverOK(c)'
  BY <1>3, <1>4, Zenon DEF OverOK, Needed, PhysOf
<1>7. MtfOK(c)'
  BY <1>4, Zenon DEF MtfOK, Needed
<1> QED  BY <1>1, <1>2, <1>5, <1>6, <1>7, OneCore, Zenon

LEMMA EnterHaltKeeps ==
  ASSUME IInv, NEW c \in Cores, EnterHalt(c)
  PROVE  IInv'
<1> USE DEF EnterHalt, Halts, bpVars, mtfVars, ifVars, haltVars
<1>1. TypeOK'
  BY Zenon DEF IInv, TypeOK
<1>2. \A d \in Cores \ {c} : Same(d)
  BY Zenon DEF IInv, TypeOK, Same
<1>3. HitOK(c) /\ OverOK(c) /\ MtfOK(c)
  BY Zenon DEF IInv, CoreOK
<1>4. pc'[c] = "halt" /\ pc[c] = "lock"
  BY <1>3, Zenon DEF IInv, TypeOK, HitOK, MtfOK
<1>5. HitOK(c)'
  BY <1>3, <1>4, Zenon DEF HitOK, PhysOf
<1>6. OverOK(c)'
  BY <1>3, <1>4, Zenon DEF OverOK, HitOK, PhysOf
<1>7. MtfOK(c)'
  BY <1>3, <1>4, Zenon DEF MtfOK, Needed, HitOK
<1> QED  BY <1>1, <1>2, <1>5, <1>6, <1>7, OneCore, Zenon

LEMMA PauseBreakKeeps ==
  ASSUME IInv, NEW c \in Cores, PauseBreak(c)
  PROVE  IInv'
<1> USE DEF PauseBreak, Halts, bpVars, mtfVars, ifVars, haltVars
<1>1. TypeOK'
  BY Zenon DEF IInv, TypeOK
<1>2. \A d \in Cores \ {c} : Same(d)
  BY Zenon DEF IInv, TypeOK, Same
<1>3. HitOK(c) /\ OverOK(c) /\ MtfOK(c)
  BY Zenon DEF IInv, CoreOK
<1>4. /\ pc'[c] = "halt" /\ pc[c] = "guest" /\ from[c] = "none"
      /\ from'[c] = "pause" /\ hit[c] = NoBp
  BY <1>3, Zenon DEF IInv, TypeOK, HitOK, MtfOK
<1>5. HitOK(c)'
  BY <1>3, <1>4, Zenon DEF HitOK, PhysOf
<1>6. OverOK(c)'
  BY <1>3, <1>4, Zenon DEF OverOK, HitOK, PhysOf
<1>7. MtfOK(c)'
  BY <1>3, <1>4, Zenon DEF MtfOK, Needed, HitOK
<1> QED  BY <1>1, <1>2, <1>5, <1>6, <1>7, OneCore, Zenon

LEMMA MtfEndKeeps ==
  ASSUME IInv, NEW c \in Cores, MtfEnd(c)
  PROVE  IInv'
<1> USE DEF MtfEnd, bpVars, mtfVars, ifVars, haltVars
<1>1. TypeOK'
  BY Zenon DEF IInv, TypeOK
<1>2. \A d \in Cores \ {c} : Same(d)
  BY Zenon DEF IInv, TypeOK, Same
<1>3. HitOK(c) /\ OverOK(c) /\ MtfOK(c)
  BY Zenon DEF IInv, CoreOK
<1>4. /\ pc'[c] = "guest" /\ pc[c] = "mtfEnd" /\ from[c] = "none" /\ hit[c] = NoBp
      /\ mtf'[c] <=> Needed(c)
  BY <1>3, Zenon DEF IInv, TypeOK, HitOK, MtfOK
<1>5. HitOK(c)'
  BY <1>3, <1>4, Zenon DEF HitOK, PhysOf
<1>6. OverOK(c)'
  BY <1>3, <1>4, Zenon DEF OverOK, HitOK, PhysOf
<1>7. MtfOK(c)'
  BY <1>3, <1>4, Zenon DEF MtfOK, Needed, HitOK
<1> QED  BY <1>1, <1>2, <1>5, <1>6, <1>7, OneCore, Zenon

LEMMA ContinueKeeps ==
  ASSUME IInv, NEW c \in Cores, Continue(c)
  PROVE  IInv'
<1>0. /\ pc \in [Cores -> {"guest", "trap", "lock", "halt", "rearm", "mtf", "mtfEnd"}]
      /\ from \in [Cores -> {"none", "bp", "mtf", "pause"}]
      /\ rip \in [Cores -> Addrs]
  BY Zenon DEF IInv, TypeOK
<1>m. /\ rip' = rip \/ \E a \in Addrs : rip' = [rip EXCEPT ![c] = a]
      /\ \E p \in {"rearm", "mtfEnd", "guest"} : pc' = [pc EXCEPT ![c] = p]
      /\ from' = [from EXCEPT ![c] = IF hit[c] = NoBp THEN "none" ELSE @]
  BY Zenon DEF Continue, Resume
<1>t. /\ rip' \in [Cores -> Addrs]
      /\ pc' \in [Cores -> {"guest", "trap", "lock", "halt", "rearm", "mtf", "mtfEnd"}]
      /\ from' \in [Cores -> {"none", "bp", "mtf", "pause"}]
  BY <1>0, <1>m, Moved, Zenon
<1>u. /\ UNCHANGED <<hit, bpVars, swBp, ifVars, mtf, ignoreUnset, stepWait>>
      /\ operating' = NoCore /\ stopped' = {}
  BY Zenon DEF Continue, Resume
<1> USE DEF Continue, Reads, Resume, bpVars, mtfVars, ifVars, haltVars
<1>1. TypeOK'
  <2> HIDE DEF Continue, Reads, Resume
  <2> QED  BY <1>t, <1>u, Zenon DEF IInv, TypeOK
<1>2. \A d \in Cores \ {c} : Same(d)
  BY DEF IInv, TypeOK, Same
<1>3. HitOK(c) /\ OverOK(c) /\ MtfOK(c)
  BY Zenon DEF IInv, CoreOK
<1>4. /\ pc[c] = "halt" /\ from[c] # "none"
      /\ pc'[c] = IF hit[c] # NoBp THEN "rearm" ELSE IF from[c] = "mtf" THEN "mtfEnd" ELSE "guest"
      /\ from'[c] = IF hit[c] = NoBp THEN "none" ELSE from[c]
      /\ rip'[c] # rip[c] => hit[c] = NoBp /\ from[c] = "bp"
  BY <1>3, Zenon DEF IInv, TypeOK, HitOK, MtfOK
<1>5. HitOK(c)'
  BY <1>3, <1>4 DEF HitOK, PhysOf
<1>6. OverOK(c)'
  BY <1>3, <1>4, Zenon DEF OverOK, HitOK, PhysOf
<1>7. MtfOK(c)'
  <2>1. UNCHANGED <<mtf, ignoreUnset, stepWait, swBp, desc, hit>>
    BY Zenon
  <2>2. CASE from[c] = "mtf"
    <3>1. mtf[c] /\ swBp[c] = NoBp /\ ~stepWait[c] /\ ~ignoreUnset[c]
      BY <1>3, <1>4, <2>2, Zenon DEF MtfOK
    <3> QED  BY <1>4, <2>1, <2>2, <3>1 DEF MtfOK, Needed
  <2>3. CASE from[c] \in {"bp", "pause"}
    <3>1. mtf[c] <=> Needed(c)
      BY <1>3, <2>3, Zenon DEF MtfOK
    <3> QED  BY <1>3, <1>4, <2>1, <2>3, <3>1 DEF MtfOK, Needed, HitOK
  <2> QED  BY <1>4, <2>2, <2>3, Zenon DEF IInv, TypeOK
<1> QED  BY <1>1, <1>2, <1>5, <1>6, <1>7, OneCore, Zenon

LEMMA StepInKeeps ==
  ASSUME IInv, NEW c \in Cores, QuietCommands, StepIn(c)
  PROVE  IInv'
<1>0. /\ pc \in [Cores -> {"guest", "trap", "lock", "halt", "rearm", "mtf", "mtfEnd"}]
      /\ from \in [Cores -> {"none", "bp", "mtf", "pause"}]
      /\ rip \in [Cores -> Addrs]
  BY Zenon DEF IInv, TypeOK
<1>m. /\ rip' = rip \/ \E a \in Addrs : rip' = [rip EXCEPT ![c] = a]
      /\ \E p \in {"rearm", "mtfEnd", "guest"} : pc' = [pc EXCEPT ![c] = p]
      /\ from' = [from EXCEPT ![c] = IF hit[c] = NoBp THEN "none" ELSE @]
  BY Zenon DEF StepIn, Resume
<1>t. /\ rip' \in [Cores -> Addrs]
      /\ pc' \in [Cores -> {"guest", "trap", "lock", "halt", "rearm", "mtf", "mtfEnd"}]
      /\ from' \in [Cores -> {"none", "bp", "mtf", "pause"}]
  BY <1>0, <1>m, Moved
<1>u. /\ UNCHANGED <<hit, bpVars, swBp, ifVars, stopped>> /\ operating' = NoCore
      /\ stepWait' = [stepWait EXCEPT ![c] = TRUE]
      /\ ignoreUnset' = [ignoreUnset EXCEPT ![c] = TRUE]
      /\ mtf' = [mtf EXCEPT ![c] = TRUE]
  BY Zenon DEF StepIn, Resume
<1> USE DEF StepIn, Reads, Resume, QuietStep, bpVars, mtfVars, ifVars, haltVars
<1>1. TypeOK'
  <2> HIDE DEF StepIn, Reads, Resume
  <2> QED  BY <1>t, <1>u, Zenon DEF IInv, TypeOK
<1>2. \A d \in Cores \ {c} : Same(d)
  BY Zenon DEF IInv, TypeOK, Same
<1>3. HitOK(c) /\ OverOK(c) /\ MtfOK(c)
  BY Zenon DEF IInv, CoreOK
<1>4. /\ pc[c] = "halt" /\ from[c] # "none" /\ stepWait'[c] /\ mtf'[c] /\ ignoreUnset'[c]
      /\ pc'[c] = IF hit[c] # NoBp THEN "rearm" ELSE IF from[c] = "mtf" THEN "mtfEnd" ELSE "guest"
      /\ from'[c] = IF hit[c] = NoBp THEN "none" ELSE from[c]
      /\ rip'[c] # rip[c] => hit[c] = NoBp /\ from[c] = "bp"
      /\ from[c] = "mtf" /\ hit[c] # NoBp => ~desc[hit[c]].AvoidReApply
  BY <1>3, Zenon DEF IInv, TypeOK, HitOK, MtfOK
<1>5. HitOK(c)'
  BY <1>3, <1>4 DEF HitOK, PhysOf
<1>6. OverOK(c)'
  BY <1>3, <1>4, Zenon DEF OverOK, HitOK, PhysOf
<1>7. MtfOK(c)'
  BY <1>3, <1>4 DEF MtfOK, Needed, HitOK
<1> QED  BY <1>1, <1>2, <1>5, <1>6, <1>7, OneCore, Zenon
-----------------------------------------------------------------------------
(* The handlers that take a byte out and put it back                         *)

\* The descriptors keep everything but the flag to restore.
SameDescs ==
  /\ lastId' = lastId /\ list' = list
  /\ \A i \in 1 .. lastId :
       /\ desc'[i].addr = desc[i].addr /\ desc'[i].prev = desc[i].prev
       /\ desc'[i].Enabled = desc[i].Enabled /\ desc'[i].AvoidReApply = desc[i].AvoidReApply

\* With the same descriptors, they stay unique and keep the bytes they saved.
LEMMA DescsKept ==
  ASSUME TypeOK, BytesOK, SameDescs
  PROVE  (Unique /\ SavedByteIsOwn /\ DescOK)'
<1>1. list \subseteq 1 .. lastId
  BY Zenon DEF TypeOK
<1>2. Unique'
  <2> SUFFICES ASSUME NEW i \in list, NEW j \in list, desc'[i].addr = desc'[j].addr PROVE i = j
    BY Zenon DEF Unique, SameDescs
  <2>1. desc[i].addr = desc[j].addr
    BY <1>1, Zenon DEF SameDescs
  <2> QED  BY <2>1, Zenon DEF BytesOK, Unique
<1>3. SavedByteIsOwn'
  BY <1>1, Zenon DEF BytesOK, SavedByteIsOwn, SameDescs, PhysOf
<1>4. DescOK'
  BY <1>1, Zenon DEF BytesOK, DescOK, SameDescs
<1> QED  BY <1>2, <1>3, <1>4, Zenon

\* NoStrayInt3 and EnabledArmed of a memory m, core c having nothing looked up.
Clean(m) ==
  /\ m \in [Phys -> Bytes]
  /\ \A p \in Phys : m[p] # OwnByte(p) =>
       m[p] = "cc" /\ \E i \in list : PhysOf(i) = p /\ desc[i].Enabled

Armed(m, c) ==
  \A i \in list : desc[i].Enabled =>
    m[PhysOf(i)] = "cc" \/ \E d \in Cores : swBp'[d] = i \/ (d # c /\ hit[d] = i)

\* The search takes one byte out, and notes it in hit.
LEMMA LookupBytes ==
  ASSUME NoAliases, IInv, NEW c \in Cores, NEW exit, NEW m, Clean(m), Armed(m, c),
         Lookup(c, exit, m), SameDescs
  PROVE  /\ BytesOK' /\ mem' \in [Phys -> Bytes] /\ hit' \in [Cores -> 0 .. lastId]
         /\ hit'[c] = EntryAt(rip[c])
         /\ hit'[c] # NoBp => hit'[c] \in list /\ PhysOf(hit'[c]) = PhysAddress[rip[c]]
         /\ hit'[c] = NoBp => \A i \in list : PhysOf(i) # PhysAddress[rip[c]]
<1> DEFINE id == EntryAt(rip[c])
<1>1. /\ TypeOK /\ BytesOK /\ list \subseteq 1 .. lastId /\ rip[c] \in Addrs
      /\ \A i \in list : desc[i].addr \in Addrs /\ PhysOf(i) \in Phys
  BY BreakpointConstants, Zenon DEF IInv, TypeOK, Descriptor, PhysOf, Phys
<1>2. /\ id \in 0 .. lastId
      /\ id # NoBp => id \in list /\ PhysOf(id) = PhysAddress[rip[c]]
      /\ id = NoBp => \A i \in list : PhysOf(i) # PhysAddress[rip[c]]
  BY <1>1, EntryAtOK, Zenon DEF BytesOK
<1>3. /\ hit' = [hit EXCEPT ![c] = id]
      /\ mem' = IF id = NoBp THEN m ELSE [m EXCEPT ![PhysOf(id)] = desc[id].prev]
  BY Zenon DEF Lookup
<1>4. hit' \in [Cores -> 0 .. lastId] /\ hit'[c] = id /\ \A d \in Cores \ {c} : hit'[d] = hit[d]
  BY <1>1, <1>2, <1>3, Zenon DEF TypeOK
<1>5. id # NoBp => desc[id].prev = OwnByte(PhysOf(id))
  BY <1>1, <1>2, Zenon DEF BytesOK, SavedByteIsOwn
<1>6. mem' \in [Phys -> Bytes] /\ \A p \in Phys :
        mem'[p] = IF id # NoBp /\ p = PhysOf(id) THEN OwnByte(p) ELSE m[p]
  BY <1>1, <1>2, <1>3, <1>5, Zenon DEF Clean, OwnByte, Bytes
<1>7. (Unique /\ SavedByteIsOwn /\ DescOK)'
  BY <1>1, DescsKept, Zenon
<1>8. NoStrayInt3'
  BY <1>1, <1>6 DEF NoStrayInt3, Clean, SameDescs, PhysOf
<1>9. EnabledArmed'
  <2> SUFFICES ASSUME NEW i \in list, desc[i].Enabled
               PROVE  mem'[PhysOf(i)] = "cc" \/ \E d \in Cores : swBp'[d] = i \/ hit'[d] = i
    BY <1>1, Zenon DEF EnabledArmed, Lifted, SameDescs, PhysOf
  <2>1. CASE id # NoBp /\ PhysOf(i) = PhysOf(id)
    <3>1. i = id
      BY <1>1, <1>2, <2>1, Zenon DEF NoAliases, BytesOK, Unique, PhysOf
    <3> QED  BY <1>4, <3>1, Zenon
  <2>2. CASE ~(id # NoBp /\ PhysOf(i) = PhysOf(id))
    <3>1. mem'[PhysOf(i)] = m[PhysOf(i)]
      BY <1>1, <1>6, <2>2, Zenon
    <3> QED  BY <1>4, <3>1, Zenon DEF Armed
  <2> QED  BY <2>1, <2>2, Zenon
<1> QED  BY <1>2, <1>4, <1>6, <1>7, <1>8, <1>9, Zenon DEF BytesOK

LEMMA TrapKeeps ==
  ASSUME NoAliases, IInv, NEW c \in Cores, BreakpointHandleBpTraps(c)
  PROVE  IInv'
<1> USE DEF BreakpointHandleBpTraps, mtfVars, ifVars, haltVars
<1>1. HitOK(c) /\ OverOK(c) /\ MtfOK(c) /\ pc[c] = "trap" /\ hit[c] = NoBp /\ from[c] = "none"
  BY Zenon DEF IInv, CoreOK, HitOK, TypeOK
<1>2. CASE ~kd
  <2>m. /\ \E a \in Addrs : rip' = [rip EXCEPT ![c] = a]
        /\ pc' = [pc EXCEPT ![c] = "guest"]
        /\ UNCHANGED <<mem, from, hit, desc, list, lastId, kd, mtfVars, ifVars, haltVars>>
    BY <1>2, Zenon
  <2>t. /\ rip \in [Cores -> Addrs]
        /\ pc \in [Cores -> {"guest", "trap", "lock", "halt", "rearm", "mtf", "mtfEnd"}]
    BY Zenon DEF IInv, TypeOK
  <2>1. TypeOK'
    <3> HIDE DEF BreakpointHandleBpTraps
    <3>1. rip' \in [Cores -> Addrs]
      BY <2>m, <2>t, Moved, Zenon
    <3>2. pc' \in [Cores -> {"guest", "trap", "lock", "halt", "rearm", "mtf", "mtfEnd"}]
      BY <2>m, <2>t, Zenon
    <3> QED  BY <2>m, <3>1, <3>2, Zenon DEF IInv, TypeOK
  <2>2. \A d \in Cores \ {c} : Same(d)
    BY <1>2, Zenon DEF IInv, TypeOK, Same
  <2>3. pc'[c] = "guest"
    BY <1>2, Zenon DEF IInv, TypeOK
  <2>4. HitOK(c)'
    BY <1>1, <1>2, <2>3, Zenon DEF HitOK
  <2>5. OverOK(c)'
    BY <1>1, <1>2, <2>3, Zenon DEF OverOK
  <2>6. MtfOK(c)'
    BY <1>1, <1>2, <2>3, Zenon DEF MtfOK, Needed
  <2> QED  BY <1>2, <2>1, <2>2, <2>4, <2>5, <2>6, OneCore, Zenon
<1>3. CASE kd
  <2>1. Lookup(c, "bp", mem) /\ rip' = rip
    BY <1>3, Zenon
  <2>u. UNCHANGED <<desc, list, lastId, kd, mtfVars, ifVars, haltVars>>
    BY Zenon
  <2> HIDE DEF BreakpointHandleBpTraps
  <2>2. Clean(mem) /\ Armed(mem, c) /\ SameDescs
    <3>1. \A i \in list : i # NoBp
      BY DEF IInv, TypeOK, NoBp
    <3>2. mem \in [Phys -> Bytes]
      BY Zenon DEF IInv, TypeOK
    <3> QED  BY <1>1, <2>u, <3>1, <3>2, Zenon
             DEF IInv, BytesOK, NoStrayInt3, EnabledArmed, Lifted, Clean, Armed, SameDescs
  <2>3. /\ BytesOK' /\ mem' \in [Phys -> Bytes] /\ hit' \in [Cores -> 0 .. lastId]
        /\ hit'[c] = EntryAt(rip[c])
        /\ hit'[c] # NoBp => hit'[c] \in list /\ PhysOf(hit'[c]) = PhysAddress[rip[c]]
        /\ hit'[c] = NoBp => \A i \in list : PhysOf(i) # PhysAddress[rip[c]]
    BY <2>1, <2>2, LookupBytes
  <2>4. /\ pc'[c] \in {"lock", "rearm"} /\ from'[c] = "bp"
        /\ pc'[c] = "rearm" => hit'[c] # NoBp
        /\ pc' \in [Cores -> {"guest", "trap", "lock", "halt", "rearm", "mtf", "mtfEnd"}]
        /\ from' \in [Cores -> {"none", "bp", "mtf", "pause"}]
        /\ \A d \in Cores \ {c} : Same(d)
    <3>1. /\ pc \in [Cores -> {"guest", "trap", "lock", "halt", "rearm", "mtf", "mtfEnd"}]
          /\ from \in [Cores -> {"none", "bp", "mtf", "pause"}]
          /\ hit \in [Cores -> 0 .. lastId]
      BY Zenon DEF IInv, TypeOK
    <3>2. /\ from' = [from EXCEPT ![c] = "bp"]
          /\ \E i : hit' = [hit EXCEPT ![c] = i]
          /\ \E p \in {"lock", "rearm"} :
               pc' = [pc EXCEPT ![c] = p] /\ (p = "rearm" => EntryAt(rip[c]) # NoBp)
      BY <2>1, Zenon DEF Lookup
    <3> QED  BY <2>1, <2>3, <2>u, <3>1, <3>2, Zenon DEF Same
  <2>5. TypeOK'
    BY <2>1, <2>3, <2>4, <2>u, Zenon DEF IInv, TypeOK
  <2>6. swBp[c] # NoBp => swBp[c] \in list /\ PhysOf(swBp[c]) = PhysAddress[rip[c]]
    BY <1>1, <1>3, Zenon DEF OverOK
  <2>7. HitOK(c)'
    BY <1>3, <2>1, <2>3, <2>4, <2>6, <2>u, Zenon DEF HitOK, PhysOf
  <2>8. OverOK(c)'
    BY <1>1, <1>3, <2>1, <2>4, <2>u, Zenon DEF OverOK, PhysOf
  <2>9. MtfOK(c)'
    BY <1>1, <2>4, <2>u, Zenon DEF MtfOK, Needed
  <2>10. ASSUME NEW d \in Cores PROVE (HitOK(d) /\ OverOK(d) /\ MtfOK(d))'
    <3>1. CASE d = c
      BY <3>1, <2>7, <2>8, <2>9, Zenon
    <3>2. CASE d # c
      <4>1. HitOK(d) /\ OverOK(d) /\ MtfOK(d)
        BY DEF IInv, CoreOK
      <4>2. swBp[d] # NoBp => swBp[d] \in list' /\ desc'[swBp[d]].Enabled
        BY <4>1, <2>u, Zenon DEF OverOK
      <4> QED  BY <2>4, <2>u, <3>2, <4>1, <4>2, OtherCore, Zenon
    <3> QED  BY <3>1, <3>2, Zenon
  <2>11. ASSUME NEW d \in Cores PROVE MaskOK(d)'
    BY <2>u, Zenon DEF IInv, CoreOK, MaskOK
  <2> QED  BY <2>3, <2>5, <2>10, <2>11, Zenon DEF IInv, CoreOK
<1> QED  BY <1>2, <1>3, Zenon DEF IInv, TypeOK

LEMMA RearmKeeps ==
  ASSUME NoAliases, IInv, NEW c \in Cores, Rearm(c)
  PROVE  IInv'
<1> DEFINE id == hit[c]
           again == ~desc[id].AvoidReApply
<1>1. HitOK(c) /\ OverOK(c) /\ MtfOK(c) /\ pc[c] = "rearm" /\ id # NoBp /\ id \in 1 .. lastId
  BY DEF IInv, CoreOK, HitOK, Rearm, TypeOK, NoBp
<1>2. /\ SameDescs /\ mem' = mem /\ kd' = kd /\ rip' = rip
      /\ desc' \in [1 .. lastId -> Descriptor]
      /\ \A i \in 1 .. lastId : desc'[i].SetRflagsIF = (desc[i].SetRflagsIF \/ (i = id /\ again /\ IF_[c]))
  <2> DEFINE masks == again /\ IF_[c]
  <2>1. desc \in [1 .. lastId -> Descriptor] /\ masks \in BOOLEAN
    BY Zenon DEF IInv, TypeOK
  <2>2. desc' = [desc EXCEPT ![id] = [desc[id] EXCEPT !.SetRflagsIF = desc[id].SetRflagsIF \/ masks]]
    BY Zenon DEF Rearm
  <2> HIDE DEF masks, id
  <2>3. desc[id] \in Descriptor
    BY <1>1, <2>1, Zenon
  <2>4. [desc[id] EXCEPT !.SetRflagsIF = desc[id].SetRflagsIF \/ masks] \in Descriptor
    BY <2>1, <2>3, Zenon DEF Descriptor
  <2>5. desc' \in [1 .. lastId -> Descriptor]
    BY <1>1, <2>1, <2>2, <2>4, Zenon
  <2>6. \A i \in 1 .. lastId : desc'[i] = IF i = id THEN [desc[id] EXCEPT !.SetRflagsIF = desc[id].SetRflagsIF \/ masks] ELSE desc[i]
    BY <1>1, <2>1, <2>2, Zenon
  <2>7. \A i \in 1 .. lastId : i # id => desc'[i] = desc[i]
    BY <2>6, Zenon
  <2>8. /\ desc'[id].addr = desc[id].addr /\ desc'[id].prev = desc[id].prev
        /\ desc'[id].Enabled = desc[id].Enabled /\ desc'[id].AvoidReApply = desc[id].AvoidReApply
        /\ desc'[id].SetRflagsIF = (desc[id].SetRflagsIF \/ masks)
    BY <1>1, <2>3, <2>6, Zenon DEF Descriptor
  <2>9. \A i \in 1 .. lastId : desc[i].SetRflagsIF \in BOOLEAN
    BY <2>1, Zenon DEF Descriptor
  <2>10. UNCHANGED <<lastId, list, mem, kd, rip>>
    BY Zenon DEF Rearm
  <2>11. SameDescs
    BY <2>7, <2>8, <2>10, Zenon DEF SameDescs
  <2>12. \A i \in 1 .. lastId : desc'[i].SetRflagsIF = (desc[i].SetRflagsIF \/ (i = id /\ masks))
    BY <2>7, <2>8, <2>9, Zenon
  <2> QED  BY <2>5, <2>10, <2>11, <2>12, Zenon DEF masks
<1>3. again => id \in list /\ desc[id].Enabled
  BY <1>1, Zenon DEF IInv, BytesOK, DescOK
<1>4. /\ \A d \in Cores \ {c} : Same(d) /\ IF_'[d] = IF_[d]
      /\ swBp'[c] = IF again THEN id ELSE swBp[c]
      /\ mtf'[c] = (mtf[c] \/ again) /\ stepWait'[c] = stepWait[c]
      /\ ignoreUnset'[c] = IF from[c] = "mtf" THEN again ELSE ignoreUnset[c]
      /\ hit'[c] = NoBp /\ from'[c] = "none"
      /\ pc'[c] = IF from[c] = "mtf" THEN "mtfEnd" ELSE "guest"
      /\ IF_'[c] = (IF_[c] /\ ~again)
  BY Zenon DEF IInv, TypeOK, Rearm, Same
<1>5. again /\ swBp[c] # NoBp => swBp[c] = id
  <2> SUFFICES ASSUME again, swBp[c] # NoBp PROVE swBp[c] = id
    OBVIOUS
  <2>1. from[c] = "bp" /\ kd
    BY <1>1, Zenon DEF HitOK, MtfOK, IInv, TypeOK
  <2>2. swBp[c] \in list /\ PhysOf(swBp[c]) = PhysOf(id)
    BY <1>1, <2>1, Zenon DEF OverOK, HitOK
  <2>3. \A i \in list : desc[i].addr \in Addrs
    BY Zenon DEF IInv, TypeOK, Descriptor
  <2>4. desc[swBp[c]].addr = desc[id].addr
    BY <1>3, <2>2, <2>3, Zenon DEF NoAliases, PhysOf
  <2> QED  BY <1>3, <2>2, <2>4, Zenon DEF IInv, BytesOK, Unique
<1>6. TypeOK'
  <2>1. UNCHANGED <<mem, list, lastId, kd, rip, stepWait, operating, stopped>>
    BY Zenon DEF Rearm, haltVars
  <2>2. pc' \in [Cores -> {"guest", "trap", "lock", "halt", "rearm", "mtf", "mtfEnd"}]
    BY Zenon DEF Rearm, IInv, TypeOK
  <2>3. from' \in [Cores -> {"none", "bp", "mtf", "pause"}]
    BY Zenon DEF Rearm, IInv, TypeOK
  <2>4. swBp' \in [Cores -> 0 .. lastId] /\ hit' \in [Cores -> 0 .. lastId]
    BY DEF Rearm, IInv, TypeOK, NoBp
  <2>5. /\ mtf' \in [Cores -> BOOLEAN] /\ ignoreUnset' \in [Cores -> BOOLEAN]
        /\ IF_' \in [Cores -> BOOLEAN] /\ overlapped' \subseteq Cores
    BY Zenon DEF Rearm, IInv, TypeOK
  <2> QED  BY <1>2, <2>1, <2>2, <2>3, <2>4, <2>5, Zenon DEF IInv, TypeOK
<1>7. BytesOK'
  <2>1. (Unique /\ SavedByteIsOwn /\ DescOK)'
    BY <1>2, DescsKept, Zenon DEF IInv
  <2>2. list \subseteq 1 .. lastId
    BY Zenon DEF IInv, TypeOK
  <2>3. NoStrayInt3'
    BY <1>2, <2>2 DEF IInv, BytesOK, NoStrayInt3, SameDescs, PhysOf
  <2>4. EnabledArmed'
    <3> SUFFICES ASSUME NEW i \in list, desc[i].Enabled, mem[PhysOf(i)] # "cc"
                 PROVE  \E d \in Cores : swBp'[d] = i \/ hit'[d] = i
      BY <1>2, <2>2, Zenon DEF EnabledArmed, Lifted, SameDescs, PhysOf
    <3>1. PICK d \in Cores : swBp[d] = i \/ hit[d] = i
      BY Zenon DEF IInv, BytesOK, EnabledArmed, Lifted
    <3>2. CASE d # c
      BY <1>4, <3>1, <3>2, Zenon DEF Same
    <3>3. CASE d = c
      <4>1. i # NoBp
        BY <2>2 DEF NoBp
      <4>2. hit[c] = i => again
        BY <2>2, Zenon DEF IInv, BytesOK, DescOK
      <4> QED  BY <1>4, <1>5, <3>1, <3>3, <4>1, <4>2, Zenon
    <3> QED  BY <3>2, <3>3
  <2> QED  BY <2>1, <2>3, <2>4 DEF BytesOK
<1>8. ASSUME NEW d \in Cores PROVE (HitOK(d) /\ OverOK(d) /\ MtfOK(d))'
  <2>0. HitOK(d) /\ OverOK(d) /\ MtfOK(d) /\ hit[d] \in 0 .. lastId /\ list \subseteq 1 .. lastId
    BY Zenon DEF IInv, CoreOK, TypeOK
  <2>1. CASE d # c
    <3>1. hit[d] # NoBp => hit[d] \in 1 .. lastId
      BY <2>0 DEF NoBp
    <3>2. swBp[d] # NoBp => swBp[d] \in list /\ desc[swBp[d]].Enabled
      BY <2>0, Zenon DEF OverOK
    <3>3. swBp[d] # NoBp => /\ swBp[d] \in list' /\ desc'[swBp[d]].Enabled
                            /\ desc'[swBp[d]].addr = desc[swBp[d]].addr
      BY <1>2, <2>0, <3>2, Zenon DEF SameDescs
    <3>4. hit[d] # NoBp => /\ desc'[hit[d]].addr = desc[hit[d]].addr
                           /\ desc'[hit[d]].AvoidReApply = desc[hit[d]].AvoidReApply
      BY <1>2, <3>1, Zenon DEF SameDescs
    <3> QED  BY <1>2, <1>4, <2>0, <2>1, <3>3, <3>4, OtherCore, Zenon
  <2>2. CASE d = c
    <3>1. HitOK(c)'
      BY <1>4, Zenon DEF HitOK
    <3>2. OverOK(c)'
      <4>1. swBp'[c] # NoBp => swBp'[c] \in list /\ desc[swBp'[c]].Enabled
        BY <1>1, <1>3, <1>4, Zenon DEF OverOK
      <4>2. swBp'[c] # NoBp /\ kd => PhysOf(swBp'[c]) = PhysAddress[rip[c]]
        BY <1>1, <1>4, Zenon DEF OverOK, HitOK
      <4> QED  BY <1>2, <2>0, <4>1, <4>2, Zenon DEF OverOK, SameDescs, PhysOf
    <3>3. MtfOK(c)'
      BY <1>1, <1>4, Zenon DEF MtfOK, Needed, HitOK, IInv, TypeOK
    <3> QED  BY <2>2, <3>1, <3>2, <3>3
  <2> QED  BY <2>1, <2>2, Zenon
<1>9. ASSUME NEW d \in Cores PROVE MaskOK(d)'
  <2> DEFINE others == {e \in Cores \ {c} : swBp[e] = id}
  <2>1. /\ \A e \in Cores : MaskOK(e) /\ swBp[e] \in 0 .. lastId /\ IF_[e] \in BOOLEAN
        /\ overlapped' = IF again /\ others # {} THEN overlapped \cup others \cup {c} ELSE overlapped
    BY Zenon DEF IInv, CoreOK, TypeOK, Rearm
  <2>2. \A e \in Cores : swBp[e] # NoBp /\ desc[swBp[e]].SetRflagsIF => desc'[swBp[e]].SetRflagsIF
    <3>1. ASSUME NEW e \in Cores, swBp[e] # NoBp, desc[swBp[e]].SetRflagsIF
          PROVE  desc'[swBp[e]].SetRflagsIF
      <4>1. swBp[e] \in 1 .. lastId
        BY <2>1, <3>1 DEF NoBp
      <4>2. desc'[swBp[e]].SetRflagsIF = (desc[swBp[e]].SetRflagsIF \/ (swBp[e] = id /\ again /\ IF_[c]))
        BY <1>2, <4>1, Zenon
      <4> QED  BY <3>1, <4>2, Zenon
    <3> QED  BY <3>1, Zenon
  <2>3. ~IF_'[d] /\ d \notin overlapped' => swBp'[d] # NoBp /\ desc'[swBp'[d]].SetRflagsIF
    <3>1. CASE d # c
      BY <1>4, <2>1, <2>2, <3>1, Zenon DEF MaskOK, Same
    <3>2. CASE d = c /\ again /\ IF_[c]
      BY <1>1, <1>2, <1>4, <3>2, Zenon
    <3>3. CASE d = c /\ ~(again /\ IF_[c])
      BY <1>4, <1>5, <2>1, <2>2, <3>3, Zenon DEF MaskOK
    <3> QED  BY <3>1, <3>2, <3>3, Zenon
  <2>4. ASSUME NEW e \in Cores, e # d, swBp'[e] = swBp'[d], swBp'[d] # NoBp
        PROVE  d \in overlapped'
    <3>1. CASE ~again \/ (d # c /\ e # c)
      BY <1>4, <2>1, <2>4, <3>1 DEF MaskOK, Same
    <3>2. CASE again /\ d = c
      <4>1. e \in others
        BY <1>4, <2>4, <3>2, Zenon DEF Same
      <4> QED  BY <2>1, <3>2, <4>1, Zenon
    <3>3. CASE again /\ e = c
      <4>1. d \in others
        BY <1>4, <2>4, <3>3, Zenon DEF Same
      <4> QED  BY <2>1, <3>3, <4>1, Zenon
    <3> QED  BY <3>1, <3>2, <3>3, Zenon
  <2> QED  BY <2>3, <2>4, Zenon DEF MaskOK
<1> QED  BY <1>6, <1>7, <1>8, <1>9, Zenon DEF IInv, CoreOK

\* The handler of the monitor trap flag puts the byte back.
LEMMA MtfKeeps ==
  ASSUME NoAliases, IInv, NEW c \in Cores, MtfHandleVmexit(c)
  PROVE  IInv'
<1> DEFINE id == swBp[c]
           sets == id # NoBp /\ desc[id].SetRflagsIF
<1>1. /\ HitOK(c) /\ OverOK(c) /\ MtfOK(c) /\ pc[c] = "mtf" /\ hit[c] = NoBp /\ from[c] = "none"
      /\ mtf[c] /\ id \in 0 .. lastId /\ list \subseteq 1 .. lastId /\ sets \in BOOLEAN
      /\ id # NoBp => id \in 1 .. lastId /\ id \in list /\ desc[id].Enabled
  <2>1. HitOK(c) /\ OverOK(c) /\ MtfOK(c) /\ pc[c] = "mtf"
    BY Zenon DEF IInv, CoreOK, MtfHandleVmexit
  <2>2. hit[c] = NoBp /\ from[c] = "none" /\ mtf[c]
    BY <2>1, Zenon DEF HitOK, MtfOK, IInv, TypeOK
  <2>3. desc \in [1 .. lastId -> Descriptor] /\ id \in 0 .. lastId /\ list \subseteq 1 .. lastId
    BY Zenon DEF IInv, TypeOK
  <2>4. id # NoBp => id \in 1 .. lastId /\ desc[id].SetRflagsIF \in BOOLEAN
    BY <2>3 DEF NoBp, Descriptor
  <2> QED  BY <2>1, <2>2, <2>3, <2>4, Zenon DEF OverOK
<1>2. /\ SameDescs /\ kd' = kd /\ rip' = rip
      /\ desc' \in [1 .. lastId -> Descriptor]
      /\ \A i \in 1 .. lastId : i # id => desc'[i] = desc[i]
  <2>1. desc \in [1 .. lastId -> Descriptor]
    BY Zenon DEF IInv, TypeOK
  <2>2. UNCHANGED <<lastId, list, kd, rip>>
    BY DEF MtfHandleVmexit
  <2>3. desc' = IF sets THEN [desc EXCEPT ![id] = [desc[id] EXCEPT !.SetRflagsIF = FALSE]] ELSE desc
    BY Zenon DEF MtfHandleVmexit, Unmask
  <2>4. CASE ~sets
    BY <2>1, <2>2, <2>3, <2>4, Zenon DEF SameDescs
  <2>5. CASE sets
    <3>1. id \in 1 .. lastId /\ desc[id] \in Descriptor
      BY <1>1, <2>1, <2>5, Zenon
    <3> HIDE DEF id, sets
    <3>2. [desc[id] EXCEPT !.SetRflagsIF = FALSE] \in Descriptor
      BY <3>1, Zenon DEF Descriptor
    <3>3. desc' \in [1 .. lastId -> Descriptor]
      BY <2>1, <2>3, <2>5, <3>1, <3>2, Zenon
    <3>4. \A i \in 1 .. lastId : i # id => desc'[i] = desc[i]
      BY <2>1, <2>3, <2>5, <3>1, Zenon
    <3>5. desc'[id] = [desc[id] EXCEPT !.SetRflagsIF = FALSE]
      BY <2>1, <2>3, <2>5, <3>1, Zenon
    <3>6. /\ desc'[id].addr = desc[id].addr /\ desc'[id].prev = desc[id].prev
          /\ desc'[id].Enabled = desc[id].Enabled /\ desc'[id].AvoidReApply = desc[id].AvoidReApply
      BY <3>1, <3>5, Zenon DEF Descriptor
    <3> QED  BY <2>2, <3>3, <3>4, <3>6, Zenon DEF SameDescs
  <2> QED  BY <2>4, <2>5, Zenon
<1>3. /\ swBp' = [swBp EXCEPT ![c] = NoBp] /\ swBp'[c] = NoBp /\ stepWait'[c] = FALSE
      /\ ignoreUnset'[c] = FALSE /\ mtf'[c] = mtf[c] /\ IF_'[c] = (IF_[c] \/ sets)
      /\ overlapped' = overlapped
      /\ \A d \in Cores \ {c} : Same(d) /\ IF_'[d] = IF_[d]
  BY Zenon DEF IInv, TypeOK, MtfHandleVmexit, Unmask, Lookup, Same
<1>4. Clean(Reapplied(c)) /\ Armed(Reapplied(c), c)
  <2>1. \A i \in list : i # NoBp /\ PhysOf(i) \in Phys
    BY <1>1, BreakpointConstants DEF NoBp, IInv, TypeOK, Descriptor, PhysOf, Phys
  <2>2. Clean(mem)
    BY Zenon DEF IInv, TypeOK, BytesOK, NoStrayInt3, Clean
  <2>3. \A i \in list : desc[i].Enabled =>
           mem[PhysOf(i)] = "cc" \/ \E d \in Cores : swBp[d] = i \/ (d # c /\ hit[d] = i)
    BY <1>1, <2>1, Zenon DEF IInv, BytesOK, EnabledArmed, Lifted
  <2>4. CASE id = NoBp
    <3>1. Reapplied(c) = mem
      BY <2>4 DEF Reapplied
    <3>2. Armed(mem, c)
      BY <1>3, <2>1, <2>3, <2>4 DEF Armed, Same
    <3> QED  BY <2>2, <3>1, <3>2, Zenon
  <2>5. CASE id # NoBp
    <3> DEFINE m == [mem EXCEPT ![PhysOf(id)] = "cc"]
    <3>1. Reapplied(c) = m /\ m[PhysOf(id)] = "cc"
      BY <1>1, <2>1, <2>2, <2>5, Zenon DEF Reapplied, Clean
    <3>2. m \in [Phys -> Bytes] /\ \A p \in Phys : m[p] = IF p = PhysOf(id) THEN "cc" ELSE mem[p]
      BY <1>1, <2>1, <2>2, <2>5, Zenon DEF Clean, Bytes
    <3> HIDE DEF m
    <3>3. Clean(m)
      BY <1>1, <2>2, <2>5, <3>2 DEF Clean
    <3>4. Armed(m, c)
      <4> SUFFICES ASSUME NEW i \in list, desc[i].Enabled, m[PhysOf(i)] # "cc"
                   PROVE  \E d \in Cores : swBp'[d] = i \/ (d # c /\ hit[d] = i)
        BY Zenon DEF Armed
      <4>1. mem[PhysOf(i)] # "cc" /\ i # id
        BY <2>1, <3>1, <3>2, Zenon
      <4>2. PICK d \in Cores : swBp[d] = i \/ (d # c /\ hit[d] = i)
        BY <2>3, <4>1
      <4> QED  BY <1>3, <4>1, <4>2, Zenon DEF Same
    <3> QED  BY <3>1, <3>3, <3>4, Zenon
  <2> QED  BY <2>4, <2>5, Zenon
<1>5. /\ BytesOK' /\ mem' \in [Phys -> Bytes] /\ hit' \in [Cores -> 0 .. lastId]
      /\ hit'[c] # NoBp => hit'[c] \in list /\ PhysOf(hit'[c]) = PhysAddress[rip[c]]
  <2>1. CASE stepWait[c]
    <3>1. Lookup(c, "mtf", Reapplied(c))
      BY <2>1, Zenon DEF MtfHandleVmexit
    <3> QED  BY <1>2, <1>4, <3>1, LookupBytes, Zenon
  <2>2. CASE ~stepWait[c]
    <3>1. mem' = Reapplied(c) /\ hit' = hit
      BY <2>2 DEF MtfHandleVmexit
    <3>2. (Unique /\ SavedByteIsOwn /\ DescOK)'
      BY <1>2, DescsKept, Zenon DEF IInv
    <3> DEFINE m == Reapplied(c)
    <3>0. list' = list /\ \A i \in list : PhysOf(i)' = PhysOf(i) /\ desc'[i].Enabled = desc[i].Enabled
      BY <1>1, <1>2, Zenon DEF SameDescs, PhysOf
    <3>5. Clean(m) /\ Armed(m, c) /\ mem' = m
      BY <1>4, <3>1, Zenon
    <3> HIDE DEF m
    <3>3. NoStrayInt3'
      BY <3>0, <3>5 DEF NoStrayInt3, Clean
    <3>4. EnabledArmed'
      <4> SUFFICES ASSUME NEW i \in list, desc[i].Enabled, m[PhysOf(i)] # "cc"
                   PROVE  \E d \in Cores : swBp'[d] = i \/ hit'[d] = i
        BY <3>0, <3>5, Zenon DEF EnabledArmed, Lifted
      <4> QED  BY <3>1, <3>5, Zenon DEF Armed
    <3>6. mem' \in [Phys -> Bytes] /\ hit' \in [Cores -> 0 .. lastId] /\ hit'[c] = NoBp
      BY <1>1, <3>1, <3>5, Zenon DEF Clean, IInv, TypeOK
    <3> QED  BY <3>2, <3>3, <3>4, <3>6, Zenon DEF BytesOK
  <2> QED  BY <2>1, <2>2, Zenon
<1>6. /\ pc' \in [Cores -> {"guest", "trap", "lock", "halt", "rearm", "mtf", "mtfEnd"}]
      /\ from' \in [Cores -> {"none", "bp", "mtf", "pause"}]
      /\ \/ pc'[c] = "mtfEnd" /\ from'[c] = "none" /\ hit'[c] = NoBp
         \/ pc'[c] \in {"lock", "rearm"} /\ from'[c] = "mtf" /\ (pc'[c] = "rearm" => hit'[c] # NoBp)
  <2>1. /\ pc \in [Cores -> {"guest", "trap", "lock", "halt", "rearm", "mtf", "mtfEnd"}]
        /\ from \in [Cores -> {"none", "bp", "mtf", "pause"}] /\ hit \in [Cores -> 0 .. lastId]
        /\ hit[c] = NoBp /\ from[c] = "none"
    BY <1>1, Zenon DEF IInv, TypeOK
  <2>2. CASE stepWait[c]
    <3>1. Lookup(c, "mtf", Reapplied(c))
      BY <2>2 DEF MtfHandleVmexit
    <3> QED  BY <2>1, <3>1, Zenon DEF Lookup
  <2>3. CASE ~stepWait[c]
    <3>1. pc' = [pc EXCEPT ![c] = "mtfEnd"] /\ from' = from /\ hit' = hit
      BY <2>3, Zenon DEF MtfHandleVmexit
    <3> QED  BY <2>1, <3>1, Zenon
  <2> QED  BY <2>2, <2>3, Zenon
<1>7. TypeOK'
  <2>1. UNCHANGED <<list, lastId, kd, rip, mtf, overlapped, operating, stopped>>
    BY Zenon DEF MtfHandleVmexit, haltVars
  <2>2. swBp' \in [Cores -> 0 .. lastId]
    <3>1. swBp \in [Cores -> 0 .. lastId] /\ lastId \in 0 .. MaxBreakpointId
      BY Zenon DEF IInv, TypeOK
    <3>2. NoBp \in 0 .. lastId
      BY <3>1, BreakpointConstants DEF NoBp
    <3>3. swBp' = [swBp EXCEPT ![c] = NoBp]
      BY <1>3, Zenon
    <3> QED  BY <3>1, <3>2, <3>3, Zenon
  <2>3. /\ stepWait' \in [Cores -> BOOLEAN] /\ ignoreUnset' \in [Cores -> BOOLEAN]
        /\ IF_' \in [Cores -> BOOLEAN]
    BY <1>1, Zenon DEF MtfHandleVmexit, Unmask, IInv, TypeOK
  <2> QED  BY <1>2, <1>5, <1>6, <2>1, <2>2, <2>3, Zenon DEF IInv, TypeOK
<1>8. ASSUME NEW d \in Cores PROVE (HitOK(d) /\ OverOK(d) /\ MtfOK(d))'
  <2>0. HitOK(d) /\ OverOK(d) /\ MtfOK(d) /\ hit[d] \in 0 .. lastId
    BY Zenon DEF IInv, CoreOK, TypeOK
  <2>1. CASE d # c
    <3>1. hit[d] # NoBp => hit[d] \in 1 .. lastId
      <4>1. hit[d] \in 0 .. lastId
        BY <2>0, Zenon
      <4> QED  BY <4>1 DEF NoBp
    <3>2. swBp[d] # NoBp => swBp[d] \in list /\ desc[swBp[d]].Enabled
      BY <2>0, Zenon DEF OverOK
    <3>3. swBp[d] # NoBp => /\ swBp[d] \in list' /\ desc'[swBp[d]].Enabled
                            /\ desc'[swBp[d]].addr = desc[swBp[d]].addr
      BY <1>1, <1>2, <3>2, Zenon DEF SameDescs
    <3>4. hit[d] # NoBp => /\ desc'[hit[d]].addr = desc[hit[d]].addr
                           /\ desc'[hit[d]].AvoidReApply = desc[hit[d]].AvoidReApply
      BY <1>2, <3>1, Zenon DEF SameDescs
    <3> QED  BY <1>2, <1>3, <2>0, <2>1, <3>3, <3>4, OtherCore, Zenon
  <2>2. CASE d = c
    <3>1. HitOK(c)'
      BY <1>1, <1>2, <1>5, <1>6, Zenon DEF HitOK, SameDescs, PhysOf
    <3>2. OverOK(c)'
      BY <1>3, Zenon DEF OverOK
    <3>3. MtfOK(c)'
      BY <1>1, <1>3, <1>6, Zenon DEF MtfOK, Needed
    <3> QED  BY <2>2, <3>1, <3>2, <3>3, Zenon
  <2> QED  BY <2>1, <2>2, Zenon
<1>9. ASSUME NEW d \in Cores PROVE MaskOK(d)'
  <2>1. \A e \in Cores : MaskOK(e) /\ swBp[e] \in 0 .. lastId /\ IF_[e] \in BOOLEAN
    BY Zenon DEF IInv, CoreOK, TypeOK
  <2>2. ~IF_'[d] /\ d \notin overlapped' => swBp'[d] # NoBp /\ desc'[swBp'[d]].SetRflagsIF
    <3>1. CASE d # c
      <4> SUFFICES ASSUME ~IF_[d], d \notin overlapped PROVE swBp[d] # NoBp /\ desc'[swBp[d]].SetRflagsIF
        BY <1>3, <3>1, Zenon DEF Same
      <4>1. swBp[d] # NoBp /\ desc[swBp[d]].SetRflagsIF
        BY <2>1, Zenon DEF MaskOK
      <4>2. swBp[d] # id /\ swBp[d] \in 1 .. lastId
        BY <2>1, <3>1, <4>1 DEF MaskOK, NoBp
      <4> QED  BY <1>2, <4>1, <4>2, Zenon
    <3>2. CASE d = c
      BY <1>3, <2>1, <3>2, Zenon DEF MaskOK
    <3> QED  BY <3>1, <3>2, Zenon
  <2>3. \A e \in Cores : e # d /\ swBp'[e] = swBp'[d] /\ swBp'[d] # NoBp => d \in overlapped'
    BY <1>3, <2>1 DEF MaskOK, Same
  <2> QED  BY <2>2, <2>3, Zenon DEF MaskOK
<1> QED  BY <1>5, <1>7, <1>8, <1>9, Zenon DEF IInv, CoreOK
-----------------------------------------------------------------------------
(* The commands                                                              *)

\* A command that leaves the cores alone keeps the cores' part of the invariant.
LEMMA CoresKept ==
  ASSUME IInv, UNCHANGED <<coreVars, mtfVars, ifVars, kd>>,
         \A d \in Cores : hit[d] # NoBp =>
            /\ desc'[hit[d]].addr = desc[hit[d]].addr
            /\ pc[d] = "rearm" => desc'[hit[d]].AvoidReApply = desc[hit[d]].AvoidReApply,
         \A d \in Cores : swBp[d] # NoBp => swBp[d] \in list' /\ desc'[swBp[d]] = desc[swBp[d]]
  PROVE  CoreOK'
<1>1. ASSUME NEW d \in Cores PROVE (HitOK(d) /\ OverOK(d) /\ MtfOK(d))'
  <2>1. HitOK(d) /\ OverOK(d) /\ MtfOK(d) /\ Same(d)
    BY Zenon DEF IInv, CoreOK, Same, coreVars, mtfVars
  <2>2. swBp[d] # NoBp => desc'[swBp[d]].Enabled
    BY <2>1, Zenon DEF OverOK
  <2> QED  BY <2>1, <2>2, OtherCore, Zenon
<1>2. ASSUME NEW d \in Cores PROVE MaskOK(d)'
  BY Zenon DEF IInv, CoreOK, MaskOK, mtfVars, ifVars
<1> QED  BY <1>1, <1>2, Zenon DEF CoreOK

\* At an address without a breakpoint that is on, the byte is the guest's own.
LEMMA OwnByteThere ==
  ASSUME NoAliases, IInv, NEW a \in Addrs, \A i \in list : desc[i].addr = a => ~desc[i].Enabled
  PROVE  mem[PhysAddress[a]] = OwnByte(PhysAddress[a]) /\ PhysAddress[a] \in Phys
<1>1. \A i \in list : desc[i].addr \in Addrs
  BY Zenon DEF IInv, TypeOK, Descriptor
<1>2. PhysAddress[a] \in Phys
  BY Zenon DEF Phys
<1>3. \A i \in list : PhysOf(i) = PhysAddress[a] => ~desc[i].Enabled
  BY <1>1, Zenon DEF NoAliases, PhysOf
<1> QED  BY <1>2, <1>3, Zenon DEF IInv, BytesOK, NoStrayInt3

LEMMA EnableKeeps ==
  ASSUME QuietCommands, NoAliases, IInv, NEW c \in Cores, NEW id \in list, NEW safe \in BOOLEAN,
         Enable(c, id, safe)
  PROVE  IInv'
<1>1. /\ list \subseteq 1 .. lastId /\ id \in 1 .. lastId /\ desc \in [1 .. lastId -> Descriptor]
      /\ desc[id] \in Descriptor /\ desc[id].addr \in Addrs /\ mem \in [Phys -> Bytes]
  BY Zenon DEF IInv, TypeOK, Descriptor
<1>2. mem[PhysOf(id)] = OwnByte(PhysOf(id)) /\ PhysOf(id) \in Phys
  <2>1. \A i \in list : desc[i].addr = desc[id].addr => ~desc[i].Enabled
    BY Zenon DEF IInv, BytesOK, Unique, Enable
  <2> QED  BY <1>1, <2>1, OwnByteThere, Zenon DEF PhysOf
<1>3. Reads(c) /\ Quiet(c, id) /\ UNCHANGED <<list, lastId, kd, coreVars, mtfVars, ifVars, haltVars>>
  BY Zenon DEF Enable, MayModify
<1>4. CASE ~safe
  <2>1. UNCHANGED <<mem, desc, list, lastId, hit, swBp>>
    BY <1>4, Zenon DEF Enable, coreVars, mtfVars
  <2>2. TypeOK'
    BY <1>3, <2>1, Zenon DEF IInv, TypeOK, coreVars, mtfVars, ifVars, haltVars
  <2>3. CoreOK'
    <3>1. \A d \in Cores : swBp[d] # NoBp => swBp[d] \in list
      BY Zenon DEF IInv, CoreOK, OverOK
    <3> QED  BY <1>3, <2>1, <3>1, CoresKept, Zenon
  <2> QED  BY <2>1, <2>2, <2>3, BytesUntouched, Zenon DEF IInv
<1>5. CASE safe
  <2> DEFINE new == BreakpointWrite(desc[id])
  <2>1. desc' = [desc EXCEPT ![id] = new] /\ mem' = [mem EXCEPT ![PhysOf(id)] = "cc"]
    BY <1>5, Zenon DEF Enable
  <2>2. /\ new \in Descriptor /\ new.addr = desc[id].addr /\ new.prev = OwnByte(PhysOf(id))
        /\ new.Enabled = TRUE /\ new.AvoidReApply = FALSE
    BY <1>1, <1>2, Zenon DEF BreakpointWrite, Descriptor, PhysOf, OwnByte, Bytes
  <2> HIDE DEF new
  <2>3. /\ desc' \in [1 .. lastId -> Descriptor] /\ desc'[id] = new
        /\ \A i \in 1 .. lastId : i # id => desc'[i] = desc[i]
    BY <1>1, <2>1, <2>2, Zenon
  <2>4. /\ mem' \in [Phys -> Bytes]
        /\ \A p \in Phys : mem'[p] = IF p = PhysOf(id) THEN "cc" ELSE mem[p]
    BY <1>1, <1>2, <2>1, Zenon DEF Bytes
  <2>5. \A i \in list : PhysOf(i)' = PhysOf(i) /\ PhysOf(i) \in Phys
    BY <1>1, <2>2, <2>3, BreakpointConstants, Zenon DEF PhysOf, Phys, Descriptor
  <2>6. TypeOK'
    BY <1>3, <2>3, <2>4, Zenon DEF IInv, TypeOK, coreVars, mtfVars, ifVars, haltVars
  <2>7. Unique'
    <3>1. \A i \in list : desc'[i].addr = desc[i].addr
      BY <1>1, <2>2, <2>3, Zenon
    <3> QED  BY <1>3, <3>1 DEF IInv, BytesOK, Unique
  <2>8. SavedByteIsOwn'
    BY <1>1, <1>3, <2>2, <2>3, <2>5, Zenon DEF IInv, BytesOK, SavedByteIsOwn
  <2>9. NoStrayInt3'
    <3> SUFFICES ASSUME NEW p \in Phys, mem'[p] # OwnByte(p)
                 PROVE  mem'[p] = "cc" /\ \E i \in list : PhysOf(i) = p /\ desc'[i].Enabled
      BY <1>3, <2>5, Zenon DEF NoStrayInt3
    <3>1. CASE p = PhysOf(id)
      BY <2>2, <2>3, <2>4, <3>1, Zenon
    <3>2. CASE p # PhysOf(id)
      BY <1>1, <2>2, <2>3, <2>4, <3>2, Zenon DEF IInv, BytesOK, NoStrayInt3
    <3> QED  BY <3>1, <3>2, Zenon
  <2>10. EnabledArmed'
    <3> SUFFICES ASSUME NEW i \in list, desc'[i].Enabled, mem'[PhysOf(i)] # "cc"
                 PROVE  \E d \in Cores : Lifted(d, i)
      BY <1>3, <2>5, Zenon DEF EnabledArmed, Lifted, coreVars, mtfVars
    <3>1. i # id /\ desc[i].Enabled /\ mem[PhysOf(i)] # "cc"
      BY <1>1, <2>3, <2>4, <2>5, Zenon
    <3> QED  BY <3>1, Zenon DEF IInv, BytesOK, EnabledArmed
  <2>11. DescOK'
    BY <1>1, <1>3, <2>2, <2>3, Zenon DEF IInv, BytesOK, DescOK
  <2>12. CoreOK'
    <3>1. \A d \in Cores : swBp[d] # NoBp => swBp[d] \in list' /\ desc'[swBp[d]] = desc[swBp[d]]
      BY <1>1, <1>3, <2>3, Zenon DEF IInv, CoreOK, OverOK, Quiet
    <3>2. ASSUME NEW d \in Cores, hit[d] # NoBp
          PROVE  /\ desc'[hit[d]].addr = desc[hit[d]].addr
                 /\ pc[d] = "rearm" => desc'[hit[d]].AvoidReApply = desc[hit[d]].AvoidReApply
      <4>1. hit[d] \in 1 .. lastId
        BY <3>2 DEF IInv, TypeOK, NoBp
      <4>2. hit[d] = id => pc[d] = "halt"
        BY <1>3, Zenon DEF Quiet, Reads
      <4> QED  BY <2>2, <2>3, <4>1, <4>2, Zenon
    <3> QED  BY <1>3, <3>1, <3>2, CoresKept, Zenon
  <2> QED  BY <2>6, <2>7, <2>8, <2>9, <2>10, <2>11, <2>12, Zenon DEF IInv, BytesOK
<1> QED  BY <1>4, <1>5, Zenon

\* BreakpointClear, with or without unlinking: no core is stepping over the
\* breakpoint, so its byte is in memory if it is on.
LEMMA ClearKeeps ==
  ASSUME QuietCommands, NoAliases, IInv, NEW c \in Cores, NEW id \in list, NEW safe \in BOOLEAN,
         hit[c] = id => safe, MayModify(c, id), BreakpointClear(id, safe),
         list' \in {list, list \ {id}}, UNCHANGED <<lastId, kd, coreVars, mtfVars, ifVars, haltVars>>
  PROVE  IInv'
<1> DEFINE cleared == safe \/ mem[PhysOf(id)] = "cc"
           new == [desc[id] EXCEPT !.Enabled = FALSE, !.AvoidReApply = TRUE]
<1>1. /\ list \subseteq 1 .. lastId /\ id \in 1 .. lastId /\ desc \in [1 .. lastId -> Descriptor]
      /\ desc[id] \in Descriptor /\ desc[id].addr \in Addrs /\ mem \in [Phys -> Bytes] /\ id # NoBp
      /\ PhysOf(id) \in Phys
  BY BreakpointConstants DEF IInv, TypeOK, Descriptor, PhysOf, Phys, NoBp
<1>2. Reads(c) /\ Quiet(c, id)
  BY Zenon DEF MayModify
<1>3. desc[id].Enabled => cleared
  BY <1>2, Zenon DEF IInv, BytesOK, EnabledArmed, Lifted, Quiet
<1>4. ~desc[id].Enabled => mem[PhysOf(id)] = OwnByte(PhysOf(id))
  <2> SUFFICES ASSUME ~desc[id].Enabled PROVE mem[PhysOf(id)] = OwnByte(PhysOf(id))
    BY Zenon
  <2>1. \A i \in list : desc[i].addr = desc[id].addr => ~desc[i].Enabled
    BY Zenon DEF IInv, BytesOK, Unique
  <2> QED  BY <1>1, <2>1, OwnByteThere, Zenon DEF PhysOf
<1>5. desc[id].prev = OwnByte(PhysOf(id)) /\ desc[id].AvoidReApply = ~desc[id].Enabled
  BY <1>1, Zenon DEF IInv, BytesOK, SavedByteIsOwn, DescOK
<1>6. /\ mem' \in [Phys -> Bytes] /\ mem'[PhysOf(id)] = OwnByte(PhysOf(id))
      /\ \A p \in Phys : p # PhysOf(id) => mem'[p] = mem[p]
  <2>1. mem' = IF cleared THEN [mem EXCEPT ![PhysOf(id)] = desc[id].prev] ELSE mem
    BY Zenon DEF BreakpointClear, ClearedMem
  <2>2. OwnByte(PhysOf(id)) \in Bytes
    BY Zenon DEF OwnByte, Bytes
  <2> HIDE DEF cleared
  <2>3. CASE cleared
    BY <1>1, <1>5, <2>1, <2>2, <2>3, Zenon
  <2>4. CASE ~cleared
    BY <1>1, <1>3, <1>4, <2>1, <2>4, Zenon
  <2> QED  BY <2>3, <2>4, Zenon
<1>7. /\ desc' \in [1 .. lastId -> Descriptor] /\ \A i \in 1 .. lastId : i # id => desc'[i] = desc[i]
      /\ desc'[id].addr = desc[id].addr /\ desc'[id].prev = desc[id].prev
      /\ ~desc'[id].Enabled /\ desc'[id].AvoidReApply /\ desc'[id].AvoidReApply = ~desc'[id].Enabled
  <2>1. desc' = [desc EXCEPT ![id] = IF cleared THEN new ELSE desc[id]]
    BY Zenon DEF BreakpointClear, ClearedDesc
  <2>2. /\ new \in Descriptor /\ new.addr = desc[id].addr /\ new.prev = desc[id].prev
        /\ new.Enabled = FALSE /\ new.AvoidReApply = TRUE
    BY <1>1, Zenon DEF Descriptor
  <2>3. desc[id].Enabled \in BOOLEAN
    BY <1>1, Zenon DEF Descriptor
  <2> HIDE DEF cleared, new
  <2>4. CASE cleared
    BY <1>1, <2>1, <2>2, <2>4, Zenon
  <2>5. CASE ~cleared
    BY <1>1, <1>3, <1>5, <2>1, <2>3, <2>5, Zenon
  <2> QED  BY <2>4, <2>5, Zenon
<1> HIDE DEF cleared, new
<1>8. list' \subseteq list /\ \A i \in list : i # id => i \in list'
  BY Zenon
<1>9. \A i \in list : PhysOf(i)' = PhysOf(i) /\ PhysOf(i) \in Phys /\ desc'[i].addr = desc[i].addr
  BY <1>1, <1>7, BreakpointConstants, Zenon DEF PhysOf, Phys, Descriptor
<1>10. TypeOK'
  BY <1>6, <1>7, <1>8, Zenon DEF IInv, TypeOK, coreVars, mtfVars, ifVars, haltVars
<1>11. Unique'
  BY <1>8, <1>9, Zenon DEF IInv, BytesOK, Unique
<1>12. SavedByteIsOwn'
  <2>1. \A i \in list : desc'[i].prev = desc[i].prev
    BY <1>1, <1>7, Zenon
  <2> QED  BY <1>8, <1>9, <2>1, Zenon DEF IInv, BytesOK, SavedByteIsOwn
<1>13. NoStrayInt3'
  <2> SUFFICES ASSUME NEW p \in Phys, mem'[p] # OwnByte(p)
               PROVE  mem'[p] = "cc" /\ \E i \in list' : PhysOf(i)' = p /\ desc'[i].Enabled
    BY Zenon DEF NoStrayInt3
  <2>1. p # PhysOf(id) /\ mem'[p] = mem[p]
    BY <1>6, Zenon
  <2>2. PICK i \in list : mem[p] = "cc" /\ PhysOf(i) = p /\ desc[i].Enabled
    BY <2>1, Zenon DEF IInv, BytesOK, NoStrayInt3
  <2>3. i # id
    BY <2>1, <2>2, Zenon
  <2> QED  BY <1>1, <1>7, <1>8, <1>9, <2>1, <2>2, <2>3, Zenon
<1>14. EnabledArmed'
  <2> SUFFICES ASSUME NEW i \in list', desc'[i].Enabled, mem'[PhysOf(i)] # "cc"
               PROVE  \E d \in Cores : Lifted(d, i)
    BY <1>8, <1>9, Zenon DEF EnabledArmed, Lifted, coreVars, mtfVars
  <2>1. i # id /\ i \in list /\ desc[i].Enabled
    BY <1>1, <1>7, <1>8, Zenon
  <2>2. PhysOf(i) # PhysOf(id)
    BY <1>1, <1>9, <2>1, Zenon DEF NoAliases, IInv, BytesOK, Unique, TypeOK, Descriptor, PhysOf
  <2>3. mem[PhysOf(i)] # "cc"
    BY <1>6, <1>9, <2>1, <2>2, Zenon
  <2> QED  BY <2>1, <2>3, Zenon DEF IInv, BytesOK, EnabledArmed
<1>15. DescOK'
  <2>1. ASSUME NEW i \in 1 .. lastId
        PROVE  desc'[i].AvoidReApply = ~desc'[i].Enabled /\ (desc'[i].Enabled => i \in list')
    <3>1. CASE i = id
      BY <1>7, <3>1, Zenon
    <3>2. CASE i # id
      BY <1>7, <1>8, <3>2, Zenon DEF IInv, BytesOK, DescOK
    <3> QED  BY <3>1, <3>2, Zenon
  <2> QED  BY <2>1, Zenon DEF DescOK
<1>16. CoreOK'
  <2>1. \A d \in Cores : swBp[d] # NoBp => swBp[d] \in list' /\ desc'[swBp[d]] = desc[swBp[d]]
    BY <1>1, <1>2, <1>7, <1>8, Zenon DEF IInv, CoreOK, OverOK, Quiet
  <2>2. ASSUME NEW d \in Cores, hit[d] # NoBp
        PROVE  /\ desc'[hit[d]].addr = desc[hit[d]].addr
               /\ pc[d] = "rearm" => desc'[hit[d]].AvoidReApply = desc[hit[d]].AvoidReApply
    <3>1. hit[d] \in 1 .. lastId
      BY <2>2 DEF IInv, TypeOK, NoBp
    <3>2. hit[d] = id => pc[d] = "halt"
      BY <1>2, Zenon DEF Quiet, Reads
    <3> QED  BY <1>7, <3>1, <3>2, Zenon
  <2> QED  BY <2>1, <2>2, CoresKept, Zenon
<1> QED  BY <1>10, <1>11, <1>12, <1>13, <1>14, <1>15, <1>16, Zenon DEF IInv, BytesOK

LEMMA AddKeeps ==
  ASSUME NoAliases, IInv, NEW c \in Cores, NEW a \in BpAddrs, NEW scope \in Scopes,
         BreakpointAddNew(c, a, scope)
  PROVE  IInv'
<1>0. PICK n : n = lastId + 1
  BY Zenon
<1> DEFINE blank == [addr |-> a, prev |-> "op", Enabled |-> TRUE, AvoidReApply |-> FALSE,
                     SetRflagsIF |-> FALSE, Core |-> scope]
           new == BreakpointWrite(blank)
           p0 == PhysAddress[a]
<1>1. /\ lastId \in Nat /\ list \subseteq 1 .. lastId /\ desc \in [1 .. lastId -> Descriptor]
      /\ mem \in [Phys -> Bytes] /\ a \in Addrs /\ lastId < MaxBreakpointId /\ MaxBreakpointId \in Nat
  BY BreakpointConstants DEF IInv, TypeOK, BreakpointAddNew
<1>2. \A i \in list : desc[i].addr # a
  BY <1>1, NoEntryByAddress, Zenon DEF IInv, BytesOK, BreakpointAddNew
<1>3. mem[p0] = OwnByte(p0) /\ p0 \in Phys
  BY <1>1, <1>2, OwnByteThere, Zenon
<1>4. /\ new \in Descriptor /\ new.addr = a /\ new.prev = OwnByte(p0)
      /\ new.Enabled = TRUE /\ new.AvoidReApply = FALSE
  BY <1>1, <1>3, Zenon DEF BreakpointWrite, Descriptor, OwnByte, Bytes
<1>5. /\ lastId' = n /\ list' = list \cup {n} /\ mem' = [mem EXCEPT ![p0] = "cc"]
      /\ desc' = [i \in 1 .. n |-> IF i <= lastId THEN desc[i] ELSE new]
      /\ UNCHANGED <<kd, coreVars, mtfVars, ifVars, haltVars>>
  BY <1>0, Zenon DEF BreakpointAddNew
<1> HIDE DEF new, blank
<1>6. n \in 1 .. n /\ n \notin 1 .. lastId /\ 1 .. lastId \subseteq 1 .. n /\ \A i \in 1 .. n : i \in 1 .. lastId \/ i = n
  BY <1>0, <1>1
<1>7. /\ desc' \in [1 .. n -> Descriptor] /\ desc'[n] = new
      /\ \A i \in 1 .. lastId : desc'[i] = desc[i]
  <2>1. ~(n <= lastId) /\ \A i \in 1 .. lastId : i \in 1 .. n /\ i <= lastId
    BY <1>0, <1>1
  <2>2. desc' = [i \in 1 .. n |-> IF i <= lastId THEN desc[i] ELSE new]
    BY <1>5, Zenon
  <2>3. \A i \in 1 .. lastId : desc[i] \in Descriptor /\ desc'[i] = desc[i]
    BY <1>1, <2>1, <2>2, Zenon
  <2>4. desc'[n] = new
    BY <1>6, <2>1, <2>2, Zenon
  <2>5. \A i \in 1 .. n : desc'[i] \in Descriptor
    BY <1>4, <1>6, <2>3, <2>4, Zenon
  <2> QED  BY <2>2, <2>3, <2>4, <2>5, Zenon
<1>8. mem' \in [Phys -> Bytes] /\ \A p \in Phys : mem'[p] = IF p = p0 THEN "cc" ELSE mem[p]
  BY <1>1, <1>3, <1>5, Zenon DEF Bytes
<1>9. PhysOf(n)' = p0 /\ \A i \in list : PhysOf(i)' = PhysOf(i) /\ PhysOf(i) \in Phys
  BY <1>1, <1>4, <1>7, BreakpointConstants, Zenon DEF PhysOf, Phys, Descriptor
<1> HIDE DEF p0
<1>10. TypeOK'
  <2>1. 0 .. lastId \subseteq 0 .. n /\ n \in 0 .. MaxBreakpointId
    BY <1>0, <1>1
  <2>2. hit' \in [Cores -> 0 .. n] /\ swBp' \in [Cores -> 0 .. n]
    BY <1>5, <2>1, Zenon DEF IInv, TypeOK, coreVars, mtfVars
  <2>3. list' \subseteq 1 .. n
    BY <1>1, <1>5, <1>6, Zenon
  <2> QED  BY <1>5, <1>7, <1>8, <2>1, <2>2, <2>3, Zenon DEF IInv, TypeOK, coreVars, mtfVars, ifVars, haltVars
<1>11. Unique'
  BY <1>1, <1>2, <1>4, <1>5, <1>7 DEF IInv, BytesOK, Unique
<1>12. SavedByteIsOwn'
  BY <1>1, <1>4, <1>5, <1>7, <1>9, Zenon DEF IInv, BytesOK, SavedByteIsOwn
<1>13. NoStrayInt3'
  <2> SUFFICES ASSUME NEW p \in Phys, mem'[p] # OwnByte(p)
               PROVE  mem'[p] = "cc" /\ \E i \in list' : PhysOf(i)' = p /\ desc'[i].Enabled
    BY Zenon DEF NoStrayInt3
  <2>1. CASE p = p0
    BY <1>4, <1>5, <1>7, <1>8, <1>9, <2>1, Zenon
  <2>2. CASE p # p0
    BY <1>1, <1>5, <1>7, <1>8, <1>9, <2>2 DEF IInv, BytesOK, NoStrayInt3
  <2> QED  BY <2>1, <2>2, Zenon
<1>14. EnabledArmed'
  <2> SUFFICES ASSUME NEW i \in list', desc'[i].Enabled, mem'[PhysOf(i)'] # "cc"
               PROVE  \E d \in Cores : Lifted(d, i)
    BY <1>5, Zenon DEF EnabledArmed, Lifted, coreVars, mtfVars
  <2>1. i # n /\ i \in list
    BY <1>3, <1>5, <1>8, <1>9, Zenon
  <2>2. desc[i].Enabled /\ mem[PhysOf(i)] # "cc"
    BY <1>1, <1>7, <1>8, <1>9, <2>1, Zenon
  <2> QED  BY <2>1, <2>2, Zenon DEF IInv, BytesOK, EnabledArmed
<1>15. DescOK'
  <2>1. ASSUME NEW i \in 1 .. n
        PROVE  desc'[i].AvoidReApply = ~desc'[i].Enabled /\ (desc'[i].Enabled => i \in list')
    <3>1. CASE i = n
      BY <1>4, <1>5, <1>7, <3>1, Zenon
    <3>2. CASE i # n
      BY <1>5, <1>6, <1>7, <3>2, Zenon DEF IInv, BytesOK, DescOK
    <3> QED  BY <3>1, <3>2, Zenon
  <2> QED  BY <1>5, <2>1, Zenon DEF DescOK
<1>16. CoreOK'
  <2>1. \A d \in Cores : swBp[d] # NoBp => swBp[d] \in list' /\ desc'[swBp[d]] = desc[swBp[d]]
    BY <1>1, <1>5, <1>7, Zenon DEF IInv, CoreOK, OverOK
  <2>2. \A d \in Cores : hit[d] # NoBp => hit[d] \in 1 .. lastId
    BY <1>1 DEF IInv, TypeOK, NoBp
  <2> QED  BY <1>5, <1>7, <2>1, <2>2, CoresKept, Zenon
<1> QED  BY <1>10, <1>11, <1>12, <1>13, <1>14, <1>15, <1>16, Zenon DEF IInv, BytesOK

LEMMA RemoveAllKeeps ==
  ASSUME QuietCommands, NoAliases, IInv, BreakpointRemoveAllBreakpoints
  PROVE  IInv'
<1> DEFINE at(p) == {i \in list : PhysOf(i) = p}
<1>1. /\ list \subseteq 1 .. lastId /\ lastId \in Nat /\ desc \in [1 .. lastId -> Descriptor]
      /\ mem \in [Phys -> Bytes] /\ \A i \in list : desc[i].addr \in Addrs
  BY BreakpointConstants DEF IInv, TypeOK, Descriptor
<1>2. /\ \A c \in Cores : pc[c] = "guest" /\ swBp[c] = NoBp /\ hit[c] = NoBp /\ from[c] = "none"
      /\ kd' = FALSE /\ list' = {} /\ UNCHANGED <<lastId, coreVars, mtfVars, ifVars, haltVars>>
  BY Zenon DEF BreakpointRemoveAllBreakpoints, IInv, CoreOK, HitOK
<1>3. ASSUME NEW p \in Phys PROVE mem'[p] = OwnByte(p)
  <2>1. mem'[p] = IF at(p) = {} THEN mem[p] ELSE desc[CHOOSE i \in at(p) : \A j \in at(p) : i <= j].prev
    BY Zenon DEF BreakpointRemoveAllBreakpoints
  <2>2. CASE at(p) = {}
    BY <2>1, <2>2, Zenon DEF IInv, BytesOK, NoStrayInt3
  <2>3. CASE at(p) # {}
    <3>1. PICK i \in at(p) : TRUE
      BY <2>3, Zenon
    <3>2. ASSUME NEW j \in at(p) PROVE i = j
      <4>1. i \in list /\ j \in list /\ desc[i].addr = desc[j].addr
        BY <1>1, Zenon DEF NoAliases, PhysOf
      <4> QED  BY <4>1, Zenon DEF IInv, BytesOK, Unique
    <3>3. \A j \in at(p) : i <= j
      BY <1>1, <3>2
    <3>4. \A j \in at(p) : desc[j].prev = OwnByte(p)
      BY Zenon DEF IInv, BytesOK, SavedByteIsOwn
    <3> QED  BY <2>1, <2>3, <3>3, <3>4, Zenon
  <2> QED  BY <2>2, <2>3, Zenon
<1>4. mem' \in [Phys -> Bytes]
  <2> DEFINE val(p) == IF at(p) = {} THEN mem[p]
                       ELSE desc[CHOOSE i \in at(p) : \A j \in at(p) : i <= j].prev
  <2>1. mem' = [p \in Phys |-> val(p)]
    BY Zenon DEF BreakpointRemoveAllBreakpoints
  <2> HIDE DEF val
  <2> QED  BY <1>3, <2>1, Zenon DEF OwnByte, Bytes
<1>5. /\ desc' \in [1 .. lastId -> Descriptor]
      /\ \A i \in 1 .. lastId : ~desc'[i].Enabled /\ desc'[i].AvoidReApply = TRUE
  <2> DEFINE off(i) == [desc[i] EXCEPT !.Enabled = FALSE, !.AvoidReApply = TRUE]
  <2>1. desc' = [i \in 1 .. lastId |-> IF i \in list THEN off(i) ELSE desc[i]]
    BY Zenon DEF BreakpointRemoveAllBreakpoints
  <2>2. \A i \in 1 .. lastId : off(i) \in Descriptor /\ off(i).Enabled = FALSE /\ off(i).AvoidReApply = TRUE
    BY <1>1, Zenon DEF Descriptor
  <2>3. \A i \in 1 .. lastId : i \notin list => ~desc[i].Enabled /\ desc[i].AvoidReApply = TRUE
    BY Zenon DEF IInv, BytesOK, DescOK
  <2> HIDE DEF off
  <2> QED  BY <1>1, <2>1, <2>2, <2>3, Zenon
<1>6. TypeOK'
  BY <1>2, <1>4, <1>5, Zenon DEF IInv, TypeOK, coreVars, mtfVars, ifVars, haltVars
<1>7. (Unique /\ SavedByteIsOwn /\ EnabledArmed)'
  BY <1>2, Zenon DEF Unique, SavedByteIsOwn, EnabledArmed
<1>8. NoStrayInt3'
  BY <1>3, Zenon DEF NoStrayInt3
<1>9. DescOK'
  BY <1>2, <1>5, Zenon DEF DescOK
<1>10. ASSUME NEW d \in Cores PROVE (HitOK(d) /\ OverOK(d) /\ MtfOK(d) /\ MaskOK(d))'
  <2>1. MtfOK(d) /\ MaskOK(d) /\ UNCHANGED <<pc, from, hit, swBp, mtf, stepWait, ignoreUnset, IF_, overlapped>>
    BY <1>2, Zenon DEF IInv, CoreOK, coreVars, mtfVars, ifVars
  <2>2. HitOK(d)' /\ OverOK(d)'
    BY <1>2, <2>1, Zenon DEF HitOK, OverOK
  <2>3. MtfOK(d)'
    BY <1>2, <2>1, Zenon DEF MtfOK, Needed
  <2>4. MaskOK(d)'
    BY <1>2, <2>1, Zenon DEF MaskOK
  <2> QED  BY <2>2, <2>3, <2>4, Zenon
<1> QED  BY <1>6, <1>7, <1>8, <1>9, <1>10, Zenon DEF IInv, BytesOK, CoreOK
-----------------------------------------------------------------------------
\* The invariant holds at first.
LEMMA InitOK ==
  ASSUME Init PROVE IInv
<1> USE DEF Init
<1>1. TypeOK
  BY BreakpointConstants DEF TypeOK, OwnByte, Bytes, Descriptor, NoBp
<1>2. BytesOK
  BY DEF BytesOK, Unique, SavedByteIsOwn, NoStrayInt3, EnabledArmed, DescOK
<1>3. CoreOK
  BY Zenon DEF CoreOK, HitOK, OverOK, MtfOK, MaskOK, Needed, NoBp
<1> QED  BY <1>1, <1>2, <1>3, Zenon DEF IInv

\* Every step keeps the invariant.
LEMMA NextKeeps ==
  ASSUME QuietCommands, NoAliases, IInv, [Next]_vars
  PROVE  IInv'
<1>1. ASSUME NEW c \in Cores, GuestInstruction(c) \/ CoreStep(c) \/ PauseBreak(c) PROVE IInv'
  BY <1>1, GuestInstructionKeeps, TrapKeeps, EnterHaltKeeps, RearmKeeps, MtfKeeps, MtfEndKeeps,
     PauseBreakKeeps DEF CoreStep
<1>2. ASSUME NEW c \in Cores, Command(c) PROVE IInv'
  <2>1. CASE Continue(c) \/ StepIn(c)
    BY <2>1, ContinueKeeps, StepInKeeps, Zenon
  <2>2. CASE \E a \in BpAddrs, scope \in Scopes : BreakpointAddNew(c, a, scope)
    BY <2>2, AddKeeps, Zenon
  <2>3. ASSUME NEW id \in list, NEW safe \in BOOLEAN, hit[c] = id => safe,
               Enable(c, id, safe) \/ Disable(c, id, safe) \/ Clear(c, id, safe)
        PROVE  IInv'
    <3>1. CASE Enable(c, id, safe)
      BY <3>1, EnableKeeps, Zenon
    <3>2. CASE Disable(c, id, safe)
      BY <2>3, <3>2, ClearKeeps, Zenon DEF Disable
    <3>3. CASE Clear(c, id, safe)
      BY <2>3, <3>3, ClearKeeps, Zenon DEF Clear
    <3> QED  BY <2>3, <3>1, <3>2, <3>3, Zenon
  <2> QED  BY <1>2, <2>1, <2>2, <2>3, Zenon DEF Command
<1>3. CASE BreakpointRemoveAllBreakpoints
  BY <1>3, RemoveAllKeeps, Zenon
<1>4. CASE UNCHANGED vars
  <2>1. UNCHANGED <<mem, desc, list, lastId, hit, swBp, kd, coreVars, mtfVars, ifVars, haltVars>>
    BY <1>4, Zenon DEF vars, bpVars, coreVars, mtfVars
  <2>2. TypeOK'
    BY <2>1, Zenon DEF IInv, TypeOK, coreVars, mtfVars, ifVars, haltVars
  <2>3. CoreOK'
    <3>1. \A d \in Cores : swBp[d] # NoBp => swBp[d] \in list
      BY Zenon DEF IInv, CoreOK, OverOK
    <3> QED  BY <2>1, <3>1, CoresKept, Zenon
  <2> QED  BY <2>1, <2>2, <2>3, BytesUntouched, Zenon DEF IInv
<1> QED  BY <1>1, <1>2, <1>3, <1>4, Zenon DEF Next

\* For every number of cores, addresses and breakpoints of every scope, with
\* commands that leave alone what a core is stepping over and no two mappings
\* of one byte: the guest's code differs from what it was only by the 0xcc of
\* breakpoints that are on (BreakpointWrite, BreakpointClear, the re-apply of
\* MtfHandleVmexit).
THEOREM CodeKept ==
  ASSUME QuietCommands, NoAliases
  PROVE  Spec => []NoStrayInt3
<1>1. IInv => NoStrayInt3
  BY Zenon DEF IInv, BytesOK
<1> QED  BY <1>1, InitOK, NextKeeps, PTL DEF Spec

\* Under the same assumptions a breakpoint that is on is in memory, or a core
\* has taken it out and will put it back.
THEOREM BreakpointsArmed ==
  ASSUME QuietCommands, NoAliases
  PROVE  Spec => []EnabledArmed
<1>1. IInv => EnabledArmed
  BY Zenon DEF IInv, BytesOK
<1> QED  BY <1>1, InitOK, NextKeeps, PTL DEF Spec

\* Under the same assumptions a core in the guest has the monitor trap flag
\* set exactly when a step or a re-apply is due (IgnoreMtfUnset in Mtf.c).
THEOREM MtfExact ==
  ASSUME QuietCommands, NoAliases
  PROVE  Spec => []MtfIffNeeded
<1>1. IInv => MtfIffNeeded
  BY Zenon DEF IInv, CoreOK, MtfOK, Needed, MtfIffNeeded
<1> QED  BY <1>1, InitOK, NextKeeps, PTL DEF Spec

\* Under the same assumptions the interrupt flag masked for the step over a
\* breakpoint is set again, unless two cores stepped over it together and
\* shared SetRflagsIFBitOnMtf of the descriptor.
THEOREM InterruptFlagRestored ==
  ASSUME QuietCommands, NoAliases
  PROVE  Spec => []InterruptFlagKept
<1>1. IInv => InterruptFlagKept
  BY Zenon DEF IInv, CoreOK, MaskOK, TypeOK, InterruptFlagKept
<1> QED  BY <1>1, InitOK, NextKeeps, PTL DEF Spec
=============================================================================
