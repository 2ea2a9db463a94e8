------------------------- MODULE EventControlsProofs -------------------------
(***************************************************************************)
(* Proofs about EventControls, for every number of cores, every set of     *)
(* event types, parameters and other users of the controls.                *)
(*                                                                         *)
(* Two things the debugger relies on hold without the exceptions that the  *)
(* findings list: the exceptions the debugger itself needs are never taken *)
(* away (DebuggerExceptionsKept), and an event whose type has a control of *)
(* its own is intercepted until it is terminated                           *)
(* (UnsharedEventsIntercepted).  The first part gives the type and effect  *)
(* of the ProtectedHv routines on one core, the second of applying and     *)
(* terminating an event on one core, the third goes through the actions.   *)
(***************************************************************************)
EXTENDS EventControls, TLAPS

\* The exceptions the users u need on core c are in the bitmap of m.
Keeps(m, u, c) ==
  /\ u.kernel \/ u.user => {BP, DB} \subseteq m.exc
  /\ u.hidden > 0 => BP \in m.exc
  /\ u.threadByDr[c] => DB \in m.exc

\* What an event of an unshared type needs; TRUE of the other types.
Has(m, e) ==
  /\ e.type = "rdmsr" => MsrsOf(e.param) \subseteq m.rdmsr
  /\ e.type = "wrmsr" => MsrsOf(e.param) \subseteq m.wrmsr
  /\ e.type \in {"tsc", "pmc", "dr", "extint"} => e.type \in m.exits

\* n has everything unshared that m has.
More(m, n) ==
  /\ m.rdmsr \subseteq n.rdmsr /\ m.wrmsr \subseteq n.wrmsr
  /\ \A x \in UnsharedTypes : x \in m.exits => x \in n.exits

\* m and n agree on the unshared controls.
Same(m, n) == n.exits = m.exits /\ n.rdmsr = m.rdmsr /\ n.wrmsr = m.wrmsr

-----------------------------------------------------------------------------
(* The routines of ProtectedHv on one core *)

\* Whatever mask is written, the integrity check adds the exceptions the users
\* need, and nothing but the exception bitmap changes.
LEMMA IntegrityCheck ==
  ASSUME NEW m \in Controls, NEW mask \in SUBSET Vectors, NEW c \in Cores, NEW evs,
         NEW u \in Users, NEW passOver, NEW n,
         n = ChangeExceptionBitmapWithIntegrityCheck(m, mask, c, evs, u, passOver)
  PROVE  /\ n \in Controls
         /\ Keeps(n, u, c)
         /\ mask \subseteq n.exc
         /\ Same(m, n)
<1> DEFINE S == StillNeeded(c, evs, u, passOver)
<1>1. DebuggerExceptionEventBitmapMask(evs, c) \subseteq Vectors
  BY DEF DebuggerExceptionEventBitmapMask, Bits, Vectors
<1>2. S \subseteq Vectors
  BY <1>1 DEF StillNeeded, Vectors, UD, BP, DB, PF
<1>3. /\ u.kernel \/ u.user => {BP, DB} \subseteq S
      /\ u.hidden > 0 => BP \in S
      /\ u.threadByDr[c] => DB \in S
  BY DEF StillNeeded, Users
<1>4. n = [m EXCEPT !.exc = mask \cup S]
  BY DEF ChangeExceptionBitmapWithIntegrityCheck
<1> HIDE DEF S
<1>5. n \in Controls /\ n.exc = mask \cup S
  BY <1>2, <1>4, Zenon DEF Controls
<1>6. Same(m, n)
  BY <1>4, Zenon DEF Controls, Same
<1>7. Keeps(n, u, c)
  BY <1>3, <1>5, Zenon DEF Keeps
<1> QED
  BY <1>5, <1>6, <1>7, Zenon

\* ProtectedHvSetExceptionBitmap adds its vector and goes through the check.
LEMMA SetException ==
  ASSUME NEW m \in Controls, NEW v \in Vectors, NEW c \in Cores, NEW evs, NEW u \in Users,
         NEW n, n = SetExceptionBitmap(m, v, c, evs, u)
  PROVE  /\ n \in Controls /\ Keeps(n, u, c) /\ v \in n.exc /\ m.exc \subseteq n.exc
         /\ Same(m, n)
<1> DEFINE wanted == m.exc \cup {v}
<1>1. VectorsOf(v) = {v}
  BY AllAssumption DEF VectorsOf, Vectors
<1>2. wanted \in SUBSET Vectors
  BY Zenon DEF Controls
<1>3. n = ChangeExceptionBitmapWithIntegrityCheck(m, wanted, c, evs, u, {})
  BY <1>1, Zenon DEF SetExceptionBitmap
<1> HIDE DEF wanted
<1>4. /\ n \in Controls /\ Keeps(n, u, c) /\ wanted \subseteq n.exc
      /\ Same(m, n)
  BY <1>2, <1>3, IntegrityCheck, Zenon
<1> QED
  BY <1>4, Zenon DEF wanted

\* ProtectedHvUnsetExceptionBitmap goes through the check.
LEMMA UnsetException ==
  ASSUME NEW m \in Controls, NEW v \in Vectors, NEW c \in Cores, NEW evs, NEW u \in Users,
         NEW n, n = UnsetExceptionBitmap(m, v, c, evs, u)
  PROVE  /\ n \in Controls /\ Keeps(n, u, c)
         /\ Same(m, n)
<1> DEFINE wanted == m.exc \ {v}
<1>1. VectorsOf(v) = {v}
  BY AllAssumption DEF VectorsOf, Vectors
<1>2. wanted \in SUBSET Vectors
  BY Zenon DEF Controls
<1>3. n = ChangeExceptionBitmapWithIntegrityCheck(m, wanted, c, evs, u, {})
  BY <1>1, Zenon DEF UnsetExceptionBitmap
<1> HIDE DEF wanted
<1>4. /\ n \in Controls /\ Keeps(n, u, c) /\ wanted \subseteq n.exc
      /\ Same(m, n)
  BY <1>2, <1>3, IntegrityCheck, Zenon
<1> QED
  BY <1>4, Zenon DEF wanted

\* Turning one control on or off changes that control only.
LEMMA OnOff ==
  ASSUME NEW m \in Controls, NEW x \in Exits
  PROVE  /\ On(m, x) \in Controls /\ Off(m, x) \in Controls
         /\ On(m, x).exits = m.exits \cup {x} /\ Off(m, x).exits = m.exits \ {x}
         /\ On(m, x).exc = m.exc /\ Off(m, x).exc = m.exc
         /\ On(m, x).rdmsr = m.rdmsr /\ Off(m, x).rdmsr = m.rdmsr
         /\ On(m, x).wrmsr = m.wrmsr /\ Off(m, x).wrmsr = m.wrmsr
  BY Zenon DEF On, Off, Controls

-----------------------------------------------------------------------------
(* Applying an event on one core *)

\* The fields of a registered event.
LEMMA EventShape ==
  ASSUME NEW e \in Event
  PROVE  e.type \in Types /\ e.core \in Cores \cup {AllCores} /\ e.param \in Params[e.type]
  BY DEF Event

\* What the validation of an event lets through as its parameter.
LEMMA ParamShape ==
  /\ "exception" \in Types => Params["exception"] \subseteq Vectors \cup {All}
  /\ "in" \in Types => Params["in"] \subseteq Ports \cup {All}
  /\ "out" \in Types => Params["out"] \subseteq Ports \cup {All}
  /\ "rdmsr" \in Types => Params["rdmsr"] \subseteq Msrs \cup {All}
  /\ "wrmsr" \in Types => Params["wrmsr"] \subseteq Msrs \cup {All}
  /\ "cr" \in Types => Params["cr"] \subseteq [reg : CrRegs, mask : Masks]
  BY ParamsAssumption DEF Vectors

\* The parameters collected from events of one type.
LEMMA ParamsOnShape ==
  ASSUME NEW evs \in Seq(Event), NEW J \in SUBSET DOMAIN evs, NEW t, NEW c,
         \A j \in J : evs[j].type = t
  PROVE  /\ ParamsOn(J, c, evs) \subseteq Params[t]
         /\ \A j \in J : Covers(evs[j], c) => evs[j].param \in ParamsOn(J, c, evs)
         /\ ParamsOn(J, c, evs) # {} => t \in Types
<1>1. \A j \in J : evs[j] \in Event
  OBVIOUS
<1>2. \A j \in J : evs[j].param \in Params[t] /\ t \in Types
  BY <1>1, EventShape, Zenon
<1> QED
  BY <1>2, Zenon DEF ParamsOn

\* Turning the EFER hook on or off keeps what the users need.
LEMMA ConfigureEfer ==
  ASSUME NEW m \in Controls, NEW b \in BOOLEAN, NEW c \in Cores, NEW evs, NEW u \in Users,
         NEW n, n = SyscallHookConfigureEFER(m, b, c, evs, u)
  PROVE  n \in Controls /\ Keeps(n, u, c) /\ More(m, n)
<1>1. CASE b
  <2> DEFINE o == On(m, "efer")
  <2>1. o \in Controls /\ o.exits = m.exits \cup {"efer"} /\ o.rdmsr = m.rdmsr /\ o.wrmsr = m.wrmsr
    BY OnOff, Zenon DEF Exits
  <2>2. n = SetExceptionBitmap(o, UD, c, evs, u)
    BY <1>1, Zenon DEF SyscallHookConfigureEFER
  <2>3. UD \in Vectors
    BY DEF UD, Vectors
  <2> HIDE DEF o
  <2>4. /\ n \in Controls /\ Keeps(n, u, c)
        /\ Same(o, n)
    BY <2>1, <2>2, <2>3, SetException, Zenon
  <2> QED
    BY <2>1, <2>4, Zenon DEF More, Same
<1>2. CASE ~b
  <2> DEFINE o == Off(m, "efer")
             wanted == o.exc \ {UD}
  <2>1. o \in Controls /\ o.exits = m.exits \ {"efer"} /\ o.rdmsr = m.rdmsr /\ o.wrmsr = m.wrmsr
    BY OnOff, Zenon DEF Exits
  <2>2. n = ChangeExceptionBitmapWithIntegrityCheck(o, wanted, c, evs, u, {"ud"})
    BY <1>2, Zenon DEF SyscallHookConfigureEFER, RemoveUndefinedInstruction
  <2> HIDE DEF o
  <2>3. wanted \in SUBSET Vectors
    BY <2>1 DEF Controls
  <2> HIDE DEF wanted
  <2>4. /\ n \in Controls /\ Keeps(n, u, c)
        /\ Same(o, n)
    BY <2>1, <2>2, <2>3, IntegrityCheck, Zenon
  <2> QED
    BY <2>1, <2>4, Zenon DEF More, Same, UnsharedTypes
<1> QED
  BY <1>1, <1>2, Zenon

\* The result n of applying the events J to m: well typed, with what the
\* users need, with all that m had, and with what the events themselves need.
Applied(m, n, J, c, evs, u) ==
  /\ n \in Controls /\ Keeps(n, u, c) /\ More(m, n)
  /\ \A j \in J : Covers(evs[j], c) => Has(n, evs[j])

\* Exception events: their vectors are added through the integrity check.
LEMMA ApplyExceptionOk ==
  ASSUME NEW m \in Controls, NEW evs \in Seq(Event), NEW J \in SUBSET DOMAIN evs,
         NEW c \in Cores, users \in Users, Keeps(m, users, c),
         \A j \in J : evs[j].type = "exception"
  PROVE  Applied(m, ApplyException(m, J, c, evs), J, c, evs, users)
<1> DEFINE n == ApplyException(m, J, c, evs)
           wanted == m.exc \cup UNION {VectorsOf(p) : p \in ParamsOn(J, c, evs)}
<1>1. n \in Controls /\ Keeps(n, users, c) /\ More(m, n)
  <2>1. CASE ParamsOn(J, c, evs) = {}
    BY <2>1, Zenon DEF ApplyException, More
  <2>2. CASE ParamsOn(J, c, evs) # {}
    <3>1. ParamsOn(J, c, evs) \subseteq Vectors \cup {All}
      BY <2>2, ParamsOnShape, ParamShape, Zenon
    <3>2. wanted \in SUBSET Vectors
      BY <3>1 DEF VectorsOf, Controls
    <3>3. n = ChangeExceptionBitmapWithIntegrityCheck(m, wanted, c, evs, users, {})
      BY <2>2, Zenon DEF ApplyException
    <3> HIDE DEF n, wanted
    <3>4. n \in Controls /\ Keeps(n, users, c) /\ Same(m, n)
      BY <3>2, <3>3, IntegrityCheck, Zenon
    <3> QED
      BY <3>4, Zenon DEF More, Same
  <2> QED
    BY <2>1, <2>2, Zenon
<1>2. \A j \in J : Has(n, evs[j])
  BY Zenon DEF Has
<1> QED
  BY <1>1, <1>2, Zenon DEF Applied

\* IN and OUT events: their ports are added to the I/O bitmap.
LEMMA ApplyIoOk ==
  ASSUME NEW m \in Controls, NEW evs \in Seq(Event), NEW J \in SUBSET DOMAIN evs,
         NEW c \in Cores, NEW u, Keeps(m, u, c), NEW t \in {"in", "out"},
         \A j \in J : evs[j].type = t
  PROVE  Applied(m, ApplyIo(m, J, c, evs), J, c, evs, u)
<1> DEFINE n == ApplyIo(m, J, c, evs)
           ports == UNION {PortsOf(p) : p \in ParamsOn(J, c, evs)}
<1>1. ParamsOn(J, c, evs) \subseteq Ports \cup {All}
  BY ParamsOnShape, ParamShape
<1>2. ports \subseteq Ports
  BY <1>1 DEF PortsOf
<1>3. n = [m EXCEPT !.io = m.io \cup ports]
  BY Zenon DEF ApplyIo, Controls
<1> HIDE DEF ports, n
<1>4. n \in Controls /\ n.exc = m.exc /\ Same(m, n)
  BY <1>2, <1>3, Zenon DEF Controls, Same
<1>5. \A j \in J : Has(n, evs[j])
  BY Zenon DEF Has
<1>6. Applied(m, n, J, c, evs, u)
  BY <1>4, <1>5, Zenon DEF Applied, Keeps, More, Same
<1> QED
  BY <1>6, Zenon DEF n

\* RDMSR events: their MSRs are added to the bitmap.
LEMMA ApplyRdmsrOk ==
  ASSUME NEW m \in Controls, NEW evs \in Seq(Event), NEW J \in SUBSET DOMAIN evs,
         NEW c \in Cores, NEW u, Keeps(m, u, c), \A j \in J : evs[j].type = "rdmsr"
  PROVE  Applied(m, ApplyRdmsr(m, J, c, evs), J, c, evs, u)
<1> DEFINE n == ApplyRdmsr(m, J, c, evs)
           msrs == UNION {MsrsOf(p) : p \in ParamsOn(J, c, evs)}
<1>1. ParamsOn(J, c, evs) \subseteq Msrs \cup {All}
  BY ParamsOnShape, ParamShape, Zenon
<1>2. msrs \subseteq Msrs
  BY <1>1, Zenon DEF MsrsOf
<1>3. n = [m EXCEPT !.rdmsr = m.rdmsr \cup msrs]
  BY Zenon DEF ApplyRdmsr, Controls
<1>4. \A j \in J : Covers(evs[j], c) => evs[j].param \in ParamsOn(J, c, evs)
  BY ParamsOnShape, Zenon
<1>5. \A j \in J : Covers(evs[j], c) => MsrsOf(evs[j].param) \subseteq msrs
  BY <1>4, Zenon
<1> HIDE DEF msrs, n
<1>6. /\ n \in Controls /\ n.exc = m.exc /\ n.rdmsr = m.rdmsr \cup msrs
      /\ More(m, n)
  BY <1>2, <1>3, Zenon DEF Controls, More
<1>7. \A j \in J : Covers(evs[j], c) => Has(n, evs[j])
  BY <1>5, <1>6, Zenon DEF Has
<1>8. Applied(m, n, J, c, evs, u)
  BY <1>6, <1>7, Zenon DEF Applied, Keeps
<1> QED
  BY <1>8, Zenon DEF n

\* WRMSR events: their MSRs are added to the bitmap.
LEMMA ApplyWrmsrOk ==
  ASSUME NEW m \in Controls, NEW evs \in Seq(Event), NEW J \in SUBSET DOMAIN evs,
         NEW c \in Cores, NEW u, Keeps(m, u, c), \A j \in J : evs[j].type = "wrmsr"
  PROVE  Applied(m, ApplyWrmsr(m, J, c, evs), J, c, evs, u)
<1> DEFINE n == ApplyWrmsr(m, J, c, evs)
           msrs == UNION {MsrsOf(p) : p \in ParamsOn(J, c, evs)}
<1>1. ParamsOn(J, c, evs) \subseteq Msrs \cup {All}
  BY ParamsOnShape, ParamShape, Zenon
<1>2. msrs \subseteq Msrs
  BY <1>1 DEF MsrsOf
<1>3. n = [m EXCEPT !.wrmsr = m.wrmsr \cup msrs]
  BY Zenon DEF ApplyWrmsr, Controls
<1>4. \A j \in J : Covers(evs[j], c) => evs[j].param \in ParamsOn(J, c, evs)
  BY ParamsOnShape, Zenon
<1>5. \A j \in J : Covers(evs[j], c) => MsrsOf(evs[j].param) \subseteq msrs
  BY <1>4, Zenon
<1> HIDE DEF msrs, n
<1>6. /\ n \in Controls /\ n.exc = m.exc /\ n.wrmsr = m.wrmsr \cup msrs
      /\ More(m, n)
  BY <1>2, <1>3, Zenon DEF Controls, More
<1>7. \A j \in J : Covers(evs[j], c) => Has(n, evs[j])
  BY <1>5, <1>6, Zenon DEF Has
<1>8. Applied(m, n, J, c, evs, u)
  BY <1>6, <1>7, Zenon DEF Applied, Keeps
<1> QED
  BY <1>8, Zenon DEF n

\* The one-bit controls.
LEMMA ApplyExitOk ==
  ASSUME NEW m \in Controls, NEW evs \in Seq(Event), NEW J \in SUBSET DOMAIN evs,
         NEW c \in Cores, NEW u, Keeps(m, u, c), NEW x \in {"extint", "tsc", "pmc", "dr"},
         \A j \in J : evs[j].type = x
  PROVE  Applied(m, ApplyExit(m, x, J, c, evs), J, c, evs, u)
<1>1. \A j \in J : Covers(evs[j], c) => evs[j].param \in ParamsOn(J, c, evs)
  BY ParamsOnShape, Zenon
<1>2. CASE ParamsOn(J, c, evs) = {}
  BY <1>1, <1>2, Zenon DEF ApplyExit, Applied, More
<1>3. CASE ParamsOn(J, c, evs) # {}
  <2> DEFINE n == On(m, x)
  <2>1. n \in Controls /\ n.exits = m.exits \cup {x} /\ n.exc = m.exc
        /\ n.rdmsr = m.rdmsr /\ n.wrmsr = m.wrmsr
    BY OnOff DEF Exits
  <2>2. ApplyExit(m, x, J, c, evs) = n
    BY <1>3, Zenon DEF ApplyExit
  <2> HIDE DEF n
  <2>3. \A j \in J : Has(n, evs[j])
    BY <2>1, Zenon DEF Has
  <2> QED
    BY <2>1, <2>2, <2>3, Zenon DEF Applied, Keeps, More
<1> QED
  BY <1>2, <1>3, Zenon

\* The mask of a register is left alone or is that of one of the events; it is
\* that of an event if one is the last.
LEMMA MaskOfOne ==
  ASSUME NEW J, NEW c, NEW evs, NEW r, NEW old
  PROVE  \/ \E j \in J : /\ Covers(evs[j], c) /\ evs[j].param.reg = r
                        /\ LastMask(J, c, evs, r, old) = evs[j].param.mask
         \/ /\ LastMask(J, c, evs, r, old) = old
            /\ ~ \E i \in J : /\ Covers(evs[i], c) /\ evs[i].param.reg = r
                             /\ \A j \in J : Covers(evs[j], c) /\ evs[j].param.reg = r => j <= i
<1> DEFINE I == {j \in J : Covers(evs[j], c) /\ evs[j].param.reg = r}
           last == {i \in I : \A j \in I : j <= i}
<1>1. CASE last = {}
  <2>1. LastMask(J, c, evs, r, old) = old
    BY <1>1, Zenon DEF LastMask
  <2> QED
    BY <1>1, <2>1, Zenon
<1>2. CASE last # {}
  <2> DEFINE k == CHOOSE i \in last : TRUE
  <2>1. LastMask(J, c, evs, r, old) = evs[k].param.mask
    BY <1>2, Zenon DEF LastMask
  <2>2. k \in last
    BY <1>2, Zenon
  <2> HIDE DEF k
  <2> QED
    BY <2>1, <2>2, Zenon
<1> QED
  BY <1>1, <1>2, Zenon

\* Control-register events: the last mask of each register stays.
LEMMA ApplyCrOk ==
  ASSUME NEW m \in Controls, NEW evs \in Seq(Event), NEW J \in SUBSET DOMAIN evs,
         NEW c \in Cores, NEW u, Keeps(m, u, c), \A j \in J : evs[j].type = "cr"
  PROVE  Applied(m, ApplyCr(m, J, c, evs), J, c, evs, u)
<1> DEFINE n == ApplyCr(m, J, c, evs)
           new == [r \in CrRegs |-> LastMask(J, c, evs, r, m.cr[r])]
<1>1. ASSUME NEW r \in CrRegs
      PROVE  LastMask(J, c, evs, r, m.cr[r]) \in Masks \cup {{}}
  <2>1. m.cr[r] \in Masks \cup {{}}
    BY Zenon DEF Controls
  <2>2. ASSUME NEW j \in J
        PROVE  evs[j].param.mask \in Masks
    <3>1. evs[j] \in Event /\ evs[j].type = "cr"
      OBVIOUS
    <3>2. "cr" \in Types /\ evs[j].param \in Params["cr"]
      BY <3>1, EventShape, Zenon
    <3> QED
      BY <3>2, ParamShape
  <2>3. PICK old : old = m.cr[r]
    BY Zenon
  <2>4. (\E j \in J : LastMask(J, c, evs, r, old) = evs[j].param.mask) \/ LastMask(J, c, evs, r, old) = old
    BY MaskOfOne
  <2> QED
    BY <2>1, <2>2, <2>3, <2>4, Zenon
<1>2. new \in [CrRegs -> Masks \cup {{}}]
  BY <1>1, Zenon
<1>3. n = [m EXCEPT !.cr = new]
  BY Zenon DEF ApplyCr, Controls
<1> HIDE DEF n, new
<1>4. n \in Controls /\ n.exc = m.exc /\ Same(m, n)
  BY <1>2, <1>3, Zenon DEF Controls, Same
<1>5. \A j \in J : Has(n, evs[j])
  BY Zenon DEF Has
<1>6. Applied(m, n, J, c, evs, u)
  BY <1>4, <1>5, Zenon DEF Applied, Keeps, More, Same
<1> QED
  BY <1>6, Zenon DEF n

\* SYSCALL and SYSRET events: the EFER hook.
LEMMA ApplyEferOk ==
  ASSUME NEW m \in Controls, NEW evs \in Seq(Event), NEW J \in SUBSET DOMAIN evs,
         NEW c \in Cores, users \in Users, Keeps(m, users, c), NEW t \in {"syscall", "sysret"},
         \A j \in J : evs[j].type = t
  PROVE  Applied(m, ApplyEfer(m, J, c, evs), J, c, evs, users)
<1> DEFINE n == ApplyEfer(m, J, c, evs)
<1>1. n = m \/ n = SyscallHookConfigureEFER(m, TRUE, c, evs, users)
  BY Zenon DEF ApplyEfer
<1> HIDE DEF n
<1>2. n \in Controls /\ Keeps(n, users, c) /\ More(m, n)
  <2>1. CASE n = m
    BY <2>1, Zenon DEF More
  <2>2. CASE n = SyscallHookConfigureEFER(m, TRUE, c, evs, users)
    BY <2>2, ConfigureEfer, Zenon
  <2> QED
    BY <1>1, <2>1, <2>2, Zenon
<1>3. \A j \in J : Has(n, evs[j])
  BY Zenon DEF Has
<1>4. Applied(m, n, J, c, evs, users)
  BY <1>2, <1>3, Zenon DEF Applied
<1> QED
  BY <1>4, Zenon DEF n

\* Applying events of one type, whichever it is.
LEMMA ApplyOk ==
  ASSUME NEW m \in Controls, NEW evs \in Seq(Event), NEW J \in SUBSET DOMAIN evs,
         NEW c \in Cores, users \in Users, Keeps(m, users, c), NEW t \in EventTypes,
         \A j \in J : evs[j].type = t
  PROVE  Applied(m, Apply(m, t, J, c, evs), J, c, evs, users)
<1>1. CASE t = "exception"
  BY <1>1, ApplyExceptionOk, Zenon DEF Apply
<1>2. CASE t \in {"in", "out"}
  BY <1>2, ApplyIoOk, Zenon DEF Apply
<1>3. CASE t = "rdmsr"
  BY <1>3, ApplyRdmsrOk, Zenon DEF Apply
<1>4. CASE t = "wrmsr"
  BY <1>4, ApplyWrmsrOk, Zenon DEF Apply
<1>5. CASE t \in {"extint", "tsc", "pmc", "dr"}
  BY <1>5, ApplyExitOk, Zenon DEF Apply
<1>6. CASE t = "cr"
  BY <1>6, ApplyCrOk, Zenon DEF Apply
<1>7. CASE t \in {"syscall", "sysret"}
  BY <1>7, ApplyEferOk, Zenon DEF Apply
<1>8. CASE t \in {"cpuid", "vmcall"}
  <2>1. Apply(m, t, J, c, evs) = m
    BY <1>8, Zenon DEF Apply
  <2>2. \A j \in J : Has(m, evs[j])
    BY <1>8, Zenon DEF Has
  <2> QED
    BY <2>1, <2>2, Zenon DEF Applied, More
<1> QED
  BY <1>1, <1>2, <1>3, <1>4, <1>5, <1>6, <1>7, <1>8 DEF EventTypes, TypeOrder

-----------------------------------------------------------------------------
(* Terminating an event on one core *)

\* Resetting the control of type t leaves the other unshared types alone.
Spares(m, o, t) ==
  /\ t # "rdmsr" => m.rdmsr \subseteq o.rdmsr
  /\ t # "wrmsr" => m.wrmsr \subseteq o.wrmsr
  /\ \A x \in UnsharedTypes \ {t} : x \in m.exits => x \in o.exits

\* The result n of terminating event i on core c: well typed, with what the
\* users need, and every other event keeps what it has.
Terminated(m, n, i, c) ==
  /\ n \in Controls /\ Keeps(n, users, c)
  /\ \A j \in DOMAIN events \ {i} :
       Covers(events[j], c) /\ Has(m, events[j]) => Has(n, events[j])

\* A reset that spares the other types followed by applying the other events
\* of the type terminates an event.
LEMMA ResetAndApply ==
  ASSUME NEW m \in Controls, NEW o \in Controls, NEW n, NEW i \in DOMAIN events, NEW c \in Cores,
         Spares(m, o, events[i].type),
         Applied(o, n, OtherEvents(i), c, events, users)
  PROVE  Terminated(m, n, i, c)
<1>1. ASSUME NEW j \in DOMAIN events \ {i}, Covers(events[j], c), Has(m, events[j])
      PROVE  Has(n, events[j])
  <2>1. CASE events[j].type = events[i].type
    BY <1>1, <2>1, Zenon DEF OtherEvents, Applied
  <2>2. CASE events[j].type # events[i].type
    BY <1>1, <2>2, Zenon DEF Spares, Applied, More, Has, UnsharedTypes
  <2> QED
    BY <2>1, <2>2, Zenon
<1> QED
  BY <1>1, Zenon DEF Applied, Terminated

\* Turning off the one-bit control of type t, or leaving it on, spares the
\* other types and the exception bitmap.
LEMMA DisableSpares ==
  ASSUME NEW m \in Controls, NEW t \in {"extint", "tsc", "pmc", "dr"}, NEW o \in {m, Off(m, t)},
         NEW c, NEW u, Keeps(m, u, c)
  PROVE  o \in Controls /\ Spares(m, o, t) /\ Keeps(o, u, c)
<1>1. /\ Off(m, t) \in Controls /\ Off(m, t).exits = m.exits \ {t} /\ Off(m, t).exc = m.exc
      /\ Off(m, t).rdmsr = m.rdmsr /\ Off(m, t).wrmsr = m.wrmsr
  BY OnOff DEF Exits
<1>2. CASE o = m
  BY <1>2, Zenon DEF Spares
<1>3. CASE o = Off(m, t)
  BY <1>1, <1>3, Zenon DEF Spares, Keeps
<1> QED
  BY <1>2, <1>3, Zenon

\* DebuggerTerminateEvent on one core, whatever the type of the event.
LEMMA TerminateOk ==
  ASSUME NEW m \in Controls, events \in Seq(Event), NEW i \in DOMAIN events, NEW c \in Cores,
         users \in Users, Keeps(m, users, c)
  PROVE  Terminated(m, TerminateOn(m, i, c), i, c)
<1> DEFINE t == events[i].type
           J == OtherEvents(i)
<1>1. J \in SUBSET DOMAIN events /\ \A j \in J : events[j].type = t
  BY Zenon DEF OtherEvents
<1>2. events[i] \in Event
  OBVIOUS
<1>3. t \in Types /\ t \in EventTypes /\ events[i].param \in Params[t]
  BY <1>2, EventShape, TypesAssumption, Zenon
<1> HIDE DEF J, t
<1>4. ASSUME NEW x \in {"extint", "tsc", "pmc", "dr"}, t = x, NEW o \in {m, Off(m, x)}
      PROVE  Terminated(m, ApplyExit(o, x, J, c, events), i, c)
  <2>1. o \in Controls /\ Spares(m, o, t) /\ Keeps(o, users, c)
    BY <1>4, DisableSpares
  <2>2. Applied(o, ApplyExit(o, x, J, c, events), J, c, events, users)
    BY <1>1, <1>4, <2>1, ApplyExitOk, Zenon
  <2> QED
    BY <2>1, <2>2, ResetAndApply, Zenon DEF t, J
<1>5. CASE t = "extint"
  <2> DEFINE o == DisableExternalInterruptExiting(m, c, events, users, TRUE)
  <2>1. o \in {m, Off(m, "extint")}
    BY DEF DisableExternalInterruptExiting
  <2>2. TerminateOn(m, i, c) = ApplyExit(o, "extint", J, c, events)
    BY <1>5, Zenon DEF t, J, TerminateOn, TerminateExternalInterruptEvent
  <2> HIDE DEF o
  <2> QED
    BY <1>4, <1>5, <2>1, <2>2, Zenon
<1>6. CASE t = "tsc"
  <2> DEFINE o == DisableRdtscExiting(m, c, events, users, TRUE)
  <2>1. o \in {m, Off(m, "tsc")}
    BY Zenon DEF DisableRdtscExiting
  <2>2. TerminateOn(m, i, c) = ApplyExit(o, "tsc", J, c, events)
    BY <1>6, Zenon DEF t, J, TerminateOn, TerminateTscEvent
  <2> HIDE DEF o
  <2> QED
    BY <1>4, <1>6, <2>1, <2>2, Zenon
<1>7. CASE t = "dr"
  <2> DEFINE o == DisableMovDebugRegsExiting(m, c, events, users, TRUE)
  <2>1. o \in {m, Off(m, "dr")}
    BY Zenon DEF DisableMovDebugRegsExiting
  <2>2. TerminateOn(m, i, c) = ApplyExit(o, "dr", J, c, events)
    BY <1>7, Zenon DEF t, J, TerminateOn, TerminateDebugRegistersEvent
  <2> HIDE DEF o
  <2> QED
    BY <1>4, <1>7, <2>1, <2>2, Zenon
<1>8. CASE t = "pmc"
  <2>1. TerminateOn(m, i, c) = ApplyExit(Off(m, "pmc"), "pmc", J, c, events)
    BY <1>8, Zenon DEF t, J, TerminateOn, TerminatePmcEvent
  <2> QED
    BY <1>4, <1>8, <2>1, Zenon
<1>9. CASE t = "exception"
  <2> DEFINE o == ResetExceptionBitmapToClearEvents(m, c, events, users)
             none == {}
  <2>1. o = ChangeExceptionBitmapWithIntegrityCheck(m, none, c, events, users, {"exception"})
    BY Zenon DEF ResetExceptionBitmapToClearEvents
  <2>2. TerminateOn(m, i, c) = ApplyException(o, J, c, events)
    BY <1>9, Zenon DEF t, J, TerminateOn, TerminateExceptionEvent
  <2>3. none \in SUBSET Vectors
    BY Zenon
  <2> HIDE DEF o, none
  <2>4. o \in Controls /\ Keeps(o, users, c) /\ Same(m, o)
    BY <2>1, <2>3, IntegrityCheck
  <2>5. Applied(o, ApplyException(o, J, c, events), J, c, events, users)
    BY <1>1, <1>9, <2>4, ApplyExceptionOk
  <2>6. Spares(m, o, t)
    BY <2>4, Zenon DEF Spares, Same
  <2> QED
    BY <2>2, <2>4, <2>5, <2>6, ResetAndApply DEF t, J
<1>10. CASE t \in {"in", "out"}
  <2> DEFINE o == [m EXCEPT !.io = {}]
  <2>1. o \in Controls /\ Keeps(o, users, c) /\ Spares(m, o, t)
    BY Zenon DEF Controls, Keeps, Spares
  <2>2. TerminateOn(m, i, c) = ApplyIo(o, J, c, events)
    BY <1>10, Zenon DEF t, J, TerminateOn, TerminateInInstructionExecutionEvent,
                 TerminateOutInstructionExecutionEvent
  <2> HIDE DEF o
  <2>3. Applied(o, ApplyIo(o, J, c, events), J, c, events, users)
    BY <1>1, <1>10, <2>1, ApplyIoOk
  <2> QED
    BY <2>1, <2>2, <2>3, ResetAndApply DEF t, J
<1>11. CASE t = "rdmsr"
  <2> DEFINE o == [m EXCEPT !.rdmsr = {}]
  <2>4. o \in Controls /\ o.exc = m.exc /\ o.exits = m.exits /\ o.wrmsr = m.wrmsr
    BY Zenon DEF Controls
  <2>2. TerminateOn(m, i, c) = ApplyRdmsr(o, J, c, events)
    BY <1>11, Zenon DEF t, J, TerminateOn, TerminateRdmsrExecutionEvent
  <2> HIDE DEF o
  <2>1. o \in Controls /\ Keeps(o, users, c) /\ Spares(m, o, t)
    BY <1>11, <2>4, Zenon DEF Keeps, Spares
  <2>3. Applied(o, ApplyRdmsr(o, J, c, events), J, c, events, users)
    BY <1>1, <1>11, <2>1, ApplyRdmsrOk
  <2> QED
    BY <2>1, <2>2, <2>3, ResetAndApply DEF t, J
<1>12. CASE t = "wrmsr"
  <2> DEFINE o == [m EXCEPT !.wrmsr = {}]
  <2>4. o \in Controls /\ o.exc = m.exc /\ o.exits = m.exits /\ o.rdmsr = m.rdmsr
    BY Zenon DEF Controls
  <2>2. TerminateOn(m, i, c) = ApplyWrmsr(o, J, c, events)
    BY <1>12, Zenon DEF t, J, TerminateOn, TerminateWrmsrExecutionEvent
  <2> HIDE DEF o
  <2>1. o \in Controls /\ Keeps(o, users, c) /\ Spares(m, o, t)
    BY <1>12, <2>4, Zenon DEF Keeps, Spares
  <2>3. Applied(o, ApplyWrmsr(o, J, c, events), J, c, events, users)
    BY <1>1, <1>12, <2>1, ApplyWrmsrOk, Zenon
  <2> QED
    BY <2>1, <2>2, <2>3, ResetAndApply, Zenon DEF t, J
<1>13. CASE t = "cr"
  <2> DEFINE o == SetMovToCrVmexit(m, events[i].param.reg, {})
  <2>1. events[i].param.reg \in CrRegs
    BY <1>3, <1>13, ParamShape, Zenon
  <2>5. o \in Controls /\ o.exc = m.exc /\ Same(m, o)
    BY <2>1, Zenon DEF Controls, Same, SetMovToCrVmexit
  <2>3. TerminateOn(m, i, c) = ApplyCr(o, J, c, events)
    BY <1>13, Zenon DEF t, J, TerminateOn, TerminateControlRegistersEvent
  <2> HIDE DEF o
  <2>2. o \in Controls /\ Keeps(o, users, c) /\ Spares(m, o, t)
    BY <2>5, Zenon DEF Keeps, Spares, Same
  <2>4. Applied(o, ApplyCr(o, J, c, events), J, c, events, users)
    BY <1>1, <1>13, <2>2, ApplyCrOk
  <2> QED
    BY <2>2, <2>3, <2>4, ResetAndApply DEF t, J
<1>14. CASE t \in {"syscall", "sysret"}
  <2> DEFINE o == SyscallHookConfigureEFER(m, FALSE, c, events, users)
  <2>1. TerminateOn(m, i, c) = ApplyEfer(o, J, c, events)
    <3>1. CASE t = "syscall"
      BY <3>1 DEF t, J, TerminateOn, TerminateSyscallHookEferEvent
    <3>2. CASE t = "sysret"
      BY <3>2 DEF t, J, TerminateOn, TerminateSysretHookEferEvent
    <3> HIDE DEF o
    <3> QED
      BY <1>14, <3>1, <3>2
  <2>5. o = SyscallHookConfigureEFER(m, FALSE, c, events, users)
    BY Zenon
  <2> HIDE DEF o
  <2>2. o \in Controls /\ Keeps(o, users, c) /\ More(m, o)
    BY <2>5, ConfigureEfer
  <2>3. Applied(o, ApplyEfer(o, J, c, events), J, c, events, users)
    BY <1>1, <1>14, <2>2, ApplyEferOk
  <2>4. Spares(m, o, t)
    BY <2>2 DEF Spares, More
  <2> QED
    BY <2>1, <2>2, <2>3, <2>4, ResetAndApply, Zenon DEF t, J
<1>15. CASE t \in {"cpuid", "vmcall"}
  BY <1>15, Zenon DEF t, TerminateOn, Terminated
<1> QED
  BY <1>3, <1>5, <1>6, <1>7, <1>8, <1>9, <1>10, <1>11, <1>12, <1>13, <1>14, <1>15
     DEF EventTypes, TypeOrder

-----------------------------------------------------------------------------
(* The other users of the controls, on one core *)

\* The events that cover core c keep what they have.
Retains(m, n, c) ==
  \A i \in DOMAIN events : Covers(events[i], c) /\ Has(m, events[i]) => Has(n, events[i])

\* Controls with more than before serve the events as before.
LEMMA MoreRetains ==
  ASSUME NEW m, NEW n, NEW c, More(m, n)
  PROVE  Retains(m, n, c)
  BY Zenon DEF More, Retains, Has, UnsharedTypes

\* A control that is not given up while an event covers the core, or that no
\* unshared event uses, is not missed.
LEMMA DisableRetains ==
  ASSUME NEW m \in Controls, NEW t \in Exits, NEW o \in {m, Off(m, t)}, NEW c, NEW u,
         \/ t \notin UnsharedTypes
         \/ DebuggerEventListCountByCore(events, t, c) # {} => o = m
  PROVE  o \in Controls /\ Retains(m, o, c) /\ (Keeps(m, u, c) => Keeps(o, u, c))
<1>1. /\ Off(m, t) \in Controls /\ Off(m, t).exits = m.exits \ {t} /\ Off(m, t).exc = m.exc
      /\ Off(m, t).rdmsr = m.rdmsr /\ Off(m, t).wrmsr = m.wrmsr
  BY OnOff, Zenon
<1>2. CASE o = m
  BY <1>2 DEF Retains
<1>3. CASE o # m
  <2>1. o = Off(m, t)
    BY <1>3, Zenon
  <2>2. \A i \in DOMAIN events :
          Covers(events[i], c) /\ events[i].type \in UnsharedTypes => events[i].type # t
    BY <1>3 DEF DebuggerEventListCountByCore
  <2>3. Retains(m, o, c)
    BY <1>1, <2>1, <2>2 DEF Retains, Has, UnsharedTypes
  <2> QED
    BY <1>1, <2>1, <2>3 DEF Keeps
<1> QED
  BY <1>2, <1>3

\* v differs from u at most in the switch detection of core c.
OthersSame(u, v, c) ==
  /\ v.kernel = u.kernel /\ v.user = u.user /\ v.hidden = u.hidden
  /\ \A d \in Cores \ {c} : v.threadByDr[d] = u.threadByDr[d]

\* What a routine of core c in vmx-root may make of its controls and users.
CoreOK(s, c) ==
  /\ s.m \in Controls /\ s.u \in Users /\ Keeps(s.m, s.u, c)
  /\ OthersSame(users, s.u, c) /\ Retains(vmcs[c], s.m, c)

\* Arming and disarming the process-switch detection.
LEMMA ProcessMonitorOk ==
  ASSUME NEW s, NEW c \in Cores, NEW b \in BOOLEAN, NEW k \in BOOLEAN, CoreOK(s, c)
  PROVE  CoreOK(ProcessMonitor(s, c, b, k), c)
<1> DEFINE m == s.m
           u == IF k THEN [s.u EXCEPT !.processByClock[c] = b] ELSE [s.u EXCEPT !.processByCr3[c] = b]
           x == IF k THEN "extint" ELSE "cr3"
           n == IF b THEN On(m, x)
                ELSE IF k THEN DisableExternalInterruptExiting(m, c, events, u, FALSE)
                ELSE DisableMovToCr3Exiting(m, u)
<1>1. ProcessMonitor(s, c, b, k) = [u |-> u, m |-> n]
  BY Zenon DEF ProcessMonitor
<1>2. u \in Users /\ OthersSame(users, u, c) /\ u.threadByDr = s.u.threadByDr
      /\ u.kernel = s.u.kernel /\ u.user = s.u.user /\ u.hidden = s.u.hidden
  BY SMTT(20) DEF CoreOK, Users, OthersSame
<1>3. m \in Controls /\ Keeps(m, u, c) /\ Retains(vmcs[c], m, c)
  BY <1>2, Zenon DEF CoreOK, Keeps
<1>4. x \in Exits
  BY Zenon DEF Exits
<1> HIDE DEF u, m
<1>7. b => n = On(m, x)
  BY Zenon
<1>8. ~b => n \in {m, Off(m, x)}
  BY Zenon DEF DisableExternalInterruptExiting, DisableMovToCr3Exiting
<1>9. ~b => \/ x \notin UnsharedTypes
            \/ DebuggerEventListCountByCore(events, x, c) # {} => n = m
  BY Zenon DEF DisableExternalInterruptExiting, UnsharedTypes
<1> HIDE DEF n, x
<1>5. n \in Controls /\ Keeps(n, u, c) /\ Retains(m, n, c)
  <2>1. CASE b
    <3>1. n \in Controls /\ n.exits = m.exits \cup {x} /\ n.exc = m.exc
          /\ n.rdmsr = m.rdmsr /\ n.wrmsr = m.wrmsr
      BY <1>3, <1>4, <1>7, <2>1, OnOff
    <3>2. More(m, n)
      BY <3>1, Zenon DEF More
    <3> QED
      BY <1>3, <3>1, <3>2, MoreRetains DEF Keeps
  <2>2. CASE ~b
    BY <1>3, <1>4, <1>8, <1>9, <2>2, DisableRetains, Zenon
  <2> QED
    BY <2>1, <2>2
<1>6. Retains(vmcs[c], n, c)
  BY <1>3, <1>5, Zenon DEF Retains
<1> QED
  BY <1>1, <1>2, <1>5, <1>6 DEF CoreOK

\* Arming and disarming the thread-switch detection.
LEMMA ThreadMonitorOk ==
  ASSUME NEW s, NEW c \in Cores, NEW b \in BOOLEAN, NEW k \in BOOLEAN, CoreOK(s, c)
  PROVE  CoreOK(ThreadMonitor(s, c, b, k), c)
<1> DEFINE m == s.m
           u == IF k THEN [s.u EXCEPT !.threadByClock[c] = b] ELSE [s.u EXCEPT !.threadByDr[c] = b]
           n == ThreadMonitor(s, c, b, k).m
<1>1. ThreadMonitor(s, c, b, k).u = u
  BY DEF ThreadMonitor
<1>2. u \in Users /\ OthersSame(users, u, c)
  BY SMTT(20) DEF CoreOK, Users, OthersSame
<1>3. m \in Controls /\ Retains(vmcs[c], m, c)
  BY Zenon DEF CoreOK
<1>4. k => Keeps(m, u, c)
  BY Zenon DEF CoreOK, Keeps, Users
<1>5. DB \in Vectors
  BY DEF DB, Vectors
<1>6. n \in Controls /\ Keeps(n, u, c) /\ Retains(m, n, c)
  <2>1. CASE k /\ b
    <3>1. n = On(m, "extint")
      BY <2>1 DEF ThreadMonitor
    <3> HIDE DEF n, u, m
    <3>2. n \in Controls /\ n.exits = m.exits \cup {"extint"} /\ n.exc = m.exc
          /\ n.rdmsr = m.rdmsr /\ n.wrmsr = m.wrmsr
      BY <1>3, <3>1, OnOff DEF Exits
    <3>3. More(m, n)
      BY <3>2, Zenon DEF More
    <3> QED
      BY <1>4, <2>1, <3>2, <3>3, MoreRetains DEF Keeps
  <2>2. CASE k /\ ~b
    <3>1. n = DisableExternalInterruptExiting(m, c, events, u, FALSE)
      BY <2>2, Zenon DEF ThreadMonitor
    <3> HIDE DEF n, u, m
    <3>2. n \in {m, Off(m, "extint")}
      BY <3>1, Zenon DEF DisableExternalInterruptExiting
    <3>3. DebuggerEventListCountByCore(events, "extint", c) # {} => n = m
      BY <3>1 DEF DisableExternalInterruptExiting
    <3> QED
      BY <1>3, <1>4, <2>2, <3>2, <3>3, DisableRetains DEF Exits
  <2>3. CASE ~k /\ b
    <3> DEFINE o == SetExceptionBitmap(m, DB, c, events, u)
    <3>1. n = On(o, "dr")
      BY <2>3, Zenon DEF ThreadMonitor
    <3> HIDE DEF n, u, m, o
    <3>2. o \in Controls /\ Keeps(o, u, c) /\ Same(m, o)
      BY <1>2, <1>3, <1>5, SetException DEF o
    <3>3. n \in Controls /\ n.exits = o.exits \cup {"dr"} /\ n.exc = o.exc
          /\ n.rdmsr = o.rdmsr /\ n.wrmsr = o.wrmsr
      BY <3>1, <3>2, OnOff DEF Exits
    <3>4. More(m, n)
      BY <3>2, <3>3, Zenon DEF More, Same
    <3> QED
      BY <3>2, <3>3, <3>4, MoreRetains DEF Keeps
  <2>4. CASE ~k /\ ~b
    <3> DEFINE o == DisableMovDebugRegsExiting(m, c, events, u, FALSE)
    <3>1. n = UnsetExceptionBitmap(o, DB, c, events, u)
      BY <2>4, Zenon DEF ThreadMonitor
    <3>2. o \in {m, Off(m, "dr")}
      BY Zenon DEF DisableMovDebugRegsExiting
    <3>3. DebuggerEventListCountByCore(events, "dr", c) # {} => o = m
      BY Zenon DEF DisableMovDebugRegsExiting
    <3> HIDE DEF n, u, m, o
    <3>4. o \in Controls /\ Retains(m, o, c)
      BY <1>3, <3>2, <3>3, DisableRetains, SMTT(20) DEF Exits
    <3>5. n \in Controls /\ Keeps(n, u, c) /\ Same(o, n)
      BY <1>2, <1>5, <3>1, <3>4, UnsetException
    <3> QED
      BY <3>4, <3>5, Zenon DEF Retains, Has, Same
  <2> QED
    BY <2>1, <2>2, <2>3, <2>4
<1> HIDE DEF n
<1>7. Retains(vmcs[c], n, c)
  BY <1>3, <1>6, Zenon DEF Retains
<1> QED
  BY <1>1, <1>2, <1>6, <1>7 DEF CoreOK, n

\* KdApplyTasksPreHaltCore and KdApplyTasksPostContinueCore.
LEMMA HaltAndContinueOk ==
  ASSUME NEW c \in Cores, vmcs[c] \in Controls, users \in Users, Keeps(vmcs[c], users, c),
         byClock \in [Cores -> BOOLEAN]
  PROVE  CoreOK(PreHalt(c), c) /\ CoreOK(PostContinue(c), c)
<1> DEFINE s0 == [m |-> vmcs[c], u |-> users]
<1>1. CoreOK(s0, c)
  BY Zenon DEF CoreOK, OthersSame, Retains
<1>2. byClock[c] \in BOOLEAN
  BY Zenon
<1>3. CoreOK(PreHalt(c), c)
  <2> DEFINE s1 == IF "process" \in initial[c] THEN ProcessMonitor(s0, c, FALSE, byClock[c]) ELSE s0
             k1 == IF "process" \in initial[c] THEN FALSE ELSE byClock[c]
  <2>1. PreHalt(c) = IF "thread" \in initial[c] THEN ThreadMonitor(s1, c, FALSE, k1) ELSE s1
    BY Zenon DEF PreHalt
  <2> HIDE DEF s0
  <2>2. CoreOK(s1, c)
    BY <1>1, <1>2, ProcessMonitorOk
  <2>3. k1 \in BOOLEAN
    BY <1>2, Zenon
  <2> HIDE DEF s1, k1
  <2>4. CoreOK(ThreadMonitor(s1, c, FALSE, k1), c)
    BY <2>2, <2>3, ThreadMonitorOk, Zenon
  <2> QED
    BY <2>1, <2>2, <2>4, Zenon
<1>4. CoreOK(PostContinue(c), c)
  <2> DEFINE s1 == IF "process" \in initial[c] THEN ProcessMonitor(s0, c, TRUE, byClock[c]) ELSE s0
  <2>1. PostContinue(c) = IF "thread" \in initial[c] THEN ThreadMonitor(s1, c, TRUE, byClock[c]) ELSE s1
    BY DEF PostContinue
  <2> HIDE DEF s0
  <2>2. CoreOK(s1, c)
    BY <1>1, <1>2, ProcessMonitorOk
  <2> HIDE DEF s1
  <2>3. CoreOK(ThreadMonitor(s1, c, TRUE, byClock[c]), c)
    BY <1>2, <2>2, ThreadMonitorOk
  <2> QED
    BY <2>1, <2>2, <2>3, Zenon
<1> QED
  BY <1>3, <1>4, Zenon

\* Giving up external interrupt exiting after a step.
LEMMA UnmaskOk ==
  ASSUME NEW c \in Cores, NEW m \in Controls, Keeps(m, users, c)
  PROVE  Unmask(m, c) \in Controls /\ Keeps(Unmask(m, c), users, c) /\ Retains(m, Unmask(m, c), c)
<1> DEFINE n == Unmask(m, c)
<1>1. n \in {m, Off(m, "extint")}
  BY DEF Unmask, DisableExternalInterruptExiting
<1>2. DebuggerEventListCountByCore(events, "extint", c) # {} => n = m
  BY Zenon DEF Unmask, DisableExternalInterruptExiting
<1> HIDE DEF n
<1>3. n \in Controls /\ Keeps(n, users, c) /\ Retains(m, n, c)
  BY <1>1, <1>2, DisableRetains DEF Exits
<1> QED
  BY <1>3, Zenon DEF n

-----------------------------------------------------------------------------
(* The actions *)

\* Every event that is not terminated has what it needs on its cores.
Served ==
  \A i \in DOMAIN events \ done : \A c \in Cores :
    Covers(events[i], c) => Has(vmcs[c], events[i])

\* The inductive invariant: an event counts as terminated only while all
\* events are being cleared.
IInv ==
  /\ TypeOK
  /\ ~clearing => done = {}
  /\ \A c \in Cores : Keeps(vmcs[c], users, c)
  /\ Served

\* The part of the type invariant that is not about the events, the controls
\* and the users.
RestOK ==
  /\ triggers \subseteq {"cpuid", "vmcall"}
  /\ phase \subseteq Procs
  /\ initial \in [Cores -> SUBSET {"process", "thread"}]
  /\ byClock \in [Cores -> BOOLEAN]
  /\ masked \subseteq Cores /\ halted \subseteq Cores
  /\ halting \in BOOLEAN /\ clearing \in BOOLEAN

\* A step that leaves the events alone and keeps, on each core, what the users
\* and the events need.
LEMMA ControlsStep ==
  ASSUME IInv, UNCHANGED <<events, done, clearing>>, RestOK', users' \in Users,
         vmcs' \in [Cores -> Controls],
         \A c \in Cores : Keeps(vmcs'[c], users', c) /\ Retains(vmcs[c], vmcs'[c], c)
  PROVE  IInv'
<1>1. TypeOK'
  BY Zenon DEF IInv, TypeOK, RestOK
<1>2. Served'
  BY DEF IInv, Served, Retains, Has, Covers, MsrsOf
<1> QED
  BY <1>1, <1>2, Zenon DEF IInv, Keeps

\* A step of one core in vmx-root.
LEMMA CoreStep ==
  ASSUME IInv, UNCHANGED <<events, done, clearing>>, RestOK', NEW c \in Cores, NEW s,
         CoreOK(s, c), users' = s.u, vmcs' = [vmcs EXCEPT ![c] = s.m]
  PROVE  IInv'
<1>1. users' \in Users /\ vmcs' \in [Cores -> Controls]
  BY Zenon DEF CoreOK, IInv, TypeOK
<1>2. ASSUME NEW d \in Cores
      PROVE  Keeps(vmcs'[d], users', d) /\ Retains(vmcs[d], vmcs'[d], d)
  <2>1. CASE d = c
    BY <2>1, Zenon DEF CoreOK, IInv, TypeOK
  <2>2. CASE d # c
    <3>1. vmcs'[d] = vmcs[d] /\ Keeps(vmcs[d], users, d) /\ OthersSame(users, users', c)
      BY <2>2, Zenon DEF CoreOK, IInv, TypeOK
    <3>2. Keeps(vmcs[d], users', d)
      BY <2>2, <3>1, Zenon DEF Keeps, OthersSame
    <3> QED
      BY <3>1, <3>2, Zenon DEF Retains
  <2> QED
    BY <2>1, <2>2, Zenon
<1> QED
  BY <1>1, <1>2, ControlsStep, Zenon

\* Registering puts the event at the head of the list and applies it.
LEMMA RegisterEventOk ==
  ASSUME IInv, NEW e \in Event, RegisterEvent(e)
  PROVE  IInv'
<1> DEFINE evs == <<e>> \o events
<1>1. /\ events \in Seq(Event) /\ vmcs \in [Cores -> Controls] /\ users \in Users /\ done = {}
      /\ events' = evs /\ users' = users /\ done' = {} /\ clearing' = clearing
      /\ vmcs' = [c \in Cores |-> Apply(vmcs[c], e.type, {1}, c, evs)]
      /\ Len(events) < MaxEvents
  BY Zenon DEF IInv, TypeOK, RegisterEvent, Idle
<1>2. /\ evs \in Seq(Event) /\ Len(evs) = Len(events) + 1 /\ 1 \in DOMAIN evs /\ evs[1] = e
      /\ \A i \in DOMAIN evs : i # 1 => i - 1 \in DOMAIN events /\ evs[i] = events[i - 1]
  BY <1>1
<1>3. e.type \in EventTypes
  BY EventShape, TypesAssumption, Zenon
<1> HIDE DEF evs
<1>4. ASSUME NEW c \in Cores
      PROVE  Applied(vmcs[c], vmcs'[c], {1}, c, evs, users)
  <2>1. vmcs[c] \in Controls /\ Keeps(vmcs[c], users, c)
    BY <1>1, Zenon DEF IInv
  <2>2. Applied(vmcs[c], Apply(vmcs[c], e.type, {1}, c, evs), {1}, c, evs, users)
    BY <1>1, <1>2, <1>3, <2>1, ApplyOk
  <2> QED
    BY <1>1, <2>2
<1>5. TypeOK'
  <2>1. vmcs' \in [Cores -> Controls]
    BY <1>1, <1>4, Zenon DEF Applied
  <2>2. events' \in Seq(Event) /\ Len(events') <= MaxEvents
    BY <1>1, <1>2, BoundAssumption
  <2> QED
    BY <1>1, <2>1, <2>2, Zenon DEF IInv, TypeOK, RegisterEvent
<1>6. \A c \in Cores : Keeps(vmcs'[c], users', c)
  BY <1>1, <1>4, Zenon DEF Applied
<1>7. ASSUME NEW i \in DOMAIN evs, NEW c \in Cores, Covers(evs[i], c)
      PROVE  Has(vmcs'[c], evs[i])
  <2>1. CASE i = 1
    BY <1>4, <1>7, <2>1 DEF Applied
  <2>2. CASE i # 1
    <3>1. Has(vmcs[c], evs[i])
      BY <1>1, <1>2, <1>7, <2>2 DEF IInv, Served
    <3> QED
      BY <1>4, <3>1 DEF Applied, More, Has, UnsharedTypes
  <2> QED
    BY <2>1, <2>2, Zenon
<1>8. Served'
  BY <1>1, <1>7 DEF Served, Has, Covers, MsrsOf
<1> QED
  BY <1>1, <1>5, <1>6, <1>8, Zenon DEF IInv, Keeps

\* What DebuggerTerminateEvent leaves on every core.
LEMMA TerminateEventOk ==
  ASSUME IInv, NEW i \in DOMAIN events, DebuggerTerminateEvent(i)
  PROVE  /\ vmcs' \in [Cores -> Controls]
         /\ triggers' \subseteq {"cpuid", "vmcall"}
         /\ \A c \in Cores : Terminated(vmcs[c], vmcs'[c], i, c)
<1>1. /\ events \in Seq(Event) /\ vmcs \in [Cores -> Controls] /\ users \in Users
      /\ vmcs' = [c \in Cores |-> TerminateOn(vmcs[c], i, c)]
  BY Zenon DEF IInv, TypeOK, DebuggerTerminateEvent
<1>2. ASSUME NEW c \in Cores
      PROVE  Terminated(vmcs[c], vmcs'[c], i, c)
  <2>1. vmcs[c] \in Controls /\ Keeps(vmcs[c], users, c)
    BY <1>1, Zenon DEF IInv
  <2>2. Terminated(vmcs[c], TerminateOn(vmcs[c], i, c), i, c)
    BY <1>1, <2>1, TerminateOk, Zenon
  <2> QED
    BY <1>1, <2>2, Zenon
<1>3. vmcs' \in [Cores -> Controls]
  BY <1>1, <1>2, Zenon DEF Terminated
<1>4. triggers' \subseteq {"cpuid", "vmcall"}
  BY Zenon DEF DebuggerTerminateEvent, TerminateVmcallOrCpuidEvent, IInv, TypeOK
<1> QED
  BY <1>2, <1>3, <1>4, Zenon

\* Clearing one event: the others keep their places in the list, and theirs.
LEMMA ClearEventOk ==
  ASSUME IInv, NEW i \in DOMAIN events, ClearEvent(i)
  PROVE  IInv'
<1> DEFINE evs == SubSeq(events, 1, i - 1) \o SubSeq(events, i + 1, Len(events))
<1>1. /\ events \in Seq(Event) /\ Len(events) <= MaxEvents /\ done = {}
      /\ events' = evs /\ users' = users /\ done' = {} /\ clearing' = clearing
  BY Zenon DEF IInv, TypeOK, ClearEvent, Idle
<1>2. /\ vmcs' \in [Cores -> Controls] /\ triggers' \subseteq {"cpuid", "vmcall"}
      /\ \A c \in Cores : Terminated(vmcs[c], vmcs'[c], i, c)
  BY TerminateEventOk DEF ClearEvent
<1>3. /\ evs \in Seq(Event) /\ Len(evs) = Len(events) - 1
      /\ \A k \in DOMAIN evs : \E j \in DOMAIN events \ {i} : evs[k] = events[j]
  <2> DEFINE a == SubSeq(events, 1, i - 1)
             b == SubSeq(events, i + 1, Len(events))
  <2>1. i \in 1..Len(events) /\ Len(events) \in Nat
    BY <1>1
  <2>2. a \in Seq(Event) /\ Len(a) = i - 1 /\ \A k \in 1..(i - 1) : a[k] = events[k]
    BY <1>1, <2>1
  <2>3. /\ b \in Seq(Event) /\ Len(b) = Len(events) - i
        /\ \A k \in 1..(Len(events) - i) : b[k] = events[i + k]
    BY <1>1, <2>1, SMTT(20)
  <2> HIDE DEF a, b
  <2>4. a \o b \in Seq(Event) /\ Len(a \o b) = Len(events) - 1
    BY <2>1, <2>2, <2>3
  <2>5. ASSUME NEW k \in DOMAIN (a \o b)
        PROVE  \E j \in DOMAIN events \ {i} : (a \o b)[k] = events[j]
    <3>1. CASE k <= i - 1
      BY <1>1, <2>1, <2>2, <2>3, <2>4, <3>1
    <3>2. CASE k > i - 1
      <4>1. (a \o b)[k] = b[k - (i - 1)] /\ k - (i - 1) \in 1..(Len(events) - i)
        BY <2>1, <2>2, <2>3, <2>4, <3>2
      <4>2. k \in 1..(Len(events) - 1) /\ DOMAIN events = 1..Len(events)
        BY <1>1, <2>1, <2>4
      <4>3. i + (k - (i - 1)) = k + 1 /\ k + 1 \in DOMAIN events \ {i}
        BY <2>1, <3>2, <4>2
      <4>4. (a \o b)[k] = events[k + 1]
        BY <2>3, <4>1, <4>3
      <4> QED
        BY <4>3, <4>4, Zenon
    <3> QED
      BY <2>4, <3>1, <3>2
  <2> QED
    BY <2>4, <2>5 DEF a, b
<1> HIDE DEF evs
<1>4. TypeOK'
  <2>1. events' \in Seq(Event) /\ Len(events') <= MaxEvents
    BY <1>1, <1>3, BoundAssumption
  <2> QED
    BY <1>1, <1>2, <2>1 DEF IInv, TypeOK, ClearEvent
<1>5. \A c \in Cores : Keeps(vmcs'[c], users', c)
  BY <1>1, <1>2 DEF Terminated
<1>6. ASSUME NEW k \in DOMAIN evs, NEW c \in Cores, Covers(evs[k], c)
      PROVE  Has(vmcs'[c], evs[k])
  <2>1. PICK j \in DOMAIN events \ {i} : evs[k] = events[j]
    BY <1>3
  <2>2. Has(vmcs[c], events[j])
    BY <1>1, <1>6, <2>1 DEF IInv, Served
  <2> QED
    BY <1>2, <1>6, <2>1, <2>2 DEF Terminated
<1>7. Served'
  BY <1>1, <1>6 DEF Served, Has, Covers, MsrsOf
<1> QED
  BY <1>1, <1>4, <1>5, <1>7 DEF IInv, Keeps

\* One step of the loop that clears all events.
LEMMA TerminateNextOk ==
  ASSUME IInv, NEW i \in DOMAIN events, TerminateNext(i)
  PROVE  IInv'
<1>1. /\ vmcs' \in [Cores -> Controls] /\ triggers' \subseteq {"cpuid", "vmcall"}
      /\ \A c \in Cores : Terminated(vmcs[c], vmcs'[c], i, c)
  BY TerminateEventOk, Zenon DEF TerminateNext
<1>2. /\ events' = events /\ users' = users /\ done' = done \cup {i} /\ clearing /\ clearing'
      /\ UNCHANGED <<phase, initial, byClock, masked, halted, halting, clearing>>
  BY Zenon DEF TerminateNext
<1>3. TypeOK'
  BY <1>1, <1>2, Zenon DEF IInv, TypeOK
<1>4. \A c \in Cores : Keeps(vmcs'[c], users', c)
  BY <1>1, <1>2, Zenon DEF Terminated
<1>5. ASSUME NEW j \in DOMAIN events \ (done \cup {i}), NEW c \in Cores, Covers(events[j], c)
      PROVE  Has(vmcs'[c], events[j])
  <2>1. Has(vmcs[c], events[j])
    BY <1>5, Zenon DEF IInv, Served
  <2> QED
    BY <1>1, <1>5, <2>1 DEF Terminated
<1>6. Served'
  BY <1>2, <1>5 DEF Served, Has, Covers, MsrsOf
<1> QED
  BY <1>2, <1>3, <1>4, <1>6, Zenon DEF IInv, Keeps

\* The steps that change no control: starting and ending the loop, asking for
\* a halt or a switch.
LEMMA FrameOk ==
  ASSUME IInv,
         \/ ClearAllEvents \/ RemoveAllEvents \/ HaltSystem
         \/ \E kind \in {"process", "thread"}, b \in BOOLEAN : RequestSwitch(kind, b)
  PROVE  IInv'
<1>1. CASE ClearAllEvents
  <2>1. TypeOK' /\ clearing' /\ UNCHANGED <<events, vmcs, users, done>>
    BY <1>1, Zenon DEF ClearAllEvents, IInv, TypeOK
  <2> QED
    BY <2>1 DEF IInv, Served, Keeps, Has, Covers, MsrsOf
<1>2. CASE RemoveAllEvents
  <2>1. events' = <<>> /\ done' = {} /\ clearing' = FALSE
    BY <1>2 DEF RemoveAllEvents
  <2>2. events' \in Seq(Event) /\ Len(events') <= MaxEvents /\ DOMAIN events' = {}
    BY <2>1, BoundAssumption
  <2>3. TypeOK'
    BY <1>2, <2>1, <2>2 DEF RemoveAllEvents, IInv, TypeOK
  <2> QED
    BY <1>2, <2>1, <2>2, <2>3, Zenon DEF RemoveAllEvents, IInv, Served, Keeps
<1>3. CASE HaltSystem
  <2>1. TypeOK' /\ UNCHANGED <<events, vmcs, users, done, clearing>>
    BY <1>3, Zenon DEF HaltSystem, IInv, TypeOK
  <2> QED
    BY <2>1 DEF IInv, Served, Keeps, Has, Covers, MsrsOf
<1>4. ASSUME NEW kind \in {"process", "thread"}, NEW b \in BOOLEAN, RequestSwitch(kind, b)
      PROVE  IInv'
  <2>1. initial' \in [Cores -> SUBSET {"process", "thread"}] /\ byClock' \in [Cores -> BOOLEAN]
    BY <1>4 DEF RequestSwitch, IInv, TypeOK
  <2> QED
    <3>1. TypeOK' /\ UNCHANGED <<events, vmcs, users, done, clearing>>
      BY <1>4, <2>1, Zenon DEF RequestSwitch, IInv, TypeOK
    <3> QED
      BY <3>1 DEF IInv, Served, Keeps, Has, Covers, MsrsOf
<1> QED
  BY <1>1, <1>2, <1>3, <1>4, Zenon

\* The steps of one core in vmx-root, and of the operating core for all.
LEMMA CoreStepsOk ==
  ASSUME IInv, NEW c \in Cores,
         HaltCore(c) \/ ContinueCore(c) \/ GuaranteedStep(c)
  PROVE  IInv'
<1>1. /\ vmcs[c] \in Controls /\ users \in Users /\ Keeps(vmcs[c], users, c)
      /\ byClock \in [Cores -> BOOLEAN] /\ RestOK
  BY DEF IInv, TypeOK, RestOK
<1>2. CoreOK(PreHalt(c), c) /\ CoreOK(PostContinue(c), c)
  BY <1>1, HaltAndContinueOk
<1>3. CASE HaltCore(c)
  <2>1. /\ UNCHANGED <<events, done, clearing>> /\ users' = PreHalt(c).u
        /\ vmcs' = [vmcs EXCEPT ![c] = PreHalt(c).m]
    BY <1>3 DEF HaltCore, SetCore
  <2>2. RestOK'
    BY <1>1, <1>3 DEF HaltCore, RestOK
  <2> QED
    BY <1>2, <2>1, <2>2, CoreStep
<1>4. CASE ContinueCore(c)
  <2>1. /\ UNCHANGED <<events, done, clearing>> /\ users' = PostContinue(c).u
        /\ vmcs' = [vmcs EXCEPT ![c] = PostContinue(c).m]
    BY <1>4 DEF ContinueCore, SetCore
  <2>2. RestOK'
    BY <1>1, <1>4 DEF ContinueCore, RestOK
  <2> QED
    BY <1>2, <2>1, <2>2, CoreStep
<1>5. CASE GuaranteedStep(c)
  <2> DEFINE p == PostContinue(c)
             s == [m |-> On(p.m, "extint"), u |-> p.u]
  <2>1. /\ UNCHANGED <<events, done, clearing>> /\ users' = s.u
        /\ vmcs' = [vmcs EXCEPT ![c] = s.m]
    BY <1>5 DEF GuaranteedStep
  <2>2. RestOK'
    BY <1>1, <1>5 DEF GuaranteedStep, RestOK
  <2>3. CoreOK(p, c)
    BY <1>2
  <2> HIDE DEF p
  <2>4. /\ On(p.m, "extint") \in Controls /\ On(p.m, "extint").exits = p.m.exits \cup {"extint"}
        /\ On(p.m, "extint").exc = p.m.exc
        /\ On(p.m, "extint").rdmsr = p.m.rdmsr /\ On(p.m, "extint").wrmsr = p.m.wrmsr
    BY <2>3, OnOff DEF CoreOK, Exits
  <2>5. CoreOK(s, c)
    BY <2>3, <2>4 DEF CoreOK, Keeps, Retains, Has
  <2> HIDE DEF s
  <2> QED
    BY <2>1, <2>2, <2>5, CoreStep, Zenon
<1> QED
  BY <1>3, <1>4, <1>5

\* A mov-to-cr3 exit changes #PF exiting of its core through the check.
LEMMA Cr3VmexitOk ==
  ASSUME IInv, NEW c \in Cores, NEW b \in BOOLEAN, AttachingHandleCr3Vmexits(c, b)
  PROVE  IInv'
<1> DEFINE n == IF b THEN SetExceptionBitmap(vmcs[c], PF, c, events, users)
                ELSE UnsetExceptionBitmap(vmcs[c], PF, c, events, users)
           s == [m |-> n, u |-> users]
<1>1. vmcs[c] \in Controls /\ users \in Users /\ PF \in Vectors
  BY DEF IInv, TypeOK, PF, Vectors
<1>2. n \in Controls /\ Keeps(n, users, c) /\ Same(vmcs[c], n)
  BY <1>1, SetException, UnsetException, Zenon
<1>3. /\ UNCHANGED <<events, done, clearing>> /\ users' = s.u /\ vmcs' = [vmcs EXCEPT ![c] = s.m]
  BY DEF AttachingHandleCr3Vmexits, SetCore
<1>4. RestOK'
  BY Zenon DEF AttachingHandleCr3Vmexits, IInv, TypeOK, RestOK
<1> HIDE DEF n
<1>5. CoreOK(s, c)
  BY <1>1, <1>2, Zenon DEF CoreOK, OthersSame, Retains, Same, Has
<1> HIDE DEF s
<1> QED
  BY <1>3, <1>4, <1>5, CoreStep

\* The operating core ends the masking of external interrupts.
LEMMA UnmaskStepOk ==
  ASSUME IInv, SwitchCore \/ ContinueSystem
  PROVE  IInv'
<1>1. /\ UNCHANGED <<events, users, done, clearing>>
      /\ vmcs' = [c \in Cores |-> IF c \in masked THEN Unmask(vmcs[c], c) ELSE vmcs[c]]
  BY Zenon DEF SwitchCore, ContinueSystem
<1>2. RestOK' /\ users \in Users /\ vmcs \in [Cores -> Controls]
  BY Zenon DEF SwitchCore, ContinueSystem, IInv, TypeOK, RestOK
<1>3. ASSUME NEW c \in Cores
      PROVE  vmcs'[c] \in Controls /\ Keeps(vmcs'[c], users, c) /\ Retains(vmcs[c], vmcs'[c], c)
  <2>1. vmcs[c] \in Controls /\ Keeps(vmcs[c], users, c)
    BY <1>2 DEF IInv
  <2>2. /\ Unmask(vmcs[c], c) \in Controls /\ Keeps(Unmask(vmcs[c], c), users, c)
        /\ Retains(vmcs[c], Unmask(vmcs[c], c), c)
    BY <2>1, UnmaskOk
  <2>3. Retains(vmcs[c], vmcs[c], c)
    BY Zenon DEF Retains
  <2> QED
    BY <1>1, <2>1, <2>2, <2>3
<1>4. vmcs' \in [Cores -> Controls]
  BY <1>1, <1>3
<1> QED
  BY <1>1, <1>2, <1>3, <1>4, ControlsStep, Zenon

-----------------------------------------------------------------------------
(* The other users, switched on and off from user mode *)

\* Such a step is correct when it leaves every core with what the new users
\* and the events need.
LEMMA ConfigureOk ==
  ASSUME IInv, NEW v, NEW u \in Users, Configure(v, u), phase' \subseteq Procs,
         v = [c \in Cores |-> v[c]],
         \A c \in Cores : v[c] \in Controls /\ Keeps(v[c], u, c) /\ Retains(vmcs[c], v[c], c)
  PROVE  IInv'
<1>1. UNCHANGED <<events, done, clearing>> /\ users' = u /\ vmcs' = v
  BY Zenon DEF Configure
<1>2. RestOK'
  BY Zenon DEF Configure, IInv, TypeOK, RestOK
<1>3. v \in [Cores -> Controls]
  BY Zenon
<1> QED
  BY <1>1, <1>2, <1>3, ControlsStep

\* Turning #BP and #DB exiting on.
LEMMA EnableOk ==
  ASSUME NEW m \in Controls, NEW c \in Cores, users \in Users, NEW n, n = EnableDbAndBp(m, c, users)
  PROVE  n \in Controls /\ Keeps(n, users, c) /\ {BP, DB} \subseteq n.exc /\ Same(m, n)
<1> DEFINE m1 == SetExceptionBitmap(m, BP, c, events, users)
<1>1. n = SetExceptionBitmap(m1, DB, c, events, users)
  BY DEF EnableDbAndBp
<1>2. BP \in Vectors /\ DB \in Vectors
  BY DEF BP, DB, Vectors
<1>3. m1 \in Controls /\ BP \in m1.exc /\ Same(m, m1)
  BY <1>2, SetException
<1> HIDE DEF m1
<1>4. n \in Controls /\ Keeps(n, users, c) /\ DB \in n.exc /\ m1.exc \subseteq n.exc /\ Same(m1, n)
  BY <1>1, <1>2, <1>3, SetException, Zenon
<1> QED
  BY <1>3, <1>4, Zenon DEF Same

\* Starting and stopping the kernel debugger.
LEMMA KernelDebuggerOk ==
  ASSUME IInv, KdInitializeKernelDebugger \/ KdUninitializeKernelDebugger
  PROVE  IInv'
<1>1. vmcs \in [Cores -> Controls] /\ users \in Users /\ BP \in Vectors /\ DB \in Vectors
  BY DEF IInv, TypeOK, BP, DB, Vectors
<1>2. CASE KdInitializeKernelDebugger
  <2> DEFINE u == [users EXCEPT !.kernel = TRUE]
             v == [c \in Cores |-> EnableDbAndBp(vmcs[c], c, users)]
  <2>1. Configure(v, u) /\ phase' \subseteq Procs
    BY <1>2, Zenon DEF KdInitializeKernelDebugger, IInv, TypeOK
  <2>2. /\ u \in Users /\ u.hidden = users.hidden /\ u.threadByDr = users.threadByDr
    BY <1>1, Zenon DEF Users
  <2>3. ASSUME NEW c \in Cores
        PROVE  v[c] \in Controls /\ Keeps(v[c], u, c) /\ Retains(vmcs[c], v[c], c)
    <3>1. v[c] = EnableDbAndBp(vmcs[c], c, users)
      BY Zenon
    <3> HIDE DEF v
    <3>2. v[c] \in Controls /\ Keeps(v[c], users, c) /\ {BP, DB} \subseteq v[c].exc /\ Same(vmcs[c], v[c])
      BY <1>1, <3>1, EnableOk
    <3> QED
      BY <2>2, <3>2 DEF Keeps, Retains, Same, Has
  <2>4. v = [c \in Cores |-> v[c]]
    BY Zenon
  <2> HIDE DEF u, v
  <2> QED
    BY <2>1, <2>2, <2>3, <2>4, ConfigureOk, Zenon
<1>3. CASE KdUninitializeKernelDebugger
  <2> DEFINE u == [users EXCEPT !.kernel = FALSE]
             v == [c \in Cores |-> DisableDbAndBp(vmcs[c], c, u)]
  <2>1. Configure(v, u) /\ phase' \subseteq Procs
    BY <1>3, Zenon DEF KdUninitializeKernelDebugger, IInv, TypeOK
  <2>2. u \in Users
    BY <1>1, Zenon DEF Users
  <2> HIDE DEF u
  <2>3. ASSUME NEW c \in Cores
        PROVE  v[c] \in Controls /\ Keeps(v[c], u, c) /\ Retains(vmcs[c], v[c], c)
    <3> DEFINE m1 == UnsetExceptionBitmap(vmcs[c], BP, c, events, u)
               m2 == UnsetExceptionBitmap(m1, DB, c, events, u)
    <3>1. v[c] = m2
      BY DEF DisableDbAndBp
    <3>2. m1 \in Controls /\ Same(vmcs[c], m1)
      BY <1>1, <2>2, UnsetException
    <3> HIDE DEF m1
    <3>3. m2 \in Controls /\ Keeps(m2, u, c) /\ Same(m1, m2)
      BY <1>1, <2>2, <3>2, UnsetException
    <3> HIDE DEF m2
    <3>4. Retains(vmcs[c], m2, c)
      BY <3>2, <3>3, Zenon DEF Retains, Same, Has
    <3> QED
      BY <3>1, <3>3, <3>4
  <2>4. v = [c \in Cores |-> v[c]]
    OBVIOUS
  <2> HIDE DEF v
  <2> QED
    BY <2>1, <2>2, <2>3, <2>4, ConfigureOk
<1> QED
  BY <1>2, <1>3, Zenon

\* Starting and stopping the user debugger.
LEMMA UserDebuggerOk ==
  ASSUME IInv, UdInitializeUserDebugger \/ UdUninitializeUserDebugger
  PROVE  IInv'
<1>1. vmcs \in [Cores -> Controls] /\ users \in Users /\ BP \in Vectors /\ DB \in Vectors
  BY DEF IInv, TypeOK, BP, DB, Vectors
<1>2. CASE UdInitializeUserDebugger
  <2> DEFINE u == [users EXCEPT !.user = TRUE]
             v == [c \in Cores |-> EnableDbAndBp(vmcs[c], c, users)]
  <2>1. Configure(v, u) /\ phase' \subseteq Procs
    BY <1>2, Zenon DEF UdInitializeUserDebugger, IInv, TypeOK
  <2>2. /\ u \in Users /\ u.hidden = users.hidden /\ u.threadByDr = users.threadByDr
    BY <1>1, Zenon DEF Users
  <2>3. ASSUME NEW c \in Cores
        PROVE  v[c] \in Controls /\ Keeps(v[c], u, c) /\ Retains(vmcs[c], v[c], c)
    <3>1. v[c] = EnableDbAndBp(vmcs[c], c, users)
      OBVIOUS
    <3> HIDE DEF v
    <3>2. v[c] \in Controls /\ Keeps(v[c], users, c) /\ {BP, DB} \subseteq v[c].exc /\ Same(vmcs[c], v[c])
      BY <1>1, <3>1, EnableOk, Zenon
    <3> QED
      BY <2>2, <3>2 DEF Keeps, Retains, Same, Has
  <2>4. v = [c \in Cores |-> v[c]]
    OBVIOUS
  <2> HIDE DEF u, v
  <2> QED
    BY <2>1, <2>2, <2>3, <2>4, ConfigureOk, Zenon
<1>3. CASE UdUninitializeUserDebugger
  <2> DEFINE u == [users EXCEPT !.user = FALSE]
  <2>1. Configure(vmcs, u) /\ phase' \subseteq Procs
    BY <1>3 DEF UdUninitializeUserDebugger, IInv, TypeOK
  <2>2. /\ u \in Users /\ u.kernel = users.kernel /\ ~u.user /\ u.hidden = users.hidden
        /\ u.threadByDr = users.threadByDr
    BY <1>1 DEF Users
  <2>3. \A c \in Cores : vmcs[c] \in Controls /\ Keeps(vmcs[c], u, c) /\ Retains(vmcs[c], vmcs[c], c)
    BY <1>1, <2>2 DEF IInv, Keeps, Retains
  <2>4. vmcs = [c \in Cores |-> vmcs[c]]
    BY <1>1, Zenon
  <2> HIDE DEF u
  <2> QED
    BY <2>1, <2>2, <2>3, <2>4, ConfigureOk
<1> QED
  BY <1>2, <1>3, Zenon

\* A step that turns rdtsc exiting on, or off where no event needs it.
LEMMA RdtscOk ==
  ASSUME IInv, NEW u \in Users, NEW v, Configure(v, u), UNCHANGED phase, v = [c \in Cores |-> v[c]],
         u.kernel = users.kernel, u.user = users.user, u.hidden = users.hidden,
         u.threadByDr = users.threadByDr,
         \A c \in Cores : \/ v[c] = On(vmcs[c], "tsc")
                          \/ /\ v[c] \in {vmcs[c], Off(vmcs[c], "tsc")}
                             /\ DebuggerEventListCountByCore(events, "tsc", c) # {} => v[c] = vmcs[c]
  PROVE  IInv'
<1>1. vmcs \in [Cores -> Controls] /\ phase' \subseteq Procs
  BY DEF IInv, TypeOK
<1>2. ASSUME NEW c \in Cores
      PROVE  v[c] \in Controls /\ Keeps(v[c], u, c) /\ Retains(vmcs[c], v[c], c)
  <2>1. vmcs[c] \in Controls /\ Keeps(vmcs[c], u, c)
    BY <1>1 DEF IInv, Keeps
  <2>2. CASE v[c] = On(vmcs[c], "tsc")
    <3>1. /\ v[c] \in Controls /\ v[c].exits = vmcs[c].exits \cup {"tsc"} /\ v[c].exc = vmcs[c].exc
          /\ v[c].rdmsr = vmcs[c].rdmsr /\ v[c].wrmsr = vmcs[c].wrmsr
      BY <2>1, <2>2, OnOff DEF Exits
    <3> QED
      BY <2>1, <3>1, Zenon DEF Keeps, Retains, Has
  <2>3. CASE /\ v[c] \in {vmcs[c], Off(vmcs[c], "tsc")}
             /\ DebuggerEventListCountByCore(events, "tsc", c) # {} => v[c] = vmcs[c]
    BY <2>1, <2>3, DisableRetains DEF Exits
  <2> QED
    BY <2>2, <2>3
<1> QED
  BY <1>1, <1>2, ConfigureOk

\* Transparent mode: rdtsc exiting goes only when no event needs it.
LEMMA TransparentOk ==
  ASSUME IInv, TransparentHideDebugger \/ TransparentUnhideDebugger
  PROVE  IInv'
<1>1. users \in Users
  BY Zenon DEF IInv, TypeOK
<1>2. CASE TransparentHideDebugger
  <2> DEFINE u == [users EXCEPT !.transparent = TRUE]
             v == [c \in Cores |-> On(vmcs[c], "tsc")]
  <2>1. Configure(v, u) /\ UNCHANGED phase
    BY <1>2, Zenon DEF TransparentHideDebugger
  <2>2. /\ u \in Users /\ u.kernel = users.kernel /\ u.user = users.user /\ u.hidden = users.hidden
        /\ u.threadByDr = users.threadByDr
    BY <1>1, Zenon DEF Users
  <2>3. v = [c \in Cores |-> v[c]] /\ \A c \in Cores : v[c] = On(vmcs[c], "tsc")
    BY Zenon
  <2> HIDE DEF u, v
  <2> QED
    BY <2>1, <2>2, <2>3, RdtscOk, Zenon
<1>3. CASE TransparentUnhideDebugger
  <2> DEFINE u == [users EXCEPT !.transparent = FALSE]
             v == [c \in Cores |-> DisableRdtscExiting(vmcs[c], c, events, u, FALSE)]
  <2>1. Configure(v, u) /\ UNCHANGED phase
    BY <1>3, Zenon DEF TransparentUnhideDebugger
  <2>2. /\ u \in Users /\ u.kernel = users.kernel /\ u.user = users.user /\ u.hidden = users.hidden
        /\ u.threadByDr = users.threadByDr
    BY <1>1, Zenon DEF Users
  <2>3. /\ v = [c \in Cores |-> v[c]]
        /\ \A c \in Cores :
             /\ v[c] \in {vmcs[c], Off(vmcs[c], "tsc")}
             /\ DebuggerEventListCountByCore(events, "tsc", c) # {} => v[c] = vmcs[c]
    BY DEF DisableRdtscExiting
  <2> HIDE DEF u, v
  <2> QED
    BY <2>1, <2>2, <2>3, RdtscOk
<1> QED
  BY <1>2, <1>3, Zenon

\* Hidden breakpoints: #BP exiting comes first and goes with the last page.
LEMMA HookOk ==
  ASSUME IInv, (\E n \in {0, 1} : EptHook(n)) \/ EptUnHook
  PROVE  IInv'
<1>1. vmcs \in [Cores -> Controls] /\ users \in Users /\ BP \in Vectors
  BY DEF IInv, TypeOK, BP, Vectors
<1>2. ASSUME NEW n \in {0, 1}, EptHook(n)
      PROVE  IInv'
  <2> DEFINE u == [users EXCEPT !.hidden = @ + n]
             v == [c \in Cores |-> SetExceptionBitmap(vmcs[c], BP, c, events, users)]
  <2>1. Configure(v, u) /\ phase' \subseteq Procs
    BY <1>2, Zenon DEF EptHook, IInv, TypeOK
  <2>2. u \in Users /\ u.kernel = users.kernel /\ u.user = users.user /\ u.threadByDr = users.threadByDr
    BY <1>1 DEF Users
  <2>3. v = [c \in Cores |-> v[c]]
    BY Zenon
  <2>4. ASSUME NEW c \in Cores
        PROVE  v[c] \in Controls /\ Keeps(v[c], u, c) /\ Retains(vmcs[c], v[c], c)
    <3>1. v[c] = SetExceptionBitmap(vmcs[c], BP, c, events, users)
      OBVIOUS
    <3> HIDE DEF u, v
    <3>2. v[c] \in Controls /\ Keeps(v[c], users, c) /\ BP \in v[c].exc /\ Same(vmcs[c], v[c])
      BY <1>1, <3>1, SetException
    <3> QED
      BY <2>2, <3>2, Zenon DEF Keeps, Retains, Same, Has
  <2> HIDE DEF u, v
  <2> QED
    BY <2>1, <2>2, <2>3, <2>4, ConfigureOk, Zenon
<1>3. CASE EptUnHook
  <2> DEFINE u == [users EXCEPT !.hidden = @ - 1]
             v == [c \in Cores |-> IF u.hidden # 0 THEN vmcs[c]
                                   ELSE UnsetExceptionBitmap(vmcs[c], BP, c, events, u)]
  <2>1. Configure(v, u) /\ phase' \subseteq Procs /\ users.hidden > 0
    BY <1>3 DEF EptUnHook, IInv, TypeOK
  <2>2. u \in Users /\ u.kernel = users.kernel /\ u.user = users.user /\ u.threadByDr = users.threadByDr
    BY <1>1, <2>1 DEF Users
  <2>3. v = [c \in Cores |-> v[c]]
    BY Zenon
  <2>4. ASSUME NEW c \in Cores
        PROVE  v[c] \in Controls /\ Keeps(v[c], u, c) /\ Retains(vmcs[c], v[c], c)
    <3>1. v[c] = IF u.hidden # 0 THEN vmcs[c] ELSE UnsetExceptionBitmap(vmcs[c], BP, c, events, u)
      BY Zenon
    <3> HIDE DEF u, v
    <3>2. CASE u.hidden # 0
      BY <1>1, <2>1, <2>2, <3>1, <3>2, Zenon DEF IInv, Keeps, Retains
    <3>3. CASE u.hidden = 0
      <4>1. v[c] \in Controls /\ Keeps(v[c], u, c) /\ Same(vmcs[c], v[c])
        BY <1>1, <2>2, <3>1, <3>3, UnsetException
      <4> QED
        BY <4>1 DEF Retains, Same, Has
    <3> QED
      BY <3>2, <3>3, Zenon
  <2> HIDE DEF u, v
  <2> QED
    BY <2>1, <2>2, <2>3, <2>4, ConfigureOk
<1> QED
  BY <1>2, <1>3, Zenon

\* Thread interception: mov-to-cr3 exiting serves no event.
LEMMA AttachingOk ==
  ASSUME IInv, NEW p \in Procs, NEW b \in BOOLEAN, AttachingConfigureInterceptingThreads(p, b)
  PROVE  IInv'
<1> DEFINE u == [users EXCEPT !.checkPf = b]
           v == [c \in Cores |-> IF b THEN On(vmcs[c], "cr3") ELSE DisableMovToCr3Exiting(vmcs[c], u)]
<1>1. vmcs \in [Cores -> Controls] /\ users \in Users
  BY Zenon DEF IInv, TypeOK
<1>2. Configure(v, u) /\ phase' \subseteq Procs
  BY Zenon DEF AttachingConfigureInterceptingThreads, IInv, TypeOK
<1>3. /\ u \in Users /\ u.kernel = users.kernel /\ u.user = users.user /\ u.hidden = users.hidden
      /\ u.threadByDr = users.threadByDr
  BY <1>1 DEF Users
<1>4. /\ v = [c \in Cores |-> v[c]]
      /\ \A c \in Cores : v[c] \in {vmcs[c], On(vmcs[c], "cr3"), Off(vmcs[c], "cr3")}
  BY Zenon DEF DisableMovToCr3Exiting
<1> HIDE DEF u, v
<1>5. ASSUME NEW c \in Cores
      PROVE  v[c] \in Controls /\ Keeps(v[c], u, c) /\ Retains(vmcs[c], v[c], c)
  <2>1. vmcs[c] \in Controls /\ Keeps(vmcs[c], u, c)
    BY <1>1, <1>3 DEF IInv, Keeps
  <2>2. /\ v[c] \in Controls /\ v[c].exc = vmcs[c].exc
        /\ v[c].rdmsr = vmcs[c].rdmsr /\ v[c].wrmsr = vmcs[c].wrmsr
        /\ \A x \in UnsharedTypes : x \in vmcs[c].exits => x \in v[c].exits
    <3>1. "cr3" \in Exits /\ "cr3" \notin UnsharedTypes
      BY DEF Exits, UnsharedTypes
    <3> QED
      BY <1>4, <2>1, <3>1, OnOff
  <2> QED
    BY <2>1, <2>2, MoreRetains DEF Keeps, More
<1> QED
  BY <1>2, <1>3, <1>4, <1>5, ConfigureOk

-----------------------------------------------------------------------------
(* The theorems *)

\* The inductive invariant holds initially.
LEMMA InitInv == Init => IInv
<1> SUFFICES ASSUME Init PROVE IInv
  BY Zenon
<1>1. /\ events = <<>> /\ events \in Seq(Event) /\ Len(events) <= MaxEvents /\ DOMAIN events = {}
  BY BoundAssumption DEF Init
<1>2. \A c \in Cores : vmcs[c] \in Controls
  BY Zenon DEF Init, Controls
<1>3. vmcs \in [Cores -> Controls]
  BY <1>2, Zenon DEF Init
<1>4. users \in Users
  BY Zenon DEF Init, Users, NoCores
<1>5. TypeOK
  BY <1>1, <1>3, <1>4, Zenon DEF Init, TypeOK, NoCores
<1>6. \A c \in Cores : Keeps(vmcs[c], users, c)
  <2>1. /\ users.kernel = FALSE /\ users.user = FALSE /\ users.hidden = 0
        /\ \A c \in Cores : users.threadByDr[c] = FALSE
    BY DEF Init, NoCores
  <2>2. ~(users.hidden > 0)
    BY <2>1
  <2> QED
    BY <2>1, <2>2, Zenon DEF Keeps
<1> QED
  BY <1>1, <1>5, <1>6, Zenon DEF Init, IInv, Served

\* Every step keeps the inductive invariant.
LEMMA NextInv == IInv /\ [Next]_vars => IInv'
<1> SUFFICES ASSUME IInv, [Next]_vars PROVE IInv'
  OBVIOUS
<1>1. CASE \E e \in Event : RegisterEvent(e)
  BY <1>1, RegisterEventOk
<1>2. CASE \E i \in DOMAIN events : ClearEvent(i) \/ TerminateNext(i)
  BY <1>2, ClearEventOk, TerminateNextOk
<1>3. CASE \/ ClearAllEvents \/ RemoveAllEvents \/ HaltSystem
           \/ \E kind \in {"process", "thread"}, b \in BOOLEAN : RequestSwitch(kind, b)
  BY <1>3, FrameOk
<1>4. CASE KdInitializeKernelDebugger \/ KdUninitializeKernelDebugger
  BY <1>4, KernelDebuggerOk, Zenon
<1>5. CASE UdInitializeUserDebugger \/ UdUninitializeUserDebugger
  BY <1>5, UserDebuggerOk
<1>6. CASE TransparentHideDebugger \/ TransparentUnhideDebugger
  BY <1>6, TransparentOk, Zenon
<1>7. CASE (\E n \in {0, 1} : EptHook(n)) \/ EptUnHook
  BY <1>7, HookOk
<1>8. CASE \E p \in Procs, b \in BOOLEAN : AttachingConfigureInterceptingThreads(p, b)
  BY <1>8, AttachingOk, Zenon
<1>9. CASE \E c \in Cores, b \in BOOLEAN : AttachingHandleCr3Vmexits(c, b)
  BY <1>9, Cr3VmexitOk
<1>10. CASE SwitchCore \/ ContinueSystem
  BY <1>10, UnmaskStepOk, Zenon
<1>11. CASE \E c \in Cores : HaltCore(c) \/ ContinueCore(c) \/ GuaranteedStep(c)
  BY <1>11, CoreStepsOk
<1>12. CASE UNCHANGED vars
  <2>1. TypeOK' /\ (~clearing' => done' = {})
    BY <1>12, Zenon DEF vars, IInv, TypeOK
  <2>2. Served'
    BY <1>12 DEF vars, IInv, Served, Has, Covers, MsrsOf
  <2>3. \A c \in Cores : Keeps(vmcs'[c], users', c)
    BY <1>12, Zenon DEF vars, IInv
  <2> QED
    BY <2>1, <2>2, <2>3 DEF IInv, Keeps
<1> QED
  BY <1>1, <1>2, <1>3, <1>4, <1>5, <1>6, <1>7, <1>8, <1>9, <1>10, <1>11, <1>12 DEF Next

\* The inductive invariant says what the three properties say.
LEMMA InvImplies == IInv => TypeOK /\ DebuggerExceptionsKept /\ UnsharedEventsIntercepted
<1> SUFFICES ASSUME IInv PROVE TypeOK /\ DebuggerExceptionsKept /\ UnsharedEventsIntercepted
  OBVIOUS
<1>1. TypeOK /\ DebuggerExceptionsKept
  BY Zenon DEF IInv, Keeps, DebuggerExceptionsKept
<1>2. ASSUME NEW i \in DOMAIN events \ done, NEW c \in Cores,
             events[i].type \in UnsharedTypes, Covers(events[i], c)
      PROVE  Intercepts(vmcs[c], events[i])
  <2>1. Has(vmcs[c], events[i])
    BY <1>2, Zenon DEF IInv, Served
  <2> QED
    BY <1>2, <2>1, Zenon DEF Has, Intercepts, UnsharedTypes
<1> QED
  BY <1>1, <1>2, Zenon DEF UnsharedEventsIntercepted

\* Every variable keeps its type, for every number of cores and every choice
\* of event types, parameters and features.
THEOREM TypeCorrect == Spec => []TypeOK
  BY InitInv, NextInv, InvImplies, PTL DEF Spec

\* The exception bitmap of every core keeps #BP and #DB while a debugger is
\* on, #BP while a page has hidden breakpoints and #DB while a debug register
\* watches for a thread switch: no event that is registered, cleared or
\* terminated and no other user that is switched off takes them away
\* (HvSetExceptionBitmap's callers all go through the integrity check of
\* ProtectedHv.c).
THEOREM ExceptionsKept == Spec => []DebuggerExceptionsKept
  BY InitInv, NextInv, InvImplies, PTL DEF Spec

\* An event of a type that shares its control with no other event type is
\* intercepted on every core it covers until it is itself terminated, whatever
\* else is registered, cleared, halted, stepped or switched (Termination.c
\* applies the remaining events of the type again, ProtectedHv.c keeps a
\* control that an event still needs).
THEOREM UnsharedIntercepted == Spec => []UnsharedEventsIntercepted
  BY InitInv, NextInv, InvImplies, PTL DEF Spec
==============================================================================
